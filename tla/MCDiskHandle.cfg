SPECIFICATION Spec
CONSTANTS
    SectorSize = 3
    Sectors = 3
    Thread = {t1, t2, t3}
    NoThread = NoThread
    Zero = Zero
    Request <- MixedRequests
SYMMETRY Symmetry
INVARIANTS
    TypeOK
    MisalignedWritesSurvive
    MisalignedCallsAtomic
    CountIsHonest
    CountIsWhole
