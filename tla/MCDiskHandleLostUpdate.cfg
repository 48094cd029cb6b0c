SPECIFICATION Spec
CONSTANTS
    SectorSize = 2
    Sectors = 2
    Thread = {t1, t2}
    NoThread = NoThread
    Zero = Zero
    Request <- ClashingRequests
INVARIANT NoLostUpdate
