SPECIFICATION Spec
CONSTANTS
    Access = {}
    Connection = {c1, c2, c3}
    Handle = {h1, h2}
    Nil = Nil
    Mode = {"clone", "restore"}
SYMMETRY Symmetry
INVARIANTS
    TypeOK
    NothingOrphaned
    IdleMeansReleased
    HandleOverLiveConnection
    UsableUntilCleanup
