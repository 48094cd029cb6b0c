SPECIFICATION Spec
CONSTANTS
    s1 = s1
    s2 = s2
    s3 = s3
    vm1 = vm1
    vm2 = vm2
    Session = {s1, s2, s3}
    KeyOf <- ThreeSessions
    Access = {vm1, vm2}
    Connection = {c1, c2, c3}
    Handle = {h1, h2, h3}
    Nil = Nil
    Closes = 2
SYMMETRY Symmetry
CHECK_DEADLOCK FALSE
INVARIANTS
    TypeOK
    AccessMatched
    ReadyDiskWorks
    ConnectionsAccounted
    ClosedMeansReleased
    TwiceOnlyWhenClosedAgain
PROPERTY ImplementsDiskLease
