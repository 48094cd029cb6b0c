SPECIFICATION Spec
CONSTANTS
    Dumper = {d1, d2}
    Access = {id1, id2, id3}
    Connection = {}
    Handle = {}
    Nil = Nil
    PrepareTries = 3
    EndTries = 2
    MaxAccess = 4
SYMMETRY Symmetry
INVARIANTS
    TypeOK
    AccessMatched
    PreparedIsRegistered
