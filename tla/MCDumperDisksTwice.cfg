SPECIFICATION Spec
CONSTANTS
    Access = {}
    Connection = {c1}
    Handle = {h1}
    Nil = Nil
    Mode = {"clone"}
INVARIANT NothingReleasedTwice
