SPECIFICATION Spec
CONSTANTS
    s1 = s1
    s2 = s2
    s3 = s3
    vm1 = vm1
    vm2 = vm2
    Session = {s1}
    KeyOf <- OneSession
    Access = {vm1}
    Connection = {c1}
    Handle = {h1}
    Nil = Nil
    Closes = 1
CHECK_DEADLOCK FALSE
INVARIANT FailedOpenRollsBack
