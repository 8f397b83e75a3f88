SPECIFICATION Spec
CONSTANTS
    f = f
    c1 = c1
    c2 = c2
    p = p
    q = q
    Attempt = {f, c1, c2}
    Fresh = f
    Pid = {p, q}
    PidOf <- MCPidOf
    NoLock = NoLock
    MaxWaits = 1
    MaxCrashes = 1
PROPERTY CompletedIsFinal
SYMMETRY MCSymmetry
CHECK_DEADLOCK FALSE
