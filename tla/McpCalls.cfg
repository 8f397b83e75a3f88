SPECIFICATION MCSpec
CONSTANTS
    f = f
    c1 = c1
    c2 = c2
    c3 = c3
    p = p
    q = q
    Attempt = {f, c1, c2, c3}
    Fresh = f
    Continue = c1
    Pid = {p, q}
    PidOf <- MCPidOf
    NoLock = NoLock
    MaxWaits = 1
    MaxCrashes = 1
INVARIANTS
    ServerTypeOK
    OneDriver
    LockHasOwner
    FailedCallIsOver
PROPERTIES
    NotCrashedWhileDriven
    CrashedForCause
    LockComesFree
CHECK_DEADLOCK FALSE
