SPECIFICATION WatchSpec
CONSTANTS
    f = f
    c1 = c1
    p = p
    q = q
    Attempt = {f, c1}
    Fresh = f
    Pid = {p, q}
    PidOf <- MCPidOf
    NoLock = NoLock
    MaxWaits = 1
    MaxCrashes = 1
PROPERTY
    ParkedIsNotCrashed
CHECK_DEADLOCK FALSE
