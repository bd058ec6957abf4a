CONSTANTS
    p1 = p1
    p2 = p2
    p3 = p3
    Pids <- TwoPids
    Listeners <- One
    InitForks = 2
    MinSpares = 1
    MaxSpares = 1
    MaxForks = 2
    MaxMsg = 2
    Logging = FALSE
    MaxConns = 1
    MaxFaults = 0
SPECIFICATION Spec
CHECK_DEADLOCK FALSE
INVARIANT SemaphoreKept
