\* Two listeners, a fault and a shutdown at any point, no child surplus.
CONSTANTS
    p1 = p1
    p2 = p2
    p3 = p3
    Pids <- TwoPids
    Listeners <- Two
    InitForks = 2
    MinSpares = 1
    MaxSpares = 2
    MaxForks = 2
    MaxMsg = 4
    Logging = FALSE
    MaxConns = 2
    MaxFaults = 1
SPECIFICATION FairSpec
PROPERTY AcceptedEventually
PROPERTY ShutdownCompletes
CHECK_DEADLOCK FALSE
