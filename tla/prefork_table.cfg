\* Three children, kills of surplus spares, one listener.
CONSTANTS
    p1 = p1
    p2 = p2
    p3 = p3
    Pids <- ThreePids
    Listeners <- One
    InitForks = 2
    MinSpares = 1
    MaxSpares = 1
    MaxForks = 3
    MaxMsg = 2
    Logging = TRUE
    MaxConns = 2
    MaxFaults = 1
SPECIFICATION Spec
SYMMETRY Symmetry
INVARIANT TypeOK
INVARIANT OnePoller
INVARIANT TableIsChildren
INVARIANT Ledger
INVARIANT SparesKept
PROPERTY NoForkInShutdown
CHECK_DEADLOCK FALSE
