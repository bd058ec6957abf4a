\* One request of which the parser misreads an escape, a continuation and a length.
CONSTANTS
    Size = 8
    TextSize = 18
    IntSize = 2
    Modulus = 100
    MaskBits = 32
    Words <- MCWords
    Connections <- Misread
    MaxFaults = 0
SPECIFICATION Spec
INVARIANT FormsRead
CHECK_DEADLOCK FALSE
