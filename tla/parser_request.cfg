\* Requests split in every way, pipelined, in a small ring and store; Parsed says which forms it leaves out.
CONSTANTS
    Size = 8
    TextSize = 18
    IntSize = 2
    Modulus = 100
    MaskBits = 32
    Words <- MCWords
    Connections <- All
    MaxFaults = 1
SPECIFICATION FairSpec
INVARIANT TypeOK
INVARIANT Parsed
INVARIANT NextBegins
INVARIANT FlagResumed
INVARIANT StoreApart
PROPERTY Answered
CHECK_DEADLOCK FALSE
