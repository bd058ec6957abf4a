\* Every kind of request, split in every way, one failing readv().
CONSTANTS
    Size = 8
    Modulus = 64
    Radix = 4
    Requests <- All
    Starts <- Some
    Counts <- Four
    MaxCalls = 6
    MaxFaults = 1
SPECIFICATION FairSpec
INVARIANT TypeOK
INVARIANT Delivered
INVARIANT NextBegins
PROPERTY Finishes
CHECK_DEADLOCK FALSE
