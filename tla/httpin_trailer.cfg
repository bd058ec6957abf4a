\* A last chunk with no trailer, and a pipelined request.
CONSTANTS
    Size = 8
    Modulus = 64
    Radix = 4
    Requests <- NoTrailer
    Starts <- Some
    Counts <- Four
    MaxCalls = 6
    MaxFaults = 0
SPECIFICATION Spec
INVARIANT NextBegins
CHECK_DEADLOCK FALSE
