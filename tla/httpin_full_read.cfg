\* A buffer as large as the ring.
CONSTANTS
    Size = 8
    Modulus = 64
    Radix = 4
    Requests <- Long
    Starts <- Some
    Counts <- Four
    MaxCalls = 6
    MaxFaults = 0
SPECIFICATION Spec
INVARIANT DeliveredAlways
CHECK_DEADLOCK FALSE
