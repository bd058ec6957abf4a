SPECIFICATION Spec
CONSTANTS
    Requests <- All
    OutCap = 2
    Partial = TRUE
    MaxRequests = 2
    MaxHeaders = 1
    MaxWrites = 2
INVARIANTS TypeOK Framed NoLoss ClientAgrees
CHECK_DEADLOCK FALSE
