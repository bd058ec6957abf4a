\* An application that adds any header of the table.
CONSTANTS
    Readable <- MCReadable
    Scripts <- OneScript
    Sources <- MCSources
    MaxEdits = 0
    MaxFaults = 0
    Requests <- OneRequest
    Results = {200}
    Asked = {}
    Added <- AddedAll
    Decimal <- MCDecimal
    Modulus = 200
    MaxRequests = 1
SPECIFICATION Spec
INVARIANT HeaderAdded
CHECK_DEADLOCK FALSE
