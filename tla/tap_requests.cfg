\* Reloads of good and bad configurations, and two requests on a connection.
CONSTANTS
    Readable <- MCReadable
    Scripts <- MCScripts
    Sources <- MCSources
    MaxEdits = 1
    MaxFaults = 1
    Requests <- MCRequests
    Results <- MCResults
    Asked <- MCAsked
    Added <- MCAdded
    Decimal <- MCDecimal
    Modulus = 200
    MaxRequests = 2
SPECIFICATION Spec
INVARIANT TypeOK
INVARIANT Survives
INVARIANT Reaches
INVARIANT LogTrue
 
INVARIANT HeaderGot
INVARIANT HeaderAdded
CHECK_DEADLOCK FALSE
