CONSTANTS
    x = x
    y = y
    Byte <- TwoBytes
    Size = 4
    Modulus = 12
    Strings <- UpToFive
    ReadSizes <- Sizes
SPECIFICATION Spec
INVARIANT TypeOK
INVARIANT WithinSize
PROPERTY IsFifo
CHECK_DEADLOCK FALSE
