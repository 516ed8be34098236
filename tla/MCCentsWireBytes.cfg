SPECIFICATION Spec
CONSTANTS
    MaxInt = 134217727
    Full = 10000
    Amounts <- Boundary
    Typed <- OddTexts
    Driver = "bytes"
INVARIANT AmountKept
