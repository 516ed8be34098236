SPECIFICATION Spec
CONSTANTS
    MaxInt = 134217727
    Full = 10000
    Amounts <- Boundary
    Typed <- AllTexts
    Driver = "int64"
INVARIANTS TypeOK AmountKept OnlyMinIntRefused ReadsAsWritten
