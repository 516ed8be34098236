SPECIFICATION Spec
CONSTANTS
    MaxInt = 31
    Full = 10
    Arguments <- EveryAmount
    Opening <- EveryAmount
    Parties = 5
INVARIANTS ExactAwayFromMin PanicMeansOverflow ShareConserves PercentSplit
