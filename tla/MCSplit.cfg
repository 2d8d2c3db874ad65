SPECIFICATION Spec
CONSTANTS
    NodeCount = 2
    Amounts <- MCAmounts
    Targets = {0, 3, 5}
    MaxRuns <- MCMaxRuns
INVARIANTS
    ReturnedIsWallet
    BuiltOnUnspent
    NeverTooMany
    ExactCount
    PassMeansConfirmed
    NoFalseAlarm
PROPERTY
    EveryRunEnds
CHECK_DEADLOCK FALSE
