SPECIFICATION Spec
CONSTANTS
    p1 = p1
    p2 = p2
    Tx         <- MCTxFew
    TxInputs   <- MCTxInputs
    TxOutputs  <- MCTxOutputs
    U64        = 16
    MempoolMaxSize = 2
    Peers      = {p1}
    GenesisTxs <- MCGenesisFew
    Bodies     <- BodiesConflict
    StalePools = FALSE
    Me         = "me"
    Elect      <- ElectEven
    MaxTxs     = 2
    MaxHash    = 3
    MaxHeight  = 2
    MaxSlot    = 2
    MaxCrashes = 0
INVARIANT
    NoInflation
CHECK_DEADLOCK FALSE
