SPECIFICATION Spec
CONSTANTS
    p1 = p1
    p2 = p2
    Tx         <- MCTxSerial
    TxInputs   <- MCTxInputs
    TxOutputs  <- MCTxOutputs
    U64        = 16
    MempoolMaxSize = 2
    Peers      = {p1}
    GenesisTxs <- MCGenesisFew
    Bodies     <- BodiesPayTwice
    StalePools = FALSE
    Me         = "me"
    Elect      <- ElectOthers
    MaxTxs     = 2
    MaxHash    = 3
    MaxHeight  = 2
    MaxSlot    = 2
    MaxCrashes = 1
INVARIANTS
    ChainLinked
    IndexedIsStored
    TipIsHighest
    UtxoIsReplay
    NoInflation
    PoolUnconfirmed
PROPERTIES
    ChainRefinement
CHECK_DEADLOCK FALSE
