SPECIFICATION Spec
CONSTANTS
    p1 = p1
    p2 = p2
    Tx         <- MCTxFew
    TxInputs   <- MCTxInputs
    TxOutputs  <- MCTxOutputs
    U64        = 16
    MempoolMaxSize = 2
    Peers      = {p1, p2}
    GenesisTxs <- MCGenesisFew
    Bodies     <- BodiesPayOnward
    StalePools = FALSE
    Me         = "me"
    Elect      <- ElectOthers
    MaxTxs     = 2
    MaxHash    = 2
    MaxHeight  = 2
    MaxSlot    = 2
    MaxCrashes = 0
SYMMETRY PeerSymmetry
INVARIANT
    UtxoIsReplay
CHECK_DEADLOCK FALSE
