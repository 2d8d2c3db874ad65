SPECIFICATION Spec
CONSTANTS
    p1 = p1
    p2 = p2
    Tx         <- MCTxTwo
    TxInputs   <- MCTxInputs
    TxOutputs  <- MCTxOutputs
    U64        = 16
    MempoolMaxSize = 2
    Peers      = {p1, p2}
    GenesisTxs <- MCGenesisFew
    Bodies     <- BodiesEmptyPay
    StalePools = FALSE
    Me         = "me"
    Elect      <- ElectEven
    MaxTxs     = 2
    MaxHash    = 2
    MaxHeight  = 2
    MaxSlot    = 2
    MaxCrashes = 1
SYMMETRY PeerSymmetry
INVARIANTS
    TypeOK
    FiledByHeight
    StoredIsIndexed
    FairElection
    RootNamesBody
CHECK_DEADLOCK FALSE
