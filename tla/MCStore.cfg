SPECIFICATION StoreSpec
CONSTANTS
    Tx         <- MCStoreTx
    TxInputs   <- MCStoreInputs
    TxOutputs  <- MCStoreOutputs
    U64        = 16
    MempoolMaxSize = 2
    GenesisTxs <- MCGenesisTxs
    Bodies     <- MCBodies
    Accounts   <- MCAccounts
    MaxHeight  = 5
INVARIANTS
    SledIsReplay
    StoresAgree
    NoInflation
    TypeOK
    NoSharedInput
    InFlightExact
    ValuesInSync
    WithinCapacity
PROPERTY
    EvictionRaisesFloor
