SPECIFICATION Spec
CONSTANTS
    NumPeers    = 2
    StartHeight = 3
    MaxHeight   = 5
    WithTx      = {2, 3}
    BatchSize   = 2
    MaxTimeouts = 2
    MaxRetries  = 1
    MaxGossip   = 2
INVARIANTS
    TypeOK
    AppliedOnce
    ContinuesTip
    SyncedWhenDone
PROPERTY
    Terminates
CHECK_DEADLOCK FALSE
