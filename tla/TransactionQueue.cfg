CONSTANTS
    Ids = {1, 2}
    Expiries = {Null, 2}
    Batched = TRUE
    MaxInFlight = 2
    BlocksBeforeResubmit = 1
    ReorgDepth = 1
    InitialCode = "none"
    OfflineReorgs = FALSE
    Null = Null
    MaxFee = 1000000
    MaxHeight = 3
    MaxMined = 4
    MaxCrashes = 1
    MaxExternal = 1
SPECIFICATION Spec
INVARIANT ExecutedOnce
INVARIANT GoneOnlyWhenDone
INVARIANT NothingStuck
CHECK_DEADLOCK FALSE
