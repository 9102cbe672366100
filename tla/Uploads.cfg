SPECIFICATION UploadsSpec
CONSTANTS
    Budget = 3
    ChunkQuota = 2
    Channel = 1
    MaxOutput = 2
    Steps = 2
    Files = {f1}
    Attempts = 2
    Cancels = {"cancel_requested"}
    Sources = {"git", "snapshot"}
    i1 = i1
    i2 = i2
    Inventories = {i1, i2}
    NoInventory = none
    MaxGeneration = 2
    MaxSequence = 2
    MaxPairings = 2
INVARIANTS
    LogFaithful
    SuccessComplete
    RefusalExplained
    InventoryAgrees
SYMMETRY Symmetry
CHECK_DEADLOCK FALSE
