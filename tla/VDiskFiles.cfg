SPECIFICATION Spec
CONSTANTS
    f1 = f1
    f2 = f2
    s1 = s1
    s2 = s2
    s3 = s3
    Name <- TwoNames
    Content <- Versions
    Device <- Managers
    MaxTime = 2
    Drift = 0
    MaxEntries = 2
    EntryHash <- MCHash
    NoEntry = NoEntry
    Disk = {"w", "m"}
    Store <- ThreeStores
    Data = {"x"}
    Redundancy <- Tolerance
    Full = Full
    Elements <- Lengths
    Offer <- Offers
    Slots <- SlotsOf
    MaxSlots = 3
    Foreign <- Others
    NoStore = NoStore
SYMMETRY Symmetry
CHECK_DEADLOCK FALSE
INVARIANTS TypeOK ToleratesLosses RechunkSupersedes SpaceAccounted
