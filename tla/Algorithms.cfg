SPECIFICATION Spec
CONSTANTS
    P = 13
    Generator = 2
    ByteSize = 2
    PerElement = 3
    Err = Err
    Challenge <- Digest
    One = 64
    MaxLen = 3
    MaxSection = 2
    MaxWeight = 4
    Budgets <- SomeBudgets
    Particles <- FourParticles
    Radii <- ZeroToTwo
    MaxValue = 2
    Foci <- SomeFoci
    MaxDomain = 9
    TipHeights <- TwoHeights
    TipRoots <- TwoRoots
    MeshPeers <- FourPeers
    MeshMessages <- SomeMessages
    Fanout = 0
    Publishers <- OneAndFour
    Takers <- TwoAndThree
    Subscriptions <- ListenToU
    Miner <- TwoMiners
    Nonce <- TwoNonces
    Win <- Wins
    Slot <- ThreeSlots
    Len0 = 2
    Checked = TRUE
CHECK_DEADLOCK FALSE
INVARIANTS
    BudgetConserved
    ClustersExact
    LotteryFair
    NamespaceComplete
    ShardsRestore
    CodecsExact
    BeaconBound
    HalfAtMost
    TipsTrusted
    MeshExact
    CountedOnce
    MonoidLaws
