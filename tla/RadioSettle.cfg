SPECIFICATION FairSpec
CONSTANTS
    Miner <- Miners
    Nonce <- Nonces
    Win <- Wins
    Topic <- Topics
    Node = {"a", "b", "c"}
    Task <- Tasks4
    Peers <- StarPeers
    On <- StarOn
    Kind <- StarKind
    About <- StarAbout
    Posts <- StarPosts
    MinerOf <- StarMiner
    Added <- OwnAdded
    Start <- FromZero
    Tries <- WantTwo
    Want = 2
    Clients = 1
    KMin = 1
CHECK_DEADLOCK FALSE
INVARIANTS TypeOK ArrivedOnce LeavesCounted
PROPERTIES ClaimsHandedOut HandsOutOnce
