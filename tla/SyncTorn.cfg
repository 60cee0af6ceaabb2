SPECIFICATION Spec
CONSTANTS
    Name <- OneName
    Content <- OneContent
    Device <- OneDevice
    MaxTime = 1
    Drift = 1
    MaxEntries = 2
    EntryHash <- MCHash
    NoEntry = NoEntry
    Daemon <- NoDaemon
    Cli <- Cli1
    Dir <- MCDir
    Peers <- Mesh
    K = 1
    N = 1
    NoFile = NoFile
    Torn = Torn
    Overlap = FALSE
    CrashAt <- Saving
    OverflowChecks = FALSE
    MaxIssued = 8
INVARIANTS
    AckDurable
