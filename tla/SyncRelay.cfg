SPECIFICATION FairSpec
CONSTANTS
    Name <- OneName
    Content <- TwoContents
    Device <- ThreeDevices
    MaxTime = 0
    Drift = 0
    MaxEntries = 2
    EntryHash <- MCHash
    NoEntry = NoEntry
    Daemon <- Daemons23
    Cli <- Cli1
    Dir <- MCDir
    Peers <- Line
    K = 1
    N = 1
    NoFile = NoFile
    Torn = Torn
    Overlap = FALSE
    CrashAt = {}
    OverflowChecks = FALSE
    MaxIssued = 2
PROPERTIES
    Convergence
