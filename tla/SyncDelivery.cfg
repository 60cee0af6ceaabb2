SPECIFICATION FairSpec
CONSTANTS
    Name <- OneName
    Content <- OneContent
    Device <- TwoDevices
    MaxTime = 1
    Drift = 1
    MaxEntries = 2
    EntryHash <- MCHash
    NoEntry = NoEntry
    Daemon <- Daemons12
    Cli <- Cli1
    Dir <- MCDir
    Peers <- Line
    K = 1
    N = 1
    NoFile = NoFile
    Torn = Torn
    Overlap = FALSE
    CrashAt <- NotSaving
    OverflowChecks = FALSE
    MaxIssued = 8
PROPERTIES
    DirectDelivery
    AutoSyncRuns
