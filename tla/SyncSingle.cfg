SPECIFICATION Spec
CONSTANTS
    Name <- OneName
    Content <- OneContent
    Device <- TwoDevices
    MaxTime = 1
    Drift = 1
    MaxEntries = 2
    EntryHash <- MCHash
    NoEntry = NoEntry
    Daemon <- Daemon1
    Cli <- Clis12
    Dir <- MCDir
    Peers <- Mesh
    K = 1
    N = 1
    NoFile = NoFile
    Torn = Torn
    Overlap = FALSE
    CrashAt <- NotSaving
    OverflowChecks = TRUE
    MaxIssued = 4
INVARIANTS
    TypeOK
    AckDurable
    FilesKept
    Provenance
PROPERTIES
    GcOnlyOrphans
    MemMonotone
