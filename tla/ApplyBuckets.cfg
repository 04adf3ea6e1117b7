SPECIFICATION MCSpec
CONSTANTS
    CheckpointFrequency = 4
    CatchupCount = 2
    kNumLevels = 3
    LedgerHash <- MCLedgerHash
    CloseStore <- closeStore
    AssumeStore <- assumeStore
    NetworkData <- MCNetworkData
    Batch <- MCBatch
    ArchiveLedgers <- MCArchiveLedgers
    ArchiveTxSet <- MCArchiveTxSet
    ArchiveState <- MCArchiveState
    GenesisHeader <- MCGenesisHeader
    Flaws = {"fork", "hash", "short", "gap", "txs"}
    ForkAt = 6
    Genesis = {"a"}
    Gaps <- MCGaps
    Unheard <- MCUnheard
    LastSlot = 25
    MaxGaps = 1
    MaxFailures = 0
    MaxRestarts = 0
INVARIANT ConsistentWithDatabase
CHECK_DEADLOCK FALSE
