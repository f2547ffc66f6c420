CONSTANTS
    ReaderCounts <- Sweep
    PrefillFrames = 5
    ScanFrames = 2
    FrameSize = 2
    DurabilityBytes = 4
    TsStart = 10
    TsStep = 2
    Faults <- FaultKinds
    MaxWrites = 3
    MaxReads = 1
SPECIFICATION FairSpec
INVARIANTS
    TypeOK
    TimestampsIncrease
    BoundedLoss
    SyncedBetweenSweeps
    OpsAccountForFrames
    ReadersNeverRunDry
    StartTogether
    NoSilentFailure
    NoThreadOutlivesItsLocals
PROPERTIES
    RunEnds
CHECK_DEADLOCK FALSE
