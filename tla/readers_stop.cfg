CONSTANTS
    ReaderCounts <- OneSubExperiment
    PrefillFrames = 3
    ScanFrames = 1
    FrameSize = 2
    DurabilityBytes = 4
    TsStart = 10
    TsStep = 2
    Faults = {"prepare", "find"}
    MaxWrites = 2
    MaxReads = 1
SPECIFICATION FairSpec
PROPERTY
    StopsCleanly
CHECK_DEADLOCK FALSE
