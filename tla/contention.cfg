CONSTANTS
    Counts <- Sweep
    MaxK = 2
    Faults <- FaultKinds
    MaxTurns = 2
    Latencies = {1}
    ReadPrefill = 8
    ScanFrames = 3
SPECIFICATION Spec
INVARIANTS
    TypeOK
    ScansAreComplete
    StartTogether
    FirstFailureReported
    NoThreadOutlivesItsLocals
CHECK_DEADLOCK FALSE
