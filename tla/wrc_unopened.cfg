CONSTANTS
    Counts <- OnePair
    MaxK = 1
    Faults = {"iterate"}
    MaxTurns = 1
    Latencies = {1}
    ReadPrefill = 4
    ScanFrames = 1
SPECIFICATION FairSpec
PROPERTY
    RunEnds
CHECK_DEADLOCK FALSE
