CONSTANTS
    Counts <- Sweep
    MaxK = 2
    Faults <- CaughtFaults
    MaxTurns = 4
    Latencies = {1, 5}
SPECIFICATION FairSpec
INVARIANTS
    StreamsInOrder
    ResultsMatchThreads
PROPERTY
    RunEnds
