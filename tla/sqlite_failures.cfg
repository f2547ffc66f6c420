CONSTANTS
    w1 = w1
    w2 = w2
    r1 = r1
    s1 = s1
    s2 = s2
    Writers = {w1, w2}
    Readers = {r1}
    Own <- Shared
    Synchronous = "normal"
    Failing = {"row", "frame", "commit", "begin", "cursor"}
    MaxFrames = 2
    MaxProcesses = 1
SPECIFICATION FairSpec
INVARIANT
    FailuresAreThrown
PROPERTY
    CallsEnd
