CONSTANTS
    w1 = w1
    w2 = w2
    r1 = r1
    s1 = s1
    s2 = s2
    Writers = {w1, w2}
    Readers = {r1}
    Own <- Shared
    Synchronous = "full"
    Failing = {}
    MaxFrames = 2
    MaxProcesses = 2
SPECIFICATION Spec
INVARIANTS
    TypeOK
    FramesKeepTheirStream
PROPERTIES
    WritesAreWrapped
    ImplementsFrameStore
