CONSTANTS
    w1 = w1
    w2 = w2
    r1 = r1
    s1 = s1
    s2 = s2
    Writers = {w1, w2}
    Readers = {r1}
    Own <- Shared
    Prewarmed = {s1}
    Failing = {"create", "put", "sync"}
    MaxFrames = 3
    KeyBytes = 3
    Byte = 2
SPECIFICATION Spec
INVARIANTS
    TypeOK
    HandlesAccounted
    IteratorsInOrder
PROPERTY
    BoundariesAreKept
