CONSTANTS
    s0 = s0
    s1 = s1
    Streams = {s0, s1}
    Stream0 = s0
    MinBlockSize = 96
    MinBlocks = 2
    SpareBlocks = 1
    DefaultBlocks = 4
    SafetyFactor = 4
    Word32 = 1024
    Word64 = 1048576
    FrameSize = 40
    NumFrames = 4
    Prefill = 9
    MaxFrames = 5
    MaxRounds = 2
    Faults = {"write", "output"}
    Matrices <- OneWriter
SPECIFICATION Spec
INVARIANT
    VerdictsAreTrue
