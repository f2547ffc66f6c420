CONSTANTS
    Threads = {t1, t2, t3}
    NoThread = NoThread
    MaxSpurious = 2
SPECIFICATION Spec
INVARIANTS
    TypeOK
    NoLostWakeUp
PROPERTIES
    ImplementsStartGate
    EveryoneReturns
