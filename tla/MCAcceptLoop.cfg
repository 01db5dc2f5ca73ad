SPECIFICATION Spec
CONSTANTS
    Fd = {f1, f2, f3}
    NoFd = NoFd
    Tid = {t1, t2}
    InitialSlots = 1
    MaxSlots = 2
    MaxFaults = 2
    Clustered = TRUE
INVARIANTS TypeOK SlotPerThread NoFdLeak ResourcesOutliveThreads IInv
SYMMETRY Symmetry
CHECK_DEADLOCK FALSE
