SPECIFICATION Spec
CONSTANTS
    NumPages = 2
    NumVirtualPages = 3
    IdSpace = 4
    CounterSpace = 1
    PrefetchCount = 2
    PrefetchMax = 2
    HintCounts = {3}
    Value = {0, 1}
    Zero = 0
    Shared = {2}
INVARIANTS TypeOK FramePartition TablesAgree CleanMatchesStore EvictHasVictims PointerStable
PROPERTIES ContentPreserved
