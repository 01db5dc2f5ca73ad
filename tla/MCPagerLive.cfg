SPECIFICATION LiveSpec
CONSTANTS
    NumPages = 2
    NumVirtualPages = 3
    IdSpace = 4
    CounterSpace = 3
    PrefetchCount = 2
    PrefetchMax = 2
    HintCounts = {2}
    Value = {0}
    Zero = 0
    Shared = {}
INVARIANTS IInv StatsBalance
PROPERTY CallsReturn
