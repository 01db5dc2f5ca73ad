SPECIFICATION ProgSpec
CONSTANTS
    NumPages = 2
    NumVirtualPages = 8
    IdSpace = 16
    CounterSpace = 64
    PrefetchCount = 4
    PrefetchMax = 8
    HintCounts = {}
    Value = {0, 1, 2}
    Zero = 0
    Shared = {2, 5}
    Foreign = {5}
    PatternSpace = 3
    MaxRetries = 2
    Iterations = 4
    BenchmarkPages = 3
INVARIANTS ProgTypeOK VerifiedContent NoFalseAlarm RangeExceedsCache VerifyExercises
PROPERTIES Refines 
CHECK_DEADLOCK FALSE
