SPECIFICATION Spec
CONSTANTS
    t1 = t1
    t2 = t2
    f1 = f1
    f2 = f2
    c1 = c1
    c2 = c2
    Null = Null
    AnyThread = AnyThread
    Threads <- TwoThreads
    UserFibers <- OneFiber
    Cbs <- OneCb
    Pins <- Anyone
    Configs <- CallerOnly
    MaxWakes = 2
    MaxYields = 1
    MaxStarts = 1
    StaleWakes = FALSE
    HandOff = FALSE
INVARIANTS
    ExecutingIsExec
    AbortsExplained
PROPERTIES
    EndIsFinal
