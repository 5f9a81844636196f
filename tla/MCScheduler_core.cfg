SPECIFICATION FairSpec
CONSTANTS
    t1 = t1
    t2 = t2
    f1 = f1
    f2 = f2
    c1 = c1
    c2 = c2
    Null = Null
    AnyThread = AnyThread
    Threads <- OneThread
    UserFibers <- OneFiber
    Cbs <- TwoCbs
    Pins <- AnyoneOrT2
    Configs <- AllConfigs
    MaxWakes = 2
    MaxYields = 1
    MaxStarts = 2
    StaleWakes = FALSE
    HandOff = FALSE
INVARIANTS
    OnItsStack
    ReadyExactlyOnce
    CallbackConserved
    CbFiberIsFree
    StoppingMeansNobodyRuns
    StartDrains
    AbortsExplained
PROPERTIES
    StartReturns
    EarlyBegins
    ImplementsPool
