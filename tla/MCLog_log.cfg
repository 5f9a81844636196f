SPECIFICATION FairSpec
CONSTANTS
    t1 = t1
    t2 = t2
    n1 = n1
    f0 = f0
    f1 = f1
    Threads <- Two
    Setters <- JustT1
    Names <- TwoNames
    Root = root
    Formats <- TwoFormats
    Default = f0
    NoFormat = nofmt
    BadFormat = badfmt
    Configs <- SomeConfigs
    Levels <- TwoLevels
    Null = null
    Mine = mine
    MaxSets = 3
    MaxCalls = 2
INVARIANTS
    InheritedFormatter
    LoggersFollowConfig
    WholeDefinition
PROPERTIES
    CallsReturn
