SPECIFICATION Spec
CONSTANTS
    t1 = t1
    t2 = t2
    n1 = n1
    n2 = n2
    T1 = T1
    T2 = T2
    T3 = T3
    v0 = v0
    v1 = v1
    v2 = v2
    bad = bad
    l1 = l1
    l2 = l2
    Null = Null
    Registry = Registry
    Threads <- TwoThreads
    Names <- TwoNames
    Types <- ThreeTypes
    Values <- ThreeValues
    Bad = bad
    Default = v0
    Listeners <- TwoListeners
    Wanted <- TwoOfOneType
    Documents <- NoDocument
    Writers <- Everyone
    Subscribers <- Everyone
    MaxJobs = 0
    MaxAdds = 2
    MaxVisits = 0
INVARIANT
    KeysAreUnique
