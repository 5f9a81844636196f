SPECIFICATION FairSpec
CONSTANTS
    t1 = t1
    t2 = t2
    t3 = t3
    unknow = unknow
    other = other
    Threads = {t1, t2, t3}
    Main = main
    Null = null
    Names = {unknow, other}
    EmptyName = empty
    Unknow = unknow
    Given <- MCGiven
    Renamers <- MCRenamers
INVARIANTS Handshake FreedUnused GivenBackOnce
PROPERTY CallsReturn
