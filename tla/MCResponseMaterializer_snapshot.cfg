SPECIFICATION FairSpec
CONSTANTS
    Readers = {r1}
    Loop = loop
    Main = main
    Writes = {w1, w2}
    QueryLimit = 2
    WaitLimit = 3
    Ttl = 2
    Sleep = 1
    None = none
INVARIANTS
    OneBuild
    NothingInvalidatedIsServed
    UndisturbedCallsAreAnswered
PROPERTIES
    EveryCallReturns
    WritesBecomeVisible
