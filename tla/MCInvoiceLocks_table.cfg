CONSTANTS
    Threads = {t1, t2, t3}
    Keys = {k1, k2}
    Objs = {o1, o2, o3, o4}
    MaxLocks = 1
    None = None

SPECIFICATION FairSpec
INVARIANT ReleaseNeverFails
INVARIANT NoForgottenEntry
PROPERTY ImplementsMutex
PROPERTY EveryRequestReturns
