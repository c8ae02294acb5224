CONSTANTS
    Threads = {t1, t2}
    Decisions = {d1}
    MaxProposals = 2
    MaxLearns = 2
    Faults = TRUE
    None = None

SPECIFICATION FairSpec
INVARIANT ResolutionsAreVerified
INVARIANT LearnClosesProposal
INVARIANT IndexIsSound
PROPERTY ImplementsLifecycle
PROPERTY EveryRequestReturns
