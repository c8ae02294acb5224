CONSTANTS
    p1 = p1
    p2 = p2
    t1 = t1
    t2 = t2
    t3 = t3
    d1 = d1
    d2 = d2
    e1 = e1
    e2 = e2
    Nobody = Nobody
    Threads = {t1, t2}
    Procs = {p1, p2}
    ProcOf <- TwoProcesses
    Decisions = {d1}
    Events = {e1}
    Faults = TRUE

SPECIFICATION Spec
SYMMETRY Identifiers
INVARIANT OutcomesCertified
