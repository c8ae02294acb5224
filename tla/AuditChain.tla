------------------------------ MODULE AuditChain ------------------------------
(***************************************************************************)
(* The sealed audit chain of the S2P domain: framework/audit.py and the    *)
(* S2PScoreAuditWriter of routers/s2p.py.                                  *)
(*                                                                         *)
(* Every scored decision and every outcome is sealed by one row of a       *)
(* hash-linked ledger.  The graph store has no transaction, so an append   *)
(* is two writes (the row under a fresh key, then the head record), and an *)
(* outcome is bracketed by a pending marker that a failed call leaves      *)
(* behind.  Threads of one process exclude each other with the process's   *)
(* own locks; worker processes share only the store.                       *)
(*                                                                         *)
(* A row stands for its own hash: the n-th row ever stored has position n  *)
(* in ledger, `prev` and `ref` hold positions, 0 is the genesis hash.      *)
(***************************************************************************)
EXTENDS Naturals, Sequences, FiniteSets

CONSTANTS
    Threads,     \* request threads of every worker process
    Procs,       \* worker processes
    ProcOf,      \* the process a thread belongs to
    Decisions,   \* decision identifiers
    Events,      \* outcome events (one per learn or outcome call)
    Faults,      \* may store calls fail and processes crash?
    Nobody       \* a lock without an owner, an operation without a subject

ASSUME ConstantsAssumption ==
    /\ ProcOf \in [Threads -> Procs]
    /\ Faults \in BOOLEAN
    /\ Decisions \cap Events = {}
    /\ Nobody \notin Threads \cup Decisions \cup Events

VARIABLES
    decisions,   \* decisions stored in the graph
    outcomes,    \* outcome events committed to the graph
    markers,     \* pending markers, named by the decision or event they guard
    ledger,      \* every audit row ever stored, in order of arrival
    head,        \* the persisted head record
    ledgerLock,  \* owner of each process's _ledger_lock
    domainLock,  \* owner of each process's domain mutation lock
    pc, op,      \* program counter and operation of each thread
    snap,        \* number of rows the thread has read
    ref,         \* the decision row an outcome will be linked to
    link,        \* the row the new row will link to
    own,         \* the row the thread has stored
    sawPending,  \* the verifier read a pending marker
    since,       \* (history) what was committed when the verification began
    verdict      \* result of the verification

storeVars  == <<decisions, outcomes, markers>>
chainVars  == <<ledger, head>>
lockVars   == <<ledgerLock, domainLock>>
appendVars == <<snap, ref, link, own>>
verifyVars == <<sawPending, since, verdict>>
vars == <<storeVars, chainVars, lockVars, pc, op, appendVars, verifyVars>>

NoOp == [kind |-> "none", d |-> Nobody, e |-> Nobody]
NoHead == [count |-> 0, at |-> 0]
Nothing == [decisions |-> {}, outcomes |-> {}]

Kinds == {"none", "score", "learn", "auditDecision", "auditOutcome", "verify"}
Locations == {"idle", "write", "commit", "find", "read", "check", "entry",
              "head", "finish", "entries", "evidence", "stored", "report"}
Verdicts == {"none", "clean", "verified", "unavailable", "tampered"}

-----------------------------------------------------------------------------
(* Reading the chain *)

IsDecisionRow(l, i) == l[i].kind = "decision"

\* The position of the row with chain index k among the first n rows.
RowAt(l, n, k) == CHOOSE i \in 1..n : l[i].idx = k

\* The hash the row with index k must link to.
LinkBefore(l, n, k) == IF k = 0 THEN 0 ELSE RowAt(l, n, k - 1)

\* _verify_entries finds no evidence in the first n rows under head record h.
ChainOK(l, n, h) ==
    /\ {l[i].idx : i \in 1..n} = 0..n-1
    /\ \A i \in 1..n : l[i].prev = LinkBefore(l, n, l[i].idx)
    /\ \A i, j \in 1..n :
          IsDecisionRow(l, i) /\ IsDecisionRow(l, j) /\ l[i].d = l[j].d => i = j
    /\ \A i \in 1..n : ~IsDecisionRow(l, i) =>
          \E j \in 1..n : /\ IsDecisionRow(l, j)
                          /\ l[j].idx < l[i].idx
                          /\ l[j].d = l[i].d
                          /\ j = l[i].ref
    /\ h = [count |-> n, at |-> LinkBefore(l, n, n)]

SealedIn(l, n) == {l[i].d : i \in {j \in 1..n : IsDecisionRow(l, j)}}
SealedOutcomesIn(l, n) == {l[i].e : i \in {j \in 1..n : ~IsDecisionRow(l, j)}}

\* The decision rows an outcome of d may be linked to: the first by index.
RowsOf(d) == {i \in 1..Len(ledger) : IsDecisionRow(ledger, i) /\ ledger[i].d = d}
FirstRowsOf(d) == {i \in RowsOf(d) : \A j \in RowsOf(d) : ledger[i].idx <= ledger[j].idx}

-----------------------------------------------------------------------------
Init ==
    /\ decisions = {} /\ outcomes = {} /\ markers = {}
    /\ ledger = <<>> /\ head = NoHead
    /\ ledgerLock = [p \in Procs |-> Nobody]
    /\ domainLock = [p \in Procs |-> Nobody]
    /\ pc = [t \in Threads |-> "idle"]
    /\ op = [t \in Threads |-> NoOp]
    /\ snap = [t \in Threads |-> 0]
    /\ ref = [t \in Threads |-> 0]
    /\ link = [t \in Threads |-> 0]
    /\ own = [t \in Threads |-> 0]
    /\ sawPending = [t \in Threads |-> FALSE]
    /\ since = [t \in Threads |-> Nothing]
    /\ verdict = [t \in Threads |-> "none"]

\* Mutants (an operator whose name has an underscore) are plausible bugs of
\* the definition that follows; no action uses them.
LedgerLockFree_Ignored(t) == TRUE
LedgerLockFree(t) == ledgerLock[ProcOf[t]] \in {Nobody, t}
DomainLockFree(t) == domainLock[ProcOf[t]] = Nobody
TakeLedgerLock(t) == ledgerLock' = [ledgerLock EXCEPT ![ProcOf[t]] = t]
TakeDomainLock(t) == domainLock' = [domainLock EXCEPT ![ProcOf[t]] = t]
Released_Never(lock, S) == lock
Released(lock, S) == [p \in Procs |-> IF lock[p] \in S THEN Nobody ELSE lock[p]]

Goto(t, l) == pc' = [pc EXCEPT ![t] = l]
Start(t, k, d, e) == op' = [op EXCEPT ![t] = [kind |-> k, d |-> d, e |-> e]]

\* The calls of the threads in S end, by returning or by an exception: the
\* with statements and finally blocks release the locks, locals are lost.
Leave(S) ==
    /\ pc' = [t \in Threads |-> IF t \in S THEN "idle" ELSE pc[t]]
    /\ op' = [t \in Threads |-> IF t \in S THEN NoOp ELSE op[t]]
    /\ snap' = [t \in Threads |-> IF t \in S THEN 0 ELSE snap[t]]
    /\ ref' = [t \in Threads |-> IF t \in S THEN 0 ELSE ref[t]]
    /\ link' = [t \in Threads |-> IF t \in S THEN 0 ELSE link[t]]
    /\ own' = [t \in Threads |-> IF t \in S THEN 0 ELSE own[t]]
    /\ sawPending' = [t \in Threads |-> IF t \in S THEN FALSE ELSE sawPending[t]]
    /\ since' = [t \in Threads |-> IF t \in S THEN Nothing ELSE since[t]]
    /\ verdict' = [t \in Threads |-> IF t \in S THEN "none" ELSE verdict[t]]
    /\ ledgerLock' = Released(ledgerLock, S)
    /\ domainLock' = Released(domainLock, S)

\* Identifiers and marker keys are fresh uuids.
FreshDecision(d) == d \notin decisions \cup markers /\ \A t \in Threads : op[t].d # d
FreshEvent(e) == e \notin outcomes \cup markers /\ \A t \in Threads : op[t].e # e

-----------------------------------------------------------------------------
(* Opening an operation *)

ScorePersist_Unlocked(t, d) ==
    /\ pc[t] = "idle" /\ DomainLockFree(t) /\ FreshDecision(d)
    /\ decisions' = decisions \cup {d}
    /\ Start(t, "score", d, Nobody) /\ Goto(t, "read")
    /\ UNCHANGED <<outcomes, markers, chainVars, lockVars, appendVars, verifyVars>>

\* The score handler, under the domain lock: scorer.score persists the
\* decision without any marker; the row that seals it comes next.
ScorePersist(t, d) ==
    /\ pc[t] = "idle" /\ DomainLockFree(t) /\ FreshDecision(d)
    /\ decisions' = decisions \cup {d}
    /\ TakeDomainLock(t)
    /\ Start(t, "score", d, Nobody) /\ Goto(t, "read")
    /\ UNCHANGED <<outcomes, markers, chainVars, ledgerLock, appendVars, verifyVars>>

\* _learn_with_audit, under the domain lock: begin_outcome saves the marker.
LearnBegin(t, d, e) ==
    /\ pc[t] = "idle" /\ DomainLockFree(t) /\ d \in decisions /\ FreshEvent(e)
    /\ markers' = markers \cup {e}
    /\ TakeDomainLock(t)
    /\ Start(t, "learn", d, e) /\ Goto(t, "commit")
    /\ UNCHANGED <<decisions, outcomes, chainVars, ledgerLock, appendVars, verifyVars>>

\* async_record_decision, under the ledger lock.
AuditDecisionBegin(t, d) ==
    /\ pc[t] = "idle" /\ LedgerLockFree(t) /\ FreshDecision(d)
    /\ markers' = markers \cup {d}
    /\ TakeLedgerLock(t)
    /\ Start(t, "auditDecision", d, Nobody) /\ Goto(t, "write")
    /\ UNCHANGED <<decisions, outcomes, chainVars, domainLock, appendVars, verifyVars>>

AuditDecisionWrite(t) ==
    /\ pc[t] = "write"
    /\ decisions' = decisions \cup {op[t].d}
    /\ Goto(t, "read")
    /\ UNCHANGED <<outcomes, markers, chainVars, lockVars, op, appendVars, verifyVars>>

\* async_record_outcome, under the ledger lock: an unsealed decision returns
\* None before anything is written.
AuditOutcomeBegin(t, d, e) ==
    /\ pc[t] = "idle" /\ LedgerLockFree(t) /\ FreshEvent(e)
    /\ \E i \in FirstRowsOf(d) : ref' = [ref EXCEPT ![t] = i]
    /\ markers' = markers \cup {e}
    /\ TakeLedgerLock(t)
    /\ Start(t, "auditOutcome", d, e) /\ Goto(t, "commit")
    /\ UNCHANGED <<decisions, outcomes, chainVars, domainLock, snap, link, own, verifyVars>>

\* The outcome reaches the graph: scorer.learn, or store.write_outcome.
CommitOutcome(t) ==
    /\ pc[t] = "commit"
    /\ outcomes' = outcomes \cup {op[t].e}
    /\ Goto(t, IF op[t].kind = "learn" THEN "find" ELSE "read")
    /\ UNCHANGED <<decisions, markers, chainVars, lockVars, op, appendVars, verifyVars>>

LearnNotApplied_Sealed(t) ==
    /\ pc[t] = "commit" /\ op[t].kind = "learn"
    /\ Goto(t, "find")
    /\ UNCHANGED <<storeVars, chainVars, lockVars, op, appendVars, verifyVars>>

\* scorer.learn reports a result that was not applied: nothing to seal.
LearnNotApplied(t) ==
    /\ pc[t] = "commit" /\ op[t].kind = "learn"
    /\ Goto(t, "finish")
    /\ UNCHANGED <<storeVars, chainVars, lockVars, op, appendVars, verifyVars>>

-----------------------------------------------------------------------------
(* Sealing *)

\* S2PScoreAuditWriter.record_outcome looks up the sealed decision; without
\* one it returns silently and its caller finishes the marker.
FindSealedDecision(t) ==
    /\ pc[t] = "find" /\ LedgerLockFree(t)
    /\ \/ /\ \E i \in FirstRowsOf(op[t].d) : ref' = [ref EXCEPT ![t] = i]
          /\ TakeLedgerLock(t) /\ Goto(t, "read")
       \/ /\ RowsOf(op[t].d) = {}
          /\ Goto(t, "finish") /\ UNCHANGED <<ref, ledgerLock>>
    /\ UNCHANGED <<storeVars, chainVars, domainLock, op, snap, link, own, verifyVars>>

\* _append_entry: read the rows, then the head.
AppendRead(t) ==
    /\ pc[t] = "read" /\ LedgerLockFree(t)
    /\ TakeLedgerLock(t)
    /\ snap' = [snap EXCEPT ![t] = Len(ledger)]
    /\ Goto(t, "check")
    /\ UNCHANGED <<storeVars, chainVars, domainLock, op, ref, link, own, verifyVars>>

AppendCheck_IgnoresHead(t) ==
    /\ pc[t] = "check"
    /\ ChainOK(ledger, snap[t], [count |-> snap[t], at |-> LinkBefore(ledger, snap[t], snap[t])])
    /\ link' = [link EXCEPT ![t] = LinkBefore(ledger, snap[t], snap[t])]
    /\ Goto(t, "entry")
    /\ UNCHANGED <<storeVars, chainVars, lockVars, op, snap, ref, own, verifyVars>>

AppendCheck(t) ==
    /\ pc[t] = "check"
    /\ ChainOK(ledger, snap[t], head)
    /\ link' = [link EXCEPT ![t] = LinkBefore(ledger, snap[t], snap[t])]
    /\ Goto(t, "entry")
    /\ UNCHANGED <<storeVars, chainVars, lockVars, op, snap, ref, own, verifyVars>>

\* "Cannot append to an invalid audit chain".
AppendRefused(t) ==
    /\ pc[t] = "check"
    /\ ~ChainOK(ledger, snap[t], head)
    /\ Leave({t})
    /\ UNCHANGED <<storeVars, chainVars>>

AppendSaveEntry(t) ==
    /\ pc[t] = "entry"
    /\ ledger' = Append(ledger,
          [kind |-> IF op[t].e = Nobody THEN "decision" ELSE "outcome",
           d |-> op[t].d, e |-> op[t].e, ref |-> ref[t],
           idx |-> snap[t], prev |-> link[t]])
    /\ own' = [own EXCEPT ![t] = Len(ledger) + 1]
    /\ Goto(t, "head")
    /\ UNCHANGED <<storeVars, head, lockVars, op, snap, ref, link, verifyVars>>

\* The head is saved; the score path has no marker to finish and returns.
AppendSaveHead(t) ==
    /\ pc[t] = "head"
    /\ head' = [count |-> snap[t] + 1, at |-> own[t]]
    /\ IF op[t].kind = "score"
       THEN Leave({t})
       ELSE /\ Goto(t, "finish")
            /\ ledgerLock' = IF op[t].kind = "learn" THEN Released(ledgerLock, {t})
                                                    ELSE ledgerLock
            /\ UNCHANGED <<domainLock, op, appendVars, verifyVars>>
    /\ UNCHANGED <<storeVars, ledger>>

\* finish_outcome, or the last line of the audit API's recorders.
FinishMarker(t) ==
    /\ pc[t] = "finish"
    /\ markers' = markers \ (IF op[t].kind = "auditDecision" THEN {op[t].d} ELSE {op[t].e})
    /\ Leave({t})
    /\ UNCHANGED <<decisions, outcomes, chainVars>>

-----------------------------------------------------------------------------
(* verify_chain: four reads of the store under the process's ledger lock *)

VerifyBegin(t) ==
    /\ pc[t] = "idle" /\ LedgerLockFree(t)
    /\ TakeLedgerLock(t)
    /\ sawPending' = [sawPending EXCEPT ![t] = markers # {}]
    /\ since' = [since EXCEPT ![t] = [decisions |-> decisions, outcomes |-> outcomes]]
    /\ Start(t, "verify", Nobody, Nobody) /\ Goto(t, "entries")
    /\ UNCHANGED <<storeVars, chainVars, domainLock, appendVars, verdict>>

VerifyEntries(t) ==
    /\ pc[t] = "entries"
    /\ snap' = [snap EXCEPT ![t] = Len(ledger)]
    /\ Goto(t, "evidence")
    /\ UNCHANGED <<storeVars, chainVars, lockVars, op, ref, link, own, verifyVars>>

VerifyEvidence(t) ==
    /\ pc[t] = "evidence"
    /\ verdict' = [verdict EXCEPT ![t] = IF ChainOK(ledger, snap[t], head) THEN "clean" ELSE "tampered"]
    /\ Goto(t, "stored")
    /\ UNCHANGED <<storeVars, chainVars, lockVars, op, appendVars, sawPending, since>>

VerifyStored_TrustsTheChain(t) ==
    /\ pc[t] = "stored"
    /\ verdict' = [verdict EXCEPT ![t] =
          IF @ = "tampered" THEN @ ELSE IF sawPending[t] THEN "unavailable" ELSE "verified"]
    /\ ledgerLock' = Released(ledgerLock, {t})
    /\ Goto(t, "report")
    /\ UNCHANGED <<storeVars, chainVars, domainLock, op, appendVars, sawPending, since>>

VerifyStored(t) ==
    /\ pc[t] = "stored"
    /\ LET missing == decisions \ SealedIn(ledger, snap[t])
           extra == SealedIn(ledger, snap[t]) \ decisions
       IN  verdict' = [verdict EXCEPT ![t] =
              IF @ = "tampered" \/ extra # {} THEN "tampered"
              ELSE IF missing # {} \/ sawPending[t] THEN "unavailable"
              ELSE "verified"]
    /\ ledgerLock' = Released(ledgerLock, {t})
    /\ Goto(t, "report")
    /\ UNCHANGED <<storeVars, chainVars, domainLock, op, appendVars, sawPending, since>>

VerifyReturn(t) ==
    /\ pc[t] = "report"
    /\ Leave({t})
    /\ UNCHANGED <<storeVars, chainVars>>

-----------------------------------------------------------------------------
(* Failures *)

StoreCallFails_FinishesMarker(t) ==
    /\ Faults /\ pc[t] # "idle"
    /\ markers' = markers \ {op[t].e}
    /\ Leave({t})
    /\ UNCHANGED <<decisions, outcomes, chainVars>>

\* A store call raises (with or without having taken effect) and its handler
\* turns it into a 503: the call ends where it stands.
StoreCallFails(t) ==
    /\ Faults /\ pc[t] # "idle"
    /\ Leave({t})
    /\ UNCHANGED <<storeVars, chainVars>>

\* A worker process dies and is restarted; the store survives.
Crash(p) ==
    /\ Faults /\ \E t \in Threads : ProcOf[t] = p /\ pc[t] # "idle"
    /\ Leave({t \in Threads : ProcOf[t] = p})
    /\ UNCHANGED <<storeVars, chainVars>>

-----------------------------------------------------------------------------
Open(t) ==
    \/ \E d \in Decisions : ScorePersist(t, d) \/ AuditDecisionBegin(t, d)
    \/ \E d \in Decisions, e \in Events : LearnBegin(t, d, e) \/ AuditOutcomeBegin(t, d, e)
    \/ VerifyBegin(t)

Continue(t) ==
    \/ AuditDecisionWrite(t) \/ CommitOutcome(t) \/ LearnNotApplied(t)
    \/ FindSealedDecision(t)
    \/ AppendRead(t) \/ AppendCheck(t) \/ AppendRefused(t)
    \/ AppendSaveEntry(t) \/ AppendSaveHead(t) \/ FinishMarker(t)
    \/ VerifyEntries(t) \/ VerifyEvidence(t) \/ VerifyStored(t) \/ VerifyReturn(t)

Next ==
    \/ \E t \in Threads : Open(t) \/ Continue(t) \/ StoreCallFails(t)
    \/ \E p \in Procs : Crash(p)

Spec == Init /\ [][Next]_vars

\* A thread inside a call keeps running; nothing obliges a call to begin.  A
\* thread waiting for a lock is served eventually.
FairSpec == Spec /\ \A t \in Threads : SF_vars(Continue(t))

-----------------------------------------------------------------------------
(* Properties *)

Row == [kind : {"decision", "outcome"}, d : Decisions, e : Events \cup {Nobody},
        ref : Nat, idx : Nat, prev : Nat]

\* Every variable has its type.
TypeOK ==
    /\ decisions \subseteq Decisions /\ outcomes \subseteq Events
    /\ markers \subseteq Decisions \cup Events
    /\ ledger \in Seq(Row) /\ head \in [count : Nat, at : Nat]
    /\ ledgerLock \in [Procs -> Threads \cup {Nobody}]
    /\ domainLock \in [Procs -> Threads \cup {Nobody}]
    /\ pc \in [Threads -> Locations]
    /\ op \in [Threads -> [kind : Kinds, d : Decisions \cup {Nobody}, e : Events \cup {Nobody}]]
    /\ snap \in [Threads -> Nat] /\ ref \in [Threads -> Nat]
    /\ link \in [Threads -> Nat] /\ own \in [Threads -> Nat]
    /\ sawPending \in [Threads -> BOOLEAN]
    /\ since \in [Threads -> [decisions : SUBSET Decisions, outcomes : SUBSET Events]]
    /\ verdict \in [Threads -> Verdicts]

Verified(t) == pc[t] = "report" /\ verdict[t] = "verified"

\* A verification that reports "verified" has seen a sealed row for every
\* decision stored before it began (verify_chain: missing decisions, the only
\* trace the score path leaves of an interrupted sealing, fail closed).
DecisionsCertified ==
    \A t \in Threads : Verified(t) => since[t].decisions \subseteq SealedIn(ledger, snap[t])

\* "Verification must not certify an outcome committed without its sealed
\* entry" (S2PScoreAuditWriter.record_outcome): a "verified" report covers
\* every outcome committed before the verification began.
OutcomesCertified ==
    \A t \in Threads : Verified(t) => since[t].outcomes \subseteq SealedOutcomesIn(ledger, snap[t])

\* A chain found broken while no append is under way stays broken: no later
\* append builds on an interrupted one and makes the chain verify again
\* (_append_entry refuses, the head record gives the interruption away).
AppendUnderWay == \E t \in Threads : pc[t] = "head"
Broken == ~AppendUnderWay /\ ~ChainOK(ledger, Len(ledger), head)
BrokenForever == [](Broken => []~ChainOK(ledger, Len(ledger), head))

\* What one process does never looks like tampering to its own verifier: the
\* ledger lock keeps the verifier out of the window between the row and the
\* head, and concurrent requests never break the chain.
NoFalseTamperReport == \A t \in Threads : verdict[t] # "tampered"

\* With no failure, once every call has returned, every decision and outcome
\* is sealed, no marker is left and the chain is intact.
QuietMeansSealed ==
    (\A t \in Threads : pc[t] = "idle") =>
        /\ markers = {}
        /\ decisions = SealedIn(ledger, Len(ledger))
        /\ outcomes = SealedOutcomesIn(ledger, Len(ledger))
        /\ ChainOK(ledger, Len(ledger), head)

\* An outcome row never predates the outcome it seals, and a row's decision is
\* never missing from the store, whatever fails: the ledger claims nothing
\* that did not happen.
NothingInvented ==
    /\ SealedIn(ledger, Len(ledger)) \subseteq decisions
    /\ SealedOutcomesIn(ledger, Len(ledger)) \subseteq outcomes

\* Every call returns: the domain lock and the ledger lock are taken in one
\* order and nothing is awaited under them.
EveryCallReturns == \A t \in Threads : pc[t] # "idle" ~> pc[t] = "idle"

===============================================================================
