------------------------------- MODULE Proposals -------------------------------
(***************************************************************************)
(* Decision-change proposals: ProposalService with GraphProposalStore      *)
(* (services/proposal_service.py) and those who call it.  A score stores   *)
(* its decision and, its locks released, creates a proposal; the proposal  *)
(* API creates, confirms and overrides; a learn (or outcome) request, its  *)
(* outcome committed, looks the decision's proposal up and resolves it.    *)
(*                                                                         *)
(* The graph holds one record per proposal and one index entry per         *)
(* decision, without transactions: every store call is a step, and may be  *)
(* the last that a request makes.  The service's lock covers create and    *)
(* resolve, not the lookup.  There is one process, as the lock supposes.   *)
(***************************************************************************)
EXTENDS Naturals, FiniteSets

CONSTANTS
    Threads, Decisions,
    MaxProposals,   \* bound: proposals created
    MaxLearns,      \* bound: outcomes learned for one decision
    Faults,         \* whether store calls may fail and the process may crash
    None

\* Proposals are numbered in the order of created_at, which their ids contain.
ProposalIds == 1..MaxProposals
Verdicts == {"confirmed", "overridden"}

ASSUME ConstantsAssumption ==
    /\ MaxProposals \in Nat /\ MaxLearns \in Nat /\ Faults \in BOOLEAN
    /\ None \notin Threads \cup Decisions /\ None \notin ProposalIds
    /\ None \notin {"proposed"} \cup Verdicts
    /\ None \notin [d : Decisions, status : {"proposed"} \cup Verdicts, outcome : Verdicts \cup {None}]

VARIABLES
    record,    \* evolution state of each proposal in the graph
    index,     \* proposal-decision-index of each decision
    scored,    \* decisions in the graph
    learned,   \* outcomes committed for each decision
    created,   \* proposals begun so far
    lock,      \* owner of ProposalService._lock
    domain,    \* owner of the domain mutation lock
    pc, op,    \* where each thread stands, and its call's arguments and locals
    late,      \* (history) proposals recorded after their decision was learned
    unheard,   \* (history) decisions of which some learn failed after its commit
    cut        \* (history) proposals whose resolution was interrupted

storeVars == <<record, index>>
graphVars == <<record, index, scored, learned>>
lockVars == <<lock, domain>>
historyVars == <<late, unheard, cut>>
vars == <<graphVars, created, lockVars, pc, op, historyVars>>

\* d, p: decision and proposal.  verdict: what to resolve p to.  learn: whether
\* this is a learn request.  seen: the status that the lookup returned.
OpOf(d, p, v, l) == [d |-> d, p |-> p, verdict |-> v, learn |-> l, seen |-> None]
NoOp == OpOf(None, None, None, FALSE)
NoRecord == None

Init ==
    /\ record = [p \in ProposalIds |-> NoRecord] /\ index = [d \in Decisions |-> None]
    /\ scored = {} /\ learned = [d \in Decisions |-> 0] /\ created = 0
    /\ lock = None /\ domain = None
    /\ pc = [t \in Threads |-> "idle"] /\ op = [t \in Threads |-> NoOp]
    /\ late = {} /\ unheard = {} /\ cut = {}

Goto(t, l) == pc' = [pc EXCEPT ![t] = l]
Recorded(p) == record[p] # NoRecord
Of(d) == {p \in ProposalIds : Recorded(p) /\ record[p].d = d}

\* The request ends and whatever lock it holds is free.
Leave(t) ==
    /\ Goto(t, "idle") /\ op' = [op EXCEPT ![t] = NoOp]
    /\ lock' = (IF lock = t THEN None ELSE lock)
    /\ domain' = (IF domain = t THEN None ELSE domain)

-----------------------------------------------------------------------------
(* create_from_score *)

\* A proposal of decision d, its number (created_at) drawn before the lock.
BeginCreate(t, d) ==
    /\ created < MaxProposals
    /\ created' = created + 1
    /\ op' = [op EXCEPT ![t] = OpOf(d, created + 1, None, FALSE)]
    /\ Goto(t, "create")

\* A score whose decision is stored and whose locks are released.
Score(t, d) ==
    /\ pc[t] = "idle" /\ domain = None /\ d \notin scored
    /\ scored' = scored \cup {d}
    /\ BeginCreate(t, d)
    /\ UNCHANGED <<storeVars, learned, lockVars, historyVars>>

\* POST /proposal: any decision, scored or not, with a proposal or without.
Post(t, d) ==
    /\ pc[t] = "idle"
    /\ BeginCreate(t, d)
    /\ UNCHANGED <<graphVars, lockVars, historyVars>>

\* GraphProposalStore.save, the proposal and then the index.
CreateSave_IndexFirst(t) ==
    /\ pc[t] = "create" /\ lock = None
    /\ lock' = t
    /\ index' = [index EXCEPT ![op[t].d] = op[t].p]
    /\ Goto(t, "createIndex")
    /\ UNCHANGED <<record, scored, learned, created, domain, op, historyVars>>

CreateSave(t) ==
    /\ pc[t] = "create" /\ lock = None
    /\ lock' = t
    /\ record' = [record EXCEPT ![op[t].p] =
                    [d |-> op[t].d, status |-> "proposed", outcome |-> None]]
    /\ late' = IF learned[op[t].d] > 0 THEN late \cup {op[t].p} ELSE late
    /\ Goto(t, "createIndex")
    /\ UNCHANGED <<index, scored, learned, created, domain, op, unheard, cut>>

CreateIndex(t) ==
    /\ pc[t] = "createIndex"
    /\ index' = [index EXCEPT ![op[t].d] = op[t].p]
    /\ Leave(t)
    /\ UNCHANGED <<record, scored, learned, created, historyVars>>

-----------------------------------------------------------------------------
(* _resolve *)

\* confirm or override through the API, for an id that may be unknown.
Ask(t, p, v) ==
    /\ pc[t] = "idle"
    /\ op' = [op EXCEPT ![t] = OpOf(None, p, v, FALSE)]
    /\ Goto(t, "enter")
    /\ UNCHANGED <<graphVars, created, lockVars, historyVars>>

\* The lock is taken and the proposal read again.  Unknown: KeyError.  Resolved
\* the same way: returned.  Resolved the other way: ValueError.  A learn request
\* ends normally in the second case only, an API request in all three.
Resolvable_AsLookedUp(p) == Recorded(p)
Resolvable(p) == Recorded(p) /\ record[p].status = "proposed"

Enter(t) ==
    /\ pc[t] = "enter" /\ lock = None /\ Resolvable(op[t].p)
    /\ lock' = t
    /\ Goto(t, "save")
    /\ UNCHANGED <<graphVars, created, domain, op, historyVars>>

Return(t) ==
    /\ pc[t] = "enter" /\ lock = None /\ ~Resolvable(op[t].p)
    /\ IF op[t].learn /\ record[op[t].p].status = op[t].verdict
       THEN Goto(t, "done") /\ UNCHANGED <<op, lockVars>>
       ELSE Leave(t)
    /\ UNCHANGED <<graphVars, created, historyVars>>

\* store.save(resolved) keeps the outcome there is; then the index; then
\* link_outcome adds the outcome payload to the record.
SaveResolved(t) ==
    /\ pc[t] = "save"
    /\ record' = [record EXCEPT ![op[t].p].status = op[t].verdict]
    /\ Goto(t, "saveIndex")
    /\ UNCHANGED <<index, scored, learned, created, lockVars, op, historyVars>>

SaveIndex_Returns(t) ==
    /\ pc[t] = "saveIndex"
    /\ index' = [index EXCEPT ![record[op[t].p].d] = op[t].p]
    /\ lock' = None
    /\ IF op[t].learn THEN Goto(t, "done") /\ UNCHANGED op
                      ELSE Goto(t, "idle") /\ op' = [op EXCEPT ![t] = NoOp]
    /\ UNCHANGED <<record, scored, learned, created, domain, historyVars>>

SaveIndex(t) ==
    /\ pc[t] = "saveIndex"
    /\ index' = [index EXCEPT ![record[op[t].p].d] = op[t].p]
    /\ Goto(t, "link")
    /\ UNCHANGED <<record, scored, learned, created, lockVars, op, historyVars>>

LinkOutcome(t) ==
    /\ pc[t] = "link"
    /\ record' = [record EXCEPT ![op[t].p].outcome = op[t].verdict]
    /\ IF op[t].learn THEN Goto(t, "done") /\ lock' = None /\ UNCHANGED <<op, domain>>
                      ELSE Leave(t)
    /\ UNCHANGED <<index, scored, learned, created, historyVars>>

-----------------------------------------------------------------------------
(* Learn and outcome requests, and resolve_for_decision *)

\* Under the domain lock the outcome is committed.  /outcome refuses a decision
\* that has one, /api/learn does not.
Learn(t, d, v) ==
    /\ pc[t] = "idle" /\ domain = None /\ d \in scored /\ learned[d] < MaxLearns
    /\ domain' = t
    /\ learned' = [learned EXCEPT ![d] = @ + 1]
    /\ op' = [op EXCEPT ![t] = OpOf(d, None, v, TRUE)]
    /\ Goto(t, "index")
    /\ UNCHANGED <<storeVars, scored, created, lock, historyVars>>

\* get_by_decision_id: the index, and the proposal it names; or a scan, and the
\* index entry that the scan's newest proposal should have had.
ReadIndex_IndexOnly(t) ==
    /\ pc[t] = "index"
    /\ op' = [op EXCEPT ![t].p = index[op[t].d]]
    /\ Goto(t, IF index[op[t].d] = None THEN "done" ELSE "look")
    /\ UNCHANGED <<graphVars, created, lockVars, historyVars>>

ReadIndex(t) ==
    /\ pc[t] = "index"
    /\ op' = [op EXCEPT ![t].p = index[op[t].d]]
    /\ Goto(t, IF index[op[t].d] = None THEN "scan" ELSE "look")
    /\ UNCHANGED <<graphVars, created, lockVars, historyVars>>

\* Its status is all that the lookup is for.
Look(t) ==
    /\ pc[t] = "look"
    /\ Goto(t, IF record[op[t].p].status = "proposed" THEN "enter" ELSE "done")
    /\ UNCHANGED <<graphVars, created, lockVars, op, historyVars>>

Newest(p, S) == p \in S /\ \A q \in S : q <= p

Scan(t) ==
    /\ pc[t] = "scan"
    /\ \E p \in ProposalIds :
          /\ Newest(p, Of(op[t].d))
          /\ op' = [op EXCEPT ![t] = [OpOf(op[t].d, p, op[t].verdict, TRUE)
                                     EXCEPT !.seen = record[p].status]]
    /\ Goto(t, "backfill")
    /\ UNCHANGED <<graphVars, created, lockVars, historyVars>>

ScanNothing_LooksAgain(t) ==
    /\ pc[t] = "scan" /\ Of(op[t].d) = {}
    /\ Goto(t, "index")
    /\ UNCHANGED <<graphVars, created, lockVars, op, historyVars>>

ScanNothing(t) ==
    /\ pc[t] = "scan" /\ Of(op[t].d) = {}
    /\ Goto(t, "done")
    /\ UNCHANGED <<graphVars, created, lockVars, op, historyVars>>

Backfill(t) ==
    /\ pc[t] = "backfill"
    /\ index' = [index EXCEPT ![op[t].d] = op[t].p]
    /\ Goto(t, IF op[t].seen = "proposed" THEN "enter" ELSE "done")
    /\ UNCHANGED <<record, scored, learned, created, lockVars, op, historyVars>>

\* The rest of the handler frees the domain lock.
LearnReturns(t) ==
    /\ pc[t] = "done"
    /\ Leave(t)
    /\ UNCHANGED <<graphVars, created, historyVars>>

-----------------------------------------------------------------------------
(* Failures *)

\* Where a store call is due; past a call's effect is before the next one's.
StoreCalls == {"create", "createIndex", "enter", "save", "saveIndex", "link",
               "index", "look", "scan", "backfill"}
Half == {"saveIndex", "link"}   \* the resolution is saved, its outcome is not

Interrupted(S) ==
    /\ unheard' = unheard \cup {op[t].d : t \in {u \in S : op[u].learn /\ pc[u] # "done"}}
    /\ cut' = cut \cup {op[t].p : t \in {u \in S : pc[u] \in Half}}
    /\ UNCHANGED late

\* A store call raises; with blocks free the locks on the way out.
StoreCallFails(t) ==
    /\ Faults /\ pc[t] \in StoreCalls
    /\ Interrupted({t})
    /\ Leave(t)
    /\ UNCHANGED <<graphVars, created>>

Crash ==
    /\ Faults /\ \E t \in Threads : pc[t] # "idle"
    /\ Interrupted(Threads)
    /\ pc' = [t \in Threads |-> "idle"] /\ op' = [t \in Threads |-> NoOp]
    /\ lock' = None /\ domain' = None
    /\ UNCHANGED <<graphVars, created>>

-----------------------------------------------------------------------------
CreateStep(t) == CreateSave(t) \/ CreateIndex(t)
ResolveStep(t) == Enter(t) \/ Return(t) \/ SaveResolved(t) \/ SaveIndex(t) \/ LinkOutcome(t)
LearnStep(t) == ReadIndex(t) \/ Look(t) \/ Scan(t) \/ ScanNothing(t) \/ Backfill(t) \/ LearnReturns(t)
Proceed(t) == CreateStep(t) \/ ResolveStep(t) \/ LearnStep(t)

Begin(t) ==
    \/ \E d \in Decisions : Score(t, d) \/ Post(t, d) \/ \E v \in Verdicts : Learn(t, d, v)
    \/ \E p \in ProposalIds, v \in Verdicts : Ask(t, p, v)

Next == (\E t \in Threads : Begin(t) \/ Proceed(t) \/ StoreCallFails(t)) \/ Crash

Spec == Init /\ [][Next]_vars

\* A request that has begun goes on; nothing obliges one to begin or to fail.
FairSpec == Spec /\ \A t \in Threads : SF_vars(Proceed(t))

-----------------------------------------------------------------------------
(* Properties *)

Records == [d : Decisions, status : {"proposed"} \cup Verdicts, outcome : Verdicts \cup {None}]
Locations == StoreCalls \cup {"idle", "done"}
Ops == [d : Decisions \cup {None}, p : ProposalIds \cup {None}, verdict : Verdicts \cup {None},
        learn : BOOLEAN, seen : {"proposed", None} \cup Verdicts]
UnderLock == {"createIndex", "save", "saveIndex", "link"}

\* The type invariant, with both locks belonging to the threads inside them.
TypeOK ==
    /\ record \in [ProposalIds -> Records \cup {NoRecord}]
    /\ index \in [Decisions -> ProposalIds \cup {None}]
    /\ scored \subseteq Decisions /\ learned \in [Decisions -> 0..MaxLearns]
    /\ created \in 0..MaxProposals
    /\ pc \in [Threads -> Locations] /\ op \in [Threads -> Ops]
    /\ lock \in Threads \cup {None} /\ domain \in Threads \cup {None}
    /\ \A t \in Threads : (pc[t] \in UnderLock <=> lock = t) /\ (op[t].learn <=> domain = t)
    /\ late \subseteq ProposalIds /\ unheard \subseteq Decisions /\ cut \subseteq ProposalIds

\* A proposal is resolved once, whoever asks and whatever the lookup saw, and
\* its outcome is that of the resolution: the service implements
\* ProposalLifecycle.
standing == [p \in ProposalIds |-> IF Recorded(p) THEN record[p].status ELSE None]
verified == [p \in ProposalIds |-> IF Recorded(p) THEN record[p].outcome ELSE None]
Lifecycle == INSTANCE ProposalLifecycle WITH Proposals <- ProposalIds
ImplementsLifecycle == Lifecycle!LifecycleSpec

\* The outcome loop is closed: a resolved proposal has its outcome on record, or
\* is about to, or its resolution was interrupted.
ResolutionsAreVerified ==
    \A p \in ProposalIds :
        Recorded(p) /\ record[p].status \in Verdicts /\ record[p].outcome = None /\ p \notin cut
            => \E t \in Threads : pc[t] \in Half /\ op[t].p = p

\* A learned decision that had a proposal when it was learned has a resolved one
\* when the learn request is over, unless that request failed on the way: no
\* race with a creation, an index backfill or the API makes it miss them all.
Learning(d) == \E t \in Threads : op[t].learn /\ op[t].d = d /\ pc[t] # "done"
LearnClosesProposal ==
    \A d \in Decisions :
        learned[d] > 0 /\ d \notin unheard /\ ~Learning(d) /\ ~(Of(d) \subseteq late)
            => \E p \in Of(d) : record[p].status \in Verdicts

\* The index of a decision names a proposal of that decision that is on record,
\* although save, backfill and failures write the two records in any order.
IndexIsSound == \A d \in Decisions : index[d] # None => index[d] \in Of(d)

\* Every request returns: the domain lock is always taken before the service's.
EveryRequestReturns == \A t \in Threads : pc[t] # "idle" ~> pc[t] = "idle"

===============================================================================
