---------------------------- MODULE ConservationGate ----------------------------
(***************************************************************************)
(* The conservation caches of routers/s2p.py and the gate that reads them: *)
(* _cached_conservation_counts and _score_conservation_status, filled from *)
(* the graph by whoever misses, dropped by every learn request after its   *)
(* outcome commits; _score_write_governance, which decides from them       *)
(* whether a score or learn request may write; and the verified counts a   *)
(* learn request puts on its receipt.                                      *)
(*                                                                         *)
(* No lock covers the caches.  A miss takes the generation, reads the      *)
(* graph, compares the generation and then stores, in separate steps; a    *)
(* learn request bumps the generation and clears, under the domain lock    *)
(* that no reader takes.                                                   *)
(***************************************************************************)
EXTENDS Naturals

CONSTANTS
    Scores, Learns,   \* threads of score and of learn (or outcome) requests
    Readers,          \* threads of the read endpoints that want the counts
    Primers,          \* callers of _score_conservation_status
    StatusOf(_),      \* the status that a number of verified outcomes has
    MaxOutcomes,      \* bound: how many outcomes are learned
    MaxClears,        \* bound: how often the caches are dropped
    None

Writers == Scores \cup Learns
Threads == Writers \cup Readers \cup Primers
Statuses == {"GREEN", "AMBER", "RED", "UNKNOWN"}
Numbers == 0..MaxOutcomes

ASSUME ConstantsAssumption ==
    /\ None \notin Threads /\ None \notin Numbers
    /\ None \notin [n : Numbers, fresh : BOOLEAN] \cup [s : Statuses, fresh : BOOLEAN]
    /\ Learns \cap (Scores \cup Readers \cup Primers) = {}
    /\ MaxOutcomes \in Nat /\ MaxClears \in Nat
    /\ \A n \in Numbers : StatusOf(n) \in Statuses \ {"UNKNOWN"}

VARIABLES
    outcomes,         \* verified outcomes in the graph
    generation,       \* _SCORE_CONSERVATION_CACHE_GENERATION
    counts,           \* _CONSERVATION_COUNTS_CACHE (one store and domain)
    countsInFlight,   \* _CONSERVATION_COUNTS_IN_FLIGHT
    status,           \* _SCORE_CONSERVATION_STATUS_CACHE
    statusInFlight,   \* _SCORE_CONSERVATION_STATUS_IN_FLIGHT
    domain,           \* owner of the domain mutation lock
    pc,               \* where each thread stands
    call,             \* its counts calls: how many are left, where to go then,
                      \* whether all succeeded, the last one's locals
    fill,             \* its status call: the locals generation and status
    req,              \* its score or learn request
    cleared,          \* (history) outcomes at the last completed clear
    clearedBefore,    \* (history) outcomes at the clear before that one
    straddled         \* (history) a clear met a reader past its check

cacheVars == <<generation, counts, countsInFlight, status, statusInFlight>>
historyVars == <<cleared, clearedBefore, straddled>>
vars == <<outcomes, cacheVars, domain, pc, call, fill, req, historyVars>>

CallOf(k, l) == [left |-> k, next |-> l, ok |-> TRUE, gen |-> 0, val |-> 0]
NoCall == CallOf(0, "idle")
NoFill == [gen |-> 0, s |-> "UNKNOWN"]

\* seen: the status the governance read.  before, after: the verified counts
\* of the receipt, None when unavailable.  red: (history) conservation was RED
\* from the governance on.
NoRequest == [seen |-> "UNKNOWN", before |-> 0, after |-> 0, applied |-> FALSE, red |-> FALSE]

Init ==
    /\ outcomes = 0 /\ generation = 0
    /\ counts = None /\ countsInFlight = FALSE
    /\ status = None /\ statusInFlight = FALSE
    /\ domain = None
    /\ pc = [t \in Threads |-> "idle"]
    /\ call = [t \in Threads |-> NoCall]
    /\ fill = [t \in Threads |-> NoFill]
    /\ req = [t \in Threads |-> NoRequest]
    /\ cleared = 0 /\ clearedBefore = 0 /\ straddled = FALSE

Goto(t, l) == pc' = [pc EXCEPT ![t] = l]

-----------------------------------------------------------------------------
(* _cached_conservation_counts *)

\* Make k counts calls one after the other, then go on at l.
CallCounts(t, k, l) ==
    /\ call' = [call EXCEPT ![t] = CallOf(k, l)]
    /\ Goto(t, "look")

\* A counts call returns n, or raises.  A read endpoint ends with it.
CountsReturn(t, n, raises) ==
    /\ call' = [call EXCEPT ![t] =
                  IF call[t].next = "idle" THEN NoCall
                  ELSE [left |-> call[t].left - 1, next |-> call[t].next,
                        ok |-> call[t].ok /\ ~raises, gen |-> 0, val |-> n]]
    /\ Goto(t, IF call[t].left > 1 THEN "look" ELSE call[t].next)

\* A fresh entry is served, and a stale one that another reader is replacing.
Servable(entry, inFlight) == entry # None /\ (inFlight \/ entry.fresh)

CountsHit(t) ==
    /\ pc[t] = "look" /\ Servable(counts, countsInFlight)
    /\ CountsReturn(t, counts.n, FALSE)
    /\ UNCHANGED <<outcomes, cacheVars, domain, fill, req, historyVars>>

CountsMiss(t) ==
    /\ pc[t] = "look" /\ ~Servable(counts, countsInFlight)
    /\ call' = [call EXCEPT ![t].gen = generation]
    /\ countsInFlight' = TRUE
    /\ Goto(t, "read")
    /\ UNCHANGED <<outcomes, generation, counts, status, statusInFlight, domain,
                   fill, req, historyVars>>

\* The graph query, and the finally block that ends the in-flight mark.
CountsRead(t) ==
    /\ pc[t] = "read"
    /\ call' = [call EXCEPT ![t].val = outcomes]
    /\ countsInFlight' = FALSE
    /\ Goto(t, "check")
    /\ UNCHANGED <<outcomes, generation, counts, status, statusInFlight, domain,
                   fill, req, historyVars>>

\* The generation test is a step of its own: the store comes after it.
Unchanged_Unchecked(g) == TRUE
Unchanged(g) == g = generation

CountsCheck(t) ==
    /\ pc[t] = "check"
    /\ IF Unchanged(call[t].gen) THEN Goto(t, "store") /\ UNCHANGED call
                                 ELSE CountsReturn(t, call[t].val, FALSE)
    /\ UNCHANGED <<outcomes, cacheVars, domain, fill, req, historyVars>>

CountsStore(t) ==
    /\ pc[t] = "store"
    /\ counts' = [n |-> call[t].val, fresh |-> TRUE]
    /\ CountsReturn(t, call[t].val, FALSE)
    /\ UNCHANGED <<outcomes, generation, countsInFlight, status, statusInFlight, domain,
                   fill, req, historyVars>>

\* The query raises; what its caller makes of that is at the caller's step.
CountsFail_StaysInFlight(t) ==
    /\ pc[t] = "read"
    /\ CountsReturn(t, 0, TRUE)
    /\ UNCHANGED <<outcomes, cacheVars, domain, fill, req, historyVars>>

CountsFail(t) ==
    /\ pc[t] = "read"
    /\ countsInFlight' = FALSE
    /\ CountsReturn(t, 0, TRUE)
    /\ UNCHANGED <<outcomes, generation, counts, status, statusInFlight, domain,
                   fill, req, historyVars>>

\* Two seconds pass.
CountsExpire ==
    /\ Servable(counts, FALSE)
    /\ counts' = [counts EXCEPT !.fresh = FALSE]
    /\ UNCHANGED <<outcomes, generation, countsInFlight, status, statusInFlight, domain,
                   pc, call, fill, req, historyVars>>

-----------------------------------------------------------------------------
(* _score_conservation_status *)

\* A hit changes nothing and has no action.
PrimeMiss(t) ==
    /\ t \in Primers /\ pc[t] = "idle" /\ ~Servable(status, statusInFlight)
    /\ fill' = [fill EXCEPT ![t].gen = generation]
    /\ statusInFlight' = TRUE
    /\ CallCounts(t, 1, "evaluate")
    /\ UNCHANGED <<outcomes, generation, counts, countsInFlight, status, domain, req, historyVars>>

\* _current_conservation_status on the counts it got; a failed query makes it
\* UNKNOWN, which is published like any other status.
Evaluate(t) ==
    /\ pc[t] = "evaluate"
    /\ fill' = [fill EXCEPT ![t].s = IF call[t].ok THEN StatusOf(call[t].val) ELSE "UNKNOWN"]
    /\ call' = [call EXCEPT ![t] = NoCall]
    /\ statusInFlight' = FALSE
    /\ Goto(t, "statusCheck")
    /\ UNCHANGED <<outcomes, generation, counts, countsInFlight, status, domain, req, historyVars>>

StatusCheck(t) ==
    /\ pc[t] = "statusCheck"
    /\ IF Unchanged(fill[t].gen)
       THEN Goto(t, "statusStore") /\ UNCHANGED fill
       ELSE Goto(t, "idle") /\ fill' = [fill EXCEPT ![t] = NoFill]
    /\ UNCHANGED <<outcomes, cacheVars, domain, call, req, historyVars>>

StatusStore(t) ==
    /\ pc[t] = "statusStore"
    /\ status' = [s |-> fill[t].s, fresh |-> TRUE]
    /\ fill' = [fill EXCEPT ![t] = NoFill]
    /\ Goto(t, "idle")
    /\ UNCHANGED <<outcomes, generation, counts, countsInFlight, statusInFlight, domain,
                   call, req, historyVars>>

StatusExpire ==
    /\ Servable(status, FALSE)
    /\ status' = [status EXCEPT !.fresh = FALSE]
    /\ UNCHANGED <<outcomes, generation, counts, countsInFlight, statusInFlight, domain,
                   pc, call, fill, req, historyVars>>

-----------------------------------------------------------------------------
(* Requests *)

ReaderAsk(t) ==
    /\ t \in Readers /\ pc[t] = "idle"
    /\ CallCounts(t, 1, "idle")
    /\ UNCHANGED <<outcomes, cacheVars, domain, fill, req, historyVars>>

\* _score_write_governance: the status cache only, then the counts.
Governance(t) ==
    /\ t \in Writers /\ pc[t] = "idle"
    /\ req' = [req EXCEPT
                 ![t].seen = IF Servable(status, FALSE) THEN status.s ELSE "UNKNOWN",
                 ![t].red = StatusOf(outcomes) = "RED"]
    /\ CallCounts(t, 1, "decide")
    /\ UNCHANGED <<outcomes, cacheVars, domain, fill, historyVars>>

\* The request ends; a with or finally block frees the domain lock.
Leave(t) ==
    /\ Goto(t, "idle")
    /\ domain' = (IF domain = t THEN None ELSE domain)
    /\ call' = [call EXCEPT ![t] = NoCall]
    /\ req' = [req EXCEPT ![t] = NoRequest]
    /\ UNCHANGED <<outcomes, cacheVars, fill, historyVars>>

\* No counts: the request fails.  RED: 503.  AMBER: held.
Blocked(t) == ~call[t].ok \/ req[t].seen \in {"RED", "AMBER"}

Refuse(t) == pc[t] = "decide" /\ Blocked(t) /\ Leave(t)

Admit(t) ==
    /\ pc[t] = "decide" /\ ~Blocked(t)
    /\ call' = [call EXCEPT ![t] = NoCall]
    /\ Goto(t, "queue")
    /\ UNCHANGED <<outcomes, cacheVars, domain, fill, req, historyVars>>

\* Under the domain lock a score writes its decision; a learn first takes the
\* receipt's snapshot, which asks for the counts twice.
TakeDomain(t) ==
    /\ pc[t] = "queue" /\ domain = None
    /\ t \in Scores \/ generation < MaxClears
    /\ domain' = t
    /\ IF t \in Scores THEN Goto(t, "score") /\ UNCHANGED call
                       ELSE CallCounts(t, 2, "before")
    /\ UNCHANGED <<outcomes, cacheVars, fill, req, historyVars>>

ScoreWrites(t) == pc[t] = "score" /\ Leave(t)

\* The count of a snapshot: unavailable when either of its calls failed.
Snapshot(t) == IF call[t].ok THEN call[t].val ELSE None

TakeBefore(t) ==
    /\ pc[t] = "before"
    /\ req' = [req EXCEPT ![t].before = Snapshot(t)]
    /\ call' = [call EXCEPT ![t] = NoCall]
    /\ Goto(t, "commit")
    /\ UNCHANGED <<outcomes, cacheVars, domain, fill, historyVars>>

\* scorer.learn commits an outcome, or reports that nothing was applied.
CommitOutcome(t) ==
    /\ pc[t] = "commit" /\ outcomes < MaxOutcomes
    /\ outcomes' = outcomes + 1
    /\ req' = [u \in Threads |-> [req[u] EXCEPT
                 !.applied = @ \/ u = t, !.red = @ /\ StatusOf(outcomes + 1) = "RED"]]
    /\ Goto(t, "bump")
    /\ UNCHANGED <<cacheVars, domain, call, fill, historyVars>>

NotApplied(t) ==
    /\ pc[t] = "commit"
    /\ Goto(t, "bump")
    /\ UNCHANGED <<outcomes, cacheVars, domain, call, fill, req, historyVars>>

\* The learn raises, before its commit or (sealing failed) after it.
LearnFails(t) == pc[t] \in {"commit", "bump"} /\ Leave(t)

\* _clear_score_conservation_status_cache, statement by statement.
Bump(t) ==
    /\ pc[t] = "bump"
    /\ generation' = generation + 1
    /\ straddled' = (straddled \/ \E r \in Threads : pc[r] \in {"store", "statusStore"})
    /\ Goto(t, "clearStatus")
    /\ UNCHANGED <<outcomes, counts, countsInFlight, status, statusInFlight, domain,
                   call, fill, req, cleared, clearedBefore>>

ClearStatus(t) ==
    /\ pc[t] = "clearStatus"
    /\ status' = None
    /\ Goto(t, "clearCounts")
    /\ UNCHANGED <<outcomes, generation, counts, countsInFlight, statusInFlight, domain,
                   call, fill, req, historyVars>>

ClearCounts_Keeps(t) ==
    /\ pc[t] = "clearCounts"
    /\ cleared' = outcomes /\ clearedBefore' = cleared
    /\ CallCounts(t, 2, "after")
    /\ UNCHANGED <<outcomes, cacheVars, domain, fill, req, straddled>>

ClearCounts(t) ==
    /\ pc[t] = "clearCounts"
    /\ counts' = None
    /\ cleared' = outcomes /\ clearedBefore' = cleared
    /\ CallCounts(t, 2, "after")
    /\ UNCHANGED <<outcomes, generation, countsInFlight, status, statusInFlight, domain,
                   fill, req, straddled>>

TakeAfter(t) ==
    /\ pc[t] = "after"
    /\ req' = [req EXCEPT ![t].after = Snapshot(t)]
    /\ call' = [call EXCEPT ![t] = NoCall]
    /\ Goto(t, "done")
    /\ UNCHANGED <<outcomes, cacheVars, domain, fill, historyVars>>

LearnReturns(t) == pc[t] = "done" /\ Leave(t)

-----------------------------------------------------------------------------
CountsStep(t) == CountsHit(t) \/ CountsMiss(t) \/ CountsRead(t) \/ CountsCheck(t)
                 \/ CountsStore(t) \/ CountsFail(t)
PrimeStep(t) == PrimeMiss(t) \/ Evaluate(t) \/ StatusCheck(t) \/ StatusStore(t)
RequestStep(t) ==
    \/ ReaderAsk(t) \/ Governance(t) \/ Refuse(t) \/ Admit(t) \/ TakeDomain(t) \/ ScoreWrites(t)
    \/ TakeBefore(t) \/ CommitOutcome(t) \/ NotApplied(t) \/ LearnFails(t)
    \/ Bump(t) \/ ClearStatus(t) \/ ClearCounts(t) \/ TakeAfter(t) \/ LearnReturns(t)

Next ==
    \/ \E t \in Threads : CountsStep(t) \/ PrimeStep(t) \/ RequestStep(t)
    \/ CountsExpire \/ StatusExpire

Spec == Init /\ [][Next]_vars

-----------------------------------------------------------------------------
(* Properties *)

\* Where a thread holds the domain lock: a learn also inside its counts calls.
Held == {"score", "before", "commit", "bump", "clearStatus", "clearCounts", "after", "done"}
Counting == {"look", "read", "check", "store"}
HoldsDomain(t) == pc[t] \in Held \/ (pc[t] \in Counting /\ call[t].next \in Held)
Locations == Held \cup Counting
             \cup {"idle", "decide", "queue", "evaluate", "statusCheck", "statusStore"}

Calls == [left : 0..2, next : Locations, ok : BOOLEAN, gen : 0..MaxClears, val : Numbers]
Fills == [gen : 0..MaxClears, s : Statuses]
Requests == [seen : Statuses, before : Numbers \cup {None}, after : Numbers \cup {None},
             applied : BOOLEAN, red : BOOLEAN]

\* The type invariant, with the domain lock belonging to the thread that is
\* inside it.
TypeOK ==
    /\ outcomes \in Numbers /\ generation \in 0..MaxClears
    /\ counts \in [n : Numbers, fresh : BOOLEAN] \cup {None}
    /\ status \in [s : Statuses, fresh : BOOLEAN] \cup {None}
    /\ countsInFlight \in BOOLEAN /\ statusInFlight \in BOOLEAN
    /\ domain \in Writers \cup {None}
    /\ pc \in [Threads -> Locations]
    /\ call \in [Threads -> Calls] /\ fill \in [Threads -> Fills] /\ req \in [Threads -> Requests]
    /\ cleared \in Numbers /\ clearedBefore \in Numbers /\ straddled \in BOOLEAN
    /\ \A t \in Threads : HoldsDomain(t) <=> domain = t

\* The generation protects the counts: unless a clear met a reader between its
\* check and its store, what is cached shows every outcome cleared for.
CountsAreCurrent == ~straddled /\ counts # None => counts.n >= cleared

\* The cached status may come from the counts that a clear was about to drop,
\* the status being dropped before the counts; it is never older than that.
StatusIsOneClearBehind ==
    ~straddled /\ status # None /\ status.s # "UNKNOWN" =>
        \E n \in clearedBefore..outcomes : status.s = StatusOf(n)

\* A stale entry is handed out only while a reader is about to replace it.
InFlightHasAReader == countsInFlight => \E t \in Threads : pc[t] = "read"

\* The receipt of an applied outcome shows it: the verified count after the
\* outcome exceeds the one before.
ReceiptShowsOutcomeAt(t) ==
    pc[t] = "done" /\ req[t].applied /\ None \notin {req[t].before, req[t].after}
        => req[t].after > req[t].before
ReceiptShowsOutcome == ~straddled => \A t \in Learns : ReceiptShowsOutcomeAt(t)

\* "Read live conservation and evidence state before a mutating scorer call"
\* (_score_write_governance): a request during which conservation never was
\* anything but RED is not admitted.
RedIsRefused == \A t \in Writers : req[t].red => pc[t] # "queue" /\ ~HoldsDomain(t)

===============================================================================
