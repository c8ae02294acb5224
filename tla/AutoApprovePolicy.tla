--------------------------- MODULE AutoApprovePolicy ---------------------------
(***************************************************************************)
(* The auto-approve policy of a score (domains/s2p/auto_approve.py) and    *)
(* its statistics, updated by side-effect jobs on four executor threads    *)
(* without a lock: every += 1 reads a counter and stores it afterwards, so *)
(* that two jobs may store the same number and an update is lost.          *)
(***************************************************************************)
EXTENDS Integers, FiniteSets

CONSTANTS Scores, Categories, Other, PolicyThreshold

PolicyAssumption == PolicyThreshold \in [Categories -> 0..100] /\ Other \notin Categories

VARIABLES
    stage, verdict,       \* of the job of each score, and its decision
    stats,                \* _stats, a number per counter
    filed, caught, fresh, \* per job: counters stored, counter read, is its table the present one
    reset                 \* how far reset_auto_approve_stats has come

policyVars == <<stage, verdict, stats, filed, caught, fresh, reset>>

\* A counter is a kind and a category; the totals have no category.
Total(kind) == <<kind, Other>>
Totals == {Total("decisions"), Total("auto_approved"), Total("spot_checked")}
PerCategory == {"approved", "held"} \X (Categories \cup {Other})
Counters == Totals \cup PerCategory
Rank == [decisions |-> 1, auto_approved |-> 2, approved |-> 3, held |-> 3, spot_checked |-> 4]

NotYet == [category |-> Other, reason |-> "none"]
Nothing == [of |-> Total("decisions"), value |-> -1]

Init ==
    /\ stage = [s \in Scores |-> "none"] /\ verdict = [s \in Scores |-> NotYet]
    /\ stats = [k \in Counters |-> 0] /\ filed = [s \in Scores |-> {}]
    /\ caught = [s \in Scores |-> Nothing] /\ fresh = [s \in Scores |-> FALSE] /\ reset = 0

\* _should_auto_approve
ShouldAutoApprove(c, confidence, green, action, spot) ==
    IF c \notin Categories THEN "unknown_category"
    ELSE IF confidence < PolicyThreshold[c] THEN "below_threshold"
    ELSE IF ~green THEN "conservation_not_green"
    ELSE IF ~action THEN "wrong_action"
    ELSE IF spot THEN "spot_check" ELSE "approved"

\* The enrichment of a score decides and submits the decision to be recorded.
Decide(s) ==
    /\ stage[s] = "none"
    /\ \E c \in Categories \cup {Other}, confidence \in {0, 100}, green \in BOOLEAN,
          action \in BOOLEAN, spot \in BOOLEAN :
          verdict' = [verdict EXCEPT ![s] =
              [category |-> c, reason |-> ShouldAutoApprove(c, confidence, green, action, spot)]]
    /\ stage' = [stage EXCEPT ![s] = "queued"]
    /\ UNCHANGED <<stats, filed, caught, fresh, reset>>

\* record_auto_approve_decision takes the category's table first,
TakeTable(s) ==
    /\ stage[s] = "queued" /\ stage' = [stage EXCEPT ![s] = "begun"]
    /\ fresh' = [fresh EXCEPT ![s] = TRUE]
    /\ UNCHANGED <<verdict, stats, filed, caught, reset>>

\* then adds one to the counters of its decision, in the order of Rank.
Bumps(v) ==
    {Total("decisions")}
    \cup (IF v.reason = "approved" THEN {Total("auto_approved"), <<"approved", v.category>>}
          ELSE {<<"held", v.category>>})
    \cup (IF v.reason = "spot_check" THEN {Total("spot_checked")} ELSE {})
Due(s) == LET left == Bumps(verdict[s]) \ filed[s]
          IN {k \in left : \A j \in left : Rank[k[1]] <= Rank[j[1]]}

ReadCounter(s) ==
    /\ stage[s] = "begun" /\ caught[s] = Nothing
    /\ \E k \in Due(s) : caught' = [caught EXCEPT ![s] = [of |-> k, value |-> stats[k]]]
    /\ UNCHANGED <<stage, verdict, stats, filed, fresh, reset>>

\* An operator whose name has an underscore is a plausible bug of the definition
\* that follows; no action uses it.
StoreCounter_FilesAsHeld(s) ==
    LET k == caught[s].of
        at == IF k[1] = "approved" THEN <<"held", k[2]>> ELSE k IN
    /\ caught[s] # Nothing
    /\ stats' = IF k \in PerCategory /\ ~fresh[s] THEN stats
                ELSE [stats EXCEPT ![at] = caught[s].value + 1]
    /\ filed' = [filed EXCEPT ![s] = @ \cup {k}] /\ caught' = [caught EXCEPT ![s] = Nothing]
    /\ UNCHANGED <<stage, verdict, fresh, reset>>
\* A table that a reset has replaced is no longer part of the statistics.
StoreCounter(s) ==
    LET k == caught[s].of IN
    /\ caught[s] # Nothing
    /\ stats' = IF k \in PerCategory /\ ~fresh[s] THEN stats
                ELSE [stats EXCEPT ![k] = caught[s].value + 1]
    /\ filed' = [filed EXCEPT ![s] = @ \cup {k}] /\ caught' = [caught EXCEPT ![s] = Nothing]
    /\ UNCHANGED <<stage, verdict, fresh, reset>>

\* reset_auto_approve_stats (no route calls it, the tests do): the totals one by
\* one, then a new table.  One reset in a behaviour.
ResetOrder == <<"auto_approved", "spot_checked", "decisions">>
Reset ==
    /\ reset < 4 /\ reset' = reset + 1
    /\ \/ reset < 3 /\ stats' = [stats EXCEPT ![Total(ResetOrder[reset + 1])] = 0] /\ UNCHANGED fresh
       \/ /\ reset = 3 /\ fresh' = [s \in Scores |-> FALSE]
          /\ stats' = [k \in Counters |-> IF k \in PerCategory THEN 0 ELSE stats[k]]
    /\ UNCHANGED <<stage, verdict, filed, caught>>

Next == Reset \/ \E s \in Scores : Decide(s) \/ TakeTable(s) \/ ReadCounter(s) \/ StoreCounter(s)

Spec == Init /\ [][Next]_policyVars

-----------------------------------------------------------------------------
(* Properties *)

\* The jobs that have counted their decision under k.
Counted(k) == {s \in Scores : k \in filed[s]}

\* Type invariant.  Updates may be lost, by two jobs that overlap and by a reset,
\* so that the parts need not add up to the total; but no counter shows more than
\* the jobs that counted under it, and without a reset none of them shows nothing.
TypeOK ==
    \A k \in Counters :
        /\ stats[k] \in 0..Cardinality(Counted(k))
        /\ reset = 0 /\ Counted(k) # {} => stats[k] > 0
================================================================================
