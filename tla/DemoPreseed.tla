------------------------------ MODULE DemoPreseed ------------------------------
(***************************************************************************)
(* scripts/preseed_s2p_demo.py: a client that plants the demonstration     *)
(* through the live API, phase after phase, and is run again after any     *)
(* failure.  What makes it hard is the client's timeout: a request that    *)
(* got no answer may have been refused, may have committed, or may commit  *)
(* later.  Events with a fixed id are planted once, guarded by the         *)
(* inventory the run read; some phases plant events with a new id every    *)
(* time.  The API itself (scoring, learning) is external here: see         *)
(* DecisionLifecycle; it learns a resolved decision again when asked to.   *)
(***************************************************************************)
EXTENDS Integers, Sequences, FiniteSets

CONSTANTS
    Events,        \* per phase "warm", "post", "cohort": the fixed ids of its events
    Format,        \* the warm events of the category that is to be extinct
    MinPending,    \* pending decisions that make the cohort ready (18 of 24)
    MaxRuns,       \* bound: runs of the script
    MaxLost        \* bound: requests without an answer

VARIABLES
    done,               \* per request: how often it has committed
    young, old,         \* requests that may still commit: old ones, when an inventory missed them
    missed,             \* history: how many of a request inventories have missed
    baselined,          \* the twin is frozen
    foreign,            \* an unrelated format decision is pending
    act, todo, item,    \* the script: phase, events left, event scored and not yet learned
    known, confirmed,   \* inventory the run read: events, and those already resolved
    failed, report,     \* an error or limitation is on report; outcome of the cohort
    attempts, lostCalls

preseedVars == <<done, young, old, missed, baselined, foreign, act, todo, item, known, confirmed,
                 failed, report, attempts, lostCalls>>
serverVars == <<done, young, old, missed>>
demoVars == <<baselined, foreign>>

All == UNION {Events[p] : p \in DOMAIN Events}
\* A request scores an event or learns it.
Requests == {"score", "learn"} \X All
Planted(e) == done[<<"score", e>>]
Learned(e) == done[<<"learn", e>>]

Order == <<"idle", "warm", "extinction", "drain", "fresh", "freeze", "post", "review", "reviewed", "cohort", "verify", "persist", "idle">>
After(p) == Order[CHOOSE i \in 2..Len(Order) : Order[i - 1] = p]
PreseedAssumption ==
    /\ DOMAIN Events = {"warm", "post", "cohort"} /\ {MinPending, MaxRuns, MaxLost} \subseteq Nat
    /\ \A p, q \in DOMAIN Events : p # q => Events[p] \cap Events[q] = {}
    /\ Format \subseteq Events["warm"] /\ "none" \notin All

Init ==
    /\ done = [r \in Requests |-> 0] /\ young = done /\ old = done /\ missed = done
    /\ baselined = FALSE /\ foreign = FALSE
    /\ act = "idle" /\ todo = {} /\ item = "none" /\ known = {} /\ confirmed = {}
    /\ failed = FALSE /\ report = "none" /\ attempts = 0 /\ lostCalls = 0

\* A read of the inventory, beside requests y under way, misses those of R that show
\* no trace yet.
Sees(R, y) ==
    LET over == {r \in R : done'[r] = 0} IN
    /\ young' = [r \in Requests |-> IF r \in over THEN 0 ELSE y[r]]
    /\ old' = [r \in Requests |-> IF r \in over THEN old[r] + y[r] ELSE old[r]]
    /\ missed' = [r \in Requests |-> IF r \in over THEN missed[r] + y[r] ELSE missed[r]]
\* What a list of the decisions of K may show as resolved: of several decisions of one
\* event, the last one tells.
ResolvedOf(K) ==
    {C \in SUBSET K : \A e \in K : /\ Learned(e) = 0 => e \notin C
                                   /\ Planted(e) = 1 /\ Learned(e) > 0 => e \in C}
\* The whole inventory, or an error that ends the run.
ReadInventory ==
    /\ done' = done /\ Sees(Requests, young)
    /\ known' = {e \in All : Planted(e) > 0} /\ confirmed' \in ResolvedOf(known')
Enter(p) == act' = p /\ todo' = (IF p \in DOMAIN Events THEN Events[p] ELSE {}) /\ item' = "none"
InPhase(p) == act = p /\ todo = {} /\ item = "none"

\* The demo guard and the inventory come before any mutation.
StartRun ==
    /\ act = "idle" /\ attempts < MaxRuns /\ attempts' = attempts + 1
    /\ ReadInventory /\ Enter("warm") /\ failed' = FALSE /\ report' = "none"
    /\ UNCHANGED <<demoVars, lostCalls>>
\* The script is stopped, or raises.
Stop ==
    /\ act # "idle" /\ Enter("idle")
    /\ UNCHANGED <<serverVars, demoVars, known, confirmed, failed, report, attempts, lostCalls>>

-----------------------------------------------------------------------------
(* Scoring and learning an event with a fixed id *)

ScoreKnown(e) ==
    /\ e \in todo /\ item = "none" /\ e \in known /\ act \in {"warm", "post"}
    /\ todo' = todo \ {e} /\ item' = IF e \in confirmed THEN "none" ELSE e
    /\ UNCHANGED <<serverVars, demoVars, act, known, confirmed, failed, report, attempts, lostCalls>>

\* No answer: the request never arrived, commits, or is still under way.
Fates == {"lost", "commits", "flies"}
Commit(r) == done' = [done EXCEPT ![r] = @ + 1]
UnderWay(r, fate) == IF fate = "flies" THEN [young EXCEPT ![r] = @ + 1] ELSE young
Unanswered(r, fate) ==
    /\ lostCalls < MaxLost /\ lostCalls' = lostCalls + 1
    /\ IF fate = "commits" THEN Commit(r) ELSE done' = done
LeftAlone(r) == \E fate \in Fates :
    Unanswered(r, fate) /\ young' = UnderWay(r, fate) /\ UNCHANGED <<old, missed>>
Answered(r) == Commit(r) /\ UNCHANGED <<young, old, missed, lostCalls>>
Refused == UNCHANGED <<serverVars, lostCalls>>

\* An operator whose name has an underscore is a plausible bug of the definition
\* that follows; no action uses it.
Unplanted_Blind(e) == TRUE
Unplanted(e) == e \notin known

ScoreNew(e) ==
    /\ e \in todo /\ item = "none" /\ Unplanted(e) /\ act \in {"warm", "post"}
    /\ todo' = todo \ {e}
    /\ \/ Answered(<<"score", e>>) /\ known' = known \cup {e} /\ item' = e /\ failed' = failed
       \/ (Refused \/ LeftAlone(<<"score", e>>)) /\ failed' = TRUE /\ UNCHANGED <<known, item>>
    /\ UNCHANGED <<demoVars, act, confirmed, report, attempts>>

\* An answer that says learning was not applied is an error too.
LearnOf(e, ok) ==
    /\ \/ Answered(<<"learn", e>>)
       \/ ~ok /\ (Refused \/ LeftAlone(<<"learn", e>>))
    /\ failed' = (failed \/ ~ok)
Learn ==
    /\ item # "none" /\ item' = "none" /\ \E ok \in BOOLEAN : LearnOf(item, ok)
    /\ UNCHANGED <<demoVars, act, todo, known, confirmed, report, attempts>>

CommitLate ==
    /\ \E r \in Requests :
          /\ Commit(r)
          /\ \/ young[r] > 0 /\ young' = [young EXCEPT ![r] = @ - 1] /\ old' = old
             \/ old[r] > 0 /\ old' = [old EXCEPT ![r] = @ - 1] /\ young' = young
    /\ UNCHANGED <<missed, demoVars, act, todo, item, known, confirmed, failed, report, attempts, lostCalls>>

-----------------------------------------------------------------------------
(* The phases between *)

\* Events planted under a new id every time leave no trace in the inventory's ids.
NewIds(p) ==
    /\ InPhase(p) /\ Enter(After(p)) /\ failed' \in {failed, TRUE}
    /\ UNCHANGED <<serverVars, demoVars, known, confirmed, report, attempts, lostCalls>>
WarmDone == InPhase("warm") /\ Enter("extinction")
            /\ UNCHANGED <<serverVars, demoVars, known, confirmed, failed, report, attempts, lostCalls>>
\* The format decisions are listed anew.  An unrelated pending one stops it, and an
\* extinction that is recorded with nothing pending needs no more; otherwise a final
\* decision is scored, under a new id, and the pending ones are drained: those of the
\* warm events, and those that earlier runs left behind under their own new ids.
Pending == LET K == {e \in Format : Planted(e) > 0} IN {K \ C : C \in ResolvedOf(K)}
SeedExtinction ==
    /\ InPhase("extinction")
    /\ \/ foreign /\ Enter("fresh") /\ failed' = TRUE /\ UNCHANGED serverVars
       \/ ~foreign /\ {} \in Pending /\ Enter("fresh") /\ UNCHANGED <<serverVars, failed>>
       \/ ~foreign /\ Enter("fresh") /\ failed' = TRUE /\ UNCHANGED serverVars
       \/ /\ ~foreign /\ act' = "drain" /\ todo' \in Pending /\ UNCHANGED <<item, failed>>
          /\ done' = done /\ Sees({"learn"} \X Format, young)
    /\ UNCHANGED <<demoVars, known, confirmed, report, attempts, lostCalls>>
\* The queue has an event's every pending decision; a failing learn ends the drain.
Drain(e) ==
    /\ act = "drain" /\ e \in todo
    /\ \E ok \in BOOLEAN :
          /\ LearnOf(e, ok)
          /\ \/ ~ok /\ Enter("fresh")
             \/ ok /\ todo' = todo \ {e} /\ UNCHANGED <<act, item>>
             \/ /\ ok /\ Planted(e) > 1 /\ Learned(e) + 1 < Planted(e) + MaxLost
                /\ UNCHANGED <<act, todo, item>>
    /\ UNCHANGED <<demoVars, known, confirmed, report, attempts>>
\* The queue is read again: unless the final decision is alone in it, that one is not
\* learned, which is a limitation; learning it may fail too.  A row under a new id that
\* cannot be learned ends the drain before that.
FinishExtinction ==
    /\ act = "drain" /\ Enter("fresh")
    /\ failed' \in (IF todo # {} \/ foreign \/ {} \notin Pending THEN {TRUE} ELSE {failed, TRUE})
    /\ UNCHANGED <<serverVars, demoVars, known, confirmed, report, attempts, lostCalls>>
Foreign ==
    /\ foreign' = ~foreign
    /\ UNCHANGED <<serverVars, baselined, act, todo, item, known, confirmed, failed, report, attempts, lostCalls>>
\* Nothing is frozen after a failure; freezing again is harmless, re-freezing not
\* always possible.
Freeze ==
    /\ InPhase("freeze")
    /\ IF failed THEN Enter("idle") /\ baselined' = baselined
       ELSE \/ Enter("post") /\ baselined' = TRUE
            \/ Enter("idle") /\ baselined' \in {baselined, TRUE}
    /\ UNCHANGED <<serverVars, foreign, known, confirmed, failed, report, attempts, lostCalls>>
PostDone == InPhase("post") /\ Enter("review")
            /\ UNCHANGED <<serverVars, demoVars, known, confirmed, failed, report, attempts, lostCalls>>

-----------------------------------------------------------------------------
(* The pending cohort: scored and left for a person *)

\* After the review the inventory is read anew, unless something failed before.
CohortBegin ==
    /\ InPhase("reviewed")
    /\ IF failed THEN Enter("persist") /\ report' = "skipped" /\ UNCHANGED <<serverVars, known, confirmed>>
       ELSE Enter("cohort") /\ report' = "pending" /\ ReadInventory
    /\ UNCHANGED <<demoVars, failed, attempts, lostCalls>>
\* The deployed factors are others, or the inventory cannot be read.
CohortRefused ==
    /\ InPhase("reviewed") /\ ~failed /\ Enter("persist")
    /\ report' \in {"skipped", "inventory_failed"} /\ failed' = TRUE
    /\ UNCHANGED <<serverVars, demoVars, known, confirmed, attempts, lostCalls>>
CohortReuse(e) ==
    /\ act = "cohort" /\ e \in todo /\ e \in known /\ todo' = todo \ {e}
    /\ UNCHANGED <<serverVars, demoVars, act, item, known, confirmed, failed, report, attempts, lostCalls>>
\* Answered; or refused, which is a limitation (the conservation gate) or an error.
CohortScore(e) ==
    /\ act = "cohort" /\ e \in todo /\ Unplanted(e) /\ todo' = todo \ {e}
    /\ \/ Answered(<<"score", e>>) /\ failed' = failed
       \/ Refused /\ failed' = TRUE
    /\ UNCHANGED <<demoVars, act, item, known, confirmed, report, attempts>>
\* No answer: the id is read back and never blindly scored again.  Two rows, or a
\* list that cannot be read, end the phase; no row is an error.
CohortReadback(e) ==
    LET r == <<"score", e>> IN
    /\ act = "cohort" /\ e \in todo /\ Unplanted(e)
    /\ \E fate \in Fates :
          /\ Unanswered(r, fate)
          /\ \/ /\ Sees({r}, UnderWay(r, fate))
                /\ IF done'[r] > 1 THEN Enter("verify") /\ report' = "ambiguous" /\ failed' = TRUE
                   ELSE /\ todo' = todo \ {e} /\ failed' = (failed \/ done'[r] = 0)
                        /\ UNCHANGED <<act, item, report>>
             \/ /\ young' = UnderWay(r, fate) /\ UNCHANGED <<old, missed>>
                /\ Enter("verify") /\ report' = "inventory_failed" /\ failed' = TRUE
    /\ UNCHANGED <<demoVars, known, confirmed, attempts>>
CohortDone ==
    /\ InPhase("cohort") /\ Enter("verify")
    /\ UNCHANGED <<serverVars, demoVars, known, confirmed, failed, report, attempts, lostCalls>>
\* The final inventory and the visible queue decide what is reported.
Usable == {e \in Events["cohort"] : Planted(e) = 1 /\ Learned(e) = 0}
CohortVerify ==
    /\ InPhase("verify") /\ Enter("persist")
    /\ \/ /\ UNCHANGED <<serverVars, known, confirmed>>
          /\ IF report = "pending" /\ ~failed /\ \A e \in Events["cohort"] : Planted(e) <= 1
             THEN /\ report' \in {"partial"} \cup (IF Cardinality(Usable) >= MinPending THEN {"ready"} ELSE {})
                  /\ failed' = (report' = "partial")
             ELSE report' = (IF report = "pending" THEN "partial" ELSE report) /\ failed' = TRUE
       \/ report' = "inventory_failed" /\ failed' = TRUE /\ UNCHANGED <<serverVars, known, confirmed>>
    /\ UNCHANGED <<demoVars, attempts, lostCalls>>
\* A person resolves a decision of the cohort.
Triage(e) ==
    /\ e \in Events["cohort"] /\ Planted(e) > 0 /\ Learned(e) = 0
    /\ Commit(<<"learn", e>>)
    /\ UNCHANGED <<young, old, missed, demoVars, act, todo, item, known, confirmed, failed, report, attempts, lostCalls>>
Persist ==
    /\ InPhase("persist") /\ Enter("idle") /\ failed' \in {failed, TRUE}
    /\ UNCHANGED <<serverVars, demoVars, known, confirmed, report, attempts, lostCalls>>

Next ==
    \/ StartRun \/ Stop \/ Learn \/ CommitLate \/ WarmDone \/ SeedExtinction \/ FinishExtinction
    \/ Foreign \/ NewIds("fresh") \/ NewIds("review") \/ Freeze \/ PostDone \/ CohortBegin
    \/ CohortRefused \/ CohortDone \/ CohortVerify \/ Persist
    \/ \E e \in All : ScoreKnown(e) \/ ScoreNew(e) \/ Drain(e) \/ CohortReuse(e) \/ CohortScore(e)
                      \/ CohortReadback(e) \/ Triage(e)

Spec == Init /\ [][Next]_preseedVars

-----------------------------------------------------------------------------
(* Properties *)

TypeOK ==
    /\ act \in {Order[i] : i \in DOMAIN Order} /\ todo \subseteq All /\ confirmed \subseteq known
    /\ known \subseteq All /\ {done, young, old, missed} \subseteq [Requests -> Nat]
    /\ report \in {"none", "skipped", "pending", "ambiguous", "inventory_failed", "partial", "ready"}

\* However its runs are interrupted and repeated and whatever answers are lost, the
\* script plants an event once, and once more only for each request that was still
\* under way when an inventory was read; so it learns an event that has one decision,
\* in its own phase, in the drain of the format queue and in later runs.  What it
\* does after the freeze has a baseline, and a cohort is reported ready only when
\* each of its slots has a decision.
PlantedOnce ==
    /\ \A e \in All : /\ Planted(e) <= 1 + missed[<<"score", e>>]
                      /\ Planted(e) <= 1 => Learned(e) <= 1 + missed[<<"learn", e>>]
    /\ \A e \in Events["post"] : Planted(e) > 0 => baselined
    /\ report = "ready" => \A e \in Events["cohort"] : Planted(e) > 0
================================================================================
