----------------------------- MODULE BudgetPolicy ------------------------------
(***************************************************************************)
(* Persistence of the investigation budget (services/budget_persistence.py *)
(* and the classifier of main.py that allocates from it): counters and the *)
(* last rows of the history, saved after each allocation to one of two     *)
(* slots of the graph in turn.  The store replaces a slot by deleting it   *)
(* and creating it anew; each half may fail or be the last thing the       *)
(* process does.                                                           *)
(*                                                                         *)
(* One process owns the slots and one lock covers a whole allocation, so   *)
(* the model needs no threads: `phase' is where the lock's holder is.      *)
(***************************************************************************)
EXTENDS Integers, Sequences, FiniteSets

CONSTANTS MaxHistory,         \* rows a snapshot holds (MAX_HISTORY)
          MaxAllocations,     \* bound: allocations counted
          Gone                \* an absent slot

BudgetAssumption ==
    /\ MaxHistory \in Nat \ {0} /\ MaxAllocations \in Nat
    /\ Gone \notin [all : Nat, easy : Nat, hard : Nat, history : Seq({"easy", "medium", "hard"})]

VARIABLES
    policy,     \* the counters and the history in memory
    previous,   \* local `before' of the allocation under way
    slots,      \* the two governance nodes
    phase,      \* idle, counted, deleted, created; down between crash and restart
    told        \* history: the last total told to a caller or by a restart

budgetVars == <<policy, previous, slots, phase, told>>

Difficulty == {"easy", "medium", "hard"}
Fresh == [all |-> 0, easy |-> 0, hard |-> 0, history |-> <<>>]

Init ==
    /\ policy = Fresh /\ previous = Fresh /\ phase = "idle" /\ told = 0
    /\ slots = [k \in 0..1 |-> Gone]

LastRows(s) == SubSeq(s, Len(s) - (IF Len(s) < MaxHistory THEN Len(s) ELSE MaxHistory) + 1, Len(s))

\* The SDK's allocate: above 0.85 easy, under 0.65 hard; during the cold start
\* nothing is counted, which leaves no trace here.
Counted(p, kind) ==
    [all |-> p.all + 1,
     easy |-> p.easy + (IF kind = "easy" THEN 1 ELSE 0),
     hard |-> p.hard + (IF kind = "hard" THEN 1 ELSE 0),
     history |-> LastRows(Append(p.history, kind))]

Allocate ==
    /\ phase = "idle" /\ policy.all < MaxAllocations
    /\ \E kind \in Difficulty : policy' = Counted(policy, kind)
    /\ previous' = policy /\ phase' = "counted"
    /\ UNCHANGED <<slots, told>>

\* An operator whose name has an underscore is a plausible bug of the definition
\* that follows; no action uses it.
Slot_OneForAll(total) == 0
\* The slots take turns.
Slot(total) == total % 2

\* save_governance, first half and second half.
DeleteSlot ==
    /\ phase = "counted" /\ phase' = "deleted"
    /\ slots' = [slots EXCEPT ![Slot(policy.all)] = Gone]
    /\ UNCHANGED <<policy, previous, told>>
CreateSlot ==
    /\ phase = "deleted" /\ phase' = "created"
    /\ slots' = [slots EXCEPT ![Slot(policy.all)] = policy]
    /\ UNCHANGED <<policy, previous, told>>
Answer ==
    /\ phase = "created" /\ phase' = "idle"
    /\ told' = policy.all
    /\ UNCHANGED <<policy, previous, slots>>
\* The read of the decision or the save raises, perhaps after it took effect:
\* the counters go back and the request fails.
Undo ==
    /\ phase \in {"counted", "deleted", "created"} /\ phase' = "idle"
    /\ policy' = previous
    /\ UNCHANGED <<previous, slots, told>>

Crash ==
    /\ phase # "down" /\ phase' = "down"
    /\ UNCHANGED <<policy, previous, slots, told>>

\* A snapshot that is not consistent keeps the application from starting.
Visible(s, kind) == Cardinality({i \in DOMAIN s.history : s.history[i] = kind})
Consistent(s) ==
    /\ Len(s.history) = (IF s.all < MaxHistory THEN s.all ELSE MaxHistory)
    /\ s.easy + s.hard <= s.all
    /\ Visible(s, "easy") <= s.easy /\ Visible(s, "hard") <= s.hard
    /\ Visible(s, "medium") <= s.all - s.easy - s.hard

Present == {k \in DOMAIN slots : slots[k] # Gone}
\* The present slot with the larger total.
Newest(p) ==
    \/ Present = {} /\ p = Fresh
    \/ \E k \in Present : p = slots[k] /\ \A j \in Present : slots[j].all <= slots[k].all
Restart ==
    /\ phase = "down" /\ phase' = "idle"
    /\ \A k \in Present : Consistent(slots[k])
    /\ Newest(policy') /\ told' = policy'.all
    /\ UNCHANGED <<previous, slots>>

Next == Allocate \/ DeleteSlot \/ CreateSlot \/ Answer \/ Undo \/ Crash \/ Restart

Spec == Init /\ [][Next]_budgetVars

-----------------------------------------------------------------------------
(* Properties *)

TypeOK ==
    /\ phase \in {"idle", "counted", "deleted", "created", "down"}
    /\ told \in 0..MaxAllocations + 1
    /\ \A s \in {policy, previous} \cup {slots[k] : k \in Present} :
          Len(s.history) <= MaxHistory /\ {s.all, s.easy, s.hard} \subseteq Nat

\* Whatever crashes or fails in the middle of a save, an allocation that was
\* answered is counted after every restart, an unanswered one adds at most itself,
\* and no snapshot left in the graph keeps the application from starting.
Promise == INSTANCE DurableCounter WITH known <- told
BudgetIsDurable ==
    /\ Promise!Spec
    /\ [](\A k \in Present : Consistent(slots[k]))
================================================================================
