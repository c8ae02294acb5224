------------------------------- MODULE Authority -------------------------------
(***************************************************************************)
(* Earned authority and the Frozen Twin (services/s2p_autonomy.py with its *)
(* router, routers/s2p_demo_control.py and the twin beats of               *)
(* routers/s2p_demo_beats.py): promotion records per category, the         *)
(* immutable day-zero snapshot, the demo snapshots selected in its place,  *)
(* and the flush of the live centroids to the graph.                       *)
(*                                                                         *)
(* The SDK's PromotionEngine and FrozenTwin are external: the engine loads *)
(* a record and saves it, freezing an existing snapshot is refused.  A     *)
(* snapshot is the centroids it copied, a centroid its number of updates.  *)
(***************************************************************************)
EXTENDS Integers, FiniteSets

CONSTANTS
    Clients, Classes,    \* request threads; decision categories
    Cells, Runs,         \* centroid cells; ids of demo re-freezes
    Base, Absent,        \* the production snapshot; no snapshot
    MaxStage, MaxCalls, MaxUpdates,
    Free                 \* nobody holds the domain mutation lock

Contents == [Cells -> 0..MaxUpdates]
AuthorityAssumption ==
    /\ {MaxStage, MaxCalls, MaxUpdates} \subseteq Nat
    /\ Base \notin Runs /\ Absent \notin Runs \cup {Base} /\ Free \notin Clients
    /\ Absent \notin Contents

VARIABLES
    level,                      \* the promotion records
    twins, chosen, archived,    \* snapshots, demo_twin_active, archived contents
    live, cells, marker,        \* centroids in memory and in the graph; the flush marker
    turn, doing, memory, asked,  \* mutation lock; per client: step and locals; calls made
    was, lost                   \* history: contents once chosen; cells that missed an update

authorityVars == <<level, twins, chosen, archived, live, cells, marker, turn, doing, memory, asked, was, lost>>
twinVars == <<twins, chosen, archived, was>>
learnVars == <<live, cells, marker, lost>>

Nothing == [class |-> CHOOSE c \in Classes : TRUE, stage |-> 0, kind |-> "none", run |-> Base, todo |-> {}]

Init ==
    /\ level = [c \in Classes |-> 0]
    /\ twins = [s \in Runs \cup {Base} |-> Absent] /\ chosen = Base /\ archived = {} /\ was = {}
    /\ live = [c \in Cells |-> 0] /\ cells = live /\ marker = "none" /\ lost = {}
    /\ turn = Free /\ doing = [t \in Clients |-> "idle"] /\ memory = [t \in Clients |-> Nothing]
    /\ asked = 0

Ask(t, to, m) ==
    /\ doing[t] = "idle" /\ asked < MaxCalls
    /\ asked' = asked + 1
    /\ doing' = [doing EXCEPT ![t] = to] /\ memory' = [memory EXCEPT ![t] = m]
Go(t, from, to) == doing[t] = from /\ doing' = [doing EXCEPT ![t] = to]
Locked(t, to, m) == turn = Free /\ turn' = t /\ Ask(t, to, m)
\* Any step of a locked call may raise: 503, and the lock is released.
Release(t) ==
    /\ turn = t /\ turn' = Free
    /\ doing' = [doing EXCEPT ![t] = "idle"] /\ memory' = [memory EXCEPT ![t] = Nothing]

-----------------------------------------------------------------------------
(* Promotion: no lock between the gate, the load and the save *)

\* RED is refused and AMBER held before anything is read; the gate's status does
\* not bind the steps that follow.
Promote(t, kind) ==
    /\ \E c \in Classes : Ask(t, "loaded", [Nothing EXCEPT !.class = c, !.stage = level[c], !.kind = kind])
    /\ UNCHANGED <<level, twinVars, learnVars, turn>>

\* The policy may decline; an advance goes one stage up, a rollback down.
NewStages(m) ==
    IF m.kind = "advance" THEN {m.stage, m.stage + 1} \cap 0..MaxStage ELSE 0..m.stage
SavePromotion(t) ==
    /\ Go(t, "loaded", "saved")
    /\ \E s \in NewStages(memory[t]) : level' = [level EXCEPT ![memory[t].class] = s]
    /\ UNCHANGED <<twinVars, learnVars, turn, memory, asked>>
\* The target's record takes at most the stage of the source.
SaveTransfer(t) ==
    /\ memory[t].kind = "transfer" /\ Go(t, "loaded", "saved")
    /\ \E c \in Classes \ {memory[t].class}, s \in 0..memory[t].stage : level' = [level EXCEPT ![c] = s]
    /\ UNCHANGED <<twinVars, learnVars, turn, memory, asked>>
\* The governance event, whatever the result; its failure is a 500 after the save.
RecordEvent(t) ==
    /\ Go(t, "saved", "idle") /\ memory' = [memory EXCEPT ![t] = Nothing]
    /\ UNCHANGED <<level, twinVars, learnVars, turn, asked>>

-----------------------------------------------------------------------------
(* The Frozen Twin *)

FreezeTwin(t) ==
    /\ doing[t] = "idle" /\ asked < MaxCalls /\ asked' = asked + 1
    /\ twins[Base] = Absent /\ twins' = [twins EXCEPT ![Base] = live]
    /\ was' = IF chosen = Base THEN was \cup {live} ELSE was
    /\ UNCHANGED <<level, chosen, archived, learnVars, turn, doing, memory>>

\* POST re-freeze: under the lock, with the production twin frozen.
Refreeze(t) ==
    /\ twins[Base] # Absent
    /\ \E r \in Runs : twins[r] = Absent /\ Locked(t, "archive", [Nothing EXCEPT !.run = r])
    /\ UNCHANGED <<level, twinVars, learnVars>>
Archive(t) ==
    /\ Go(t, "archive", "freeze")
    /\ twins[chosen] # Absent
    /\ archived' = archived \cup {twins[chosen]}
    /\ UNCHANGED <<level, twins, chosen, was, learnVars, turn, memory, asked>>
FreezeRun(t) ==
    /\ Go(t, "freeze", "choose")
    /\ twins' = [twins EXCEPT ![memory[t].run] = live]
    /\ UNCHANGED <<level, chosen, archived, was, learnVars, turn, memory, asked>>
\* An operator whose name has an underscore is a plausible bug of the definition
\* that follows; no action uses it.
Choose_Early(t) ==
    /\ doing[t] \in {"archive", "freeze", "choose"} /\ Release(t)
    /\ chosen' = memory[t].run /\ was' = was \cup {live}
    /\ UNCHANGED <<level, twins, archived, learnVars, asked>>
Choose(t) ==
    /\ doing[t] = "choose" /\ Release(t)
    /\ chosen' = memory[t].run /\ was' = was \cup {twins[memory[t].run]}
    /\ UNCHANGED <<level, twins, archived, learnVars, asked>>

-----------------------------------------------------------------------------
(* Learning and the flush of the live centroids *)

\* A learn request updates a centroid and writes its cell, both under the lock;
\* the write may fail without failing the request.
Learn(t) ==
    /\ doing[t] = "idle" /\ turn = Free /\ asked < MaxCalls /\ asked' = asked + 1
    /\ \E c \in Cells :
          /\ live[c] < MaxUpdates
          /\ live' = [live EXCEPT ![c] = @ + 1]
          /\ \/ cells' = [cells EXCEPT ![c] = live[c] + 1] /\ lost' = lost \ {c}
             \/ cells' = cells /\ lost' = lost \cup {c}
    /\ UNCHANGED <<level, twinVars, marker, turn, doing, memory>>

Flush(t) ==
    /\ Locked(t, "flush", [Nothing EXCEPT !.todo = Cells])
    /\ marker' = "pending"
    /\ UNCHANGED <<level, twinVars, live, cells, lost>>
\* One cell after the other; a write may be swallowed by the store.
FlushCell(t) ==
    /\ doing[t] = "flush"
    /\ \E c \in memory[t].todo :
          /\ cells' \in {cells, [cells EXCEPT ![c] = live[c]]}
          /\ memory' = [memory EXCEPT ![t].todo = @ \ {c}]
    /\ UNCHANGED <<level, twinVars, live, marker, lost, turn, doing, asked>>
\* The cells are read back and compared before the marker says persisted.
FlushDone(t) ==
    /\ doing[t] = "flush" /\ memory[t].todo = {} /\ cells = live /\ Release(t)
    /\ marker' = "persisted" /\ lost' = {}
    /\ UNCHANGED <<level, twinVars, live, cells, asked>>

Raise(t) == Release(t) /\ UNCHANGED <<level, twinVars, learnVars, asked>>

\* The process dies; the graph survives and the centroids come from its cells.
Restart ==
    /\ live # cells \/ turn # Free
    /\ live' = cells /\ lost' = {} /\ turn' = Free
    /\ doing' = [t \in Clients |-> "idle"] /\ memory' = [t \in Clients |-> Nothing]
    /\ UNCHANGED <<level, twinVars, cells, marker, asked>>

AuthorityStep(t) ==
    \/ \E kind \in {"advance", "rollback", "transfer"} : Promote(t, kind)
    \/ (memory[t].kind # "transfer" /\ SavePromotion(t)) \/ SaveTransfer(t) \/ RecordEvent(t)
    \/ FreezeTwin(t) \/ Refreeze(t) \/ Archive(t) \/ FreezeRun(t) \/ Choose(t)
    \/ Learn(t) \/ Flush(t) \/ FlushCell(t) \/ FlushDone(t) \/ Raise(t)
Next == Restart \/ \E t \in Clients : AuthorityStep(t)

Spec == Init /\ [][Next]_authorityVars

-----------------------------------------------------------------------------
(* Properties *)

TypeOK ==
    /\ level \in [Classes -> 0..MaxStage] /\ marker \in {"none", "pending", "persisted"}
    /\ {live, cells} \subseteq Contents /\ archived \subseteq Contents
    /\ turn \in Clients \cup {Free}

\* What a flush reported as persisted survives a restart, but for cells that
\* missed the update of a later learn request.
FlushedIsDurable == marker = "persisted" => \A c \in Cells : cells[c] = live[c] \/ c \in lost

\* Whatever fails or dies between its steps, a re-freeze never loses a baseline:
\* the chosen snapshot is on record, every content that was chosen once is still
\* chosen or archived, and the production snapshot never changes; and a flush
\* reports only what is durable.
BaselinesAreKept ==
    /\ [](/\ chosen # Base => twins[chosen] # Absent
          /\ \A v \in was : v = twins[chosen] \/ v \in archived
          /\ FlushedIsDurable)
    /\ [][twins[Base] # Absent => twins'[Base] = twins[Base]]_authorityVars
================================================================================
