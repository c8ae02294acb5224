----------------------------- MODULE Interventions -----------------------------
(***************************************************************************)
(* The human-oversight panel (framework/intervention_controls.py), the     *)
(* checkpoints it rolls back to (framework/checkpoint.py), the composite   *)
(* gate it steers (framework/composite_gate.py) and the learning state on  *)
(* disk (framework/learning_state.py).  The routes to the panel, to        *)
(* checkpoints and to the scorer's freeze answer 501                       *)
(* (routers/framework_router.py 423, 440, 450, 456, 642): what is modelled *)
(* here is reached by whoever constructs the classes, in the repository    *)
(* its tests.                                                              *)
(*                                                                         *)
(* Controls are coroutines of one event loop: each changes memory and then *)
(* awaits the audit node in the graph, so that other controls run in       *)
(* between.  The scorer is the constructor's: its learning runs beside the *)
(* loop, under no lock, and comes between any two stores of a control.     *)
(* Centroids and counts are their number of updates.                       *)
(***************************************************************************)
EXTENDS Integers, Sequences, FiniteSets

CONSTANTS
    Operators, Kinds,        \* coroutines of the panel; decision categories
    MaxMoves, MaxTensor,     \* bounds: controls used, updates of the tensor
    NoFile                   \* no learning state on disk yet

States == {"GREEN", "AMBER", "RED"}
InterventionsAssumption == MaxMoves \in Nat /\ MaxTensor \in Nat /\ NoFile \notin Nat

VARIABLES
    frozen, mu, counts, learner,      \* the scorer, and how far its update is
    health,                           \* ConservationStateMachine.state
    disabled, halted, forced, bar,    \* the composite gate: flags, sets and thresholds
    points,                           \* checkpoints: their mu and counts
    audit,                            \* intervention nodes, in the order of the graph
    file,                             \* the learning state on disk
    step, node, target, moves,        \* per coroutine: where it is, its node, its checkpoint
    doubt                             \* history: the trail may have missed who froze last

interventionVars == <<frozen, mu, counts, learner, health, disabled, halted, forced, bar, points,
                      audit, file, step, node, target, moves, doubt>>
tensorVars == <<mu, counts>>
gateFlags == <<disabled, halted, forced, bar>>
panelVars == <<step, node, target, moves, doubt>>

NoNode == [type |-> "none", frozen |-> FALSE]
NoPoint == [mu |-> 0, counts |-> -1]

Init ==
    /\ frozen = FALSE /\ mu = 0 /\ counts = 0 /\ learner = "idle" /\ health = "GREEN"
    /\ disabled = FALSE /\ halted = {} /\ forced = {} /\ bar = [k \in Kinds |-> "shipped"]
    /\ points = {} /\ audit = <<>> /\ file = NoFile
    /\ step = [o \in Operators |-> "idle"] /\ node = [o \in Operators |-> NoNode]
    /\ target = [o \in Operators |-> NoPoint] /\ moves = 0 /\ doubt = FALSE

-----------------------------------------------------------------------------
(* The controls: an effect in memory, then the audit node *)

\* Nodes that tell whether learning is frozen.
Freezing == {"freeze_all_learning", "rollback", "conservation_state"}

\* A control runs from one await to the next.
LoopIsFree(o) == \A p \in Operators \ {o} : step[p] \in {"idle", "log", "save"}
Begins(o) == step[o] = "idle" /\ LoopIsFree(o) /\ moves < MaxMoves /\ moves' = moves + 1
\* The control has taken effect and awaits the write of its node.  A freezing one
\* leaves the trail in doubt as long as another's node is under way.
Awaits(o, type) ==
    /\ step' = [step EXCEPT ![o] = "log"]
    /\ node' = [node EXCEPT ![o] = [type |-> type, frozen |-> frozen']]
    /\ doubt' = IF type \in Freezing THEN \E p \in Operators : node[p].type \in Freezing ELSE doubt
    /\ UNCHANGED <<learner, points, audit, file>>
Acts(o, type) == Begins(o) /\ Awaits(o, type) /\ UNCHANGED <<tensorVars, target>>

FreezeAll(o, f) == frozen' = f /\ Acts(o, "freeze_all_learning") /\ UNCHANGED <<health, gateFlags>>
\* PAUSED in AMBER and RED; GREEN unfreezes, whoever froze.
SetConservationState(o, s) ==
    /\ health' = s /\ frozen' = (s # "GREEN") /\ Acts(o, "conservation_state")
    /\ UNCHANGED gateFlags
FreezeCategory(o, k, on) ==
    /\ halted' = IF on THEN halted \cup {k} ELSE halted \ {k}
    /\ UNCHANGED <<frozen, health, disabled, forced, bar>> /\ Acts(o, "freeze_category")
ForceReview(o, k, on) ==
    /\ forced' = IF on THEN forced \cup {k} ELSE forced \ {k}
    /\ UNCHANGED <<frozen, health, disabled, halted, bar>> /\ Acts(o, "category_force_review")
DisableAutoApprove(o, on) ==
    /\ disabled' = on
    /\ UNCHANGED <<frozen, health, halted, forced, bar>> /\ Acts(o, "disable_auto_approve")
\* A threshold under 0.50 is answered with an error and changes nothing.
AdjustThreshold(o, k) ==
    /\ bar' = [bar EXCEPT ![k] = "adjusted"]
    /\ UNCHANGED <<frozen, health, disabled, halted, forced>> /\ Acts(o, "threshold_adjustment")

Recorded(o) ==
    /\ step[o] = "log" /\ LoopIsFree(o)
    /\ step' = [step EXCEPT ![o] = "idle"] /\ node' = [node EXCEPT ![o] = NoNode]
    /\ UNCHANGED <<frozen, learner, tensorVars, health, gateFlags, points, file, target, moves>>
\* An operator whose name has an underscore is a plausible bug of the definition
\* that follows; no action uses it.
LogIntervention_Drops(o) ==
    /\ Recorded(o) /\ doubt' = doubt
    /\ audit' = IF node[o].type = "rollback" THEN audit ELSE Append(audit, node[o])
\* A failing write is logged and told (audit_persisted); the effect stays.
LogIntervention(o) ==
    /\ Recorded(o)
    /\ \/ audit' = Append(audit, node[o]) /\ doubt' = doubt
       \/ audit' = audit /\ doubt' = (doubt \/ node[o].type \in Freezing)

-----------------------------------------------------------------------------
(* Checkpoints *)

\* The centroids are copied, then the counts where the scorer has any, and the
\* node is awaited; a failing write is raised.
CreateCheckpoint(o) ==
    /\ Begins(o)
    /\ step' = [step EXCEPT ![o] = "snapshot"] /\ target' = [target EXCEPT ![o] = [NoPoint EXCEPT !.mu = mu]]
    /\ UNCHANGED <<frozen, learner, tensorVars, health, gateFlags, points, audit, file, node, doubt>>
SnapshotCounts(o) ==
    /\ step[o] = "snapshot" /\ step' = [step EXCEPT ![o] = "save"]
    /\ target' \in {target, [target EXCEPT ![o].counts = counts]}
    /\ UNCHANGED <<frozen, learner, tensorVars, health, gateFlags, points, audit, file, node, moves, doubt>>
SaveCheckpoint(o) ==
    /\ step[o] = "save" /\ LoopIsFree(o)
    /\ step' = [step EXCEPT ![o] = "idle"] /\ target' = [target EXCEPT ![o] = NoPoint]
    /\ points' \in {points, points \cup {target[o]}}
    /\ UNCHANGED <<frozen, learner, tensorVars, health, gateFlags, audit, file, node, moves, doubt>>

\* The checkpoint is read and its centroids stored.  A query that fails or finds
\* nothing answers with an error, and logs nothing.
RestoreCentroids(o, p) == mu' = p.mu /\ target' = [target EXCEPT ![o] = p]
Rollback(o) ==
    /\ Begins(o)
    /\ \E p \in points : RestoreCentroids(o, p)
    /\ step' = [step EXCEPT ![o] = "counts"]
    /\ UNCHANGED <<frozen, learner, counts, health, gateFlags, points, audit, file, node, doubt>>
\* Older checkpoints have no counts.
RestoreCounts(o) ==
    /\ step[o] = "counts" /\ step' = [step EXCEPT ![o] = "freeze"]
    /\ counts' = IF target[o].counts = -1 THEN counts ELSE target[o].counts
    /\ UNCHANGED <<frozen, learner, mu, health, gateFlags, points, audit, file, node, target, moves, doubt>>
FreezeScorer(o) ==
    /\ step[o] = "freeze" /\ frozen' = TRUE /\ Awaits(o, "rollback")
    /\ target' = [target EXCEPT ![o] = NoPoint]
    /\ UNCHANGED <<tensorVars, health, gateFlags, moves>>

-----------------------------------------------------------------------------
(* Learning (the scorer is external), and the learning state on disk *)

\* An update looks at the freeze, then moves the centroids, then the counts.
LearnChecks ==
    /\ learner = "idle" /\ ~frozen /\ learner' = "checked"
    /\ UNCHANGED <<frozen, tensorVars, health, gateFlags, points, audit, file, panelVars>>
LearnMoves ==
    /\ learner = "checked" /\ mu < MaxTensor /\ learner' = "moved" /\ mu' = mu + 1
    /\ UNCHANGED <<frozen, counts, health, gateFlags, points, audit, file, panelVars>>
LearnCounts ==
    /\ learner = "moved" /\ counts < MaxTensor /\ learner' = "idle" /\ counts' = counts + 1
    /\ UNCHANGED <<frozen, mu, health, gateFlags, points, audit, file, panelVars>>
LearnUpdate == LearnChecks \/ LearnMoves \/ LearnCounts

\* save_state writes a temporary file and renames it over the old one; when either
\* fails, or the process dies in between, the old file stays.
SaveState ==
    /\ file # mu /\ file' = mu
    /\ UNCHANGED <<frozen, learner, tensorVars, health, gateFlags, points, audit, panelVars>>

\* CompositeDiscriminant.evaluate over its four signals; it reads the thresholds
\* and none of the flags an operator sets (disabled, halted, forced).
Approves(confident, margin, mature, protected, safe) ==
    confident /\ margin /\ mature /\ (protected => safe)

Panel(o) ==
    \/ \E b \in BOOLEAN : FreezeAll(o, b) \/ DisableAutoApprove(o, b)
    \/ \E s \in States : SetConservationState(o, s)
    \/ \E k \in Kinds, b \in BOOLEAN : FreezeCategory(o, k, b) \/ ForceReview(o, k, b)
    \/ \E k \in Kinds : AdjustThreshold(o, k)
    \/ CreateCheckpoint(o) \/ SnapshotCounts(o) \/ SaveCheckpoint(o)
    \/ Rollback(o) \/ RestoreCounts(o) \/ FreezeScorer(o) \/ LogIntervention(o)
Next == LearnUpdate \/ SaveState \/ \E o \in Operators : Panel(o)

Spec == Init /\ [][Next]_interventionVars

-----------------------------------------------------------------------------
(* Properties *)

TypeOK ==
    /\ {frozen, disabled} \subseteq BOOLEAN /\ health \in States
    /\ halted \cup forced \subseteq Kinds
    /\ {mu, counts} \subseteq 0..MaxTensor /\ file \in 0..MaxTensor \cup {NoFile}

LastTold == LET told == {i \in DOMAIN audit : audit[i].type \in Freezing}
            IN IF told = {} THEN FALSE ELSE audit[CHOOSE i \in told : \A j \in told : j <= i].frozen

\* The trail can be relied on, and recovers.  When no control is under way, the
\* last node that speaks of a freeze says whether learning is frozen, whoever froze
\* or lifted it and however many controls overlapped or lost their nodes before:
\* the first freezing control that runs with no other's node under way, and whose
\* own node is written, puts the trail right again.
OversightHolds == ~doubt /\ (\A o \in Operators : step[o] = "idle") => LastTold = frozen
================================================================================
