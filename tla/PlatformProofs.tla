---------------------------- MODULE PlatformProofs -----------------------------
(***************************************************************************)
(* What the smaller components keep, for every value of their constants.   *)
(* A component that is alone in its scene takes its own steps or stutters, *)
(* so that a behaviour of the platform is one of each component; the rest  *)
(* is one inductive invariant per component.                               *)
(***************************************************************************)
EXTENDS Platform, FiniteSetTheorems, SequenceTheorems, TLAPS

Persisted == INSTANCE BudgetPolicyProofs WITH Gone <- None

-----------------------------------------------------------------------------
(* Each component takes its own steps *)

\* A step of the platform is one of a single scene.
LEMMA OneSceneMoves ==
    ASSUME [Next]_vars
    PROVE  /\ [Oversight!Next]_(Oversight!interventionVars)
           /\ [Budget!Next]_(Budget!budgetVars)
           /\ [Authority!Next]_(Authority!authorityVars)
           /\ [Deployment!Next]_(Deployment!deployVars)
           /\ [Seeding!Next]_(Seeding!seedingVars)
           /\ [Preseed!Next]_(Preseed!preseedVars)
           /\ [Gate!Next]_(Gate!gateVars)
           /\ [Suppliers!Next]_(Suppliers!supplierVars)
           /\ [Endpoints!Next]_(Endpoints!endpointVars)
           /\ [Policy!Next]_(Policy!policyVars)
BY DEF Next, vars, GateScene, PolicyScene, AuthorityScene, OversightScene, BudgetScene,
    DeploymentScene, SeedingScene, PreseedScene, SuppliersScene, EndpointsScene,
    interventionVars, budgetVars, authorityVars, deployVars, seedingVars, preseedVars, gateVars, supplierVars, endpointVars, policyVars,
    Oversight!interventionVars, Budget!budgetVars, Authority!authorityVars,
    Deployment!deployVars, Seeding!seedingVars, Preseed!preseedVars, Gate!gateVars, Suppliers!supplierVars,
    Endpoints!endpointVars, Policy!policyVars

\* The platform implements each component.
LEMMA EachAlone ==
    Spec => /\ Oversight!Spec /\ Budget!Spec /\ Authority!Spec
            /\ Deployment!Spec /\ Seeding!Spec /\ Preseed!Spec /\ Gate!Spec /\ Suppliers!Spec /\ Endpoints!Spec
            /\ Policy!Spec
<1>1. Init => /\ Oversight!Init /\ Budget!Init /\ Authority!Init
              /\ Deployment!Init /\ Seeding!Init /\ Preseed!Init /\ Gate!Init /\ Suppliers!Init /\ Endpoints!Init
              /\ Policy!Init
  BY DEF Init
<1> QED BY <1>1, OneSceneMoves, PTL
    DEF Spec, Oversight!Spec, Budget!Spec, Authority!Spec, Deployment!Spec, Seeding!Spec,
        Preseed!Spec, Gate!Spec, Suppliers!Spec, Endpoints!Spec, Policy!Spec

-----------------------------------------------------------------------------
(* The persisted budget: its own proof, for the budget of the platform *)

LEMMA SameSnapshots ==
    /\ Budget!Present = Persisted!Present
    /\ \A s : Budget!Consistent(s) <=> Persisted!Consistent(s)
<1>1. \A s, kind : Budget!Visible(s, kind) = Persisted!Visible(s, kind)
  BY Zenon DEF Budget!Visible, Persisted!Visible, Budget!Cardinality, Persisted!Cardinality
<1>2. \A s : Budget!Consistent(s) <=> Persisted!Consistent(s)
  BY <1>1, Zenon DEF Budget!Consistent, Persisted!Consistent
<1> QED BY <1>2 DEF Budget!Present, Persisted!Present

LEMMA SameBudget ==
    /\ Budget!Init => Persisted!Init
    /\ [Budget!Next]_(Budget!budgetVars) => [Persisted!Next]_(Persisted!budgetVars)
<1>1. Budget!Init => Persisted!Init
  BY DEF Persisted!Init, Budget!Init, Persisted!Fresh, Budget!Fresh
<1>2. Budget!Allocate => Persisted!Allocate
  BY DEF Budget!Allocate, Persisted!Allocate, Budget!Difficulty, Persisted!Difficulty,
      Budget!Counted, Persisted!Counted, Budget!LastRows, Persisted!LastRows
<1>3. (Budget!DeleteSlot => Persisted!DeleteSlot) /\ (Budget!CreateSlot => Persisted!CreateSlot)
  BY DEF Budget!DeleteSlot, Persisted!DeleteSlot, Budget!CreateSlot, Persisted!CreateSlot,
      Budget!Slot, Persisted!Slot
<1>4. (Budget!Answer => Persisted!Answer) /\ (Budget!Undo => Persisted!Undo) /\ (Budget!Crash => Persisted!Crash)
  BY DEF Budget!Answer, Persisted!Answer, Budget!Undo, Persisted!Undo, Budget!Crash, Persisted!Crash
<1>5. \A p : Budget!Newest(p) <=> Persisted!Newest(p)
  BY SameSnapshots DEF Budget!Newest, Persisted!Newest, Budget!Fresh, Persisted!Fresh
<1>6. Budget!Restart => Persisted!Restart
  BY SameSnapshots, <1>5 DEF Budget!Restart, Persisted!Restart
<1>7. Budget!Next => Persisted!Next
  BY <1>2, <1>3, <1>4, <1>6 DEF Budget!Next, Persisted!Next
<1>8. UNCHANGED Budget!budgetVars => UNCHANGED Persisted!budgetVars
  BY DEF Budget!budgetVars, Persisted!budgetVars
<1> QED BY <1>1, <1>7, <1>8

\* Whatever crashes or fails during a save of budget_persistence.py, an answered
\* allocation is counted after every restart, for every length of the history and
\* whatever the other components do.
THEOREM BudgetSurvives ==
    ASSUME Budget!BudgetAssumption
    PROVE  Spec => BudgetIsDurable
<1>1. Persisted!BudgetAssumption
  BY DEF Persisted!BudgetAssumption, Budget!BudgetAssumption
<1>2. Persisted!Spec => Persisted!BudgetIsDurable
  BY <1>1, Persisted!Durable
<1>3. Budget!Spec => Persisted!Spec
  BY SameBudget, PTL DEF Budget!Spec, Persisted!Spec
<1>4. (Persisted!Promise!Init => Budget!Promise!Init)
      /\ ([Persisted!Promise!Tell]_told => [Budget!Promise!Tell]_told)
  BY DEF Persisted!Promise!Init, Budget!Promise!Init, Persisted!Promise!Tell, Budget!Promise!Tell
<1>5. (\A k \in Persisted!Present : Persisted!Consistent(slots[k]))
      => (\A k \in Budget!Present : Budget!Consistent(slots[k]))
  BY SameSnapshots
<1> QED BY <1>2, <1>3, <1>4, <1>5, EachAlone, PTL
    DEF BudgetIsDurable, Budget!BudgetIsDurable, Persisted!BudgetIsDurable,
        Budget!Promise!Spec, Persisted!Promise!Spec

-----------------------------------------------------------------------------
(* The oversight panel *)

Controls ==
    Oversight!Freezing \cup {"none", "disable_auto_approve", "freeze_category", "category_force_review", "threshold_adjustment"}
AuditNodes == [type : Controls, frozen : BOOLEAN]
PanelSteps == {"idle", "log", "snapshot", "save", "counts", "freeze"}
TrailTyped ==
    /\ frozen \in BOOLEAN /\ doubt \in BOOLEAN /\ audit \in Seq(AuditNodes)
    /\ step \in [Operators -> PanelSteps] /\ node \in [Operators -> AuditNodes]
    /\ \A o \in Operators : step[o] # "log" => node[o] = Oversight!NoNode

Checkpoints == [mu : 0..MaxTensor, counts : -1..MaxTensor]
ScorerTyped ==
    /\ mu \in 0..MaxTensor /\ counts \in 0..MaxTensor /\ points \subseteq Checkpoints
    /\ target \in [Operators -> Checkpoints]

\* The nodes on record that speak of a freeze; a last one among them.
ToldOfFreeze == {i \in DOMAIN audit : audit[i].type \in Oversight!Freezing}
LastIsThere == ToldOfFreeze = {} \/ \E i \in ToldOfFreeze : \A j \in ToldOfFreeze : j <= i

\* A control that speaks of a freeze has taken effect and is not recorded yet.
Unrecorded(o) == node[o].type \in Oversight!Freezing
\* Unless in doubt, one node at most is on its way to the trail, and the last word
\* on the freeze is either that one or the last one there.
TrailTells ==
    ~doubt => /\ \A o, p \in Operators : Unrecorded(o) /\ Unrecorded(p) => o = p
              /\ \A o \in Operators : Unrecorded(o) => node[o].frozen = frozen
              /\ (\A o \in Operators : ~Unrecorded(o)) => Oversight!LastTold = frozen

Panel == TrailTyped /\ LastIsThere /\ TrailTells

\* A recorded node is the last word exactly when it speaks of a freeze.
LEMMA LastWord ==
    ASSUME audit \in Seq(AuditNodes), LastIsThere, NEW n \in AuditNodes, audit' = Append(audit, n)
    PROVE  /\ LastIsThere'
           /\ n.type \in Oversight!Freezing => Oversight!LastTold' = n.frozen
           /\ n.type \notin Oversight!Freezing => Oversight!LastTold' = Oversight!LastTold
<1> DEFINE last == Len(audit) + 1
<1>1. /\ Len(audit) \in Nat /\ DOMAIN audit = 1..Len(audit) /\ DOMAIN audit' = 1..last
      /\ audit'[last] = n /\ \A i \in DOMAIN audit : audit'[i] = audit[i]
  OBVIOUS
<1>2. CASE n.type \in Oversight!Freezing
  <2>1. ToldOfFreeze' = ToldOfFreeze \cup {last}
    BY <1>1, <1>2 DEF ToldOfFreeze, Oversight!Freezing
  <2>2. last \in ToldOfFreeze' /\ \A i \in ToldOfFreeze' : i <= last /\ i \in Nat
    BY <1>1, <2>1 DEF ToldOfFreeze
  <2>3. LastIsThere'
    BY <2>2 DEF LastIsThere
  <2>4. \A i \in ToldOfFreeze' : (\A j \in ToldOfFreeze' : j <= i) => i = last
    BY <1>1, <2>2
  <2>5. (CHOOSE i \in ToldOfFreeze' : \A j \in ToldOfFreeze' : j <= i) = last
    BY <2>2, <2>4
  <2>6. Oversight!LastTold' = audit'[last].frozen
    BY <2>2, <2>5 DEF Oversight!LastTold, ToldOfFreeze, Oversight!Freezing
  <2> QED BY <1>1, <1>2, <2>3, <2>6
<1>3. CASE n.type \notin Oversight!Freezing
  <2>1. ToldOfFreeze' = ToldOfFreeze
    BY <1>1, <1>3 DEF ToldOfFreeze, Oversight!Freezing
  <2>2. LastIsThere'
    BY <2>1 DEF LastIsThere
  <2>3. CASE ToldOfFreeze = {}
    <3>1. Oversight!LastTold = FALSE /\ Oversight!LastTold' = FALSE
      BY <2>1, <2>3, Zenon DEF Oversight!LastTold, ToldOfFreeze
    <3> QED BY <1>3, <2>2, <3>1
  <2>4. CASE ToldOfFreeze # {}
    <3> DEFINE i == CHOOSE i \in ToldOfFreeze : \A j \in ToldOfFreeze : j <= i
    <3>1. i \in DOMAIN audit
      BY <2>4, Zenon DEF LastIsThere, ToldOfFreeze
    <3>2. Oversight!LastTold = audit[i].frozen /\ Oversight!LastTold' = audit'[i].frozen
      BY <2>1, <2>4, Zenon DEF Oversight!LastTold, ToldOfFreeze
    <3> QED BY <1>1, <1>3, <2>2, <3>1, <3>2
  <2> QED BY <2>3, <2>4
<1> QED BY <1>2, <1>3


LEMMA NoNodeIsOne ==
    /\ Oversight!NoNode \in AuditNodes
    /\ Oversight!NoNode.type \notin Oversight!Freezing
BY DEF Oversight!NoNode, AuditNodes, Controls, Oversight!Freezing

LEMMA PanelAtFirst == ASSUME Oversight!InterventionsAssumption, Oversight!Init PROVE Panel
<1>1. TrailTyped
  <2>1. frozen \in BOOLEAN /\ doubt \in BOOLEAN
    BY Zenon DEF Oversight!Init
  <2>2. /\ step \in [Operators -> PanelSteps] /\ node \in [Operators -> AuditNodes]
        /\ \A o \in Operators : step[o] # "log" => node[o] = Oversight!NoNode
    BY NoNodeIsOne DEF Oversight!Init, PanelSteps
  <2>3. audit \in Seq(AuditNodes)
    BY DEF Oversight!Init
  <2> QED BY <2>1, <2>2, <2>3 DEF TrailTyped
<1>2. ToldOfFreeze = {}
  BY DEF Oversight!Init, ToldOfFreeze
<1>3. Oversight!LastTold = frozen
  BY <1>2, Zenon DEF Oversight!Init, ToldOfFreeze, Oversight!LastTold
<1>4. \A o \in Operators : ~Unrecorded(o)
  BY DEF Oversight!Init, Oversight!NoNode, Oversight!Freezing, Unrecorded
<1> QED BY <1>1, <1>2, <1>3, <1>4 DEF Panel, LastIsThere, TrailTells

\* A freezing control that takes effect is the only one unrecorded, or puts the
\* trail in doubt; another one changes nothing the trail tells.
LEMMA EffectKeepsPanel ==
    ASSUME Panel, NEW o \in Operators, NEW type \in Controls,
           step[o] # "log", Oversight!Awaits(o, type),
           frozen' \in BOOLEAN, type \notin Oversight!Freezing => frozen' = frozen
    PROVE  Panel'
<1> DEFINE n == [type |-> type, frozen |-> frozen']
<1>1. /\ node[o] = Oversight!NoNode /\ n \in AuditNodes
      /\ step' = [step EXCEPT ![o] = "log"] /\ node' = [node EXCEPT ![o] = n]
      /\ doubt' = (IF type \in Oversight!Freezing THEN \E p \in Operators : Unrecorded(p) ELSE doubt)
      /\ audit' = audit /\ TrailTyped /\ LastIsThere /\ TrailTells
  BY DEF Panel, TrailTyped, Oversight!Awaits, AuditNodes, Unrecorded
<1>2. doubt' \in BOOLEAN
  BY <1>1, Zenon DEF TrailTyped
<1>3. TrailTyped'
  BY <1>1, <1>2 DEF TrailTyped, PanelSteps
<1>4. ToldOfFreeze' = ToldOfFreeze /\ Oversight!LastTold' = Oversight!LastTold
  BY <1>1 DEF ToldOfFreeze, Oversight!LastTold
<1>5. /\ Unrecorded(o)' <=> type \in Oversight!Freezing
      /\ ~Unrecorded(o)
      /\ node'[o].frozen = frozen'
      /\ \A p \in Operators \ {o} : (Unrecorded(p)' <=> Unrecorded(p)) /\ node'[p] = node[p]
  BY <1>1 DEF Unrecorded, TrailTyped, Oversight!NoNode, Oversight!Freezing
<1>6. TrailTells'
  <2>1. CASE type \in Oversight!Freezing
    <3>1. ~doubt' => \A p \in Operators : ~Unrecorded(p)
      BY <1>1, <2>1
    <3>2. ~doubt' => \A p \in Operators : Unrecorded(p)' => p = o
      BY <1>5, <3>1
    <3> QED BY <1>5, <2>1, <3>2 DEF TrailTells
  <2>2. CASE type \notin Oversight!Freezing
    <3>1. frozen' = frozen /\ (doubt' <=> doubt) /\ ~Unrecorded(o)'
      BY <1>1, <1>5, <2>2
    <3>2. \A p \in Operators : Unrecorded(p)' => p # o /\ Unrecorded(p) /\ node'[p] = node[p]
      BY <1>5, <3>1
    <3>3. (\A p \in Operators : ~Unrecorded(p)') => \A p \in Operators : ~Unrecorded(p)
      BY <1>5
    <3> QED BY <1>1, <1>4, <3>1, <3>2, <3>3 DEF TrailTells
  <2> QED BY <2>1, <2>2
<1>7. LastIsThere'
  BY <1>1, <1>4 DEF LastIsThere
<1> QED BY <1>3, <1>6, <1>7 DEF Panel

\* Writing the node makes it the last word; failing to write it leaves doubt.
LEMMA RecordKeepsPanel ==
    ASSUME Panel, NEW o \in Operators, Oversight!LogIntervention(o)
    PROVE  Panel'
<1>1. /\ frozen' = frozen
      /\ step' = [step EXCEPT ![o] = "idle"] /\ node' = [node EXCEPT ![o] = Oversight!NoNode]
      /\ TrailTyped /\ LastIsThere /\ TrailTells
      /\ node[o] \in AuditNodes /\ Oversight!NoNode \in AuditNodes
  BY NoNodeIsOne DEF Oversight!LogIntervention, Oversight!Recorded, Panel, TrailTyped
<1>2. ~Unrecorded(o)' /\ \A p \in Operators \ {o} : (Unrecorded(p)' <=> Unrecorded(p)) /\ node'[p] = node[p]
  BY <1>1 DEF Unrecorded, TrailTyped, Oversight!NoNode, Oversight!Freezing
<1>3. CASE audit' = Append(audit, node[o]) /\ doubt' = doubt
  <2>1. TrailTyped'
    BY <1>1, <1>3 DEF TrailTyped, PanelSteps
  <2>2. /\ LastIsThere'
        /\ Unrecorded(o) => Oversight!LastTold' = node[o].frozen
        /\ ~Unrecorded(o) => Oversight!LastTold' = Oversight!LastTold
    BY <1>1, <1>3, LastWord DEF Unrecorded, TrailTyped
  <2>3. TrailTells'
    BY <1>1, <1>2, <1>3, <2>2 DEF TrailTells
  <2> QED BY <2>1, <2>2, <2>3 DEF Panel
<1>4. CASE audit' = audit /\ doubt' = (doubt \/ Unrecorded(o))
  <2>1. doubt' \in BOOLEAN
    BY <1>1, <1>4, Zenon DEF TrailTyped
  <2>2. TrailTyped'
    BY <1>1, <1>4, <2>1 DEF TrailTyped, PanelSteps
  <2>3. ToldOfFreeze' = ToldOfFreeze /\ Oversight!LastTold' = Oversight!LastTold
    BY <1>4 DEF ToldOfFreeze, Oversight!LastTold
  <2>4. ~doubt' => ~doubt /\ ~Unrecorded(o)
    BY <1>4, Zenon
  <2>5. TrailTells'
    BY <1>1, <1>2, <2>3, <2>4 DEF TrailTells
  <2>6. LastIsThere'
    BY <1>1, <2>3 DEF LastIsThere
  <2> QED BY <2>2, <2>5, <2>6 DEF Panel
<1> QED BY <1>3, <1>4 DEF Oversight!LogIntervention, Unrecorded

\* Steps that leave the trail and the freeze alone.
LEMMA TrailUntouched ==
    ASSUME Panel, UNCHANGED <<frozen, audit, node, doubt>>,
           step' \in [Operators -> PanelSteps],
           \A o \in Operators : step'[o] # "log" => step[o] # "log"
    PROVE  Panel'
BY DEF Panel, TrailTyped, LastIsThere, TrailTells, ToldOfFreeze, Unrecorded, Oversight!LastTold

\* Every step keeps the panel.
LEMMA PanelStep ==
    ASSUME Oversight!InterventionsAssumption, Panel, [Oversight!Next]_(Oversight!interventionVars)
    PROVE  Panel'
<1>0. TrailTyped
  BY DEF Panel
<1>1. CASE UNCHANGED Oversight!interventionVars \/ Oversight!LearnUpdate \/ Oversight!SaveState
  <2>1. UNCHANGED <<frozen, audit, step, node, doubt>>
    BY <1>1 DEF Oversight!interventionVars, Oversight!LearnUpdate, Oversight!LearnChecks, Oversight!LearnMoves,
        Oversight!LearnCounts, Oversight!SaveState, Oversight!panelVars
  <2> QED BY <1>0, <2>1, TrailUntouched DEF TrailTyped
<1>2. ASSUME NEW o \in Operators, Oversight!Panel(o)
      PROVE  Panel'
  <2>1. ASSUME NEW type \in Controls, Oversight!Acts(o, type), frozen' \in BOOLEAN,
               type \notin Oversight!Freezing => frozen' = frozen
        PROVE  Panel'
    <3>1. step[o] # "log" /\ Oversight!Awaits(o, type)
      BY <2>1 DEF Oversight!Acts, Oversight!Begins
    <3> QED BY <2>1, <3>1, EffectKeepsPanel
  <2>2. ASSUME NEW b \in BOOLEAN, Oversight!FreezeAll(o, b) PROVE Panel'
    <3>1. Oversight!Acts(o, "freeze_all_learning") /\ frozen' \in BOOLEAN
      BY <2>2 DEF Oversight!FreezeAll
    <3>2. "freeze_all_learning" \in Controls /\ "freeze_all_learning" \in Oversight!Freezing
      BY DEF Controls, Oversight!Freezing
    <3> QED BY <2>1, <3>1, <3>2
  <2>3. ASSUME NEW s \in Oversight!States, Oversight!SetConservationState(o, s) PROVE Panel'
    <3>1. Oversight!Acts(o, "conservation_state") /\ frozen' \in BOOLEAN
      BY <2>3 DEF Oversight!SetConservationState
    <3>2. "conservation_state" \in Controls /\ "conservation_state" \in Oversight!Freezing
      BY DEF Controls, Oversight!Freezing
    <3> QED BY <2>1, <3>1, <3>2
  <2>4. ASSUME NEW b \in BOOLEAN, Oversight!DisableAutoApprove(o, b) PROVE Panel'
    <3>1. Oversight!Acts(o, "disable_auto_approve") /\ frozen' = frozen /\ frozen' \in BOOLEAN
      BY <1>0, <2>4 DEF Oversight!DisableAutoApprove, TrailTyped
    <3>2. "disable_auto_approve" \in Controls
      BY DEF Controls, Oversight!Freezing
    <3> QED BY <2>1, <3>1, <3>2
  <2>5. ASSUME NEW k \in Kinds, NEW b \in BOOLEAN, Oversight!FreezeCategory(o, k, b) PROVE Panel'
    <3>1. Oversight!Acts(o, "freeze_category") /\ frozen' = frozen /\ frozen' \in BOOLEAN
      BY <1>0, <2>5 DEF Oversight!FreezeCategory, TrailTyped
    <3>2. "freeze_category" \in Controls
      BY DEF Controls, Oversight!Freezing
    <3> QED BY <2>1, <3>1, <3>2
  <2>6. ASSUME NEW k \in Kinds, NEW b \in BOOLEAN, Oversight!ForceReview(o, k, b) PROVE Panel'
    <3>1. Oversight!Acts(o, "category_force_review") /\ frozen' = frozen /\ frozen' \in BOOLEAN
      BY <1>0, <2>6 DEF Oversight!ForceReview, TrailTyped
    <3>2. "category_force_review" \in Controls
      BY DEF Controls, Oversight!Freezing
    <3> QED BY <2>1, <3>1, <3>2
  <2>7. ASSUME NEW k \in Kinds, Oversight!AdjustThreshold(o, k) PROVE Panel'
    <3>1. Oversight!Acts(o, "threshold_adjustment") /\ frozen' = frozen /\ frozen' \in BOOLEAN
      BY <1>0, <2>7 DEF Oversight!AdjustThreshold, TrailTyped
    <3>2. "threshold_adjustment" \in Controls
      BY DEF Controls, Oversight!Freezing
    <3> QED BY <2>1, <3>1, <3>2
  <2>8. CASE Oversight!FreezeScorer(o)
    <3>1. Oversight!Awaits(o, "rollback") /\ step[o] # "log" /\ frozen' \in BOOLEAN
      BY <2>8 DEF Oversight!FreezeScorer
    <3>2. "rollback" \in Controls /\ "rollback" \in Oversight!Freezing
      BY DEF Controls, Oversight!Freezing
    <3> QED BY <3>1, <3>2, EffectKeepsPanel
  <2>9. ASSUME NEW s \in PanelSteps, s # "log", step[o] # "log", step' = [step EXCEPT ![o] = s],
               UNCHANGED <<frozen, audit, node, doubt>>
        PROVE  Panel'
    BY <1>0, <2>9, TrailUntouched DEF TrailTyped
  <2>10. CASE Oversight!CreateCheckpoint(o)
    BY <2>9, <2>10 DEF Oversight!CreateCheckpoint, Oversight!Begins, PanelSteps
  <2>11. CASE Oversight!SnapshotCounts(o)
    BY <2>9, <2>11 DEF Oversight!SnapshotCounts, PanelSteps
  <2>12. CASE Oversight!SaveCheckpoint(o)
    BY <2>9, <2>12 DEF Oversight!SaveCheckpoint, PanelSteps
  <2>13. CASE Oversight!Rollback(o)
    BY <2>9, <2>13 DEF Oversight!Rollback, Oversight!Begins, PanelSteps
  <2>14. CASE Oversight!RestoreCounts(o)
    BY <2>9, <2>14 DEF Oversight!RestoreCounts, PanelSteps
  <2>15. CASE Oversight!LogIntervention(o)
    BY <2>15, RecordKeepsPanel
  <2> QED BY <1>2, <2>2, <2>3, <2>4, <2>5, <2>6, <2>7, <2>8, <2>10, <2>11, <2>12, <2>13, <2>14, <2>15
          DEF Oversight!Panel
<1> QED BY <1>1, <1>2 DEF Oversight!Next

\* When no control is under way and the trail is not in doubt, the last node of
\* intervention_controls.py that speaks of a freeze says whether learning is frozen:
\* for any number of operators and controls, whatever overlapped or failed before.
THEOREM OversightIsKept ==
    ASSUME Oversight!InterventionsAssumption
    PROVE  Spec => []OversightHolds
<1>1. Oversight!Init => Panel
  BY PanelAtFirst
<1>2. Panel /\ [Oversight!Next]_(Oversight!interventionVars) => Panel'
  BY PanelStep
<1>3. Panel => OversightHolds
  BY DEF Panel, TrailTyped, TrailTells, Unrecorded, Oversight!NoNode, Oversight!Freezing,
     OversightHolds, Oversight!OversightHolds
<1> QED BY <1>1, <1>2, <1>3, EachAlone, PTL DEF Oversight!Spec
-----------------------------------------------------------------------------
(* Earned authority and the Frozen Twin *)

Snapshots == Runs \cup {Base}
Tasks ==
    [class : Classes \cup {Authority!Nothing.class}, stage : 0..MaxStage,
     kind : {"none", "advance", "rollback", "transfer"}, run : Snapshots, todo : SUBSET Cells]
TwinTyped ==
    /\ level \in [Classes -> 0..MaxStage]
    /\ twins \in [Snapshots -> Authority!Contents \cup {None}] /\ chosen \in Snapshots
    /\ was \subseteq Authority!Contents
    /\ live \in Authority!Contents /\ cells \in Authority!Contents
    /\ doing \in [Clients -> {"idle", "loaded", "saved", "archive", "freeze", "choose", "flush"}]
    /\ memory \in [Clients -> Tasks]

Refreezes == {"archive", "freeze", "choose"}
\* Where a re-freeze is: its run is reserved until it is frozen, and from then on
\* the chosen content is archived.
RefreezeIsAt(t) ==
    /\ doing[t] \in Refreezes \cup {"flush"} => turn = t
    /\ doing[t] \in Refreezes => memory[t].run \in Runs /\ twins[Base] # None
    /\ doing[t] \in {"archive", "freeze"} => twins[memory[t].run] = None
    /\ doing[t] = "choose" => twins[memory[t].run] # None
    /\ doing[t] \in {"freeze", "choose"} => twins[chosen] # None /\ twins[chosen] \in archived

ChosenIsKept ==
    /\ chosen # Base => twins[chosen] # None
    /\ \A v \in was : v = twins[chosen] \/ v \in archived
Baselines == TwinTyped /\ (\A t \in Clients : RefreezeIsAt(t)) /\ ChosenIsKept /\ Authority!FlushedIsDurable

LEMMA NothingIsATask ==
    ASSUME MaxStage \in Nat
    PROVE  /\ Authority!Nothing \in Tasks /\ Authority!Nothing.class \in Classes \cup {Authority!Nothing.class}
           /\ Authority!Nothing.stage = 0
<1> DEFINE any == CHOOSE c \in Classes : TRUE
<1>1. Authority!Nothing = [class |-> any, stage |-> 0, kind |-> "none", run |-> Base, todo |-> {}]
  BY Zenon DEF Authority!Nothing
<1> HIDE DEF any
<1> QED BY <1>1 DEF Tasks, Snapshots

LEMMA BaselinesAtFirst == ASSUME Authority!AuthorityAssumption, Authority!Init PROVE Baselines
<1>1. /\ level = [c \in Classes |-> 0] /\ twins = [s \in Snapshots |-> None] /\ chosen = Base
      /\ archived = {} /\ was = {} /\ live = [c \in Cells |-> 0] /\ cells = live /\ marker = "none"
      /\ doing = [t \in Clients |-> "idle"] /\ memory = [t \in Clients |-> Authority!Nothing]
  BY Zenon DEF Authority!Init, Snapshots
<1>2. Authority!Nothing \in Tasks /\ MaxStage \in Nat /\ MaxUpdates \in Nat
  BY NothingIsATask DEF Authority!AuthorityAssumption
<1>3. level \in [Classes -> 0..MaxStage] /\ live \in Authority!Contents /\ cells \in Authority!Contents
  BY <1>1, <1>2 DEF Authority!Contents
<1>4. TwinTyped
  BY <1>1, <1>2, <1>3 DEF TwinTyped, Snapshots
<1>5. ASSUME NEW t \in Clients PROVE RefreezeIsAt(t)
  BY <1>1 DEF RefreezeIsAt, Refreezes
<1>6. ChosenIsKept /\ Authority!FlushedIsDurable
  BY <1>1 DEF ChosenIsKept, Authority!FlushedIsDurable
<1> QED BY <1>4, <1>5, <1>6 DEF Baselines

\* Only the holder of the lock is inside a re-freeze or a flush.
LEMMA OneHolder ==
    ASSUME Authority!AuthorityAssumption, Baselines, NEW t \in Clients
    PROVE  /\ turn = None => doing[t] \notin Refreezes \cup {"flush"}
           /\ \A u \in Clients \ {t} : doing[u] \in Refreezes \cup {"flush"} => doing[t] \notin Refreezes \cup {"flush"}
BY DEF Authority!AuthorityAssumption, Baselines, RefreezeIsAt

\* A call that leaves the snapshots alone, and the other calls where they are,
\* disturbs no re-freeze.
LEMMA OutsideRefreezes ==
    ASSUME Authority!AuthorityAssumption, Baselines, NEW t \in Clients,
           doing'[t] \notin Refreezes \cup {"flush"} \/ (doing'[t] = "flush" /\ turn' = t),
           \A u \in Clients \ {t} : doing'[u] = doing[u] /\ memory'[u] = memory[u],
           turn' = turn \/ turn = None \/ turn = t,
           UNCHANGED <<twins, chosen, archived, was>>
    PROVE  (\A u \in Clients : RefreezeIsAt(u)') /\ ChosenIsKept'
<1>1. RefreezeIsAt(t)'
  BY DEF RefreezeIsAt, Refreezes
<1>2. ASSUME NEW u \in Clients \ {t} PROVE RefreezeIsAt(u)'
  <2>1. doing[u] \in Refreezes \cup {"flush"} => turn = u /\ turn # None /\ turn # t
    BY DEF Baselines, RefreezeIsAt, Authority!AuthorityAssumption
  <2>2. doing[u] \in Refreezes \cup {"flush"} => turn' = u
    BY <2>1
  <2>3. RefreezeIsAt(u)
    BY DEF Baselines
  <2> QED BY <2>2, <2>3 DEF RefreezeIsAt
<1> QED BY <1>1, <1>2 DEF Baselines, ChosenIsKept

\* Promotions and transfers: their records are no part of the snapshots.
LEMMA PromotionKeepsBaselines ==
    ASSUME Authority!AuthorityAssumption, Baselines, NEW t \in Clients,
           \/ \E kind \in {"advance", "rollback", "transfer"} : Authority!Promote(t, kind)
           \/ Authority!SavePromotion(t) \/ Authority!SaveTransfer(t) \/ Authority!RecordEvent(t)
    PROVE  Baselines' /\ twins' = twins
<1>0. TwinTyped /\ Authority!FlushedIsDurable /\ MaxStage \in Nat
  BY DEF Baselines, Authority!AuthorityAssumption
<1>1. /\ UNCHANGED <<twins, chosen, archived, was, live, cells, marker, lost, turn>>
      /\ \E to \in {"idle", "loaded", "saved"} : doing' = [doing EXCEPT ![t] = to]
  BY DEF Authority!Promote, Authority!SavePromotion, Authority!SaveTransfer, Authority!RecordEvent,
      Authority!Ask, Authority!Go, Authority!twinVars, Authority!learnVars
<1>2. level' \in [Classes -> 0..MaxStage] /\ \E m \in Tasks : memory' = [memory EXCEPT ![t] = m]
  <2>1. ASSUME NEW kind \in {"advance", "rollback", "transfer"}, Authority!Promote(t, kind) PROVE <1>2
    <3>1. PICK c \in Classes : Authority!Ask(t, "loaded", [Authority!Nothing EXCEPT !.class = c, !.stage = level[c], !.kind = kind])
      BY <2>1 DEF Authority!Promote
    <3> DEFINE m == [Authority!Nothing EXCEPT !.class = c, !.stage = level[c], !.kind = kind]
    <3>2. m \in Tasks
      BY <1>0, NothingIsATask DEF Tasks, TwinTyped
    <3>3. memory' = [memory EXCEPT ![t] = m] /\ level' = level
      BY <2>1, <3>1 DEF Authority!Ask, Authority!Promote
    <3> QED BY <1>0, <3>2, <3>3 DEF TwinTyped
  <2>2. CASE Authority!SavePromotion(t) \/ Authority!SaveTransfer(t)
    <3>1. memory' = memory /\ memory' = [memory EXCEPT ![t] = memory[t]] /\ memory[t] \in Tasks
      BY <1>0, <2>2 DEF Authority!SavePromotion, Authority!SaveTransfer, TwinTyped
    <3>2. \E c, s : s \in 0..MaxStage /\ level' = [level EXCEPT ![c] = s]
      <4>1. memory[t].stage \in 0..MaxStage
        BY <3>1 DEF Tasks
      <4>2. Authority!NewStages(memory[t]) \subseteq 0..MaxStage
        BY <1>0, <4>1 DEF Authority!NewStages
      <4> QED BY <1>0, <2>2, <4>1, <4>2 DEF Authority!SavePromotion, Authority!SaveTransfer
    <3>3. level' \in [Classes -> 0..MaxStage]
      BY <1>0, <3>2 DEF TwinTyped
    <3> QED BY <3>1, <3>3
  <2>3. CASE Authority!RecordEvent(t)
    BY <1>0, <2>3, NothingIsATask DEF Authority!RecordEvent, TwinTyped
  <2> QED BY <2>1, <2>2, <2>3
<1>3. TwinTyped'
  BY <1>0, <1>1, <1>2 DEF TwinTyped
<1>4. doing'[t] \notin Refreezes \cup {"flush"} /\ \A u \in Clients \ {t} : doing'[u] = doing[u] /\ memory'[u] = memory[u]
  BY <1>0, <1>1, <1>2 DEF TwinTyped, Refreezes
<1>5. Authority!FlushedIsDurable'
  BY <1>0, <1>1 DEF Authority!FlushedIsDurable
<1>6. (\A u \in Clients : RefreezeIsAt(u)') /\ ChosenIsKept'
  BY <1>1, <1>4, OutsideRefreezes
<1> QED BY <1>1, <1>3, <1>5, <1>6 DEF Baselines

\* Learning, the flush and a call that raises leave the snapshots alone too.
LEMMA LearningKeepsBaselines ==
    ASSUME Authority!AuthorityAssumption, Baselines, NEW t \in Clients,
           \/ Authority!Learn(t) \/ Authority!Flush(t) \/ Authority!FlushCell(t)
           \/ Authority!FlushDone(t) \/ Authority!Raise(t)
    PROVE  Baselines' /\ twins' = twins
<1>0. /\ TwinTyped /\ Authority!FlushedIsDurable /\ MaxUpdates \in Nat /\ MaxStage \in Nat
      /\ RefreezeIsAt(t)
      /\ doing[t] = "idle" => doing[t] \notin Refreezes \cup {"flush"}
  BY DEF Baselines, Authority!AuthorityAssumption, Refreezes
<1>1. UNCHANGED <<level, twins, chosen, archived, was>>
  BY DEF Authority!Learn, Authority!Flush, Authority!FlushCell, Authority!FlushDone, Authority!Raise, Authority!twinVars
<1>2. /\ doing' \in [Clients -> {"idle", "loaded", "saved", "archive", "freeze", "choose", "flush"}]
      /\ memory' \in [Clients -> Tasks]
      /\ \A u \in Clients \ {t} : doing'[u] = doing[u] /\ memory'[u] = memory[u]
      /\ doing'[t] \notin Refreezes \cup {"flush"} \/ (doing'[t] = "flush" /\ turn' = t)
      /\ turn' = turn \/ turn = None \/ turn = t
  <2>1. CASE Authority!Learn(t)
    <3>1. doing' = doing /\ memory' = memory /\ turn' = turn /\ doing[t] = "idle"
      BY <2>1 DEF Authority!Learn
    <3>2. doing[t] \notin Refreezes \cup {"flush"}
      BY <1>0, <3>1
    <3> QED BY <1>0, <3>1, <3>2, Zenon DEF TwinTyped
  <2>2. CASE Authority!Flush(t)
    <3>1. /\ doing' = [doing EXCEPT ![t] = "flush"] /\ turn = None /\ turn' = t
          /\ memory' = [memory EXCEPT ![t] = [Authority!Nothing EXCEPT !.todo = Cells]]
      BY <2>2 DEF Authority!Flush, Authority!Locked, Authority!Ask
    <3>2. [Authority!Nothing EXCEPT !.todo = Cells] \in Tasks
      BY <1>0, NothingIsATask DEF Tasks
    <3> QED BY <1>0, <3>1, <3>2 DEF TwinTyped
  <2>3. CASE Authority!FlushCell(t)
    <3>1. PICK c \in memory[t].todo : memory' = [memory EXCEPT ![t].todo = @ \ {c}]
      BY <2>3 DEF Authority!FlushCell
    <3>2. doing' = doing /\ turn' = turn /\ doing[t] = "flush"
      BY <2>3 DEF Authority!FlushCell
    <3>3. memory[t] \in Tasks
      BY <1>0 DEF TwinTyped
    <3>4. [memory[t] EXCEPT !.todo = memory[t].todo \ {c}] \in Tasks
      BY <3>3 DEF Tasks
    <3>5. memory' = [memory EXCEPT ![t] = [memory[t] EXCEPT !.todo = memory[t].todo \ {c}]]
      BY <1>0, <3>1 DEF TwinTyped
    <3>6. turn = t /\ doing'[t] = "flush" /\ turn' = t
      BY <1>0, <3>2 DEF RefreezeIsAt
    <3>7. memory' \in [Clients -> Tasks] /\ \A u \in Clients \ {t} : memory'[u] = memory[u]
      BY <1>0, <3>4, <3>5 DEF TwinTyped
    <3> QED BY <1>0, <3>2, <3>6, <3>7, Zenon DEF TwinTyped
  <2>4. CASE Authority!FlushDone(t) \/ Authority!Raise(t)
    <3>1. /\ turn = t /\ doing' = [doing EXCEPT ![t] = "idle"]
          /\ memory' = [memory EXCEPT ![t] = Authority!Nothing]
      BY <2>4 DEF Authority!FlushDone, Authority!Raise, Authority!Release
    <3>2. "idle" \notin Refreezes \cup {"flush"} /\ Authority!Nothing \in Tasks
      BY <1>0, NothingIsATask DEF Refreezes
    <3> QED BY <1>0, <3>1, <3>2 DEF TwinTyped
  <2> QED BY <2>1, <2>2, <2>3, <2>4
<1>3. live' \in Authority!Contents /\ cells' \in Authority!Contents /\ Authority!FlushedIsDurable'
  <2>0. live \in [Cells -> 0..MaxUpdates] /\ cells \in [Cells -> 0..MaxUpdates]
    BY <1>0 DEF TwinTyped, Authority!Contents
  <2>1. CASE Authority!Learn(t)
    <3>1. PICK c \in Cells :
            /\ live[c] < MaxUpdates /\ live' = [live EXCEPT ![c] = @ + 1]
            /\ \/ cells' = [cells EXCEPT ![c] = live[c] + 1] /\ lost' = lost \ {c}
               \/ cells' = cells /\ lost' = lost \cup {c}
      BY <2>1 DEF Authority!Learn
    <3>2. marker' = marker /\ live[c] + 1 \in 0..MaxUpdates
      BY <1>0, <2>0, <2>1, <3>1 DEF Authority!Learn
    <3> QED BY <1>0, <2>0, <3>1, <3>2 DEF Authority!FlushedIsDurable, Authority!Contents
  <2>2. CASE Authority!Flush(t)
    BY <1>0, <2>2 DEF Authority!Flush, Authority!FlushedIsDurable, TwinTyped
  <2>3. CASE Authority!FlushCell(t)
    <3>1. PICK c \in memory[t].todo : cells' \in {cells, [cells EXCEPT ![c] = live[c]]}
      BY <2>3 DEF Authority!FlushCell
    <3>2. UNCHANGED <<live, marker, lost>>
      BY <2>3 DEF Authority!FlushCell
    <3>3. c \in Cells
      BY <1>0, <3>1 DEF TwinTyped, Tasks
    <3> QED BY <1>0, <2>0, <3>1, <3>2, <3>3 DEF Authority!FlushedIsDurable, Authority!Contents
  <2>4. CASE Authority!FlushDone(t)
    BY <2>0, <2>4 DEF Authority!FlushDone, Authority!FlushedIsDurable, Authority!Contents
  <2>5. CASE Authority!Raise(t)
    BY <1>0, <2>0, <2>5 DEF Authority!Raise, Authority!learnVars, Authority!FlushedIsDurable, Authority!Contents
  <2> QED BY <2>1, <2>2, <2>3, <2>4, <2>5
<1>4. TwinTyped'
  BY <1>0, <1>1, <1>2, <1>3 DEF TwinTyped
<1>5. (\A u \in Clients : RefreezeIsAt(u)') /\ ChosenIsKept'
  BY <1>1, <1>2, OutsideRefreezes
<1> QED BY <1>1, <1>3, <1>4, <1>5 DEF Baselines

\* The production twin is frozen once, before any re-freeze.
LEMMA FreezeTwinKeepsBaselines ==
    ASSUME Authority!AuthorityAssumption, Baselines, NEW t \in Clients, Authority!FreezeTwin(t)
    PROVE  Baselines' /\ twins[Base] = None
<1>0. /\ TwinTyped /\ (\A u \in Clients : RefreezeIsAt(u)) /\ ChosenIsKept /\ Authority!FlushedIsDurable
      /\ None \notin Authority!Contents
  BY DEF Baselines, Authority!AuthorityAssumption
<1>1. /\ twins[Base] = None /\ twins' = [twins EXCEPT ![Base] = live]
      /\ was' = (IF chosen = Base THEN was \cup {live} ELSE was)
      /\ UNCHANGED <<level, chosen, archived, live, cells, marker, lost, turn, doing, memory>>
  BY DEF Authority!FreezeTwin, Authority!learnVars
<1>2. TwinTyped'
  BY <1>0, <1>1 DEF TwinTyped
<1>3. \A u \in Clients : doing[u] \notin Refreezes
  BY <1>0, <1>1 DEF RefreezeIsAt
<1>4. \A u \in Clients : RefreezeIsAt(u)'
  BY <1>0, <1>1, <1>3 DEF RefreezeIsAt, Refreezes
<1>5. ChosenIsKept'
  <2>1. CASE chosen = Base
    <3>1. \A v \in was : v \in archived
      BY <1>0, <1>1, <2>1 DEF ChosenIsKept, TwinTyped
    <3> QED BY <1>0, <1>1, <2>1, <3>1 DEF ChosenIsKept, TwinTyped
  <2>2. CASE chosen # Base
    BY <1>0, <1>1, <2>2 DEF ChosenIsKept, TwinTyped
  <2> QED BY <2>1, <2>2
<1>6. Authority!FlushedIsDurable'
  BY <1>0, <1>1 DEF Authority!FlushedIsDurable
<1> QED BY <1>1, <1>2, <1>4, <1>5, <1>6 DEF Baselines

\* The re-freeze, step by step: reserve a run, archive, freeze, choose.
LEMMA RefreezeKeepsBaselines ==
    ASSUME Authority!AuthorityAssumption, Baselines, NEW t \in Clients, Authority!Refreeze(t)
    PROVE  Baselines' /\ twins' = twins
<1>0. /\ TwinTyped /\ (\A u \in Clients : RefreezeIsAt(u)) /\ ChosenIsKept /\ Authority!FlushedIsDurable
      /\ MaxStage \in Nat /\ None \notin Clients
  BY DEF Baselines, Authority!AuthorityAssumption
<1>1. PICK r \in Runs : twins[r] = None /\ Authority!Locked(t, "archive", [Authority!Nothing EXCEPT !.run = r])
  BY DEF Authority!Refreeze
<1> DEFINE m == [Authority!Nothing EXCEPT !.run = r]
<1>2. /\ twins[Base] # None /\ turn = None /\ turn' = t
      /\ doing' = [doing EXCEPT ![t] = "archive"] /\ memory' = [memory EXCEPT ![t] = m]
      /\ UNCHANGED <<level, twins, chosen, archived, was, live, cells, marker, lost>>
  BY <1>1 DEF Authority!Refreeze, Authority!Locked, Authority!Ask, Authority!twinVars, Authority!learnVars
<1>3. m \in Tasks /\ m.run = r
  BY <1>0, NothingIsATask DEF Tasks, Snapshots
<1> HIDE DEF m
<1>4. TwinTyped'
  BY <1>0, <1>2, <1>3 DEF TwinTyped
<1>5. RefreezeIsAt(t)'
  BY <1>0, <1>1, <1>2, <1>3 DEF RefreezeIsAt, Refreezes, TwinTyped
<1>6. ASSUME NEW u \in Clients \ {t} PROVE RefreezeIsAt(u)'
  <2>1. doing'[u] = doing[u] /\ memory'[u] = memory[u] /\ doing[u] \notin Refreezes \cup {"flush"}
    BY <1>0, <1>2, OneHolder DEF TwinTyped
  <2> QED BY <1>2, <2>1 DEF RefreezeIsAt, Refreezes
<1>7. ChosenIsKept' /\ Authority!FlushedIsDurable'
  BY <1>0, <1>2 DEF ChosenIsKept, Authority!FlushedIsDurable
<1> QED BY <1>2, <1>4, <1>5, <1>6, <1>7 DEF Baselines

\* The other clients are outside: the lock is held.
LEMMA HeldByOne ==
    ASSUME Authority!AuthorityAssumption, Baselines, NEW t \in Clients, doing[t] \in Refreezes
    PROVE  turn = t /\ \A u \in Clients \ {t} : doing[u] \notin Refreezes \cup {"flush"}
BY DEF Baselines, RefreezeIsAt

LEMMA ArchiveKeepsBaselines ==
    ASSUME Authority!AuthorityAssumption, Baselines, NEW t \in Clients, Authority!Archive(t)
    PROVE  Baselines' /\ twins' = twins
<1>0. /\ TwinTyped /\ RefreezeIsAt(t) /\ ChosenIsKept /\ Authority!FlushedIsDurable
  BY DEF Baselines
<1>1. /\ doing[t] = "archive" /\ doing' = [doing EXCEPT ![t] = "freeze"]
      /\ twins[chosen] # None /\ archived' = archived \cup {twins[chosen]}
      /\ UNCHANGED <<level, twins, chosen, was, live, cells, marker, lost, turn, memory>>
  BY DEF Authority!Archive, Authority!Go, Authority!learnVars
<1>2. turn = t /\ \A u \in Clients \ {t} : doing[u] \notin Refreezes \cup {"flush"}
  BY <1>1, HeldByOne DEF Refreezes
<1>3. TwinTyped'
  BY <1>0, <1>1 DEF TwinTyped
<1>4. RefreezeIsAt(t)'
  BY <1>0, <1>1, <1>2 DEF RefreezeIsAt, Refreezes, TwinTyped
<1>5. ASSUME NEW u \in Clients \ {t} PROVE RefreezeIsAt(u)'
  BY <1>0, <1>1, <1>2 DEF RefreezeIsAt, Refreezes, TwinTyped
<1>6. ChosenIsKept' /\ Authority!FlushedIsDurable'
  BY <1>0, <1>1 DEF ChosenIsKept, Authority!FlushedIsDurable
<1> QED BY <1>1, <1>3, <1>4, <1>5, <1>6 DEF Baselines

LEMMA FreezeRunKeepsBaselines ==
    ASSUME Authority!AuthorityAssumption, Baselines, NEW t \in Clients, Authority!FreezeRun(t)
    PROVE  Baselines' /\ twins'[Base] = twins[Base]
<1>0. /\ TwinTyped /\ RefreezeIsAt(t) /\ ChosenIsKept /\ Authority!FlushedIsDurable
      /\ Base \notin Runs /\ None \notin Authority!Contents
  BY DEF Baselines, Authority!AuthorityAssumption
<1>1. /\ doing[t] = "freeze" /\ doing' = [doing EXCEPT ![t] = "choose"]
      /\ twins' = [twins EXCEPT ![memory[t].run] = live]
      /\ UNCHANGED <<level, chosen, archived, was, live, cells, marker, lost, turn, memory>>
  BY DEF Authority!FreezeRun, Authority!Go, Authority!learnVars
<1>2. turn = t /\ \A u \in Clients \ {t} : doing[u] \notin Refreezes \cup {"flush"}
  BY <1>1, HeldByOne DEF Refreezes
<1>3. /\ memory[t].run \in Runs /\ memory[t].run \in Snapshots /\ memory[t].run # Base
      /\ memory[t].run # chosen /\ twins[chosen] # None /\ twins[chosen] \in archived /\ twins[Base] # None
  BY <1>0, <1>1 DEF RefreezeIsAt, Refreezes, Snapshots
<1>4. /\ twins'[chosen] = twins[chosen] /\ twins'[Base] = twins[Base]
      /\ twins'[memory[t].run] = live /\ live # None
  BY <1>0, <1>1, <1>3 DEF TwinTyped, Snapshots
<1>5. TwinTyped'
  BY <1>0, <1>1 DEF TwinTyped
<1>6. RefreezeIsAt(t)'
  BY <1>0, <1>1, <1>2, <1>3, <1>4 DEF RefreezeIsAt, Refreezes, TwinTyped
<1>7. ASSUME NEW u \in Clients \ {t} PROVE RefreezeIsAt(u)'
  BY <1>0, <1>1, <1>2 DEF RefreezeIsAt, Refreezes, TwinTyped
<1>8. ChosenIsKept' /\ Authority!FlushedIsDurable'
  BY <1>0, <1>1, <1>4 DEF ChosenIsKept, Authority!FlushedIsDurable
<1> QED BY <1>4, <1>5, <1>6, <1>7, <1>8 DEF Baselines

LEMMA ChooseKeepsBaselines ==
    ASSUME Authority!AuthorityAssumption, Baselines, NEW t \in Clients, Authority!Choose(t)
    PROVE  Baselines' /\ twins' = twins
<1>0. /\ TwinTyped /\ RefreezeIsAt(t) /\ ChosenIsKept /\ Authority!FlushedIsDurable /\ MaxStage \in Nat
  BY DEF Baselines, Authority!AuthorityAssumption
<1>1. /\ doing[t] = "choose" /\ turn = t /\ turn' = None
      /\ doing' = [doing EXCEPT ![t] = "idle"] /\ memory' = [memory EXCEPT ![t] = Authority!Nothing]
      /\ chosen' = memory[t].run /\ was' = was \cup {twins[memory[t].run]}
      /\ UNCHANGED <<level, twins, archived, live, cells, marker, lost>>
  BY DEF Authority!Choose, Authority!Release, Authority!learnVars
<1>2. \A u \in Clients \ {t} : doing[u] \notin Refreezes \cup {"flush"}
  BY <1>1, HeldByOne DEF Refreezes
<1>3. /\ memory[t].run \in Runs /\ memory[t].run \in Snapshots /\ twins[memory[t].run] # None
      /\ twins[chosen] \in archived /\ Authority!Nothing \in Tasks
  BY <1>0, <1>1, NothingIsATask DEF RefreezeIsAt, Refreezes, Snapshots
<1>4. TwinTyped'
  BY <1>0, <1>1, <1>3 DEF TwinTyped
<1>5. ASSUME NEW u \in Clients PROVE RefreezeIsAt(u)'
  <2>1. doing'[u] \notin Refreezes \cup {"flush"}
    BY <1>0, <1>1, <1>2 DEF TwinTyped, Refreezes
  <2> QED BY <2>1 DEF RefreezeIsAt, Refreezes
<1>6. ChosenIsKept' /\ Authority!FlushedIsDurable'
  BY <1>0, <1>1, <1>3 DEF ChosenIsKept, Authority!FlushedIsDurable
<1> QED BY <1>1, <1>4, <1>5, <1>6 DEF Baselines

LEMMA RestartKeepsBaselines ==
    ASSUME Authority!AuthorityAssumption, Baselines, Authority!Restart
    PROVE  Baselines' /\ twins' = twins
<1>0. TwinTyped /\ ChosenIsKept /\ MaxStage \in Nat
  BY DEF Baselines, Authority!AuthorityAssumption
<1>1. /\ live' = cells /\ lost' = {} /\ turn' = None
      /\ doing' = [t \in Clients |-> "idle"] /\ memory' = [t \in Clients |-> Authority!Nothing]
      /\ UNCHANGED <<level, twins, chosen, archived, was, cells, marker>>
  BY DEF Authority!Restart, Authority!twinVars
<1>2. Authority!Nothing \in Tasks
  BY <1>0, NothingIsATask
<1>3. TwinTyped'
  BY <1>0, <1>1, <1>2 DEF TwinTyped
<1>4. ASSUME NEW t \in Clients PROVE RefreezeIsAt(t)'
  BY <1>1 DEF RefreezeIsAt, Refreezes
<1>5. ChosenIsKept' /\ Authority!FlushedIsDurable'
  BY <1>0, <1>1 DEF ChosenIsKept, Authority!FlushedIsDurable
<1> QED BY <1>1, <1>3, <1>4, <1>5 DEF Baselines

LEMMA BaselinesStep ==
    ASSUME Authority!AuthorityAssumption, Baselines, [Authority!Next]_(Authority!authorityVars)
    PROVE  Baselines' /\ (twins[Base] # None => twins'[Base] = twins[Base])
<1>1. CASE UNCHANGED Authority!authorityVars
  <2>1. UNCHANGED <<level, twins, chosen, archived, was, live, cells, marker, lost, turn, doing, memory>>
    BY <1>1 DEF Authority!authorityVars
  <2> QED BY <2>1 DEF Baselines, TwinTyped, RefreezeIsAt, ChosenIsKept, Authority!FlushedIsDurable
<1>2. CASE Authority!Restart
  BY <1>2, RestartKeepsBaselines
<1>3. ASSUME NEW t \in Clients, Authority!AuthorityStep(t)
      PROVE  Baselines' /\ (twins[Base] # None => twins'[Base] = twins[Base])
  BY <1>3, PromotionKeepsBaselines, LearningKeepsBaselines, FreezeTwinKeepsBaselines, RefreezeKeepsBaselines,
      ArchiveKeepsBaselines, FreezeRunKeepsBaselines, ChooseKeepsBaselines DEF Authority!AuthorityStep
<1> QED BY <1>1, <1>2, <1>3 DEF Authority!Next

\* Whatever fails or dies between the steps of a re-freeze (s2p_demo_control.py), no
\* content that was once chosen is lost and the production twin never changes; a
\* flush reports only what survives a restart: for any number of clients and runs.
THEOREM NoBaselineIsLost ==
    ASSUME Authority!AuthorityAssumption
    PROVE  Spec => BaselinesAreKept
<1>1. Authority!Init => Baselines
  BY BaselinesAtFirst
<1>2. Baselines /\ [Authority!Next]_(Authority!authorityVars)
      => Baselines' /\ (twins[Base] # None => twins'[Base] = twins[Base])
  BY BaselinesStep
<1>3. Baselines => /\ chosen # Base => twins[chosen] # None
                   /\ \A v \in was : v = twins[chosen] \/ v \in archived
                   /\ Authority!FlushedIsDurable
  BY DEF Baselines, ChosenIsKept
<1> QED BY <1>1, <1>2, <1>3, EachAlone, PTL
    DEF BaselinesAreKept, Authority!BaselinesAreKept, Authority!Spec

-----------------------------------------------------------------------------
(* The deployment *)

Opened == {"restore", "shadow", "seed", "seeding", "warm", "serving"}
Started == {"seed", "seeding", "warm", "serving"}
\* The store and the shadow that an environment stands for.
StoreOf(e) == IF e.backend = "age" THEN e.graph ELSE "memory"
ShadowOf(e) ==
    IF ~e.shadowed THEN None ELSE IF Deployment!Apart(e) THEN e.shadowGraph ELSE StoreOf(e)

ReviewedWrite(w) ==
    /\ w.who # "shadow" /\ w.graph # "memory" => (w.env.test <=> w.graph = "protocol_v2_test")
    /\ w.who # "shadow" => w.graph # "other"
    /\ w.who = "shadow" /\ Deployment!Apart(w.env) => w.graph # w.env.graph \/ w.env.backend # "age"

\* Only a checked environment opens stores, and its own.
Deployed ==
    /\ env \in Deployment!EveryEnvironment
    /\ life \in Opened \cup {"open"} => Deployment!ConfigOK(env)
    /\ life \in Opened => store = StoreOf(env)
    /\ life \in Started => shadow = ShadowOf(env)
    /\ \A w \in wrote : ReviewedWrite(w)

LEMMA DeployedAtFirst == ASSUME Deployment!DeploymentAssumption, Deployment!Init PROVE Deployed
BY DEF Deployment!DeploymentAssumption, Deployment!Init, Deployed, Opened, Started

\* What a checked environment may write.
LEMMA CheckedWrites ==
    ASSUME NEW e \in Deployment!EveryEnvironment, Deployment!ConfigOK(e)
    PROVE  /\ \A who \in {"seed", "decision"} : ReviewedWrite([who |-> who, graph |-> StoreOf(e), env |-> e])
           /\ e.shadowed => ReviewedWrite([who |-> "shadow", graph |-> ShadowOf(e), env |-> e])
<1>1. /\ e.backend = "age" => StoreOf(e) = e.graph /\ (IF e.test THEN e.graph = "protocol_v2_test" ELSE e.graph = "soc_graph")
      /\ e.backend # "age" => StoreOf(e) = "memory"
  BY DEF Deployment!ConfigOK, StoreOf
<1>2. ASSUME NEW who \in {"seed", "decision"} PROVE ReviewedWrite([who |-> who, graph |-> StoreOf(e), env |-> e])
  BY <1>1 DEF ReviewedWrite
<1>3. e.shadowed => ReviewedWrite([who |-> "shadow", graph |-> ShadowOf(e), env |-> e])
  <2>1. Deployment!Apart(e) => e.shadowGraph # e.graph \/ e.backend # "age"
    BY DEF Deployment!Apart
  <2>2. e.shadowed /\ Deployment!Apart(e) => ShadowOf(e) = e.shadowGraph
    BY DEF ShadowOf
  <2> QED BY <2>1, <2>2 DEF ReviewedWrite
<1> QED BY <1>2, <1>3

\* Steps of a process that is up, none of which changes its environment.
LEMMA StaysDeployed ==
    ASSUME Deployment!DeploymentAssumption, Deployed,
           \/ Deployment!Validate \/ Deployment!OpenStore \/ Deployment!Restore \/ Deployment!OpenShadow
           \/ Deployment!Warm \/ Deployment!RefreshLoop \/ Deployment!Shutdown
    PROVE  Deployed'
<1>1. CASE Deployment!Validate
  BY <1>1 DEF Deployment!Validate, Deployed, Opened, Started
<1>2. CASE Deployment!OpenStore
  <2>1. store' = StoreOf(env) /\ life' \in {"restore", "refused"} /\ life = "open" /\ UNCHANGED <<env, wrote>>
    BY <1>2 DEF Deployment!OpenStore, Deployment!Goes, StoreOf
  <2> QED BY <2>1 DEF Deployed, Opened, Started
<1>3. CASE Deployment!Restore
  BY <1>3 DEF Deployment!Restore, Deployment!Goes, Deployed, Opened, Started
<1>4. CASE Deployment!OpenShadow
  <2>1. life = "shadow" /\ life' \in {"seed", "refused"} /\ UNCHANGED <<env, store, wrote>>
    BY <1>4 DEF Deployment!OpenShadow, Deployment!Goes
  <2>2. store = StoreOf(env) /\ shadow' = ShadowOf(env)
    BY <1>4, <2>1 DEF Deployment!OpenShadow, Deployed, Opened, ShadowOf
  <2> QED BY <2>1, <2>2 DEF Deployed, Opened, Started
<1>5. CASE Deployment!Warm
  BY <1>5 DEF Deployment!Warm, Deployment!Goes, Deployed, Opened, Started
<1>6. CASE Deployment!RefreshLoop
  BY <1>6 DEF Deployment!RefreshLoop, Deployed, Opened, Started
<1>7. CASE Deployment!Shutdown
  BY <1>7 DEF Deployment!Shutdown, Deployed, Opened, Started
<1> QED BY <1>1, <1>2, <1>3, <1>4, <1>5, <1>6, <1>7

\* A write by the seed or a decision goes to the checked store, one by the shadow to its own.
LEMMA WriteStaysDeployed ==
    ASSUME Deployed, UNCHANGED <<env, store, shadow>>, life \in Started, life' \in Started \cup {"refused"},
           NEW who \in {"seed", "decision", "shadow"}, NEW what,
           who = "shadow" => env.shadowed,
           Deployment!Writes(who, IF who = "shadow" THEN shadow ELSE store, what)
    PROVE  Deployed'
<1>1. /\ Deployment!ConfigOK(env) /\ store = StoreOf(env) /\ shadow = ShadowOf(env)
      /\ env \in Deployment!EveryEnvironment
  BY DEF Deployed, Opened, Started
<1> DEFINE w == [who |-> who, graph |-> IF who = "shadow" THEN shadow ELSE store, env |-> env]
<1>2. wrote' = wrote \cup {w}
  BY DEF Deployment!Writes
<1>3. ReviewedWrite(w)
  <2>1. CASE who = "shadow"
    BY <1>1, <2>1, CheckedWrites
  <2>2. CASE who \in {"seed", "decision"}
    BY <1>1, <2>2, CheckedWrites
  <2> QED BY <2>1, <2>2
<1> HIDE DEF w
<1>4. \A v \in wrote' : ReviewedWrite(v)
  BY <1>2, <1>3 DEF Deployed
<1> QED BY <1>1, <1>4 DEF Deployed, Opened, Started

LEMMA DeployedStep ==
    ASSUME Deployment!DeploymentAssumption, Deployed, [Deployment!Next]_(Deployment!deployVars)
    PROVE  Deployed'
<1>1. CASE UNCHANGED Deployment!deployVars
  BY <1>1 DEF Deployment!deployVars, Deployed
<1>2. CASE \/ Deployment!Validate \/ Deployment!OpenStore \/ Deployment!Restore \/ Deployment!OpenShadow
           \/ Deployment!Warm \/ Deployment!RefreshLoop \/ Deployment!Shutdown
  BY <1>2, StaysDeployed
<1>3. CASE Deployment!Seed
  <2>1. CASE env.backend = "age" /\ env.reseed /\ contents[store] = "none"
    <3>1. Deployment!Writes("seed", store, "part") /\ life' = "seeding" /\ life = "seed" /\ UNCHANGED <<env, store, shadow>>
      BY <1>3, <2>1 DEF Deployment!Seed
    <3> QED BY <3>1, WriteStaysDeployed DEF Started
  <2>2. CASE ~(env.backend = "age" /\ env.reseed /\ contents[store] = "none")
    BY <1>3, <2>2 DEF Deployment!Seed, Deployed, Opened, Started
  <2> QED BY <2>1, <2>2
<1>4. CASE Deployment!SeedRest
  <2>1. life = "seeding" /\ life' \in {"warm", "refused"} /\ UNCHANGED <<env, store, shadow>>
    BY <1>4 DEF Deployment!SeedRest, Deployment!Goes
  <2>2. CASE life' = "warm"
    <3>1. Deployment!Writes("seed", store, "seeded")
      BY <1>4, <2>2 DEF Deployment!SeedRest
    <3> QED BY <2>1, <3>1, WriteStaysDeployed DEF Started
  <2>3. CASE life' # "warm"
    BY <1>4, <2>1, <2>3 DEF Deployment!SeedRest, Deployed, Opened, Started
  <2> QED BY <2>2, <2>3
<1>5. CASE Deployment!Decide
  <2>1. Deployment!Writes("decision", store, "used") /\ life = "serving" /\ life' = life /\ UNCHANGED <<env, store, shadow>>
    BY <1>5 DEF Deployment!Decide
  <2> QED BY <2>1, WriteStaysDeployed DEF Started
<1>6. CASE Deployment!ShadowDecision
  <2>1. /\ Deployment!Writes("shadow", shadow, "used") /\ life = "serving" /\ life' = life
        /\ UNCHANGED <<env, store, shadow>> /\ shadow # None
    BY <1>6 DEF Deployment!ShadowDecision
  <2>2. env.shadowed
    BY <2>1 DEF Deployed, Started, ShadowOf
  <2> QED BY <2>1, <2>2, WriteStaysDeployed DEF Started
<1>7. CASE Deployment!Start
  BY <1>7 DEF Deployment!Start, Deployment!DeploymentAssumption, Deployed, Opened, Started
<1> QED BY <1>1, <1>2, <1>3, <1>4, <1>5, <1>6, <1>7 DEF Deployment!Next

\* Through any sequence of starts, stops and refusals of main.py with any
\* environments, the seed and the decisions write only reviewed graphs, a shadow of
\* its own never writes the active one, and the status route tells the store in use.
THEOREM EveryWriteIsReviewed ==
    ASSUME Deployment!DeploymentAssumption
    PROVE  Spec => []WritesAreReviewed
<1>1. Deployment!Init => Deployed
  BY DeployedAtFirst
<1>2. Deployed /\ [Deployment!Next]_(Deployment!deployVars) => Deployed'
  BY DeployedStep
<1>3. Deployed => WritesAreReviewed
  <2> SUFFICES ASSUME Deployed PROVE Deployment!WritesAreReviewed
    BY DEF WritesAreReviewed
  <2>1. ASSUME life = "serving"
        PROVE  /\ Deployment!Status.memory_authoritative <=> store = "memory"
               /\ Deployment!Status.cutover_ready <=> store = "soc_graph"
               /\ Deployment!Status.age_graph_kind = "test" <=> store = "protocol_v2_test"
               /\ shadow # None <=> Deployment!Status.shadow_enabled
    <3>1. /\ Deployment!ConfigOK(env) /\ store = StoreOf(env) /\ shadow = ShadowOf(env)
          /\ env \in Deployment!EveryEnvironment
      BY <2>1 DEF Deployed, Opened, Started
    <3>2. CASE env.backend = "memory"
      <4>1. store = "memory" /\ Deployment!GraphKind(env) = "none"
        BY <3>1, <3>2 DEF StoreOf, Deployment!GraphKind
      <4>2. shadow # None <=> env.shadowed
        BY <3>1, <4>1 DEF ShadowOf, Deployment!Apart, Deployment!DeploymentAssumption
      <4> QED BY <3>2, <4>1, <4>2 DEF Deployment!Status, Deployment!Graphs
    <3>3. CASE env.backend = "age"
      <4>1. store = env.graph /\ store \in Deployment!Graphs /\ store # None /\ store # "memory"
            /\ (store = "protocol_v2_test" \/ store = "soc_graph")
        BY <3>1, <3>3 DEF StoreOf, Deployment!ConfigOK, Deployment!Graphs, Deployment!DeploymentAssumption
      <4>2. Deployment!GraphKind(env) = IF store = "protocol_v2_test" THEN "test" ELSE "product"
        BY <3>3, <4>1 DEF Deployment!GraphKind
      <4>3. shadow # None <=> env.shadowed
        BY <3>1, <4>1 DEF ShadowOf, Deployment!Apart
      <4> QED BY <3>3, <4>1, <4>2, <4>3 DEF Deployment!Status
    <3> QED BY <3>1, <3>2, <3>3 DEF Deployment!ConfigOK
  <2> QED BY <2>1 DEF Deployment!WritesAreReviewed, Deployed, ReviewedWrite
<1> QED BY <1>1, <1>2, <1>3, EachAlone, PTL DEF Deployment!Spec

-----------------------------------------------------------------------------
(* The seeders of the graph *)

Items == {<<"node", n>> : n \in Nodes} \cup {<<"edge", e>> : e \in Edges} \cup {<<"link", l>> : l \in Links}
Kinds2 == {"seed", "migrate"}
Jobs == [kind : Kinds2 \cup {"none"}, todo : SUBSET Items, item : Items \cup {"none"}, found : BOOLEAN]
SeedTyped ==
    /\ plain \in [Nodes -> 0..2] /\ stamped \in [Nodes -> 0..2]
    /\ linked \subseteq Links /\ decided \in [Links -> 0..2]
    /\ job \in [Writers -> Jobs] /\ \A w \in Writers : job[w].kind = "none" => job[w] = Seeding!Idle
    /\ collided \in BOOLEAN /\ purged \in BOOLEAN /\ kinds \subseteq Kinds2

\* A link goes only after its edge is there, and the edge stays.
LinksAreKept ==
    ~purged =>
        /\ \A l \in Links : l \in linked \/ decided[l] > 0
        /\ \A w \in Writers : job[w].item # "none" /\ job[w].item[1] = "link" /\ job[w].found
                              => decided[job[w].item[2]] > 0

\* Runs did not overlap and were all of one kind.
Alone == ~collided /\ ~(Kinds2 \subseteq kinds)
OneRuns == \A v, w \in Writers : job[v].kind # "none" /\ job[w].kind # "none" => v = w
Everything ==
    /\ \A n \in Nodes : plain[n] + stamped[n] = 1
    /\ \A e \in Edges : joined[e] + sealed[e] = 1
\* What a run has done is in the graph, and what it saw of the item in hand still holds.
RunIsAt(w) ==
    job[w].kind # "none" =>
        /\ job[w].kind \in kinds
        /\ \A n \in Nodes : <<"node", n>> \notin job[w].todo => plain[n] + stamped[n] = 1
        /\ \A e \in Edges : <<"edge", e>> \notin job[w].todo => joined[e] + sealed[e] = 1
        /\ job[w].item # "none" =>
              /\ job[w].item \in job[w].todo
              /\ job[w].item[1] = "node" => job[w].found = (plain[job[w].item[2]] + stamped[job[w].item[2]] > 0)
              /\ job[w].item[1] = "edge" =>
                    /\ job[w].found = (joined[job[w].item[2]] + sealed[job[w].item[2]] > 0)
                    /\ \A n \in Nodes : <<"node", n>> \notin job[w].todo
Planting ==
    /\ joined \in [Edges -> 0..1] /\ sealed \in [Edges -> 0..1]
    /\ OneRuns /\ \A w \in Writers : RunIsAt(w)
    /\ "seed" \notin kinds => (\A n \in Nodes : plain[n] = 0) /\ (\A e \in Edges : joined[e] = 0)
    /\ "migrate" \notin kinds => (\A n \in Nodes : stamped[n] = 0) /\ (\A e \in Edges : sealed[e] = 0)
    /\ \A n \in Nodes : plain[n] + stamped[n] <= 1
    /\ \A e \in Edges : joined[e] + sealed[e] <= 1
    /\ complete # {} => Everything
Seeded == SeedTyped /\ LinksAreKept /\ (Alone => Planting)

LEMMA IdleRun ==
    /\ Seeding!Idle \in Jobs /\ Seeding!Idle.kind = "none" /\ Seeding!Idle.todo = {} /\ Seeding!Idle.item = "none"
    /\ Seeding!Idle.found = FALSE
BY DEF Seeding!Idle, Jobs

LEMMA PlannedItems ==
    ASSUME SeedTyped, NEW kind \in Kinds2
    PROVE  /\ Seeding!Plan(kind) \subseteq Items
           /\ \A n \in Nodes : <<"node", n>> \in Seeding!Plan(kind)
           /\ \A e \in Edges : <<"edge", e>> \in Seeding!Plan(kind)
BY DEF Seeding!Plan, Seeding!SeederPlan, Seeding!MigrationPlan, Seeding!Planned, Items, SeedTyped

LEMMA SeededAtFirst == ASSUME Seeding!SeedingAssumption, Seeding!Init PROVE Seeded
<1>1. /\ plain = [n \in Nodes |-> 0] /\ stamped = plain
      /\ joined = [e \in Edges |-> 0] /\ sealed = joined
      /\ linked = Links /\ decided = [l \in Links |-> 0]
      /\ job = [w \in Writers |-> Seeding!Idle]
      /\ collided = FALSE /\ kinds = {} /\ purged = FALSE /\ complete = {}
  BY Zenon DEF Seeding!Init
<1>2. \A w \in Writers : job[w] = Seeding!Idle
  BY <1>1
<1>3. plain \in [Nodes -> 0..2] /\ stamped \in [Nodes -> 0..2] /\ decided \in [Links -> 0..2]
      /\ joined \in [Edges -> 0..1] /\ sealed \in [Edges -> 0..1]
  BY <1>1
<1>4. job \in [Writers -> Jobs]
  BY <1>1, IdleRun
<1>5. SeedTyped
  BY <1>1, <1>2, <1>3, <1>4 DEF SeedTyped
<1>6. LinksAreKept
  BY <1>1, <1>2, IdleRun DEF LinksAreKept
<1>7. Planting
  <2>1. OneRuns /\ \A w \in Writers : RunIsAt(w)
    BY <1>2, IdleRun DEF OneRuns, RunIsAt
  <2> QED BY <1>1, <1>3, <2>1 DEF Planting
<1> QED BY <1>5, <1>6, <1>7 DEF Seeded

\* A run begins: alone only when nobody else runs, and everything is planned.
LEMMA BeginKeepsSeeded ==
    ASSUME Seeded, NEW w \in Writers, NEW kind \in Kinds2, Seeding!Begin(w, kind)
    PROVE  Seeded'
<1> DEFINE new == [Seeding!Idle EXCEPT !.kind = kind, !.todo = Seeding!Plan(kind)]
<1>0. SeedTyped /\ LinksAreKept
  BY DEF Seeded
<1>1. /\ job[w] = Seeding!Idle /\ job' = [job EXCEPT ![w] = new] /\ kinds' = kinds \cup {kind}
      /\ collided' = (collided \/ \E v \in Writers : job[v] # Seeding!Idle)
      /\ UNCHANGED <<plain, stamped, joined, sealed, linked, decided, purged, complete>>
  BY DEF Seeding!Begin, Seeding!nodeVars, Seeding!edgeVars, Seeding!linkVars
<1>2. /\ new \in Jobs /\ new.kind = kind /\ new.item = "none" /\ new.todo = Seeding!Plan(kind)
      /\ kind # "none"
  BY <1>0, IdleRun, PlannedItems DEF Jobs, Kinds2
<1> HIDE DEF new
<1>3. job'[w] = new /\ \A v \in Writers \ {w} : job'[v] = job[v]
  BY <1>0, <1>1 DEF SeedTyped
<1>4. SeedTyped'
  BY <1>0, <1>1, <1>2, <1>3 DEF SeedTyped
<1>5. LinksAreKept'
  BY <1>0, <1>1, <1>2, <1>3 DEF LinksAreKept
<1>6. ASSUME Alone' PROVE Planting'
  <2>1. Alone /\ \A v \in Writers \ {w} : job[v] = Seeding!Idle /\ job[v].kind = "none"
    BY <1>0, <1>1, <1>6, IdleRun DEF Alone, SeedTyped
  <2>2. Planting
    BY <2>1 DEF Seeded
  <2>3. OneRuns'
    BY <1>3, <2>1 DEF OneRuns
  <2>4. RunIsAt(w)'
    BY <1>0, <1>1, <1>2, <1>3, PlannedItems DEF RunIsAt
  <2>5. \A v \in Writers : RunIsAt(v)'
    BY <1>3, <2>1, <2>4 DEF RunIsAt
  <2>6. (complete # {} => Everything)'
    BY <1>1, <2>2 DEF Planting, Everything
  <2>7. /\ joined' \in [Edges -> 0..1] /\ sealed' \in [Edges -> 0..1]
        /\ "seed" \notin kinds' => (\A n \in Nodes : plain'[n] = 0) /\ (\A e \in Edges : joined'[e] = 0)
        /\ "migrate" \notin kinds' => (\A n \in Nodes : stamped'[n] = 0) /\ (\A e \in Edges : sealed'[e] = 0)
        /\ \A n \in Nodes : plain'[n] + stamped'[n] <= 1
        /\ \A e \in Edges : joined'[e] + sealed'[e] <= 1
    BY <1>1, <2>2 DEF Planting
  <2> QED BY <2>3, <2>5, <2>6, <2>7 DEF Planting
<1> QED BY <1>4, <1>5, <1>6 DEF Seeded

\* A forced run wipes what only the migration planted.
LEMMA WipeKeepsSeeded ==
    ASSUME Seeding!SeedingAssumption, Seeded, NEW w \in Writers, Seeding!Wipe(w)
    PROVE  Seeded'
<1>0. SeedTyped /\ \A e \in Edges : e[1] \in Nodes /\ e[2] \in Nodes
  BY DEF Seeded, Seeding!SeedingAssumption
<1>1. /\ job[w].kind = "seed" /\ job[w].todo = Seeding!Plan("seed") /\ job[w].item = "none" /\ ~purged
      /\ stamped' = [n \in Nodes |-> 0] /\ sealed' = [e \in Edges |-> 0]
      /\ joined' = [e \in Edges |-> IF plain[e[1]] > 0 /\ plain[e[2]] > 0 THEN joined[e] ELSE 0]
      /\ linked' = {} /\ decided' = [l \in Links |-> 0] /\ purged' = TRUE /\ complete' = complete \ {"migrate"}
      /\ UNCHANGED <<plain, job, collided, kinds>>
  BY DEF Seeding!Wipe
<1>2. SeedTyped'
  BY <1>0, <1>1 DEF SeedTyped
<1>3. \A v \in Writers : job[v].item # "none" => v # w
  BY <1>1
<1>4. LinksAreKept'
  <2>1. purged' /\ LinksAreKept
    BY <1>1 DEF Seeded
  <2> QED BY <1>1, <2>1 DEF LinksAreKept
<1>5. ASSUME Alone' PROVE Planting'
  <2>1. Alone /\ Planting
    BY <1>1, <1>5 DEF Alone, Seeded
  <2>2. "migrate" \notin kinds
    BY <1>1, <2>1 DEF Alone, Planting, RunIsAt, Kinds2
  <2>3. \A n \in Nodes : stamped'[n] = stamped[n]
    BY <1>1, <2>1, <2>2 DEF Planting
  <2>4. \A v \in Writers : job[v].kind # "none" => v = w
    BY <1>1, <2>1 DEF Planting, OneRuns
  <2>5. RunIsAt(w)'
    <3>1. /\ \A n \in Nodes : <<"node", n>> \in job[w].todo
          /\ \A e \in Edges : <<"edge", e>> \in job[w].todo
      BY <1>0, <1>1, PlannedItems DEF Kinds2
    <3> QED BY <1>1, <2>1, <3>1 DEF Planting, RunIsAt
  <2>6. \A v \in Writers : RunIsAt(v)'
    BY <1>1, <2>4, <2>5 DEF RunIsAt
  <2>7. \A e \in Edges : joined[e] \in 0..1 /\ joined'[e] \in {0, joined[e]} /\ sealed'[e] = 0 /\ sealed[e] = 0
    BY <1>1, <2>1, <2>2 DEF Planting
  <2>8. (complete # {} => Everything)'
    <3>1. ASSUME complete' # {} PROVE \A e \in Edges : joined'[e] = joined[e]
      <4>1. Everything
        BY <1>1, <2>1, <3>1 DEF Planting
      <4>2. \A n \in Nodes : plain[n] > 0
        BY <1>0, <2>1, <2>2, <4>1 DEF Everything, Planting, SeedTyped
      <4> QED BY <1>0, <1>1, <4>2
    <3>2. ASSUME complete' # {} PROVE Everything
      BY <1>1, <2>1, <3>2 DEF Planting
    <3> QED BY <1>1, <2>3, <2>7, <3>1, <3>2 DEF Everything
  <2>9. /\ joined' \in [Edges -> 0..1] /\ sealed' \in [Edges -> 0..1]
        /\ \A e \in Edges : joined'[e] + sealed'[e] <= 1
    BY <1>1, <2>7
  <2>10. /\ "seed" \notin kinds' => (\A n \in Nodes : plain'[n] = 0) /\ (\A e \in Edges : joined'[e] = 0)
         /\ "migrate" \notin kinds' => (\A n \in Nodes : stamped'[n] = 0) /\ (\A e \in Edges : sealed'[e] = 0)
         /\ \A n \in Nodes : plain'[n] + stamped'[n] <= 1
    BY <1>1, <2>1, <2>3, <2>7 DEF Planting
  <2> QED BY <1>1, <2>1, <2>6, <2>8, <2>9, <2>10 DEF Planting, OneRuns
<1> QED BY <1>2, <1>4, <1>5 DEF Seeded

\* Looking at an item tells whether it is there.
LEMMA LookKeepsSeeded ==
    ASSUME Seeded, NEW w \in Writers, Seeding!Look(w)
    PROVE  Seeded'
<1>0. SeedTyped /\ LinksAreKept /\ job[w] \in Jobs
  BY DEF Seeded, SeedTyped
<1>1. PICK x \in Seeding!Next3(job[w].todo) :
        job' = [job EXCEPT ![w].item = x, ![w].found = Seeding!There(job[w].kind, x)]
  BY DEF Seeding!Look
<1> DEFINE seen == Seeding!There(job[w].kind, x)
           new == [job[w] EXCEPT !.item = x, !.found = seen]
<1>2. UNCHANGED <<plain, stamped, joined, sealed, linked, decided, collided, kinds, purged, complete>>
  BY DEF Seeding!Look, Seeding!nodeVars, Seeding!edgeVars, Seeding!linkVars, Seeding!runVars
<1>3. x \in job[w].todo /\ x \in Items /\ (x[1] = "edge" => \A n \in Nodes : <<"node", n>> \notin job[w].todo)
  BY <1>0 DEF Seeding!Next3, Jobs
<1>4. job[w].kind \in Kinds2
  BY <1>0, <1>3, IdleRun DEF SeedTyped, Jobs
<1>5. seen \in BOOLEAN
  <2>1. x[1] = "node" \/ x[1] = "edge" \/ x[1] = "link"
    BY <1>3 DEF Items
  <2>2. CASE x[1] = "node"
    <3>1. seen = ((IF job[w].kind = "seed" THEN Seeding!Present(x[2]) ELSE stamped[x[2]]) > 0)
      BY <2>2 DEF Seeding!There
    <3> QED BY <3>1
  <2>3. CASE x[1] = "edge"
    <3>1. seen = ((IF job[w].kind = "seed" THEN joined[x[2]] + sealed[x[2]] ELSE sealed[x[2]]) > 0)
      BY <2>3 DEF Seeding!There
    <3> QED BY <3>1
  <2>4. CASE x[1] = "link"
    <3>1. seen = (decided[x[2]] > 0)
      BY <2>4 DEF Seeding!There
    <3> QED BY <3>1
  <2> QED BY <2>1, <2>2, <2>3, <2>4
<1>6. /\ new \in Jobs /\ new.kind = job[w].kind /\ new.todo = job[w].todo /\ new.item = x /\ new.found = seen
      /\ job' = [job EXCEPT ![w] = new]
  BY <1>0, <1>1, <1>3, <1>5 DEF Jobs, SeedTyped
<1>7. x[1] = "link" /\ seen => decided[x[2]] > 0
  BY DEF Seeding!There
<1>8. ASSUME Alone, Planting
      PROVE  /\ x[1] = "node" => seen = (plain[x[2]] + stamped[x[2]] > 0)
             /\ x[1] = "edge" => seen = (joined[x[2]] + sealed[x[2]] > 0)
  <2>1. /\ x[1] = "node" => x[2] \in Nodes
        /\ x[1] = "edge" => x[2] \in Edges
    BY <1>3 DEF Items
  <2>2. job[w].kind \in kinds /\ (job[w].kind = "seed" \/ job[w].kind = "migrate")
    BY <1>4, <1>8 DEF Planting, RunIsAt, Kinds2
  <2>3. CASE job[w].kind = "seed"
    <3>1. x[1] = "node" => seen = (plain[x[2]] + stamped[x[2]] > 0)
      BY <2>3 DEF Seeding!There, Seeding!Present
    <3>2. x[1] = "edge" => seen = (joined[x[2]] + sealed[x[2]] > 0)
      BY <2>3 DEF Seeding!There
    <3> QED BY <3>1, <3>2
  <2>4. CASE job[w].kind = "migrate"
    <3>1. "seed" \notin kinds
      BY <1>8, <2>2, <2>4 DEF Alone, Kinds2
    <3>2. x[1] = "node" => seen = (stamped[x[2]] > 0) /\ plain[x[2]] = 0 /\ stamped[x[2]] \in Int
      BY <1>0, <1>8, <2>1, <2>4, <3>1 DEF Seeding!There, Planting, SeedTyped
    <3>3. x[1] = "edge" => seen = (sealed[x[2]] > 0) /\ joined[x[2]] = 0 /\ sealed[x[2]] \in Int
      BY <1>8, <2>1, <2>4, <3>1 DEF Seeding!There, Planting
    <3> QED BY <3>2, <3>3
  <2> QED BY <2>2, <2>3, <2>4
<1> HIDE DEF new, seen
<1>9. job'[w] = new /\ \A v \in Writers \ {w} : job'[v] = job[v]
  BY <1>0, <1>6 DEF SeedTyped
<1>10. SeedTyped'
  BY <1>0, <1>2, <1>4, <1>6, <1>9 DEF SeedTyped, Kinds2
<1>11. LinksAreKept'
  BY <1>0, <1>2, <1>6, <1>7, <1>9 DEF LinksAreKept
<1>12. ASSUME Alone' PROVE Planting'
  <2>1. Alone /\ Planting
    BY <1>2, <1>12 DEF Alone, Seeded
  <2>2. RunIsAt(w)'
    BY <1>2, <1>3, <1>6, <1>8, <1>9, <2>1 DEF RunIsAt, Planting
  <2>3. \A v \in Writers : RunIsAt(v)'
    BY <1>2, <1>9, <2>1, <2>2 DEF RunIsAt, Planting
  <2>4. OneRuns'
    BY <1>6, <1>9, <2>1 DEF OneRuns, Planting
  <2> QED BY <1>2, <2>1, <2>3, <2>4 DEF Planting, Everything
<1> QED BY <1>10, <1>11, <1>12 DEF Seeded

\* The item in hand is done.
LEMMA TakenItem ==
    ASSUME SeedTyped, NEW w \in Writers, Seeding!Taken(w), job[w].item # "none"
    PROVE  /\ job[w].item \in Items
           /\ job' \in [Writers -> Jobs] /\ \A v \in Writers \ {w} : job'[v] = job[v]
           /\ job'[w].kind = job[w].kind /\ job'[w].todo = job[w].todo \ {job[w].item} /\ job'[w].item = "none"
           /\ \A v \in Writers : job'[v].kind = "none" => job'[v] = Seeding!Idle
<1> DEFINE new == [job[w] EXCEPT !.todo = job[w].todo \ {job[w].item}, !.item = "none"]
<1>1. job[w] \in Jobs /\ job[w].item \in Items /\ job[w].kind # "none"
  BY IdleRun DEF SeedTyped, Jobs
<1>2. job' = [job EXCEPT ![w] = new]
  BY DEF Seeding!Taken, SeedTyped
<1>3. new \in Jobs /\ new.kind = job[w].kind /\ new.todo = job[w].todo \ {job[w].item} /\ new.item = "none"
  BY <1>1 DEF Jobs
<1> HIDE DEF new
<1> QED BY <1>1, <1>2, <1>3 DEF SeedTyped

\* What the other writers rely on when one of them alone runs: nothing.
LEMMA OthersAreIdle ==
    ASSUME Planting, NEW w \in Writers, job[w].kind # "none",
           \A v \in Writers \ {w} : job'[v] = job[v], job'[w].kind = job[w].kind, RunIsAt(w)'
    PROVE  OneRuns' /\ \A v \in Writers : RunIsAt(v)'
BY DEF Planting, OneRuns, RunIsAt

\* One more of what is not there yet; a node that is there is updated in place.
LEMMA WriteNodeKeepsSeeded ==
    ASSUME Seeded, NEW w \in Writers, Seeding!WriteNode(w)
    PROVE  Seeded'
<1> DEFINE n == job[w].item[2]
           one == IF job[w].found THEN 0 ELSE 1
<1>0. SeedTyped /\ LinksAreKept
  BY DEF Seeded
<1>1. /\ job[w].item # "none" /\ job[w].item[1] = "node" /\ Seeding!Taken(w)
      /\ UNCHANGED <<joined, sealed, linked, decided, collided, kinds, purged, complete>>
      /\ IF job[w].kind = "seed"
         THEN plain' = [plain EXCEPT ![n] = Seeding!Plus(plain[n], one)] /\ stamped' = stamped
         ELSE stamped' = [stamped EXCEPT ![n] = Seeding!Plus(stamped[n], one)] /\ plain' = plain
  BY DEF Seeding!WriteNode, Seeding!edgeVars, Seeding!linkVars, Seeding!runVars
<1>2. /\ job[w].item \in Items /\ job' \in [Writers -> Jobs] /\ \A v \in Writers \ {w} : job'[v] = job[v]
      /\ job'[w].kind = job[w].kind /\ job'[w].todo = job[w].todo \ {job[w].item} /\ job'[w].item = "none"
      /\ \A v \in Writers : job'[v].kind = "none" => job'[v] = Seeding!Idle
  BY <1>0, <1>1, TakenItem
<1>3. n \in Nodes /\ job[w].item = <<"node", n>> /\ one \in 0..1 /\ job[w].kind \in Kinds2
  BY <1>0, <1>1, <1>2, IdleRun DEF Items, SeedTyped, Jobs
<1>4. /\ plain' \in [Nodes -> 0..2] /\ stamped' \in [Nodes -> 0..2]
      /\ \A m \in Nodes \ {n} : plain'[m] = plain[m] /\ stamped'[m] = stamped[m]
  BY <1>0, <1>1, <1>3 DEF SeedTyped, Seeding!Plus, Seeding!Many
<1>5. SeedTyped'
  BY <1>0, <1>1, <1>2, <1>4 DEF SeedTyped
<1>6. LinksAreKept'
  BY <1>0, <1>1, <1>2 DEF LinksAreKept
<1>7. ASSUME Alone' PROVE Planting'
  <2>1. Alone /\ Planting
    BY <1>1, <1>7 DEF Alone, Seeded
  <2>2. RunIsAt(w) /\ job[w].kind # "none"
    BY <1>3, <2>1 DEF Planting, Kinds2
  <2>3. job[w].found = (plain[n] + stamped[n] > 0) /\ job[w].kind \in kinds
    BY <1>1, <1>3, <2>2 DEF RunIsAt
  <2>4. plain'[n] + stamped'[n] = 1
    <3>1. plain[n] \in 0..2 /\ stamped[n] \in 0..2 /\ plain[n] + stamped[n] <= 1
      BY <1>0, <1>3, <2>1 DEF Planting, SeedTyped
    <3>2. one = 1 - (plain[n] + stamped[n])
      <4>1. CASE job[w].found
        <5>1. plain[n] + stamped[n] > 0 /\ one = 0
          BY <2>3, <4>1, Zenon
        <5> QED BY <3>1, <5>1
      <4>2. CASE ~job[w].found
        <5>1. ~(plain[n] + stamped[n] > 0) /\ one = 1
          BY <2>3, <4>2, Zenon
        <5> QED BY <3>1, <5>1
      <4> QED BY <4>1, <4>2
    <3> HIDE DEF n, one
    <3>3. Seeding!Plus(plain[n], one) = plain[n] + one /\ Seeding!Plus(stamped[n], one) = stamped[n] + one
      BY <3>1, <3>2 DEF Seeding!Plus, Seeding!Many
    <3> QED BY <1>0, <1>1, <1>3, <3>1, <3>2, <3>3 DEF SeedTyped
  <2>5. RunIsAt(w)'
    BY <1>1, <1>2, <1>3, <1>4, <2>2, <2>4 DEF RunIsAt
  <2>6. OneRuns' /\ \A v \in Writers : RunIsAt(v)'
    BY <1>2, <2>1, <2>2, <2>5, OthersAreIdle
  <2>7. /\ "seed" \notin kinds' => \A m \in Nodes : plain'[m] = 0
        /\ "migrate" \notin kinds' => \A m \in Nodes : stamped'[m] = 0
    BY <1>1, <1>3, <2>1, <2>3 DEF Planting, Kinds2
  <2>8. \A m \in Nodes : plain'[m] + stamped'[m] <= 1
    BY <1>4, <2>1, <2>4 DEF Planting
  <2>9. (complete # {} => Everything)'
    BY <1>1, <1>4, <2>1, <2>4 DEF Planting, Everything
  <2> QED BY <1>1, <2>1, <2>6, <2>7, <2>8, <2>9 DEF Planting
<1> QED BY <1>5, <1>6, <1>7 DEF Seeded

\* An edge joins two nodes that are each there once, since edges come after nodes.
LEMMA WriteEdgeKeepsSeeded ==
    ASSUME Seeding!SeedingAssumption, Seeded, NEW w \in Writers, Seeding!WriteEdge(w)
    PROVE  Seeded'
<1> DEFINE e == job[w].item[2]
           pairs == IF job[w].kind = "seed" THEN Seeding!Present(e[1]) * Seeding!Present(e[2])
                                            ELSE stamped[e[1]] * stamped[e[2]]
<1>0. SeedTyped /\ LinksAreKept
  BY DEF Seeded
<1>1. /\ job[w].item # "none" /\ job[w].item[1] = "edge" /\ Seeding!Taken(w)
      /\ UNCHANGED <<plain, stamped, linked, decided, collided, kinds, purged, complete>>
      /\ IF job[w].found THEN joined' = joined /\ sealed' = sealed
         ELSE IF job[w].kind = "seed"
              THEN joined' = [joined EXCEPT ![e] = Seeding!Plus(joined[e], pairs)] /\ sealed' = sealed
              ELSE sealed' = [sealed EXCEPT ![e] = Seeding!Plus(sealed[e], pairs)] /\ joined' = joined
  BY DEF Seeding!WriteEdge, Seeding!nodeVars, Seeding!edgeVars, Seeding!linkVars, Seeding!runVars
<1>2. /\ job[w].item \in Items /\ job' \in [Writers -> Jobs] /\ \A v \in Writers \ {w} : job'[v] = job[v]
      /\ job'[w].kind = job[w].kind /\ job'[w].todo = job[w].todo \ {job[w].item} /\ job'[w].item = "none"
      /\ \A v \in Writers : job'[v].kind = "none" => job'[v] = Seeding!Idle
  BY <1>0, <1>1, TakenItem
<1>3. e \in Edges /\ e[1] \in Nodes /\ e[2] \in Nodes /\ job[w].item = <<"edge", e>> /\ job[w].kind \in Kinds2
  BY <1>0, <1>1, <1>2, IdleRun DEF Items, SeedTyped, Jobs, Seeding!SeedingAssumption
<1>4. SeedTyped'
  BY <1>0, <1>1, <1>2 DEF SeedTyped
<1>5. LinksAreKept'
  BY <1>0, <1>1, <1>2 DEF LinksAreKept
<1>6. ASSUME Alone' PROVE Planting'
  <2>1. Alone /\ Planting
    BY <1>1, <1>6 DEF Alone, Seeded
  <2>2. RunIsAt(w) /\ job[w].kind # "none" /\ job[w].kind \in kinds
    BY <1>3, <2>1 DEF Planting, RunIsAt, Kinds2
  <2>3. /\ job[w].found = (joined[e] + sealed[e] > 0)
        /\ plain[e[1]] + stamped[e[1]] = 1 /\ plain[e[2]] + stamped[e[2]] = 1
    BY <1>1, <1>3, <2>2 DEF RunIsAt
  <2>4. pairs = 1
    <3>1. CASE job[w].kind = "seed"
      <4>1. Seeding!Present(e[1]) = 1 /\ Seeding!Present(e[2]) = 1
        BY <2>3 DEF Seeding!Present
      <4> QED BY <3>1, <4>1
    <3>2. CASE job[w].kind = "migrate"
      <4>1. "seed" \notin kinds
        BY <2>1, <2>2, <3>2 DEF Alone, Kinds2
      <4>2. stamped[e[1]] = 1 /\ stamped[e[2]] = 1
        BY <1>0, <1>3, <2>1, <2>3, <4>1 DEF Planting, SeedTyped
      <4> QED BY <3>2, <4>2
    <3> QED BY <1>3, <3>1, <3>2 DEF Kinds2
  <2>5. joined[e] \in 0..1 /\ sealed[e] \in 0..1 /\ joined[e] + sealed[e] <= 1
    BY <1>3, <2>1 DEF Planting
  <2> HIDE DEF e, pairs
  <2>6. /\ joined' \in [Edges -> 0..1] /\ sealed' \in [Edges -> 0..1]
        /\ joined'[e] + sealed'[e] = 1
        /\ \A f \in Edges \ {e} : joined'[f] = joined[f] /\ sealed'[f] = sealed[f]
        /\ job[w].kind # "seed" => joined' = joined
        /\ job[w].kind # "migrate" => sealed' = sealed
    <3>1. CASE job[w].found
      <4>1. joined[e] + sealed[e] > 0 /\ joined' = joined /\ sealed' = sealed
        BY <1>1, <2>3, <3>1, Zenon
      <4> QED BY <1>3, <2>1, <2>5, <4>1 DEF Planting
    <3>2. CASE ~job[w].found
      <4>1. ~(joined[e] + sealed[e] > 0)
        BY <2>3, <3>2, Zenon
      <4>2. joined[e] = 0 /\ sealed[e] = 0 /\ Seeding!Plus(0, pairs) = 1
        BY <2>4, <2>5, <4>1 DEF Seeding!Plus, Seeding!Many
      <4>3. \/ job[w].kind = "seed" /\ joined' = [joined EXCEPT ![e] = 1] /\ sealed' = sealed
            \/ job[w].kind = "migrate" /\ sealed' = [sealed EXCEPT ![e] = 1] /\ joined' = joined
        BY <1>1, <1>3, <3>2, <4>2 DEF Kinds2
      <4> QED BY <1>3, <2>1, <4>2, <4>3 DEF Planting
    <3> QED BY <3>1, <3>2
  <2>7. RunIsAt(w)'
    BY <1>1, <1>2, <1>3, <2>2, <2>6 DEF RunIsAt
  <2>8. OneRuns' /\ \A v \in Writers : RunIsAt(v)'
    BY <1>2, <2>1, <2>2, <2>7, OthersAreIdle
  <2>9. /\ "seed" \notin kinds' => \A f \in Edges : joined'[f] = 0
        /\ "migrate" \notin kinds' => \A f \in Edges : sealed'[f] = 0
    BY <1>1, <1>3, <2>1, <2>2, <2>6 DEF Planting, Kinds2
  <2>10. \A f \in Edges : joined'[f] + sealed'[f] <= 1
    BY <2>1, <2>6 DEF Planting
  <2>11. (complete # {} => Everything)'
    BY <1>1, <2>1, <2>6 DEF Planting, Everything
  <2> QED BY <1>1, <2>1, <2>6, <2>8, <2>9, <2>10, <2>11 DEF Planting
<1> QED BY <1>4, <1>5, <1>6 DEF Seeded

\* The edge of an older decision, and then the end of its link.
LEMMA LinkStepsKeepSeeded ==
    ASSUME Seeding!SeedingAssumption, Seeded, NEW w \in Writers, Seeding!JoinLink(w) \/ Seeding!DropLink(w)
    PROVE  Seeded'
<1> DEFINE l == job[w].item[2]
<1>0. SeedTyped /\ LinksAreKept
  BY DEF Seeded
<1>1. /\ job[w].item # "none" /\ job[w].item[1] = "link"
      /\ UNCHANGED <<plain, stamped, joined, sealed, collided, kinds, purged, complete>>
  BY DEF Seeding!JoinLink, Seeding!DropLink, Seeding!nodeVars, Seeding!edgeVars, Seeding!linkVars, Seeding!runVars
<1>2. job[w] \in Jobs /\ job[w].item \in Items /\ job[w].kind # "none"
  BY <1>0, <1>1, IdleRun DEF SeedTyped, Jobs
<1>3. l \in Links /\ job[w].item = <<"link", l>> /\ LinkTo[l] \in Nodes
  BY <1>1, <1>2 DEF Items, Seeding!SeedingAssumption
<1>4. /\ job' \in [Writers -> Jobs] /\ \A v \in Writers \ {w} : job'[v] = job[v]
      /\ job'[w].kind = job[w].kind /\ \A v \in Writers : job'[v].kind = "none" => job'[v] = Seeding!Idle
      /\ \/ job'[w].todo = job[w].todo /\ job'[w].item = job[w].item /\ decided'[l] > 0
         \/ job'[w].todo = job[w].todo \ {job[w].item} /\ job'[w].item = "none"
      /\ linked' \subseteq Links /\ decided' \in [Links -> 0..2]
      /\ \A k \in Links : decided[k] > 0 => decided'[k] > 0
      /\ ~purged => \A k \in Links : k \in linked => k \in linked' \/ decided'[k] > 0
  <2>1. CASE Seeding!JoinLink(w)
    <3> DEFINE new == [job[w] EXCEPT !.found = TRUE]
    <3>1. /\ stamped[LinkTo[l]] > 0 /\ decided' = [decided EXCEPT ![l] = Seeding!Plus(decided[l], stamped[LinkTo[l]])]
          /\ job' = [job EXCEPT ![w].found = TRUE] /\ linked' = linked
      BY <2>1 DEF Seeding!JoinLink, Seeding!Reconciles
    <3>2. new \in Jobs /\ new.kind = job[w].kind /\ new.todo = job[w].todo /\ new.item = job[w].item
      BY <1>2 DEF Jobs
    <3>3. job' = [job EXCEPT ![w] = new]
      BY <1>0, <3>1 DEF SeedTyped
    <3>4. stamped[LinkTo[l]] \in 0..2 /\ decided[l] \in 0..2
      BY <1>0, <1>3 DEF SeedTyped
    <3>5. decided' \in [Links -> 0..2] /\ decided'[l] > 0 /\ \A k \in Links : decided[k] > 0 => decided'[k] > 0
      BY <1>0, <1>3, <3>1, <3>4 DEF SeedTyped, Seeding!Plus, Seeding!Many
    <3> HIDE DEF new, l
    <3> QED BY <1>0, <1>2, <3>1, <3>2, <3>3, <3>5 DEF SeedTyped
  <2>2. CASE Seeding!DropLink(w)
    <3>1. /\ job[w].found \/ ~Seeding!Reconciles(l)
          /\ linked' = (IF Seeding!Reconciles(l) THEN linked \ {l} ELSE linked) /\ decided' = decided
          /\ Seeding!Taken(w)
      BY <2>2 DEF Seeding!DropLink
    <3>2. /\ job' \in [Writers -> Jobs] /\ \A v \in Writers \ {w} : job'[v] = job[v]
          /\ job'[w].kind = job[w].kind /\ job'[w].todo = job[w].todo \ {job[w].item} /\ job'[w].item = "none"
          /\ \A v \in Writers : job'[v].kind = "none" => job'[v] = Seeding!Idle
      BY <1>0, <1>1, <3>1, TakenItem
    <3>3. ~purged /\ Seeding!Reconciles(l) => decided[l] > 0
      BY <1>0, <1>1, <3>1 DEF LinksAreKept
    <3> QED BY <1>0, <3>1, <3>2, <3>3 DEF SeedTyped
  <2> QED BY <2>1, <2>2
<1>5. SeedTyped'
  BY <1>0, <1>1, <1>4 DEF SeedTyped
<1>6. LinksAreKept'
  <2> SUFFICES ASSUME ~purged PROVE LinksAreKept'
    BY <1>1 DEF LinksAreKept
  <2>1. \A k \in Links : k \in linked' \/ decided'[k] > 0
    BY <1>0, <1>4 DEF LinksAreKept
  <2>2. ASSUME NEW v \in Writers, job'[v].item # "none", job'[v].item[1] = "link", job'[v].found
        PROVE  decided'[job'[v].item[2]] > 0
    <3>1. CASE v = w
      BY <1>1, <1>4, <2>2, <3>1
    <3>2. CASE v # w
      <4>1. job'[v] = job[v] /\ decided[job[v].item[2]] > 0
        BY <1>0, <1>4, <2>2, <3>2 DEF LinksAreKept
      <4>2. job[v].item[2] \in Links
        BY <1>0, <2>2, <4>1 DEF SeedTyped, Jobs, Items
      <4> QED BY <1>4, <4>1, <4>2
    <3> QED BY <3>1, <3>2
  <2> QED BY <2>1, <2>2 DEF LinksAreKept
<1>7. ASSUME Alone' PROVE Planting'
  <2>1. Alone /\ Planting
    BY <1>1, <1>7 DEF Alone, Seeded
  <2>2. RunIsAt(w)
    BY <2>1 DEF Planting
  <2>3. RunIsAt(w)'
    BY <1>1, <1>2, <1>3, <1>4, <2>2 DEF RunIsAt
  <2>4. OneRuns' /\ \A v \in Writers : RunIsAt(v)'
    BY <1>2, <1>4, <2>1, <2>3, OthersAreIdle
  <2> QED BY <1>1, <2>1, <2>4 DEF Planting, Everything
<1> QED BY <1>5, <1>6, <1>7 DEF Seeded

\* A run ends, having done all its plan, or is interrupted anywhere.
LEMMA EndsKeepSeeded ==
    ASSUME Seeded, NEW w \in Writers, Seeding!Finish(w) \/ Seeding!Abort(w)
    PROVE  Seeded'
<1>0. SeedTyped /\ LinksAreKept
  BY DEF Seeded
<1>1. /\ job[w] # Seeding!Idle /\ job' = [job EXCEPT ![w] = Seeding!Idle]
      /\ UNCHANGED <<plain, stamped, joined, sealed, linked, decided, collided, kinds, purged>>
      /\ complete' # complete => job[w].todo = {}
  BY DEF Seeding!Finish, Seeding!Abort, Seeding!nodeVars, Seeding!edgeVars, Seeding!linkVars, Seeding!runVars
<1>2. job'[w] = Seeding!Idle /\ \A v \in Writers \ {w} : job'[v] = job[v]
  BY <1>0, <1>1 DEF SeedTyped
<1>3. SeedTyped'
  BY <1>0, <1>1, <1>2, IdleRun DEF SeedTyped
<1>4. LinksAreKept'
  BY <1>0, <1>1, <1>2, IdleRun DEF LinksAreKept
<1>5. ASSUME Alone' PROVE Planting'
  <2>1. Alone /\ Planting
    BY <1>1, <1>5 DEF Alone, Seeded
  <2>2. (complete # {} => Everything)'
    <3>1. CASE complete' = complete
      BY <1>1, <2>1, <3>1 DEF Planting, Everything
    <3>2. CASE complete' # complete
      BY <1>0, <1>1, <2>1, <3>2 DEF Planting, RunIsAt, Everything, SeedTyped
    <3> QED BY <3>1, <3>2
  <2>3. OneRuns' /\ \A v \in Writers : RunIsAt(v)'
    BY <1>1, <1>2, <2>1, IdleRun DEF Planting, OneRuns, RunIsAt
  <2> QED BY <1>1, <2>1, <2>2, <2>3 DEF Planting
<1> QED BY <1>3, <1>4, <1>5 DEF Seeded

LEMMA SeededStep ==
    ASSUME Seeding!SeedingAssumption, Seeded, [Seeding!Next]_(Seeding!seedingVars)
    PROVE  Seeded'
<1>1. CASE UNCHANGED Seeding!seedingVars
  <2>1. UNCHANGED <<plain, stamped, joined, sealed, linked, decided, job, collided, kinds, purged, complete>>
    BY <1>1 DEF Seeding!seedingVars
  <2> QED BY <2>1 DEF Seeded, SeedTyped, LinksAreKept, Alone, Planting, OneRuns, RunIsAt, Everything
<1>2. CASE Seeding!Next
  BY <1>2, BeginKeepsSeeded, WipeKeepsSeeded, LookKeepsSeeded, WriteNodeKeepsSeeded, WriteEdgeKeepsSeeded,
      LinkStepsKeepSeeded, EndsKeepSeeded DEF Seeding!Next, Kinds2
<1> QED BY <1>1, <1>2

\* Runs of one kind only are not of both.
LEMMA OneKind ==
    ASSUME kinds \subseteq Kinds2, Seeding!Cardinality(kinds) = 1
    PROVE  ~(Kinds2 \subseteq kinds)
<1>1. Seeding!Cardinality(kinds) = Cardinality(kinds)
  BY Zenon DEF Seeding!Cardinality, Cardinality
<1>2. SUFFICES ASSUME kinds = {"seed", "migrate"} PROVE FALSE
  BY DEF Kinds2
<1>3. Cardinality({"seed"}) = 1 /\ IsFiniteSet({"seed"})
  BY FS_Singleton
<1>4. Cardinality({"seed"} \cup {"migrate"}) = 2
  BY <1>3, FS_AddElement
<1>5. kinds = {"seed"} \cup {"migrate"}
  BY <1>2
<1> QED BY <1>1, <1>4, <1>5

\* However often the seeder and the entity migration are interrupted and repeated, one
\* that has the graph to itself plants its whole plan exactly once, and no link is lost
\* before its edge exists, for any plan and any number of writers.
THEOREM SeedingIsExact ==
    ASSUME Seeding!SeedingAssumption
    PROVE  Spec => []SeedingConverges
<1>1. Seeding!Init => Seeded
  BY SeededAtFirst
<1>2. Seeded /\ [Seeding!Next]_(Seeding!seedingVars) => Seeded'
  BY SeededStep
<1>3. Seeded => SeedingConverges
  <2> SUFFICES ASSUME Seeded PROVE Seeding!SeedingConverges
    BY DEF SeedingConverges
  <2>1. ASSUME ~collided, Seeding!Cardinality(kinds) = 1 PROVE Planting
    BY <2>1, OneKind DEF Seeded, SeedTyped, Alone
  <2>2. ~purged => \A l \in Links : l \in linked \/ decided[l] > 0
    BY DEF Seeded, LinksAreKept
  <2>3. \A k \in complete : complete # {}
    OBVIOUS
  <2> QED BY <2>1, <2>2, <2>3, Zenon DEF Seeding!SeedingConverges, Seeding!Present, Planting, Everything
<1> QED BY <1>1, <1>2, <1>3, EachAlone, PTL DEF Seeding!Spec

-----------------------------------------------------------------------------
(* The auto-approve gate *)

GateRows == [category : GateCategories, correct : BOOLEAN]
GateNames == GateCategories \cup {None}
GateStates == [verified : Nat, right : Nat, of : Nat, threshold : 0..100]
GateConfigs == [enabled : BOOLEAN, initial : 0..100, min : Nat, minVerified : Nat]
GateVerdicts == {"unknown_category", "disabled", "conservation_not_green", "novelty_spike",
    "insufficient_category_verified_count", "below_threshold", "wrong_action", "spot_check_required",
    "would_auto_approve"}
GateEvents == [category : GateNames, confidence : Confidences, gate : GateVerdicts]
GateTyped ==
    /\ rows \in Seq(GateRows) /\ log \in Seq(GateEvents)
    /\ config \in GateConfigs /\ config.min <= config.initial
    /\ threshold \in [GateCategories -> 0..100] /\ state \in [GateNames -> GateStates]
    /\ at \in [Threads -> {"idle", "derive", "gate", "status"}]
    /\ mine \in [Threads -> [category : GateNames, rows : Seq(GateRows), todo : SUBSET GateCategories]]

\* What a reader read is still the beginning of the graph's rows.
Begins(p, q) == Len(p) <= Len(q) /\ \A i \in 1..Len(p) : p[i] = q[i]
\* The counts of a category state were the graph's once, and rows only come.
CountedOnce == \A c \in GateNames : state[c].verified <= Cardinality(Gate!RowsOf(rows, c))
Gated ==
    /\ GateTyped /\ Gate!ThresholdsWithinConfig /\ CountedOnce
    /\ \A t \in Threads : Begins(mine[t].rows, rows)

LEMMA GateCounts == \A S : Gate!Cardinality(S) = Cardinality(S)
BY Zenon DEF Gate!Cardinality, Cardinality

\* The rows of a category are finitely many, and more rows have more of them.
LEMMA RowsGrow ==
    ASSUME NEW p \in Seq(GateRows), NEW q \in Seq(GateRows), Begins(p, q), NEW c
    PROVE  /\ Gate!RowsOf(p, c) \subseteq Gate!RowsOf(q, c)
           /\ IsFiniteSet(Gate!RowsOf(p, c)) /\ IsFiniteSet(Gate!RowsOf(q, c))
           /\ Cardinality(Gate!RowsOf(p, c)) \in Nat /\ Cardinality(Gate!RowsOf(q, c)) \in Nat
           /\ Cardinality(Gate!RowsOf(p, c)) <= Cardinality(Gate!RowsOf(q, c))
<1>1. Gate!RowsOf(p, c) \subseteq 1..Len(p) /\ Gate!RowsOf(q, c) \subseteq 1..Len(q)
  BY DEF Gate!RowsOf
<1>2. Gate!RowsOf(p, c) \subseteq Gate!RowsOf(q, c)
  BY DEF Gate!RowsOf, Begins
<1>3. IsFiniteSet(1..Len(q))
  BY FS_Interval
<1>4. IsFiniteSet(Gate!RowsOf(q, c))
  BY <1>1, <1>3, FS_Subset
<1>5. /\ IsFiniteSet(Gate!RowsOf(p, c))
      /\ Cardinality(Gate!RowsOf(p, c)) <= Cardinality(Gate!RowsOf(q, c))
  BY <1>2, <1>4, FS_Subset
<1> QED BY <1>2, <1>4, <1>5, FS_CardinalityType

\* What _category_state makes of rows read earlier.
LEMMA DerivedIsTrue ==
    ASSUME Gated, NEW c \in GateNames, NEW read \in Seq(GateRows), Begins(read, rows)
    PROVE  /\ Gate!Derived(c, read) \in GateStates
           /\ Gate!Derived(c, read).verified <= Cardinality(Gate!RowsOf(rows, c))
           /\ Gate!Derived(c, read).verified = Cardinality(Gate!RowsOf(read, c))
           /\ c \in GateCategories => Gate!Derived(c, read).threshold = threshold[c]
<1> DEFINE own == Gate!RowsOf(read, c)
           recent == Gate!Rolling(own)
           right == Gate!Correct(read, recent)
<1>1. GateTyped
  BY DEF Gated
<1>2. /\ IsFiniteSet(own) /\ Cardinality(own) \in Nat
      /\ Cardinality(own) <= Cardinality(Gate!RowsOf(rows, c))
  <2>1. rows \in Seq(GateRows)
    BY <1>1 DEF GateTyped
  <2> QED BY <2>1, RowsGrow DEF own
<1>3. recent \subseteq own /\ right \subseteq recent
  BY DEF Gate!Rolling, Gate!Correct
<1>4. Cardinality(recent) \in Nat /\ Cardinality(right) \in Nat
  BY <1>2, <1>3, FS_Subset, FS_CardinalityType
<1>5. Gate!Derived(c, read) =
          [verified |-> Cardinality(own), right |-> Cardinality(right), of |-> Cardinality(recent),
           threshold |-> IF c \in GateCategories THEN threshold[c] ELSE config.initial]
  BY GateCounts DEF Gate!Derived
<1>6. (IF c \in GateCategories THEN threshold[c] ELSE config.initial) \in 0..100
  BY <1>1 DEF GateTyped, GateConfigs
<1> HIDE DEF own, recent, right
<1>7. Gate!Derived(c, read) \in GateStates
  BY <1>2, <1>4, <1>5, <1>6 DEF GateStates
<1> QED BY <1>2, <1>5, <1>7 DEF own

LEMMA GatedAtFirst == ASSUME Gate!GateAssumption, Gate!Init PROVE Gated
<1>1. /\ rows = <<>> /\ log = <<>>
      /\ config = [enabled |-> FALSE, initial |-> 95, min |-> 80, minVerified |-> 100]
      /\ threshold = [c \in GateCategories |-> 95]
      /\ state = [c \in GateNames |-> [verified |-> 0, right |-> 0, of |-> 0, threshold |-> 95]]
      /\ at = [t \in Threads |-> "idle"]
      /\ mine = [t \in Threads |-> [category |-> None, rows |-> <<>>, todo |-> {}]]
  BY DEF Gate!Init, Gate!Idle, Gate!Underived, Gate!Names, GateNames
<1>2. GateTyped
  BY <1>1 DEF GateTyped, GateNames, GateStates, GateConfigs
<1>3. Gate!ThresholdsWithinConfig
  BY <1>1 DEF Gate!ThresholdsWithinConfig, GateNames
<1>4. CountedOnce
  <2> SUFFICES ASSUME NEW c \in GateNames PROVE state[c].verified <= Cardinality(Gate!RowsOf(rows, c))
    BY DEF CountedOnce
  <2>1. Cardinality(Gate!RowsOf(rows, c)) \in Nat
    BY <1>2, RowsGrow DEF GateTyped, Begins
  <2> QED BY <1>1, <2>1
<1>5. \A t \in Threads : Begins(mine[t].rows, rows)
  BY <1>1 DEF Begins
<1> QED BY <1>2, <1>3, <1>4, <1>5 DEF Gated

\* A reader's rows are the graph's or none.
LEMMA ReadsBegin ==
    ASSUME Gated, NEW read \in Gate!ReadRows
    PROVE  read \in Seq(GateRows) /\ Begins(read, rows)
<1>1. rows \in Seq(GateRows) /\ (read = rows \/ read = <<>>)
  BY DEF Gated, GateTyped, Gate!ReadRows
<1>2. CASE read = rows
  BY <1>1, <1>2 DEF Begins
<1>3. CASE read = <<>>
  <2>1. Len(rows) \in Nat /\ Len(read) = 0
    BY <1>1, <1>3
  <2> QED BY <1>3, <2>1 DEF Begins
<1> QED BY <1>1, <1>2, <1>3

LEMMA VerifyKeepsGated ==
    ASSUME Gated, NEW c \in GateCategories, NEW ok \in BOOLEAN, Gate!Verify(c, ok)
    PROVE  Gated'
<1>0. GateTyped /\ Gate!ThresholdsWithinConfig /\ CountedOnce /\ \A t \in Threads : Begins(mine[t].rows, rows)
  BY DEF Gated
<1>1. /\ rows' = Append(rows, [category |-> c, correct |-> ok])
      /\ UNCHANGED <<config, threshold, state, log, mine, at>>
  BY DEF Gate!Verify
<1>2. [category |-> c, correct |-> ok] \in GateRows
  BY DEF GateRows
<1>3. GateTyped'
  BY <1>0, <1>1, <1>2 DEF GateTyped
<1>4. rows' \in Seq(GateRows) /\ Begins(rows, rows')
  BY <1>0, <1>1, <1>2 DEF GateTyped, Begins
<1>5. CountedOnce'
  <2> SUFFICES ASSUME NEW d \in GateNames PROVE state[d].verified <= Cardinality(Gate!RowsOf(rows', d))
    BY <1>1 DEF CountedOnce, Gate!RowsOf
  <2>1. /\ Cardinality(Gate!RowsOf(rows, d)) \in Nat /\ Cardinality(Gate!RowsOf(rows', d)) \in Nat
        /\ Cardinality(Gate!RowsOf(rows, d)) <= Cardinality(Gate!RowsOf(rows', d))
    BY <1>0, <1>4, RowsGrow DEF GateTyped
  <2>2. state[d].verified \in Nat /\ state[d].verified <= Cardinality(Gate!RowsOf(rows, d))
    BY <1>0 DEF CountedOnce, GateTyped, GateStates
  <2> QED BY <2>1, <2>2
<1>6. ASSUME NEW t \in Threads PROVE Begins(mine[t].rows, rows)'
  BY <1>0, <1>1, <1>4 DEF Begins, GateTyped
<1>7. Gate!ThresholdsWithinConfig'
  BY <1>0, <1>1 DEF Gate!ThresholdsWithinConfig
<1> QED BY <1>3, <1>5, <1>6, <1>7 DEF Gated

\* Steps that leave the rows, the thresholds and the category states alone.
LEMMA ReadersKeepGated ==
    ASSUME Gated, GateTyped', UNCHANGED <<rows, config, threshold, state>>,
           \A t \in Threads : Begins(mine'[t].rows, rows)
    PROVE  Gated'
<1>1. Gate!ThresholdsWithinConfig' /\ CountedOnce'
  BY DEF Gated, Gate!ThresholdsWithinConfig, CountedOnce, Gate!RowsOf
<1> QED BY <1>1 DEF Gated, Begins

\* enable: one threshold for all categories, and for what their states show.
LEMMA EnableKeepsGated ==
    ASSUME Gate!GateAssumption, Gated, Gate!Enable
    PROVE  Gated' /\ log' = log /\ \A c \in GateCategories : threshold'[c] = config'.initial
<1>0. GateTyped /\ CountedOnce /\ \A t \in Threads : Begins(mine[t].rows, rows)
  BY DEF Gated
<1>1. PICK i \in Thresholds \cup {config.initial}, m \in Thresholds \cup {config.min},
           n \in Minimums \cup {config.minVerified} :
          /\ m <= i
          /\ config' = [enabled |-> TRUE, initial |-> i, min |-> m, minVerified |-> n]
          /\ threshold' = [c \in GateCategories |-> i]
          /\ state' = [c \in GateNames |-> IF c \in GateCategories
                                     THEN [state[c] EXCEPT !.threshold = i] ELSE state[c]]
  BY DEF Gate!Enable, Gate!ConfigOK, Gate!Configure, Gate!Names, GateNames
<1>2. UNCHANGED <<rows, log, at, mine>>
  BY DEF Gate!Enable
<1>3. i \in 0..100 /\ m \in Nat /\ n \in Nat
  <2>1. config.initial \in 0..100 /\ config.min \in Nat /\ config.minVerified \in Nat
    BY <1>0 DEF GateTyped, GateConfigs
  <2>2. Thresholds \subseteq 0..100 /\ Minimums \subseteq Nat
    BY DEF Gate!GateAssumption
  <2>3. i \in 0..100 /\ m \in 0..100 \cup {config.min} /\ n \in Nat
    BY <1>1, <2>1, <2>2
  <2> QED BY <2>1, <2>3
<1>4. \A c \in GateNames : state'[c] \in GateStates /\ state'[c].verified = state[c].verified
  <2> SUFFICES ASSUME NEW c \in GateNames
               PROVE  state'[c] \in GateStates /\ state'[c].verified = state[c].verified
    OBVIOUS
  <2>1. state[c] \in GateStates
    BY <1>0 DEF GateTyped
  <2>2. state'[c] = [state[c] EXCEPT !.threshold = i] \/ state'[c] = state[c]
    BY <1>1
  <2>3. i \in 0..100
    BY <1>3
  <2> QED BY <2>1, <2>2, <2>3 DEF GateStates
<1>5. GateTyped'
  <2>1. state' \in [GateNames -> GateStates]
    BY <1>1, <1>4
  <2>2. config' \in GateConfigs /\ config'.min <= config'.initial
    BY <1>1, <1>3 DEF GateConfigs
  <2> QED BY <1>0, <1>1, <1>2, <1>3, <2>1, <2>2 DEF GateTyped
<1>6. Gate!ThresholdsWithinConfig'
  <2> SUFFICES ASSUME NEW c \in GateCategories
               PROVE  /\ config'.min <= threshold'[c] /\ threshold'[c] <= 100
                      /\ state'[c].threshold = threshold'[c]
    BY DEF Gate!ThresholdsWithinConfig
  <2>1. config'.min = m /\ threshold'[c] = i
    BY <1>1
  <2>2. c \in GateNames /\ state[c] \in GateStates
    BY <1>0 DEF GateTyped, GateNames
  <2>3. state'[c] = [state[c] EXCEPT !.threshold = i]
    BY <1>1, <2>2
  <2>4. state'[c].threshold = i
    BY <2>2, <2>3 DEF GateStates
  <2> QED BY <1>1, <1>3, <2>1, <2>4
<1>7. CountedOnce' /\ \A t \in Threads : Begins(mine[t].rows, rows)'
  BY <1>0, <1>2, <1>4 DEF CountedOnce, Gate!RowsOf, Begins
<1> QED BY <1>1, <1>2, <1>5, <1>6, <1>7 DEF Gated

LEMMA DisableKeepsGated ==
    ASSUME Gated, Gate!Disable
    PROVE  Gated' /\ log' = log /\ threshold' = threshold
<1>0. GateTyped /\ Gate!ThresholdsWithinConfig /\ CountedOnce /\ \A t \in Threads : Begins(mine[t].rows, rows)
  BY DEF Gated
<1>1. config' = [config EXCEPT !.enabled = FALSE] /\ UNCHANGED <<rows, threshold, state, log, at, mine>>
  BY DEF Gate!Disable
<1>2. config' \in GateConfigs /\ config'.min = config.min /\ config'.initial = config.initial
  BY <1>0, <1>1 DEF GateTyped, GateConfigs
<1>3. GateTyped'
  BY <1>0, <1>1, <1>2 DEF GateTyped
<1>4. Gate!ThresholdsWithinConfig' /\ CountedOnce' /\ \A t \in Threads : Begins(mine[t].rows, rows)'
  BY <1>0, <1>1, <1>2 DEF Gate!ThresholdsWithinConfig, CountedOnce, Gate!RowsOf, Begins
<1> QED BY <1>1, <1>3, <1>4 DEF Gated

\* A category state is derived anew, by an evaluation or a status request.
LEMMA DeriveKeepsGated ==
    ASSUME Gate!GateAssumption, Gated, NEW c \in GateNames, NEW read \in Seq(GateRows), Begins(read, rows),
           state' = [state EXCEPT ![c] = Gate!Derived(c, read)],
           UNCHANGED <<rows, config, threshold, log>>,
           at' \in [Threads -> {"idle", "derive", "gate", "status"}],
           mine' \in [Threads -> [category : GateNames, rows : Seq(GateRows), todo : SUBSET GateCategories]],
           \A t \in Threads : Begins(mine'[t].rows, rows)
    PROVE  Gated'
<1>0. GateTyped /\ Gate!ThresholdsWithinConfig /\ CountedOnce
  BY DEF Gated
<1>1. /\ Gate!Derived(c, read) \in GateStates
      /\ Gate!Derived(c, read).verified <= Cardinality(Gate!RowsOf(rows, c))
      /\ c \in GateCategories => Gate!Derived(c, read).threshold = threshold[c]
  BY DerivedIsTrue
<1> DEFINE new == Gate!Derived(c, read)
<1> HIDE DEF new
<1>2. /\ state' = [state EXCEPT ![c] = new] /\ new \in GateStates
      /\ new.verified <= Cardinality(Gate!RowsOf(rows, c))
      /\ c \in GateCategories => new.threshold = threshold[c]
  BY <1>1 DEF new
<1>3. GateTyped'
  BY <1>0, <1>2 DEF GateTyped
<1>4. \A d \in GateNames : state'[d] = IF d = c THEN new ELSE state[d]
  BY <1>0, <1>2 DEF GateTyped
<1>5. CountedOnce'
  BY <1>0, <1>2, <1>4 DEF CountedOnce, Gate!RowsOf
<1>6. Gate!ThresholdsWithinConfig'
  BY <1>0, <1>2, <1>4 DEF Gate!ThresholdsWithinConfig, GateNames
<1> QED BY <1>3, <1>5, <1>6 DEF Gated, Begins

\* Natural numbers have a least one, positions a last one.
LEMMA LeastNatural ==
    ASSUME NEW T \in SUBSET Nat, T # {}
    PROVE  \E x \in T : \A y \in T : x <= y
<1>1. IsWellFoundedOn(OpToRel(<, Nat), Nat)
  BY NatLessThanWellFounded
<1>2. PICK x \in T : \A y \in T : <<y, x>> \notin OpToRel(<, Nat)
  BY <1>1, WFMin, Zenon
<1>3. ASSUME NEW y \in T PROVE x <= y
  <2>1. <<y, x>> \notin OpToRel(<, Nat)
    BY <1>2
  <2>2. ~(y < x)
    BY <2>1 DEF OpToRel
  <2> QED BY <2>2
<1> QED BY <1>3

LEMMA LastPosition ==
    ASSUME NEW n \in Nat, NEW S \in SUBSET (1..n), S # {}
    PROVE  \E last \in S : \A i \in S : i <= last
<1> DEFINE T == {n - i : i \in S}
<1>1. T \in SUBSET Nat
  OBVIOUS
<1>2. T # {}
  <2>1. PICK i \in S : TRUE
    OBVIOUS
  <2>2. n - i \in T
    BY <2>1
  <2> QED BY <2>2
<1>3. PICK x \in T : \A y \in T : x <= y
  BY <1>1, <1>2, LeastNatural
<1>4. PICK last \in S : x = n - last
  BY <1>3
<1>5. ASSUME NEW i \in S PROVE i <= last
  <2>1. n - last <= n - i
    BY <1>3, <1>4
  <2> QED BY <2>1
<1> QED BY <1>5

\* Rows of a category that slip show a wrong one among the recent.
LEMMA SlippingShows ==
    ASSUME Gate!GateAssumption, Gated, NEW c \in GateCategories,
           Gate!Slipping(Gate!Derived(c, rows)), Gate!Derived(c, rows).verified > 0
    PROVE  \E i \in Gate!RowsOf(rows, c) :
               /\ ~rows[i].correct
               /\ Gate!Cardinality({j \in Gate!RowsOf(rows, c) : j >= i}) <= RollingWindow
<1> DEFINE own == Gate!RowsOf(rows, c)
           recent == Gate!Rolling(own)
           right == Gate!Correct(rows, recent)
<1>1. rows \in Seq(GateRows) /\ RollingWindow \in Nat \ {0}
  BY DEF Gated, GateTyped, Gate!GateAssumption
<1>2. Begins(rows, rows)
  BY <1>1 DEF Begins
<1>3. IsFiniteSet(own) /\ Cardinality(own) \in Nat
  BY <1>1, <1>2, RowsGrow
<1>4. /\ recent \subseteq own /\ right \subseteq recent
      /\ \A i \in recent : Gate!Cardinality({j \in own : j >= i}) <= RollingWindow
      /\ \A i \in recent : rows[i].correct => i \in right
  BY DEF Gate!Rolling, Gate!Correct
<1>5. /\ IsFiniteSet(recent) /\ Cardinality(recent) \in Nat /\ Cardinality(right) \in Nat
  BY <1>3, <1>4, FS_Subset, FS_CardinalityType
<1>6. /\ Gate!Derived(c, rows).verified = Cardinality(own)
      /\ Gate!Derived(c, rows).right = Cardinality(right)
      /\ Gate!Derived(c, rows).of = Cardinality(recent)
  BY GateCounts DEF Gate!Derived
<1>7. own # {}
  <2>1. CASE own = {}
    BY <1>6, <2>1, FS_EmptySet
  <2> QED BY <2>1
\* The last row is among the recent.
<1>8. recent # {}
  <2>1. own \subseteq 1..Len(rows) /\ Len(rows) \in Nat
    BY <1>1 DEF Gate!RowsOf
  <2>2. PICK last \in own : \A i \in own : i <= last
    BY <1>7, <2>1, LastPosition
  <2>3. {j \in own : j >= last} = {last}
    BY <2>1, <2>2
  <2>4. Cardinality({last}) = 1
    BY FS_Singleton
  <2>5. Gate!Cardinality({j \in own : j >= last}) <= RollingWindow
    <3> DEFINE later == {j \in own : j >= last}
    <3>1. Cardinality(later) = 1
      BY <2>3, <2>4
    <3> HIDE DEF later
    <3>2. Gate!Cardinality(later) = 1
      BY <3>1, GateCounts
    <3> QED BY <1>1, <3>2 DEF later
  <2>6. last \in recent
    BY <2>2, <2>5 DEF Gate!Rolling
  <2> QED BY <2>6
<1>9. recent # right
  <2>1. Cardinality(recent) # 0
    BY <1>5, <1>8, FS_EmptySet
  <2>2. Cardinality(right) # Cardinality(recent)
    BY <1>5, <1>6, <2>1 DEF Gate!Slipping
  <2> QED BY <2>2
<1>10. PICK i \in recent : i \notin right
  BY <1>4, <1>9
<1> QED BY <1>4, <1>10

\* ExpandThreshold moves one threshold, within the configuration; up only on evidence.
LEMMA ExpandKeepsGated ==
    ASSUME Gate!GateAssumption, Gated, NEW c \in GateCategories, Gate!ExpandThreshold(c)
    PROVE  /\ Gated' /\ log' = log /\ config' = config
           /\ \A d \in GateCategories : threshold'[d] > threshold[d] =>
                 /\ d = c /\ Gate!Slipping(Gate!Derived(c, rows))
                 /\ Gate!Derived(c, rows).verified >= config.minVerified
<1>0. GateTyped /\ Gate!ThresholdsWithinConfig /\ CountedOnce /\ \A t \in Threads : Begins(mine[t].rows, rows)
  BY DEF Gated
<1>1. rows \in Seq(GateRows) /\ c \in GateNames
  BY <1>0 DEF GateTyped, GateNames
<1>2. Begins(rows, rows)
  BY <1>1 DEF Begins
<1> DEFINE s == Gate!Derived(c, rows)
           slips == Gate!Slipping(s)
           new == IF slips THEN IF s.threshold + 5 > 100 THEN 100 ELSE s.threshold + 5
                  ELSE IF s.threshold - 1 < config.min THEN config.min ELSE s.threshold - 1
           shifts == s.verified >= config.minVerified /\ (slips \/ new < s.threshold)
<1>3. /\ s \in GateStates /\ s.threshold = threshold[c]
      /\ s.verified <= Cardinality(Gate!RowsOf(rows, c))
  BY <1>1, <1>2, DerivedIsTrue
<1>4. /\ threshold' = IF shifts THEN [threshold EXCEPT ![c] = new] ELSE threshold
      /\ state' = [state EXCEPT ![c] = IF shifts THEN [s EXCEPT !.threshold = new] ELSE s]
      /\ UNCHANGED <<rows, config, log, at, mine>>
  BY DEF Gate!ExpandThreshold
<1>5. /\ config \in GateConfigs /\ config.min <= config.initial
      /\ config.min \in Nat /\ config.initial \in 0..100
      /\ threshold[c] \in 0..100 /\ config.min <= threshold[c]
  BY <1>0 DEF GateTyped, GateConfigs, Gate!ThresholdsWithinConfig
<1> HIDE DEF s, slips
<1>6. new \in 0..100 /\ config.min <= new /\ (new > threshold[c] => slips)
  BY <1>3, <1>5
<1> DEFINE kept == IF shifts THEN [s EXCEPT !.threshold = new] ELSE s
<1> HIDE DEF new
<1>7. /\ kept \in GateStates /\ kept.threshold = (IF shifts THEN new ELSE threshold[c])
      /\ kept.verified <= Cardinality(Gate!RowsOf(rows, c))
  BY <1>3, <1>6 DEF GateStates
<1>8. state' = [state EXCEPT ![c] = kept]
  BY <1>4
<1> HIDE DEF kept
<1>9. \A d \in GateNames : state'[d] = IF d = c THEN kept ELSE state[d]
  BY <1>0, <1>8 DEF GateTyped
<1>10. \A d \in GateCategories : threshold'[d] = IF d = c /\ shifts THEN new ELSE threshold[d]
  BY <1>0, <1>4 DEF GateTyped
<1>11. GateTyped'
  <2>1. threshold' \in [GateCategories -> 0..100]
    BY <1>0, <1>4, <1>6 DEF GateTyped
  <2>2. state' \in [GateNames -> GateStates]
    BY <1>0, <1>7, <1>8 DEF GateTyped
  <2> QED BY <1>0, <1>4, <2>1, <2>2 DEF GateTyped
<1>12. Gate!ThresholdsWithinConfig'
  <2> SUFFICES ASSUME NEW d \in GateCategories
               PROVE  /\ config'.min <= threshold'[d] /\ threshold'[d] <= 100
                      /\ state'[d].threshold = threshold'[d]
    BY DEF Gate!ThresholdsWithinConfig
  <2>1. CASE d = c
    <3>1. threshold'[c] = (IF shifts THEN new ELSE threshold[c])
      BY <1>10
    <3>2. state'[c].threshold = threshold'[c]
      BY <1>1, <1>7, <1>9, <3>1
    <3>3. config'.min <= threshold'[c] /\ threshold'[c] <= 100
      BY <1>4, <1>5, <1>6, <3>1
    <3> QED BY <2>1, <3>2, <3>3
  <2>2. CASE d # c
    BY <1>0, <1>4, <1>9, <1>10, <2>2 DEF Gate!ThresholdsWithinConfig, GateNames
  <2> QED BY <2>1, <2>2
<1>13. CountedOnce' /\ \A t \in Threads : Begins(mine[t].rows, rows)'
  BY <1>0, <1>4, <1>7, <1>9 DEF CountedOnce, Gate!RowsOf, Begins
<1>14. ASSUME NEW d \in GateCategories, threshold'[d] > threshold[d]
       PROVE  d = c /\ slips /\ s.verified >= config.minVerified
  <2>1. threshold[d] \in 0..100
    BY <1>0 DEF GateTyped
  <2>2. d = c /\ shifts
    BY <1>10, <1>14, <2>1
  <2>3. new > threshold[c]
    BY <1>10, <1>14, <2>2
  <2> QED BY <1>6, <2>2, <2>3
<1> QED BY <1>4, <1>11, <1>12, <1>13, <1>14 DEF Gated, s, slips

\* What the event log keeps ends with what was appended.
LEMMA LogEnds ==
    ASSUME Gate!GateAssumption, NEW S, NEW s \in Seq(S), NEW e \in S
    PROVE  LET kept == Gate!LastOf(Append(s, e), MaxEvents)
           IN kept \in Seq(S) /\ Len(kept) \in 1..MaxEvents /\ Gate!Last(kept) = e
<1> DEFINE all == Append(s, e)
           first == IF Len(all) > MaxEvents THEN Len(all) - MaxEvents + 1 ELSE 1
           kept == SubSeq(all, first, Len(all))
<1>1. MaxEvents \in Nat \ {0}
  BY DEF Gate!GateAssumption
<1>2. all \in Seq(S) /\ Len(all) = Len(s) + 1 /\ all[Len(all)] = e /\ Len(s) \in Nat
  OBVIOUS
<1> HIDE DEF all
<1>3. first \in 1..Len(all) /\ Len(all) - first + 1 \in 1..MaxEvents
  BY <1>1, <1>2
<1> HIDE DEF first
<1>4. kept \in Seq(S) /\ Len(kept) = Len(all) - first + 1
  BY <1>2, <1>3
<1>5. kept[Len(kept)] = all[first + Len(kept) - 1]
  BY <1>2, <1>3, <1>4
<1>6. kept[Len(kept)] = e
  BY <1>2, <1>3, <1>4, <1>5
<1> QED BY <1>3, <1>4, <1>6 DEF Gate!LastOf, Gate!Last, first, all

\* What is recorded as an approval has passed every check.
LEMMA GatePasses ==
    ASSUME NEW c, NEW s, NEW green, NEW confidence, NEW action, NEW spot,
           Gate!Gate(c, s, green, confidence, action, spot) = "would_auto_approve"
    PROVE  /\ c \in GateCategories /\ config.enabled /\ ~Gate!NoveltyActive(c)
           /\ ~(s.verified < config.minVerified) /\ ~(confidence < s.threshold)
BY DEF Gate!Gate

EarnedApproval(e) ==
    e.gate = "would_auto_approve" =>
        /\ config.enabled /\ e.category \in GateCategories
        /\ Gate!Cardinality(Gate!RowsOf(rows, e.category)) >= config.minVerified
        /\ e.confidence >= threshold[e.category] /\ ~Gate!NoveltyActive(e.category)

LEMMA EvaluateKeepsGated ==
    ASSUME Gate!GateAssumption, Gated, NEW t \in Threads, Gate!EvaluateGate(t)
    PROVE  /\ Gated' /\ threshold' = threshold
           /\ EarnedApproval(Gate!Last(log'))
<1>0. /\ GateTyped /\ Gate!ThresholdsWithinConfig /\ CountedOnce
      /\ (\A u \in Threads : Begins(mine[u].rows, rows)) /\ Confidences \subseteq 0..100
  BY DEF Gated, Gate!GateAssumption
<1> DEFINE c == mine[t].category
           s == state[c]
<1>1. PICK confidence \in Confidences, green \in BOOLEAN, action \in BOOLEAN, spot \in BOOLEAN :
         Gate!RecordEvent([category |-> c, confidence |-> confidence,
                           gate |-> Gate!Gate(c, s, green, confidence, action, spot)])
  BY DEF Gate!EvaluateGate
<1> DEFINE e == [category |-> c, confidence |-> confidence,
                 gate |-> Gate!Gate(c, s, green, confidence, action, spot)]
<1>2. /\ log' = Gate!LastOf(Append(log, e), MaxEvents)
      /\ at' = [at EXCEPT ![t] = "idle"] /\ mine' = [mine EXCEPT ![t] = Gate!Idle]
      /\ UNCHANGED <<rows, config, threshold, state>>
  BY <1>1 DEF Gate!RecordEvent, Gate!EvaluateGate
<1>3. c \in GateNames /\ s \in GateStates
  BY <1>0 DEF GateTyped
<1>4. Gate!Gate(c, s, green, confidence, action, spot) \in GateVerdicts
  BY DEF Gate!Gate, GateVerdicts
<1>5. e \in GateEvents
  BY <1>1, <1>3, <1>4 DEF GateEvents
<1>6. log' \in Seq(GateEvents) /\ Gate!Last(log') = e
  BY <1>0, <1>2, <1>5, LogEnds DEF GateTyped
<1>7. /\ Gate!Idle \in [category : GateNames, rows : Seq(GateRows), todo : SUBSET GateCategories]
      /\ Gate!Idle.rows = <<>>
  BY DEF Gate!Idle, GateNames
<1>8. GateTyped'
  BY <1>0, <1>2, <1>6, <1>7 DEF GateTyped
<1>9. ASSUME NEW u \in Threads PROVE Begins(mine'[u].rows, rows)
  <2>1. mine'[u] = IF u = t THEN Gate!Idle ELSE mine[u]
    BY <1>0, <1>2 DEF GateTyped
  <2>2. Begins(<<>>, rows)
    BY <1>0 DEF GateTyped, Begins
  <2> QED BY <1>0, <1>7, <2>1, <2>2
<1>10. Gated'
  BY <1>2, <1>8, <1>9, ReadersKeepGated
<1>11. EarnedApproval(e)
  <2> SUFFICES ASSUME e.gate = "would_auto_approve"
               PROVE  /\ config.enabled /\ e.category \in GateCategories
                      /\ Gate!Cardinality(Gate!RowsOf(rows, e.category)) >= config.minVerified
                      /\ e.confidence >= threshold[e.category] /\ ~Gate!NoveltyActive(e.category)
    BY DEF EarnedApproval
  <2>1. /\ c \in GateCategories /\ config.enabled /\ ~Gate!NoveltyActive(c)
        /\ ~(s.verified < config.minVerified) /\ ~(confidence < s.threshold)
    BY GatePasses
  <2>2. /\ s.verified \in Nat /\ config.minVerified \in Nat /\ s.threshold = threshold[c]
        /\ threshold[c] \in 0..100 /\ confidence \in 0..100
    BY <1>0, <1>1, <1>3, <2>1 DEF GateTyped, GateStates, GateConfigs, Gate!ThresholdsWithinConfig
  <2>3. s.verified <= Cardinality(Gate!RowsOf(rows, c)) /\ Cardinality(Gate!RowsOf(rows, c)) \in Nat
    BY <1>0, <1>3, RowsGrow DEF CountedOnce, GateTyped, Begins
  <2>4. Gate!Cardinality(Gate!RowsOf(rows, c)) >= config.minVerified /\ confidence >= threshold[c]
    BY <2>1, <2>2, <2>3, GateCounts
  <2>5. e.category = c /\ e.confidence = confidence
    OBVIOUS
  <2> HIDE DEF c, s, e
  <2> QED BY <2>1, <2>4, <2>5
<1> QED BY <1>2, <1>6, <1>10, <1>11

LEMMA StartsKeepGated ==
    ASSUME Gate!GateAssumption, Gated, NEW t \in Threads,
           (\E c \in GateNames : Gate!EvaluateBegin(t, c)) \/ Gate!StatusBegin(t)
    PROVE  Gated' /\ log' = log /\ threshold' = threshold
<1>0. GateTyped /\ \A u \in Threads : Begins(mine[u].rows, rows)
  BY DEF Gated
<1>1. PICK m : /\ m \in [category : GateNames, rows : Seq(GateRows), todo : SUBSET GateCategories]
               /\ Begins(m.rows, rows) /\ mine' = [mine EXCEPT ![t] = m]
               /\ at' \in [Threads -> {"idle", "derive", "gate", "status"}]
  <2>1. CASE \E c \in GateNames : Gate!EvaluateBegin(t, c)
    <3>1. PICK c \in GateNames, read \in Gate!ReadRows :
             /\ mine' = [mine EXCEPT ![t] = [Gate!Idle EXCEPT !.category = c, !.rows = read]]
             /\ at' = [at EXCEPT ![t] = "derive"]
      BY <2>1 DEF Gate!EvaluateBegin
    <3> DEFINE new == [Gate!Idle EXCEPT !.category = c, !.rows = read]
    <3>2. read \in Seq(GateRows) /\ Begins(read, rows)
      BY ReadsBegin
    <3>3. new \in [category : GateNames, rows : Seq(GateRows), todo : SUBSET GateCategories]
      BY <3>2 DEF Gate!Idle, GateNames
    <3>4. new.rows = read
      BY DEF Gate!Idle
    <3> HIDE DEF new
    <3>5. mine' = [mine EXCEPT ![t] = new]
      BY <3>1 DEF new
    <3> QED BY <1>0, <3>1, <3>2, <3>3, <3>4, <3>5 DEF GateTyped
  <2>2. CASE Gate!StatusBegin(t)
    <3>1. PICK read \in Gate!ReadRows :
             /\ mine' = [mine EXCEPT ![t] = [Gate!Idle EXCEPT !.rows = read, !.todo = GateCategories]]
             /\ at' = [at EXCEPT ![t] = "status"]
      BY <2>2 DEF Gate!StatusBegin
    <3> DEFINE new == [Gate!Idle EXCEPT !.rows = read, !.todo = GateCategories]
    <3>2. read \in Seq(GateRows) /\ Begins(read, rows)
      BY ReadsBegin
    <3>3. new \in [category : GateNames, rows : Seq(GateRows), todo : SUBSET GateCategories]
      BY <3>2 DEF Gate!Idle, GateNames
    <3>4. new.rows = read
      BY DEF Gate!Idle
    <3> HIDE DEF new
    <3>5. mine' = [mine EXCEPT ![t] = new]
      BY <3>1 DEF new
    <3> QED BY <1>0, <3>1, <3>2, <3>3, <3>4, <3>5 DEF GateTyped
  <2> QED BY <2>1, <2>2
<1>2. UNCHANGED <<rows, config, threshold, state, log>>
  BY DEF Gate!EvaluateBegin, Gate!StatusBegin
<1>3. GateTyped'
  BY <1>0, <1>1, <1>2 DEF GateTyped
<1>4. ASSUME NEW u \in Threads PROVE Begins(mine'[u].rows, rows)
  <2>1. mine'[u] = IF u = t THEN m ELSE mine[u]
    BY <1>0, <1>1 DEF GateTyped
  <2> QED BY <1>0, <1>1, <2>1
<1> QED BY <1>2, <1>3, <1>4, ReadersKeepGated

LEMMA DerivesKeepGated ==
    ASSUME Gate!GateAssumption, Gated, NEW t \in Threads, Gate!EvaluateDerive(t) \/ Gate!StatusDerive(t)
    PROVE  Gated' /\ log' = log /\ threshold' = threshold
<1>0. GateTyped /\ \A u \in Threads : Begins(mine[u].rows, rows)
  BY DEF Gated
<1>1. mine[t] \in [category : GateNames, rows : Seq(GateRows), todo : SUBSET GateCategories]
  BY <1>0 DEF GateTyped
<1>2. CASE Gate!EvaluateDerive(t)
  <2>1. /\ state' = [state EXCEPT ![mine[t].category] = Gate!Derived(mine[t].category, mine[t].rows)]
        /\ at' = [at EXCEPT ![t] = "gate"] /\ UNCHANGED <<rows, config, threshold, log, mine>>
    BY <1>2 DEF Gate!EvaluateDerive
  <2>2. mine[t].category \in GateNames /\ mine[t].rows \in Seq(GateRows) /\ Begins(mine[t].rows, rows)
    BY <1>0, <1>1
  <2>3. /\ at' \in [Threads -> {"idle", "derive", "gate", "status"}]
        /\ mine' \in [Threads -> [category : GateNames, rows : Seq(GateRows), todo : SUBSET GateCategories]]
        /\ \A u \in Threads : Begins(mine'[u].rows, rows)
    BY <1>0, <2>1 DEF GateTyped
  <2>4. Gated'
    BY <2>1, <2>2, <2>3, DeriveKeepsGated
  <2> QED BY <2>1, <2>4
<1>3. CASE Gate!StatusDerive(t)
  <2>1. PICK c \in mine[t].todo :
           /\ state' = [state EXCEPT ![c] = Gate!Derived(c, mine[t].rows)]
           /\ IF mine[t].todo \ {c} = {}
                THEN at' = [at EXCEPT ![t] = "idle"] /\ mine' = [mine EXCEPT ![t] = Gate!Idle]
                ELSE mine' = [mine EXCEPT ![t].todo = mine[t].todo \ {c}] /\ UNCHANGED at
           /\ UNCHANGED <<rows, config, threshold, log>>
    BY <1>3 DEF Gate!StatusDerive
  <2>2. c \in GateNames /\ mine[t].rows \in Seq(GateRows) /\ Begins(mine[t].rows, rows)
    BY <1>0, <1>1 DEF GateNames
  <2>3. Begins(<<>>, rows)
    BY <1>0 DEF GateTyped, Begins
  <2>4. PICK m : /\ m \in [category : GateNames, rows : Seq(GateRows), todo : SUBSET GateCategories]
                 /\ Begins(m.rows, rows) /\ mine' = [mine EXCEPT ![t] = m]
    <3>1. CASE mine[t].todo \ {c} = {}
      <4>1. /\ Gate!Idle \in [category : GateNames, rows : Seq(GateRows), todo : SUBSET GateCategories]
            /\ Gate!Idle.rows = <<>>
        BY DEF Gate!Idle, GateNames
      <4> QED BY <2>1, <2>3, <3>1, <4>1
    <3>2. CASE mine[t].todo \ {c} # {}
      <4> DEFINE m == [mine[t] EXCEPT !.todo = mine[t].todo \ {c}]
      <4>1. m \in [category : GateNames, rows : Seq(GateRows), todo : SUBSET GateCategories] /\ m.rows = mine[t].rows
        BY <1>1
      <4>2. mine' = [mine EXCEPT ![t] = m]
        BY <2>1, <3>2
      <4> QED BY <2>2, <4>1, <4>2
    <3> QED BY <3>1, <3>2
  <2>5. at' \in [Threads -> {"idle", "derive", "gate", "status"}]
    BY <1>0, <2>1 DEF GateTyped
  <2>6. mine' \in [Threads -> [category : GateNames, rows : Seq(GateRows), todo : SUBSET GateCategories]]
    BY <1>0, <2>4 DEF GateTyped
  <2>7. ASSUME NEW u \in Threads PROVE Begins(mine'[u].rows, rows)
    <3>1. mine'[u] = IF u = t THEN m ELSE mine[u]
      BY <1>0, <2>4 DEF GateTyped
    <3> QED BY <1>0, <2>4, <3>1
  <2>8. Gated'
    BY <2>1, <2>2, <2>5, <2>6, <2>7, DeriveKeepsGated
  <2> QED BY <2>1, <2>8
<1> QED BY <1>2, <1>3

\* What a step of the gate adds to the log is earned, and what it tightens shown.
Tightened(c) ==
    /\ threshold'[c] > threshold[c]
    /\ config.minVerified > 0
    /\ \E d \in GateCategories : threshold'[d] # config'.initial
LEMMA GatedStep ==
    ASSUME Gate!GateAssumption, Gated, Gate!Next
    PROVE  /\ Gated'
           /\ log' # log => EarnedApproval(Gate!Last(log'))
           /\ \A c \in GateCategories : Tightened(c) =>
                 \E i \in Gate!RowsOf(rows, c) :
                     /\ ~rows[i].correct
                     /\ Gate!Cardinality({j \in Gate!RowsOf(rows, c) : j >= i}) <= RollingWindow
<1>0. GateTyped
  BY DEF Gated
<1>1. \A c \in GateCategories : threshold[c] \in 0..100
  BY <1>0 DEF GateTyped
<1>2. ASSUME NEW c \in GateCategories, threshold' = threshold PROVE ~Tightened(c)
  BY <1>1, <1>2 DEF Tightened
<1>3. CASE \E c \in GateCategories : Gate!ExpandThreshold(c)
  <2>1. PICK c \in GateCategories : Gate!ExpandThreshold(c)
    BY <1>3
  <2>2. /\ Gated' /\ log' = log /\ config' = config
        /\ \A d \in GateCategories : threshold'[d] > threshold[d] =>
              /\ d = c /\ Gate!Slipping(Gate!Derived(c, rows))
              /\ Gate!Derived(c, rows).verified >= config.minVerified
    BY <2>1, ExpandKeepsGated
  <2>3. ASSUME NEW d \in GateCategories, Tightened(d)
        PROVE  \E i \in Gate!RowsOf(rows, d) :
                     /\ ~rows[i].correct
                     /\ Gate!Cardinality({j \in Gate!RowsOf(rows, d) : j >= i}) <= RollingWindow
    <3>1. /\ d = c /\ Gate!Slipping(Gate!Derived(c, rows))
          /\ Gate!Derived(c, rows).verified >= config.minVerified /\ config.minVerified > 0
      BY <2>2, <2>3 DEF Tightened
    <3>2. config.minVerified \in Nat /\ Gate!Derived(c, rows).verified \in Nat
      <4>1. rows \in Seq(GateRows) /\ c \in GateNames
        BY <1>0 DEF GateTyped, GateNames
      <4>2. Begins(rows, rows)
        BY <4>1 DEF Begins
      <4>3. Gate!Derived(c, rows) \in GateStates
        BY <4>1, <4>2, DerivedIsTrue
      <4> QED BY <1>0, <4>3 DEF GateTyped, GateConfigs, GateStates
    <3>3. Gate!Derived(c, rows).verified > 0
      BY <3>1, <3>2
    <3> QED BY <3>1, <3>3, SlippingShows
  <2> QED BY <2>2, <2>3
<1>4. CASE \E c \in GateCategories, b \in BOOLEAN : Gate!Verify(c, b)
  <2>1. log' = log /\ threshold' = threshold
    BY <1>4 DEF Gate!Verify
  <2> QED BY <1>2, <1>4, <2>1, VerifyKeepsGated
<1>5. CASE \E c \in GateCategories, b \in BOOLEAN : Gate!Observe(c, b)
  <2>1. UNCHANGED <<rows, config, threshold, state, log, at, mine>>
    BY <1>5 DEF Gate!Observe
  <2>2. GateTyped' /\ \A t \in Threads : Begins(mine'[t].rows, rows)
    BY <1>0, <2>1 DEF GateTyped, Gated
  <2> QED BY <1>2, <2>1, <2>2, ReadersKeepGated
<1>6. CASE Gate!Enable
  <2>1. Gated' /\ log' = log /\ \A c \in GateCategories : threshold'[c] = config'.initial
    BY <1>6, EnableKeepsGated
  <2> QED BY <2>1 DEF Tightened
<1>7. CASE Gate!Disable
  BY <1>2, <1>7, DisableKeepsGated
<1>8. CASE \E t \in Threads : \/ \E c \in GateNames : Gate!EvaluateBegin(t, c)
                              \/ Gate!StatusBegin(t)
  BY <1>2, <1>8, StartsKeepGated
<1>9. CASE \E t \in Threads : Gate!EvaluateDerive(t) \/ Gate!StatusDerive(t)
  BY <1>2, <1>9, DerivesKeepGated
<1>10. CASE \E t \in Threads : Gate!EvaluateGate(t)
  BY <1>2, <1>10, EvaluateKeepsGated
<1>11. Viewers \subseteq Threads
  BY DEF Gate!GateAssumption
<1> QED
  BY <1>3, <1>4, <1>5, <1>6, <1>7, <1>8, <1>9, <1>10, <1>11, Zenon DEF Gate!Next, Gate!Names, GateNames

LEMMA GatedStutters == ASSUME Gated, UNCHANGED Gate!gateVars PROVE Gated'
<1>1. UNCHANGED <<rows, config, threshold, state, log, at, mine>>
  BY DEF Gate!gateVars
<1> QED BY <1>1 DEF Gated, GateTyped, Gate!ThresholdsWithinConfig, CountedOnce, Begins, Gate!RowsOf

\* Whatever sequence of enables, disables and adjustments, with any number of
\* evaluations and status requests between them: a threshold stays within the
\* configuration, the category states show the threshold used, and it is tightened only
\* when a recent verified decision of the category was wrong.
THEOREM ThresholdsStaySound ==
    ASSUME Gate!GateAssumption
    PROVE  Spec => ThresholdsAreSound
<1>1. Gate!Init => Gated
  BY GatedAtFirst
<1>2. Gated /\ [Gate!Next]_(Gate!gateVars) => Gated'
  BY GatedStep, GatedStutters
<1>3. Gated => Gate!ThresholdsWithinConfig
  BY DEF Gated
<1>4. Gated /\ [Gate!Next]_(Gate!gateVars) =>
          [\A c \in GateCategories :
              /\ threshold'[c] > threshold[c]
              /\ config.minVerified > 0
              /\ \E d \in GateCategories : threshold'[d] # config'.initial
              => \E i \in Gate!RowsOf(rows, c) :
                    /\ ~rows[i].correct
                    /\ Gate!Cardinality({j \in Gate!RowsOf(rows, c) : j >= i}) <= RollingWindow]_(Gate!gateVars)
  BY GatedStep DEF Tightened
<1> QED BY <1>1, <1>2, <1>3, <1>4, EachAlone, PTL
    DEF ThresholdsAreSound, Gate!ThresholdsAreSound, Gate!TighteningIsEvidenced, Gate!Spec

\* An approval is recorded only of a category of the domain, while the gate is enabled,
\* on enough verified decisions that the graph really holds, and with little novelty,
\* whatever a status request does to the counts between an evaluation's read and its
\* verdict.
THEOREM ApprovalsStayEarned ==
    ASSUME Gate!GateAssumption
    PROVE  Spec => ApprovalsAreEarned
<1>1. Gate!Init => Gated
  BY GatedAtFirst
<1>2. Gated /\ [Gate!Next]_(Gate!gateVars) => Gated'
  BY GatedStep, GatedStutters
<1>3. Gated /\ [Gate!Next]_(Gate!gateVars) =>
          [LET e == Gate!Last(log')
           IN log' # log /\ e.gate = "would_auto_approve" =>
                /\ config.enabled /\ e.category \in GateCategories
                /\ Gate!Cardinality(Gate!RowsOf(rows, e.category)) >= config.minVerified
                /\ e.confidence >= threshold[e.category] /\ ~Gate!NoveltyActive(e.category)]_(Gate!gateVars)
  BY GatedStep DEF EarnedApproval
<1> QED BY <1>1, <1>2, <1>3, EachAlone, PTL
    DEF ApprovalsAreEarned, Gate!ApprovalsAreEarned, Gate!Spec

-----------------------------------------------------------------------------
(* The demonstration's client *)

Planned == Preseed!All
Asks == Preseed!Requests
Planting3 == {"warm", "post", "cohort"}
BeforePost == {"warm", "extinction", "drain", "fresh", "freeze"}
Score(e) == <<"score", e>>
Lesson(e) == <<"learn", e>>
\* A request that has committed, or may still commit.
Made(r) == done[r] + young[r] + old[r]
\* What the run under way may still score, or learn, on the inventory it has.
MayScore(e) ==
    e \notin known /\ ((e \in todo /\ act \in Planting3) \/ (e \in Events["post"] /\ act \in BeforePost))
MayLearn(e) ==
    \/ item = e \/ (e \in todo /\ act = "drain")
    \/ e \notin confirmed /\ ((e \in todo /\ act \in {"warm", "post"}) \/ (e \in Events["post"] /\ act \in BeforePost))

ServerTyped ==
    /\ done \in [Asks -> Nat] /\ young \in [Asks -> Nat] /\ old \in [Asks -> Nat] /\ missed \in [Asks -> Nat]
ClientTyped ==
    /\ todo \subseteq Planned /\ known \subseteq Planned /\ confirmed \subseteq known
    /\ baselined \in BOOLEAN /\ failed \in BOOLEAN
\* A phase is at its own events; the report belongs to the end of the run.
ClientIsAt ==
    /\ todo # {} => /\ act \in Planting3 \cup {"drain"}
                    /\ todo \subseteq Events[IF act = "drain" THEN "warm" ELSE act]
    /\ item # "none" => act \in {"warm", "post"} /\ item \in Events[act] \ (todo \cup confirmed)
    /\ act = "post" => baselined
    /\ report = "pending" => act \in {"cohort", "verify", "idle"}
    /\ report = "ready" => act \in {"persist", "idle"}
\* An event is planted before it is learned, after the freeze if it belongs there, and
\* only a person learns one of the cohort.
InOrder(e) ==
    /\ \/ e \in known \/ item = e \/ done[Lesson(e)] > 0 \/ young[Lesson(e)] > 0 \/ old[Lesson(e)] > 0
       \/ (e \in todo /\ act = "drain")
       => done[Score(e)] > 0
    /\ e \in Events["cohort"] => young[Lesson(e)] = 0 /\ old[Lesson(e)] = 0
    /\ e \in Events["post"] /\ Made(Score(e)) > 0 => baselined
\* What was made beyond one was under way when an inventory was read, and what may
\* still be made is not among the rest.
OnceAtMost(e) ==
    /\ old[Score(e)] <= missed[Score(e)] /\ old[Lesson(e)] <= missed[Lesson(e)]
    /\ Made(Score(e)) <= 1 + missed[Score(e)] /\ (MayScore(e) => Made(Score(e)) <= missed[Score(e)])
    /\ done[Score(e)] <= 1 => /\ Made(Lesson(e)) <= 1 + missed[Lesson(e)]
                              /\ MayLearn(e) => Made(Lesson(e)) <= missed[Lesson(e)]
\* Short of a failure each slot of the cohort that was dealt with has a decision,
\* and each one when the cohort is reported ready.
CohortIsThere ==
    /\ report = "pending" /\ ~failed /\ act \in {"cohort", "verify"} =>
          \A e \in Events["cohort"] \ todo : done[Score(e)] > 0
    /\ report = "ready" => \A e \in Events["cohort"] : done[Score(e)] > 0
Demonstrated ==
    /\ ServerTyped /\ ClientTyped /\ ClientIsAt /\ CohortIsThere
    /\ \A e \in Planned : InOrder(e) /\ OnceAtMost(e)

LEMMA EventsArePlanned ==
    ASSUME Preseed!PreseedAssumption
    PROVE  /\ DOMAIN Events = Planting3
           /\ Events["warm"] \subseteq Planned /\ Events["post"] \subseteq Planned /\ Events["cohort"] \subseteq Planned
           /\ Events["warm"] \cap Events["post"] = {} /\ Events["warm"] \cap Events["cohort"] = {}
           /\ Events["post"] \cap Events["cohort"] = {} /\ "none" \notin Planned
           /\ Format \subseteq Events["warm"]
BY DEF Preseed!PreseedAssumption, Planned, Preseed!All, Planting3

LEMMA AsksAreMade ==
    /\ \A e \in Planned : Score(e) \in Asks /\ Lesson(e) \in Asks
    /\ \A e, f : Score(e) # Lesson(f) /\ (Score(e) = Score(f) => e = f) /\ (Lesson(e) = Lesson(f) => e = f)
    /\ \A r \in Asks : \E e \in Planned : r = Score(e) \/ r = Lesson(e)
BY DEF Asks, Preseed!Requests, Planned, Score, Lesson

LEMMA PhasesFollow == Preseed!After("fresh") = "freeze" /\ Preseed!After("review") = "reviewed"
<1> DEFINE o == <<"idle", "warm", "extinction", "drain", "fresh", "freeze", "post", "review", "reviewed",
                  "cohort", "verify", "persist", "idle">>
<1>1. Preseed!Order = o /\ Len(o) = 13
  BY DEF Preseed!Order
<1>2. \A i \in 2..13 : (o[i - 1] = "fresh" <=> i = 6) /\ (o[i - 1] = "review" <=> i = 9)
  OBVIOUS
<1>3. (CHOOSE i \in 2..13 : o[i - 1] = "fresh") = 6
  BY <1>2
<1>4. (CHOOSE i \in 2..13 : o[i - 1] = "review") = 9
  BY <1>2
<1>5. o[6] = "freeze" /\ o[9] = "reviewed"
  OBVIOUS
<1> HIDE DEF o
<1> QED BY <1>1, <1>3, <1>4, <1>5 DEF Preseed!After

LEMMA DemonstratedAtFirst == ASSUME Preseed!PreseedAssumption, Preseed!Init PROVE Demonstrated
<1>1. /\ done = [r \in Asks |-> 0] /\ young = done /\ old = done /\ missed = done /\ "none" \notin Planned
      /\ baselined = FALSE /\ failed = FALSE /\ act = "idle" /\ todo = {} /\ item = "none" /\ known = {}
      /\ confirmed = {} /\ report = "none"
  BY EventsArePlanned DEF Preseed!Init, Asks
<1>2. ASSUME NEW e \in Planned PROVE InOrder(e) /\ OnceAtMost(e)
  <2>1. /\ done[Score(e)] = 0 /\ young[Score(e)] = 0 /\ old[Score(e)] = 0 /\ missed[Score(e)] = 0
        /\ done[Lesson(e)] = 0 /\ young[Lesson(e)] = 0 /\ old[Lesson(e)] = 0 /\ missed[Lesson(e)] = 0
        /\ item # e
    BY <1>1, AsksAreMade
  <2> QED BY <1>1, <2>1 DEF InOrder, OnceAtMost, Made
<1>3. ServerTyped /\ ClientTyped /\ ClientIsAt /\ CohortIsThere
  BY <1>1 DEF ServerTyped, ClientTyped, ClientIsAt, CohortIsThere
<1> QED BY <1>2, <1>3 DEF Demonstrated

\* The script enters a phase.
LEMMA Entered ==
    ASSUME Preseed!PreseedAssumption, NEW p, Preseed!Enter(p)
    PROVE  /\ act' = p /\ item' = "none"
           /\ p \in Planting3 => todo' = Events[p]
           /\ p \notin Planting3 => todo' = {}
BY EventsArePlanned DEF Preseed!Enter

\* What the server keeps of a request, as a number each.
LEMMA ServerCounts ==
    ASSUME ServerTyped, NEW r \in Asks
    PROVE  /\ done[r] \in Nat /\ young[r] \in Nat /\ old[r] \in Nat /\ missed[r] \in Nat /\ Made(r) \in Nat
BY DEF ServerTyped, Made

\* A request is answered, refused or left without an answer: one more of it at most.
LEMMA RequestAdds ==
    ASSUME ServerTyped, NEW r \in Asks,
           Preseed!Answered(r) \/ Preseed!Refused \/ Preseed!LeftAlone(r)
    PROVE  /\ ServerTyped' /\ old' = old /\ missed' = missed /\ done'[r] >= done[r]
           /\ Made(r)' \in {Made(r), Made(r) + 1} /\ (Preseed!Answered(r) => done'[r] > 0)
           /\ \A q \in Asks \ {r} : done'[q] = done[q] /\ young'[q] = young[q]
<1>1. /\ old' = old /\ missed' = missed
      /\ \/ done' = [done EXCEPT ![r] = @ + 1] /\ young' = young
         \/ done' = done /\ young' = young /\ ~Preseed!Answered(r)
         \/ done' = done /\ young' = [young EXCEPT ![r] = @ + 1] /\ ~Preseed!Answered(r)
  <2>1. done' = done => ~Preseed!Answered(r)
    BY DEF ServerTyped, Preseed!Answered, Preseed!Commit
  <2> QED BY <2>1 DEF Preseed!Answered, Preseed!Refused, Preseed!LeftAlone, Preseed!Unanswered, Preseed!Commit,
            Preseed!UnderWay, Preseed!Fates, Preseed!serverVars
<1>2. ServerTyped'
  BY <1>1 DEF ServerTyped
<1>3. \/ done'[r] = done[r] + 1 /\ young'[r] = young[r]
      \/ done'[r] = done[r] /\ young'[r] = young[r] /\ ~Preseed!Answered(r)
      \/ done'[r] = done[r] /\ young'[r] = young[r] + 1 /\ ~Preseed!Answered(r)
  BY <1>1 DEF ServerTyped
<1>4. \A q \in Asks \ {r} : done'[q] = done[q] /\ young'[q] = young[q]
  BY <1>1 DEF ServerTyped
<1> QED BY <1>1, <1>2, <1>3, <1>4, ServerCounts DEF Made

\* An inventory that is read beside requests y under way.
LEMMA InventoryMisses ==
    ASSUME ServerTyped, NEW R \in SUBSET Asks, NEW y \in [Asks -> Nat], done' \in [Asks -> Nat], Preseed!Sees(R, y)
    PROVE  /\ ServerTyped'
           /\ \A r \in Asks : /\ Made(r)' = done'[r] + y[r] + old[r]
                              /\ missed'[r] >= missed[r]
                              /\ old[r] <= missed[r] => old'[r] <= missed'[r]
                              /\ Made(r)' > 0 => done'[r] + y[r] + old[r] > 0
                              /\ young'[r] > 0 \/ old'[r] > 0 <=> y[r] > 0 \/ old[r] > 0
                              /\ r \in R /\ done'[r] = 0 /\ old[r] <= missed[r] => Made(r)' <= missed'[r]
<1> DEFINE over == {r \in R : done'[r] = 0}
<1>1. /\ young' = [r \in Asks |-> IF r \in over THEN 0 ELSE y[r]]
      /\ old' = [r \in Asks |-> IF r \in over THEN old[r] + y[r] ELSE old[r]]
      /\ missed' = [r \in Asks |-> IF r \in over THEN missed[r] + y[r] ELSE missed[r]]
  BY DEF Preseed!Sees, Asks
<1>2. ServerTyped'
  <2>1. \A r \in Asks : y[r] \in Nat /\ old[r] \in Nat /\ missed[r] \in Nat
    BY DEF ServerTyped
  <2> QED BY <1>1, <2>1 DEF ServerTyped
<1>3. ASSUME NEW r \in Asks
      PROVE  /\ y[r] \in Nat /\ old[r] \in Nat /\ missed[r] \in Nat /\ done'[r] \in Nat
             /\ young'[r] = IF r \in over THEN 0 ELSE y[r]
             /\ old'[r] = IF r \in over THEN old[r] + y[r] ELSE old[r]
             /\ missed'[r] = IF r \in over THEN missed[r] + y[r] ELSE missed[r]
  BY <1>1 DEF ServerTyped
<1>4. \A r \in Asks : r \in over <=> r \in R /\ done'[r] = 0
  OBVIOUS
<1> HIDE DEF over
<1> QED BY <1>2, <1>3, <1>4 DEF Made

\* Steps of the script alone, on the inventory it has: whatever it may still do it
\* might have done before.
LEMMA ScriptStep ==
    ASSUME Preseed!PreseedAssumption, Demonstrated,
           UNCHANGED <<done, young, old, missed, known, confirmed>>,
           ClientTyped', ClientIsAt', CohortIsThere', baselined => baselined', item' # "none" => item' \in known \/ item' = item,
           \A e \in Planned : /\ (MayScore(e)' => MayScore(e)) /\ (MayLearn(e)' => MayLearn(e))
                              /\ e \in todo' /\ act' = "drain" => e \in todo /\ act = "drain"
    PROVE  Demonstrated'
<1>1. ASSUME NEW e \in Planned PROVE InOrder(e)' /\ OnceAtMost(e)'
  <2>1. InOrder(e) /\ OnceAtMost(e) /\ e # "none"
    BY EventsArePlanned DEF Demonstrated
  <2>2. Made(Score(e))' = Made(Score(e)) /\ Made(Lesson(e))' = Made(Lesson(e))
    BY DEF Made, Score, Lesson
  <2>3. item' = e => e \in known \/ item = e
    BY <2>1
  <2>4. InOrder(e)'
    BY <2>1, <2>2, <2>3 DEF InOrder, Score, Lesson
  <2>5. OnceAtMost(e)'
    BY <2>1, <2>2 DEF OnceAtMost, Score, Lesson
  <2> QED BY <2>4, <2>5
<1>2. ServerTyped'
  BY DEF Demonstrated, ServerTyped
<1> QED BY <1>1, <1>2 DEF Demonstrated

\* The phases that plant nothing, and the verification of the cohort.
Move ==
    \/ Preseed!Stop \/ Preseed!WarmDone \/ (Preseed!SeedExtinction /\ Preseed!Enter("fresh"))
    \/ Preseed!FinishExtinction
    \/ Preseed!Foreign \/ Preseed!NewIds("fresh") \/ Preseed!NewIds("review") \/ Preseed!Freeze
    \/ Preseed!PostDone \/ (Preseed!CohortBegin /\ failed) \/ Preseed!CohortRefused \/ Preseed!CohortDone
    \/ Preseed!CohortVerify \/ Preseed!Persist

LEMMA MovesKeepDemonstrated == ASSUME Preseed!PreseedAssumption, Demonstrated, Move PROVE Demonstrated'
<1>0. ClientTyped /\ ClientIsAt /\ CohortIsThere
  BY DEF Demonstrated
<1>d. Preseed!SeedExtinction /\ Preseed!Enter("fresh") => UNCHANGED Preseed!serverVars /\ failed' \in {failed, TRUE}
  <2>1. Preseed!Enter("fresh") => act' # "drain"
    BY DEF Preseed!Enter
  <2> QED BY <2>1 DEF Preseed!SeedExtinction
<1>1. UNCHANGED <<done, young, old, missed, known, confirmed>>
  BY <1>d DEF Move, Preseed!Stop, Preseed!WarmDone, Preseed!SeedExtinction, Preseed!FinishExtinction, Preseed!Foreign,
      Preseed!NewIds, Preseed!Freeze, Preseed!PostDone, Preseed!CohortBegin, Preseed!CohortRefused,
      Preseed!CohortDone, Preseed!CohortVerify, Preseed!Persist, Preseed!serverVars
<1>2. baselined' \in BOOLEAN /\ failed' \in BOOLEAN /\ (baselined => baselined')
  <2>1. Preseed!CohortVerify => failed' \in BOOLEAN
    <3>1. (report' = "partial") \in BOOLEAN
      OBVIOUS
    <3> QED BY <1>0, <3>1 DEF Preseed!CohortVerify, ClientTyped
  <2>2. Preseed!FinishExtinction => failed' \in BOOLEAN
    BY <1>0 DEF Preseed!FinishExtinction, ClientTyped
  <2>3. ~Preseed!CohortVerify /\ ~Preseed!FinishExtinction => failed' \in {failed, TRUE}
    BY <1>d DEF Move, Preseed!Stop, Preseed!WarmDone, Preseed!Foreign, Preseed!NewIds, Preseed!Freeze,
      Preseed!PostDone, Preseed!CohortBegin, Preseed!CohortRefused, Preseed!CohortDone, Preseed!Persist
  <2>4. baselined' \in {baselined, TRUE}
    BY DEF Move, Preseed!Stop, Preseed!WarmDone, Preseed!SeedExtinction, Preseed!FinishExtinction, Preseed!Foreign,
      Preseed!NewIds, Preseed!Freeze, Preseed!PostDone, Preseed!CohortBegin, Preseed!CohortRefused,
      Preseed!CohortDone, Preseed!CohortVerify, Preseed!Persist, Preseed!demoVars
  <2> QED BY <1>0, <2>1, <2>2, <2>3, <2>4 DEF ClientTyped
\* Where the script goes from where.
<1>3. /\ \/ act' = "idle" /\ todo' = {} /\ item' = "none" /\ report' = report
         \/ act' = act /\ todo' = todo /\ item' = item /\ failed' = failed /\ report' = report
         \/ act = "freeze" /\ act' = "post" /\ todo' = Events["post"] /\ item' = "none" /\ baselined' /\ report' = report
         \/ /\ act = "cohort" /\ todo = {} /\ act' = "verify" /\ todo' = {} /\ item' = "none"
            /\ failed' = failed /\ report' = report
         \/ /\ act = "verify" /\ todo = {} /\ act' = "persist" /\ todo' = {} /\ item' = "none"
            /\ report' \notin {"pending"} /\ (report' = "ready" => report = "ready" \/ (report = "pending" /\ ~failed))
         \/ /\ act = "reviewed" /\ act' = "persist" /\ todo' = {} /\ item' = "none" /\ report' \notin {"ready", "pending"}
         \/ /\ act' \notin {"post", "cohort", "verify", "warm"} /\ todo' = {} /\ item' = "none" /\ report' = report
            /\ act' \in BeforePost => act \in BeforePost
            /\ act \in {"warm", "extinction", "drain", "fresh", "post", "review"}
  <2>1. CASE Preseed!Stop \/ Preseed!Persist \/ (Preseed!Freeze /\ Preseed!Enter("idle"))
    <3>1. Preseed!Enter("idle") /\ report' = report
      BY <2>1 DEF Preseed!Stop, Preseed!Persist, Preseed!Freeze
    <3> QED BY <3>1, Entered DEF Planting3
  <2>2. CASE \/ Preseed!WarmDone \/ (Preseed!SeedExtinction /\ Preseed!Enter("fresh"))
             \/ Preseed!FinishExtinction \/ Preseed!PostDone
    <3>1. /\ report' = report
          /\ \/ act = "warm" /\ Preseed!Enter("extinction")
             \/ act \in {"extinction", "drain"} /\ Preseed!Enter("fresh")
             \/ act = "post" /\ Preseed!Enter("review")
      BY <2>2 DEF Preseed!WarmDone, Preseed!SeedExtinction, Preseed!FinishExtinction, Preseed!PostDone, Preseed!InPhase
    <3>2. CASE act = "warm" /\ Preseed!Enter("extinction")
      BY <3>1, <3>2, Entered DEF Planting3, BeforePost
    <3>3. CASE act \in {"extinction", "drain"} /\ Preseed!Enter("fresh")
      BY <3>1, <3>3, Entered DEF Planting3, BeforePost
    <3>4. CASE act = "post" /\ Preseed!Enter("review")
      BY <3>1, <3>4, Entered DEF Planting3, BeforePost
    <3> QED BY <3>1, <3>2, <3>3, <3>4
  <2>3. CASE Preseed!NewIds("fresh") \/ Preseed!NewIds("review")
    BY <2>3, Entered, PhasesFollow DEF Preseed!NewIds, Preseed!InPhase, Planting3, BeforePost
  <2>4. CASE Preseed!Freeze /\ ~Preseed!Enter("idle")
    <3>1. Preseed!InPhase("freeze") /\ Preseed!Enter("post") /\ baselined' = TRUE /\ report' = report
      BY <2>4 DEF Preseed!Freeze
    <3> QED BY <3>1, Entered DEF Preseed!InPhase, Planting3
  <2>5. CASE Preseed!CohortDone
    BY <2>5, Entered DEF Preseed!CohortDone, Preseed!InPhase, Planting3
  <2>6. CASE Preseed!Foreign
    BY <2>6 DEF Preseed!Foreign
  <2>7. CASE (Preseed!CohortBegin /\ failed) \/ Preseed!CohortRefused
    <3>1. Preseed!InPhase("reviewed") /\ Preseed!Enter("persist") /\ report' \notin {"ready", "pending"}
      BY <2>7 DEF Preseed!CohortBegin, Preseed!CohortRefused
    <3> QED BY <3>1, Entered DEF Preseed!InPhase, Planting3
  <2>8. CASE Preseed!CohortVerify
    <3>1. Preseed!InPhase("verify") /\ Preseed!Enter("persist")
      BY <2>8 DEF Preseed!CohortVerify
    <3>2. /\ report' \notin {"pending"}
          /\ report' = "ready" => report = "ready" \/ (report = "pending" /\ ~failed)
      BY <2>8 DEF Preseed!CohortVerify
    <3> QED BY <3>1, <3>2, Entered DEF Preseed!InPhase, Planting3
  <2> QED BY <2>1, <2>2, <2>3, <2>4, <2>5, <2>6, <2>7, <2>8 DEF Move
<1>4. ClientTyped'
  BY <1>0, <1>1, <1>2, <1>3, EventsArePlanned DEF ClientTyped
<1>5. ClientIsAt'
  BY <1>0, <1>1, <1>2, <1>3 DEF ClientIsAt, Planting3
<1>6. CohortIsThere'
  <2>1. ASSUME report' = "pending" /\ ~failed' /\ act' \in {"cohort", "verify"}, NEW e \in Events["cohort"] \ todo'
        PROVE  done'[Score(e)] > 0
    BY <1>0, <1>1, <1>3, <2>1 DEF CohortIsThere, ClientIsAt, Score
  <2>2. ASSUME report' = "ready", NEW e \in Events["cohort"] PROVE done'[Score(e)] > 0
    <3>1. report = "ready" \/ (report = "pending" /\ ~failed /\ act = "verify" /\ todo = {})
      BY <1>3, <2>2
    <3> QED BY <1>0, <1>1, <3>1 DEF CohortIsThere, Score
  <2> QED BY <2>1, <2>2 DEF CohortIsThere, Score
<1>7. ASSUME NEW e \in Planned
      PROVE  /\ (MayScore(e)' => MayScore(e)) /\ (MayLearn(e)' => MayLearn(e))
             /\ e \in todo' /\ act' = "drain" => e \in todo /\ act = "drain"
  <2>0. e # "none"
    BY EventsArePlanned
  <2>1. CASE act' \in {"idle", "verify", "persist"} /\ todo' = {} /\ item' = "none"
    BY <2>0, <2>1 DEF MayScore, MayLearn, BeforePost
  <2>2. CASE act' = act /\ todo' = todo /\ item' = item
    BY <1>1, <2>2 DEF MayScore, MayLearn
  <2>3. CASE act = "freeze" /\ act' = "post" /\ todo' = Events["post"] /\ item' = "none"
    BY <1>1, <2>0, <2>3 DEF MayScore, MayLearn, BeforePost
  <2>4. CASE todo' = {} /\ item' = "none" /\ (act' \in BeforePost => act \in BeforePost)
    BY <1>1, <2>0, <2>4 DEF MayScore, MayLearn
  <2> QED BY <1>3, <2>1, <2>2, <2>3, <2>4
<1>8. item' # "none" => item' = item
  BY <1>3
<1> QED BY <1>1, <1>2, <1>4, <1>5, <1>6, <1>7, <1>8, ScriptStep

\* A run begins, or goes on after its review, on an inventory read now.
LEMMA InventoryServes ==
    ASSUME Preseed!PreseedAssumption, Demonstrated, Preseed!ReadInventory,
           UNCHANGED baselined, item' = "none", act' # "drain"
    PROVE  /\ ServerTyped' /\ done' = done /\ \A e \in Planned : InOrder(e)' /\ OnceAtMost(e)'
           /\ known' \subseteq Planned /\ confirmed' \subseteq known'
<1>0. ServerTyped /\ (\A e \in Planned : InOrder(e) /\ OnceAtMost(e)) /\ "none" \notin Planned
  BY EventsArePlanned DEF Demonstrated
<1>1. /\ done' = done /\ Preseed!Sees(Asks, young) /\ known' = {e \in Planned : done[Score(e)] > 0}
      /\ confirmed' \subseteq known'
      /\ \A e \in known' : done[Score(e)] = 1 /\ done[Lesson(e)] > 0 => e \in confirmed'
  <2>1. done' = done /\ Preseed!Sees(Asks, young) /\ confirmed' \in Preseed!ResolvedOf(known')
    BY DEF Preseed!ReadInventory, Asks
  <2>2. known' = {e \in Planned : done[Score(e)] > 0}
    BY DEF Preseed!ReadInventory, Planned, Preseed!Planted, Score
  <2>3. /\ confirmed' \subseteq known'
        /\ \A e \in known' : done[Score(e)] = 1 /\ done[Lesson(e)] > 0 => e \in confirmed'
    BY <2>1 DEF Preseed!ResolvedOf, Preseed!Planted, Preseed!Learned, Score, Lesson
  <2> QED BY <2>1, <2>2, <2>3
<1>2. done \in [Asks -> Nat] /\ young \in [Asks -> Nat] /\ Asks \in SUBSET Asks
  BY <1>0 DEF ServerTyped
<1>3. ServerTyped'
  BY <1>0, <1>1, <1>2, InventoryMisses
<1>4. ASSUME NEW e \in Planned PROVE InOrder(e)' /\ OnceAtMost(e)'
  <2> DEFINE s == Score(e)
             l == Lesson(e)
  <2>0. s \in Asks /\ l \in Asks /\ e # "none" /\ InOrder(e) /\ OnceAtMost(e)
    BY <1>0, AsksAreMade
  <2>1. ASSUME NEW r \in {s, l}
        PROVE  /\ done[r] \in Nat /\ young[r] \in Nat /\ old[r] \in Nat /\ missed[r] \in Nat /\ missed'[r] \in Nat
               /\ old'[r] \in Nat /\ young'[r] \in Nat /\ done'[r] = done[r]
               /\ Made(r)' = done[r] + young[r] + old[r] /\ missed'[r] >= missed[r]
               /\ old[r] <= missed[r] => old'[r] <= missed'[r]
               /\ young'[r] > 0 \/ old'[r] > 0 <=> young[r] > 0 \/ old[r] > 0
               /\ done[r] = 0 /\ old[r] <= missed[r] => Made(r)' <= missed'[r]
    <3>1. r \in Asks
      BY <2>0, <2>1
    <3> QED BY <1>0, <1>1, <1>2, <1>3, <3>1, InventoryMisses, ServerCounts DEF ServerTyped
  <2>2. Made(s)' = Made(s) /\ Made(l)' = Made(l)
    BY <2>1 DEF Made
  <2>3. InOrder(e)'
    <3>1. e \in known' => done[s] > 0
      BY <1>1
    <3>2. young[l] \in Nat /\ old[l] \in Nat
      BY <2>1
    <3>3. e \in Events["cohort"] => young'[l] = 0 /\ old'[l] = 0
      <4>1. e \in Events["cohort"] => ~(young[l] > 0) /\ ~(old[l] > 0)
        BY <2>0, <3>2 DEF InOrder
      <4> QED BY <2>1, <4>1
    <3> QED BY <2>0, <2>1, <2>2, <3>1, <3>3 DEF InOrder
  <2>4. OnceAtMost(e)'
    <3>1. old'[s] <= missed'[s] /\ old'[l] <= missed'[l]
      BY <2>0, <2>1 DEF OnceAtMost
    <3>2. Made(s)' <= 1 + missed'[s] /\ (done'[s] <= 1 => Made(l)' <= 1 + missed'[l])
      <4>1. Made(s)' \in Nat /\ Made(l)' \in Nat
        BY <2>1
      <4> QED BY <2>0, <2>1, <2>2, <4>1 DEF OnceAtMost
    <3>3. ASSUME MayScore(e)' PROVE Made(s)' <= missed'[s]
      <4>1. done[s] = 0
        BY <1>1, <2>1, <3>3 DEF MayScore
      <4> QED BY <2>0, <2>1, <4>1 DEF OnceAtMost
    <3>4. ASSUME MayLearn(e)', done'[s] <= 1 PROVE Made(l)' <= missed'[l]
      <4>1. e \notin confirmed'
        BY <2>0, <3>4 DEF MayLearn
      <4>2. done[l] = 0
        <5>1. CASE done[s] = 0
          BY <2>0, <2>1, <5>1 DEF InOrder
        <5>2. CASE done[s] = 1
          BY <1>1, <2>1, <4>1, <5>2
        <5> QED BY <2>1, <3>4, <5>1, <5>2
      <4> QED BY <2>0, <2>1, <4>2 DEF OnceAtMost
    <3> QED BY <3>1, <3>2, <3>3, <3>4 DEF OnceAtMost
  <2> QED BY <2>3, <2>4
<1> QED BY <1>1, <1>3, <1>4

LEMMA InventoriesKeepDemonstrated ==
    ASSUME Preseed!PreseedAssumption, Demonstrated, Preseed!StartRun \/ (Preseed!CohortBegin /\ ~failed)
    PROVE  Demonstrated'
<1>0. ClientTyped /\ ClientIsAt /\ CohortIsThere
  BY DEF Demonstrated
<1>1. baselined' = baselined /\ Preseed!ReadInventory /\ item' = "none" /\ failed' = FALSE
      /\ \/ act' = "warm" /\ todo' = Events["warm"] /\ report' = "none"
         \/ act' = "cohort" /\ todo' = Events["cohort"] /\ report' = "pending"
  <2>1. CASE Preseed!StartRun
    BY <2>1, Entered DEF Preseed!StartRun, Planting3, Preseed!demoVars
  <2>2. CASE Preseed!CohortBegin /\ ~failed
    <3>1. /\ Preseed!Enter("cohort") /\ report' = "pending" /\ Preseed!ReadInventory /\ failed' = failed /\ baselined' = baselined
      BY <2>2 DEF Preseed!CohortBegin, Preseed!demoVars
    <3> QED BY <1>0, <2>2, <3>1, Entered DEF Planting3, ClientTyped
  <2> QED BY <2>1, <2>2
<1>2. ClientTyped'
  BY <1>0, <1>1, InventoryServes, EventsArePlanned DEF ClientTyped
<1>3. ClientIsAt' /\ CohortIsThere'
  BY <1>1 DEF ClientIsAt, CohortIsThere, Planting3
<1> QED BY <1>1, <1>2, <1>3, InventoryServes DEF Demonstrated

\* The format decisions are listed anew and those that are not resolved are drained.
LEMMA DrainBegins ==
    ASSUME Preseed!PreseedAssumption, Demonstrated, Preseed!SeedExtinction, ~Preseed!Enter("fresh")
    PROVE  Demonstrated'
<1>0. /\ ServerTyped /\ ClientTyped /\ ClientIsAt /\ CohortIsThere /\ (\A e \in Planned : InOrder(e) /\ OnceAtMost(e))
  BY DEF Demonstrated
<1>1. /\ act = "extinction" /\ todo = {} /\ item = "none" /\ act' = "drain" /\ todo' \in Preseed!Pending
      /\ Preseed!Sees({"learn"} \X Format, young)
      /\ UNCHANGED <<item, failed, done, baselined, known, confirmed, report>>
  BY DEF Preseed!SeedExtinction, Preseed!InPhase, Preseed!demoVars
<1>2. \A e \in todo' : e \in Format /\ done[Score(e)] > 0 /\ ~(done[Score(e)] = 1 /\ done[Lesson(e)] > 0)
  BY <1>1 DEF Preseed!Pending, Preseed!ResolvedOf, Preseed!Planted, Preseed!Learned, Score, Lesson
<1>3. /\ done' \in [Asks -> Nat] /\ young \in [Asks -> Nat] /\ {"learn"} \X Format \in SUBSET Asks
      /\ \A e \in Format : Lesson(e) \in {"learn"} \X Format
  BY <1>0, <1>1, EventsArePlanned DEF ServerTyped, Asks, Preseed!Requests, Planned, Lesson
<1>4. ServerTyped'
  BY <1>0, <1>3, <1>1, InventoryMisses
<1>5. ClientTyped'
  BY <1>0, <1>1, <1>2, EventsArePlanned DEF ClientTyped
<1>6. ClientIsAt'
  BY <1>0, <1>1, <1>2, EventsArePlanned DEF ClientIsAt, Planting3
<1>7. CohortIsThere'
  BY <1>0, <1>1 DEF CohortIsThere
<1>8. ASSUME NEW e \in Planned PROVE InOrder(e)' /\ OnceAtMost(e)'
  <2> DEFINE s == Score(e)
             l == Lesson(e)
  <2>0. s \in Asks /\ l \in Asks /\ e # "none" /\ InOrder(e) /\ OnceAtMost(e)
    BY <1>0, EventsArePlanned, AsksAreMade
  <2>1. ASSUME NEW r \in {s, l}
        PROVE  /\ done[r] \in Nat /\ young[r] \in Nat /\ old[r] \in Nat /\ missed[r] \in Nat /\ missed'[r] \in Nat
               /\ old'[r] \in Nat /\ young'[r] \in Nat /\ done'[r] = done[r]
               /\ Made(r)' = done[r] + young[r] + old[r] /\ missed'[r] >= missed[r]
               /\ old[r] <= missed[r] => old'[r] <= missed'[r]
               /\ young'[r] > 0 \/ old'[r] > 0 <=> young[r] > 0 \/ old[r] > 0
               /\ r \in {"learn"} \X Format /\ done[r] = 0 /\ old[r] <= missed[r] => Made(r)' <= missed'[r]
    <3>1. r \in Asks
      BY <2>0, <2>1
    <3> QED BY <1>0, <1>1, <1>3, <1>4, <3>1, InventoryMisses, ServerCounts DEF ServerTyped
  <2>2. Made(s)' = Made(s) /\ Made(l)' = Made(l)
    BY <2>1 DEF Made
  <2>3. InOrder(e)'
    <3>1. e \in todo' /\ act' = "drain" => done[s] > 0
      BY <1>2
    <3>2. young[l] \in Nat /\ old[l] \in Nat
      BY <2>1
    <3>3. e \in Events["cohort"] => young'[l] = 0 /\ old'[l] = 0
      <4>1. e \in Events["cohort"] => ~(young[l] > 0) /\ ~(old[l] > 0)
        BY <2>0, <3>2 DEF InOrder
      <4> QED BY <2>1, <4>1
    <3> QED BY <1>1, <2>0, <2>1, <2>2, <3>1, <3>3 DEF InOrder
  <2>4. OnceAtMost(e)'
    <3>1. old'[s] <= missed'[s] /\ old'[l] <= missed'[l]
      BY <2>0, <2>1 DEF OnceAtMost
    <3>2. Made(s)' <= 1 + missed'[s] /\ (done'[s] <= 1 => Made(l)' <= 1 + missed'[l])
      <4>1. Made(s)' \in Nat /\ Made(l)' \in Nat
        BY <2>1
      <4> QED BY <2>0, <2>1, <2>2, <4>1 DEF OnceAtMost
    <3>3. ASSUME MayScore(e)' PROVE Made(s)' <= missed'[s]
      <4>1. MayScore(e)
        BY <1>1, <3>3 DEF MayScore, BeforePost, Planting3
      <4> QED BY <2>0, <2>1, <2>2, <4>1 DEF OnceAtMost
    <3>4. ASSUME MayLearn(e)', done'[s] <= 1 PROVE Made(l)' <= missed'[l]
      <4>1. CASE e \in todo'
        <5>1. l \in {"learn"} \X Format /\ done[l] = 0
          BY <1>2, <1>3, <2>1, <3>4, <4>1
        <5> QED BY <2>0, <2>1, <5>1 DEF OnceAtMost
      <4>2. CASE e \notin todo'
        <5>1. MayLearn(e)
          BY <1>1, <2>0, <3>4, <4>2 DEF MayLearn, BeforePost
        <5> QED BY <2>0, <2>1, <2>2, <3>4, <5>1 DEF OnceAtMost
      <4> QED BY <4>1, <4>2
    <3> QED BY <3>1, <3>2, <3>3, <3>4 DEF OnceAtMost
  <2> QED BY <2>3, <2>4
<1> QED BY <1>4, <1>5, <1>6, <1>7, <1>8 DEF Demonstrated

\* A request r of one event is made, and the inventory keeps the others: they keep what
\* is known of them.
LEMMA OneEvent ==
    ASSUME Preseed!PreseedAssumption, Demonstrated, NEW e \in Planned,
           ServerTyped', ClientTyped', ClientIsAt', CohortIsThere', baselined' = baselined, confirmed' = confirmed,
           act' = act \/ (act' \notin BeforePost /\ todo' = {}) \/ (act = "drain" /\ act' = "fresh" /\ todo' = {}),
           \A f \in Planned \ {e} :
               /\ \A r \in {Score(f), Lesson(f)} :
                      done'[r] = done[r] /\ young'[r] = young[r] /\ old'[r] = old[r] /\ missed'[r] = missed[r]
               /\ f \in known' <=> f \in known
               /\ f \in todo' => f \in todo
               /\ item' = f => item = f,
           InOrder(e)', OnceAtMost(e)'
    PROVE  Demonstrated'
<1>1. ASSUME NEW f \in Planned \ {e} PROVE InOrder(f)' /\ OnceAtMost(f)'
  <2>1. InOrder(f) /\ OnceAtMost(f)
    BY DEF Demonstrated
  <2>2. (MayScore(f)' => MayScore(f)) /\ (MayLearn(f)' => MayLearn(f))
    BY DEF MayScore, MayLearn, BeforePost
  <2>3. /\ Made(Score(f))' = Made(Score(f)) /\ Made(Lesson(f))' = Made(Lesson(f))
        /\ done'[Score(f)] = done[Score(f)] /\ done'[Lesson(f)] = done[Lesson(f)]
        /\ young'[Lesson(f)] = young[Lesson(f)] /\ old'[Lesson(f)] = old[Lesson(f)]
        /\ old'[Score(f)] = old[Score(f)] /\ missed'[Score(f)] = missed[Score(f)] /\ missed'[Lesson(f)] = missed[Lesson(f)]
    BY DEF Made
  <2>4. f \in todo' /\ act' = "drain" => f \in todo /\ act = "drain"
    OBVIOUS
  <2>5. InOrder(f)'
    BY <2>1, <2>3, <2>4 DEF InOrder
  <2>6. OnceAtMost(f)'
    BY <2>1, <2>2, <2>3 DEF OnceAtMost
  <2> QED BY <2>5, <2>6
<1> QED BY <1>1 DEF Demonstrated

LEMMA ScoreKnownKeepsDemonstrated ==
    ASSUME Preseed!PreseedAssumption, Demonstrated, NEW e \in Planned, Preseed!ScoreKnown(e) \/ Preseed!CohortReuse(e)
    PROVE  Demonstrated'
<1>0. ClientTyped /\ ClientIsAt /\ CohortIsThere /\ InOrder(e) /\ OnceAtMost(e) /\ e # "none"
  BY EventsArePlanned DEF Demonstrated
<1>1. /\ e \in todo /\ e \in known /\ todo' = todo \ {e}
      /\ \/ item' = item /\ act = "cohort"
         \/ act \in {"warm", "post"} /\ item = "none" /\ item' = IF e \in confirmed THEN "none" ELSE e
      /\ UNCHANGED <<done, young, old, missed, baselined, act, known, confirmed, failed, report>>
  BY DEF Preseed!ScoreKnown, Preseed!CohortReuse, Preseed!serverVars, Preseed!demoVars
<1>2. ClientTyped'
  BY <1>0, <1>1 DEF ClientTyped
<1>3. ClientIsAt'
  BY <1>0, <1>1 DEF ClientIsAt, Planting3
<1>4. CohortIsThere'
  BY <1>0, <1>1 DEF CohortIsThere, InOrder
<1>5. ASSUME NEW f \in Planned
      PROVE  /\ (MayScore(f)' => MayScore(f)) /\ (MayLearn(f)' => MayLearn(f))
             /\ f \in todo' /\ act' = "drain" => f \in todo /\ act = "drain"
  <2>1. f # "none"
    BY EventsArePlanned
  <2> QED BY <1>0, <1>1, <2>1 DEF MayScore, MayLearn
<1>6. item' # "none" => item' \in known \/ item' = item
  BY <1>1
<1> QED BY <1>1, <1>2, <1>3, <1>4, <1>5, <1>6, ScriptStep

LEMMA ScoreNewKeepsDemonstrated ==
    ASSUME Preseed!PreseedAssumption, Demonstrated, NEW e \in Planned, Preseed!ScoreNew(e)
    PROVE  Demonstrated'
<1> DEFINE s == Score(e)
           l == Lesson(e)
<1>0. ServerTyped /\ ClientTyped /\ ClientIsAt /\ CohortIsThere /\ InOrder(e) /\ OnceAtMost(e) /\ e # "none"
  BY EventsArePlanned DEF Demonstrated
<1>1. /\ e \in todo /\ e \notin known /\ item = "none" /\ act \in {"warm", "post"} /\ todo' = todo \ {e}
      /\ UNCHANGED <<baselined, act, confirmed, report>>
  BY DEF Preseed!ScoreNew, Preseed!Unplanted, Preseed!demoVars
<1>2. /\ Preseed!Answered(s) \/ Preseed!Refused \/ Preseed!LeftAlone(s)
      /\ \/ Preseed!Answered(s) /\ known' = known \cup {e} /\ item' = e /\ failed' = failed
         \/ known' = known /\ item' = item /\ failed' = TRUE
  BY DEF Preseed!ScoreNew, Score
<1>a. s \in Asks /\ l \in Asks /\ l \in Asks \ {s} /\ \A f \in Planned \ {e} : Score(f) \in Asks \ {s} /\ Lesson(f) \in Asks \ {s}
  BY AsksAreMade
<1>3. /\ ServerTyped' /\ old' = old /\ missed' = missed /\ done'[s] >= done[s]
      /\ Made(s)' \in {Made(s), Made(s) + 1} /\ (item' = e => done'[s] > 0)
      /\ \A q \in Asks \ {s} : done'[q] = done[q] /\ young'[q] = young[q]
  BY <1>0, <1>1, <1>2, <1>a, RequestAdds
<1>4. e \in Events[act] /\ e \notin confirmed /\ (e \in Events["post"] => act = "post" /\ baselined)
  BY <1>0, <1>1, EventsArePlanned DEF ClientTyped, ClientIsAt, Planting3
<1>5. ClientTyped'
  BY <1>0, <1>1, <1>2 DEF ClientTyped
<1>6. ClientIsAt'
  BY <1>0, <1>1, <1>2, <1>4 DEF ClientIsAt, Planting3
<1>7. CohortIsThere'
  <2>1. ASSUME report' = "ready", NEW f \in Events["cohort"] PROVE done'[Score(f)] > 0
    <3>1. done[Score(f)] > 0 /\ f \in Planned
      BY <1>0, <1>1, <2>1, EventsArePlanned DEF CohortIsThere
    <3>2. f # e
      BY <1>1, <1>4, <2>1, EventsArePlanned
    <3> QED BY <1>3, <1>a, <3>1, <3>2
  <2> QED BY <1>1, <2>1 DEF CohortIsThere
<1>8. /\ \A r \in {s, l} : /\ done[r] \in Nat /\ Made(r) \in Nat /\ missed[r] \in Nat /\ done'[r] \in Nat
                           /\ Made(r)' \in Nat /\ young[r] \in Nat /\ old[r] \in Nat
      /\ Made(s) <= missed[s] /\ done'[l] = done[l] /\ young'[l] = young[l] /\ Made(l)' = Made(l)
      /\ done[s] <= 1 => Made(l) <= missed[l]
  <2>1. MayScore(e) /\ MayLearn(e)
    BY <1>0, <1>1, <1>4 DEF MayScore, MayLearn, Planting3
  <2>2. \A r \in {s, l} : /\ done[r] \in Nat /\ Made(r) \in Nat /\ missed[r] \in Nat /\ young[r] \in Nat /\ old[r] \in Nat
                          /\ done'[r] \in Nat /\ young'[r] \in Nat /\ old'[r] \in Nat
    BY <1>0, <1>3, <1>a, ServerCounts DEF ServerTyped
  <2>3. done'[l] = done[l] /\ young'[l] = young[l] /\ Made(l)' = Made(l)
    BY <1>3, <1>a DEF Made
  <2> QED BY <1>0, <2>1, <2>2, <2>3 DEF OnceAtMost, Made
<1>9. InOrder(e)'
  <2>1. \/ e \in known' \/ item' = e \/ done'[l] > 0 \/ young'[l] > 0 \/ old'[l] > 0 => done'[s] > 0
    <3>1. done[s] > 0 => done'[s] > 0
      BY <1>3, <1>8
    <3> QED BY <1>0, <1>1, <1>2, <1>3, <1>8, <3>1 DEF InOrder
  <2>2. act' # "drain"
    BY <1>1
  <2>3. e \notin Events["cohort"]
    BY <1>1, <1>4, EventsArePlanned
  <2> QED BY <1>1, <1>4, <2>1, <2>2, <2>3 DEF InOrder
<1>10. ~MayScore(e)'
  BY <1>1, <1>4 DEF MayScore, BeforePost
<1>11. OnceAtMost(e)'
  BY <1>0, <1>3, <1>8, <1>10 DEF OnceAtMost
<1>12. ASSUME NEW f \in Planned \ {e}
       PROVE  /\ \A r \in {Score(f), Lesson(f)} :
                     done'[r] = done[r] /\ young'[r] = young[r] /\ old'[r] = old[r] /\ missed'[r] = missed[r]
              /\ f \in known' <=> f \in known
              /\ f \in todo' => f \in todo
              /\ item' = f => item = f
  BY <1>1, <1>2, <1>3, <1>a, EventsArePlanned
<1> QED BY <1>1, <1>3, <1>5, <1>6, <1>7, <1>9, <1>11, <1>12, OneEvent

\* An event is learned, in its phase or in the drain.
LEMMA LearnKeepsDemonstrated ==
    ASSUME Preseed!PreseedAssumption, Demonstrated, NEW e \in Planned, NEW ok \in BOOLEAN,
           Preseed!LearnOf(e, ok), UNCHANGED <<baselined, known, confirmed, report>>,
           \/ Preseed!Learn /\ item = e /\ item' = "none" /\ UNCHANGED <<act, todo>>
           \/ /\ act = "drain" /\ e \in todo /\ item' = "none"
              /\ \/ act' = "fresh" /\ todo' = {}
                 \/ act' = act /\ todo' = todo \ {e}
                 \/ act' = act /\ todo' = todo /\ done[Score(e)] > 1
    PROVE  Demonstrated'
<1> DEFINE s == Score(e)
           l == Lesson(e)
<1>0. ServerTyped /\ ClientTyped /\ ClientIsAt /\ CohortIsThere /\ InOrder(e) /\ OnceAtMost(e) /\ e # "none"
  BY EventsArePlanned DEF Demonstrated
<1>a. /\ s \in Asks \ {l} /\ l \in Asks
      /\ \A f \in Planned : Score(f) \in Asks \ {l}
      /\ \A f \in Planned \ {e} : Score(f) \in Asks \ {l} /\ Lesson(f) \in Asks \ {l}
  BY AsksAreMade
<1>1. Preseed!Answered(l) \/ Preseed!Refused \/ Preseed!LeftAlone(l)
  BY DEF Preseed!LearnOf, Lesson
<1>2. /\ ServerTyped' /\ old' = old /\ missed' = missed /\ done'[l] >= done[l]
      /\ Made(l)' \in {Made(l), Made(l) + 1}
      /\ \A q \in Asks \ {l} : done'[q] = done[q] /\ young'[q] = young[q]
  BY <1>0, <1>1, <1>a, RequestAdds
<1>3. e \notin Events["cohort"] /\ MayLearn(e) /\ done[s] > 0
  BY <1>0, EventsArePlanned DEF ClientIsAt, MayLearn, InOrder
<1>4. ClientTyped'
  <2>1. failed' \in BOOLEAN
    BY <1>0 DEF Preseed!LearnOf, ClientTyped
  <2> QED BY <1>0, <2>1 DEF ClientTyped
<1>5. ClientIsAt'
  BY <1>0 DEF ClientIsAt, Planting3
<1>6. CohortIsThere'
  <2>1. \A f \in Events["cohort"] : done'[Score(f)] = done[Score(f)]
    BY <1>2, <1>a, EventsArePlanned
  <2>2. act' \notin {"cohort", "verify"}
    BY <1>0 DEF ClientIsAt
  <2> QED BY <1>0, <2>1, <2>2 DEF CohortIsThere
<1>7. /\ \A r \in {s, l} : /\ done[r] \in Nat /\ Made(r) \in Nat /\ missed[r] \in Nat /\ young[r] \in Nat /\ old[r] \in Nat
      /\ done'[s] = done[s] /\ young'[s] = young[s] /\ Made(s)' = Made(s)
  <2>1. \A r \in {s, l} : /\ done[r] \in Nat /\ Made(r) \in Nat /\ missed[r] \in Nat /\ young[r] \in Nat /\ old[r] \in Nat
    BY <1>0, <1>a, ServerCounts
  <2>2. done'[s] = done[s] /\ young'[s] = young[s]
    BY <1>2, <1>a
  <2> QED BY <1>2, <2>1, <2>2 DEF Made
<1>8. InOrder(e)'
  BY <1>0, <1>3, <1>7 DEF InOrder
<1>9. (MayScore(e)' => MayScore(e)) /\ (done[s] <= 1 => ~MayLearn(e)')
  <2>1. MayScore(e)' => MayScore(e)
    BY DEF MayScore, BeforePost
  <2>2. CASE item = e /\ item' = "none" /\ UNCHANGED <<act, todo>>
    <3>1. act \in {"warm", "post"} /\ e \notin todo /\ e \in Events[act]
      BY <1>0, <2>2 DEF ClientIsAt
    <3> QED BY <1>0, <2>1, <2>2, <3>1, EventsArePlanned DEF MayLearn, BeforePost
  <2>3. CASE act = "drain" /\ e \in todo
    <3>1. e \notin Events["post"]
      BY <1>0, <2>3, EventsArePlanned DEF ClientIsAt
    <3>2. done[s] <= 1 => ~(done[s] > 1)
      BY <1>7
    <3>3. done[s] <= 1 => (act' = "fresh" /\ todo' = {}) \/ (act' = act /\ todo' = todo \ {e})
      BY <1>0, <2>3, <3>2 DEF ClientIsAt
    <3> QED BY <1>0, <2>1, <2>3, <3>1, <3>3 DEF MayLearn, ClientIsAt
  <2> QED BY <2>2, <2>3
<1>10. OnceAtMost(e)'
  BY <1>0, <1>2, <1>3, <1>7, <1>9 DEF OnceAtMost
<1>11. ASSUME NEW f \in Planned \ {e}
       PROVE  /\ \A r \in {Score(f), Lesson(f)} :
                     done'[r] = done[r] /\ young'[r] = young[r] /\ old'[r] = old[r] /\ missed'[r] = missed[r]
              /\ f \in known' <=> f \in known
              /\ f \in todo' => f \in todo
              /\ item' = f => item = f
  BY <1>2, <1>a, EventsArePlanned
<1> QED BY <1>2, <1>4, <1>5, <1>6, <1>8, <1>10, <1>11, OneEvent

LEMMA LearnsKeepDemonstrated ==
    ASSUME Preseed!PreseedAssumption, Demonstrated, Preseed!Learn \/ \E e \in Planned : Preseed!Drain(e)
    PROVE  Demonstrated'
<1>1. CASE Preseed!Learn
  <2>1. item # "none" /\ ClientIsAt
    BY <1>1 DEF Demonstrated, Preseed!Learn
  <2>2. item \in Planned
    BY <2>1, EventsArePlanned DEF ClientIsAt
  <2>3. PICK e \in Planned : e = item
    BY <2>2
  <2>4. PICK ok \in BOOLEAN : Preseed!LearnOf(e, ok)
    BY <1>1, <2>3 DEF Preseed!Learn
  <2>5. UNCHANGED <<baselined, known, confirmed, report, act, todo>> /\ item' = "none"
    BY <1>1 DEF Preseed!Learn, Preseed!demoVars
  <2> QED BY <1>1, <2>3, <2>4, <2>5, LearnKeepsDemonstrated
<1>2. ASSUME NEW e \in Planned, Preseed!Drain(e) PROVE Demonstrated'
  <2>1. act = "drain" /\ e \in todo /\ item = "none" /\ UNCHANGED <<baselined, known, confirmed, report>>
    BY <1>2 DEF Preseed!Drain, Preseed!demoVars, Demonstrated, ClientIsAt
  <2>2. PICK ok \in BOOLEAN :
            /\ Preseed!LearnOf(e, ok)
            /\ \/ Preseed!Enter("fresh")
               \/ todo' = todo \ {e} /\ UNCHANGED <<act, item>>
               \/ done[Score(e)] > 1 /\ UNCHANGED <<act, todo, item>>
    BY <1>2 DEF Preseed!Drain, Preseed!Planted, Score
  <2>3. Preseed!Enter("fresh") => act' = "fresh" /\ todo' = {} /\ item' = "none"
    BY Entered DEF Planting3
  <2> QED BY <2>1, <2>2, <2>3, LearnKeepsDemonstrated
<1> QED BY <1>1, <1>2

\* A request whose answer was lost commits after all.
LEMMA LateKeepsDemonstrated == ASSUME Preseed!PreseedAssumption, Demonstrated, Preseed!CommitLate PROVE Demonstrated'
<1>0. /\ ServerTyped /\ ClientTyped /\ ClientIsAt /\ CohortIsThere
      /\ UNCHANGED <<missed, baselined, act, todo, item, known, confirmed, failed, report>>
  BY DEF Demonstrated, Preseed!CommitLate, Preseed!demoVars
<1>1. PICK r \in Asks :
          /\ done' = [done EXCEPT ![r] = @ + 1]
          /\ \/ young[r] > 0 /\ young' = [young EXCEPT ![r] = @ - 1] /\ old' = old
             \/ old[r] > 0 /\ old' = [old EXCEPT ![r] = @ - 1] /\ young' = young
  BY DEF Preseed!CommitLate, Preseed!Commit, Asks
<1>2. ServerTyped'
  <2>1. young[r] \in Nat /\ old[r] \in Nat /\ done[r] \in Nat
    BY <1>0, ServerCounts
  <2>2. done' \in [Asks -> Nat]
    BY <1>0, <1>1, <2>1 DEF ServerTyped
  <2>3. young' \in [Asks -> Nat]
    BY <1>0, <1>1, <2>1 DEF ServerTyped
  <2>4. old' \in [Asks -> Nat]
    BY <1>0, <1>1, <2>1 DEF ServerTyped
  <2> QED BY <1>0, <2>2, <2>3, <2>4 DEF ServerTyped
<1>3. ASSUME NEW q \in Asks
      PROVE  /\ done[q] \in Nat /\ young[q] \in Nat /\ old[q] \in Nat /\ missed[q] \in Nat
             /\ done'[q] \in Nat /\ young'[q] \in Nat /\ old'[q] \in Nat
             /\ Made(q)' = Made(q) /\ missed'[q] = missed[q] /\ old'[q] <= old[q] /\ young'[q] <= young[q]
             /\ done'[q] >= done[q] /\ (done'[q] > done[q] => young[q] > 0 \/ old[q] > 0)
  <2>1. /\ done[q] \in Nat /\ young[q] \in Nat /\ old[q] \in Nat /\ missed[q] \in Nat
        /\ done'[q] \in Nat /\ young'[q] \in Nat /\ old'[q] \in Nat
    BY <1>0, <1>2 DEF ServerTyped
  <2>2. CASE q # r
    BY <1>0, <1>1, <2>1, <2>2 DEF ServerTyped, Made
  <2>3. CASE q = r
    BY <1>0, <1>1, <2>1, <2>3 DEF ServerTyped, Made
  <2> QED BY <2>1, <2>2, <2>3
<1>4. ClientTyped' /\ ClientIsAt'
  BY <1>0 DEF ClientTyped, ClientIsAt
<1>5. CohortIsThere'
  <2>1. \A e \in Events["cohort"] : done[Score(e)] > 0 => done'[Score(e)] > 0
    BY <1>3, AsksAreMade, EventsArePlanned
  <2> QED BY <1>0, <2>1 DEF CohortIsThere
<1>6. ASSUME NEW e \in Planned PROVE InOrder(e)' /\ OnceAtMost(e)'
  <2>1. InOrder(e) /\ OnceAtMost(e) /\ Score(e) \in Asks /\ Lesson(e) \in Asks
    BY AsksAreMade DEF Demonstrated
  <2>2. (MayScore(e)' <=> MayScore(e)) /\ (MayLearn(e)' <=> MayLearn(e))
    BY <1>0 DEF MayScore, MayLearn
  <2>3. \A q \in {Score(e), Lesson(e)} :
             /\ done[q] \in Nat /\ young[q] \in Nat /\ old[q] \in Nat /\ missed[q] \in Nat
             /\ done'[q] \in Nat /\ young'[q] \in Nat /\ old'[q] \in Nat
             /\ Made(q)' = Made(q) /\ missed'[q] = missed[q] /\ old'[q] <= old[q] /\ young'[q] <= young[q]
             /\ done'[q] >= done[q] /\ (done'[q] > done[q] => young[q] > 0 \/ old[q] > 0)
    BY <1>3, <2>1
  <2>4. InOrder(e)'
    BY <1>0, <2>1, <2>3 DEF InOrder
  <2>5. OnceAtMost(e)'
    BY <2>1, <2>2, <2>3 DEF OnceAtMost, Made
  <2> QED BY <2>4, <2>5
<1> QED BY <1>2, <1>4, <1>5, <1>6 DEF Demonstrated

\* A slot of the cohort is scored, or read back when there is no answer.
LEMMA CohortKeepsDemonstrated ==
    ASSUME Preseed!PreseedAssumption, Demonstrated, NEW e \in Planned, Preseed!CohortScore(e) \/ Preseed!CohortReadback(e)
    PROVE  Demonstrated'
<1> DEFINE s == Score(e)
           l == Lesson(e)
<1>0. ServerTyped /\ ClientTyped /\ ClientIsAt /\ CohortIsThere /\ InOrder(e) /\ OnceAtMost(e) /\ e # "none"
  BY EventsArePlanned DEF Demonstrated
<1>a. /\ s \in Asks /\ l \in Asks \ {s}
      /\ \A f \in Planned \ {e} : Score(f) \in Asks \ {s} /\ Lesson(f) \in Asks \ {s}
  BY AsksAreMade
<1>1. /\ act = "cohort" /\ e \in todo /\ e \notin known /\ UNCHANGED <<baselined, known, confirmed>>
  BY DEF Preseed!CohortScore, Preseed!CohortReadback, Preseed!Unplanted, Preseed!demoVars
<1>2. e \in Events["cohort"] /\ e \notin Events["post"] /\ e \notin Events["warm"] /\ item = "none"
  BY <1>0, <1>1, EventsArePlanned DEF ClientTyped, ClientIsAt
\* What the server did: the request is one more at most, and may be missed.
<1>3. /\ ServerTyped' /\ done'[s] >= done[s] /\ Made(s)' \in {Made(s), Made(s) + 1}
      /\ missed'[s] >= missed[s] /\ (old[s] <= missed[s] => old'[s] <= missed'[s])
      /\ \A q \in Asks \ {s} : done'[q] = done[q] /\ young'[q] = young[q] /\ old'[q] = old[q] /\ missed'[q] = missed[q]
  <2>1. CASE Preseed!Answered(s) \/ Preseed!Refused \/ Preseed!LeftAlone(s)
    BY <1>0, <1>a, <2>1, RequestAdds, ServerCounts
  <2>2. ASSUME NEW fate \in Preseed!Fates, Preseed!Unanswered(s, fate), Preseed!Sees({s}, Preseed!UnderWay(s, fate))
        PROVE  /\ ServerTyped' /\ done'[s] >= done[s] /\ Made(s)' \in {Made(s), Made(s) + 1}
               /\ missed'[s] >= missed[s] /\ (old[s] <= missed[s] => old'[s] <= missed'[s])
               /\ \A q \in Asks \ {s} : done'[q] = done[q] /\ young'[q] = young[q] /\ old'[q] = old[q] /\ missed'[q] = missed[q]
    <3> DEFINE y == Preseed!UnderWay(s, fate)
    <3>1. \/ y = [young EXCEPT ![s] = @ + 1] /\ done' = done
          \/ y = young /\ done' \in {done, [done EXCEPT ![s] = @ + 1]}
      BY <2>2 DEF Preseed!Unanswered, Preseed!Commit, Preseed!UnderWay, Preseed!Fates
    <3>2. /\ done' \in [Asks -> Nat] /\ y \in [Asks -> Nat]
          /\ done'[s] + y[s] \in {done[s] + young[s], done[s] + young[s] + 1} /\ done'[s] >= done[s]
          /\ \A q \in Asks \ {s} : done'[q] = done[q] /\ y[q] = young[q]
      BY <1>0, <1>a, <3>1 DEF ServerTyped
    <3>3. Preseed!Sees({s}, y) /\ {s} \in SUBSET Asks
      BY <1>a, <2>2
    <3> HIDE DEF y
    <3>4. /\ ServerTyped' /\ Made(s)' = done'[s] + y[s] + old[s] /\ missed'[s] >= missed[s]
          /\ old[s] <= missed[s] => old'[s] <= missed'[s]
      BY <1>0, <1>a, <3>2, <3>3, InventoryMisses
    <3>5. \A q \in Asks \ {s} : young'[q] = y[q] /\ old'[q] = old[q] /\ missed'[q] = missed[q]
      BY <3>3 DEF Preseed!Sees, Asks
    <3>6. done[s] \in Nat /\ young[s] \in Nat /\ old[s] \in Nat /\ done'[s] \in Nat /\ y[s] \in Nat
      BY <1>0, <1>a, <3>2, ServerCounts
    <3>7. Made(s)' \in {Made(s), Made(s) + 1}
      BY <3>2, <3>4, <3>6 DEF Made
    <3> QED BY <3>2, <3>4, <3>5, <3>7
  <2>3. ASSUME NEW fate \in Preseed!Fates, Preseed!Unanswered(s, fate), young' = Preseed!UnderWay(s, fate), UNCHANGED <<old, missed>>
        PROVE  Preseed!LeftAlone(s)
    BY <2>3 DEF Preseed!LeftAlone
  <2> QED BY <2>1, <2>2, <2>3 DEF Preseed!CohortScore, Preseed!CohortReadback, Score
<1>4. /\ item' = "none" /\ failed' \in BOOLEAN
      /\ \/ act' = act /\ todo' = todo \ {e} /\ report' = report /\ (~failed' => ~failed /\ done'[s] > 0)
         \/ act' = "verify" /\ todo' = {} /\ report' \notin {"pending", "ready"} /\ failed' = TRUE
  <2>0. done'[s] \in Nat
    BY <1>3, <1>a DEF ServerTyped
  <2>1. CASE Preseed!CohortScore(e)
    <3>1. /\ item' = item /\ act' = act /\ todo' = todo \ {e} /\ report' = report
          /\ \/ Preseed!Answered(s) /\ failed' = failed
             \/ failed' = TRUE
      BY <2>1 DEF Preseed!CohortScore, Score
    <3>2. Preseed!Answered(s) => done'[s] > 0
      BY <1>0, <1>a, RequestAdds
    <3> QED BY <1>0, <1>2, <3>1, <3>2 DEF ClientTyped
  <2>2. CASE Preseed!CohortReadback(e)
    <3>1. \/ Preseed!Enter("verify") /\ report' \in {"ambiguous", "inventory_failed"} /\ failed' = TRUE
          \/ todo' = todo \ {e} /\ failed' = (failed \/ done'[s] = 0) /\ UNCHANGED <<act, item, report>>
      BY <2>2 DEF Preseed!CohortReadback, Score
    <3>2. CASE Preseed!Enter("verify") /\ report' \in {"ambiguous", "inventory_failed"} /\ failed' = TRUE
      BY <3>2, Entered DEF Planting3
    <3>3. CASE todo' = todo \ {e} /\ failed' = (failed \/ done'[s] = 0) /\ UNCHANGED <<act, item, report>>
      <4>1. (failed' = TRUE) \/ (failed' = FALSE /\ ~failed /\ done'[s] # 0)
        BY <1>0, <3>3 DEF ClientTyped
      <4>2. failed' = FALSE => done'[s] > 0
        BY <2>0, <4>1
      <4> QED BY <1>2, <3>3, <4>1, <4>2
    <3> QED BY <3>1, <3>2, <3>3
  <2> QED BY <2>1, <2>2
<1>5. ClientTyped'
  BY <1>0, <1>1, <1>4 DEF ClientTyped
<1>6. ClientIsAt'
  BY <1>0, <1>1, <1>4 DEF ClientIsAt, Planting3
<1>7. CohortIsThere'
  <2>1. ASSUME report' = "pending" /\ ~failed' /\ act' \in {"cohort", "verify"}, NEW f \in Events["cohort"] \ todo'
        PROVE  done'[Score(f)] > 0
    <3>1. report = "pending" /\ ~failed /\ done'[s] > 0 /\ todo' = todo \ {e}
      BY <1>4, <2>1
    <3>2. f = e \/ (f \in Events["cohort"] \ todo /\ f \in Planned /\ f # e)
      BY <2>1, <3>1, EventsArePlanned
    <3>3. f # e => done[Score(f)] > 0
      BY <1>0, <1>1, <3>1, <3>2 DEF CohortIsThere
    <3> QED BY <1>3, <1>a, <3>1, <3>2, <3>3
  <2>2. report' # "ready"
    BY <1>0, <1>1, <1>4 DEF ClientIsAt
  <2> QED BY <2>1, <2>2 DEF CohortIsThere
<1>8. /\ \A r \in {s, l} : /\ done[r] \in Nat /\ Made(r) \in Nat /\ missed[r] \in Nat /\ missed'[r] \in Nat /\ young[r] \in Nat
                           /\ old[r] \in Nat /\ done'[r] \in Nat /\ Made(r)' \in Nat
      /\ done'[l] = done[l] /\ young'[l] = young[l] /\ old'[l] = old[l] /\ missed'[l] = missed[l] /\ Made(l)' = Made(l)
      /\ Made(s) <= missed[s]
  <2>1. MayScore(e)
    BY <1>1 DEF MayScore, Planting3
  <2>2. \A r \in {s, l} : /\ done[r] \in Nat /\ Made(r) \in Nat /\ missed[r] \in Nat /\ missed'[r] \in Nat /\ young[r] \in Nat
                          /\ old[r] \in Nat /\ done'[r] \in Nat /\ young'[r] \in Nat /\ old'[r] \in Nat
    BY <1>0, <1>3, <1>a, ServerCounts DEF ServerTyped
  <2>3. done'[l] = done[l] /\ young'[l] = young[l] /\ old'[l] = old[l] /\ missed'[l] = missed[l] /\ Made(l)' = Made(l)
    BY <1>3, <1>a DEF Made
  <2> QED BY <1>0, <2>1, <2>2, <2>3 DEF OnceAtMost, Made
<1>9. InOrder(e)'
  <2>1. act' # "drain" /\ item' # e
    BY <1>0, <1>1, <1>4
  <2> QED BY <1>0, <1>1, <1>2, <1>3, <1>8, <2>1 DEF InOrder
<1>10. ~MayScore(e)' /\ ~MayLearn(e)'
  BY <1>0, <1>1, <1>2, <1>4 DEF MayScore, MayLearn
<1>11. OnceAtMost(e)'
  BY <1>0, <1>3, <1>8, <1>10 DEF OnceAtMost
<1>12. ASSUME NEW f \in Planned \ {e}
       PROVE  /\ \A r \in {Score(f), Lesson(f)} :
                     done'[r] = done[r] /\ young'[r] = young[r] /\ old'[r] = old[r] /\ missed'[r] = missed[r]
              /\ f \in known' <=> f \in known
              /\ f \in todo' => f \in todo
              /\ item' = f => item = f
  BY <1>1, <1>3, <1>4, <1>a, EventsArePlanned
<1>13. act' = act \/ (act' \notin BeforePost /\ todo' = {})
  BY <1>4 DEF BeforePost
<1> QED BY <1>1, <1>3, <1>5, <1>6, <1>7, <1>9, <1>11, <1>12, <1>13, OneEvent

LEMMA TriageKeepsDemonstrated ==
    ASSUME Preseed!PreseedAssumption, Demonstrated, NEW e \in Planned, Preseed!Triage(e)
    PROVE  Demonstrated'
<1> DEFINE s == Score(e)
           l == Lesson(e)
<1>0. ServerTyped /\ ClientTyped /\ ClientIsAt /\ CohortIsThere /\ InOrder(e) /\ OnceAtMost(e) /\ e # "none"
  BY EventsArePlanned DEF Demonstrated
<1>a. /\ l \in Asks /\ s \in Asks \ {l} /\ (\A f \in Planned : Score(f) \in Asks \ {l})
      /\ \A f \in Planned \ {e} : Score(f) \in Asks \ {l} /\ Lesson(f) \in Asks \ {l}
  BY AsksAreMade
<1>1. /\ e \in Events["cohort"] /\ done[s] > 0 /\ done[l] = 0 /\ done' = [done EXCEPT ![l] = @ + 1]
      /\ UNCHANGED <<young, old, missed, baselined, act, todo, item, known, confirmed, failed, report>>
  BY DEF Preseed!Triage, Preseed!demoVars, Preseed!Commit, Preseed!Planted, Preseed!Learned, Score, Lesson
<1>2. /\ ServerTyped' /\ done'[l] = 1 /\ \A q \in Asks \ {l} : done'[q] = done[q]
  BY <1>0, <1>1, <1>a DEF ServerTyped
<1>3. ClientTyped' /\ ClientIsAt'
  BY <1>0, <1>1 DEF ClientTyped, ClientIsAt
<1>4. CohortIsThere'
  <2>1. \A f \in Events["cohort"] : done'[Score(f)] = done[Score(f)]
    BY <1>2, <1>a, EventsArePlanned
  <2> QED BY <1>0, <1>1, <2>1 DEF CohortIsThere
<1>5. e \notin Events["post"] /\ e \notin Events["warm"] /\ young[l] = 0 /\ old[l] = 0
  BY <1>0, <1>1, EventsArePlanned DEF InOrder
<1>6. /\ Made(l)' = 1 /\ Made(s)' = Made(s) /\ done'[s] = done[s] /\ old'[s] = old[s] /\ old'[l] = old[l]
      /\ missed'[s] = missed[s] /\ missed'[l] = missed[l] /\ missed[l] \in Nat
  BY <1>0, <1>1, <1>2, <1>5, <1>a, ServerCounts DEF Made
<1>7. InOrder(e)'
  BY <1>0, <1>1, <1>5, <1>6 DEF InOrder
<1>8. ~MayLearn(e)' /\ (MayScore(e)' <=> MayScore(e))
  BY <1>0, <1>1, <1>5, EventsArePlanned DEF MayLearn, MayScore, ClientIsAt, Planting3
<1>9. OnceAtMost(e)'
  BY <1>0, <1>6, <1>8 DEF OnceAtMost
<1>10. ASSUME NEW f \in Planned \ {e}, NEW r \in {Score(f), Lesson(f)} PROVE done'[r] = done[r]
  BY <1>2, <1>a, <1>10
<1> QED BY <1>1, <1>2, <1>3, <1>4, <1>7, <1>9, <1>10, OneEvent

LEMMA DemonstratedStep ==
    ASSUME Preseed!PreseedAssumption, Demonstrated, Preseed!Next
    PROVE  Demonstrated'
<1>1. CASE Move
  BY <1>1, MovesKeepDemonstrated
<1>2. CASE Preseed!StartRun \/ Preseed!CohortBegin
  BY <1>2, InventoriesKeepDemonstrated, MovesKeepDemonstrated DEF Move
<1>3. CASE Preseed!SeedExtinction
  BY <1>3, DrainBegins, MovesKeepDemonstrated DEF Move
<1>4. CASE Preseed!Learn
  BY <1>4, LearnsKeepDemonstrated
<1>5. CASE Preseed!CommitLate
  BY <1>5, LateKeepsDemonstrated
<1>6. ASSUME NEW e \in Preseed!All,
             \/ Preseed!ScoreKnown(e) \/ Preseed!ScoreNew(e) \/ Preseed!Drain(e) \/ Preseed!CohortReuse(e)
             \/ Preseed!CohortScore(e) \/ Preseed!CohortReadback(e) \/ Preseed!Triage(e)
      PROVE  Demonstrated'
  <2>1. e \in Planned
    BY DEF Planned
  <2> QED BY <1>6, <2>1, ScoreKnownKeepsDemonstrated, ScoreNewKeepsDemonstrated, CohortKeepsDemonstrated,
            TriageKeepsDemonstrated, LearnsKeepDemonstrated
<1> QED BY <1>1, <1>2, <1>3, <1>4, <1>5, <1>6 DEF Preseed!Next, Move

LEMMA DemonstratedStutter == ASSUME Demonstrated, UNCHANGED Preseed!preseedVars PROVE Demonstrated'
<1>1. UNCHANGED <<done, young, old, missed, baselined, act, todo, item, known, confirmed, failed, report>>
  BY DEF Preseed!preseedVars
<1>2. ServerTyped' /\ ClientTyped' /\ ClientIsAt' /\ CohortIsThere'
  BY <1>1 DEF Demonstrated, ServerTyped, ClientTyped, ClientIsAt, CohortIsThere, Score
<1>3. ASSUME NEW e \in Planned PROVE InOrder(e)' /\ OnceAtMost(e)'
  BY <1>1 DEF Demonstrated, InOrder, OnceAtMost, MayScore, MayLearn, Made, Score, Lesson
<1> QED BY <1>2, <1>3 DEF Demonstrated

LEMMA DemonstratedIsSound == ASSUME Preseed!PreseedAssumption, Demonstrated PROVE Preseed!PlantedOnce
<1>1. ASSUME NEW e \in Planned
      PROVE  /\ done[Score(e)] <= 1 + missed[Score(e)]
             /\ done[Score(e)] <= 1 => done[Lesson(e)] <= 1 + missed[Lesson(e)]
  <2>1. \A r \in {Score(e), Lesson(e)} : done[r] \in Nat /\ young[r] \in Nat /\ old[r] \in Nat /\ missed[r] \in Nat
    BY AsksAreMade, ServerCounts DEF Demonstrated
  <2>2. OnceAtMost(e)
    BY DEF Demonstrated
  <2> QED BY <2>1, <2>2 DEF OnceAtMost, Made
<1>2. ASSUME NEW e \in Events["post"], done[Score(e)] > 0 PROVE baselined
  <2>1. e \in Planned /\ Score(e) \in Asks
    BY EventsArePlanned, AsksAreMade
  <2>2. Made(Score(e)) > 0
    BY <1>2, <2>1, ServerCounts DEF Demonstrated, Made
  <2> QED BY <2>1, <2>2 DEF Demonstrated, InOrder
<1>3. report = "ready" => \A e \in Events["cohort"] : done[Score(e)] > 0
  BY DEF Demonstrated, CohortIsThere
<1> QED BY <1>1, <1>2, <1>3 DEF Preseed!PlantedOnce, Preseed!Planted, Preseed!Learned, Planned, Score, Lesson

\* However the demonstration script is interrupted and repeated and whatever answers it
\* does not get, it plants an event once, and once more only for each request that was
\* under way when an inventory was read; so it learns an event that has one decision,
\* although the drain of the format queue learns again what still looks pending; what it
\* plants after the freeze has a baseline; and a cohort reported ready has a decision in
\* each slot.
THEOREM EventsArePlantedOnce ==
    ASSUME Preseed!PreseedAssumption
    PROVE  Spec => []PlantedOnce
<1>1. Preseed!Init => Demonstrated
  BY DemonstratedAtFirst
<1>2. Demonstrated /\ [Preseed!Next]_(Preseed!preseedVars) => Demonstrated'
  BY DemonstratedStep, DemonstratedStutter
<1>3. Demonstrated => PlantedOnce
  BY DemonstratedIsSound DEF PlantedOnce
<1> QED BY <1>1, <1>2, <1>3, EachAlone, PTL DEF Preseed!Spec

-----------------------------------------------------------------------------
(* What is said of a supplier *)

Studies == [phase : {"off", "read", "write"}, dry : BOOLEAN, outcomes : UNION {[D -> [right : BOOLEAN, auto : BOOLEAN, at : Nat]] : D \in SUBSET Purchases},
            all : SUBSET Purchases, todo : SUBSET Ids]
SuppliersTyped ==
    /\ scored \subseteq Purchases /\ IsFiniteSet(scored) /\ DOMAIN outcomes \subseteq scored
    /\ outcomes \in [DOMAIN outcomes -> [right : BOOLEAN, auto : BOOLEAN, at : Nat]]
    /\ verdicts \in Nat /\ events \in [Ids -> Seq(Suppliers!OutcomeEvents)]
    /\ study \in Studies /\ metrics = [s \in Ids |-> metrics[s]]
\* Decisions have come one after the other, so that one is the last.
Ordered == \E n \in Nat : \A d \in scored : Place[d] <= n
\* Outcomes come one after the other.
Timed ==
    \A d, e \in DOMAIN outcomes : outcomes[d].at <= verdicts /\ (outcomes[d].at = outcomes[e].at => d = e)
\* A run has read no outcome that the graph has not, nor one of a decision it has not read.
Studied ==
    /\ DOMAIN study.outcomes \subseteq DOMAIN outcomes /\ study.all \subseteq scored
    /\ study.phase = "write" => DOMAIN study.outcomes \subseteq study.all
\* The metrics are of n outcomes and u decisions without one.
AddUp(ms, n, u) ==
    /\ \A m \in ms :
          /\ Suppliers!IsLearned(m) => m.count = n /\ (m.name \in {"exception_rate", "accuracy", "trend"} => n >= 1)
          /\ m.name = "verified_decisions" => m.value = n
          /\ m.name = "unverified_decisions" => m.value = u
          /\ m.name = "total_decisions" => m.value = n + u
    /\ \A name \in {"verified_decisions", "unverified_decisions", "total_decisions"} : \E m \in ms : m.name = name
Borne(s) == metrics[s] = {} \/ \E n \in 0..Cardinality(Suppliers!Told(s)), u \in Nat : AddUp(metrics[s], n, u)
Listed ==
    \A p \in profiles : p.provenance = "graph" =>
        /\ p.s \in Ids /\ p.invoices \in 1..Cardinality(Suppliers!PaidBy(p.s))
        /\ p.exceptions \in 0..p.invoices
Supplied == SuppliersTyped /\ Ordered /\ Timed /\ Studied /\ Listed /\ \A s \in Ids : Borne(s)

LEMMA SupplierCounts == \A S : Suppliers!Cardinality(S) = Cardinality(S)
BY Zenon DEF Suppliers!Cardinality, Cardinality

\* The decisions of a supplier among finitely many, and the invoices they are of, are
\* finitely many.
LEMMA OfIsFinite ==
    ASSUME NEW decisions, IsFiniteSet(decisions), NEW s
    PROVE  LET own == Suppliers!Of(s, decisions)
               bills == {InvoiceOf[d] : d \in own}
           IN /\ own \subseteq decisions /\ IsFiniteSet(own) /\ Cardinality(own) \in Nat
              /\ IsFiniteSet(bills) /\ Cardinality(bills) \in Nat
<1> DEFINE own == Suppliers!Of(s, decisions)
           bills == {InvoiceOf[d] : d \in own}
           bill == [d \in own |-> InvoiceOf[d]]
<1>1. own \subseteq decisions
  BY DEF Suppliers!Of
<1>2. IsFiniteSet(own)
  BY <1>1, FS_Subset
<1> HIDE DEF own
<1>3. bill \in Surjection(own, bills)
  BY DEF Surjection
<1> HIDE DEF bills
<1>4. IsFiniteSet(bills)
  BY <1>2, <1>3, FS_Surjection
<1>5. Cardinality(own) \in Nat /\ Cardinality(bills) \in Nat
  BY <1>2, <1>4, FS_CardinalityType
<1> QED BY <1>1, <1>2, <1>4, <1>5 DEF own, bills

LEMMA ToldIsFinite ==
    ASSUME SuppliersTyped, NEW s
    PROVE  /\ IsFiniteSet(Suppliers!Told(s)) /\ Cardinality(Suppliers!Told(s)) \in Nat
           /\ IsFiniteSet(Suppliers!PaidBy(s)) /\ Cardinality(Suppliers!PaidBy(s)) \in Nat
           /\ Suppliers!Told(s) \subseteq DOMAIN outcomes
<1>1. IsFiniteSet(DOMAIN outcomes)
  BY FS_Subset DEF SuppliersTyped
<1> QED BY <1>1, OfIsFinite DEF Suppliers!Told, Suppliers!PaidBy

\* No outcome is ever taken back: what was told stays told.
LEMMA MoreIsTold ==
    ASSUME SuppliersTyped', DOMAIN outcomes \subseteq DOMAIN outcomes', NEW s
    PROVE  /\ Suppliers!Told(s) \subseteq Suppliers!Told(s)' /\ Suppliers!PaidBy(s) \subseteq Suppliers!PaidBy(s)'
           /\ Cardinality(Suppliers!Told(s)) \in Nat /\ Cardinality(Suppliers!Told(s)') \in Nat
           /\ Cardinality(Suppliers!PaidBy(s)) \in Nat /\ Cardinality(Suppliers!PaidBy(s)') \in Nat
           /\ Cardinality(Suppliers!Told(s)) <= Cardinality(Suppliers!Told(s)')
           /\ Cardinality(Suppliers!PaidBy(s)) <= Cardinality(Suppliers!PaidBy(s)')
<1>1. Suppliers!Told(s) \subseteq Suppliers!Told(s)'
  BY DEF Suppliers!Told, Suppliers!Of
<1>2. Suppliers!PaidBy(s) \subseteq Suppliers!PaidBy(s)'
  BY <1>1 DEF Suppliers!PaidBy
<1>3. IsFiniteSet(DOMAIN outcomes')
  BY FS_Subset DEF SuppliersTyped
<1>4. IsFiniteSet(Suppliers!Told(s)') /\ IsFiniteSet(Suppliers!PaidBy(s)')
  BY <1>3, OfIsFinite DEF Suppliers!Told, Suppliers!PaidBy
<1>5. IsFiniteSet(Suppliers!Told(s)) /\ IsFiniteSet(Suppliers!PaidBy(s))
  BY <1>1, <1>2, <1>4, FS_Subset
<1> QED BY <1>1, <1>2, <1>4, <1>5, FS_Subset, FS_CardinalityType

\* The metrics of a supplier add up, although they are of two reads.
LEMMA ComputedAddUp ==
    ASSUME Suppliers!SuppliersAssumption, NEW s, NEW seen, NEW all, IsFiniteSet(all), DOMAIN seen \subseteq all
    PROVE  /\ Cardinality(Suppliers!Of(s, DOMAIN seen)) \in Nat
           /\ \E u \in Nat : AddUp(Suppliers!ComputeSupplierMetrics(s, seen, all),
                                   Cardinality(Suppliers!Of(s, DOMAIN seen)), u)
<1> DEFINE own == Suppliers!Of(s, DOMAIN seen)
           whole == Suppliers!Of(s, all)
           n == Cardinality(own)
           u == Cardinality(whole \ own)
           t == Cardinality(whole)
           rate == Suppliers!RateMetric("exception_rate", Suppliers!Wrong(seen, own), n)
           accuracy == Suppliers!RateMetric("accuracy", n - Suppliers!Wrong(seen, own), n)
           trend == Suppliers!TrendMetric(seen, own)
           quarters == Suppliers!QuarterlyMetric(n)
           a == Suppliers!Metric("verified_decisions", "learned", n, n)
           b == Suppliers!Metric("unverified_decisions", "context", t, u)
           c == Suppliers!Metric("total_decisions", "context", t, t)
           ms == {a, b, c, rate, accuracy, quarters, trend} \cup Suppliers!ContextMetric("otif_score", s)
<1>1. whole \subseteq all /\ own \subseteq whole
  BY DEF Suppliers!Of
<1>2. IsFiniteSet(whole) /\ IsFiniteSet(own)
  BY <1>1, FS_Subset
<1>3. t \in Nat /\ n \in Nat
  BY <1>2, FS_CardinalityType
<1>4. whole \cap own = own
  BY <1>1
<1>5. IsFiniteSet(whole \ own) /\ u = t - n
  BY <1>2, <1>4, FS_Difference
<1>6. u \in Nat /\ t = n + u
  BY <1>3, <1>5, FS_CardinalityType
<1>7. Suppliers!ComputeSupplierMetrics(s, seen, all) = ms
  BY SupplierCounts DEF Suppliers!ComputeSupplierMetrics
<1>8. /\ rate.name = "exception_rate" /\ (Suppliers!IsLearned(rate) => rate.count = n /\ n # 0)
      /\ accuracy.name = "accuracy" /\ (Suppliers!IsLearned(accuracy) => accuracy.count = n /\ n # 0)
      /\ quarters.name = "decision_count_by_quarter" /\ (Suppliers!IsLearned(quarters) => quarters.count = n)
  BY DEF Suppliers!RateMetric, Suppliers!QuarterlyMetric, Suppliers!Metric, Suppliers!IsLearned
<1>9. trend.name = "trend" /\ (Suppliers!IsLearned(trend) => trend.count = n /\ n >= 1)
  <2>1. TrendPoints \in Nat \ {0}
    BY DEF Suppliers!SuppliersAssumption
  <2>2. trend.name = "trend" /\ (Suppliers!IsLearned(trend) => trend.count = n /\ ~(n < TrendPoints))
    BY SupplierCounts DEF Suppliers!TrendMetric, Suppliers!Metric, Suppliers!IsLearned
  <2> QED BY <1>3, <2>1, <2>2
<1>10. /\ a.name = "verified_decisions" /\ a.value = n /\ a.count = n
       /\ b.name = "unverified_decisions" /\ b.value = u /\ ~Suppliers!IsLearned(b)
       /\ c.name = "total_decisions" /\ c.value = t /\ ~Suppliers!IsLearned(c)
  BY DEF Suppliers!Metric, Suppliers!IsLearned
<1>11. \A m \in Suppliers!ContextMetric("otif_score", s) : m.name = "otif_score" /\ ~Suppliers!IsLearned(m)
  BY DEF Suppliers!ContextMetric, Suppliers!Metric, Suppliers!IsLearned
<1> HIDE DEF a, b, c, rate, accuracy, quarters, trend, n, u, t
<1>12. \A m \in ms :
          \/ m = a \/ m = b \/ m = c \/ m = rate \/ m = accuracy \/ m = quarters \/ m = trend
          \/ m \in Suppliers!ContextMetric("otif_score", s)
  OBVIOUS
<1>13. a \in ms /\ b \in ms /\ c \in ms
  OBVIOUS
<1> HIDE DEF ms
<1>14. n # 0 => n >= 1
  BY <1>3
<1>15. \A m \in ms :
          /\ Suppliers!IsLearned(m) => m.count = n /\ (m.name \in {"exception_rate", "accuracy", "trend"} => n >= 1)
          /\ m.name = "verified_decisions" => m.value = n
          /\ m.name = "unverified_decisions" => m.value = u
          /\ m.name = "total_decisions" => m.value = n + u
  BY <1>6, <1>8, <1>9, <1>10, <1>11, <1>12, <1>14
<1>16. AddUp(ms, n, u)
  BY <1>10, <1>13, <1>15 DEF AddUp
<1> QED BY <1>3, <1>6, <1>7, <1>16 DEF n
\* Of one or more outcomes some are the last of their invoice, and no two of one.
LEMMA LastOnesCounted ==
    ASSUME Suppliers!SuppliersAssumption, SuppliersTyped, Ordered, NEW s,
           NEW of \in SUBSET Suppliers!Told(s), of # {}
    PROVE  LET last == Suppliers!LastOfInvoice(of)
           IN /\ Cardinality(last) \in 1..Cardinality(Suppliers!PaidBy(s))
              /\ Cardinality(Suppliers!Exceptions(last)) \in 0..Cardinality(last)
<1> DEFINE last == Suppliers!LastOfInvoice(of)
           paid == Suppliers!PaidBy(s)
           bill == [d \in last |-> InvoiceOf[d]]
           wrong == Suppliers!Exceptions(last)
<1>1. /\ IsFiniteSet(paid) /\ Cardinality(paid) \in Nat /\ IsFiniteSet(Suppliers!Told(s))
      /\ of \subseteq Purchases
  BY ToldIsFinite DEF SuppliersTyped
<1>2. /\ Place \in [Purchases -> Nat]
      /\ \A d, e \in Purchases : Place[d] = Place[e] => d = e
  BY DEF Suppliers!SuppliersAssumption
<1>3. last \subseteq of
  BY DEF Suppliers!LastOfInvoice
<1>4. last # {}
  <2>0. PICK n \in Nat : \A d \in of : Place[d] <= n
    BY ToldIsFinite DEF Ordered, SuppliersTyped
  <2> DEFINE below == {n - Place[d] : d \in of}
  <2>1. below \in SUBSET Nat /\ below # {}
    BY <1>1, <1>2, <2>0
  <2>3. PICK x \in below : \A y \in below : x <= y
    BY <2>1, LeastNatural
  <2>4. PICK d \in of : x = n - Place[d]
    BY <2>3
  <2>5. ASSUME NEW e \in of PROVE ~(Place[e] > Place[d])
    <3>1. n - Place[d] <= n - Place[e]
      BY <2>3, <2>4
    <3> QED BY <1>1, <1>2, <3>1
  <2>6. d \in last
    BY <2>5 DEF Suppliers!LastOfInvoice
  <2> QED BY <2>6
<1>5. bill \in Injection(last, paid)
  <2>1. bill \in [last -> paid]
    BY <1>3 DEF Suppliers!PaidBy
  <2>2. ASSUME NEW d \in last, NEW e \in last, bill[d] = bill[e] PROVE d = e
    <3>1. InvoiceOf[d] = InvoiceOf[e] /\ d \in of /\ e \in of
      BY <1>3, <2>2
    <3>2. ~(Place[e] > Place[d]) /\ ~(Place[d] > Place[e])
      BY <3>1, <2>2 DEF Suppliers!LastOfInvoice
    <3> QED BY <1>1, <1>2, <3>1, <3>2
  <2> QED BY <2>1, <2>2 DEF Injection, IsInjective
<1>7. wrong \subseteq last
  BY DEF Suppliers!Exceptions
<1> HIDE DEF last, paid, wrong
<1>8. IsFiniteSet(last) /\ Cardinality(last) <= Cardinality(paid)
  BY <1>1, <1>5, FS_Injection
<1>9. IsFiniteSet(wrong) /\ Cardinality(wrong) <= Cardinality(last)
  BY <1>7, <1>8, FS_Subset
<1>10. Cardinality(last) \in Nat /\ Cardinality(wrong) \in Nat /\ Cardinality(last) # 0
  BY <1>4, <1>8, <1>9, FS_CardinalityType, FS_EmptySet
<1>11. Cardinality(last) \in 1..Cardinality(paid) /\ Cardinality(wrong) \in 0..Cardinality(last)
  BY <1>1, <1>8, <1>9, <1>10
<1> QED BY <1>11 DEF last, paid, wrong

LEMMA SuppliedAtFirst == ASSUME Suppliers!Init PROVE Supplied
<1>1. outcomes = Suppliers!NoOutcomes /\ scored = {} /\ profiles = {} /\ verdicts = 0
      /\ study = Suppliers!Off /\ metrics = [s \in Ids |-> {}] /\ events = [s \in Ids |-> <<>>]
  BY DEF Suppliers!Init
<1>2. DOMAIN Suppliers!NoOutcomes = {} /\ Suppliers!NoOutcomes \in [{} -> [right : BOOLEAN, auto : BOOLEAN, at : Nat]]
  BY DEF Suppliers!NoOutcomes
<1>3. Suppliers!Off \in Studies
  <2>1. Suppliers!NoOutcomes \in UNION {[D -> [right : BOOLEAN, auto : BOOLEAN, at : Nat]] : D \in SUBSET Purchases}
    BY <1>2
  <2> QED BY <2>1 DEF Suppliers!Off, Studies
<1>4. SuppliersTyped
  <2>1. IsFiniteSet(scored)
    BY <1>1, FS_EmptySet
  <2>2. events \in [Ids -> Seq(Suppliers!OutcomeEvents)]
    BY <1>1
  <2> QED BY <1>1, <1>2, <1>3, <2>1, <2>2 DEF SuppliersTyped
<1>5. Ordered /\ Timed /\ Listed /\ \A s \in Ids : Borne(s)
  BY <1>1, <1>2 DEF Ordered, Timed, Listed, Borne
<1>6. Studied
  BY <1>1, <1>2 DEF Studied, Suppliers!Off
<1> QED BY <1>4, <1>5, <1>6 DEF Supplied

\* Decisions and outcomes are only added; what was said of them is still borne.
LEMMA StillBorne ==
    ASSUME Supplied, SuppliersTyped', DOMAIN outcomes \subseteq DOMAIN outcomes'
    PROVE  /\ metrics' = metrics => \A s \in Ids : Borne(s)'
           /\ profiles' = profiles => Listed'
<1>1. ASSUME metrics' = metrics, NEW s \in Ids PROVE Borne(s)'
  <2>1. Borne(s)
    BY DEF Supplied
  <2>2. CASE metrics[s] = {}
    BY <1>1, <2>2 DEF Borne
  <2>3. CASE metrics[s] # {}
    <3>1. PICK n \in 0..Cardinality(Suppliers!Told(s)), u \in Nat : AddUp(metrics[s], n, u)
      BY <2>1, <2>3 DEF Borne
    <3>2. n \in 0..Cardinality(Suppliers!Told(s)')
      BY <3>1, MoreIsTold
    <3>3. AddUp(metrics'[s], n, u)
      BY <1>1, <3>1
    <3> QED BY <3>2, <3>3 DEF Borne
  <2> QED BY <2>2, <2>3
<1>2. ASSUME profiles' = profiles PROVE Listed'
  <2> SUFFICES ASSUME NEW p \in profiles, p.provenance = "graph"
               PROVE  /\ p.s \in Ids /\ p.invoices \in 1..Cardinality(Suppliers!PaidBy(p.s)')
                      /\ p.exceptions \in 0..p.invoices
    BY <1>2 DEF Listed
  <2>1. /\ p.s \in Ids /\ p.invoices \in 1..Cardinality(Suppliers!PaidBy(p.s))
        /\ p.exceptions \in 0..p.invoices
    BY DEF Supplied, Listed
  <2> QED BY <2>1, MoreIsTold
<1> QED BY <1>1, <1>2

LEMMA ScoringKeepsSupplied ==
    ASSUME Suppliers!SuppliersAssumption, Supplied, NEW d \in Purchases, Suppliers!Score(d)
    PROVE  Supplied'
<1>1. /\ scored' = scored \cup {d}
      /\ UNCHANGED <<outcomes, events, metrics, study, verdicts, profiles>>
  BY DEF Suppliers!Score
<1>2. IsFiniteSet(scored')
  BY <1>1, FS_AddElement DEF Supplied, SuppliersTyped
<1>3. SuppliersTyped'
  BY <1>1, <1>2 DEF Supplied, SuppliersTyped
<1>4. Ordered'
  <2>1. \A e \in scored : Place[e] < Place[d]
    BY DEF Suppliers!Score
  <2>2. Place \in [Purchases -> Nat] /\ scored \subseteq Purchases
    BY DEF Suppliers!SuppliersAssumption, Supplied, SuppliersTyped
  <2>3. \A e \in scored' : Place[e] <= Place[d]
    BY <1>1, <2>1, <2>2
  <2> QED BY <2>2, <2>3 DEF Ordered
<1>5. Timed' /\ Studied'
  BY <1>1 DEF Supplied, Timed, Studied
<1> QED BY <1>1, <1>3, <1>4, <1>5, StillBorne DEF Supplied

LEMMA LastTyped ==
    ASSUME NEW S, NEW seq \in Seq(S), NEW n \in Nat
    PROVE  Suppliers!Last(n, seq) \in Seq(S)
<1> DEFINE m == Len(seq) - (IF n < Len(seq) THEN n ELSE Len(seq)) + 1
<1>1. Len(seq) \in Nat /\ m \in Int /\ m >= 1 /\ \A i \in m..Len(seq) : seq[i] \in S
  OBVIOUS
<1>2. SubSeq(seq, m, Len(seq)) \in Seq(S)
  BY <1>1, SubSeqProperties
<1> QED BY <1>2 DEF Suppliers!Last

LEMMA OutcomesKeepSupplied ==
    ASSUME Suppliers!SuppliersAssumption, Supplied, NEW d \in Purchases, NEW right \in BOOLEAN, NEW auto \in BOOLEAN,
           Suppliers!RecordOutcome(d, right, auto)
    PROVE  Supplied'
<1>1. /\ d \in scored /\ verdicts' = verdicts + 1
      /\ outcomes' = [p \in DOMAIN outcomes \cup {d} |->
                         IF p = d THEN [right |-> right, auto |-> auto, at |-> verdicts'] ELSE outcomes[p]]
      /\ UNCHANGED <<scored, metrics, study, profiles>>
  BY DEF Suppliers!RecordOutcome
<1>2. SuppliersTyped /\ Timed /\ Studied
  BY DEF Supplied
<1>3. DOMAIN outcomes' = DOMAIN outcomes \cup {d} /\ verdicts' \in Nat
  BY <1>1, <1>2 DEF SuppliersTyped
<1>4. \A p \in DOMAIN outcomes' :
          /\ outcomes'[p] \in [right : BOOLEAN, auto : BOOLEAN, at : Nat]
          /\ p = d => outcomes'[p].at = verdicts'
          /\ p # d => p \in DOMAIN outcomes /\ outcomes'[p] = outcomes[p]
  BY <1>1, <1>2, <1>3 DEF SuppliersTyped
<1>5. outcomes' \in [DOMAIN outcomes' -> [right : BOOLEAN, auto : BOOLEAN, at : Nat]]
  BY <1>1, <1>3, <1>4
<1>6. events' \in [Ids -> Seq(Suppliers!OutcomeEvents)]
  <2>1. events \in [Ids -> Seq(Suppliers!OutcomeEvents)] /\ Trailing \in Nat
    BY <1>2 DEF SuppliersTyped, Suppliers!SuppliersAssumption
  <2>2. CASE events' = events
    BY <2>1, <2>2
  <2>3. CASE events' # events
    <3> DEFINE o == [d |-> d, right |-> right]
               s == SupplierOf[d]
               q == Suppliers!Last(Trailing, Append(events[s], o))
    <3>1. s # None /\ events' = [events EXCEPT ![s] = q]
      BY <2>3 DEF Suppliers!RecordOutcome, Suppliers!OnDecisionVerified
    <3>2. s \in Ids
      BY <3>1 DEF Suppliers!SuppliersAssumption
    <3>3. o \in Suppliers!OutcomeEvents
      BY DEF Suppliers!OutcomeEvents
    <3>4. Append(events[s], o) \in Seq(Suppliers!OutcomeEvents)
      BY <2>1, <3>2, <3>3
    <3>5. q \in Seq(Suppliers!OutcomeEvents)
      BY <2>1, <3>4, LastTyped
    <3> HIDE DEF q
    <3> QED BY <2>1, <3>1, <3>2, <3>5
  <2> QED BY <2>2, <2>3
<1>7. SuppliersTyped'
  BY <1>1, <1>2, <1>3, <1>5, <1>6 DEF SuppliersTyped
<1>8. Timed'
  <2> SUFFICES ASSUME NEW p \in DOMAIN outcomes', NEW q \in DOMAIN outcomes'
               PROVE  outcomes'[p].at <= verdicts' /\ (outcomes'[p].at = outcomes'[q].at => p = q)
    BY DEF Timed
  <2>1. \A r \in DOMAIN outcomes : outcomes[r].at \in Nat /\ outcomes[r].at <= verdicts /\ verdicts \in Nat
    BY <1>2 DEF SuppliersTyped, Timed
  <2> QED BY <1>1, <1>2, <1>4, <2>1 DEF Timed
<1>10. Ordered'
  BY <1>1 DEF Supplied, Ordered
<1>9. Studied'
  BY <1>1, <1>2, <1>3 DEF Studied
<1> QED BY <1>1, <1>3, <1>7, <1>8, <1>9, <1>10, StillBorne DEF Supplied

LEMMA RestartKeepsSupplied == ASSUME Supplied, Suppliers!Reset PROVE Supplied'
<1>1. /\ study' = Suppliers!Off /\ events' = [s \in Ids |-> <<>>]
      /\ UNCHANGED <<scored, outcomes, metrics, verdicts, profiles>>
  BY DEF Suppliers!Reset
<1>2. DOMAIN Suppliers!NoOutcomes = {} /\ Suppliers!NoOutcomes \in [{} -> [right : BOOLEAN, auto : BOOLEAN, at : Nat]]
  BY DEF Suppliers!NoOutcomes
<1>3. Suppliers!Off \in Studies
  <2>1. Suppliers!NoOutcomes \in UNION {[D -> [right : BOOLEAN, auto : BOOLEAN, at : Nat]] : D \in SUBSET Purchases}
    BY <1>2
  <2> QED BY <2>1 DEF Suppliers!Off, Studies
<1>4. events' \in [Ids -> Seq(Suppliers!OutcomeEvents)]
  BY <1>1
<1>5. SuppliersTyped'
  BY <1>1, <1>3, <1>4 DEF Supplied, SuppliersTyped
<1>6. Ordered' /\ Timed' /\ Studied'
  BY <1>1, <1>2 DEF Supplied, Ordered, Timed, Studied, Suppliers!Off
<1> QED BY <1>1, <1>5, <1>6, StillBorne DEF Supplied

\* An enrichment run reads outcomes before decisions, so that it has read the decision of
\* each outcome it read.
LEMMA StudiesKeepSupplied ==
    ASSUME Suppliers!SuppliersAssumption, Supplied,
           \/ \E dry \in BOOLEAN : Suppliers!StudyOutcomes(dry)
           \/ Suppliers!StudyDecisions \/ Suppliers!StudyDone
    PROVE  Supplied'
<1>0. SuppliersTyped /\ Ordered /\ Timed /\ Studied
  BY DEF Supplied
<1>1. UNCHANGED <<scored, outcomes, events, metrics, verdicts, profiles>>
  BY DEF Suppliers!StudyOutcomes, Suppliers!StudyDecisions, Suppliers!StudyDone
<1>2. Suppliers!NoOutcomes \in UNION {[D -> [right : BOOLEAN, auto : BOOLEAN, at : Nat]] : D \in SUBSET Purchases}
  <2>1. Suppliers!NoOutcomes \in [{} -> [right : BOOLEAN, auto : BOOLEAN, at : Nat]]
    BY DEF Suppliers!NoOutcomes
  <2> QED BY <2>1
<1>3. Suppliers!Off \in Studies /\ Suppliers!Off.phase = "off" /\ Suppliers!Off.all = {}
      /\ DOMAIN Suppliers!Off.outcomes = {}
  BY <1>2 DEF Suppliers!Off, Studies, Suppliers!NoOutcomes
<1>4. outcomes \in UNION {[D -> [right : BOOLEAN, auto : BOOLEAN, at : Nat]] : D \in SUBSET Purchases}
  <2>1. DOMAIN outcomes \in SUBSET Purchases
    BY <1>0 DEF SuppliersTyped
  <2> QED BY <1>0, <2>1 DEF SuppliersTyped
<1>5. study' \in Studies /\ Studied'
  <2>1. ASSUME NEW dry \in BOOLEAN, Suppliers!StudyOutcomes(dry) PROVE study' \in Studies /\ Studied'
    <3>1. study' = [Suppliers!Off EXCEPT !.phase = "read", !.dry = dry, !.outcomes = outcomes]
      BY <2>1 DEF Suppliers!StudyOutcomes
    <3>2. study' \in Studies
      BY <1>3, <1>4, <3>1 DEF Studies
    <3>3. study'.phase = "read" /\ study'.outcomes = outcomes /\ study'.all = {}
      BY <1>3, <3>1 DEF Studies
    <3> QED BY <1>1, <3>2, <3>3 DEF Studied
  <2>2. CASE Suppliers!StudyDecisions
    <3> DEFINE todo1 == ({SupplierOf[d] : d \in scored} \ {None}) \cup DOMAIN Master
    <3>1. study' = [study EXCEPT !.phase = "write", !.all = scored, !.todo = todo1]
      BY <2>2 DEF Suppliers!StudyDecisions
    <3>2. todo1 \in SUBSET Ids
      BY <1>0 DEF SuppliersTyped, Suppliers!SuppliersAssumption
    <3> HIDE DEF todo1
    <3>3. study' \in Studies
      BY <1>0, <3>1, <3>2 DEF Studies, SuppliersTyped
    <3>4. study'.outcomes = study.outcomes /\ study'.all = scored
      BY <1>0, <3>1 DEF Studies, SuppliersTyped
    <3>5. DOMAIN study.outcomes \subseteq DOMAIN outcomes /\ DOMAIN outcomes \subseteq scored
      BY <1>0 DEF SuppliersTyped, Studied
    <3> QED BY <1>1, <3>3, <3>4, <3>5 DEF Studied
  <2>3. CASE Suppliers!StudyDone
    <3>1. study' = Suppliers!Off
      BY <2>3 DEF Suppliers!StudyDone
    <3> QED BY <1>3, <3>1 DEF Studied
  <2> QED BY <2>1, <2>2, <2>3
<1>6. SuppliersTyped'
  BY <1>0, <1>1, <1>5 DEF SuppliersTyped
<1>7. Ordered' /\ Timed'
  BY <1>0, <1>1 DEF Ordered, Timed
<1> QED BY <1>1, <1>5, <1>6, <1>7, StillBorne DEF Supplied

LEMMA WritingKeepsSupplied ==
    ASSUME Suppliers!SuppliersAssumption, Supplied, NEW s \in Ids, Suppliers!WriteMetrics(s)
    PROVE  Supplied'
<1>0. SuppliersTyped /\ Ordered /\ Timed /\ Studied
  BY DEF Supplied
<1> DEFINE written == Suppliers!ComputeSupplierMetrics(s, study.outcomes, study.all)
<1>1. /\ study.phase = "write" /\ study' = [study EXCEPT !.todo = @ \ {s}]
      /\ metrics' = metrics \/ metrics' = [metrics EXCEPT ![s] = written]
      /\ UNCHANGED <<scored, outcomes, events, verdicts, profiles>>
  BY DEF Suppliers!WriteMetrics
<1> HIDE DEF written
<1>2. study \in Studies /\ metrics = [x \in Ids |-> metrics[x]]
  BY <1>0 DEF SuppliersTyped
<1>3. study' \in Studies
  BY <1>1, <1>2 DEF Studies
<1>4. study'.phase = study.phase /\ study'.outcomes = study.outcomes /\ study'.all = study.all
  BY <1>1, <1>2 DEF Studies
<1>5. /\ metrics' = [x \in Ids |-> metrics'[x]]
      /\ \A x \in Ids : metrics'[x] = metrics[x] \/ (x = s /\ metrics'[x] = written)
  BY <1>1, <1>2
<1>6. SuppliersTyped' /\ Ordered' /\ Timed' /\ Studied'
  BY <1>0, <1>1, <1>3, <1>4, <1>5 DEF SuppliersTyped, Ordered, Timed, Studied
<1>7. Listed'
  BY <1>1, <1>6, StillBorne
<1>8. \E n \in 0..Cardinality(Suppliers!Told(s)), u \in Nat : AddUp(written, n, u)
  <2> DEFINE n == Cardinality(Suppliers!Of(s, DOMAIN study.outcomes))
  <2>1. study.all \subseteq scored /\ DOMAIN study.outcomes \subseteq study.all
        /\ DOMAIN study.outcomes \subseteq DOMAIN outcomes /\ IsFiniteSet(scored)
    BY <1>0, <1>1 DEF Studied, SuppliersTyped
  <2>2. IsFiniteSet(study.all)
    BY <2>1, FS_Subset
  <2>3. n \in Nat /\ \E u \in Nat : AddUp(written, n, u)
    BY <2>1, <2>2, ComputedAddUp DEF written
  <2>4. Suppliers!Of(s, DOMAIN study.outcomes) \subseteq Suppliers!Told(s)
    BY <2>1 DEF Suppliers!Told, Suppliers!Of
  <2>5. IsFiniteSet(Suppliers!Told(s)) /\ Cardinality(Suppliers!Told(s)) \in Nat
    BY <1>0, ToldIsFinite
  <2>6. n <= Cardinality(Suppliers!Told(s))
    BY <2>4, <2>5, FS_Subset
  <2> HIDE DEF n
  <2>7. n \in 0..Cardinality(Suppliers!Told(s))
    BY <2>3, <2>5, <2>6
  <2> QED BY <2>3, <2>7
<1>9. ASSUME NEW x \in Ids PROVE Borne(x)'
  <2>0. Suppliers!Told(x)' = Suppliers!Told(x)
    BY <1>1 DEF Suppliers!Told, Suppliers!Of
  <2>1. CASE metrics'[x] = metrics[x]
    <3>1. Borne(x)
      BY DEF Supplied
    <3> QED BY <2>0, <2>1, <3>1 DEF Borne
  <2>2. CASE x = s /\ metrics'[x] = written
    BY <1>8, <2>0, <2>2 DEF Borne
  <2> QED BY <1>5, <2>1, <2>2
<1> QED BY <1>6, <1>7, <1>9 DEF Supplied

LEMMA ListsKeepSupplied ==
    ASSUME Suppliers!SuppliersAssumption, Supplied, Suppliers!ListDecisions \/ Suppliers!BuildProfiles
    PROVE  Supplied'
<1>0. SuppliersTyped /\ Ordered /\ Timed /\ Studied /\ Listed
  BY DEF Supplied
<1>1. UNCHANGED <<scored, outcomes, events, metrics, study, verdicts>>
  BY DEF Suppliers!ListDecisions, Suppliers!BuildProfiles
<1>2. SuppliersTyped' /\ Ordered' /\ Timed' /\ Studied'
  BY <1>0, <1>1 DEF SuppliersTyped, Ordered, Timed, Studied
<1>3. Listed'
  <2>1. CASE Suppliers!ListDecisions
    <3>1. profiles' = profiles
      BY <2>1 DEF Suppliers!ListDecisions
    <3> QED BY <1>2, <1>1, <3>1, StillBorne
  <2>2. CASE Suppliers!BuildProfiles
    <3> DEFINE seen == DOMAIN outcomes \cap listing
               named == {s \in Ids : Suppliers!Of(s, seen) # {}}
    <3>1. profiles' = {Suppliers!LiveMetrics(s, Suppliers!Of(s, seen)) : s \in named}
                          \cup {Suppliers!Sample(s) : s \in DOMAIN Master \ named}
      BY <2>2 DEF Suppliers!BuildProfiles
    <3>2. ASSUME NEW p \in profiles', p.provenance = "graph"
          PROVE  /\ p.s \in Ids /\ p.invoices \in 1..Cardinality(Suppliers!PaidBy(p.s))
                 /\ p.exceptions \in 0..p.invoices
      <4>0. \A s : Suppliers!Sample(s).provenance # "graph"
        BY DEF Suppliers!Sample
      <4>1. PICK s \in named : p = Suppliers!LiveMetrics(s, Suppliers!Of(s, seen))
        <5>1. p \in {Suppliers!LiveMetrics(s, Suppliers!Of(s, seen)) : s \in named}
              \/ \E s : p = Suppliers!Sample(s)
          BY <3>1, Zenon
        <5> QED BY <3>2, <4>0, <5>1
      <4>2. s \in Ids /\ Suppliers!Of(s, seen) # {} /\ Suppliers!Of(s, seen) \in SUBSET Suppliers!Told(s)
        BY DEF Suppliers!Told, Suppliers!Of
      <4> DEFINE of == Suppliers!Of(s, seen)
      <4>3. /\ p.s = s /\ p.invoices = Cardinality(Suppliers!LastOfInvoice(of))
            /\ p.exceptions = Cardinality(Suppliers!Exceptions(Suppliers!LastOfInvoice(of)))
        BY <4>1, SupplierCounts DEF Suppliers!LiveMetrics
      <4> HIDE DEF of
      <4> QED BY <1>0, <4>2, <4>3, LastOnesCounted DEF of
    <3>3. \A s : Suppliers!PaidBy(s)' = Suppliers!PaidBy(s)
      BY <1>1 DEF Suppliers!PaidBy, Suppliers!Told, Suppliers!Of
    <3> HIDE DEF named, seen
    <3> QED BY <3>2, <3>3 DEF Listed
  <2> QED BY <2>1, <2>2
<1>4. ASSUME NEW s \in Ids PROVE Borne(s)'
  BY <1>1, <1>2, StillBorne
<1> QED BY <1>2, <1>3, <1>4 DEF Supplied

LEMMA SuppliedStep ==
    ASSUME Suppliers!SuppliersAssumption, Supplied, [Suppliers!Next]_(Suppliers!supplierVars)
    PROVE  Supplied'
<1>1. CASE UNCHANGED Suppliers!supplierVars
  <2>1. UNCHANGED <<scored, outcomes, events, metrics, study, verdicts, profiles>>
    BY <1>1 DEF Suppliers!supplierVars
  <2>2. SuppliersTyped' /\ Ordered' /\ Timed' /\ Studied'
    BY <2>1 DEF Supplied, SuppliersTyped, Ordered, Timed, Studied
  <2> QED BY <2>1, <2>2, StillBorne DEF Supplied
<1>2. ASSUME NEW d \in Purchases, Suppliers!Score(d) PROVE Supplied'
  BY <1>2, ScoringKeepsSupplied
<1>3. ASSUME NEW d \in Purchases, NEW right \in BOOLEAN, NEW auto \in BOOLEAN, Suppliers!RecordOutcome(d, right, auto)
      PROVE  Supplied'
  BY <1>3, OutcomesKeepSupplied
<1>4. CASE Suppliers!Reset
  BY <1>4, RestartKeepsSupplied
<1>5. CASE Suppliers!ListDecisions \/ Suppliers!BuildProfiles
  BY <1>5, ListsKeepSupplied
<1>6. CASE \/ \E dry \in BOOLEAN : Suppliers!StudyOutcomes(dry)
           \/ Suppliers!StudyDecisions \/ Suppliers!StudyDone
  BY <1>6, StudiesKeepSupplied
<1>7. ASSUME NEW s \in Ids, Suppliers!WriteMetrics(s) PROVE Supplied'
  BY <1>7, WritingKeepsSupplied
<1> QED BY <1>1, <1>2, <1>3, <1>4, <1>5, <1>6, <1>7 DEF Suppliers!Next

\* The counts of metrics that bear a risk are all that of the outcomes they are from.
LEMMA RiskIsBorne ==
    ASSUME Suppliers!SuppliersAssumption, SuppliersTyped, NEW s \in Ids, Borne(s),
           Suppliers!RiskTier(metrics[s]) \in {"high", "medium", "low"}
    PROVE  Cardinality(Suppliers!Told(s)) >= MinSample
<1> DEFINE ms == metrics[s]
           risk == {m \in ms : Suppliers!IsRiskBearing(m)}
           numbers == {m.count : m \in risk}
<1>1. ms # {} /\ risk # {} /\ Suppliers!MaxCount(risk) \notin 1..(MinSample - 1)
  BY DEF Suppliers!RiskTier
<1>2. PICK n \in 0..Cardinality(Suppliers!Told(s)), u \in Nat : AddUp(ms, n, u)
  BY <1>1 DEF Borne
<1>3. \A m \in risk : m.count = n /\ n >= 1
  BY <1>2 DEF AddUp, Suppliers!IsRiskBearing
<1>4. numbers = {n} /\ n >= 1
  BY <1>1, <1>3
<1>5. Suppliers!MaxCount(risk) = CHOOSE k \in numbers : \A m \in risk : m.count <= k
  BY DEF Suppliers!MaxCount
<1>6. \E k \in numbers : \A m \in risk : m.count <= k
  BY <1>2, <1>3, <1>4
<1>7. Suppliers!MaxCount(risk) \in numbers
  BY <1>5, <1>6
<1>8. Cardinality(Suppliers!Told(s)) \in Nat /\ MinSample \in Nat \ {0}
  BY ToldIsFinite DEF Suppliers!SuppliersAssumption
<1> HIDE DEF ms, risk, numbers
<1> QED BY <1>1, <1>2, <1>4, <1>7, <1>8

LEMMA LearnedIsBorne ==
    ASSUME Suppliers!SuppliersAssumption, SuppliersTyped, NEW s \in Ids, Borne(s),
           \/ Suppliers!EconomicExposure(metrics[s])
           \/ Suppliers!IntelligenceDepth(metrics[s]) \notin {"none", "emerging"}
    PROVE  Suppliers!Told(s) # {}
<1>1. metrics[s] # {}
  <2>1. CASE Suppliers!EconomicExposure(metrics[s])
    BY <2>1 DEF Suppliers!EconomicExposure
  <2>2. CASE Suppliers!IntelligenceDepth(metrics[s]) \notin {"none", "emerging"}
    BY <2>2 DEF Suppliers!IntelligenceDepth
  <2> QED BY <2>1, <2>2
<1>2. PICK n \in 0..Cardinality(Suppliers!Told(s)), u \in Nat : AddUp(metrics[s], n, u)
  BY <1>1 DEF Borne
<1>3. n >= 1
  <2>1. CASE Suppliers!EconomicExposure(metrics[s])
    BY <1>2, <2>1 DEF Suppliers!EconomicExposure, AddUp
  <2>2. CASE Suppliers!IntelligenceDepth(metrics[s]) \notin {"none", "emerging"}
    <3> DEFINE counted == {m \in metrics[s] : Suppliers!IsVerifiedMetric(m)}
               past == {m \in counted : m.count >= Reliable}
    <3>1. past # {}
      BY <2>2 DEF Suppliers!IntelligenceDepth
    <3>2. PICK m \in metrics[s] : Suppliers!IsLearned(m) /\ m.count >= Reliable
      BY <3>1 DEF Suppliers!IsVerifiedMetric
    <3>3. m.count = n
      BY <1>2, <3>2 DEF AddUp
    <3>4. Reliable \in Nat \ {0}
      BY DEF Suppliers!SuppliersAssumption
    <3> QED BY <1>2, <3>2, <3>3, <3>4
  <2> QED BY <2>1, <2>2
<1>4. IsFiniteSet(Suppliers!Told(s)) /\ Cardinality(Suppliers!Told(s)) \in Nat
  BY ToldIsFinite
<1>5. Cardinality(Suppliers!Told(s)) # 0
  BY <1>2, <1>3, <1>4
<1> QED BY <1>5, FS_EmptySet

LEMMA CountsAddUp ==
    ASSUME SuppliersTyped, NEW s \in Ids, Borne(s), metrics[s] # {}
    PROVE  Suppliers!Value(metrics[s], "verified_decisions", 0) + Suppliers!Value(metrics[s], "unverified_decisions", 0)
             = Suppliers!Value(metrics[s], "total_decisions", 0)
<1>1. PICK n \in 0..Cardinality(Suppliers!Told(s)), u \in Nat : AddUp(metrics[s], n, u)
  BY DEF Borne
<1>2. ASSUME NEW name \in {"verified_decisions", "unverified_decisions", "total_decisions"}
      PROVE  \E m \in metrics[s] : m.name = name /\ Suppliers!Value(metrics[s], name, 0) = m.value
  <2>1. \E m \in metrics[s] : m.name = name
    BY <1>1 DEF AddUp
  <2>2. Suppliers!Value(metrics[s], name, 0) = (CHOOSE m \in metrics[s] : m.name = name).value
    BY <2>1 DEF Suppliers!Value
  <2> QED BY <2>1, <2>2
<1>3. /\ Suppliers!Value(metrics[s], "verified_decisions", 0) = n
      /\ Suppliers!Value(metrics[s], "unverified_decisions", 0) = u
      /\ Suppliers!Value(metrics[s], "total_decisions", 0) = n + u
  BY <1>1, <1>2 DEF AddUp
<1> QED BY <1>3

\* The colour of a profile that the events decide.
LEMMA GreenIsEarned ==
    ASSUME Suppliers!SuppliersAssumption, SuppliersTyped, NEW s \in Ids,
           Suppliers!GetProfile(s).source \in {"computed", "hybrid"}, Suppliers!HasProfile(s),
           Suppliers!RiskLevel(Suppliers!GetProfile(s)) = "green"
    PROVE  /\ 100 * Suppliers!Wrong(events[s], DOMAIN events[s]) < 7 * Len(events[s])
           /\ Suppliers!ClusterName(Suppliers!GetProfile(s)) # "risk_watch"
<1> DEFINE e == events[s]
           n == Len(e)
           misses == {i \in DOMAIN e : ~e[i].right}
           w == Suppliers!Wrong(e, DOMAIN e)
           p == Suppliers!FromEvents(s)
<1>1. e \in Seq(Suppliers!OutcomeEvents) /\ n \in Nat /\ DOMAIN e = 1..n
  BY DEF SuppliersTyped
<1>2. Suppliers!GetProfile(s) = p
  BY DEF Suppliers!GetProfile
<1>3. n > 0
  <2>1. e # <<>>
    <3>1. CASE s \in DOMAIN Master
      <4>1. ~(n < Computed) /\ Computed \in Nat \ {0}
        BY <3>1 DEF Suppliers!GetProfile, Suppliers!SuppliersAssumption
      <4> QED BY <1>1, <4>1
    <3>2. CASE s \notin DOMAIN Master
      BY <3>2 DEF Suppliers!HasProfile
    <3> QED BY <3>1, <3>2
  <2> QED BY <1>1, <2>1
<1>4. w = Cardinality(misses)
  BY SupplierCounts DEF Suppliers!Wrong
<1>5. IsFiniteSet(misses) /\ w \in Nat
  <2>1. IsFiniteSet(1..n) /\ misses \in SUBSET (1..n)
    BY <1>1, FS_Interval
  <2>2. IsFiniteSet(misses)
    BY <2>1, FS_Subset
  <2> QED BY <1>4, <2>2, FS_CardinalityType
<1>6. /\ p.rate = Suppliers!Percent(w, n) /\ p.invoices = n
      /\ p.declining => misses # {}
  BY DEF Suppliers!FromEvents, Suppliers!Rising
<1> HIDE DEF e, n, misses, w, p
<1>7. p.rate = (100 * w) \div n
  BY <1>3, <1>6 DEF Suppliers!Percent
<1>8. ~(p.rate >= 7)
  BY <1>2 DEF Suppliers!RiskLevel
<1>9. p.rate \in Nat /\ p.rate < 7
  BY <1>1, <1>3, <1>5, <1>7, <1>8
<1>10. 100 * w < 7 * n
  BY <1>1, <1>3, <1>5, <1>7, <1>9
<1>11. Suppliers!ClusterName(p) = "risk_watch" => n < 5 /\ misses # {}
  <2>1. ASSUME Suppliers!ClusterName(p) = "risk_watch" PROVE ~(p.invoices >= 5) /\ (p.rate >= 10 \/ p.declining)
    BY <2>1 DEF Suppliers!ClusterName
  <2> QED BY <1>1, <1>6, <1>9, <2>1
<1>12. n < 5 => w = 0
  BY <1>1, <1>5, <1>10
<1>13. w = 0 => misses = {}
  BY <1>4, <1>5, FS_EmptySet
<1>14. Suppliers!ClusterName(p) # "risk_watch"
  BY <1>11, <1>12, <1>13
<1> QED BY <1>2, <1>10, <1>14 DEF e, n, w

\* Whatever races with the runs and lists that compute it, what the program says of a
\* supplier is borne by recorded outcomes: a risk tier by enough of them, an exposure or
\* a depth by one; the counts of a run add up; a list counts no invoice twice; and a green
\* profile has fewer than seven misses in a hundred.
THEOREM SuppliersStayTrue ==
    ASSUME Suppliers!SuppliersAssumption
    PROVE  Spec => []SuppliersAreTrue
<1>1. Suppliers!Init => Supplied
  BY SuppliedAtFirst
<1>2. Supplied /\ [Suppliers!Next]_(Suppliers!supplierVars) => Supplied'
  BY SuppliedStep
<1>3. Supplied => SuppliersAreTrue
  <2> SUFFICES ASSUME Supplied, NEW s \in Ids
               PROVE  /\ Suppliers!RiskTier(metrics[s]) \in {"high", "medium", "low"}
                           => Suppliers!Cardinality(Suppliers!Told(s)) >= MinSample
                      /\ Suppliers!EconomicExposure(metrics[s])
                         \/ Suppliers!IntelligenceDepth(metrics[s]) \notin {"none", "emerging"}
                           => Suppliers!Told(s) # {}
                      /\ metrics[s] # {} =>
                            Suppliers!Value(metrics[s], "verified_decisions", 0)
                              + Suppliers!Value(metrics[s], "unverified_decisions", 0)
                              = Suppliers!Value(metrics[s], "total_decisions", 0)
                      /\ \A p \in profiles : p.s = s /\ p.provenance = "graph" =>
                            /\ p.invoices \in 1..Suppliers!Cardinality(Suppliers!PaidBy(s))
                            /\ p.exceptions <= p.invoices
                      /\ Suppliers!GetProfile(s).source \in {"computed", "hybrid"} /\ Suppliers!HasProfile(s)
                         /\ Suppliers!RiskLevel(Suppliers!GetProfile(s)) = "green" =>
                            /\ 100 * Suppliers!Wrong(events[s], DOMAIN events[s]) < 7 * Len(events[s])
                            /\ Suppliers!ClusterName(Suppliers!GetProfile(s)) # "risk_watch"
    BY DEF SuppliersAreTrue, Suppliers!SuppliersAreTrue
  <2>1. SuppliersTyped /\ Borne(s) /\ Listed
    BY DEF Supplied
  <2>2. \A p \in profiles : p.s = s /\ p.provenance = "graph" =>
            p.invoices \in 1..Cardinality(Suppliers!PaidBy(s)) /\ p.exceptions <= p.invoices
    BY <2>1 DEF Listed
  <2>3. Suppliers!RiskTier(metrics[s]) \in {"high", "medium", "low"} => Cardinality(Suppliers!Told(s)) >= MinSample
    BY <2>1, RiskIsBorne
  <2>4. Suppliers!EconomicExposure(metrics[s]) \/ Suppliers!IntelligenceDepth(metrics[s]) \notin {"none", "emerging"}
           => Suppliers!Told(s) # {}
    BY <2>1, LearnedIsBorne
  <2>5. metrics[s] # {} => Suppliers!Value(metrics[s], "verified_decisions", 0)
                             + Suppliers!Value(metrics[s], "unverified_decisions", 0)
                             = Suppliers!Value(metrics[s], "total_decisions", 0)
    BY <2>1, CountsAddUp
  <2>6. Suppliers!GetProfile(s).source \in {"computed", "hybrid"} /\ Suppliers!HasProfile(s)
        /\ Suppliers!RiskLevel(Suppliers!GetProfile(s)) = "green" =>
            /\ 100 * Suppliers!Wrong(events[s], DOMAIN events[s]) < 7 * Len(events[s])
            /\ Suppliers!ClusterName(Suppliers!GetProfile(s)) # "risk_watch"
    BY <2>1, GreenIsEarned
  <2> QED BY <2>2, <2>3, <2>4, <2>5, <2>6, SupplierCounts
<1> QED BY <1>1, <1>2, <1>3, EachAlone, PTL DEF Suppliers!Spec

-----------------------------------------------------------------------------
(* The read endpoints: what their plans have in common *)

Sources ==
    {"approvals", "audit", "budget", "checkpoints", "context", "correct", "counts", "decisions", "enrichment",
     "events", "factors", "fingerprint", "fixture", "history", "instrument", "links", "novelty", "process",
     "profiles", "proposals", "receipts", "scorer", "similar", "simulation", "state", "status", "trajectory",
     "traversal", "twin", "verified", "weights"}
PlannedRead == [of : Sources, fails : {"error", "missing", "told", "empty", "slow", "never"}, needed : BOOLEAN]
HasRead(p, s) == \E i \in DOMAIN p.reads : p.reads[i].of = s
\* But for the routes named in Torn and Quiet, a decision is read after all that
\* follows from it and no failed read is left untold; routes that may answer from
\* a build join no more than decisions and outcomes; and a tab that shows anything
\* of a decision, but for the context of its invoice, is cleared by its learn request.
PlanKeeps(p, n) ==
    /\ p.reads \in Seq(PlannedRead) /\ p.via \in {"live", "snapshot", "tab", "startup"}
    /\ n \in Endpoints!Quiet \/ \A i \in DOMAIN p.reads : p.reads[i].fails \notin {"empty", "slow"}
    /\ n \in Endpoints!Torn \/ \A c \in Endpoints!Causes : HasRead(p, c[1]) /\ HasRead(p, c[2]) =>
          /\ \E j \in DOMAIN p.reads :
                p.reads[j].of = c[1] /\ \A i \in DOMAIN p.reads : p.reads[i].of = c[2] => i < j
          /\ p.via = "snapshot" => c \in {<<"decisions", "verified">>, <<"decisions", "counts">>}
    /\ p.via = "tab" =>
          \/ n = "evidence_context" \/ \A s \in Endpoints!Tracked : ~HasRead(p, s)
          \/ "learn" \in p.clears /\ ~HasRead(p, "profiles")

\* The situation route puts together the most reads: none of an outcome or a link.
LEMMA SituationPlan == PlanKeeps(Endpoints!Situation, "situation")
<1> DEFINE S == {r \in PlannedRead : r.fails \notin {"empty", "slow"} /\ r.of \notin {"links", "verified", "counts", "receipts", "profiles"}}
<1>1. Endpoints!Traversal \in Seq(S)
  <2>1. Endpoints!PreparedContext \in Seq(S)
    BY DEF Endpoints!PreparedContext, Endpoints!Strict, Endpoints!Memory, Endpoints!Read, PlannedRead, Sources
  <2>2. /\ Endpoints!GraphContext \in Seq(S) /\ Endpoints!SimilarInvoice \in Seq(S)
        /\ Endpoints!EnrichedNodes \in Seq(S)
    BY DEF Endpoints!GraphContext, Endpoints!SimilarInvoice, Endpoints!EnrichedNodes, Endpoints!Strict,
        Endpoints!Read, PlannedRead, Sources
  <2> HIDE DEF S
  <2> QED BY <2>1, <2>2 DEF Endpoints!Traversal, Endpoints!CategoryTraversal
<1>2. /\ <<Endpoints!Strict("decisions"), Endpoints!Told("context")>> \in Seq(S)
      /\ Endpoints!Deadline \in Seq(S) /\ <<Endpoints!Told("weights")>> \in Seq(S)
  BY DEF Endpoints!Deadline, Endpoints!Strict, Endpoints!Told, Endpoints!Read, PlannedRead, Sources
<1>3. Endpoints!Situation.reads \in Seq(S) /\ Endpoints!Situation.via = "live"
  <2> HIDE DEF S
  <2> QED BY <1>1, <1>2 DEF Endpoints!Situation, Endpoints!Live, Endpoints!Plan
<1> QED BY <1>3 DEF PlanKeeps, HasRead, Endpoints!Causes

\* The context of an invoice reads no outcome.
LEMMA ContextPlan == PlanKeeps(Endpoints!EvidenceContext, "evidence_context")
<1> DEFINE S == {r \in PlannedRead : r.fails \notin {"empty", "slow"} /\ r.of \notin {"links", "verified", "counts", "profiles"}}
<1>1. /\ <<Endpoints!Memory("fixture")>> \in Seq(S) /\ Endpoints!SupplierContext \in Seq(S)
      /\ Endpoints!OrderContext \in Seq(S) /\ Endpoints!SimilarDecisions \in Seq(S)
      /\ Endpoints!CentroidContext \in Seq(S) /\ Endpoints!ReceiptContext \in Seq(S)
  BY DEF Endpoints!SupplierContext, Endpoints!OrderContext, Endpoints!SimilarDecisions, Endpoints!CentroidContext,
      Endpoints!ReceiptContext, Endpoints!Memory, Endpoints!Told, Endpoints!Strict, Endpoints!Read, PlannedRead, Sources
<1>2. Endpoints!EvidenceContext.reads \in Seq(S) /\ Endpoints!EvidenceContext.via = "tab"
  <2> HIDE DEF S
  <2> QED BY <1>1 DEF Endpoints!EvidenceContext, Endpoints!InvoiceContext, Endpoints!Tab, Endpoints!Plan
<1> QED BY <1>2 DEF PlanKeeps, HasRead, Endpoints!Causes

\* Routes: evidence.
LEMMA EvidencePlans ==
    /\ PlanKeeps(Endpoints!AuditTrail, "audit_trail")
    /\ PlanKeeps(Endpoints!Receipts, "receipts")
    /\ PlanKeeps(Endpoints!ReceiptsForInvoice, "receipts_for_invoice")
    /\ PlanKeeps(Endpoints!ReceiptsForDecision, "receipts_for_decision")
    /\ PlanKeeps(Endpoints!ChainIntegrity, "chain_integrity")
    /\ PlanKeeps(Endpoints!AuditPack, "audit_pack")
    /\ PlanKeeps(Endpoints!EvidenceTemplate, "evidence_template")
    /\ PlanKeeps(Endpoints!EvidenceContext, "evidence_context")
    /\ PlanKeeps(Endpoints!Rules, "rules")
    /\ PlanKeeps(Endpoints!RuleLifecycle, "rule_lifecycle")
    /\ PlanKeeps(Endpoints!Compliance, "compliance")
<1> USE DEF PlanKeeps, HasRead, PlannedRead, Sources, Endpoints!Causes, Endpoints!Tracked, Endpoints!Read,
       Endpoints!Plan, Endpoints!Live, Endpoints!Strict, Endpoints!Told, Endpoints!Memory, Endpoints!Silent,
       Endpoints!Needed, Endpoints!TimedSnapshot, Endpoints!Tab
<1>1. PlanKeeps(Endpoints!AuditTrail, "audit_trail")
  BY DEF Endpoints!AuditTrail, Endpoints!LinkedDecisions
<1>2. PlanKeeps(Endpoints!Receipts, "receipts")
  BY DEF Endpoints!Receipts
<1>3. PlanKeeps(Endpoints!ReceiptsForInvoice, "receipts_for_invoice")
  BY DEF Endpoints!ReceiptsForInvoice
<1>4. PlanKeeps(Endpoints!ReceiptsForDecision, "receipts_for_decision")
  BY DEF Endpoints!ReceiptsForDecision
<1>5. PlanKeeps(Endpoints!ChainIntegrity, "chain_integrity")
  BY DEF Endpoints!ChainIntegrity
<1>6. PlanKeeps(Endpoints!AuditPack, "audit_pack")
  BY DEF Endpoints!AuditPack, Endpoints!AuditPackReads, Endpoints!ConservationSnapshot, Endpoints!Quiet
<1>7. PlanKeeps(Endpoints!EvidenceTemplate, "evidence_template")
  BY DEF Endpoints!EvidenceTemplate, Endpoints!TrustReads
<1>8. PlanKeeps(Endpoints!EvidenceContext, "evidence_context")
  BY ContextPlan
<1>9. PlanKeeps(Endpoints!Rules, "rules")
  BY DEF Endpoints!Rules, Endpoints!Cold
<1>10. PlanKeeps(Endpoints!RuleLifecycle, "rule_lifecycle")
  BY DEF Endpoints!RuleLifecycle
<1>11. PlanKeeps(Endpoints!Compliance, "compliance")
  BY DEF Endpoints!Compliance, Endpoints!CompliancePayload
<1> QED BY <1>1, <1>2, <1>3, <1>4, <1>5, <1>6, <1>7, <1>8, <1>9, <1>10, <1>11

\* Routes: insight.
LEMMA InsightPlans ==
    /\ PlanKeeps(Endpoints!Fingerprint, "fingerprint")
    /\ PlanKeeps(Endpoints!DecisionExplorer, "decision_explorer")
    /\ PlanKeeps(Endpoints!Similar, "similar")
    /\ PlanKeeps(Endpoints!ProcessContext, "process_context")
    /\ PlanKeeps(Endpoints!CrossGraph, "cross_graph")
    /\ PlanKeeps(Endpoints!ProcessSignals, "process_signals")
<1> USE DEF PlanKeeps, HasRead, PlannedRead, Sources, Endpoints!Causes, Endpoints!Tracked, Endpoints!Read,
       Endpoints!Plan, Endpoints!Live, Endpoints!Strict, Endpoints!Told, Endpoints!Memory, Endpoints!Snapshot
<1>1. PlanKeeps(Endpoints!Fingerprint, "fingerprint")
  BY DEF Endpoints!Fingerprint
<1>2. PlanKeeps(Endpoints!DecisionExplorer, "decision_explorer")
  BY DEF Endpoints!DecisionExplorer, Endpoints!Torn
<1>3. PlanKeeps(Endpoints!Similar, "similar")
  BY DEF Endpoints!Similar
<1>4. PlanKeeps(Endpoints!ProcessContext, "process_context")
  BY DEF Endpoints!ProcessContext
<1>5. PlanKeeps(Endpoints!CrossGraph, "cross_graph")
  BY DEF Endpoints!CrossGraph
<1>6. PlanKeeps(Endpoints!ProcessSignals, "process_signals")
  BY DEF Endpoints!ProcessSignals
<1> QED BY <1>1, <1>2, <1>3, <1>4, <1>5, <1>6

\* Routes: performance and governance.
LEMMA GovernancePlans ==
    /\ PlanKeeps(Endpoints!Trajectory, "trajectory")
    /\ PlanKeeps(Endpoints!WhatIf, "what_if")
    /\ PlanKeeps(Endpoints!Summary, "summary")
    /\ PlanKeeps(Endpoints!ComplianceScreening, "compliance_screening")
    /\ PlanKeeps(Endpoints!ComplianceGaps, "compliance_gaps")
    /\ PlanKeeps(Endpoints!ConservationProof, "conservation_proof")
    /\ PlanKeeps(Endpoints!SoxReadiness, "sox_readiness")
    /\ PlanKeeps(Endpoints!Rationalization, "rationalization")
    /\ PlanKeeps(Endpoints!RationalizationSupplier, "rationalization_supplier")
<1> USE DEF PlanKeeps, HasRead, PlannedRead, Sources, Endpoints!Causes, Endpoints!Tracked, Endpoints!Read,
       Endpoints!Plan, Endpoints!Live, Endpoints!Strict, Endpoints!Memory, Endpoints!Silent,
       Endpoints!Needed, Endpoints!TimedSnapshot
<1>1. PlanKeeps(Endpoints!Trajectory, "trajectory")
  BY DEF Endpoints!Trajectory, Endpoints!CurrentQuality
<1>2. PlanKeeps(Endpoints!WhatIf, "what_if")
  BY DEF Endpoints!WhatIf, Endpoints!CurrentQuality, Endpoints!CategoryCoverage
<1>3. PlanKeeps(Endpoints!Summary, "summary")
  BY DEF Endpoints!Summary, Endpoints!SummaryReads, Endpoints!Torn
<1>4. PlanKeeps(Endpoints!ComplianceScreening, "compliance_screening")
  BY DEF Endpoints!ComplianceScreening, Endpoints!ScreeningReads, Endpoints!GovernanceSnapshot,
    Endpoints!ConservationSnapshot, Endpoints!Quiet
<1>5. PlanKeeps(Endpoints!ComplianceGaps, "compliance_gaps")
  BY DEF Endpoints!ComplianceGaps
<1>6. PlanKeeps(Endpoints!ConservationProof, "conservation_proof")
  BY DEF Endpoints!ConservationProof, Endpoints!GovernanceSnapshot, Endpoints!ConservationSnapshot,
    Endpoints!Quiet
<1>7. PlanKeeps(Endpoints!SoxReadiness, "sox_readiness")
  BY DEF Endpoints!SoxReadiness, Endpoints!ScreeningReads, Endpoints!GovernanceSnapshot,
    Endpoints!ConservationSnapshot, Endpoints!Quiet
<1>8. PlanKeeps(Endpoints!Rationalization, "rationalization")
  BY DEF Endpoints!Rationalization
<1>9. PlanKeeps(Endpoints!RationalizationSupplier, "rationalization_supplier")
  BY DEF Endpoints!RationalizationSupplier
<1> QED BY <1>1, <1>2, <1>3, <1>4, <1>5, <1>6, <1>7, <1>8, <1>9

\* Routes: suppliers' payments, warnings and groups.
LEMMA PaymentPlans ==
    /\ PlanKeeps(Endpoints!PaymentStrategy, "payment_strategy")
    /\ PlanKeeps(Endpoints!PaymentBehavior, "payment_behavior")
    /\ PlanKeeps(Endpoints!EarlyWarnings, "early_warnings")
    /\ PlanKeeps(Endpoints!TrendSignals, "trend_signals")
    /\ PlanKeeps(Endpoints!Clusters, "clusters")
    /\ PlanKeeps(Endpoints!Similarity, "similarity")
    /\ PlanKeeps(Endpoints!SimulateDisruption, "simulate_disruption")
    /\ PlanKeeps(Endpoints!Scenarios, "scenarios")
    /\ PlanKeeps(Endpoints!LeadTimes, "lead_times")
    /\ PlanKeeps(Endpoints!OptimizerExport, "optimizer_export")
<1> USE DEF PlanKeeps, HasRead, PlannedRead, Sources, Endpoints!Causes, Endpoints!Tracked, Endpoints!Read,
       Endpoints!Plan, Endpoints!Live, Endpoints!Told, Endpoints!Memory, Endpoints!Needed
<1>1. PlanKeeps(Endpoints!PaymentStrategy, "payment_strategy")
  BY DEF Endpoints!PaymentStrategy, Endpoints!Profiles
<1>2. PlanKeeps(Endpoints!PaymentBehavior, "payment_behavior")
  BY DEF Endpoints!PaymentBehavior
<1>3. PlanKeeps(Endpoints!EarlyWarnings, "early_warnings")
  BY DEF Endpoints!EarlyWarnings, Endpoints!Profiles
<1>4. PlanKeeps(Endpoints!TrendSignals, "trend_signals")
  BY DEF Endpoints!TrendSignals
<1>5. PlanKeeps(Endpoints!Clusters, "clusters")
  BY DEF Endpoints!Clusters, Endpoints!Profiles
<1>6. PlanKeeps(Endpoints!Similarity, "similarity")
  BY DEF Endpoints!Similarity
<1>7. PlanKeeps(Endpoints!SimulateDisruption, "simulate_disruption")
  BY DEF Endpoints!SimulateDisruption
<1>8. PlanKeeps(Endpoints!Scenarios, "scenarios")
  BY DEF Endpoints!Scenarios
<1>9. PlanKeeps(Endpoints!LeadTimes, "lead_times")
  BY DEF Endpoints!LeadTimes
<1>10. PlanKeeps(Endpoints!OptimizerExport, "optimizer_export")
  BY DEF Endpoints!OptimizerExport
<1> QED BY <1>1, <1>2, <1>3, <1>4, <1>5, <1>6, <1>7, <1>8, <1>9, <1>10

\* Routes: discoveries, process variants and the control tower.
LEMMA TowerPlans ==
    /\ PlanKeeps(Endpoints!Discoveries, "discoveries")
    /\ PlanKeeps(Endpoints!DiscoveryPropagation, "discovery_propagation")
    /\ PlanKeeps(Endpoints!Variants, "variants")
    /\ PlanKeeps(Endpoints!Leakage, "leakage")
    /\ PlanKeeps(Endpoints!Intents, "intents")
    /\ PlanKeeps(Endpoints!Classify, "classify")
    /\ PlanKeeps(Endpoints!ControlTowerQueue, "control_tower_queue")
<1> USE DEF PlanKeeps, HasRead, PlannedRead, Sources, Endpoints!Causes, Endpoints!Tracked, Endpoints!Read,
       Endpoints!Plan, Endpoints!Live, Endpoints!Strict, Endpoints!Memory, Endpoints!Silent,
       Endpoints!Needed, Endpoints!Tab
<1>1. PlanKeeps(Endpoints!Discoveries, "discoveries")
  BY DEF Endpoints!Discoveries, Endpoints!Cold
<1>2. PlanKeeps(Endpoints!DiscoveryPropagation, "discovery_propagation")
  BY DEF Endpoints!DiscoveryPropagation
<1>3. PlanKeeps(Endpoints!Variants, "variants")
  BY DEF Endpoints!Variants, Endpoints!Quiet
<1>4. PlanKeeps(Endpoints!Leakage, "leakage")
  BY DEF Endpoints!Leakage
<1>5. PlanKeeps(Endpoints!Intents, "intents")
  BY DEF Endpoints!Intents, Endpoints!Cold
<1>6. PlanKeeps(Endpoints!Classify, "classify")
  BY DEF Endpoints!Classify
<1>7. PlanKeeps(Endpoints!ControlTowerQueue, "control_tower_queue")
  BY DEF Endpoints!ControlTowerQueue
<1> QED BY <1>1, <1>2, <1>3, <1>4, <1>5, <1>6, <1>7

\* Routes: the explorer.
LEMMA ExplorerPlans ==
    /\ PlanKeeps(Endpoints!DkWeights, "dk_weights")
    /\ PlanKeeps(Endpoints!FactorRanking, "factor_ranking")
    /\ PlanKeeps(Endpoints!Contribution, "contribution")
    /\ PlanKeeps(Endpoints!Drift, "drift")
    /\ PlanKeeps(Endpoints!AllCentroids, "all_centroids")
    /\ PlanKeeps(Endpoints!CentroidCell, "centroid_cell")
    /\ PlanKeeps(Endpoints!CentroidDrift, "centroid_drift")
    /\ PlanKeeps(Endpoints!ExplainDecision, "explain_decision")
<1> USE DEF PlanKeeps, HasRead, PlannedRead, Sources, Endpoints!Causes, Endpoints!Tracked, Endpoints!Read,
       Endpoints!Plan, Endpoints!Live, Endpoints!Strict, Endpoints!Told, Endpoints!Needed
<1>1. PlanKeeps(Endpoints!DkWeights, "dk_weights")
  BY DEF Endpoints!DkWeights
<1>2. PlanKeeps(Endpoints!FactorRanking, "factor_ranking")
  BY DEF Endpoints!FactorRanking
<1>3. PlanKeeps(Endpoints!Contribution, "contribution")
  BY DEF Endpoints!Contribution
<1>4. PlanKeeps(Endpoints!Drift, "drift")
  BY DEF Endpoints!Drift
<1>5. PlanKeeps(Endpoints!AllCentroids, "all_centroids")
  BY DEF Endpoints!AllCentroids
<1>6. PlanKeeps(Endpoints!CentroidCell, "centroid_cell")
  BY DEF Endpoints!CentroidCell
<1>7. PlanKeeps(Endpoints!CentroidDrift, "centroid_drift")
  BY DEF Endpoints!CentroidDrift
<1>8. PlanKeeps(Endpoints!ExplainDecision, "explain_decision")
  BY DEF Endpoints!ExplainDecision
<1> QED BY <1>1, <1>2, <1>3, <1>4, <1>5, <1>6, <1>7, <1>8

\* Routes: the audit export and the preview.
LEMMA ExportPlans ==
    /\ PlanKeeps(Endpoints!AuditExport, "audit_export")
    /\ PlanKeeps(Endpoints!AuditVerify, "audit_verify")
    /\ PlanKeeps(Endpoints!PreviewQueue, "preview_queue")
    /\ PlanKeeps(Endpoints!PreviewConservation, "preview_conservation")
    /\ PlanKeeps(Endpoints!PreviewSuppliers, "preview_suppliers")
    /\ PlanKeeps(Endpoints!PreviewTab, "preview_tab")
<1> USE DEF PlanKeeps, HasRead, PlannedRead, Sources, Endpoints!Causes, Endpoints!Tracked, Endpoints!Read,
       Endpoints!Plan, Endpoints!Live, Endpoints!Strict, Endpoints!Told, Endpoints!Memory, Endpoints!Silent,
       Endpoints!Snapshot, Endpoints!Tab
<1>1. PlanKeeps(Endpoints!AuditExport, "audit_export")
  BY DEF Endpoints!AuditExport, Endpoints!ExportReads, Endpoints!CurrentQuality, Endpoints!Torn
<1>2. PlanKeeps(Endpoints!AuditVerify, "audit_verify")
  BY DEF Endpoints!AuditVerify
<1>3. PlanKeeps(Endpoints!PreviewQueue, "preview_queue")
  BY DEF Endpoints!PreviewQueue, Endpoints!RecentScores, Endpoints!MergedDecisions, Endpoints!Hasty, Endpoints!Quiet
<1>4. PlanKeeps(Endpoints!PreviewConservation, "preview_conservation")
  BY DEF Endpoints!PreviewConservation, Endpoints!RecentScores, Endpoints!MergedDecisions, Endpoints!Hasty,
    Endpoints!Quiet
<1>5. PlanKeeps(Endpoints!PreviewSuppliers, "preview_suppliers")
  BY DEF Endpoints!PreviewSuppliers, Endpoints!Torn
<1>6. PlanKeeps(Endpoints!PreviewTab, "preview_tab")
  BY DEF Endpoints!PreviewTab, Endpoints!Cold
<1> QED BY <1>1, <1>2, <1>3, <1>4, <1>5, <1>6

\* Routes: the framework's graph and demonstration.
LEMMA FrameworkPlans ==
    /\ PlanKeeps(Endpoints!CentroidEvolution, "centroid_evolution")
    /\ PlanKeeps(Endpoints!OlsStatus, "ols_status")
    /\ PlanKeeps(Endpoints!AutoApproveStats, "auto_approve_stats")
    /\ PlanKeeps(Endpoints!GraphQuery, "graph_query")
    /\ PlanKeeps(Endpoints!CheckpointList, "checkpoint_list")
    /\ PlanKeeps(Endpoints!FrozenTwin, "frozen_twin")
    /\ PlanKeeps(Endpoints!SelectedTwin, "selected_twin")
    /\ PlanKeeps(Endpoints!CounterfactualRoute, "counterfactual_route")
    /\ PlanKeeps(Endpoints!Confidence, "confidence")
<1> USE DEF PlanKeeps, HasRead, PlannedRead, Sources, Endpoints!Causes, Endpoints!Tracked, Endpoints!Read,
       Endpoints!Plan, Endpoints!Live, Endpoints!Strict, Endpoints!Told, Endpoints!Silent, Endpoints!Needed
<1>1. PlanKeeps(Endpoints!CentroidEvolution, "centroid_evolution")
  BY DEF Endpoints!CentroidEvolution
<1>2. PlanKeeps(Endpoints!OlsStatus, "ols_status")
  BY DEF Endpoints!OlsStatus, Endpoints!Quiet
<1>3. PlanKeeps(Endpoints!AutoApproveStats, "auto_approve_stats")
  BY DEF Endpoints!AutoApproveStats
<1>4. PlanKeeps(Endpoints!GraphQuery, "graph_query")
  BY DEF Endpoints!GraphQuery
<1>5. PlanKeeps(Endpoints!CheckpointList, "checkpoint_list")
  BY DEF Endpoints!CheckpointList
<1>6. PlanKeeps(Endpoints!FrozenTwin, "frozen_twin")
  BY DEF Endpoints!FrozenTwin, Endpoints!Torn
<1>7. PlanKeeps(Endpoints!SelectedTwin, "selected_twin")
  BY DEF Endpoints!SelectedTwin, Endpoints!Torn, Endpoints!Quiet
<1>8. PlanKeeps(Endpoints!CounterfactualRoute, "counterfactual_route")
  BY DEF Endpoints!CounterfactualRoute
<1>9. PlanKeeps(Endpoints!Confidence, "confidence")
  BY DEF Endpoints!Confidence
<1> QED BY <1>1, <1>2, <1>3, <1>4, <1>5, <1>6, <1>7, <1>8, <1>9

\* Routes: what is computed once, and the remaining tabs.
LEMMA StartupPlans ==
    /\ PlanKeeps(Endpoints!FinancialImpact, "financial_impact")
    /\ PlanKeeps(Endpoints!FactorAnalysis, "factor_analysis")
    /\ PlanKeeps(Endpoints!CohortStatus, "cohort_status")
    /\ PlanKeeps(Endpoints!NoveltyStatus, "novelty_status")
    /\ PlanKeeps(Endpoints!LearningGate, "learning_gate")
    /\ PlanKeeps(Endpoints!ConservationStatus, "conservation_status")
    /\ PlanKeeps(Endpoints!FingerprintRoute, "fingerprint_route")
    /\ PlanKeeps(Endpoints!TrajectoryRoute, "trajectory_route")
<1> USE DEF PlanKeeps, HasRead, PlannedRead, Sources, Endpoints!Causes, Endpoints!Tracked, Endpoints!Read,
       Endpoints!Plan, Endpoints!Live, Endpoints!Strict, Endpoints!Told, Endpoints!Memory,
       Endpoints!Snapshot, Endpoints!Tab, Endpoints!Startup
<1>1. PlanKeeps(Endpoints!FinancialImpact, "financial_impact")
  BY DEF Endpoints!FinancialImpact
<1>2. PlanKeeps(Endpoints!FactorAnalysis, "factor_analysis")
  BY DEF Endpoints!FactorAnalysis
<1>3. PlanKeeps(Endpoints!CohortStatus, "cohort_status")
  BY DEF Endpoints!CohortStatus, Endpoints!Standard
<1>4. PlanKeeps(Endpoints!NoveltyStatus, "novelty_status")
  BY DEF Endpoints!NoveltyStatus
<1>5. PlanKeeps(Endpoints!LearningGate, "learning_gate")
  BY DEF Endpoints!LearningGate, Endpoints!Cold
<1>6. PlanKeeps(Endpoints!ConservationStatus, "conservation_status")
  BY DEF Endpoints!ConservationStatus
<1>7. PlanKeeps(Endpoints!FingerprintRoute, "fingerprint_route")
  BY DEF Endpoints!FingerprintRoute
<1>8. PlanKeeps(Endpoints!TrajectoryRoute, "trajectory_route")
  BY DEF Endpoints!TrajectoryRoute
<1> QED BY <1>1, <1>2, <1>3, <1>4, <1>5, <1>6, <1>7, <1>8

\* Routes: the ledger, enrichment and compliance.
LEMMA LedgerPlans ==
    /\ PlanKeeps(Endpoints!Timeline, "timeline")
    /\ PlanKeeps(Endpoints!LedgerSummary, "ledger_summary")
    /\ PlanKeeps(Endpoints!EnrichmentSummary, "enrichment_summary")
    /\ PlanKeeps(Endpoints!EnrichmentSupplier, "enrichment_supplier")
    /\ PlanKeeps(Endpoints!ComplianceReport, "compliance_report")
<1> USE DEF PlanKeeps, HasRead, PlannedRead, Sources, Endpoints!Causes, Endpoints!Tracked, Endpoints!Read,
       Endpoints!Plan, Endpoints!Live, Endpoints!Strict, Endpoints!Told, Endpoints!Needed
<1>1. PlanKeeps(Endpoints!Timeline, "timeline")
  BY DEF Endpoints!Timeline
<1>2. PlanKeeps(Endpoints!LedgerSummary, "ledger_summary")
  BY DEF Endpoints!LedgerSummary
<1>3. PlanKeeps(Endpoints!EnrichmentSummary, "enrichment_summary")
  BY DEF Endpoints!EnrichmentSummary
<1>4. PlanKeeps(Endpoints!EnrichmentSupplier, "enrichment_supplier")
  BY DEF Endpoints!EnrichmentSupplier
<1>5. PlanKeeps(Endpoints!ComplianceReport, "compliance_report")
  BY DEF Endpoints!ComplianceReport, Endpoints!Torn
<1> QED BY <1>1, <1>2, <1>3, <1>4, <1>5

\* Routes: supplier groups and profiles.
LEMMA ProfilePlans ==
    /\ PlanKeeps(Endpoints!SupplierGroups, "supplier_groups")
    /\ PlanKeeps(Endpoints!DecliningSuppliers, "declining_suppliers")
    /\ PlanKeeps(Endpoints!SupplierHeatmap, "supplier_heatmap")
    /\ PlanKeeps(Endpoints!SupplierCorrelations, "supplier_correlations")
    /\ PlanKeeps(Endpoints!SupplierProfile, "supplier_profile")
    /\ PlanKeeps(Endpoints!SupplierHistory, "supplier_history")
    /\ PlanKeeps(Endpoints!InvestigationBudget, "investigation_budget")
<1> USE DEF PlanKeeps, HasRead, PlannedRead, Sources, Endpoints!Causes, Endpoints!Tracked, Endpoints!Read,
       Endpoints!Plan, Endpoints!Live, Endpoints!Strict, Endpoints!Memory
<1>1. PlanKeeps(Endpoints!SupplierGroups, "supplier_groups")
  BY DEF Endpoints!SupplierGroups
<1>2. PlanKeeps(Endpoints!DecliningSuppliers, "declining_suppliers")
  BY DEF Endpoints!DecliningSuppliers
<1>3. PlanKeeps(Endpoints!SupplierHeatmap, "supplier_heatmap")
  BY DEF Endpoints!SupplierHeatmap
<1>4. PlanKeeps(Endpoints!SupplierCorrelations, "supplier_correlations")
  BY DEF Endpoints!SupplierCorrelations
<1>5. PlanKeeps(Endpoints!SupplierProfile, "supplier_profile")
  BY DEF Endpoints!SupplierProfile, Endpoints!SupplierIntelligence, Endpoints!Torn
<1>6. PlanKeeps(Endpoints!SupplierHistory, "supplier_history")
  BY DEF Endpoints!SupplierHistory
<1>7. PlanKeeps(Endpoints!InvestigationBudget, "investigation_budget")
  BY DEF Endpoints!InvestigationBudget
<1> QED BY <1>1, <1>2, <1>3, <1>4, <1>5, <1>6, <1>7

LEMMA EveryPlanKeeps ==
    ASSUME NEW n \in DOMAIN Endpoints!Plans
    PROVE  PlanKeeps(Endpoints!Plans[n], n)
<1>1. \A m \in {"audit_trail", "receipts", "receipts_for_invoice", "receipts_for_decision",
                 "chain_integrity", "audit_pack", "evidence_template", "evidence_context", "rules",
                 "rule_lifecycle", "compliance"} :
         PlanKeeps(Endpoints!Plans[m], m)
  BY EvidencePlans DEF Endpoints!Plans
<1>2. \A m \in {"fingerprint", "decision_explorer", "similar", "process_context", "cross_graph",
                 "process_signals"} :
         PlanKeeps(Endpoints!Plans[m], m)
  BY InsightPlans DEF Endpoints!Plans
<1>3. \A m \in {"trajectory", "what_if", "summary", "compliance_screening", "compliance_gaps",
                 "conservation_proof", "sox_readiness", "rationalization", "rationalization_supplier"} :
         PlanKeeps(Endpoints!Plans[m], m)
  BY GovernancePlans DEF Endpoints!Plans
<1>4. \A m \in {"payment_strategy", "payment_behavior", "early_warnings", "trend_signals", "clusters",
                 "similarity", "simulate_disruption", "scenarios", "lead_times", "optimizer_export"} :
         PlanKeeps(Endpoints!Plans[m], m)
  BY PaymentPlans DEF Endpoints!Plans
<1>5. \A m \in {"discoveries", "discovery_propagation", "variants", "leakage", "intents", "classify",
                 "control_tower_queue"} :
         PlanKeeps(Endpoints!Plans[m], m)
  BY TowerPlans DEF Endpoints!Plans
<1>6. \A m \in {"dk_weights", "factor_ranking", "contribution", "drift", "all_centroids", "centroid_cell",
                 "centroid_drift", "explain_decision"} :
         PlanKeeps(Endpoints!Plans[m], m)
  BY ExplorerPlans DEF Endpoints!Plans
<1>7. \A m \in {"audit_export", "audit_verify", "preview_queue", "preview_conservation",
                 "preview_suppliers", "preview_tab"} :
         PlanKeeps(Endpoints!Plans[m], m)
  BY ExportPlans DEF Endpoints!Plans
<1>8. \A m \in {"centroid_evolution", "ols_status", "auto_approve_stats", "graph_query", "checkpoint_list",
                 "frozen_twin", "selected_twin", "counterfactual_route", "confidence"} :
         PlanKeeps(Endpoints!Plans[m], m)
  BY FrameworkPlans DEF Endpoints!Plans
<1>9. \A m \in {"financial_impact", "factor_analysis", "cohort_status", "novelty_status", "learning_gate",
                 "conservation_status", "fingerprint_route", "trajectory_route"} :
         PlanKeeps(Endpoints!Plans[m], m)
  BY StartupPlans DEF Endpoints!Plans
<1>10. \A m \in {"timeline", "ledger_summary", "enrichment_summary", "enrichment_supplier",
                 "compliance_report"} :
         PlanKeeps(Endpoints!Plans[m], m)
  BY LedgerPlans DEF Endpoints!Plans
<1>11. \A m \in {"supplier_groups", "declining_suppliers", "supplier_heatmap", "supplier_correlations",
                 "supplier_profile", "supplier_history", "investigation_budget"} :
         PlanKeeps(Endpoints!Plans[m], m)
  BY ProfilePlans DEF Endpoints!Plans
<1>12. \A m \in {"situation"} :
         PlanKeeps(Endpoints!Plans[m], m)
  BY SituationPlan DEF Endpoints!Plans
<1>13. DOMAIN Endpoints!Plans =
         {"audit_trail", "receipts", "receipts_for_invoice", "receipts_for_decision", "chain_integrity",
          "audit_pack", "evidence_template", "evidence_context", "rules", "rule_lifecycle", "compliance",
          "fingerprint", "decision_explorer", "similar", "process_context", "cross_graph",
          "process_signals", "trajectory", "what_if", "summary", "compliance_screening", "compliance_gaps",
          "conservation_proof", "sox_readiness", "rationalization", "rationalization_supplier",
          "payment_strategy", "payment_behavior", "early_warnings", "trend_signals", "clusters",
          "similarity", "simulate_disruption", "scenarios", "lead_times", "optimizer_export",
          "discoveries", "discovery_propagation", "variants", "leakage", "intents", "classify",
          "control_tower_queue", "dk_weights", "factor_ranking", "contribution", "drift", "all_centroids",
          "centroid_cell", "centroid_drift", "explain_decision", "audit_export", "audit_verify",
          "preview_queue", "preview_conservation", "preview_suppliers", "preview_tab",
          "centroid_evolution", "ols_status", "auto_approve_stats", "graph_query", "checkpoint_list",
          "frozen_twin", "selected_twin", "counterfactual_route", "confidence", "financial_impact",
          "factor_analysis", "cohort_status", "novelty_status", "learning_gate", "conservation_status",
          "fingerprint_route", "trajectory_route", "timeline", "ledger_summary", "enrichment_summary",
          "enrichment_supplier", "compliance_report", "supplier_groups", "declining_suppliers",
          "supplier_heatmap", "supplier_correlations", "supplier_profile", "supplier_history",
          "investigation_budget", "situation"}
  BY DEF Endpoints!Plans
<1> QED BY <1>1, <1>2, <1>3, <1>4, <1>5, <1>6, <1>7, <1>8, <1>9, <1>10, <1>11, <1>12, <1>13

(* The read endpoints: what they answer *)

Names == Endpoints!Tracked \cup {"counts"}
\* From which stage on a source shows the decision.
ShownFrom(s) == IF s = "counts" THEN 6 ELSE Endpoints!Level(s)
Asked ==
    [role : {"client", "builder"}, at : Nat, shown : SUBSET Names, unread : SUBSET Sources, told : SUBSET Sources,
     raced : BOOLEAN, learnt : BOOLEAN]
Answered ==
    [code : {200, 404, 503}, shown : SUBSET Names, unread : SUBSET Sources, told : SUBSET Sources,
     raced : BOOLEAN, learnt : BOOLEAN, kept : BOOLEAN]
EndpointTyped ==
    /\ endpoint \in DOMAIN Endpoints!Plans
    /\ progress \in 0..9 /\ restarts \in 0..MaxRestarts /\ omitted \in SUBSET Endpoints!Omissible

\* A source is accounted for in what a request, or an answer, has read.
Covered(a, s) == s \in a.shown \/ s \in a.unread \/ s \in omitted
\* What a request under way must have found, had it read it: what was there when
\* cached answers were last dropped, if it did not go through a drop, and
\* everything if it began after the decision was learnt.
Due(s) ==
    \/ ~request.raced /\ "score" \notin omitted /\ progress >= 3 /\ s = "decisions"
    \/ ~request.raced /\ progress >= 8 /\ s # "profiles"
    \/ request.learnt
\* The causes that an answer of the endpoint has to have in order.
Joined == IF Endpoints!Unordered THEN {}
          ELSE {c \in Endpoints!Causes : {c[1], c[2]} \subseteq Endpoints!Reads(endpoint)}
\* The place of a cause after all that follows from it.
Settled(c, j) ==
    /\ j \in DOMAIN Endpoints!plan.reads /\ Endpoints!plan.reads[j].of = c[1]
    /\ \A i \in DOMAIN Endpoints!plan.reads : Endpoints!plan.reads[i].of = c[2] => i < j
RequestIsSound ==
    request # None =>
        /\ request \in Asked /\ request.at \in 1..Len(Endpoints!reads) + 1
        /\ request.told \subseteq request.unread
        /\ request.learnt => progress = 9
        /\ request.role = "builder" => Endpoints!plan.via = "snapshot" /\ request.unread \subseteq {"history"} \cap request.told
        /\ \A s \in request.shown : ShownFrom(s) <= progress
        /\ \A i \in DOMAIN Endpoints!reads :
              LET s == Endpoints!reads[i].of
              IN i < request.at /\ s \in Endpoints!Reads(endpoint) \cap Endpoints!Tracked /\ Due(s) => Covered(request, s)
        /\ request.role = "client" =>
              /\ endpoint \notin Endpoints!Quiet => request.unread \subseteq request.told
              /\ \A c \in Joined : \A j \in DOMAIN Endpoints!plan.reads :
                    Settled(c, j) /\ j < request.at /\ c[2] \in request.shown
                    => c[1] \in request.shown \cup request.unread

InOrderOf(a) == \A c \in Joined : c[2] \in a.shown => c[1] \in a.shown \cup a.unread
EntryIsSound ==
    entry # None =>
        /\ entry \in Answered /\ entry.told \subseteq entry.unread
        /\ Endpoints!plan.via \in {"tab", "startup", "snapshot"}
        /\ InOrderOf(entry)
        /\ endpoint \notin Endpoints!Quiet => entry.unread \subseteq entry.told
        /\ Endpoints!plan.via = "tab" /\ endpoint \notin Endpoints!Old /\ ~entry.raced /\ progress >= 8 =>
              \A s \in Endpoints!Reads(endpoint) \cap Endpoints!Tracked : Covered(entry, s)
ResponseIsSound ==
    response # None =>
        /\ response \in Answered /\ response.told \subseteq response.unread
        /\ response.code = 200 =>
              /\ InOrderOf(response)
              /\ endpoint \notin Endpoints!Quiet => response.unread \subseteq response.told
              /\ response.learnt /\ (endpoint \in Endpoints!Old => ~response.kept) /\ ~response.raced =>
                    \A s \in Endpoints!Reads(endpoint) \cap Endpoints!Tracked : Covered(response, s)
Answering == EndpointTyped /\ RequestIsSound /\ EntryIsSound /\ ResponseIsSound

\* What the table of plans gives for the endpoint at hand.
LEMMA PlanRules ==
    ASSUME EndpointTyped
    PROVE  /\ Endpoints!plan.reads \in Seq(PlannedRead)
           /\ Endpoints!plan.via \in {"live", "snapshot", "tab", "startup"}
           /\ Endpoints!Reads(endpoint) = {Endpoints!plan.reads[i].of : i \in DOMAIN Endpoints!plan.reads}
           /\ \A c \in Joined :
                 /\ \E j \in DOMAIN Endpoints!plan.reads : Settled(c, j)
                 /\ Endpoints!plan.via = "snapshot" => c \in {<<"decisions", "verified">>, <<"decisions", "counts">>}
           /\ endpoint \notin Endpoints!Quiet =>
                 \A i \in DOMAIN Endpoints!plan.reads : Endpoints!plan.reads[i].fails \notin {"empty", "slow"}
           /\ Endpoints!plan.via = "tab" /\ endpoint \notin Endpoints!Old /\ Endpoints!Reads(endpoint) \cap Endpoints!Tracked # {}
                 => "learn" \in Endpoints!plan.clears /\ "profiles" \notin Endpoints!Reads(endpoint)
           /\ endpoint \notin Endpoints!Old => Endpoints!plan.via \notin {"snapshot", "startup"}
<1>1. endpoint \in DOMAIN Endpoints!Plans
  BY DEF EndpointTyped
<1>2. PlanKeeps(Endpoints!plan, endpoint)
  BY <1>1, EveryPlanKeeps DEF Endpoints!plan
<1>3. Endpoints!Reads(endpoint) = {Endpoints!plan.reads[i].of : i \in DOMAIN Endpoints!plan.reads}
  BY DEF Endpoints!Reads, Endpoints!plan
<1>4. \A s : s \in Endpoints!Reads(endpoint) <=> HasRead(Endpoints!plan, s)
  BY <1>3 DEF HasRead
<1>5. ASSUME NEW c \in Joined
      PROVE  /\ \E j \in DOMAIN Endpoints!plan.reads : Settled(c, j)
             /\ Endpoints!plan.via = "snapshot" => c \in {<<"decisions", "verified">>, <<"decisions", "counts">>}
  <2>1. /\ endpoint \notin Endpoints!Torn /\ c \in Endpoints!Causes
        /\ HasRead(Endpoints!plan, c[1]) /\ HasRead(Endpoints!plan, c[2])
    BY <1>4 DEF Joined, Endpoints!Unordered
  <2> QED BY <1>2, <2>1 DEF PlanKeeps, Settled
<1>6. endpoint \notin Endpoints!Quiet =>
         \A i \in DOMAIN Endpoints!plan.reads : Endpoints!plan.reads[i].fails \notin {"empty", "slow"}
  BY <1>2 DEF PlanKeeps
<1>7. Endpoints!plan.via = "tab" /\ endpoint \notin Endpoints!Old /\ Endpoints!Reads(endpoint) \cap Endpoints!Tracked # {}
         => "learn" \in Endpoints!plan.clears /\ "profiles" \notin Endpoints!Reads(endpoint)
  BY <1>2, <1>4 DEF PlanKeeps, Endpoints!Old
<1>8. endpoint \notin Endpoints!Old => Endpoints!plan.via \notin {"snapshot", "startup"}
  BY <1>1 DEF Endpoints!Old, Endpoints!plan
<1> QED BY <1>2, <1>3, <1>5, <1>6, <1>7, <1>8 DEF PlanKeeps

LEMMA SixReads ==
    ASSUME NEW S, NEW a \in S, NEW b \in S, NEW c \in S, NEW d \in S, NEW e \in S, NEW f \in S
    PROVE  /\ <<a, b, c, d, e, f>> \in Seq(S)
           /\ 1 \in DOMAIN <<a, b, c, d, e, f>> /\ <<a, b, c, d, e, f>>[1] = a
OBVIOUS

\* A build reads the decisions first.
LEMMA BuildRules ==
    /\ Endpoints!SharedReads \in Seq(PlannedRead)
    /\ 1 \in DOMAIN Endpoints!SharedReads /\ Endpoints!SharedReads[1].of = "decisions"
<1> DEFINE P == PlannedRead
           a == Endpoints!Strict("decisions")
           b == Endpoints!Strict("verified")
           c == Endpoints!Strict("counts")
           d == Endpoints!Strict("correct")
           e == Endpoints!Memory("receipts")
           f == Endpoints!Told("history")
<1>1. a \in P /\ b \in P /\ c \in P /\ d \in P /\ e \in P /\ f \in P /\ a.of = "decisions"
  <2>1. \A s \in Sources : /\ Endpoints!Strict(s) \in P /\ Endpoints!Memory(s) \in P /\ Endpoints!Strict(s).of = s
                            /\ Endpoints!Told(s) \in P
    BY DEF Endpoints!Strict, Endpoints!Memory, Endpoints!Told, Endpoints!Read, PlannedRead
  <2> HIDE DEF P
  <2> QED BY <2>1 DEF Sources
<1>2. Endpoints!SharedReads = <<a, b, c, d, e, f>>
  BY Zenon DEF Endpoints!SharedReads
<1> HIDE DEF P, a, b, c, d, e, f
<1>3. /\ <<a, b, c, d, e, f>> \in Seq(P)
      /\ 1 \in DOMAIN <<a, b, c, d, e, f>> /\ <<a, b, c, d, e, f>>[1] = a
  BY <1>1, SixReads
<1> QED BY <1>1, <1>2, <1>3 DEF P

\* Of a cause and what follows from it, the cause comes first and survives restarts.
LEMMA CausesComeFirst ==
    ASSUME NEW c \in Joined
    PROVE  /\ c \in Endpoints!Causes
           /\ c[1] \in Endpoints!Reads(endpoint) /\ c[2] \in Endpoints!Reads(endpoint)
           /\ c[1] \in Endpoints!Tracked /\ c[1] \notin Endpoints!Omissible /\ c[1] # "counts"
           /\ c[2] \in Names /\ c[2] # c[1] /\ ShownFrom(c[1]) <= ShownFrom(c[2])
           /\ Endpoints!Level(c[1]) = ShownFrom(c[1])
<1>1. c \in Endpoints!Causes /\ c[1] \in Endpoints!Reads(endpoint) /\ c[2] \in Endpoints!Reads(endpoint)
  BY DEF Joined
<1> QED BY <1>1 DEF Endpoints!Causes, Endpoints!Tracked, Endpoints!Omissible, Names, ShownFrom, Endpoints!Level

LEMMA Levels == \A s \in Endpoints!Tracked : Endpoints!Level(s) \in 1..9 /\ (s # "profiles" => Endpoints!Level(s) <= 7)
                    /\ ShownFrom(s) = Endpoints!Level(s)
                    /\ (s = "decisions" => Endpoints!Level(s) = 2)
BY DEF Endpoints!Tracked, Endpoints!Level, ShownFrom

\* What an answer may be made of, once all is read.
LEMMA AllIsRead ==
    ASSUME Answering, request # None, request.at > Len(Endpoints!reads),
           NEW a, a.shown = request.shown, a.unread = request.unread, a.told = request.told,
           request.role = "client" \/ ~request.raced
    PROVE  /\ InOrderOf(a)
           /\ endpoint \notin Endpoints!Quiet => a.unread \subseteq a.told
           /\ request.role = "client" /\ request.learnt =>
                 \A s \in Endpoints!Reads(endpoint) \cap Endpoints!Tracked : Covered(a, s)
           /\ Endpoints!plan.via = "tab" /\ endpoint \notin Endpoints!Old /\ ~request.raced /\ progress >= 8 =>
                 \A s \in Endpoints!Reads(endpoint) \cap Endpoints!Tracked : Covered(a, s)
<1>1. EndpointTyped /\ RequestIsSound
  BY DEF Answering
<1>2. request.role \in {"client", "builder"} /\ request.at \in Nat
  BY <1>1 DEF RequestIsSound, Asked
<1>3. Endpoints!reads \in Seq(PlannedRead)
  BY <1>1, PlanRules, BuildRules DEF Endpoints!reads
<1>4. \A i \in DOMAIN Endpoints!reads : i < request.at
  BY <1>2, <1>3
<1>5. \A i \in DOMAIN Endpoints!reads :
        Endpoints!reads[i].of \in Endpoints!Reads(endpoint) \cap Endpoints!Tracked /\ Due(Endpoints!reads[i].of)
          => Covered(a, Endpoints!reads[i].of)
  BY <1>1, <1>4 DEF RequestIsSound, Covered
<1>6. CASE request.role = "client"
  <2>1. Endpoints!reads = Endpoints!plan.reads
    BY <1>6 DEF Endpoints!reads
  <2>2. \A s \in Endpoints!Reads(endpoint) \cap Endpoints!Tracked : Due(s) => Covered(a, s)
    BY <1>1, <1>5, <2>1, PlanRules
  <2>3. InOrderOf(a)
    <3> SUFFICES ASSUME NEW c \in Joined, c[2] \in a.shown PROVE c[1] \in a.shown \cup a.unread
      BY DEF InOrderOf
    <3>1. PICK j \in DOMAIN Endpoints!plan.reads : Settled(c, j)
      BY <1>1, PlanRules
    <3> QED BY <1>1, <1>4, <1>6, <2>1, <3>1 DEF RequestIsSound
  <2>4. endpoint \notin Endpoints!Quiet => a.unread \subseteq a.told
    BY <1>1, <1>6 DEF RequestIsSound
  <2>5. Endpoints!plan.via = "tab" /\ endpoint \notin Endpoints!Old /\ ~request.raced /\ progress >= 8 =>
           \A s \in Endpoints!Reads(endpoint) \cap Endpoints!Tracked : Covered(a, s)
    BY <1>1, <2>2, PlanRules DEF Due
  <2>6. request.learnt => \A s \in Endpoints!Reads(endpoint) \cap Endpoints!Tracked : Covered(a, s)
    BY <2>2 DEF Due
  <2> QED BY <2>3, <2>4, <2>5, <2>6
<1>7. CASE request.role = "builder"
  <2>1. /\ Endpoints!reads = Endpoints!SharedReads /\ Endpoints!plan.via = "snapshot"
        /\ request.unread \subseteq {"history"} \cap request.told /\ ~request.raced
    BY <1>1, <1>7 DEF Endpoints!reads, RequestIsSound
  <2>2. InOrderOf(a)
    <3> SUFFICES ASSUME NEW c \in Joined, c[2] \in a.shown PROVE c[1] \in a.shown
      BY DEF InOrderOf
    <3>1. c \in {<<"decisions", "verified">>, <<"decisions", "counts">>}
      BY <1>1, <2>1, PlanRules
    <3>2. c[1] = "decisions" /\ c[2] \in {"verified", "counts"}
      BY <3>1
    <3>7. "decisions" \in Endpoints!Reads(endpoint)
      BY <3>2, CausesComeFirst
    <3>3. ShownFrom(c[2]) = 6
      BY <3>2 DEF ShownFrom, Endpoints!Level
    <3>4. progress >= 3 /\ "score" \notin omitted
      BY <1>1, <2>1, <3>3 DEF RequestIsSound, EndpointTyped, Joined, Endpoints!Unordered
    <3>5. Due("decisions")
      BY <2>1, <3>4 DEF Due
    <3>6. Covered(a, "decisions")
      BY <1>5, <2>1, <3>5, <3>7, BuildRules DEF Endpoints!Tracked
    <3> QED BY <1>1, <2>1, <3>2, <3>6 DEF Covered, EndpointTyped, Endpoints!Omissible
  <2> QED BY <1>7, <2>1, <2>2
<1> QED BY <1>2, <1>6, <1>7

\* The end of a request: an answer, kept if it is a good one.
LEMMA SettlingKeepsAnswering ==
    ASSUME Answering, request # None,
           NEW code \in {200, 404, 503}, NEW ended \in Asked, ended.role = request.role, ended.told \subseteq ended.unread,
           code = 200 => ended = request /\ request.at > Len(Endpoints!reads),
           Endpoints!Settle(code, ended), UNCHANGED <<endpoint, progress, restarts, omitted>>
    PROVE  Answering'
<1> DEFINE a == Endpoints!Result(code, ended)
<1>1. EndpointTyped /\ RequestIsSound /\ EntryIsSound /\ ResponseIsSound
  BY DEF Answering
<1>2. /\ a \in Answered /\ a.shown = ended.shown /\ a.unread = ended.unread /\ a.told = ended.told
      /\ a.code = code /\ a.learnt = ended.learnt /\ a.raced = ended.raced
  BY DEF Endpoints!Result, Answered, Asked
<1>3. /\ request' = None
      /\ response' = (IF ended.role = "client" THEN a ELSE response)
      /\ entry' = (IF code = 200 /\ (Endpoints!plan.via \in {"tab", "startup"} \/ (ended.role = "builder" /\ ~ended.raced))
                   THEN a ELSE entry)
  BY DEF Endpoints!Settle
<1> HIDE DEF a
<1>4. /\ Endpoints!plan' = Endpoints!plan /\ Joined' = Joined /\ Endpoints!Reads(endpoint)' = Endpoints!Reads(endpoint)
      /\ \A x, s : Covered(x, s)' = Covered(x, s)
  BY DEF Endpoints!plan, Joined, Endpoints!Unordered, Endpoints!Reads, Covered
<1>5. request.role = "builder" => Endpoints!plan.via = "snapshot"
  BY <1>1 DEF RequestIsSound
<1>6. ASSUME code = 200, request.role = "client" \/ ~request.raced
      PROVE  /\ InOrderOf(a)
             /\ endpoint \notin Endpoints!Quiet => a.unread \subseteq a.told
             /\ request.role = "client" /\ a.learnt =>
                   \A s \in Endpoints!Reads(endpoint) \cap Endpoints!Tracked : Covered(a, s)
             /\ Endpoints!plan.via = "tab" /\ endpoint \notin Endpoints!Old /\ ~a.raced /\ progress >= 8 =>
                   \A s \in Endpoints!Reads(endpoint) \cap Endpoints!Tracked : Covered(a, s)
  BY <1>2, <1>6, AllIsRead
<1>7. EndpointTyped' /\ RequestIsSound'
  BY <1>1, <1>3 DEF EndpointTyped, RequestIsSound
<1>8. EntryIsSound'
  <2>1. CASE entry' = entry
    BY <1>1, <1>4, <2>1 DEF EntryIsSound, InOrderOf
  <2>2. CASE /\ code = 200 /\ entry' = a
             /\ Endpoints!plan.via \in {"tab", "startup"} \/ (ended.role = "builder" /\ ~ended.raced)
    <3>1. /\ Endpoints!plan.via \in {"tab", "startup", "snapshot"} /\ (request.role = "client" \/ ~request.raced)
          /\ a.told \subseteq a.unread
      BY <1>1, <1>2, <1>5, <2>2 DEF RequestIsSound, Asked
    <3> QED BY <1>2, <1>4, <1>6, <2>2, <3>1 DEF EntryIsSound, InOrderOf
  <2> QED BY <1>3, <2>1, <2>2
<1>9. ResponseIsSound'
  <2>1. CASE response' = response
    BY <1>1, <1>4, <2>1 DEF ResponseIsSound, InOrderOf
  <2>2. CASE ended.role = "client" /\ response' = a
    <3>1. a.told \subseteq a.unread
      BY <1>2
    <3> QED BY <1>2, <1>4, <1>6, <2>2, <3>1 DEF ResponseIsSound, InOrderOf
  <2> QED BY <1>3, <2>1, <2>2
<1> QED BY <1>7, <1>8, <1>9 DEF Answering

\* Of what a build reads only the events may fail and be told of.
LEMMA ToldIsHistory ==
    \A i \in 1..Len(Endpoints!SharedReads) : Endpoints!SharedReads[i].fails = "told" => Endpoints!SharedReads[i].of = "history"
<1>1. Endpoints!SharedReads =
        <<Endpoints!Strict("decisions"), Endpoints!Strict("verified"), Endpoints!Strict("counts"),
          Endpoints!Strict("correct"), Endpoints!Memory("receipts"), Endpoints!Told("history")>>
  BY Zenon DEF Endpoints!SharedReads
<1>2. /\ \A s : Endpoints!Strict(s).fails = "error" /\ Endpoints!Memory(s).fails = "never"
      /\ Endpoints!Told("history").of = "history"
  BY DEF Endpoints!Strict, Endpoints!Memory, Endpoints!Told, Endpoints!Read
<1>3. /\ Len(Endpoints!SharedReads) = 6
      /\ Endpoints!SharedReads[1] = Endpoints!Strict("decisions") /\ Endpoints!SharedReads[2] = Endpoints!Strict("verified")
      /\ Endpoints!SharedReads[3] = Endpoints!Strict("counts") /\ Endpoints!SharedReads[4] = Endpoints!Strict("correct")
      /\ Endpoints!SharedReads[5] = Endpoints!Memory("receipts") /\ Endpoints!SharedReads[6] = Endpoints!Told("history")
  BY <1>1
<1>4. \A i \in 1..6 : i = 1 \/ i = 2 \/ i = 3 \/ i = 4 \/ i = 5 \/ i = 6
  OBVIOUS
<1> QED BY <1>2, <1>3, <1>4

\* Cached answers are dropped at the third stage and, by the learn request, at the eighth.
LEMMA StagesAre ==
    /\ Endpoints!Learnt = 9 /\ Endpoints!Stages[3] = "score" /\ Endpoints!Stages[8] = "learn"
    /\ \A i \in 1..9 : /\ Endpoints!Stages[i] \in Endpoints!Drops <=> i \in {3, 8}
                       /\ Endpoints!Stages[i] \in Endpoints!Omissible => i # 8
<1>1. Endpoints!Learnt = 9
  BY DEF Endpoints!Learnt, Endpoints!Stages
<1>2. /\ Endpoints!Stages[1] = "begun" /\ Endpoints!Stages[2] = "decisions" /\ Endpoints!Stages[3] = "score"
      /\ Endpoints!Stages[4] = "links" /\ Endpoints!Stages[5] = "begun" /\ Endpoints!Stages[6] = "verified"
      /\ Endpoints!Stages[7] = "receipts" /\ Endpoints!Stages[8] = "learn" /\ Endpoints!Stages[9] = "profiles"
  BY DEF Endpoints!Stages
<1>3. \A i \in 1..9 : i = 1 \/ i = 2 \/ i = 3 \/ i = 4 \/ i = 5 \/ i = 6 \/ i = 7 \/ i = 8 \/ i = 9
  OBVIOUS
<1>4. \A i \in 1..9 : /\ Endpoints!Stages[i] \in Endpoints!Drops <=> i \in {3, 8}
                      /\ Endpoints!Stages[i] \in Endpoints!Omissible => i # 8
  BY <1>2, <1>3 DEF Endpoints!Drops, Endpoints!Omissible
<1> QED BY <1>1, <1>2, <1>4

LEMMA RequestsAdvance ==
    ASSUME Endpoints!Advance
    PROVE  /\ progress < Endpoints!Learnt /\ progress' = progress + 1 /\ response' = None
           /\ UNCHANGED <<endpoint, restarts>>
           /\ \/ /\ Endpoints!Stages[progress + 1] \in Endpoints!Omissible
                 /\ omitted' = omitted \cup {Endpoints!Stages[progress + 1]} /\ entry' = entry /\ request' = request
              \/ /\ omitted' = omitted
                 /\ Endpoints!Stages[progress + 1] \in Endpoints!plan.clears => entry' = None
                 /\ entry' = None \/ entry' = entry
                 /\ Endpoints!Stages[progress + 1] \in Endpoints!Drops /\ request # None =>
                       request' = [request EXCEPT !.raced = TRUE]
                 /\ ~(Endpoints!Stages[progress + 1] \in Endpoints!Drops /\ request # None) => request' = request
BY Zenon DEF Endpoints!Advance

LEMMA AnsweringAtFirst == ASSUME Endpoints!EndpointsAssumption, Endpoints!Init PROVE Answering
<1>1. endpoint \in DOMAIN Endpoints!Plans /\ progress = 0 /\ restarts = 0 /\ entry = None /\ request = None
      /\ response = None
  BY DEF Endpoints!Init
<1>2. omitted = {}
  BY DEF Endpoints!Init
<1>3. 0 \in 0..MaxRestarts
  BY DEF Endpoints!EndpointsAssumption
<1> QED BY <1>1, <1>2, <1>3 DEF Answering, EndpointTyped, RequestIsSound, EntryIsSound, ResponseIsSound

\* A step of the decision: a drop of cached answers races with what is under way.
LEMMA AdvanceKeepsAnswering == ASSUME Answering, Endpoints!Advance PROVE Answering'
<1>1. EndpointTyped /\ RequestIsSound /\ EntryIsSound /\ ResponseIsSound
  BY DEF Answering
<1>2. progress \in 0..8 /\ progress' = progress + 1 /\ UNCHANGED <<endpoint, restarts>> /\ response' = None
  BY <1>1, StagesAre, RequestsAdvance DEF EndpointTyped
<1>3. /\ omitted \subseteq omitted' /\ omitted' \subseteq Endpoints!Omissible
      /\ progress' = 8 => omitted' = omitted
  BY <1>1, <1>2, StagesAre, RequestsAdvance DEF EndpointTyped
<1>4. /\ Endpoints!plan' = Endpoints!plan /\ Endpoints!Reads(endpoint)' = Endpoints!Reads(endpoint)
      /\ \A x, s : Covered(x, s) => Covered(x, s)'
  BY <1>2, <1>3 DEF Endpoints!plan, Endpoints!Reads, Covered
<1>5. Joined' \subseteq Joined
  BY <1>2, <1>3, <1>4 DEF Joined, Endpoints!Unordered
<1>6. EndpointTyped' /\ ResponseIsSound'
  BY <1>1, <1>2, <1>3 DEF EndpointTyped, ResponseIsSound
<1>7. RequestIsSound'
  <2>1. CASE request = None
    BY <2>1, RequestsAdvance DEF RequestIsSound
  <2>2. CASE request # None
    <3>1. /\ request \in Asked /\ ~request.learnt
          /\ \A s \in request.shown : ShownFrom(s) <= progress'
      <4>1. \A s \in Names : ShownFrom(s) \in 1..9
        BY Levels DEF Names, ShownFrom
      <4> QED BY <1>1, <1>2, <2>2, <4>1 DEF RequestIsSound, Asked
    <3>2. CASE request' = [request EXCEPT !.raced = TRUE]
      <4>1. /\ request' \in Asked /\ request'.role = request.role /\ request'.at = request.at
            /\ request'.shown = request.shown /\ request'.unread = request.unread /\ request'.told = request.told
            /\ request'.raced /\ request'.learnt = request.learnt
        BY <3>1, <3>2 DEF Asked
      <4>2. Endpoints!reads' = Endpoints!reads
        BY <1>4, <4>1 DEF Endpoints!reads
      <4>3. \A s : ~Due(s)'
        BY <3>1, <4>1 DEF Due
      <4>4. \A c, j : Settled(c, j)' = Settled(c, j)
        BY <1>4 DEF Settled
      <4> QED BY <1>1, <1>2, <1>4, <1>5, <2>2, <3>1, <4>1, <4>2, <4>3, <4>4 DEF RequestIsSound
    <3>3. CASE request' = request
      <4>1. \A s : Due(s)' => Due(s)
        <5>1. CASE progress' = 3
          <6>1. "score" \in omitted' \/ request' = [request EXCEPT !.raced = TRUE]
            BY <1>2, <2>2, <5>1, StagesAre, RequestsAdvance
          <6>2. request' = [request EXCEPT !.raced = TRUE] => request'.raced
            BY <3>1 DEF Asked
          <6> QED BY <1>2, <3>1, <3>3, <5>1, <6>1, <6>2 DEF Due
        <5>2. CASE progress' = 8
          <6>1. request' = [request EXCEPT !.raced = TRUE]
            BY <1>2, <2>2, <5>2, StagesAre, RequestsAdvance
          <6>2. request'.raced
            BY <3>1, <6>1 DEF Asked
          <6> QED BY <3>1, <3>3, <6>2 DEF Due
        <5>3. CASE progress' \notin {3, 8}
          BY <1>2, <1>3, <3>3, <5>3 DEF Due
        <5> QED BY <5>1, <5>2, <5>3
      <4>2. Endpoints!reads' = Endpoints!reads
        BY <1>4, <3>3 DEF Endpoints!reads
      <4>3. \A c, j : Settled(c, j)' = Settled(c, j)
        BY <1>4 DEF Settled
      <4> QED BY <1>1, <1>2, <1>4, <1>5, <2>2, <3>1, <3>3, <4>1, <4>2, <4>3 DEF RequestIsSound
    <3> QED BY <3>2, <3>3, RequestsAdvance
  <2> QED BY <2>1, <2>2
<1>8. EntryIsSound'
  <2>1. CASE entry' = None
    BY <2>1 DEF EntryIsSound
  <2>2. CASE entry' # None
    <3>1. entry' = entry /\ (progress' = 8 => "learn" \notin Endpoints!plan.clears)
      BY <1>2, <2>2, StagesAre, RequestsAdvance
    <3>2. InOrderOf(entry) => InOrderOf(entry)'
      BY <1>5, <3>1 DEF InOrderOf
    <3>3. CASE progress' = 8
      <4>1. Endpoints!plan.via = "tab" /\ endpoint \notin Endpoints!Old =>
               Endpoints!Reads(endpoint) \cap Endpoints!Tracked = {}
        BY <1>1, <3>1, <3>3, PlanRules
      <4> QED BY <1>1, <1>2, <1>4, <2>2, <3>1, <3>2, <4>1 DEF EntryIsSound
    <3>4. CASE progress' # 8
      <4>1. progress' >= 8 => progress >= 8
        BY <1>2, <3>4
      <4> QED BY <1>1, <1>2, <1>4, <2>2, <3>1, <3>2, <4>1 DEF EntryIsSound
    <3> QED BY <3>3, <3>4
  <2> QED BY <2>1, <2>2
<1> QED BY <1>6, <1>7, <1>8 DEF Answering

LEMMA RestartKeepsAnswering ==
    ASSUME Endpoints!EndpointsAssumption, Answering, Endpoints!Restart PROVE Answering'
<1>1. EndpointTyped
  BY DEF Answering
<1>2. endpoint' = endpoint /\ restarts' \in 0..MaxRestarts /\ omitted' \in SUBSET Endpoints!Omissible
      /\ entry' = None /\ request' = None /\ response' = None
  BY <1>1 DEF Endpoints!Restart, Endpoints!EndpointsAssumption, Endpoints!Omissible, Endpoints!InMemory, EndpointTyped
<1>3. progress' \in 0..9
  BY <1>1, StagesAre DEF Endpoints!Restart, Endpoints!Level, EndpointTyped
<1> QED BY <1>1, <1>2, <1>3 DEF Answering, EndpointTyped, RequestIsSound, EntryIsSound, ResponseIsSound

\* A request, or a build, at its first read.
LEMMA FirstRead ==
    ASSUME EndpointTyped, NEW role \in {"client", "builder"}, role = "builder" => Endpoints!plan.via = "snapshot",
           request' = Endpoints!Begin(role), UNCHANGED <<endpoint, progress, omitted>>
    PROVE  RequestIsSound'
<1>1. /\ request' \in Asked /\ request'.role = role /\ request'.at = 1 /\ request'.shown = {}
      /\ request'.unread = {} /\ request'.told = {} /\ (request'.learnt => progress = 9)
  BY StagesAre DEF Endpoints!Begin, Asked
<1>2. Endpoints!plan' = Endpoints!plan
  BY DEF Endpoints!plan
<1>3. Endpoints!reads' \in Seq(PlannedRead)
  BY <1>2, PlanRules, BuildRules DEF Endpoints!reads
<1>4. \A i \in DOMAIN Endpoints!reads' : ~(i < request'.at)
  BY <1>1, <1>3
<1>5. \A j \in DOMAIN Endpoints!plan'.reads : ~(j < request'.at)
  BY <1>1, <1>2, PlanRules
<1> QED BY <1>1, <1>2, <1>3, <1>4, <1>5 DEF RequestIsSound

LEMMA AskKeepsAnswering == ASSUME Answering, Endpoints!Ask PROVE Answering'
<1>1. EndpointTyped /\ RequestIsSound /\ EntryIsSound /\ ResponseIsSound
  BY DEF Answering
<1>2. request = None /\ UNCHANGED <<endpoint, progress, restarts, omitted, entry>>
  BY DEF Endpoints!Ask
<1>3. /\ Endpoints!plan' = Endpoints!plan /\ Joined' = Joined /\ Endpoints!Reads(endpoint)' = Endpoints!Reads(endpoint)
      /\ \A x, s : Covered(x, s)' = Covered(x, s)
  BY <1>2 DEF Endpoints!plan, Joined, Endpoints!Unordered, Endpoints!Reads, Covered
<1>4. EndpointTyped' /\ EntryIsSound'
  BY <1>1, <1>2, <1>3 DEF EndpointTyped, EntryIsSound, InOrderOf
<1>5. CASE entry # None
  <2>1. request' = None
        /\ response' = [entry EXCEPT !.learnt = (progress = Endpoints!Learnt), !.kept = TRUE]
    BY <1>2, <1>5 DEF Endpoints!Ask
  <2>2. /\ response' \in Answered /\ response'.shown = entry.shown /\ response'.unread = entry.unread
        /\ response'.told = entry.told /\ response'.raced = entry.raced /\ response'.kept
        /\ (response'.learnt => progress = 9)
    <3>1. entry \in Answered /\ (progress = Endpoints!Learnt) \in BOOLEAN
      BY <1>1, <1>5 DEF EntryIsSound
    <3>2. /\ response' \in Answered /\ response'.shown = entry.shown /\ response'.unread = entry.unread
          /\ response'.told = entry.told /\ response'.raced = entry.raced
          /\ response'.learnt = (progress = Endpoints!Learnt) /\ response'.kept = TRUE
      <4> DEFINE B == BOOLEAN
                 b == progress = Endpoints!Learnt
                 t == TRUE
                 C == {200, 404, 503}
                 N == SUBSET Names
                 U == SUBSET Sources
      <4>1. b \in B /\ t \in B /\ response' = [entry EXCEPT !.learnt = b, !.kept = t]
        BY <2>1
      <4>2. Answered = [code : C, shown : N, unread : U, told : U, raced : B, learnt : B, kept : B]
        BY Zenon DEF Answered
      <4> HIDE DEF B, b, t, C, N, U
      <4>3. /\ response' \in Answered /\ response'.shown = entry.shown /\ response'.unread = entry.unread
            /\ response'.told = entry.told /\ response'.raced = entry.raced /\ response'.learnt = b
            /\ response'.kept = t
        BY <3>1, <4>1, <4>2
      <4> QED BY <4>3 DEF b, t
    <3>3. (response'.learnt => progress = Endpoints!Learnt) /\ response'.kept
      BY <3>2, Zenon
    <3> QED BY <3>2, <3>3, StagesAre
  <2>3. \A s : Covered(entry, s) => Covered(response, s)'
    BY <1>2, <2>2 DEF Covered
  <2>4. endpoint \notin Endpoints!Old => Endpoints!plan.via = "tab"
    BY <1>1, <1>5, PlanRules DEF EntryIsSound
  <2>5. ResponseIsSound'
    BY <1>1, <1>2, <1>3, <1>5, <2>2, <2>3, <2>4 DEF EntryIsSound, ResponseIsSound, InOrderOf
  <2> QED BY <1>4, <2>1, <2>5 DEF Answering, RequestIsSound
<1>6. CASE entry = None
  <2>1. request' = Endpoints!Begin("client") /\ response' = None
    BY <1>6 DEF Endpoints!Ask
  <2> QED BY <1>1, <1>2, <1>4, <2>1, FirstRead DEF Answering, ResponseIsSound
<1> QED BY <1>5, <1>6

LEMMA BuildKeepsAnswering == ASSUME Answering, Endpoints!Build PROVE Answering'
<1>1. EndpointTyped /\ EntryIsSound /\ ResponseIsSound
  BY DEF Answering
<1>2. /\ Endpoints!plan.via = "snapshot" /\ request' = Endpoints!Begin("builder")
      /\ UNCHANGED <<endpoint, progress, restarts, omitted, entry>> /\ response' = None
  BY DEF Endpoints!Build
<1>3. /\ Endpoints!plan' = Endpoints!plan /\ Joined' = Joined /\ Endpoints!Reads(endpoint)' = Endpoints!Reads(endpoint)
      /\ \A x, s : Covered(x, s)' = Covered(x, s)
  BY <1>2 DEF Endpoints!plan, Joined, Endpoints!Unordered, Endpoints!Reads, Covered
<1>4. EndpointTyped' /\ EntryIsSound' /\ ResponseIsSound'
  BY <1>1, <1>2, <1>3 DEF EndpointTyped, EntryIsSound, ResponseIsSound, InOrderOf
<1> QED BY <1>1, <1>2, <1>4, FirstRead DEF Answering

\* One read more: what it finds is shown from its stage on, what it was due to find
\* is covered, and a cause is looked for after all that follows from it.
LEMMA ReadingOn ==
    ASSUME Answering, Endpoints!Reading, UNCHANGED <<endpoint, progress, restarts, omitted, entry, response>>,
           NEW s, s = Endpoints!read.of,
           request' \in Asked, request'.at = request.at + 1, request'.role = request.role,
           request'.raced = request.raced, request'.learnt = request.learnt,
           request.shown \subseteq request'.shown, request.unread \subseteq request'.unread,
           request'.shown \subseteq request.shown \cup {s}, request'.told \subseteq request'.unread,
           s \in request'.shown => s \in request.shown \/ ShownFrom(s) <= progress,
           request.role = "builder" => request'.unread \subseteq {"history"} \cap request'.told,
           request.role = "client" /\ endpoint \notin Endpoints!Quiet => request'.unread \subseteq request'.told,
           s \in Endpoints!Reads(endpoint) \cap Endpoints!Tracked /\ ShownFrom(s) <= progress => Covered(request', s)
    PROVE  Answering'
<1>1. EndpointTyped /\ RequestIsSound /\ EntryIsSound /\ ResponseIsSound
  BY DEF Answering
<1>2. /\ Endpoints!plan' = Endpoints!plan /\ Joined' = Joined /\ Endpoints!Reads(endpoint)' = Endpoints!Reads(endpoint)
      /\ \A x, y : Covered(x, y)' = Covered(x', y)
      /\ \A x, y : Settled(x, y)' = Settled(x, y)
      /\ \A x : Due(x)' => Due(x)
  BY DEF Endpoints!plan, Joined, Endpoints!Unordered, Endpoints!Reads, Covered, Settled, Due
<1>3. EndpointTyped' /\ EntryIsSound' /\ ResponseIsSound'
  BY <1>1, <1>2 DEF EndpointTyped, EntryIsSound, ResponseIsSound, InOrderOf, Covered
<1>4. /\ request # None /\ request \in Asked /\ request.at \in 1..Len(Endpoints!reads)
      /\ Endpoints!reads \in Seq(PlannedRead) /\ s = Endpoints!reads[request.at].of
      /\ Endpoints!reads' = Endpoints!reads
  <2>1. request # None /\ request \in Asked /\ request.at <= Len(Endpoints!reads)
    BY <1>1 DEF Endpoints!Reading, RequestIsSound
  <2>2. Endpoints!reads \in Seq(PlannedRead)
    BY <1>1, PlanRules, BuildRules DEF Endpoints!reads
  <2>3. Endpoints!reads' = Endpoints!reads
    BY <1>2 DEF Endpoints!reads
  <2> QED BY <1>1, <2>1, <2>2, <2>3 DEF RequestIsSound, Endpoints!read
<1>5. \A x \in request'.shown : ShownFrom(x) <= progress
  BY <1>1, <1>4 DEF RequestIsSound
<1>6. ASSUME NEW i \in DOMAIN Endpoints!reads, i < request'.at,
             Endpoints!reads[i].of \in Endpoints!Reads(endpoint) \cap Endpoints!Tracked, Due(Endpoints!reads[i].of)
      PROVE  Covered(request', Endpoints!reads[i].of)
  <2>1. CASE i < request.at
    <3>1. Covered(request, Endpoints!reads[i].of)
      BY <1>1, <1>4, <1>6, <2>1 DEF RequestIsSound
    <3> QED BY <3>1 DEF Covered
  <2>2. CASE i = request.at
    <3>1. s \in Endpoints!Reads(endpoint) \cap Endpoints!Tracked /\ Due(s)
      BY <1>4, <1>6, <2>2
    <3>2. ShownFrom(s) <= progress
      BY <1>1, <1>4, <3>1, Levels DEF Due, RequestIsSound, EndpointTyped
    <3> QED BY <1>4, <2>2, <3>1, <3>2
  <2>3. i < request.at \/ i = request.at
    BY <1>4, <1>6
  <2> QED BY <2>1, <2>2, <2>3
<1>7. ASSUME request.role = "client", NEW c \in Joined, NEW j \in DOMAIN Endpoints!plan.reads,
             Settled(c, j), j < request'.at, c[2] \in request'.shown
      PROVE  c[1] \in request'.shown \cup request'.unread
  <2>1. Endpoints!reads = Endpoints!plan.reads
    BY <1>7 DEF Endpoints!reads
  <2>2. j < request.at \/ j = request.at
    BY <1>4, <1>7, <2>1
  <2>3. CASE c[2] \notin request.shown
    <3>1. c[2] = s
      BY <1>7, <2>3
    <3>2. request.at < j
      BY <1>4, <1>7, <2>1, <3>1 DEF Settled
    <3> QED BY <1>4, <2>1, <2>2, <3>2
  <2>4. CASE c[2] \in request.shown /\ j < request.at
    BY <1>1, <1>4, <1>7, <2>4 DEF RequestIsSound
  <2>5. CASE c[2] \in request.shown /\ j = request.at
    <3>1. s = c[1]
      BY <1>4, <1>7, <2>1, <2>5 DEF Settled
    <3>2. ShownFrom(c[2]) <= progress
      BY <1>7, <1>5
    <3>3. ShownFrom(c[1]) <= ShownFrom(c[2]) /\ c[1] \in Endpoints!Tracked /\ c[1] \notin Endpoints!Omissible
          /\ ShownFrom(c[1]) \in Nat /\ ShownFrom(c[2]) \in Nat
      BY <1>7, CausesComeFirst, Levels DEF Names, ShownFrom
    <3>4. Covered(request', c[1]) /\ c[1] \notin omitted
      BY <1>1, <1>7, <3>1, <3>2, <3>3, CausesComeFirst DEF EndpointTyped
    <3> QED BY <3>4 DEF Covered
  <2> QED BY <2>2, <2>3, <2>4, <2>5
<1>8. RequestIsSound'
  <2>1. request'.at \in 1..Len(Endpoints!reads') + 1
    BY <1>4
  <2>2. request.learnt => progress = 9
    BY <1>1, <1>4 DEF RequestIsSound
  <2>3. request'.role = "builder" =>
           Endpoints!plan.via = "snapshot" /\ request'.unread \subseteq {"history"} \cap request'.told
    BY <1>1, <1>4 DEF RequestIsSound
  <2> QED BY <1>2, <1>4, <1>5, <1>6, <1>7, <2>1, <2>2, <2>3 DEF RequestIsSound
<1> QED BY <1>3, <1>8 DEF Answering

\* The read at hand, of a request that is sound.
LEMMA ReadAtHand ==
    ASSUME Answering, Endpoints!Reading
    PROVE  /\ EndpointTyped /\ RequestIsSound
           /\ request # None /\ request \in Asked /\ request.at \in 1..Len(Endpoints!reads)
           /\ request.role \in {"client", "builder"} /\ request.told \subseteq request.unread
           /\ Endpoints!read \in PlannedRead
           /\ request.role = "builder" =>
                 Endpoints!plan.via = "snapshot" /\ request.unread \subseteq {"history"} \cap request.told
           /\ request.role = "client" /\ endpoint \notin Endpoints!Quiet =>
                 request.unread \subseteq request.told /\ Endpoints!read.fails \notin {"empty", "slow"}
<1>1. EndpointTyped /\ RequestIsSound
  BY DEF Answering
<1>2. request # None /\ request \in Asked /\ request.at \in 1..Len(Endpoints!reads)
  <2>1. request # None /\ request \in Asked /\ request.at <= Len(Endpoints!reads)
    BY <1>1 DEF Endpoints!Reading, RequestIsSound
  <2>2. Endpoints!reads \in Seq(PlannedRead)
    BY <1>1, PlanRules, BuildRules DEF Endpoints!reads
  <2> QED BY <1>1, <2>1, <2>2 DEF RequestIsSound
<1>3. Endpoints!reads \in Seq(PlannedRead)
  BY <1>1, PlanRules, BuildRules DEF Endpoints!reads
<1>4. Endpoints!read \in PlannedRead
  BY <1>2, <1>3 DEF Endpoints!read
<1>5. ASSUME request.role = "client", endpoint \notin Endpoints!Quiet
      PROVE  request.unread \subseteq request.told /\ Endpoints!read.fails \notin {"empty", "slow"}
  <2>1. Endpoints!reads = Endpoints!plan.reads
    BY <1>5 DEF Endpoints!reads
  <2>2. \A i \in DOMAIN Endpoints!plan.reads : Endpoints!plan.reads[i].fails \notin {"empty", "slow"}
    BY <1>1, <1>5, PlanRules
  <2> QED BY <1>1, <1>2, <1>3, <1>5, <2>1, <2>2 DEF RequestIsSound, Endpoints!read
<1> QED BY <1>1, <1>2, <1>4, <1>5 DEF RequestIsSound, Asked

LEMMA ReadSucceedsKeepsAnswering == ASSUME Answering, Endpoints!ReadSucceeds PROVE Answering'
<1> DEFINE s == Endpoints!read.of
           source == IF s = "counts" THEN "verified" ELSE s
           found == Endpoints!Showing(source)
           shown == IF found THEN request.shown \cup {s} ELSE request.shown
<1>1. Endpoints!Reading /\ UNCHANGED <<endpoint, progress, restarts, omitted>>
  BY DEF Endpoints!ReadSucceeds
<1>2. \/ Endpoints!Settle(404, request)
      \/ request' = [request EXCEPT !.at = @ + 1, !.shown = shown] /\ UNCHANGED <<entry, response>>
  BY DEF Endpoints!ReadSucceeds
<1>3. CASE Endpoints!Settle(404, request)
  BY <1>1, <1>3, ReadAtHand, SettlingKeepsAnswering
<1>4. CASE request' = [request EXCEPT !.at = @ + 1, !.shown = shown] /\ UNCHANGED <<entry, response>>
  <2>1. found => s \in Names /\ ShownFrom(s) <= progress
    <3>1. CASE s = "counts"
      BY <3>1 DEF Endpoints!Showing, Names, ShownFrom, Endpoints!Level
    <3>2. CASE s # "counts"
      BY <3>2 DEF Endpoints!Showing, Names, ShownFrom
    <3> QED BY <3>1, <3>2
  <2>2. s \in Endpoints!Tracked /\ ShownFrom(s) <= progress /\ ~found => s \in omitted
    <3>1. s \in Endpoints!Tracked => s # "counts"
      BY DEF Endpoints!Tracked
    <3> QED BY <1>1, <3>1, ReadAtHand, Levels DEF Endpoints!Showing, ShownFrom, EndpointTyped
  <2>3. shown \in SUBSET Names /\ request.shown \subseteq shown /\ shown \subseteq request.shown \cup {s}
    BY <1>1, <2>1, ReadAtHand DEF Asked
  <2>4. (found => s \in shown) /\ (s \in shown => s \in request.shown \/ found)
    OBVIOUS
  <2> HIDE DEF shown, found, s
  <2>5. /\ request' \in Asked /\ request'.at = request.at + 1 /\ request'.role = request.role
        /\ request'.raced = request.raced /\ request'.learnt = request.learnt /\ request'.shown = shown
        /\ request'.unread = request.unread /\ request'.told = request.told
    <3> DEFINE R == {"client", "builder"}
               N == SUBSET Names
               U == SUBSET Sources
               B == BOOLEAN
    <3>1. Asked = [role : R, at : Nat, shown : N, unread : U, told : U, raced : B, learnt : B]
      BY Zenon DEF Asked
    <3>2. request \in Asked /\ shown \in N /\ request.at + 1 \in Nat
      BY <1>1, <2>3, ReadAtHand DEF Asked
    <3> HIDE DEF R, N, U, B
    <3> QED BY <1>4, <3>1, <3>2
  <2>6. s \in Endpoints!Tracked /\ ShownFrom(s) <= progress => Covered(request', s)
    BY <2>2, <2>4, <2>5 DEF Covered
  <2>7. s = Endpoints!read.of
    BY DEF s
  <2> QED BY <1>1, <1>4, <2>1, <2>3, <2>4, <2>5, <2>6, <2>7, ReadAtHand, ReadingOn
<1> QED BY <1>2, <1>3, <1>4

LEMMA CachedCountsKeepsAnswering == ASSUME Answering, Endpoints!CachedCounts PROVE Answering'
<1>1. /\ Endpoints!Reading /\ Endpoints!read.of = "counts" /\ request' = [request EXCEPT !.at = @ + 1]
      /\ UNCHANGED <<endpoint, progress, restarts, omitted, entry, response>>
  BY DEF Endpoints!CachedCounts
<1>2. /\ request' \in Asked /\ request'.at = request.at + 1 /\ request'.role = request.role
      /\ request'.raced = request.raced /\ request'.learnt = request.learnt /\ request'.shown = request.shown
      /\ request'.unread = request.unread /\ request'.told = request.told
  BY <1>1, ReadAtHand DEF Asked
<1>3. "counts" \notin Endpoints!Tracked
  BY DEF Endpoints!Tracked
<1> QED BY <1>1, <1>2, <1>3, ReadAtHand, ReadingOn

\* A failed read, told or not, is marked and gone past.
LEMMA GoingPast ==
    ASSUME Answering, Endpoints!Reading, NEW b \in BOOLEAN, request' = Endpoints!Unread(b),
           UNCHANGED <<endpoint, progress, restarts, omitted, entry, response>>,
           request.role = "builder" => b /\ Endpoints!read.of = "history",
           request.role = "client" /\ endpoint \notin Endpoints!Quiet => b
    PROVE  Answering'
<1> DEFINE s == Endpoints!read.of
           owned == IF b THEN request.told \cup {s} ELSE request.told
<1>1. s \in Sources /\ request \in Asked /\ request.told \subseteq request.unread
  BY ReadAtHand DEF PlannedRead
<1>2. owned \in SUBSET Sources /\ owned \subseteq request.unread \cup {s} /\ (b => owned = request.told \cup {s})
  BY <1>1 DEF Asked
<1>3. request' = [request EXCEPT !.at = request.at + 1, !.unread = request.unread \cup {s}, !.told = owned]
  BY DEF Endpoints!Unread
<1>4. s = Endpoints!read.of
  OBVIOUS
<1> HIDE DEF s, owned
<1>5. /\ request' \in Asked /\ request'.at = request.at + 1 /\ request'.role = request.role
      /\ request'.raced = request.raced /\ request'.learnt = request.learnt /\ request'.shown = request.shown
      /\ request'.unread = request.unread \cup {s} /\ request'.told = owned
  <2> DEFINE R == {"client", "builder"}
             N == SUBSET Names
             U == SUBSET Sources
             B == BOOLEAN
  <2>1. Asked = [role : R, at : Nat, shown : N, unread : U, told : U, raced : B, learnt : B]
    BY Zenon DEF Asked
  <2>2. request \in Asked /\ owned \in U /\ request.unread \cup {s} \in U /\ request.at + 1 \in Nat
    BY <1>1, <1>2 DEF Asked
  <2> HIDE DEF R, N, U, B
  <2> QED BY <1>3, <2>1, <2>2
<1>6. request.role = "builder" => request'.unread \subseteq {"history"} \cap request'.told
  BY <1>2, <1>4, <1>5, ReadAtHand
<1>7. request.role = "client" /\ endpoint \notin Endpoints!Quiet => request'.unread \subseteq request'.told
  BY <1>2, <1>5, ReadAtHand
<1>8. Covered(request', s)
  BY <1>5 DEF Covered
<1> QED BY <1>2, <1>4, <1>5, <1>6, <1>7, <1>8, ReadAtHand, ReadingOn

LEMMA ReadFailsKeepsAnswering == ASSUME Answering, Endpoints!ReadFails PROVE Answering'
<1> DEFINE b == Endpoints!read.fails = "told"
<1>1. Endpoints!Reading /\ request.role = "client" /\ UNCHANGED <<endpoint, progress, restarts, omitted>>
  BY DEF Endpoints!ReadFails
<1>2. \/ Endpoints!Settle(503, request)
      \/ Endpoints!Settle(404, request)
      \/ /\ Endpoints!read.fails \in {"told", "empty", "slow"}
         /\ request' = Endpoints!Unread(b) /\ UNCHANGED <<entry, response>>
  BY DEF Endpoints!ReadFails
<1>3. CASE Endpoints!Settle(503, request) \/ Endpoints!Settle(404, request)
  BY <1>1, <1>3, ReadAtHand, SettlingKeepsAnswering
<1>4. CASE /\ Endpoints!read.fails \in {"told", "empty", "slow"}
           /\ request' = Endpoints!Unread(b) /\ UNCHANGED <<entry, response>>
  <2>1. endpoint \notin Endpoints!Quiet => b
    BY <1>1, <1>4, ReadAtHand
  <2>2. b \in BOOLEAN
    OBVIOUS
  <2> HIDE DEF b
  <2> QED BY <1>1, <1>4, <2>1, <2>2, GoingPast
<1> QED BY <1>2, <1>3, <1>4

LEMMA BuildFailsKeepsAnswering == ASSUME Answering, Endpoints!BuildFails PROVE Answering'
<1> DEFINE used == Endpoints!read.of \in Endpoints!Reads(endpoint)
<1>1. Endpoints!Reading /\ request.role = "builder" /\ UNCHANGED <<endpoint, progress, restarts, omitted>>
  BY DEF Endpoints!BuildFails
<1>2. \/ Endpoints!Settle(503, request)
      \/ request' = None /\ entry' \in {None, entry} /\ response' = response
      \/ Endpoints!read.of \notin Endpoints!Rows /\ Endpoints!read.fails = "told"
         /\ request' = Endpoints!Unread(TRUE) /\ UNCHANGED <<entry, response>>
      \/ Endpoints!read.of \notin Endpoints!Rows /\ ~used
         /\ request' = [request EXCEPT !.at = @ + 1] /\ UNCHANGED <<entry, response>>
  BY DEF Endpoints!BuildFails
<1>3. CASE Endpoints!Settle(503, request)
  BY <1>1, <1>3, ReadAtHand, SettlingKeepsAnswering
<1>4. CASE request' = None /\ entry' \in {None, entry} /\ response' = response
  BY <1>1, <1>4 DEF Answering, EndpointTyped, RequestIsSound, EntryIsSound, ResponseIsSound, InOrderOf,
    Endpoints!plan, Joined, Endpoints!Unordered, Endpoints!Reads, Covered
<1>5. CASE /\ Endpoints!read.of \notin Endpoints!Rows /\ Endpoints!read.fails = "told"
           /\ request' = Endpoints!Unread(TRUE) /\ UNCHANGED <<entry, response>>
  <2>1. Endpoints!read.of = "history"
    BY <1>1, <1>5, ReadAtHand, ToldIsHistory DEF Endpoints!read, Endpoints!reads
  <2> QED BY <1>1, <1>5, <2>1, GoingPast
<1>6. CASE /\ Endpoints!read.of \notin Endpoints!Rows /\ ~used
           /\ request' = [request EXCEPT !.at = @ + 1] /\ UNCHANGED <<entry, response>>
  <2>1. /\ request' \in Asked /\ request'.at = request.at + 1 /\ request'.role = request.role
        /\ request'.raced = request.raced /\ request'.learnt = request.learnt /\ request'.shown = request.shown
        /\ request'.unread = request.unread /\ request'.told = request.told
    BY <1>1, <1>6, ReadAtHand DEF Asked
  <2> QED BY <1>1, <1>6, <2>1, ReadAtHand, ReadingOn
<1> QED BY <1>2, <1>3, <1>4, <1>5, <1>6

LEMMA TimesOutKeepsAnswering == ASSUME Answering, Endpoints!TimesOut PROVE Answering'
<1>1. Endpoints!Reading /\ Endpoints!Settle(503, request) /\ UNCHANGED <<endpoint, progress, restarts, omitted>>
  BY DEF Endpoints!TimesOut
<1> QED BY <1>1, ReadAtHand, SettlingKeepsAnswering

LEMMA AnswerKeepsAnswering == ASSUME Answering, Endpoints!Answer PROVE Answering'
<1>1. /\ request # None /\ request.at > Len(Endpoints!reads) /\ Endpoints!Settle(200, request)
      /\ UNCHANGED <<endpoint, progress, restarts, omitted>>
  BY DEF Endpoints!Answer
<1>2. request \in Asked /\ request.told \subseteq request.unread
  BY <1>1 DEF Answering, RequestIsSound
<1> QED BY <1>1, <1>2, SettlingKeepsAnswering

LEMMA ExpireKeepsAnswering == ASSUME Answering, Endpoints!Expire PROVE Answering'
<1>1. entry' = None /\ response' = None /\ UNCHANGED <<endpoint, progress, restarts, omitted, request>>
  BY DEF Endpoints!Expire
<1> QED BY <1>1 DEF Answering, EndpointTyped, RequestIsSound, EntryIsSound, ResponseIsSound, InOrderOf,
    Endpoints!plan, Endpoints!reads, Joined, Endpoints!Unordered, Endpoints!Reads, Covered, Settled, Due

LEMMA AnsweringStep ==
    ASSUME Endpoints!EndpointsAssumption, Answering, [Endpoints!Next]_(Endpoints!endpointVars)
    PROVE  Answering'
<1>1. CASE Endpoints!Next
  BY <1>1, AdvanceKeepsAnswering, RestartKeepsAnswering, AskKeepsAnswering, BuildKeepsAnswering,
      ReadSucceedsKeepsAnswering, CachedCountsKeepsAnswering, ReadFailsKeepsAnswering, BuildFailsKeepsAnswering,
      TimesOutKeepsAnswering, AnswerKeepsAnswering, ExpireKeepsAnswering DEF Endpoints!Next
<1>2. CASE UNCHANGED Endpoints!endpointVars
  BY <1>2 DEF Endpoints!endpointVars, Answering, EndpointTyped, RequestIsSound, EntryIsSound, ResponseIsSound,
      InOrderOf, Endpoints!plan, Endpoints!reads, Joined, Endpoints!Unordered, Endpoints!Reads, Covered, Settled, Due
<1> QED BY <1>1, <1>2

\* Whatever fails, is cached, races with a mutation or restarts between two reads of an
\* answer, but for the routes that Torn, Quiet and Old name and what was omitted: it lists the decision of every
\* outcome it counts, says which part of it could not be read, and shows what was answered
\* to the analyst before the request came.
THEOREM AnswersStaySound ==
    ASSUME Endpoints!EndpointsAssumption
    PROVE  Spec => []AnswersAreSound
<1>1. Endpoints!Init => Answering
  BY AnsweringAtFirst
<1>2. Answering /\ [Endpoints!Next]_(Endpoints!endpointVars) => Answering'
  BY AnsweringStep
<1>3. Answering => AnswersAreSound
  <2> SUFFICES ASSUME Answering, response # None, response.code = 200 PROVE Endpoints!AnswersAreSound
    BY DEF AnswersAreSound, Endpoints!AnswersAreSound
  <2>1. /\ InOrderOf(response)
        /\ endpoint \notin Endpoints!Quiet => response.unread \subseteq response.told
        /\ response.learnt /\ (endpoint \in Endpoints!Old => ~response.kept) /\ ~response.raced =>
              \A s \in Endpoints!Reads(endpoint) \cap Endpoints!Tracked : Covered(response, s)
    BY DEF Answering, ResponseIsSound
  <2>2. ASSUME ~Endpoints!Unordered, NEW c \in Endpoints!Causes,
               {c[1], c[2]} \subseteq Endpoints!Reads(endpoint), {c[1], c[2]} \cap response.unread = {},
               c[2] \in response.shown
        PROVE  c[1] \in response.shown
    BY <2>1, <2>2 DEF InOrderOf, Joined
  <2> QED BY <2>1, <2>2 DEF Endpoints!AnswersAreSound, Covered
<1> QED BY <1>1, <1>2, <1>3, EachAlone, PTL DEF Endpoints!Spec

-----------------------------------------------------------------------------
(* Types: the statistics of the auto-approve policy *)

Counters == Policy!Counters
Unread == Policy!Nothing
\* The scores whose job was submitted, and those whose job has counted under k.
Submitted == {s \in Scores : stage[s] # "none"}
Tallied(k) == {s \in Scores : k \in filed[s]}
\* No counter shows more than was counted, nor will the job that has read it make it.
TalliesFit ==
    /\ stage \in [Scores -> {"none", "queued", "begun"}] /\ DOMAIN verdict = Scores
    /\ stats \in [Counters -> Nat] /\ filed \in [Scores -> SUBSET Counters] /\ DOMAIN caught = Scores
    /\ fresh \in [Scores -> BOOLEAN] /\ reset \in Nat
    /\ IsFiniteSet(Submitted) /\ \A s \in Scores : filed[s] # {} => stage[s] # "none"
    /\ \A k \in Counters : /\ stats[k] <= Cardinality(Tallied(k))
                           /\ reset = 0 /\ Tallied(k) # {} => stats[k] > 0
    /\ \A s \in Scores : caught[s] # Unread =>
           /\ stage[s] = "begun" /\ caught[s].of \in Counters \ filed[s]
           /\ caught[s].value \in Nat /\ caught[s].value <= Cardinality(Tallied(caught[s].of))
    /\ \A s \in Scores : reset = 0 /\ stage[s] = "begun" => fresh[s]

\* The counters of a decision are counters, and the first totals to go are totals.
LEMMA CountersAreKept ==
    ASSUME Policy!PolicyAssumption
    PROVE  /\ \A c \in PolicyCategories \cup {None} : \A r : Policy!Bumps([category |-> c, reason |-> r]) \subseteq Counters
           /\ None \notin PolicyCategories
BY DEF Policy!PolicyAssumption, Policy!Bumps, Counters, Policy!Counters, Policy!Totals, Policy!PerCategory, Policy!Total

LEMMA TallyIsFinite ==
    ASSUME TalliesFit, NEW k
    PROVE  IsFiniteSet(Tallied(k)) /\ Cardinality(Tallied(k)) \in Nat
<1>1. Tallied(k) \subseteq Submitted
  BY DEF TalliesFit, Tallied, Submitted
<1> QED BY <1>1, FS_Subset, FS_CardinalityType DEF TalliesFit

LEMMA TalliesFitAtFirst == Policy!Init => TalliesFit
<1> SUFFICES ASSUME Policy!Init PROVE TalliesFit
  OBVIOUS
<1>1. /\ stage = [s \in Scores |-> "none"] /\ verdict = [s \in Scores |-> Policy!NotYet]
      /\ stats = [k \in Counters |-> 0] /\ filed = [s \in Scores |-> {}]
      /\ caught = [s \in Scores |-> Unread] /\ fresh = [s \in Scores |-> FALSE] /\ reset = 0
  BY DEF Policy!Init, Counters, Unread
<1>2. Submitted = {} /\ \A k : Tallied(k) = {}
  BY <1>1 DEF Submitted, Tallied
<1>3. IsFiniteSet({}) /\ Cardinality({}) = 0
  BY FS_EmptySet
<1> QED BY <1>1, <1>2, <1>3 DEF TalliesFit

\* The steps that count nothing.
LEMMA QuietJobs ==
    ASSUME Policy!PolicyAssumption, TalliesFit, NEW s \in Scores, Policy!Decide(s) \/ Policy!TakeTable(s)
    PROVE  TalliesFit'
<1>1. /\ UNCHANGED <<stats, filed, caught, reset>> /\ DOMAIN verdict' = Scores
      /\ \/ stage[s] = "none" /\ stage' = [stage EXCEPT ![s] = "queued"] /\ fresh' = fresh
         \/ stage[s] = "queued" /\ stage' = [stage EXCEPT ![s] = "begun"] /\ fresh' = [fresh EXCEPT ![s] = TRUE]
  BY DEF Policy!Decide, Policy!TakeTable, TalliesFit
<1>2. /\ stage' \in [Scores -> {"none", "queued", "begun"}] /\ fresh' \in [Scores -> BOOLEAN]
      /\ \A r \in Scores : /\ stage[r] # "none" => stage'[r] # "none"
                           /\ stage[r] = "begun" => stage'[r] = "begun"
                           /\ stage'[r] = "begun" => stage[r] = "begun" \/ fresh'[r]
                           /\ fresh[r] => fresh'[r]
      /\ Submitted' = Submitted \cup {s}
  BY <1>1 DEF TalliesFit, Submitted
<1>3. IsFiniteSet(Submitted')
  BY <1>2, FS_AddElement DEF TalliesFit
<1>4. \A k : Tallied(k)' = Tallied(k)
  BY <1>1 DEF Tallied
<1>5. \A r \in Scores : reset' = 0 /\ stage'[r] = "begun" => fresh'[r]
  BY <1>1, <1>2 DEF TalliesFit
<1> QED BY <1>1, <1>2, <1>3, <1>4, <1>5 DEF TalliesFit

LEMMA ReadCounts ==
    ASSUME Policy!PolicyAssumption, TalliesFit, NEW s \in Scores, Policy!ReadCounter(s),
           Policy!Bumps(verdict[s]) \subseteq Counters
    PROVE  TalliesFit'
<1>1. PICK k \in Policy!Due(s) : caught' = [caught EXCEPT ![s] = [of |-> k, value |-> stats[k]]]
  BY DEF Policy!ReadCounter
<1>2. k \in Counters \ filed[s] /\ stage[s] = "begun" /\ UNCHANGED <<stage, verdict, stats, filed, fresh, reset>>
  BY DEF Policy!ReadCounter, Policy!Due
<1>3. stats[k] \in Nat /\ stats[k] <= Cardinality(Tallied(k))
  BY <1>2 DEF TalliesFit
<1>4. \A j : Tallied(j)' = Tallied(j)
  BY <1>2 DEF Tallied
<1>5. ASSUME NEW r \in Scores, caught'[r] # Unread
      PROVE  /\ stage'[r] = "begun" /\ caught'[r].of \in Counters \ filed'[r]
             /\ caught'[r].value \in Nat /\ caught'[r].value <= Cardinality(Tallied(caught[r].of)')
  <2>1. CASE r = s
    <3>1. caught'[r] = [of |-> k, value |-> stats[k]]
      BY <1>1, <2>1 DEF TalliesFit
    <3>2. Tallied(caught[r].of)' = Tallied(k)
      BY <1>2, <3>1 DEF Tallied
    <3> QED BY <1>2, <1>3, <2>1, <3>1, <3>2
  <2>2. CASE r # s
    <3>1. caught'[r] = caught[r]
      BY <1>1, <2>2 DEF TalliesFit
    <3>2. Tallied(caught[r].of)' = Tallied(caught[r].of)
      BY <1>2, <3>1 DEF Tallied
    <3> QED BY <1>2, <1>5, <3>1, <3>2 DEF TalliesFit
  <2> QED BY <2>1, <2>2
<1>6. DOMAIN caught' = Scores /\ Submitted' = Submitted
  BY <1>1, <1>2 DEF TalliesFit, Submitted
<1> QED BY <1>2, <1>4, <1>5, <1>6 DEF TalliesFit

\* The number stored is at most one more than the jobs counted before, and this job is
\* not one of them.
LEMMA StoreCounts ==
    ASSUME TalliesFit, NEW s \in Scores, Policy!StoreCounter(s)
    PROVE  TalliesFit'
<1>0. PICK k, v : k = caught[s].of /\ v = caught[s].value
  OBVIOUS
<1>1. /\ caught[s] # Unread /\ UNCHANGED <<stage, verdict, fresh, reset>>
      /\ filed' = [filed EXCEPT ![s] = @ \cup {k}] /\ caught' = [caught EXCEPT ![s] = Unread]
      /\ stats' = stats \/ stats' = [stats EXCEPT ![k] = v + 1]
      /\ fresh[s] => stats' = [stats EXCEPT ![k] = v + 1]
  BY <1>0 DEF Policy!StoreCounter, Unread
<1>2. /\ k \in Counters \ filed[s] /\ v \in Nat /\ v <= Cardinality(Tallied(k)) /\ stage[s] = "begun"
      /\ reset = 0 => fresh[s]
  BY <1>0, <1>1 DEF TalliesFit
<1>3. Tallied(k)' = Tallied(k) \cup {s} /\ s \notin Tallied(k) /\ \A j : j # k => Tallied(j)' = Tallied(j)
  BY <1>1, <1>2 DEF TalliesFit, Tallied
<1>4. Cardinality(Tallied(k)') = Cardinality(Tallied(k)) + 1 /\ \A j : Cardinality(Tallied(j)) \in Nat
  BY <1>3, TallyIsFinite, FS_AddElement
<1>5. stats' \in [Counters -> Nat] /\ filed' \in [Scores -> SUBSET Counters] /\ DOMAIN caught' = Scores /\ Submitted' = Submitted
  BY <1>1, <1>2 DEF TalliesFit, Submitted
<1>6. ASSUME NEW j \in Counters
      PROVE  /\ stats'[j] <= Cardinality(Tallied(j)')
             /\ reset' = 0 /\ Tallied(j)' # {} => stats'[j] > 0
  <2>1. stats[j] \in Nat /\ stats[j] <= Cardinality(Tallied(j)) /\ (reset = 0 /\ Tallied(j) # {} => stats[j] > 0)
    BY DEF TalliesFit
  <2>2. CASE j # k
    <3>1. stats'[j] = stats[j]
      BY <1>1, <2>2 DEF TalliesFit
    <3> QED BY <1>1, <1>3, <2>1, <2>2, <3>1
  <2>3. CASE j = k
    <3>1. stats'[k] = stats[k] \/ stats'[k] = v + 1
      BY <1>1, <1>2 DEF TalliesFit
    <3>2. reset = 0 => stats'[k] = v + 1
      BY <1>1, <1>2 DEF TalliesFit
    <3> QED BY <1>1, <1>2, <1>3, <1>4, <2>1, <2>3, <3>1, <3>2
  <2> QED BY <2>2, <2>3
<1>7. ASSUME NEW r \in Scores, caught'[r] # Unread
      PROVE  /\ stage'[r] = "begun" /\ caught'[r].of \in Counters \ filed'[r]
             /\ caught'[r].value \in Nat /\ caught'[r].value <= Cardinality(Tallied(caught[r].of)')
  <2>1. r # s
    BY <1>1, <1>7 DEF TalliesFit
  <2>2. caught'[r] = caught[r] /\ filed'[r] = filed[r]
    BY <1>1, <2>1 DEF TalliesFit
  <2>3. stage[r] = "begun" /\ caught[r].of \in Counters \ filed[r] /\ caught[r].value \in Nat
        /\ caught[r].value <= Cardinality(Tallied(caught[r].of))
    BY <1>7, <2>2 DEF TalliesFit
  <2>a. Tallied(caught[r].of)' = {q \in Scores : caught[r].of \in filed'[q]}
    BY <2>2 DEF Tallied
  <2>4. Cardinality(Tallied(caught[r].of)') >= Cardinality(Tallied(caught[r].of)) /\ Cardinality(Tallied(caught[r].of)') \in Nat
    <3>1. CASE caught[r].of = k
      <4>1. Tallied(caught[r].of)' = Tallied(k)'
        BY <2>a, <3>1 DEF Tallied
      <4> QED BY <1>4, <3>1, <4>1
    <3>2. CASE caught[r].of # k
      <4>1. Tallied(caught[r].of)' = Tallied(caught[r].of)
        BY <1>1, <2>a, <3>2 DEF Tallied, TalliesFit
      <4> QED BY <1>4, <4>1
    <3> QED BY <3>1, <3>2
  <2>5. \A j : Cardinality(Tallied(j)) \in Nat
    BY <1>4
  <2> QED BY <1>1, <2>2, <2>3, <2>4, <2>5
<1>8. \A r \in Scores : filed'[r] # {} => stage'[r] # "none"
  BY <1>1, <1>2 DEF TalliesFit
<1> QED BY <1>1, <1>5, <1>6, <1>7, <1>8 DEF TalliesFit

LEMMA ResetCounts == ASSUME TalliesFit, Policy!Reset PROVE TalliesFit'
<1>1. /\ reset' \in Nat /\ reset' # 0 /\ UNCHANGED <<stage, verdict, filed, caught>>
      /\ fresh' \in [Scores -> BOOLEAN]
  <2>1. reset' = reset + 1 /\ reset \in Nat /\ UNCHANGED <<stage, verdict, filed, caught>>
    BY DEF Policy!Reset, TalliesFit
  <2>2. fresh' = fresh \/ fresh' = [r \in Scores |-> FALSE]
    BY DEF Policy!Reset
  <2>3. fresh' \in [Scores -> BOOLEAN]
    BY <2>2 DEF TalliesFit
  <2> QED BY <2>1, <2>3
<1>2. /\ stats' \in [Counters -> Nat] /\ \A k \in Counters : stats'[k] = stats[k] \/ stats'[k] = 0
  BY DEF Policy!Reset, TalliesFit, Counters
<1>3. Submitted' = Submitted /\ \A k : Tallied(k)' = Tallied(k)
  BY <1>1 DEF Submitted, Tallied
<1>4. ASSUME NEW k \in Counters PROVE stats'[k] <= Cardinality(Tallied(k)')
  <2>1. stats[k] <= Cardinality(Tallied(k)) /\ Cardinality(Tallied(k)) \in Nat
    BY TallyIsFinite DEF TalliesFit
  <2> QED BY <1>2, <1>3, <2>1
<1> QED BY <1>1, <1>2, <1>3, <1>4 DEF TalliesFit

\* Every decision filed is one of the policy's.
Judged == \A s \in Scores : Policy!Bumps(verdict[s]) \subseteq Counters

LEMMA JudgedStep ==
    ASSUME Policy!PolicyAssumption, TalliesFit, Judged, [Policy!Next]_(Policy!policyVars)
    PROVE  Judged'
<1>1. CASE verdict' = verdict
  BY <1>1 DEF Judged
<1>2. ASSUME NEW s \in Scores, Policy!Decide(s) PROVE Judged'
  <2>1. PICK c \in PolicyCategories \cup {None} : \E r : verdict' = [verdict EXCEPT ![s] = [category |-> c, reason |-> r]]
    BY <1>2 DEF Policy!Decide
  <2>a. PICK r : verdict' = [verdict EXCEPT ![s] = [category |-> c, reason |-> r]]
    BY <2>1
  <2>2. \A q \in Scores : verdict'[q] = verdict[q] \/ verdict'[q] = [category |-> c, reason |-> r]
    BY <2>a DEF TalliesFit
  <2> QED BY <2>2, CountersAreKept DEF Judged
<1>3. (\E s \in Scores : Policy!Decide(s)) \/ verdict' = verdict
  BY DEF Policy!Next, Policy!policyVars, Policy!Reset, Policy!TakeTable, Policy!ReadCounter, Policy!StoreCounter
<1> QED BY <1>1, <1>2, <1>3

\* The statistics may fall behind the jobs, when two of them overlap or a reset comes
\* between, but never show more of a kind than there were.
LEMMA PolicyTypes == ASSUME Policy!PolicyAssumption PROVE Spec => []Policy!TypeOK
<1>1. Policy!Init => TalliesFit /\ Judged
  <2>1. ASSUME Policy!Init PROVE Judged
    <3>1. \A s \in Scores : verdict[s] = [category |-> None, reason |-> "none"]
      BY <2>1 DEF Policy!Init, Policy!NotYet
    <3> QED BY <3>1, CountersAreKept DEF Judged
  <2> QED BY <2>1, TalliesFitAtFirst
<1>2. TalliesFit /\ Judged /\ [Policy!Next]_(Policy!policyVars) => TalliesFit' /\ Judged'
  <2> SUFFICES ASSUME TalliesFit, Judged, [Policy!Next]_(Policy!policyVars) PROVE TalliesFit'
    BY JudgedStep
  <2>1. CASE UNCHANGED Policy!policyVars
    <3>1. UNCHANGED <<stage, verdict, stats, filed, caught, fresh, reset>>
      BY <2>1 DEF Policy!policyVars
    <3>2. Submitted' = Submitted /\ \A k : Tallied(k)' = Tallied(k)
      BY <3>1 DEF Submitted, Tallied
    <3> QED BY <3>1, <3>2 DEF TalliesFit
  <2>2. ASSUME NEW s \in Scores, Policy!ReadCounter(s) PROVE TalliesFit'
    BY <2>2, ReadCounts DEF Judged
  <2> QED BY <2>1, <2>2, QuietJobs, StoreCounts, ResetCounts DEF Policy!Next
<1>3. TalliesFit => Policy!TypeOK
  <2> SUFFICES ASSUME TalliesFit, NEW k \in Counters
               PROVE  /\ stats[k] \in 0..Cardinality(Tallied(k))
                      /\ reset = 0 /\ Tallied(k) # {} => stats[k] > 0
    <3>1. \A S : Policy!Cardinality(S) = Cardinality(S)
      BY Zenon DEF Policy!Cardinality, Cardinality
    <3> QED BY <3>1 DEF Policy!TypeOK, Policy!Counted, Tallied, Counters
  <2>1. stats[k] \in Nat /\ stats[k] <= Cardinality(Tallied(k)) /\ Cardinality(Tallied(k)) \in Nat
    BY TallyIsFinite DEF TalliesFit
  <2> QED BY <2>1 DEF TalliesFit
<1> QED BY <1>1, <1>2, <1>3, EachAlone, PTL DEF Policy!Spec

-----------------------------------------------------------------------------
(* Types: authority, oversight, deployment, budget and endpoints *)

AuthorityBounded ==
    /\ marker \in {"none", "pending", "persisted"}
    /\ archived \subseteq Authority!Contents /\ turn \in Clients \cup {None}

LEMMA AuthorityBoundedStep ==
    ASSUME Baselines, AuthorityBounded, [Authority!Next]_(Authority!authorityVars)
    PROVE  AuthorityBounded'
<1>1. CASE UNCHANGED Authority!authorityVars \/ Authority!Restart
  BY <1>1 DEF AuthorityBounded, Authority!authorityVars, Authority!Restart, Authority!twinVars
<1>2. ASSUME NEW t \in Clients, Authority!AuthorityStep(t)
      PROVE  marker' \in {"none", "pending", "persisted"} /\ turn' \in Clients \cup {None}
  BY <1>2 DEF AuthorityBounded, Authority!AuthorityStep, Authority!Promote, Authority!SavePromotion, Authority!SaveTransfer,
      Authority!RecordEvent, Authority!FreezeTwin, Authority!Refreeze, Authority!Archive, Authority!FreezeRun,
      Authority!Choose, Authority!Learn, Authority!Flush, Authority!FlushCell, Authority!FlushDone, Authority!Raise,
      Authority!Locked, Authority!Release, Authority!learnVars
<1>3. ASSUME NEW t \in Clients, Authority!AuthorityStep(t), archived' # archived
      PROVE  archived' \subseteq Authority!Contents
  <2>1. Authority!Archive(t)
    BY <1>3 DEF Authority!AuthorityStep, Authority!Promote, Authority!SavePromotion, Authority!SaveTransfer,
        Authority!RecordEvent, Authority!FreezeTwin, Authority!Refreeze, Authority!FreezeRun,
        Authority!Choose, Authority!Learn, Authority!Flush, Authority!FlushCell, Authority!FlushDone, Authority!Raise,
        Authority!twinVars
  <2>2. archived' = archived \cup {twins[chosen]} /\ twins[chosen] # None
    BY <2>1 DEF Authority!Archive
  <2>3. twins[chosen] \in Authority!Contents
    BY <2>2 DEF Baselines, TwinTyped
  <2> QED BY <2>2, <2>3 DEF AuthorityBounded
<1> QED BY <1>1, <1>2, <1>3 DEF Authority!Next, AuthorityBounded

\* The marker, the archive and the lock of the authority routes keep their types.
LEMMA AuthorityTypes == ASSUME Authority!AuthorityAssumption PROVE Spec => []Authority!TypeOK
<1>1. Authority!Init => Baselines /\ AuthorityBounded
  BY BaselinesAtFirst DEF Authority!Init, AuthorityBounded
<1>2. Baselines /\ AuthorityBounded /\ [Authority!Next]_(Authority!authorityVars) => Baselines' /\ AuthorityBounded'
  BY BaselinesStep, AuthorityBoundedStep
<1>3. Baselines /\ AuthorityBounded => Authority!TypeOK
  BY DEF Baselines, TwinTyped, AuthorityBounded, Authority!TypeOK
<1> QED BY <1>1, <1>2, <1>3, EachAlone, PTL DEF Authority!Spec

PanelBounded ==
    /\ disabled \in BOOLEAN /\ health \in Oversight!States
    /\ halted \subseteq Kinds /\ forced \subseteq Kinds

\* Centroids, counts and checkpoints stay bounded under every control.
LEMMA ScorerTypedStep ==
    ASSUME Oversight!InterventionsAssumption, ScorerTyped, file \in 0..MaxTensor \cup {None},
           [Oversight!Next]_(Oversight!interventionVars)
    PROVE  ScorerTyped' /\ file' \in 0..MaxTensor \cup {None}
<1>0. MaxTensor \in Nat /\ Oversight!NoPoint \in Checkpoints
  BY DEF Oversight!InterventionsAssumption, Oversight!NoPoint, Checkpoints
<1>1. CASE UNCHANGED Oversight!interventionVars
  BY <1>1 DEF Oversight!interventionVars, ScorerTyped
<1>2. CASE Oversight!LearnUpdate
  BY <1>0, <1>2 DEF Oversight!LearnUpdate, Oversight!LearnChecks, Oversight!LearnMoves, Oversight!LearnCounts,
     Oversight!tensorVars, Oversight!panelVars, ScorerTyped
<1>3. CASE Oversight!SaveState
  BY <1>0, <1>3 DEF Oversight!SaveState, Oversight!tensorVars, Oversight!panelVars, ScorerTyped
<1>4. ASSUME NEW o \in Operators, Oversight!Panel(o)
      PROVE  ScorerTyped' /\ file' \in 0..MaxTensor \cup {None}
  <2>1. ASSUME NEW type, Oversight!Acts(o, type) PROVE ScorerTyped' /\ file' \in 0..MaxTensor \cup {None}
    BY <2>1 DEF Oversight!Acts, Oversight!Awaits, Oversight!tensorVars, ScorerTyped
  <2>2. CASE \/ \E b \in BOOLEAN : Oversight!FreezeAll(o, b) \/ Oversight!DisableAutoApprove(o, b)
             \/ \E s \in Oversight!States : Oversight!SetConservationState(o, s)
             \/ \E k \in Kinds, b \in BOOLEAN : Oversight!FreezeCategory(o, k, b) \/ Oversight!ForceReview(o, k, b)
             \/ \E k \in Kinds : Oversight!AdjustThreshold(o, k)
    <3>1. \E type : Oversight!Acts(o, type)
      BY <2>2, Zenon DEF Oversight!FreezeAll, Oversight!DisableAutoApprove, Oversight!SetConservationState,
         Oversight!FreezeCategory, Oversight!ForceReview, Oversight!AdjustThreshold
    <3> QED BY <2>1, <3>1
  <2>3. CASE Oversight!CreateCheckpoint(o)
    <3>1. /\ target' = [target EXCEPT ![o] = [Oversight!NoPoint EXCEPT !.mu = mu]]
          /\ UNCHANGED <<mu, counts, points, file>>
      BY <2>3 DEF Oversight!CreateCheckpoint, Oversight!tensorVars
    <3>2. [Oversight!NoPoint EXCEPT !.mu = mu] \in Checkpoints
      BY <1>0 DEF Oversight!NoPoint, Checkpoints, ScorerTyped
    <3> QED BY <3>1, <3>2 DEF ScorerTyped
  <2>4. CASE Oversight!SnapshotCounts(o)
    <3>1. /\ target' = target \/ target' = [target EXCEPT ![o].counts = counts]
          /\ UNCHANGED <<mu, counts, points, file>>
      BY <2>4 DEF Oversight!SnapshotCounts, Oversight!tensorVars
    <3>2. [target[o] EXCEPT !.counts = counts] \in Checkpoints
      BY <1>0 DEF Checkpoints, ScorerTyped
    <3> QED BY <3>1, <3>2 DEF ScorerTyped
  <2>5. CASE Oversight!SaveCheckpoint(o)
    BY <1>0, <2>5 DEF Oversight!SaveCheckpoint, Oversight!tensorVars, ScorerTyped
  <2>6. CASE Oversight!Rollback(o)
    BY <1>0, <2>6 DEF Oversight!Rollback, Oversight!RestoreCentroids, ScorerTyped, Checkpoints
  <2>7. CASE Oversight!RestoreCounts(o)
    BY <1>0, <2>7 DEF Oversight!RestoreCounts, ScorerTyped, Checkpoints
  <2>8. CASE Oversight!FreezeScorer(o)
    BY <1>0, <2>8 DEF Oversight!FreezeScorer, Oversight!Awaits, Oversight!tensorVars, ScorerTyped
  <2>9. CASE Oversight!LogIntervention(o)
    BY <2>9 DEF Oversight!LogIntervention, Oversight!Recorded, Oversight!tensorVars, ScorerTyped
  <2> QED BY <1>4, <2>2, <2>3, <2>4, <2>5, <2>6, <2>7, <2>8, <2>9 DEF Oversight!Panel
<1> QED BY <1>1, <1>2, <1>3, <1>4 DEF Oversight!Next

LEMMA PanelBoundedStep ==
    ASSUME PanelBounded, [Oversight!Next]_(Oversight!interventionVars)
    PROVE  PanelBounded'
<1>1. CASE UNCHANGED Oversight!interventionVars \/ Oversight!LearnUpdate \/ Oversight!SaveState
  <2>1. UNCHANGED <<disabled, health, halted, forced>>
    BY <1>1 DEF Oversight!interventionVars, Oversight!LearnUpdate, Oversight!LearnChecks, Oversight!LearnMoves,
       Oversight!LearnCounts, Oversight!SaveState, Oversight!gateFlags
  <2> QED BY <2>1 DEF PanelBounded
<1>2. ASSUME NEW o \in Operators, Oversight!Panel(o)
      PROVE  halted' \subseteq Kinds /\ forced' \subseteq Kinds
  BY <1>2 DEF PanelBounded, Oversight!Panel, Oversight!FreezeAll, Oversight!DisableAutoApprove,
     Oversight!SetConservationState, Oversight!FreezeCategory, Oversight!ForceReview, Oversight!AdjustThreshold,
     Oversight!CreateCheckpoint, Oversight!SnapshotCounts, Oversight!SaveCheckpoint, Oversight!Rollback,
     Oversight!RestoreCounts, Oversight!FreezeScorer, Oversight!LogIntervention, Oversight!Recorded,
     Oversight!gateFlags
<1>3. ASSUME NEW o \in Operators, Oversight!Panel(o)
      PROVE  /\ disabled' = disabled \/ \E b \in BOOLEAN : Oversight!DisableAutoApprove(o, b)
             /\ health' = health \/ health' \in Oversight!States
  BY <1>3 DEF Oversight!Panel, Oversight!FreezeAll,
     Oversight!SetConservationState, Oversight!FreezeCategory, Oversight!ForceReview, Oversight!AdjustThreshold,
     Oversight!CreateCheckpoint, Oversight!SnapshotCounts, Oversight!SaveCheckpoint, Oversight!Rollback,
     Oversight!RestoreCounts, Oversight!FreezeScorer, Oversight!LogIntervention, Oversight!Recorded,
     Oversight!gateFlags, Oversight!DisableAutoApprove
<1>4. ASSUME NEW o \in Operators, NEW b \in BOOLEAN, Oversight!DisableAutoApprove(o, b)
      PROVE  disabled' \in BOOLEAN
  BY <1>4, Zenon DEF Oversight!DisableAutoApprove
<1> QED BY <1>1, <1>2, <1>3, <1>4 DEF Oversight!Next, PanelBounded

\* The panel.
LEMMA OversightTypes == ASSUME Oversight!InterventionsAssumption PROVE Spec => []Oversight!TypeOK
<1> DEFINE Typed == Panel /\ ScorerTyped /\ file \in 0..MaxTensor \cup {None} /\ PanelBounded
<1>1. Oversight!Init => Typed
  <2>1. Oversight!Init => disabled \in BOOLEAN
    BY Zenon DEF Oversight!Init
  <2>2. Oversight!Init => Panel
    BY PanelAtFirst
  <2>3. Oversight!Init => ScorerTyped
    BY DEF Oversight!Init, ScorerTyped, Checkpoints, Oversight!NoPoint, Oversight!InterventionsAssumption
  <2> QED BY <2>1, <2>2, <2>3 DEF Oversight!Init, PanelBounded, Oversight!States
<1>2. Typed /\ [Oversight!Next]_(Oversight!interventionVars) => Typed'
  BY PanelStep, ScorerTypedStep, PanelBoundedStep
<1>3. Typed => Oversight!TypeOK
  BY DEF Panel, TrailTyped, ScorerTyped, PanelBounded, Oversight!TypeOK
<1> QED BY <1>1, <1>2, <1>3, EachAlone, PTL DEF Oversight!Spec

Places == Deployment!Graphs \cup {"memory"}
Housed ==
    /\ env \in Environments /\ contents \in [Places -> Deployment!Contents]
    /\ store \in Places \cup {None} /\ shadow \in Places \cup {None}

LEMMA HousedStep ==
    ASSUME Deployment!DeploymentAssumption, Deployed, Housed, [Deployment!Next]_(Deployment!deployVars)
    PROVE  Housed'
<1>1. env.graph \in Deployment!Graphs \cup {None} /\ env.shadowGraph \in Deployment!Graphs \cup {None}
  BY DEF Housed, Deployment!DeploymentAssumption, Deployment!EveryEnvironment
<1>2. {"none", "part", "seeded", "used"} = Deployment!Contents
  BY DEF Deployment!Contents
<1>3. CASE UNCHANGED Deployment!deployVars
  BY <1>3 DEF Housed, Deployment!deployVars
<1>4. CASE Deployment!OpenStore \/ Deployment!OpenShadow
  BY <1>1, <1>4 DEF Housed, Places, Deployment!OpenStore, Deployment!OpenShadow
<1>5. CASE Deployment!Start
  BY <1>2, <1>5 DEF Housed, Places, Deployment!Start
<1>6. CASE Deployment!Validate \/ Deployment!Restore \/ Deployment!Warm \/ Deployment!RefreshLoop \/ Deployment!Shutdown
  BY <1>6 DEF Housed, Deployment!Validate, Deployment!Restore, Deployment!Warm, Deployment!RefreshLoop,
      Deployment!Shutdown
<1>7. CASE Deployment!Seed \/ Deployment!SeedRest \/ Deployment!Decide \/ Deployment!ShadowDecision
  <2>1. /\ UNCHANGED <<env, store, shadow>>
        /\ contents' = contents \/ \E what \in {"part", "seeded", "used"} : \E g : contents' = [contents EXCEPT ![g] = what]
    BY <1>7 DEF Deployment!Seed, Deployment!SeedRest, Deployment!Decide, Deployment!ShadowDecision, Deployment!Writes
  <2>2. contents' \in [Places -> Deployment!Contents]
    BY <1>2, <2>1 DEF Housed
  <2> QED BY <2>1, <2>2 DEF Housed
<1> QED BY <1>3, <1>4, <1>5, <1>6, <1>7 DEF Deployment!Next

\* The stores of a deployment are the graphs there are.
LEMMA DeploymentTypes == ASSUME Deployment!DeploymentAssumption PROVE Spec => []Deployment!TypeOK
<1>1. Deployment!Init => Deployed /\ Housed
  BY DeployedAtFirst DEF Deployment!Init, Housed, Places, Deployment!Contents
<1>2. Deployed /\ Housed /\ [Deployment!Next]_(Deployment!deployVars) => Deployed' /\ Housed'
  BY DeployedStep, HousedStep
<1>3. Housed => Deployment!TypeOK
  BY DEF Housed, Places, Deployment!TypeOK
<1> QED BY <1>1, <1>2, <1>3, EachAlone, PTL DEF Deployment!Spec

\* The budget, as it was proved for the component.
LEMMA BudgetTypes == ASSUME Budget!BudgetAssumption PROVE Spec => []Budget!TypeOK
<1>1. Persisted!Spec => []Persisted!TypeOK
  <2>1. Persisted!BudgetAssumption
    BY DEF Persisted!BudgetAssumption, Budget!BudgetAssumption
  <2> QED BY <2>1, Persisted!TypeCorrect
<1>2. Budget!Spec => Persisted!Spec
  BY SameBudget, PTL DEF Budget!Spec, Persisted!Spec
<1>3. Persisted!TypeOK => Budget!TypeOK
  BY SameSnapshots DEF Persisted!TypeOK, Budget!TypeOK
<1> QED BY <1>1, <1>2, <1>3, EachAlone, PTL

\* The endpoints: what is asked, kept and answered.
LEMMA EndpointTypes == ASSUME Endpoints!EndpointsAssumption PROVE Spec => []Endpoints!TypeOK
<1>1. Answering => Endpoints!TypeOK
  <2> SUFFICES ASSUME Answering PROVE Endpoints!TypeOK
    OBVIOUS
  <2>1. EndpointTyped /\ RequestIsSound /\ EntryIsSound /\ ResponseIsSound
    BY DEF Answering
  <2>2. /\ endpoint \in DOMAIN Endpoints!Plans /\ progress \in 0..Endpoints!Learnt
        /\ restarts \in 0..MaxRestarts /\ omitted \in SUBSET Endpoints!Omissible
    BY <2>1, StagesAre DEF EndpointTyped
  <2>3. request # None => request.role \in {"client", "builder"} /\ request.at \in 1..Len(Endpoints!reads) + 1
    BY <2>1 DEF RequestIsSound, Asked
  <2>4. \A kept \in {entry, response} \ {None} : kept.code \in {200, 404, 503} /\ kept.told \subseteq kept.unread
    BY <2>1 DEF EntryIsSound, ResponseIsSound, Answered
  <2> QED BY <2>2, <2>3, <2>4 DEF Endpoints!TypeOK
<1> QED BY <1>1, AnsweringAtFirst, AnsweringStep, EachAlone, PTL DEF Endpoints!Spec

-----------------------------------------------------------------------------
(* Types: the gate *)

\* Keeping the last n after one more leaves at most n.
LEMMA LastOfIsBounded ==
    ASSUME NEW S, NEW s \in Seq(S), NEW e \in S, NEW n \in Nat \ {0}
    PROVE  Gate!LastOf(Append(s, e), n) \in Seq(S) /\ Len(Gate!LastOf(Append(s, e), n)) <= n
<1> DEFINE all == Append(s, e)
           first == IF Len(all) > n THEN Len(all) - n + 1 ELSE 1
<1>1. all \in Seq(S) /\ Len(all) \in Nat /\ Len(all) > 0
  OBVIOUS
<1> HIDE DEF all
<1>2. first \in 1..Len(all) /\ Len(all) - first + 1 <= n
  BY <1>1
<1> HIDE DEF first
<1>3. SubSeq(all, first, Len(all)) \in Seq(S) /\ Len(SubSeq(all, first, Len(all))) = Len(all) - first + 1
  BY <1>1, <1>2
<1> QED BY <1>2, <1>3 DEF Gate!LastOf, all, first

Orderly(s) == s.right <= s.of /\ s.of <= s.verified
Observations == [category : GateCategories, novel : BOOLEAN]
GateBounded ==
    /\ Len(rows) <= MaxRows /\ Len(log) <= MaxEvents
    /\ window \in Seq(Observations) /\ Len(window) <= NoveltyWindow
    /\ \A c \in GateNames : Orderly(state[c])
    /\ mutex \in Threads \cup {None}

\* The recent rows are some of the category's, and the right ones some of those.
LEMMA DerivedIsOrderly ==
    ASSUME Gated, NEW c, NEW read \in Seq(GateRows)
    PROVE  Orderly(Gate!Derived(c, read))
<1> DEFINE own == Gate!RowsOf(read, c)
           recent == Gate!Rolling(own)
           right == Gate!Correct(read, recent)
<1>1. IsFiniteSet(own)
  BY RowsGrow DEF Begins
<1>2. recent \subseteq own /\ right \subseteq recent
  BY DEF Gate!Rolling, Gate!Correct
<1>3. IsFiniteSet(recent) /\ Cardinality(recent) <= Cardinality(own) /\ Cardinality(right) <= Cardinality(recent)
  BY <1>1, <1>2, FS_Subset
<1>4. Gate!Derived(c, read) =
          [verified |-> Cardinality(own), right |-> Cardinality(right), of |-> Cardinality(recent),
           threshold |-> IF c \in GateCategories THEN threshold[c] ELSE config.initial]
  BY GateCounts DEF Gate!Derived
<1> HIDE DEF own, recent, right
<1> QED BY <1>3, <1>4 DEF Orderly

\* What an action may do to the category states.
LEMMA StatesStayOrderly ==
    ASSUME Gate!GateAssumption, Gated, GateBounded, [Gate!Next]_(Gate!gateVars)
    PROVE  \A c \in GateNames : Orderly(state'[c])
<1>1. GateTyped /\ \A t \in Threads : Begins(mine[t].rows, rows)
  BY DEF Gated
<1>2. \A c \in GateNames : state[c] \in GateStates /\ Orderly(state[c])
  BY <1>1 DEF GateTyped, GateBounded
<1>3. CASE state' = state
  BY <1>2, <1>3
<1>4. ASSUME NEW c \in GateNames, NEW new, Orderly(new), state' = [state EXCEPT ![c] = new]
      PROVE  \A d \in GateNames : Orderly(state'[d])
  <2>1. \A d \in GateNames : state'[d] = IF d = c THEN new ELSE state[d]
    BY <1>1, <1>4 DEF GateTyped
  <2> QED BY <1>2, <1>4, <2>1
<1>5. ASSUME NEW c \in GateCategories, Gate!ExpandThreshold(c)
      PROVE  \A d \in GateNames : Orderly(state'[d])
  <2> DEFINE s == Gate!Derived(c, rows)
  <2>1. rows \in Seq(GateRows) /\ c \in GateNames
    BY <1>1 DEF GateTyped, GateNames
  <2>2. s \in GateStates /\ Orderly(s)
    BY <2>1, DerivedIsOrderly, DerivedIsTrue DEF Begins
  <2>3. \E new : state' = [state EXCEPT ![c] = new] /\ (new = s \/ \E n : new = [s EXCEPT !.threshold = n])
    <3> HIDE DEF s
    <3> QED BY <1>5, Zenon DEF Gate!ExpandThreshold, s
  <2> HIDE DEF s
  <2>4. PICK new : state' = [state EXCEPT ![c] = new] /\ (new = s \/ \E n : new = [s EXCEPT !.threshold = n])
    BY <2>3
  <2>5. Orderly(new)
    BY <2>2, <2>4 DEF GateStates, Orderly
  <2> QED BY <1>4, <2>1, <2>4, <2>5
<1>6. CASE Gate!Enable
  <2>1. PICK i : state' = [c \in GateNames |-> IF c \in GateCategories
                                     THEN [state[c] EXCEPT !.threshold = i] ELSE state[c]]
    BY <1>6 DEF Gate!Enable, Gate!Configure, Gate!Names, GateNames
  <2> QED BY <1>2, <2>1 DEF GateStates, Orderly
<1>7. ASSUME NEW t \in Threads, Gate!EvaluateDerive(t)
      PROVE  \A d \in GateNames : Orderly(state'[d])
  <2>1. mine[t].category \in GateNames /\ mine[t].rows \in Seq(GateRows)
    BY <1>1 DEF GateTyped
  <2> QED BY <1>4, <1>7, <2>1, DerivedIsOrderly DEF Gate!EvaluateDerive
<1>8. ASSUME NEW t \in Threads, Gate!StatusDerive(t)
      PROVE  \A d \in GateNames : Orderly(state'[d])
  <2>1. mine[t].todo \subseteq GateNames /\ mine[t].rows \in Seq(GateRows)
    BY <1>1 DEF GateTyped, GateNames
  <2>2. PICK c \in mine[t].todo : state' = [state EXCEPT ![c] = Gate!Derived(c, mine[t].rows)]
    BY <1>8 DEF Gate!StatusDerive
  <2> QED BY <1>4, <2>1, <2>2, DerivedIsOrderly
<1>9. \/ state' = state \/ (\E c \in GateCategories : Gate!ExpandThreshold(c)) \/ Gate!Enable
      \/ \E t \in Threads : Gate!EvaluateDerive(t) \/ Gate!StatusDerive(t)
  <2>1. Viewers \subseteq Threads
    BY DEF Gate!GateAssumption
  <2> QED BY <2>1 DEF Gate!Next, Gate!gateVars, Gate!Verify, Gate!Observe, Gate!Disable, Gate!EvaluateBegin,
              Gate!EvaluateGate, Gate!StatusBegin
<1> QED BY <1>3, <1>5, <1>6, <1>7, <1>8, <1>9

LEMMA GateBoundedStep ==
    ASSUME Gate!GateAssumption, Gated, GateBounded, [Gate!Next]_(Gate!gateVars)
    PROVE  GateBounded'
<1>1. /\ GateTyped /\ MaxEvents \in Nat \ {0} /\ NoveltyWindow \in Nat \ {0} /\ MaxRows \in Nat
      /\ Viewers \subseteq Threads
  BY DEF Gated, Gate!GateAssumption
<1>2. Len(rows') <= MaxRows
  <2>1. rows' = rows \/ (Len(rows) < MaxRows /\ \E r : rows' = Append(rows, r))
    BY DEF Gate!Next, Gate!gateVars, Gate!Verify, Gate!Observe, Gate!Disable, Gate!Enable, Gate!EvaluateBegin,
           Gate!EvaluateDerive, Gate!EvaluateGate, Gate!StatusBegin, Gate!StatusDerive, Gate!ExpandThreshold
  <2> QED BY <1>1, <2>1 DEF GateBounded, GateTyped
<1>3. Len(log') <= MaxEvents
  <2>1. log' = log \/ \E t \in Threads : Gate!EvaluateGate(t)
    BY <1>1 DEF Gate!Next, Gate!gateVars, Gate!Verify, Gate!Observe, Gate!Disable, Gate!Enable, Gate!EvaluateBegin,
           Gate!EvaluateDerive, Gate!StatusBegin, Gate!StatusDerive, Gate!ExpandThreshold
  <2>2. ASSUME NEW t \in Threads, Gate!EvaluateGate(t) PROVE Len(log') <= MaxEvents
    <3>1. PICK confidence \in Confidences, green \in BOOLEAN, action \in BOOLEAN, spot \in BOOLEAN :
             log' = Gate!LastOf(Append(log, [category |-> mine[t].category, confidence |-> confidence,
                    gate |-> Gate!Gate(mine[t].category, state[mine[t].category], green, confidence, action, spot)]),
                                MaxEvents)
      BY <2>2 DEF Gate!EvaluateGate, Gate!RecordEvent
    <3>2. Gate!Gate(mine[t].category, state[mine[t].category], green, confidence, action, spot) \in GateVerdicts
      BY DEF Gate!Gate, GateVerdicts
    <3>3. mine[t].category \in GateNames
      BY <1>1 DEF GateTyped
    <3> DEFINE ruling == Gate!Gate(mine[t].category, state[mine[t].category], green, confidence, action, spot)
               e == [category |-> mine[t].category, confidence |-> confidence, gate |-> ruling]
    <3> HIDE DEF ruling
    <3>4. e \in GateEvents
      BY <3>1, <3>2, <3>3 DEF GateEvents, ruling
    <3>5. log' = Gate!LastOf(Append(log, e), MaxEvents)
      BY <3>1 DEF ruling
    <3> HIDE DEF e
    <3> QED BY <1>1, <3>4, <3>5, LastOfIsBounded DEF GateTyped
  <2> QED BY <2>1, <2>2 DEF GateBounded
<1>4. window' \in Seq(Observations) /\ Len(window') <= NoveltyWindow
  <2>1. window' = window \/ \E c \in GateCategories, b \in BOOLEAN : Gate!Observe(c, b)
    BY DEF Gate!Next, Gate!gateVars, Gate!Verify, Gate!Disable, Gate!Enable, Gate!EvaluateBegin, Gate!EvaluateGate,
           Gate!EvaluateDerive, Gate!StatusBegin, Gate!StatusDerive, Gate!ExpandThreshold
  <2>2. ASSUME NEW c \in GateCategories, NEW b \in BOOLEAN, Gate!Observe(c, b)
        PROVE  window' \in Seq(Observations) /\ Len(window') <= NoveltyWindow
    <3>1. [category |-> c, novel |-> b] \in Observations
      BY DEF Observations
    <3> QED BY <1>1, <2>2, <3>1, LastOfIsBounded DEF Gate!Observe, GateBounded
  <2> QED BY <2>1, <2>2 DEF GateBounded
<1>5. mutex' \in Threads \cup {None}
  BY <1>1 DEF GateBounded, Gate!Next, Gate!gateVars, Gate!Verify, Gate!Observe, Gate!Disable, Gate!Enable,
      Gate!EvaluateBegin, Gate!EvaluateDerive, Gate!EvaluateGate, Gate!StatusBegin, Gate!StatusDerive,
      Gate!ExpandThreshold
<1> QED BY <1>2, <1>3, <1>4, <1>5, StatesStayOrderly DEF GateBounded

\* The rolling counts never exceed the category's, and the log and the novelty window
\* never exceed their limits.
LEMMA GateTypes == ASSUME Gate!GateAssumption PROVE Spec => []Gate!TypeOK
<1>1. Gate!Init => Gated /\ GateBounded
  <2>1. ASSUME Gate!Init PROVE GateBounded
    <3>1. MaxRows \in Nat /\ MaxEvents \in Nat /\ NoveltyWindow \in Nat
      BY DEF Gate!GateAssumption
    <3>2. \A c \in GateNames : Orderly(state[c])
      BY <2>1 DEF Gate!Init, Gate!Underived, Gate!Names, GateNames, Orderly
    <3> QED BY <2>1, <3>1, <3>2 DEF Gate!Init, GateBounded
  <2> QED BY <2>1, GatedAtFirst
<1>2. Gated /\ GateBounded /\ [Gate!Next]_(Gate!gateVars) => Gated' /\ GateBounded'
  BY GatedStep, GatedStutters, GateBoundedStep
<1>3. Gated /\ GateBounded => Gate!TypeOK
  <2> SUFFICES ASSUME Gated, GateBounded PROVE Gate!TypeOK
    OBVIOUS
  <2>1. GateTyped
    BY DEF Gated
  <2>2. config.enabled \in BOOLEAN /\ config.min \in Nat /\ config.initial \in 0..100
    BY <2>1, Zenon DEF GateTyped, GateConfigs
  <2> QED BY <2>1, <2>2 DEF GateTyped, GateBounded, Orderly, GateNames, Gate!TypeOK, Gate!Names
<1> QED BY <1>1, <1>2, <1>3, EachAlone, PTL DEF Gate!Spec

-----------------------------------------------------------------------------
(* Types: seeding and suppliers *)

SeedBounded ==
    /\ joined \in [Edges -> 0..2] /\ sealed \in [Edges -> 0..2] /\ complete \subseteq Kinds2

LEMMA SeedBoundedStep ==
    ASSUME Seeding!SeedingAssumption, Seeded, SeedBounded, [Seeding!Next]_(Seeding!seedingVars)
    PROVE  SeedBounded'
<1>1. SeedTyped /\ \A e \in Edges : e[1] \in Nodes /\ e[2] \in Nodes
  BY DEF Seeded, Seeding!SeedingAssumption
<1>2. \A i, j \in Nat : i + j \in Nat /\ i * j \in Nat
  OBVIOUS
<1>3. \A i, j \in Nat : Seeding!Plus(i, j) \in 0..2
  BY DEF Seeding!Plus, Seeding!Many
<1>4. \A e \in Edges : /\ Seeding!Present(e[1]) * Seeding!Present(e[2]) \in Nat
                       /\ stamped[e[1]] * stamped[e[2]] \in Nat
  <2>1. \A n \in Nodes : stamped[n] \in Nat /\ Seeding!Present(n) \in Nat
    BY <1>1 DEF SeedTyped, Seeding!Present
  <2> QED BY <1>1, <1>2, <2>1
<1>5. CASE UNCHANGED Seeding!seedingVars
  BY <1>5 DEF SeedBounded, Seeding!seedingVars
<1>6. ASSUME NEW w \in Writers, Seeding!Wipe(w) PROVE SeedBounded'
  BY <1>6 DEF SeedBounded, Seeding!Wipe
<1>7. ASSUME NEW w \in Writers, Seeding!Finish(w) PROVE SeedBounded'
  <2>1. job[w].kind \in Kinds2
    BY <1>1, <1>7, IdleRun DEF SeedTyped, Jobs, Kinds2, Seeding!Finish
  <2> QED BY <1>7, <2>1 DEF SeedBounded, Seeding!Finish, Seeding!edgeVars
<1>8. ASSUME NEW w \in Writers, Seeding!WriteEdge(w) PROVE SeedBounded'
  <2> DEFINE e == job[w].item[2]
  <2>1. job[w].item # "none" /\ job[w].item[1] = "edge" /\ complete' = complete
    BY <1>8 DEF Seeding!WriteEdge, Seeding!runVars
  <2>2. e \in Edges
    BY <1>1, <2>1 DEF SeedTyped, Jobs, Items
  <2>3. \E k \in Nat : \/ UNCHANGED <<joined, sealed>>
                       \/ joined' = [joined EXCEPT ![e] = Seeding!Plus(joined[e], k)] /\ sealed' = sealed
                       \/ sealed' = [sealed EXCEPT ![e] = Seeding!Plus(sealed[e], k)] /\ joined' = joined
    BY <1>4, <1>8, <2>2 DEF Seeding!WriteEdge, Seeding!edgeVars
  <2> HIDE DEF e
  <2> QED BY <1>3, <2>1, <2>2, <2>3 DEF SeedBounded
<1>9. ASSUME NEW w \in Writers,
             \/ \E kind \in Kinds2 : Seeding!Begin(w, kind)
             \/ Seeding!Look(w) \/ Seeding!WriteNode(w) \/ Seeding!JoinLink(w) \/ Seeding!DropLink(w)
             \/ Seeding!Abort(w)
      PROVE  SeedBounded'
  BY <1>9 DEF SeedBounded, Seeding!Begin, Seeding!Look, Seeding!WriteNode, Seeding!JoinLink, Seeding!DropLink,
      Seeding!Abort, Seeding!edgeVars, Seeding!runVars
<1> QED BY <1>5, <1>6, <1>7, <1>8, <1>9 DEF Seeding!Next, Kinds2

\* Counts of nodes and edges keep their types.
LEMMA SeedingTypes == ASSUME Seeding!SeedingAssumption PROVE Spec => []Seeding!TypeOK
<1>1. Seeding!Init => Seeded /\ SeedBounded
  <2>1. Seeding!Init => SeedBounded
    BY DEF Seeding!Init, SeedBounded
  <2> QED BY <2>1, SeededAtFirst
<1>2. Seeded /\ SeedBounded /\ [Seeding!Next]_(Seeding!seedingVars) => Seeded' /\ SeedBounded'
  BY SeededStep, SeedBoundedStep
<1>3. Seeded /\ SeedBounded => Seeding!TypeOK
  BY DEF Seeded, SeedTyped, SeedBounded, Kinds2, Seeding!TypeOK, Seeding!Many
<1> QED BY <1>1, <1>2, <1>3, EachAlone, PTL DEF Seeding!Spec

TimesCount == listing \subseteq Purchases /\ \A d \in DOMAIN outcomes : outcomes[d].at >= 1

LEMMA TimesCountStep ==
    ASSUME Supplied, TimesCount, [Suppliers!Next]_(Suppliers!supplierVars)
    PROVE  TimesCount'
<1>1. SuppliersTyped
  BY DEF Supplied
<1>2. listing' \subseteq Purchases
  <2>1. listing' \in {listing, scored, {}}
    BY DEF Suppliers!Next, Suppliers!supplierVars, Suppliers!Score, Suppliers!RecordOutcome, Suppliers!Reset,
        Suppliers!ListDecisions, Suppliers!BuildProfiles, Suppliers!StudyOutcomes, Suppliers!StudyDecisions,
        Suppliers!WriteMetrics, Suppliers!StudyDone
  <2> QED BY <1>1, <2>1 DEF SuppliersTyped, TimesCount
<1>3. CASE outcomes' = outcomes
  BY <1>2, <1>3 DEF TimesCount
<1>4. ASSUME NEW d \in Purchases, NEW right \in BOOLEAN, NEW auto \in BOOLEAN,
             Suppliers!RecordOutcome(d, right, auto)
      PROVE  TimesCount'
  <2>1. verdicts' = verdicts + 1 /\ verdicts' >= 1
    BY <1>1, <1>4 DEF Suppliers!RecordOutcome, SuppliersTyped
  <2>2. outcomes' = [p \in DOMAIN outcomes \cup {d} |->
                        IF p = d THEN [right |-> right, auto |-> auto, at |-> verdicts'] ELSE outcomes[p]]
    BY <1>4 DEF Suppliers!RecordOutcome
  <2> QED BY <1>2, <2>1, <2>2 DEF TimesCount
<1>5. outcomes' = outcomes \/ \E d \in Purchases, right, auto \in BOOLEAN : Suppliers!RecordOutcome(d, right, auto)
  BY DEF Suppliers!Next, Suppliers!supplierVars, Suppliers!Score, Suppliers!Reset,
      Suppliers!ListDecisions, Suppliers!BuildProfiles, Suppliers!StudyOutcomes, Suppliers!StudyDecisions,
      Suppliers!WriteMetrics, Suppliers!StudyDone
<1> QED BY <1>3, <1>4, <1>5

\* An outcome is dated between the first and the last there was.
LEMMA SupplierTypes == ASSUME Suppliers!SuppliersAssumption PROVE Spec => []Suppliers!TypeOK
<1>1. Suppliers!Init => Supplied /\ TimesCount
  <2>1. DOMAIN Suppliers!NoOutcomes = {}
    BY DEF Suppliers!NoOutcomes
  <2> QED BY <2>1, SuppliedAtFirst DEF Suppliers!Init, TimesCount
<1>2. Supplied /\ TimesCount /\ [Suppliers!Next]_(Suppliers!supplierVars) => Supplied' /\ TimesCount'
  BY SuppliedStep, TimesCountStep
<1>3. Supplied /\ TimesCount => Suppliers!TypeOK
  <2> SUFFICES ASSUME Supplied, TimesCount PROVE Suppliers!TypeOK
    OBVIOUS
  <2>1. SuppliersTyped /\ Timed
    BY DEF Supplied
  <2>2. ASSUME NEW d \in DOMAIN outcomes
        PROVE  outcomes[d] \in [right : BOOLEAN, auto : BOOLEAN, at : 1..verdicts]
    <3> DEFINE B == BOOLEAN
    <3>1. outcomes[d] \in [right : B, auto : B, at : Nat]
      BY <2>1, Zenon DEF SuppliersTyped
    <3>2. verdicts \in Nat /\ outcomes[d].at >= 1 /\ outcomes[d].at <= verdicts
      BY <2>1, <2>2 DEF SuppliersTyped, Timed, TimesCount
    <3> HIDE DEF B
    <3>3. outcomes[d] \in [right : B, auto : B, at : 1..verdicts]
      BY <3>1, <3>2
    <3> QED BY <3>3 DEF B
  <2>3. study.phase \in {"off", "read", "write"}
    BY <2>1 DEF SuppliersTyped, Studies
  <2> QED BY <2>1, <2>2, <2>3 DEF SuppliersTyped, TimesCount, Suppliers!TypeOK
<1> QED BY <1>1, <1>2, <1>3, EachAlone, PTL DEF Suppliers!Spec

-----------------------------------------------------------------------------
(* Types: the demonstration's client *)

Acts == BeforePost \cup {"idle", "post", "review", "reviewed", "cohort", "verify", "persist"}
Reports == {"none", "skipped", "pending", "ambiguous", "inventory_failed", "partial", "ready"}
Reporting == act \in Acts /\ report \in Reports

\* Where the script is and what it reports.
LEMMA ReportingStep == ASSUME Reporting, [Preseed!Next]_(Preseed!preseedVars) PROVE Reporting'
<1>1. act' \in Acts
  BY PhasesFollow DEF Reporting, Acts, BeforePost, Preseed!Next, Preseed!preseedVars, Preseed!StartRun,
      Preseed!Stop, Preseed!Learn, Preseed!CommitLate, Preseed!WarmDone, Preseed!SeedExtinction, Preseed!Drain,
      Preseed!FinishExtinction, Preseed!Foreign, Preseed!NewIds, Preseed!Freeze, Preseed!PostDone,
      Preseed!CohortBegin, Preseed!CohortRefused, Preseed!CohortDone, Preseed!CohortVerify, Preseed!Persist,
      Preseed!ScoreKnown, Preseed!ScoreNew, Preseed!CohortReuse, Preseed!CohortScore, Preseed!CohortReadback,
      Preseed!Triage, Preseed!Enter
<1>2. report' \in Reports
  BY DEF Reporting, Reports, Preseed!Next, Preseed!preseedVars, Preseed!StartRun,
      Preseed!Stop, Preseed!Learn, Preseed!CommitLate, Preseed!WarmDone, Preseed!SeedExtinction, Preseed!Drain,
      Preseed!FinishExtinction, Preseed!Foreign, Preseed!NewIds, Preseed!Freeze, Preseed!PostDone,
      Preseed!CohortBegin, Preseed!CohortRefused, Preseed!CohortDone, Preseed!CohortVerify, Preseed!Persist,
      Preseed!ScoreKnown, Preseed!ScoreNew, Preseed!CohortReuse, Preseed!CohortScore, Preseed!CohortReadback,
      Preseed!Triage
<1> QED BY <1>1, <1>2 DEF Reporting

\* The phases the script may be in, as its order lists them.
LEMMA ActsAreOrdered == Acts = {Preseed!Order[i] : i \in DOMAIN Preseed!Order}
<1> DEFINE o == <<"idle", "warm", "extinction", "drain", "fresh", "freeze", "post", "review", "reviewed",
                  "cohort", "verify", "persist", "idle">>
<1>1. Preseed!Order = o /\ DOMAIN o = 1..13
  BY DEF Preseed!Order
<1>2. \A i \in 1..13 : o[i] \in Acts
  BY DEF Acts, BeforePost
<1>3. \A a \in Acts : \E i \in 1..13 : o[i] = a
  <2>1. /\ o[1] = "idle" /\ o[2] = "warm" /\ o[3] = "extinction" /\ o[4] = "drain" /\ o[5] = "fresh"
        /\ o[6] = "freeze" /\ o[7] = "post" /\ o[8] = "review" /\ o[9] = "reviewed" /\ o[10] = "cohort"
        /\ o[11] = "verify" /\ o[12] = "persist"
    OBVIOUS
  <2>2. \A a \in Acts : \/ a = "idle" \/ a = "warm" \/ a = "extinction" \/ a = "drain" \/ a = "fresh"
                        \/ a = "freeze" \/ a = "post" \/ a = "review" \/ a = "reviewed" \/ a = "cohort"
                        \/ a = "verify" \/ a = "persist"
    BY DEF Acts, BeforePost
  <2> HIDE DEF o
  <2> QED BY <2>1, <2>2
<1> HIDE DEF o
<1> QED BY <1>1, <1>2, <1>3

LEMMA PreseedTypes == ASSUME Preseed!PreseedAssumption PROVE Spec => []Preseed!TypeOK
<1>1. Preseed!Init => Demonstrated /\ Reporting
  <2>1. ASSUME Preseed!Init PROVE Reporting
    BY <2>1 DEF Preseed!Init, Reporting, Acts, Reports
  <2> QED BY <2>1, DemonstratedAtFirst
<1>2. Demonstrated /\ Reporting /\ [Preseed!Next]_(Preseed!preseedVars) => Demonstrated' /\ Reporting'
  BY DemonstratedStep, DemonstratedStutter, ReportingStep
<1>3. Demonstrated /\ Reporting => Preseed!TypeOK
  <2> SUFFICES ASSUME Demonstrated, Reporting PROVE Preseed!TypeOK
    OBVIOUS
  <2>1. ServerTyped /\ ClientTyped /\ act \in {Preseed!Order[i] : i \in DOMAIN Preseed!Order}
    BY ActsAreOrdered DEF Demonstrated, Reporting
  <2> QED BY <2>1 DEF Preseed!TypeOK, ServerTyped, ClientTyped, Reporting, Reports, Planned, Asks
<1> QED BY <1>1, <1>2, <1>3, EachAlone, PTL DEF Preseed!Spec

-----------------------------------------------------------------------------
(* Types of the platform *)

\* Nothing the smaller components keep leaves its type, nor any count its bound: no
\* counter of the approval statistics shows more than the jobs that counted under
\* it, whatever updates are lost, a category's rolling counts fit its verified ones,
\* an outcome is dated within the outcomes there were.
THEOREM TypesStayCorrect ==
    ASSUME PlatformAssumption
    PROVE  Spec => []TypeOK
<1>1. /\ Gate!GateAssumption /\ Policy!PolicyAssumption /\ Authority!AuthorityAssumption
      /\ Oversight!InterventionsAssumption /\ Budget!BudgetAssumption /\ Deployment!DeploymentAssumption
      /\ Seeding!SeedingAssumption /\ Preseed!PreseedAssumption /\ Suppliers!SuppliersAssumption
      /\ Endpoints!EndpointsAssumption
  BY DEF PlatformAssumption
<1>2. /\ Spec => []Gate!TypeOK /\ []Authority!TypeOK /\ []Oversight!TypeOK /\ []Budget!TypeOK
      /\ Spec => []Deployment!TypeOK /\ []Seeding!TypeOK /\ []Preseed!TypeOK /\ []Suppliers!TypeOK
      /\ Spec => []Endpoints!TypeOK /\ []Policy!TypeOK
  BY <1>1, GateTypes, AuthorityTypes, OversightTypes, BudgetTypes, DeploymentTypes, SeedingTypes, PreseedTypes,
     SupplierTypes, EndpointTypes, PolicyTypes
<1>3. /\ Gate!TypeOK /\ Policy!TypeOK /\ Authority!TypeOK /\ Oversight!TypeOK /\ Budget!TypeOK
      /\ Deployment!TypeOK /\ Seeding!TypeOK /\ Preseed!TypeOK /\ Suppliers!TypeOK /\ Endpoints!TypeOK
      => TypeOK
  BY DEF TypeOK
<1> QED BY <1>2, <1>3, PTL
=============================================================================
