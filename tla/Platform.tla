------------------------------ MODULE Platform ---------------------------------
(***************************************************************************)
(* The components that interact with no other one, side by side: a         *)
(* behaviour picks a scene and only the component of that scene moves, so  *)
(* that one run of TLC checks them all and one module proves about them.   *)
(* The constants are those of the components, under their own names where  *)
(* no two share one.                                                       *)
(***************************************************************************)
EXTENDS Integers, Sequences, FiniteSets

CONSTANTS
    None,    \* no value, no owner, no file
    Threads, Viewers, GateCategories, Confidences, Thresholds, Minimums, RollingWindow,
    NoveltyWindow, MaxEvents, MaxRows, GateCalls,
    Scores, PolicyCategories, PolicyThreshold,
    Clients, Classes, Cells, Runs, Base, MaxStage, AuthorityCalls, MaxUpdates,
    Operators, Kinds, MaxMoves, MaxTensor,
    MaxHistory, MaxAllocations,
    Environments, MaxStarts,
    Writers, Nodes, Edges, Links, LinkTo, Known, SeedingRuns,
    Events, Format, MinPending, PreseedRuns, MaxLost,
    Ids, Purchases, SupplierOf, InvoiceOf, Place, Master, Computed, MinSample, Trailing, Reliable,
    TrendPoints, MaxVerdicts, MaxStudies,
    MaxRestarts

VARIABLES
    scene,
    rows, config, threshold, state, log, window, mutex, at, mine, calls,
    stage, verdict, stats, filed, caught, fresh, reset,
    level, twins, chosen, archived, live, cells, marker, turn, doing, memory, asked, was, lost,
    frozen, mu, counts, learner, health, disabled, halted, forced, bar, points, audit, file, step,
    node, target, moves, doubt,
    policy, previous, slots, phase, told,
    env, life, store, shadow, restored, contents, snapshot, starts, wrote,
    plain, stamped, joined, sealed, linked, decided, job, runs, collided, kinds, purged, complete,
    done, young, old, missed, baselined, foreign, act, todo, item, known, confirmed, failed, report,
    attempts, lostCalls,
    scored, outcomes, events, unplaced, metrics, study, studies, verdicts, listing, profiles,
    endpoint, progress, restarts, omitted, entry, request, response

gateVars == <<rows, config, threshold, state, log, window, mutex, at, mine, calls>>
policyVars == <<stage, verdict, stats, filed, caught, fresh, reset>>
authorityVars == <<level, twins, chosen, archived, live, cells, marker, turn, doing, memory,
    asked, was, lost>>
interventionVars == <<frozen, mu, counts, learner, health, disabled, halted, forced, bar,
    points, audit, file, step, node, target, moves, doubt>>
budgetVars == <<policy, previous, slots, phase, told>>
deployVars == <<env, life, store, shadow, restored, contents, snapshot, starts, wrote>>
seedingVars == <<plain, stamped, joined, sealed, linked, decided, job, runs, collided, kinds,
    purged, complete>>
preseedVars == <<done, young, old, missed, baselined, foreign, act, todo, item, known,
    confirmed, failed, report, attempts, lostCalls>>
supplierVars == <<scored, outcomes, events, unplaced, metrics, study, studies, verdicts,
    listing, profiles>>
endpointVars == <<endpoint, progress, restarts, omitted, entry, request, response>>

Gate == INSTANCE AutoApproveGate WITH Categories <- GateCategories, MaxCalls <- GateCalls, Other
    <- None, NoThread <- None
Policy == INSTANCE AutoApprovePolicy WITH Categories <- PolicyCategories, Other <- None
Authority == INSTANCE Authority WITH MaxCalls <- AuthorityCalls, Absent <- None, Free <- None
Oversight == INSTANCE Interventions WITH NoFile <- None
Budget == INSTANCE BudgetPolicy WITH Gone <- None
Deployment == INSTANCE Deployment WITH Unset <- None
Seeding == INSTANCE GraphSeeding WITH MaxRuns <- SeedingRuns
Preseed == INSTANCE DemoPreseed WITH MaxRuns <- PreseedRuns
Suppliers == INSTANCE Suppliers WITH Unknown <- None
Endpoints == INSTANCE Endpoints WITH NoEntry <- None

PlatformAssumption ==
    /\ Gate!GateAssumption
    /\ Policy!PolicyAssumption
    /\ Authority!AuthorityAssumption
    /\ Oversight!InterventionsAssumption
    /\ Budget!BudgetAssumption
    /\ Deployment!DeploymentAssumption
    /\ Seeding!SeedingAssumption
    /\ Preseed!PreseedAssumption
    /\ Suppliers!SuppliersAssumption
    /\ Endpoints!EndpointsAssumption
ASSUME PlatformAssumption

Scenes == {"gate", "policy", "authority", "oversight", "budget", "deployment", "seeding", "preseed", "suppliers", "endpoints"}
Init ==
    /\ scene \in Scenes
    /\ Gate!Init
    /\ Policy!Init
    /\ Authority!Init
    /\ Oversight!Init
    /\ Budget!Init
    /\ Deployment!Init /\ (scene = "deployment" \/ env = CHOOSE e \in Environments : TRUE)
    /\ Seeding!Init
    /\ Preseed!Init
    /\ Suppliers!Init
    /\ Endpoints!Init /\ (scene = "endpoints" \/ endpoint = "receipts")

GateScene ==
    /\ scene = "gate" /\ Gate!Next
    /\ UNCHANGED <<scene, policyVars, authorityVars, interventionVars, budgetVars, deployVars,
           seedingVars, preseedVars, supplierVars, endpointVars>>
PolicyScene ==
    /\ scene = "policy" /\ Policy!Next
    /\ UNCHANGED <<scene, gateVars, authorityVars, interventionVars, budgetVars, deployVars,
           seedingVars, preseedVars, supplierVars, endpointVars>>
AuthorityScene ==
    /\ scene = "authority" /\ Authority!Next
    /\ UNCHANGED <<scene, gateVars, policyVars, interventionVars, budgetVars, deployVars, seedingVars,
           preseedVars, supplierVars, endpointVars>>
OversightScene ==
    /\ scene = "oversight" /\ Oversight!Next
    /\ UNCHANGED <<scene, gateVars, policyVars, authorityVars, budgetVars, deployVars, seedingVars,
           preseedVars, supplierVars, endpointVars>>
BudgetScene ==
    /\ scene = "budget" /\ Budget!Next
    /\ UNCHANGED <<scene, gateVars, policyVars, authorityVars, interventionVars, deployVars,
           seedingVars, preseedVars, supplierVars, endpointVars>>
DeploymentScene ==
    /\ scene = "deployment" /\ Deployment!Next
    /\ UNCHANGED <<scene, gateVars, policyVars, authorityVars, interventionVars, budgetVars,
           seedingVars, preseedVars, supplierVars, endpointVars>>
SeedingScene ==
    /\ scene = "seeding" /\ Seeding!Next
    /\ UNCHANGED <<scene, gateVars, policyVars, authorityVars, interventionVars, budgetVars,
           deployVars, preseedVars, supplierVars, endpointVars>>
PreseedScene ==
    /\ scene = "preseed" /\ Preseed!Next
    /\ UNCHANGED <<scene, gateVars, policyVars, authorityVars, interventionVars, budgetVars,
           deployVars, seedingVars, supplierVars, endpointVars>>
SuppliersScene ==
    /\ scene = "suppliers" /\ Suppliers!Next
    /\ UNCHANGED <<scene, gateVars, policyVars, authorityVars, interventionVars, budgetVars,
           deployVars, seedingVars, preseedVars, endpointVars>>
EndpointsScene ==
    /\ scene = "endpoints" /\ Endpoints!Next
    /\ UNCHANGED <<scene, gateVars, policyVars, authorityVars, interventionVars, budgetVars,
           deployVars, seedingVars, preseedVars, supplierVars>>

Next ==
    \/ GateScene
    \/ PolicyScene
    \/ AuthorityScene
    \/ OversightScene
    \/ BudgetScene
    \/ DeploymentScene
    \/ SeedingScene
    \/ PreseedScene
    \/ SuppliersScene
    \/ EndpointsScene

vars == <<scene, gateVars, policyVars, authorityVars, interventionVars, budgetVars, deployVars,
    seedingVars, preseedVars, supplierVars, endpointVars>>
Spec == Init /\ [][Next]_vars

-----------------------------------------------------------------------------
(* Properties: those of the components, which explain them *)

\* Type invariant of every component.
TypeOK ==
    /\ Gate!TypeOK
    /\ Policy!TypeOK
    /\ Authority!TypeOK
    /\ Oversight!TypeOK
    /\ Budget!TypeOK
    /\ Deployment!TypeOK
    /\ Seeding!TypeOK
    /\ Preseed!TypeOK
    /\ Suppliers!TypeOK
    /\ Endpoints!TypeOK
\* A threshold stays within the configuration and is tightened only on a recent wrong verified
\* decision.
ThresholdsAreSound == Gate!ThresholdsAreSound
\* An approval is recorded only for enough verified decisions and little novelty.
ApprovalsAreEarned == Gate!ApprovalsAreEarned
\* A re-freeze loses no baseline, and what a flush reported as persisted survives a restart.
BaselinesAreKept == Authority!BaselinesAreKept
\* The oversight trail tells whether learning is frozen once a freezing control ran undisturbed.
OversightHolds == Oversight!OversightHolds
\* An answered allocation is counted after every restart.
BudgetIsDurable == Budget!BudgetIsDurable
\* Every decision is written to the graph that was reviewed for it, and the status says so.
WritesAreReviewed == Deployment!WritesAreReviewed
\* Interrupted and repeated seedings plant everything once and lose no link.
SeedingConverges == Seeding!SeedingConverges
\* The demonstration plants and learns an event once, whatever answers are lost.
PlantedOnce == Preseed!PlantedOnce
\* What is said of a supplier is borne by recorded outcomes.
SuppliersAreTrue == Suppliers!SuppliersAreTrue
\* No endpoint answers an outcome without its decision, hides a failed read or an answered
\* outcome.
AnswersAreSound == Endpoints!AnswersAreSound
================================================================================
