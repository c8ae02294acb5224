------------------------------ MODULE Deployment -------------------------------
(***************************************************************************)
(* A deployment from its environment to its shutdown: main.py, the checked *)
(* configuration of the active graph (s2p_graph_status.py) and of the      *)
(* shadow graph (s2p_shadow.py).  Importing main.py opens and restores     *)
(* everything in a fixed order and any failure there ends the process; the *)
(* startup event seeds and warms, where only some failures do.  A restart  *)
(* may come with another environment, which is how the operators roll the  *)
(* cutover back; the graphs keep what was written.                         *)
(***************************************************************************)
EXTENDS Integers, Sequences, FiniteSets

CONSTANTS
    Environments,   \* the environments a process may be started with
    MaxStarts,      \* bound: times the process starts
    Unset           \* an environment variable that is not set

VARIABLES
    env,            \* the environment of the current process
    life,          \* where it is between import and shutdown
    store, shadow,  \* active store: "memory" or a graph; shadow store or Unset
    restored,       \* rows of the active store that the runtime state was restored from
    contents,           \* per graph: what it holds, none, part or all of the seed, or decisions too
    snapshot,       \* rows the response snapshots show; Unset before the first
    starts,
    wrote           \* history: who wrote which graph under which environment

deployVars == <<env, life, store, shadow, restored, contents, snapshot, starts, wrote>>

\* The reviewed product graph, a test graph, a graph nobody reviewed.
Graphs == {"soc_graph", "protocol_v2_test", "other"}
EveryEnvironment ==
    [backend : {"memory", "age", "invalid"}, graph : Graphs \cup {Unset}, dsn : BOOLEAN,
     domain : {"s2p", "wrong"}, test : BOOLEAN, reseed : BOOLEAN,
     shadowed : BOOLEAN, shadowGraph : Graphs \cup {Unset}, shadowDsn : BOOLEAN]
DeploymentAssumption ==
    /\ Environments \subseteq EveryEnvironment /\ MaxStarts \in Nat
    /\ Unset \notin Graphs \cup {"memory"}
Contents == {"none", "part", "seeded", "used"}

Init ==
    /\ env \in Environments /\ life = "validate" /\ store = Unset /\ shadow = Unset
    /\ restored = Unset /\ snapshot = Unset /\ starts = 1 /\ wrote = {}
    /\ contents = [g \in Graphs \cup {"memory"} |-> "none"]

Goes(from, to) == life = from /\ life' \in {to, "refused"}

-----------------------------------------------------------------------------
(* Import *)

\* An operator whose name has an underscore is a plausible bug of the definition
\* that follows; no action uses it.
ConfigOK_AnyTestGraph(e) ==
    \/ e.backend = "memory"
    \/ e.backend = "age" /\ e.domain = "s2p" /\ e.dsn /\ e.graph \in {"soc_graph", "protocol_v2_test"}
\* S2PActiveGraphConfig.validate: AGE needs the domain, a DSN and a graph, the test
\* mode goes with the test graphs only and a product graph is allow-listed.
ConfigOK(e) ==
    \/ e.backend = "memory"
    \/ /\ e.backend = "age" /\ e.domain = "s2p" /\ e.dsn /\ e.graph # Unset
       /\ IF e.test THEN e.graph = "protocol_v2_test" ELSE e.graph = "soc_graph"

GraphKind(e) ==
    IF e.backend # "age" \/ e.graph = Unset THEN "none"
    ELSE IF e.graph = "protocol_v2_test" THEN "test" ELSE "product"

Validate ==
    /\ life = "validate" /\ life' = IF ConfigOK(env) THEN "open" ELSE "refused"
    /\ UNCHANGED <<env, store, shadow, restored, contents, snapshot, starts, wrote>>

\* A store of its own for AGE, none otherwise: the scorer then builds its own.
OpenStore ==
    /\ Goes("open", "restore")
    /\ store' = IF env.backend = "age" THEN env.graph ELSE "memory"
    /\ UNCHANGED <<env, shadow, restored, contents, snapshot, starts, wrote>>

\* Budget, proposals, ledger, autonomy and the learning state read the store here,
\* before anything is seeded.
Restore ==
    /\ Goes("restore", "shadow") /\ restored' = contents[store]
    /\ UNCHANGED <<env, store, shadow, contents, snapshot, starts, wrote>>

\* A configured graph that is not the active one gets its own store and needs a DSN;
\* otherwise an enabled shadow shares the active store.
Apart(e) == e.shadowGraph # Unset /\ e.shadowGraph # (IF e.backend = "age" THEN e.graph ELSE Unset)
OpenShadow ==
    /\ Goes("shadow", "seed")
    /\ env.shadowed /\ Apart(env) /\ ~env.shadowDsn => life' = "refused"
    /\ shadow' = IF ~env.shadowed THEN Unset ELSE IF Apart(env) THEN env.shadowGraph ELSE store
    /\ UNCHANGED <<env, store, restored, contents, snapshot, starts, wrote>>

-----------------------------------------------------------------------------
(* The startup event *)

Writes(who, g, what) ==
    /\ contents' = [contents EXCEPT ![g] = what]
    /\ wrote' = wrote \cup {[who |-> who, graph |-> g, env |-> env]}

\* Seeding fills an empty AGE graph row by row and skips one that has any row.
Seed ==
    /\ life = "seed"
    /\ IF env.backend = "age" /\ env.reseed /\ contents[store] = "none"
       THEN Writes("seed", store, "part") /\ life' = "seeding"
       ELSE life' = "warm" /\ UNCHANGED <<contents, wrote>>
    /\ UNCHANGED <<env, store, shadow, restored, snapshot, starts>>
SeedRest ==
    /\ Goes("seeding", "warm")
    /\ IF life' = "warm" THEN Writes("seed", store, "seeded") ELSE UNCHANGED <<contents, wrote>>
    /\ UNCHANGED <<env, store, shadow, restored, snapshot, starts>>

\* A failing prewarm of the responses or of the learn connections is logged; the
\* financial and factor snapshots must succeed.
Warm ==
    /\ Goes("warm", "serving") /\ snapshot' \in {Unset, contents[store]}
    /\ UNCHANGED <<env, store, shadow, restored, contents, starts, wrote>>

-----------------------------------------------------------------------------
(* Serving and stopping *)

Decide ==
    /\ life = "serving" /\ Writes("decision", store, "used")
    /\ UNCHANGED <<env, life, store, shadow, restored, snapshot, starts>>
ShadowDecision ==
    /\ life = "serving" /\ shadow # Unset /\ Writes("shadow", shadow, "used")
    /\ UNCHANGED <<env, life, store, shadow, restored, snapshot, starts>>
\* Every 30 seconds; a failure is logged and the old snapshot stays.
RefreshLoop ==
    /\ life = "serving" /\ snapshot' \in {snapshot, contents[store]}
    /\ UNCHANGED <<env, life, store, shadow, restored, contents, starts, wrote>>
\* The loop is cancelled and awaited, then the materializer drained and dropped.
Shutdown ==
    /\ life = "serving" /\ life' = "stopping" /\ snapshot' = Unset
    /\ UNCHANGED <<env, store, shadow, restored, contents, starts, wrote>>
\* A process that stopped, was refused or died starts again, perhaps differently.
Start ==
    /\ life # "validate" /\ starts < MaxStarts /\ starts' = starts + 1
    /\ env' \in Environments
    /\ life' = "validate" /\ store' = Unset /\ shadow' = Unset /\ restored' = Unset /\ snapshot' = Unset
    /\ contents' = [contents EXCEPT !["memory"] = "none"] /\ UNCHANGED wrote

\* What GET /api/s2p/graph/status tells of it.
Status ==
    LET active == env.backend = "age" /\ store \in Graphs IN
    [age_active |-> active, memory_authoritative |-> ~active, age_graph_kind |-> GraphKind(env),
     cutover_ready |-> active /\ GraphKind(env) = "product" /\ env.graph = "soc_graph",
     shadow_enabled |-> env.shadowed]

Next ==
    \/ Validate \/ OpenStore \/ Restore \/ OpenShadow \/ Seed \/ SeedRest \/ Warm
    \/ Decide \/ ShadowDecision \/ RefreshLoop \/ Shutdown \/ Start

Spec == Init /\ [][Next]_deployVars

-----------------------------------------------------------------------------
(* Properties *)

TypeOK ==
    /\ env \in Environments /\ contents \in [Graphs \cup {"memory"} -> Contents]
    /\ store \in Graphs \cup {"memory", Unset} /\ shadow \in Graphs \cup {"memory", Unset}

\* Through any sequence of starts, stops and refusals: what was ever written by the
\* seed or a decision was written to a reviewed graph, or to a test graph in test
\* mode; a shadow with a graph of its own never wrote to the active one; and while
\* the process serves, the status route tells which store takes the decisions.
WritesAreReviewed ==
    /\ \A w \in wrote :
          /\ w.who # "shadow" /\ w.graph # "memory" =>
                w.env.test <=> w.graph = "protocol_v2_test"
          /\ w.who # "shadow" => w.graph # "other"
          /\ w.who = "shadow" /\ Apart(w.env) => w.graph # w.env.graph \/ w.env.backend # "age"
    /\ life = "serving" =>
          /\ Status.memory_authoritative <=> store = "memory"
          /\ Status.cutover_ready <=> store = "soc_graph"
          /\ Status.age_graph_kind = "test" <=> store = "protocol_v2_test"
          /\ shadow # Unset <=> Status.shadow_enabled
================================================================================
