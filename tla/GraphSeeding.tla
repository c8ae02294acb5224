----------------------------- MODULE GraphSeeding ------------------------------
(***************************************************************************)
(* The two writers that plant entities in an AGE graph: the fixture seeder *)
(* (scripts/seed_s2p_graph.py) and the entity migration                    *)
(* (migration/s2p_entity_migration.py over the plan of seed_graph.py).     *)
(* Each asks whether an item is there and then creates it, one query after *)
(* the other and with no transaction around them; either may die at any    *)
(* query and is simply run again.                                          *)
(*                                                                         *)
(* The migration stamps what it writes with the domain and matches only    *)
(* stamped items; the seeder does neither.  Counts stop at `Many'.         *)
(***************************************************************************)
EXTENDS Integers, FiniteSets

CONSTANTS
    Writers,           \* processes that run a seeder or a migration
    Nodes, Edges,      \* the plan: natural keys, and pairs of them
    Links, LinkTo,     \* DecisionEntityLink nodes of older decisions and their entity
    Known,             \* links whose decision is in the graph
    MaxRuns

Many == 2
SeedingAssumption == Edges \subseteq Nodes \X Nodes /\ LinkTo \in [Links -> Nodes] /\ Known \subseteq Links

VARIABLES
    plain, stamped,      \* nodes per key, without and with the domain
    joined, sealed,      \* edges per planned edge, without and with the domain
    linked, decided,       \* links still there; DECIDED_ON edges per link
    job,                 \* per writer: kind, what is left to do, item in hand and whether it was found
    runs,
    collided, kinds, purged, complete    \* history: runs overlapped; kinds that ran; a forced wipe; kinds completed

seedingVars == <<plain, stamped, joined, sealed, linked, decided, job, runs, collided, kinds, purged, complete>>
nodeVars == <<plain, stamped>>
edgeVars == <<joined, sealed>>
linkVars == <<linked, decided>>
runVars == <<runs, collided, kinds, purged, complete>>

Plus(n, k) == IF n + k > Many THEN Many ELSE n + k
Idle == [kind |-> "none", todo |-> {}, item |-> "none", found |-> FALSE]

Init ==
    /\ plain = [n \in Nodes |-> 0] /\ stamped = plain
    /\ joined = [e \in Edges |-> 0] /\ sealed = joined
    /\ linked = Links /\ decided = [l \in Links |-> 0]
    /\ job = [w \in Writers |-> Idle] /\ runs = 0
    /\ collided = FALSE /\ kinds = {} /\ purged = FALSE /\ complete = {}

-----------------------------------------------------------------------------
\* A run plans everything anew; production graphs are refused before this.  The
\* seeder plans the fixtures, the migration the hardened fixtures and what older
\* decisions left behind.
Planned == {<<"node", n>> : n \in Nodes} \cup {<<"edge", e>> : e \in Edges}
SeederPlan == Planned
MigrationPlan == Planned \cup {<<"link", l>> : l \in linked}
Plan(kind) == IF kind = "seed" THEN SeederPlan ELSE MigrationPlan
Begin(w, kind) ==
    /\ job[w] = Idle /\ runs < MaxRuns /\ runs' = runs + 1
    /\ job' = [job EXCEPT ![w] = [Idle EXCEPT !.kind = kind, !.todo = Plan(kind)]]
    /\ kinds' = kinds \cup {kind} /\ collided' = (collided \/ \E v \in Writers : job[v] # Idle)
    /\ UNCHANGED <<nodeVars, edgeVars, linkVars, purged, complete>>
\* --force deletes every node of the domain, which none of the seeder's own is.
Wipe(w) ==
    /\ job[w].kind = "seed" /\ job[w].todo = Plan("seed") /\ job[w].item = "none" /\ ~purged
    /\ stamped' = [n \in Nodes |-> 0] /\ sealed' = [e \in Edges |-> 0]
    /\ joined' = [e \in Edges |-> IF plain[e[1]] > 0 /\ plain[e[2]] > 0 THEN joined[e] ELSE 0]
    /\ linked' = {} /\ decided' = [l \in Links |-> 0]
    /\ purged' = TRUE /\ complete' = complete \ {"migrate"}
    /\ UNCHANGED <<plain, job, runs, collided, kinds>>

\* Nodes first, then edges, then links.
Next3(todo) ==
    LET of(t) == {x \in todo : x[1] = t} IN
    IF of("node") # {} THEN of("node") ELSE IF of("edge") # {} THEN of("edge") ELSE of("link")

Present(n) == plain[n] + stamped[n]
\* An operator whose name has an underscore is a plausible bug of the definition
\* that follows; no action uses it.
There_AnyEdge(kind, x) == IF x[1] = "node" THEN Present(x[2]) > 0 ELSE FALSE
There(kind, x) ==
    CASE x[1] = "node" -> (IF kind = "seed" THEN Present(x[2]) ELSE stamped[x[2]]) > 0
      [] x[1] = "edge" -> (IF kind = "seed" THEN joined[x[2]] + sealed[x[2]] ELSE sealed[x[2]]) > 0
      [] x[1] = "link" -> decided[x[2]] > 0

Look(w) ==
    /\ job[w].item = "none"
    /\ \E x \in Next3(job[w].todo) :
          job' = [job EXCEPT ![w].item = x, ![w].found = There(job[w].kind, x)]
    /\ UNCHANGED <<nodeVars, edgeVars, linkVars, runVars>>

Taken(w) == job' = [job EXCEPT ![w].todo = @ \ {job[w].item}, ![w].item = "none"]

\* What is there is left or updated in place.
WriteNode(w) ==
    /\ job[w].item # "none" /\ job[w].item[1] = "node"
    /\ LET n == job[w].item[2]  one == IF job[w].found THEN 0 ELSE 1 IN
          IF job[w].kind = "seed" THEN plain' = [plain EXCEPT ![n] = Plus(@, one)] /\ stamped' = stamped
                                  ELSE stamped' = [stamped EXCEPT ![n] = Plus(@, one)] /\ plain' = plain
    /\ Taken(w) /\ UNCHANGED <<edgeVars, linkVars, runVars>>
\* CREATE joins every pair of nodes that match the two keys; none may.
WriteEdge(w) ==
    /\ job[w].item # "none" /\ job[w].item[1] = "edge"
    /\ LET e == job[w].item[2] IN
          IF job[w].found THEN UNCHANGED edgeVars
          ELSE IF job[w].kind = "seed"
               THEN joined' = [joined EXCEPT ![e] = Plus(@, Present(e[1]) * Present(e[2]))] /\ sealed' = sealed
               ELSE sealed' = [sealed EXCEPT ![e] = Plus(@, stamped[e[1]] * stamped[e[2]])] /\ joined' = joined
    /\ Taken(w) /\ UNCHANGED <<nodeVars, linkVars, runVars>>

\* A link whose decision and entity are there becomes an edge and only then goes;
\* any other is retained.
Reconciles(l) == l \in Known /\ stamped[LinkTo[l]] > 0
JoinLink(w) ==
    /\ job[w].item # "none" /\ job[w].item[1] = "link"
    /\ LET l == job[w].item[2] IN
          /\ Reconciles(l) /\ ~job[w].found
          /\ decided' = [decided EXCEPT ![l] = Plus(@, stamped[LinkTo[l]])]
    /\ job' = [job EXCEPT ![w].found = TRUE]
    /\ UNCHANGED <<nodeVars, edgeVars, linked, runVars>>
DropLink(w) ==
    /\ job[w].item # "none" /\ job[w].item[1] = "link"
    /\ LET l == job[w].item[2] IN
          /\ job[w].found \/ ~Reconciles(l)
          /\ linked' = IF Reconciles(l) THEN linked \ {l} ELSE linked
    /\ Taken(w) /\ UNCHANGED <<nodeVars, edgeVars, decided, runVars>>

Finish(w) ==
    /\ job[w] # Idle /\ job[w].todo = {} /\ job' = [job EXCEPT ![w] = Idle]
    /\ complete' = complete \cup {job[w].kind}
    /\ UNCHANGED <<nodeVars, edgeVars, linkVars, runs, collided, kinds, purged>>
\* A query raises, or the process dies.
Abort(w) ==
    /\ job[w] # Idle /\ job' = [job EXCEPT ![w] = Idle]
    /\ UNCHANGED <<nodeVars, edgeVars, linkVars, runVars>>

Next == \E w \in Writers :
    \/ \E kind \in {"seed", "migrate"} : Begin(w, kind)
    \/ Wipe(w) \/ Look(w) \/ WriteNode(w) \/ WriteEdge(w) \/ JoinLink(w) \/ DropLink(w)
    \/ Finish(w) \/ Abort(w)

Spec == Init /\ [][Next]_seedingVars

-----------------------------------------------------------------------------
(* Properties *)

TypeOK ==
    /\ {plain, stamped} \subseteq [Nodes -> 0..Many] /\ {joined, sealed} \subseteq [Edges -> 0..Many]
    /\ linked \subseteq Links /\ decided \in [Links -> 0..Many] /\ complete \subseteq {"seed", "migrate"}

\* However often its runs are interrupted and repeated, a writer that has the graph
\* to itself never plants an item twice, and a run that ends has planted all of its
\* plan; no link of an older decision is lost before its edge exists, with any
\* number of writers, unless a forced run wiped the domain.
SeedingConverges ==
    /\ ~collided /\ Cardinality(kinds) = 1 =>
          /\ \A n \in Nodes : Present(n) <= 1
          /\ \A e \in Edges : joined[e] + sealed[e] <= 1
          /\ \A k \in complete :
                /\ \A n \in Nodes : Present(n) = 1
                /\ \A e \in Edges : joined[e] + sealed[e] = 1
    /\ ~purged => \A l \in Links : l \in linked \/ decided[l] > 0
================================================================================
