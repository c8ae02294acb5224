------------------------------ MODULE MCPlatform -------------------------------
(* A small instance of every component. *)
EXTENDS Platform

P95 == [c \in PolicyCategories |-> 95]
Reviewed ==
    [backend |-> "age", graph |-> "soc_graph", dsn |-> TRUE, domain |-> "s2p", test |-> FALSE,
     reseed |-> TRUE, shadowed |-> FALSE, shadowGraph |-> None, shadowDsn |-> TRUE]
GraphNames == {"soc_graph", "protocol_v2_test", "other", None}
\* The reviewed deployment with other stores, other shadows, or one setting amiss.
Deployments ==
    {[Reviewed EXCEPT !.backend = b, !.graph = g, !.test = t] :
        b \in {"memory", "age", "invalid"}, g \in GraphNames, t \in BOOLEAN}
    \cup {[Reviewed EXCEPT !.backend = b, !.shadowed = TRUE, !.shadowGraph = g, !.shadowDsn = d] :
        b \in {"memory", "age"}, g \in GraphNames, d \in BOOLEAN}
    \cup {[Reviewed EXCEPT !.dsn = FALSE], [Reviewed EXCEPT !.domain = "wrong"], [Reviewed EXCEPT !.reseed = FALSE]}
Pairs == {<<"n1", "n2">>}
Linked == [l \in Links |-> "n1"]
Phases == [warm |-> {"e1"}, post |-> {"e2"}, cohort |-> {"e3", "e4"}]
\* Two purchases of one invoice and supplier, and one without a supplier.
Seller == [p \in Purchases |-> IF p = "p3" THEN None ELSE "a"]
Bill == [p \in Purchases |-> IF p = "p3" THEN "i3" ELSE "i1"]
Ordinal == [p \in Purchases |-> IF p = "p1" THEN 1 ELSE IF p = "p2" THEN 2 ELSE 3]
MasterData == [s \in Ids |-> [invoices |-> 3, rate |-> 4, otif |-> 95]]
================================================================================
