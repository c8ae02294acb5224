----------------------------- MODULE MCAuditChain -----------------------------
(* AuditChain on small sets of threads and processes. *)
EXTENDS AuditChain, TLC

CONSTANTS p1, p2, t1, t2, t3, d1, d2, e1, e2

OneProcess2 == [t \in {t1, t2} |-> p1]
OneProcess3 == [t \in {t1, t2, t3} |-> p1]
TwoProcesses == (t1 :> p1) @@ (t2 :> p2)

\* Fresh identifiers are interchangeable.
Identifiers == Permutations({d1, d2}) \cup Permutations({e1, e2})

===============================================================================
