-------------------------- MODULE MCDecisionLifecycle --------------------------
(* DecisionLifecycle with two decisions of one category, which is enough for   *)
(* one to be the other's rival for the category's last pending row.            *)
EXTENDS DecisionLifecycle, TLC

OneCategory == [d \in Decisions |-> CHOOSE c \in Categories : TRUE]

\* Three requests where there is no shadow or no crash, two where there are both.
CallsByMode == [m \in ShadowModes |-> IF m = "off" \/ "crash" \notin Faults THEN 3 ELSE 2]

Interchangeable == Permutations(Threads) \cup Permutations(Decisions)

================================================================================
