---------------------------- MODULE MCConservationGate ----------------------------
(* ConservationGate with a learner and one other thread, which plays in turn   *)
(* every other part: it scores, reads the counts and asks for the status.      *)
EXTENDS ConservationGate

\* A status that gets worse and recovers as outcomes come in.
SampleStatus(n) == CASE n = 0 -> "GREEN" [] n = 1 -> "RED" [] n = 2 -> "AMBER" [] OTHER -> "GREEN"

===============================================================================
