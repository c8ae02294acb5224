------------------------------ MODULE MCProposals ------------------------------
(* Proposals with two threads that play every part in turn.                    *)
EXTENDS Proposals

===============================================================================
