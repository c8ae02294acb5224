--------------------------- MODULE ProposalLifecycle ---------------------------
(***************************************************************************)
(* What ProposalService promises ("create proposals and close their        *)
(* human-verification outcome loop", services/proposal_service.py): each   *)
(* proposal is resolved at most once, one way, and the outcome put on      *)
(* record for it afterwards is that of its resolution.                     *)
(***************************************************************************)
CONSTANTS Proposals, Verdicts, None

VARIABLES
    standing,   \* None, "proposed", or the verdict that resolved the proposal
    verified    \* the outcome on record, None before there is one

lifecycleVars == <<standing, verified>>

LifecycleInit ==
    /\ standing = [p \in Proposals |-> None]
    /\ verified = [p \in Proposals |-> None]

Propose(p) ==
    /\ standing[p] = None
    /\ standing' = [standing EXCEPT ![p] = "proposed"]
    /\ UNCHANGED verified

Resolve(p, v) ==
    /\ standing[p] = "proposed"
    /\ standing' = [standing EXCEPT ![p] = v]
    /\ UNCHANGED verified

Verify(p) ==
    /\ standing[p] \in Verdicts /\ verified[p] = None
    /\ verified' = [verified EXCEPT ![p] = standing[p]]
    /\ UNCHANGED standing

LifecycleNext ==
    \E p \in Proposals : Propose(p) \/ Verify(p) \/ \E v \in Verdicts : Resolve(p, v)

LifecycleSpec == LifecycleInit /\ [][LifecycleNext]_lifecycleVars

===============================================================================
