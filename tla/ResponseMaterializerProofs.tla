---------------------- MODULE ResponseMaterializerProofs ----------------------
(***************************************************************************)
(* Machine-checked proofs about ResponseMaterializer, for any number of    *)
(* requests and writes and any time limits: builds never overlap, and what *)
(* is served shows every write whose invalidation has run.                 *)
(*                                                                         *)
(* The argument is about generations: a build whose generation is still    *)
(* the current one has seen no invalidation since it started, so each      *)
(* query it has made returned every write invalidated so far.              *)
(***************************************************************************)
EXTENDS ResponseMaterializer, TLAPS

USE DEF snapshotVars, sharedVars, callVars, Procs, Builders

-----------------------------------------------------------------------------
(* The inductive invariant *)

\* A request that may still ask for a refresh has tries left; the loop counts
\* none.
TriesLeft ==
    /\ \A r \in Readers : pc[r] \in {"look", "refresh", "waiting"} \cup Building => tries[r] < MaxTries
    /\ tries[Loop] = 0

\* What a build of the current generation has read so far.
Informed ==
    \A p \in Builders : pc[p] \in Building =>
        /\ gen[p] <= generation
        /\ gen[p] = generation /\ pc[p] \in {"verified", "publish"} => Invalidated \subseteq build[p].dec
        /\ gen[p] = generation /\ pc[p] = "publish" => Invalidated \subseteq build[p].ver

Covered == snap # None => Invalidated \subseteq snap.dec /\ Invalidated \subseteq snap.ver

IInv == TypeOK /\ OneBuild /\ TriesLeft /\ Informed /\ Covered

-----------------------------------------------------------------------------
(* Every step keeps the invariant *)

LEMMA Initially == Init => IInv
<1>. USE ConstantsAssumption DEF Init
<1>. NoBuild \in Views
  BY DEF NoBuild, Views
<1>1. Init => TypeOK
  <2>. SUFFICES ASSUME Init PROVE TypeOK
    OBVIOUS
  <2>1. pc \in [Procs -> Locations] /\ clock \in [Procs -> Nat]
    BY DEF Locations
  <2>2. tries \in [Procs -> 0..MaxTries] /\ gen \in [Procs -> Nat] /\ build \in [Procs -> Views]
    BY DEF MaxTries
  <2>3. disturbed \in [Procs -> BOOLEAN] /\ stage \in [Writes -> {"none", "committed", "done", "failed"}]
    OBVIOUS
  <2>. QED BY <2>1, <2>2, <2>3 DEF TypeOK
<1>2. Init => OneBuild /\ TriesLeft /\ Informed /\ Covered
  BY DEF OneBuild, TriesLeft, Informed, Covered, Building, MaxTries
<1>. QED BY <1>1, <1>2 DEF IInv

LEMMA AskKeepsInvariant ==
    ASSUME IInv, NEW r \in Readers, Ask(r)
    PROVE  IInv'
<1>. USE ConstantsAssumption DEF IInv, Ask, Goto
<1>1. TypeOK'
  BY DEF TypeOK, Locations, Building, Views, MaxTries, TriesLeft
<1>2. OneBuild'
  BY DEF OneBuild, TypeOK, Building
<1>3. TriesLeft'
  BY DEF TriesLeft, TypeOK, Building, MaxTries
<1>4. Informed'
  BY DEF Informed, TypeOK, Building, Views, Invalidated
<1>5. Covered'
  BY DEF Covered, TypeOK, Views, Invalidated
<1>. QED BY <1>1, <1>2, <1>3, <1>4, <1>5

LEMMA LoopAskKeepsInvariant ==
    ASSUME IInv, LoopAsk
    PROVE  IInv'
<1>. USE ConstantsAssumption DEF IInv, LoopAsk, Goto
<1>1. TypeOK'
  BY DEF TypeOK, Locations, Building, Views, MaxTries, TriesLeft
<1>2. OneBuild'
  BY DEF OneBuild, TypeOK, Building
<1>3. TriesLeft'
  BY DEF TriesLeft, TypeOK, Building, MaxTries
<1>4. Informed'
  BY DEF Informed, TypeOK, Building, Views, Invalidated
<1>5. Covered'
  BY DEF Covered, TypeOK, Views, Invalidated
<1>. QED BY <1>1, <1>2, <1>3, <1>4, <1>5

LEMMA LookKeepsInvariant ==
    ASSUME IInv, NEW r \in Readers, Look(r)
    PROVE  IInv'
<1>. USE ConstantsAssumption DEF IInv, Look, Goto
<1>1. TypeOK'
  BY DEF TypeOK, Locations, Building, Views, MaxTries, TriesLeft
<1>2. OneBuild'
  BY DEF OneBuild, TypeOK, Building
<1>3. TriesLeft'
  BY DEF TriesLeft, TypeOK, Building, MaxTries
<1>4. Informed'
  BY DEF Informed, TypeOK, Building, Views, Invalidated
<1>5. Covered'
  BY DEF Covered, TypeOK, Views, Invalidated
<1>. QED BY <1>1, <1>2, <1>3, <1>4, <1>5

LEMMA SkipRefreshKeepsInvariant ==
    ASSUME IInv, NEW r \in Readers, SkipRefresh(r)
    PROVE  IInv'
<1>. USE ConstantsAssumption DEF IInv, SkipRefresh, AfterRefresh, Goto
<1>1. TypeOK'
  BY DEF TypeOK, Locations, Building, Views, MaxTries, TriesLeft
<1>2. OneBuild'
  BY DEF OneBuild, TypeOK, Building
<1>3. TriesLeft'
  BY DEF TriesLeft, TypeOK, Building, MaxTries
<1>4. Informed'
  BY DEF Informed, TypeOK, Building, Views, Invalidated
<1>5. Covered'
  BY DEF Covered, TypeOK, Views, Invalidated
<1>. QED BY <1>1, <1>2, <1>3, <1>4, <1>5

LEMMA JoinRefreshKeepsInvariant ==
    ASSUME IInv, NEW p \in Builders, JoinRefresh(p)
    PROVE  IInv'
<1>. USE ConstantsAssumption DEF IInv, JoinRefresh, Goto
<1>1. TypeOK'
  BY DEF TypeOK, Locations, Building, Views, MaxTries, TriesLeft
<1>2. OneBuild'
  BY DEF OneBuild, TypeOK, Building
<1>3. TriesLeft'
  BY DEF TriesLeft, TypeOK, Building, MaxTries
<1>4. Informed'
  BY DEF Informed, TypeOK, Building, Views, Invalidated
<1>5. Covered'
  BY DEF Covered, TypeOK, Views, Invalidated
<1>. QED BY <1>1, <1>2, <1>3, <1>4, <1>5

LEMMA StartRefreshKeepsInvariant ==
    ASSUME IInv, NEW p \in Builders, StartRefresh(p)
    PROVE  IInv'
<1>. USE ConstantsAssumption DEF IInv, StartRefresh, Goto
<1>1. TypeOK'
  BY DEF TypeOK, Locations, Building, Views, MaxTries, TriesLeft
<1>2. OneBuild'
  BY DEF OneBuild, TypeOK, Building
<1>3. TriesLeft'
  BY DEF TriesLeft, TypeOK, Building, MaxTries
<1>4. Informed'
  BY DEF Informed, TypeOK, Building, Views, Invalidated
<1>5. Covered'
  BY DEF Covered, TypeOK, Views, Invalidated
<1>. QED BY <1>1, <1>2, <1>3, <1>4, <1>5

LEMMA WakeRaisesKeepsInvariant ==
    ASSUME IInv, NEW p \in Builders, WakeRaises(p)
    PROVE  IInv'
<1>. USE ConstantsAssumption DEF IInv, WakeRaises, Goto
<1>1. TypeOK'
  BY DEF TypeOK, Locations, Building, Views, MaxTries, TriesLeft
<1>2. OneBuild'
  BY DEF OneBuild, TypeOK, Building
<1>3. TriesLeft'
  BY DEF TriesLeft, TypeOK, Building, MaxTries
<1>4. Informed'
  BY DEF Informed, TypeOK, Building, Views, Invalidated
<1>5. Covered'
  BY DEF Covered, TypeOK, Views, Invalidated
<1>. QED BY <1>1, <1>2, <1>3, <1>4, <1>5

LEMMA WakeReturnsKeepsInvariant ==
    ASSUME IInv, NEW p \in Builders, WakeReturns(p)
    PROVE  IInv'
<1>. USE ConstantsAssumption DEF IInv, WakeReturns, AfterRefresh, Goto
<1>1. TypeOK'
  BY DEF TypeOK, Locations, Building, Views, MaxTries, TriesLeft
<1>2. OneBuild'
  BY DEF OneBuild, TypeOK, Building
<1>3. TriesLeft'
  BY DEF TriesLeft, TypeOK, Building, MaxTries
<1>4. Informed'
  BY DEF Informed, TypeOK, Building, Views, Invalidated
<1>5. Covered'
  BY DEF Covered, TypeOK, Views, Invalidated
<1>. QED BY <1>1, <1>2, <1>3, <1>4, <1>5

LEMMA WaitTimesOutKeepsInvariant ==
    ASSUME IInv, NEW p \in Builders, WaitTimesOut(p)
    PROVE  IInv'
<1>. USE ConstantsAssumption DEF IInv, WaitTimesOut, AfterRefresh, Goto
<1>1. TypeOK'
  BY DEF TypeOK, Locations, Building, Views, MaxTries, TriesLeft
<1>2. OneBuild'
  BY DEF OneBuild, TypeOK, Building
<1>3. TriesLeft'
  BY DEF TriesLeft, TypeOK, Building, MaxTries
<1>4. Informed'
  BY DEF Informed, TypeOK, Building, Views, Invalidated
<1>5. Covered'
  BY DEF Covered, TypeOK, Views, Invalidated
<1>. QED BY <1>1, <1>2, <1>3, <1>4, <1>5

LEMMA ReadDecisionsKeepsInvariant ==
    ASSUME IInv, NEW p \in Builders, ReadDecisions(p)
    PROVE  IInv'
<1>. USE ConstantsAssumption DEF IInv, ReadDecisions, Goto
<1>1. TypeOK'
  BY DEF TypeOK, Locations, Building, Views, MaxTries, TriesLeft, Stored
<1>2. OneBuild'
  BY DEF OneBuild, TypeOK, Building
<1>3. TriesLeft'
  BY DEF TriesLeft, TypeOK, Building, MaxTries
<1>4. Informed'
  BY DEF Informed, TypeOK, Building, Views, Invalidated, Stored
<1>5. Covered'
  BY DEF Covered, TypeOK, Views, Invalidated
<1>. QED BY <1>1, <1>2, <1>3, <1>4, <1>5

LEMMA ReadVerifiedKeepsInvariant ==
    ASSUME IInv, NEW p \in Builders, ReadVerified(p)
    PROVE  IInv'
<1>. USE ConstantsAssumption DEF IInv, ReadVerified, Goto
<1>1. TypeOK'
  BY DEF TypeOK, Locations, Building, Views, MaxTries, TriesLeft, Stored
<1>2. OneBuild'
  BY DEF OneBuild, TypeOK, Building
<1>3. TriesLeft'
  BY DEF TriesLeft, TypeOK, Building, MaxTries
<1>4. Informed'
  BY DEF Informed, TypeOK, Building, Views, Invalidated, Stored
<1>5. Covered'
  BY DEF Covered, TypeOK, Views, Invalidated
<1>. QED BY <1>1, <1>2, <1>3, <1>4, <1>5

LEMMA QueryFailsKeepsInvariant ==
    ASSUME IInv, NEW p \in Builders, QueryFails(p)
    PROVE  IInv'
<1>. USE ConstantsAssumption DEF IInv, QueryFails, Goto
<1>1. TypeOK'
  BY DEF TypeOK, Locations, Building, Views, MaxTries, TriesLeft
<1>2. OneBuild'
  BY DEF OneBuild, TypeOK, Building
<1>3. TriesLeft'
  BY DEF TriesLeft, TypeOK, Building, MaxTries
<1>4. Informed'
  BY DEF Informed, TypeOK, Building, Views, Invalidated
<1>5. Covered'
  BY DEF Covered, TypeOK, Views, Invalidated
<1>. QED BY <1>1, <1>2, <1>3, <1>4, <1>5

\* Only a build of the current generation is published.
LEMMA PublishKeepsInvariant ==
    ASSUME IInv, NEW p \in Builders, Publish(p)
    PROVE  IInv'
<1>. USE ConstantsAssumption DEF IInv, Publish, Goto
<1>1. TypeOK'
  BY DEF TypeOK, Locations, Building, Views, MaxTries, TriesLeft, Current
<1>2. OneBuild'
  BY DEF OneBuild, TypeOK, Building
<1>3. TriesLeft'
  BY DEF TriesLeft, TypeOK, Building, MaxTries
<1>4. Informed'
  BY DEF Informed, TypeOK, Building, Views, Invalidated
<1>5. Covered'
  BY DEF Covered, TypeOK, Views, Invalidated, Current, Informed, Building
<1>. QED BY <1>1, <1>2, <1>3, <1>4, <1>5

LEMMA FinishRefreshKeepsInvariant ==
    ASSUME IInv, NEW p \in Builders, FinishRefresh(p)
    PROVE  IInv'
<1>. USE ConstantsAssumption DEF IInv, FinishRefresh, EndBuild, AfterRefresh, Goto
<1>. NoBuild \in Views
  BY DEF NoBuild, Views
<1>1. TypeOK'
  <2>1. pc' \in [Procs -> Locations] /\ clock' \in [Procs -> Nat]
    BY DEF TypeOK, Locations
  <2>2. tries' \in [Procs -> 0..MaxTries]
    BY DEF TypeOK, TriesLeft, MaxTries, Building
  <2>3. build' \in [Procs -> Views] /\ gen' \in [Procs -> Nat]
    BY DEF TypeOK
  <2>. QED BY <2>1, <2>2, <2>3 DEF TypeOK
<1>2. OneBuild'
  BY DEF OneBuild, TypeOK, Building
<1>3. TriesLeft'
  BY DEF TriesLeft, TypeOK, Building, MaxTries
<1>4. Informed'
  BY DEF Informed, TypeOK, Building, Views, Invalidated
<1>5. Covered'
  BY DEF Covered, TypeOK, Views, Invalidated
<1>. QED BY <1>1, <1>2, <1>3, <1>4, <1>5

LEMMA RaiseFailureKeepsInvariant ==
    ASSUME IInv, NEW p \in Builders, RaiseFailure(p)
    PROVE  IInv'
<1>. USE ConstantsAssumption DEF IInv, RaiseFailure, EndBuild, Goto
<1>1. TypeOK'
  BY DEF TypeOK, Locations, Building, Views, MaxTries, TriesLeft, NoBuild
<1>2. OneBuild'
  BY DEF OneBuild, TypeOK, Building
<1>3. TriesLeft'
  BY DEF TriesLeft, TypeOK, Building, MaxTries
<1>4. Informed'
  BY DEF Informed, TypeOK, Building, Views, Invalidated
<1>5. Covered'
  BY DEF Covered, TypeOK, Views, Invalidated
<1>. QED BY <1>1, <1>2, <1>3, <1>4, <1>5

LEMMA GetKeepsInvariant ==
    ASSUME IInv, NEW r \in Readers, Get(r)
    PROVE  IInv'
<1>. USE ConstantsAssumption DEF IInv, Get, Goto
<1>1. TypeOK'
  BY DEF TypeOK, Locations, Building, Views, MaxTries, TriesLeft
<1>2. OneBuild'
  BY DEF OneBuild, TypeOK, Building
<1>3. TriesLeft'
  BY DEF TriesLeft, TypeOK, Building, MaxTries
<1>4. Informed'
  BY DEF Informed, TypeOK, Building, Views, Invalidated
<1>5. Covered'
  BY DEF Covered, TypeOK, Views, Invalidated
<1>. QED BY <1>1, <1>2, <1>3, <1>4, <1>5

LEMMA CommitKeepsInvariant ==
    ASSUME IInv, NEW w \in Writes, Commit(w)
    PROVE  IInv'
<1>. USE ConstantsAssumption DEF IInv, Commit
<1>1. TypeOK'
  BY DEF TypeOK, Locations, Building, Views, MaxTries, TriesLeft
<1>2. OneBuild'
  BY DEF OneBuild, TypeOK, Building
<1>3. TriesLeft'
  BY DEF TriesLeft, TypeOK, Building, MaxTries
<1>4. Informed'
  BY DEF Informed, TypeOK, Building, Views, Invalidated
<1>5. Covered'
  BY DEF Covered, TypeOK, Views, Invalidated
<1>. QED BY <1>1, <1>2, <1>3, <1>4, <1>5

\* The write's invalidation leaves no build of the new generation behind.
LEMMA InvalidateAfterKeepsInvariant ==
    ASSUME IInv, NEW w \in Writes, InvalidateAfter(w)
    PROVE  IInv'
<1>. USE ConstantsAssumption DEF IInv, InvalidateAfter, Invalidate
<1>1. TypeOK'
  BY DEF TypeOK, Locations, Building, Views, MaxTries, TriesLeft
<1>2. OneBuild'
  BY DEF OneBuild, TypeOK, Building
<1>3. TriesLeft'
  BY DEF TriesLeft, TypeOK, Building, MaxTries
<1>4. Informed'
  BY DEF Informed, TypeOK, Building, Views, Invalidated
<1>5. Covered'
  BY DEF Covered, TypeOK, Views, Invalidated
<1>. QED BY <1>1, <1>2, <1>3, <1>4, <1>5

LEMMA SealingFailsKeepsInvariant ==
    ASSUME IInv, NEW w \in Writes, SealingFails(w)
    PROVE  IInv'
<1>. USE ConstantsAssumption DEF IInv, SealingFails
<1>1. TypeOK'
  BY DEF TypeOK, Locations, Building, Views, MaxTries, TriesLeft
<1>2. OneBuild'
  BY DEF OneBuild, TypeOK, Building
<1>3. TriesLeft'
  BY DEF TriesLeft, TypeOK, Building, MaxTries
<1>4. Informed'
  BY DEF Informed, TypeOK, Building, Views, Invalidated
<1>5. Covered'
  BY DEF Covered, TypeOK, Views, Invalidated
<1>. QED BY <1>1, <1>2, <1>3, <1>4, <1>5

LEMMA ShutdownKeepsInvariant ==
    ASSUME IInv, Shutdown
    PROVE  IInv'
<1>. USE ConstantsAssumption DEF IInv, Shutdown, Invalidate, Goto
<1>1. TypeOK'
  BY DEF TypeOK, Locations, Building, Views, MaxTries, TriesLeft
<1>2. OneBuild'
  BY DEF OneBuild, TypeOK, Building
<1>3. TriesLeft'
  BY DEF TriesLeft, TypeOK, Building, MaxTries
<1>4. Informed'
  BY DEF Informed, TypeOK, Building, Views, Invalidated
<1>5. Covered'
  BY DEF Covered, TypeOK, Views, Invalidated
<1>. QED BY <1>1, <1>2, <1>3, <1>4, <1>5

LEMMA JoinedKeepsInvariant ==
    ASSUME IInv, Joined
    PROVE  IInv'
<1>. USE ConstantsAssumption DEF IInv, Joined, Goto
<1>1. TypeOK'
  BY DEF TypeOK, Locations, Building, Views, MaxTries, TriesLeft
<1>2. OneBuild'
  BY DEF OneBuild, TypeOK, Building
<1>3. TriesLeft'
  BY DEF TriesLeft, TypeOK, Building, MaxTries
<1>4. Informed'
  BY DEF Informed, TypeOK, Building, Views, Invalidated
<1>5. Covered'
  BY DEF Covered, TypeOK, Views, Invalidated
<1>. QED BY <1>1, <1>2, <1>3, <1>4, <1>5

LEMMA TickKeepsInvariant ==
    ASSUME IInv, Tick
    PROVE  IInv'
<1>. USE ConstantsAssumption DEF IInv, Tick
<1>1. TypeOK'
  BY DEF TypeOK, Locations, Building, Views, MaxTries, TriesLeft, Fresh
<1>2. OneBuild'
  BY DEF OneBuild, TypeOK, Building
<1>3. TriesLeft'
  BY DEF TriesLeft, TypeOK, Building, MaxTries
<1>4. Informed'
  BY DEF Informed, TypeOK, Building, Views, Invalidated
<1>5. Covered'
  BY DEF Covered, TypeOK, Views, Invalidated
<1>. QED BY <1>1, <1>2, <1>3, <1>4, <1>5


LEMMA StepKeepsInvariant == IInv /\ [Next]_vars => IInv'
<1>. SUFFICES ASSUME IInv, [Next]_vars PROVE IInv'
  OBVIOUS
<1>1. ASSUME NEW r \in Readers, Ask(r) \/ ReadStep(r) PROVE IInv'
  BY <1>1, AskKeepsInvariant, LookKeepsInvariant, SkipRefreshKeepsInvariant, GetKeepsInvariant
     DEF ReadStep
<1>2. ASSUME NEW p \in Builders, RefreshStep(p) PROVE IInv'
  BY <1>2, JoinRefreshKeepsInvariant, StartRefreshKeepsInvariant, WakeRaisesKeepsInvariant,
     WakeReturnsKeepsInvariant, WaitTimesOutKeepsInvariant, ReadDecisionsKeepsInvariant,
     ReadVerifiedKeepsInvariant, QueryFailsKeepsInvariant, PublishKeepsInvariant,
     FinishRefreshKeepsInvariant, RaiseFailureKeepsInvariant
     DEF RefreshStep
<1>3. ASSUME NEW w \in Writes, Commit(w) \/ InvalidateAfter(w) \/ SealingFails(w) PROVE IInv'
  BY <1>3, CommitKeepsInvariant, InvalidateAfterKeepsInvariant, SealingFailsKeepsInvariant
<1>4. CASE LoopAsk \/ Shutdown \/ Joined \/ Tick
  BY <1>4, LoopAskKeepsInvariant, ShutdownKeepsInvariant, JoinedKeepsInvariant, TickKeepsInvariant
<1>5. CASE UNCHANGED vars
  BY <1>5 DEF vars, IInv, TypeOK, OneBuild, TriesLeft, Informed, Covered, Invalidated
<1>. QED BY <1>1, <1>2, <1>3, <1>4, <1>5 DEF Next

LEMMA InvariantHolds == Spec => []IInv
<1>1. Init => IInv
  BY Initially
<1>2. IInv /\ [Next]_vars => IInv'
  BY StepKeepsInvariant
<1>. QED BY <1>1, <1>2, PTL DEF Spec

-----------------------------------------------------------------------------
(* Why a call gets its answer *)

\* A snapshot has an age; a build that ended well, with no invalidation since
\* it started, has left a fresh one; one that failed has said so.
Outcomes ==
    /\ age # None => snap # None
    /\ \A p \in Builders :
        /\ pc[p] = "failing" => failure
        /\ pc[p] = "finish" /\ gen[p] = generation => Fresh

\* Only a build that was under way before a call can come back to it stale: once
\* the call has waited for that one, every build it meets is current.
MeetsOnlyCurrent ==
    Fresh \/ \A p \in Builders : pc[p] \in Building => gen[p] = generation

OnItsWay(r) ==
    /\ pc[r] \in Building => gen[r] = generation
    /\ pc[r] = "get" \/ tries[r] >= 2 => Fresh
    /\ tries[r] >= 1 => MeetsOnlyCurrent
    /\ tries[r] >= 1 /\ pc[r] = "waiting" /\ ~refreshing /\ ~failure => Fresh

Answering == Outcomes /\ \A r \in Readers : pc[r] # "idle" /\ ~disturbed[r] => OnItsWay(r)

LEMMA InitiallyAnswering == Init => Answering
  BY ConstantsAssumption DEF Init, Answering, Outcomes

LEMMA AskStaysAnswering ==
    ASSUME IInv, Answering, NEW r \in Readers, Ask(r)
    PROVE  Answering'
<1>. USE ConstantsAssumption DEF IInv, Ask, Goto
<1>1. Outcomes'
  BY DEF Answering, Outcomes, OneBuild, TypeOK, Fresh, Building, Informed
<1>2. ASSUME NEW x \in Readers, pc'[x] # "idle", ~disturbed'[x] PROVE OnItsWay(x)'
  BY <1>2 DEF Answering, Outcomes, OnItsWay, MeetsOnlyCurrent, OneBuild, TypeOK, Fresh, Building, MaxTries
<1>. QED BY <1>1, <1>2 DEF Answering

LEMMA LoopAskStaysAnswering ==
    ASSUME IInv, Answering, LoopAsk
    PROVE  Answering'
<1>. USE ConstantsAssumption DEF IInv, LoopAsk, Goto
<1>1. Outcomes'
  BY DEF Answering, Outcomes, OneBuild, TypeOK, Fresh, Building, Informed
<1>2. ASSUME NEW x \in Readers, pc'[x] # "idle", ~disturbed'[x] PROVE OnItsWay(x)'
  BY <1>2 DEF Answering, Outcomes, OnItsWay, MeetsOnlyCurrent, OneBuild, TypeOK, Fresh, Building, MaxTries
<1>. QED BY <1>1, <1>2 DEF Answering

LEMMA LookStaysAnswering ==
    ASSUME IInv, Answering, NEW r \in Readers, Look(r)
    PROVE  Answering'
<1>. USE ConstantsAssumption DEF IInv, Look, Goto
<1>1. Outcomes'
  BY DEF Answering, Outcomes, OneBuild, TypeOK, Fresh, Building, Informed
<1>2. ASSUME NEW x \in Readers, pc'[x] # "idle", ~disturbed'[x] PROVE OnItsWay(x)'
  BY <1>2 DEF Answering, Outcomes, OnItsWay, MeetsOnlyCurrent, OneBuild, TypeOK, Fresh, Building, MaxTries
<1>. QED BY <1>1, <1>2 DEF Answering

LEMMA SkipRefreshStaysAnswering ==
    ASSUME IInv, Answering, NEW r \in Readers, SkipRefresh(r)
    PROVE  Answering'
<1>. USE ConstantsAssumption DEF IInv, SkipRefresh, AfterRefresh, Goto
<1>1. Outcomes'
  BY DEF Answering, Outcomes, OneBuild, TypeOK, Fresh, Building, Informed
<1>2. ASSUME NEW x \in Readers, pc'[x] # "idle", ~disturbed'[x] PROVE OnItsWay(x)'
  BY <1>2 DEF Answering, Outcomes, OnItsWay, MeetsOnlyCurrent, OneBuild, TypeOK, Fresh, Building, MaxTries
<1>. QED BY <1>1, <1>2 DEF Answering

LEMMA JoinRefreshStaysAnswering ==
    ASSUME IInv, Answering, NEW p \in Builders, JoinRefresh(p)
    PROVE  Answering'
<1>. USE ConstantsAssumption DEF IInv, JoinRefresh, Goto
<1>1. Outcomes'
  BY DEF Answering, Outcomes, OneBuild, TypeOK, Fresh, Building, Informed
<1>2. ASSUME NEW x \in Readers, pc'[x] # "idle", ~disturbed'[x] PROVE OnItsWay(x)'
  BY <1>2 DEF Answering, Outcomes, OnItsWay, MeetsOnlyCurrent, OneBuild, TypeOK, Fresh, Building, MaxTries
<1>. QED BY <1>1, <1>2 DEF Answering

LEMMA StartRefreshStaysAnswering ==
    ASSUME IInv, Answering, NEW p \in Builders, StartRefresh(p)
    PROVE  Answering'
<1>. USE ConstantsAssumption DEF IInv, StartRefresh, Stale, Goto
<1>1. Outcomes'
  BY DEF Answering, Outcomes, OneBuild, TypeOK, Fresh, Building, Informed
<1>2. ASSUME NEW x \in Readers, pc'[x] # "idle", ~disturbed'[x] PROVE OnItsWay(x)'
  BY <1>2 DEF Answering, Outcomes, OnItsWay, MeetsOnlyCurrent, OneBuild, TypeOK, Fresh, Building, MaxTries
<1>. QED BY <1>1, <1>2 DEF Answering

LEMMA WakeRaisesStaysAnswering ==
    ASSUME IInv, Answering, NEW p \in Builders, WakeRaises(p)
    PROVE  Answering'
<1>. USE ConstantsAssumption DEF IInv, WakeRaises, Goto
<1>1. Outcomes'
  BY DEF Answering, Outcomes, OneBuild, TypeOK, Fresh, Building, Informed
<1>2. ASSUME NEW x \in Readers, pc'[x] # "idle", ~disturbed'[x] PROVE OnItsWay(x)'
  BY <1>2 DEF Answering, Outcomes, OnItsWay, MeetsOnlyCurrent, OneBuild, TypeOK, Fresh, Building, MaxTries
<1>. QED BY <1>1, <1>2 DEF Answering

LEMMA WakeReturnsStaysAnswering ==
    ASSUME IInv, Answering, NEW p \in Builders, WakeReturns(p)
    PROVE  Answering'
<1>. USE ConstantsAssumption DEF IInv, WakeReturns, AfterRefresh, Goto
<1>1. Outcomes'
  BY DEF Answering, Outcomes, OneBuild, TypeOK, Fresh, Building, Informed
<1>2. ASSUME NEW x \in Readers, pc'[x] # "idle", ~disturbed'[x] PROVE OnItsWay(x)'
  BY <1>2 DEF Answering, Outcomes, OnItsWay, MeetsOnlyCurrent, OneBuild, TypeOK, Fresh, Building, MaxTries
<1>. QED BY <1>1, <1>2 DEF Answering

LEMMA WaitTimesOutStaysAnswering ==
    ASSUME IInv, Answering, NEW p \in Builders, WaitTimesOut(p)
    PROVE  Answering'
<1>. USE ConstantsAssumption DEF IInv, WaitTimesOut, AfterRefresh, Goto
<1>1. Outcomes'
  BY DEF Answering, Outcomes, OneBuild, TypeOK, Fresh, Building, Informed
<1>2. ASSUME NEW x \in Readers, pc'[x] # "idle", ~disturbed'[x] PROVE OnItsWay(x)'
  BY <1>2 DEF Answering, Outcomes, OnItsWay, MeetsOnlyCurrent, OneBuild, TypeOK, Fresh, Building, MaxTries
<1>. QED BY <1>1, <1>2 DEF Answering

LEMMA ReadDecisionsStaysAnswering ==
    ASSUME IInv, Answering, NEW p \in Builders, ReadDecisions(p)
    PROVE  Answering'
<1>. USE ConstantsAssumption DEF IInv, ReadDecisions, Goto
<1>1. Outcomes'
  BY DEF Answering, Outcomes, OneBuild, TypeOK, Fresh, Building, Informed
<1>2. ASSUME NEW x \in Readers, pc'[x] # "idle", ~disturbed'[x] PROVE OnItsWay(x)'
  BY <1>2 DEF Answering, Outcomes, OnItsWay, MeetsOnlyCurrent, OneBuild, TypeOK, Fresh, Building, MaxTries
<1>. QED BY <1>1, <1>2 DEF Answering

LEMMA ReadVerifiedStaysAnswering ==
    ASSUME IInv, Answering, NEW p \in Builders, ReadVerified(p)
    PROVE  Answering'
<1>. USE ConstantsAssumption DEF IInv, ReadVerified, Goto
<1>1. Outcomes'
  BY DEF Answering, Outcomes, OneBuild, TypeOK, Fresh, Building, Informed
<1>2. ASSUME NEW x \in Readers, pc'[x] # "idle", ~disturbed'[x] PROVE OnItsWay(x)'
  BY <1>2 DEF Answering, Outcomes, OnItsWay, MeetsOnlyCurrent, OneBuild, TypeOK, Fresh, Building, MaxTries
<1>. QED BY <1>1, <1>2 DEF Answering

LEMMA QueryFailsStaysAnswering ==
    ASSUME IInv, Answering, NEW p \in Builders, QueryFails(p)
    PROVE  Answering'
<1>. USE ConstantsAssumption DEF IInv, QueryFails, Goto
<1>1. Outcomes'
  BY DEF Answering, Outcomes, OneBuild, TypeOK, Fresh, Building, Informed
<1>2. ASSUME NEW x \in Readers, pc'[x] # "idle", ~disturbed'[x] PROVE OnItsWay(x)'
  BY <1>2 DEF Answering, Outcomes, OnItsWay, MeetsOnlyCurrent, OneBuild, TypeOK, Fresh, Building, MaxTries
<1>. QED BY <1>1, <1>2 DEF Answering

LEMMA PublishStaysAnswering ==
    ASSUME IInv, Answering, NEW p \in Builders, Publish(p)
    PROVE  Answering'
<1>. USE ConstantsAssumption DEF IInv, Publish, Current, Goto
<1>1. Outcomes'
  <2>1. \A q \in Builders : pc[q] \in Building => q = p
    BY DEF OneBuild, Building
  <2>2. (age # None => snap # None)'
    BY ConstantsAssumption DEF Answering, Outcomes, TypeOK, Views
  <2>3. gen[p] = generation => Fresh'
    BY DEF Fresh
  <2>. QED BY <2>1, <2>2, <2>3 DEF Answering, Outcomes, TypeOK, Building
<1>2. ASSUME NEW x \in Readers, pc'[x] # "idle", ~disturbed'[x] PROVE OnItsWay(x)'
  BY <1>2 DEF Answering, Outcomes, OnItsWay, MeetsOnlyCurrent, OneBuild, TypeOK, Fresh, Building, MaxTries
<1>. QED BY <1>1, <1>2 DEF Answering

LEMMA FinishRefreshStaysAnswering ==
    ASSUME IInv, Answering, NEW p \in Builders, FinishRefresh(p)
    PROVE  Answering'
<1>. USE ConstantsAssumption DEF IInv, FinishRefresh, EndBuild, AfterRefresh, Goto
<1>1. Outcomes'
  BY DEF Answering, Outcomes, OneBuild, TypeOK, Fresh, Building, Informed
<1>2. ASSUME NEW x \in Readers, pc'[x] # "idle", ~disturbed'[x] PROVE OnItsWay(x)'
  BY <1>2 DEF Answering, Outcomes, OnItsWay, MeetsOnlyCurrent, OneBuild, TypeOK, Fresh, Building, MaxTries
<1>. QED BY <1>1, <1>2 DEF Answering

LEMMA RaiseFailureStaysAnswering ==
    ASSUME IInv, Answering, NEW p \in Builders, RaiseFailure(p)
    PROVE  Answering'
<1>. USE ConstantsAssumption DEF IInv, RaiseFailure, EndBuild, Goto
<1>1. Outcomes'
  BY DEF Answering, Outcomes, OneBuild, TypeOK, Fresh, Building, Informed
<1>2. ASSUME NEW x \in Readers, pc'[x] # "idle", ~disturbed'[x] PROVE OnItsWay(x)'
  BY <1>2 DEF Answering, Outcomes, OnItsWay, MeetsOnlyCurrent, OneBuild, TypeOK, Fresh, Building, MaxTries
<1>. QED BY <1>1, <1>2 DEF Answering

LEMMA GetStaysAnswering ==
    ASSUME IInv, Answering, NEW r \in Readers, Get(r)
    PROVE  Answering'
<1>. USE ConstantsAssumption DEF IInv, Get, Goto
<1>1. Outcomes'
  BY DEF Answering, Outcomes, OneBuild, TypeOK, Fresh, Building, Informed
<1>2. ASSUME NEW x \in Readers, pc'[x] # "idle", ~disturbed'[x] PROVE OnItsWay(x)'
  BY <1>2 DEF Answering, Outcomes, OnItsWay, MeetsOnlyCurrent, OneBuild, TypeOK, Fresh, Building, MaxTries
<1>. QED BY <1>1, <1>2 DEF Answering

LEMMA CommitStaysAnswering ==
    ASSUME IInv, Answering, NEW w \in Writes, Commit(w)
    PROVE  Answering'
<1>. USE ConstantsAssumption DEF IInv, Commit
<1>1. Outcomes'
  BY DEF Answering, Outcomes, OneBuild, TypeOK, Fresh, Building, Informed
<1>2. ASSUME NEW x \in Readers, pc'[x] # "idle", ~disturbed'[x] PROVE OnItsWay(x)'
  BY <1>2 DEF Answering, Outcomes, OnItsWay, MeetsOnlyCurrent, OneBuild, TypeOK, Fresh, Building, MaxTries
<1>. QED BY <1>1, <1>2 DEF Answering

LEMMA InvalidateAfterStaysAnswering ==
    ASSUME IInv, Answering, NEW w \in Writes, InvalidateAfter(w)
    PROVE  Answering'
<1>. USE ConstantsAssumption DEF IInv, InvalidateAfter, Invalidate
<1>1. Outcomes'
  BY DEF Answering, Outcomes, OneBuild, TypeOK, Fresh, Building, Informed
<1>2. ASSUME NEW x \in Readers, pc'[x] # "idle", ~disturbed'[x] PROVE OnItsWay(x)'
  BY <1>2 DEF Answering, Outcomes, OnItsWay, MeetsOnlyCurrent, OneBuild, TypeOK, Fresh, Building, MaxTries
<1>. QED BY <1>1, <1>2 DEF Answering

LEMMA SealingFailsStaysAnswering ==
    ASSUME IInv, Answering, NEW w \in Writes, SealingFails(w)
    PROVE  Answering'
<1>. USE ConstantsAssumption DEF IInv, SealingFails
<1>1. Outcomes'
  BY DEF Answering, Outcomes, OneBuild, TypeOK, Fresh, Building, Informed
<1>2. ASSUME NEW x \in Readers, pc'[x] # "idle", ~disturbed'[x] PROVE OnItsWay(x)'
  BY <1>2 DEF Answering, Outcomes, OnItsWay, MeetsOnlyCurrent, OneBuild, TypeOK, Fresh, Building, MaxTries
<1>. QED BY <1>1, <1>2 DEF Answering

LEMMA ShutdownStaysAnswering ==
    ASSUME IInv, Answering, Shutdown
    PROVE  Answering'
<1>. USE ConstantsAssumption DEF IInv, Shutdown, Invalidate, Goto
<1>1. Outcomes'
  BY DEF Answering, Outcomes, OneBuild, TypeOK, Fresh, Building, Informed
<1>2. ASSUME NEW x \in Readers, pc'[x] # "idle", ~disturbed'[x] PROVE OnItsWay(x)'
  BY <1>2 DEF Answering, Outcomes, OnItsWay, MeetsOnlyCurrent, OneBuild, TypeOK, Fresh, Building, MaxTries
<1>. QED BY <1>1, <1>2 DEF Answering

LEMMA JoinedStaysAnswering ==
    ASSUME IInv, Answering, Joined
    PROVE  Answering'
<1>. USE ConstantsAssumption DEF IInv, Joined, Goto
<1>1. Outcomes'
  BY DEF Answering, Outcomes, OneBuild, TypeOK, Fresh, Building, Informed
<1>2. ASSUME NEW x \in Readers, pc'[x] # "idle", ~disturbed'[x] PROVE OnItsWay(x)'
  BY <1>2 DEF Answering, Outcomes, OnItsWay, MeetsOnlyCurrent, OneBuild, TypeOK, Fresh, Building, MaxTries
<1>. QED BY <1>1, <1>2 DEF Answering

LEMMA TickStaysAnswering ==
    ASSUME IInv, Answering, Tick
    PROVE  Answering'
<1>. USE ConstantsAssumption DEF IInv, Tick
<1>1. Outcomes'
  BY DEF Answering, Outcomes, OneBuild, TypeOK, Fresh, Building, Informed
<1>2. ASSUME NEW x \in Readers, pc'[x] # "idle", ~disturbed'[x] PROVE OnItsWay(x)'
  <2>1. Fresh => Fresh'
    <3>1. SUFFICES ASSUME Fresh PROVE Fresh'
      OBVIOUS
    <3>2. age' = age + 1 /\ age + 1 # Ttl
      BY <1>2, <3>1
    <3>3. age \in 0..Ttl /\ age < Ttl
      BY <3>1 DEF TypeOK, Fresh
    <3>4. age' \in Nat /\ age' < Ttl
      BY <3>2, <3>3
    <3>. QED BY <3>4 DEF Fresh
  <2>. QED BY <1>2, <2>1 DEF Answering, OnItsWay, MeetsOnlyCurrent, TypeOK
<1>. QED BY <1>1, <1>2 DEF Answering

LEMMA StepStaysAnswering == IInv /\ Answering /\ [Next]_vars => Answering'
<1>. SUFFICES ASSUME IInv, Answering, [Next]_vars PROVE Answering'
  OBVIOUS
<1>1. ASSUME NEW r \in Readers, Ask(r) \/ ReadStep(r) PROVE Answering'
  BY <1>1, AskStaysAnswering, LookStaysAnswering, SkipRefreshStaysAnswering, GetStaysAnswering
     DEF ReadStep
<1>2. ASSUME NEW p \in Builders, RefreshStep(p) PROVE Answering'
  BY <1>2, JoinRefreshStaysAnswering, StartRefreshStaysAnswering, WakeRaisesStaysAnswering,
     WakeReturnsStaysAnswering, WaitTimesOutStaysAnswering, ReadDecisionsStaysAnswering,
     ReadVerifiedStaysAnswering, QueryFailsStaysAnswering, PublishStaysAnswering,
     FinishRefreshStaysAnswering, RaiseFailureStaysAnswering
     DEF RefreshStep
<1>3. ASSUME NEW w \in Writes, Commit(w) \/ InvalidateAfter(w) \/ SealingFails(w) PROVE Answering'
  BY <1>3, CommitStaysAnswering, InvalidateAfterStaysAnswering, SealingFailsStaysAnswering
<1>4. CASE LoopAsk \/ Shutdown \/ Joined \/ Tick
  BY <1>4, LoopAskStaysAnswering, ShutdownStaysAnswering, JoinedStaysAnswering, TickStaysAnswering
<1>5. CASE UNCHANGED vars
  BY <1>5 DEF vars, Answering, Outcomes, OnItsWay, MeetsOnlyCurrent, Fresh
<1>. QED BY <1>1, <1>2, <1>3, <1>4, <1>5 DEF Next

LEMMA AnsweringHolds == Spec => [](IInv /\ Answering)
<1>1. Init => IInv /\ Answering
  BY Initially, InitiallyAnswering
<1>2. IInv /\ Answering /\ [Next]_vars => (IInv /\ Answering)'
  BY StepKeepsInvariant, StepStaysAnswering
<1>. QED BY <1>1, <1>2, PTL DEF Spec

-----------------------------------------------------------------------------
(* The theorems *)

\* Every variable keeps its type; no call asks for more than MaxTries refreshes.
THEOREM TypeCorrect == Spec => []TypeOK
<1>1. IInv => TypeOK
  BY DEF IInv
<1>. QED BY <1>1, InvariantHolds, PTL

\* Concurrent misses share one build.
THEOREM BuildsNeverOverlap == Spec => []OneBuild
<1>1. IInv => OneBuild
  BY DEF IInv
<1>. QED BY <1>1, InvariantHolds, PTL

\* An in-flight old build is never published over an invalidation: what get()
\* serves shows every write whose invalidation has run, whole.
THEOREM ServedIsCurrent == Spec => []NothingInvalidatedIsServed
<1>1. IInv => NothingInvalidatedIsServed
  BY DEF IInv, Covered, NothingInvalidatedIsServed, Served
<1>. QED BY <1>1, InvariantHolds, PTL

\* A call that comes back without an answer had an invalidation, an expiry or a
\* wait that timed out under it: MaxTries refreshes are enough for all others.
THEOREM CallsAreAnswered == Spec => []UndisturbedCallsAreAnswered
<1>1. IInv /\ Answering => UndisturbedCallsAreAnswered
  BY DEF Answering, Outcomes, OnItsWay, UndisturbedCallsAreAnswered, Served, Fresh
<1>. QED BY <1>1, AnsweringHolds, PTL

===============================================================================
