--------------------------- MODULE AuditChainProofs ---------------------------
(***************************************************************************)
(* Machine-checked proofs about AuditChain, for every set of threads,      *)
(* processes, decisions and events, with failures and crashes allowed.     *)
(*                                                                         *)
(* The invariant is a conjunction of small parts, each with a lemma that   *)
(* goes through the actions: Shape (what a thread at a location is doing), *)
(* Honest (a row is stored after what it seals), Looking (what a verifier  *)
(* read is still there), and, for a single process, Holding (who holds the *)
(* two locks) and Guarded (a committed outcome is sealed, or marked, or    *)
(* belongs with a decision that can never be sealed and keeps the chain    *)
(* from verifying).                                                        *)
(***************************************************************************)
EXTENDS AuditChain, SequenceTheorems, FiniteSetTheorems, TLAPS

USE DEF storeVars, chainVars, lockVars, appendVars, verifyVars

-----------------------------------------------------------------------------
(* The inductive invariant *)

OutcomeKinds == {"learn", "auditOutcome"}
DecisionKinds == {"score", "auditDecision"}
Appending == {"read", "check", "entry", "head"}
Verifying == {"entries", "evidence", "stored", "report"}

\* What a thread at a location is doing.
ShapeOf(t) ==
    /\ op[t].kind \in {"none", "verify"} => op[t].d = Nobody /\ op[t].e = Nobody
    /\ op[t].kind \in DecisionKinds => op[t].d \in Decisions /\ op[t].e = Nobody
    /\ op[t].kind \in OutcomeKinds => op[t].d \in Decisions /\ op[t].e \in Events
    /\ pc[t] = "idle" => op[t].kind = "none"
    /\ pc[t] = "write" => op[t].kind = "auditDecision"
    /\ pc[t] = "commit" => op[t].kind \in OutcomeKinds
    /\ pc[t] = "find" => op[t].kind = "learn"
    /\ pc[t] \in Appending => op[t].kind \in DecisionKinds \cup OutcomeKinds
    /\ pc[t] = "finish" => op[t].kind \in OutcomeKinds \cup {"auditDecision"}
    /\ pc[t] \in Verifying => op[t].kind = "verify"
Shape == \A t \in Threads : ShapeOf(t)

\* A thread that is about to seal something has stored it before.
HonestThread(t) ==
    /\ pc[t] \in Appending /\ op[t].kind \in DecisionKinds => op[t].d \in decisions
    /\ pc[t] \in Appending \cup {"find"} /\ op[t].kind \in OutcomeKinds =>
          op[t].e \in outcomes
    /\ op[t].kind = "learn" => op[t].d \in decisions
Honest == NothingInvented /\ \A t \in Threads : HonestThread(t)

\* What a verifier saw is still in the store.
LookingThread(t) ==
    /\ pc[t] \in Verifying => /\ since[t].decisions \subseteq decisions
                              /\ since[t].outcomes \subseteq outcomes
    /\ pc[t] \in Verifying \ {"entries"} => snap[t] <= Len(ledger)
    /\ pc[t] \notin {"stored", "report"} => verdict[t] = "none"
    /\ pc[t] = "stored" => verdict[t] # "verified"
    /\ Verified(t) => since[t].decisions \subseteq SealedIn(ledger, snap[t])
Looking == \A t \in Threads : LookingThread(t)

\* Who holds the domain lock and the ledger lock of a process.
HoldingThread(t) ==
    /\ op[t].kind \in {"score", "learn"} => domainLock[ProcOf[t]] = t
    /\ op[t].kind \in {"auditDecision", "auditOutcome"} => ledgerLock[ProcOf[t]] = t
Holding == \A t \in Threads : HoldingThread(t)

\* No two calls write the same outcome event.
Distinct ==
    \A t, u \in Threads :
        op[t].kind \in OutcomeKinds /\ op[t].e = op[u].e => t = u

\* A decision without a row that no thread will ever seal: as long as it is in
\* the store, verify_chain reports it missing.
Unsealable(d) ==
    /\ d \in decisions /\ d \notin SealedIn(ledger, Len(ledger))
    /\ \A t \in Threads : op[t].kind \in DecisionKinds => op[t].d # d
Blocked == \E d \in Decisions : Unsealable(d)

\* A committed outcome is sealed, or still marked, or the chain is blocked.
Covered(e) == e \in SealedOutcomesIn(ledger, Len(ledger)) \/ Blocked
GuardedThread(t) ==
    /\ pc[t] = "commit" => op[t].e \in markers /\ op[t].e \notin outcomes
    /\ pc[t] \in {"find", "read", "check", "entry"} /\ op[t].kind \in OutcomeKinds =>
          op[t].e \in markers
    /\ pc[t] \in {"head", "finish"} /\ op[t].kind \in OutcomeKinds /\ op[t].e \in outcomes =>
          Covered(op[t].e)
Guarded ==
    /\ \A e \in outcomes : e \in markers \/ Covered(e)
    /\ \A t \in Threads : GuardedThread(t)

\* What a verifier that saw no marker can rely on.
WatchingThread(t) ==
    /\ pc[t] = "entries" /\ ~sawPending[t] =>
          \A e \in since[t].outcomes : Covered(e)
    /\ pc[t] \in Verifying \ {"entries"} /\ ~sawPending[t] =>
          \A e \in since[t].outcomes :
             e \in SealedOutcomesIn(ledger, snap[t]) \/ Blocked
    /\ Verified(t) => since[t].outcomes \subseteq SealedOutcomesIn(ledger, snap[t])
Watching == \A t \in Threads : WatchingThread(t)

\* All threads belong to one worker process.
SingleProcess == \A t, u \in Threads : ProcOf[t] = ProcOf[u]

IInv == TypeOK /\ Shape /\ Honest /\ Looking /\ Holding /\ Distinct

-----------------------------------------------------------------------------
(* Facts about the ledger *)

\* A shorter prefix of the ledger seals no more than a longer one.
LEMMA SealedMonotone ==
    ASSUME NEW l, NEW m \in Nat, NEW n \in Nat, m <= n
    PROVE  /\ SealedIn(l, m) \subseteq SealedIn(l, n)
           /\ SealedOutcomesIn(l, m) \subseteq SealedOutcomesIn(l, n)
BY DEF SealedIn, SealedOutcomesIn

\* Storing a row seals what the row names and changes no row before it.
LEMMA AppendSeals ==
    ASSUME NEW l \in Seq(Row), NEW r \in Row
    PROVE  /\ Len(Append(l, r)) = Len(l) + 1 /\ Len(l) \in Nat
           /\ \A n \in Nat : n <= Len(l) =>
                 /\ SealedIn(Append(l, r), n) = SealedIn(l, n)
                 /\ SealedOutcomesIn(Append(l, r), n) = SealedOutcomesIn(l, n)
           /\ SealedIn(Append(l, r), Len(l) + 1) =
                 SealedIn(l, Len(l)) \cup (IF r.kind = "decision" THEN {r.d} ELSE {})
           /\ SealedOutcomesIn(Append(l, r), Len(l) + 1) =
                 SealedOutcomesIn(l, Len(l)) \cup (IF r.kind = "decision" THEN {} ELSE {r.e})
<1>. DEFINE k == Append(l, r)
<1>1. /\ Len(k) = Len(l) + 1 /\ Len(l) \in Nat
      /\ \A i \in 1..Len(l) : k[i] = l[i]
      /\ k[Len(l) + 1] = r
  OBVIOUS
<1>. HIDE DEF k
<1>2. ASSUME NEW n \in Nat, n <= Len(l)
      PROVE  SealedIn(k, n) = SealedIn(l, n) /\ SealedOutcomesIn(k, n) = SealedOutcomesIn(l, n)
  BY <1>1, <1>2 DEF SealedIn, SealedOutcomesIn, IsDecisionRow
<1>3. SealedIn(k, Len(l) + 1) =
         SealedIn(l, Len(l)) \cup (IF r.kind = "decision" THEN {r.d} ELSE {})
  BY <1>1 DEF SealedIn, IsDecisionRow
<1>4. SealedOutcomesIn(k, Len(l) + 1) =
         SealedOutcomesIn(l, Len(l)) \cup (IF r.kind = "decision" THEN {} ELSE {r.e})
  BY <1>1 DEF SealedOutcomesIn, IsDecisionRow
<1>. QED BY <1>1, <1>2, <1>3, <1>4 DEF k

\* The hash a new row links to exists whenever the chain verifies.
LEMMA LinkTyped ==
    ASSUME NEW l, NEW n \in Nat, NEW h, ChainOK(l, n, h)
    PROVE  LinkBefore(l, n, n) \in Nat
<1>1. CASE n = 0
  BY <1>1 DEF LinkBefore
<1>2. CASE n # 0
  <2>1. n - 1 \in 0..n-1
    BY <1>2
  <2>2. n - 1 \in {l[i].idx : i \in 1..n}
    BY <2>1 DEF ChainOK
  <2>3. \E i \in 1..n : l[i].idx = n - 1
    BY <2>2
  <2>. QED BY <1>2, <2>3 DEF LinkBefore, RowAt
<1>. QED BY <1>1, <1>2

-----------------------------------------------------------------------------
(* Types *)

LEMMA NothingTyped == Nothing \in [decisions : SUBSET Decisions, outcomes : SUBSET Events]
BY DEF Nothing

\* Ending a call keeps the types of everything it resets.
LEMMA LeaveTyped ==
    ASSUME NEW S, TypeOK, Leave(S)
    PROVE  /\ pc' \in [Threads -> Locations]
           /\ op' \in [Threads -> [kind : Kinds, d : Decisions \cup {Nobody}, e : Events \cup {Nobody}]]
           /\ snap' \in [Threads -> Nat] /\ ref' \in [Threads -> Nat]
           /\ link' \in [Threads -> Nat] /\ own' \in [Threads -> Nat]
           /\ sawPending' \in [Threads -> BOOLEAN]
           /\ since' \in [Threads -> [decisions : SUBSET Decisions, outcomes : SUBSET Events]]
           /\ verdict' \in [Threads -> Verdicts]
           /\ ledgerLock' \in [Procs -> Threads \cup {Nobody}]
           /\ domainLock' \in [Procs -> Threads \cup {Nobody}]
<1>1. pc' \in [Threads -> Locations]
  BY DEF TypeOK, Leave, Locations
<1>2. op' \in [Threads -> [kind : Kinds, d : Decisions \cup {Nobody}, e : Events \cup {Nobody}]]
  BY DEF TypeOK, Leave, NoOp, Kinds
<1>3. /\ snap' \in [Threads -> Nat] /\ ref' \in [Threads -> Nat]
      /\ link' \in [Threads -> Nat] /\ own' \in [Threads -> Nat]
  BY DEF TypeOK, Leave
<1>4. sawPending' \in [Threads -> BOOLEAN]
  BY DEF TypeOK, Leave
<1>5. since' \in [Threads -> [decisions : SUBSET Decisions, outcomes : SUBSET Events]]
  BY NothingTyped DEF TypeOK, Leave
<1>6. verdict' \in [Threads -> Verdicts]
  BY DEF TypeOK, Leave, Verdicts
<1>7. /\ ledgerLock' \in [Procs -> Threads \cup {Nobody}]
      /\ domainLock' \in [Procs -> Threads \cup {Nobody}]
  BY DEF TypeOK, Leave, Released
<1>. QED BY <1>1, <1>2, <1>3, <1>4, <1>5, <1>6, <1>7

\* The row a thread stores.
NewRow(t) == [kind |-> IF op[t].e = Nobody THEN "decision" ELSE "outcome",
              d |-> op[t].d, e |-> op[t].e, ref |-> ref[t], idx |-> snap[t], prev |-> link[t]]

LEMMA NewRowTyped ==
    ASSUME TypeOK, Shape, NEW t \in Threads, pc[t] \in Appending PROVE NewRow(t) \in Row
BY ConstantsAssumption DEF TypeOK, Shape, ShapeOf, Appending, NewRow, Row, DecisionKinds, OutcomeKinds

LEMMA TypeNext == TypeOK /\ Shape /\ [Next]_vars => TypeOK'
<1>. SUFFICES ASSUME TypeOK /\ Shape, [Next]_vars PROVE TypeOK'
  OBVIOUS
<1>. USE ConstantsAssumption
<1>1. ASSUME NEW t \in Threads, Open(t) PROVE TypeOK'
  <2>1. ASSUME NEW d \in Decisions, ScorePersist(t, d) PROVE TypeOK'
    BY <2>1 DEF ScorePersist, Start, Goto, TakeDomainLock, TypeOK, Locations, Kinds
  <2>2. ASSUME NEW d \in Decisions, AuditDecisionBegin(t, d) PROVE TypeOK'
    BY <2>2 DEF AuditDecisionBegin, Start, Goto, TakeLedgerLock, TypeOK, Locations, Kinds
  <2>3. ASSUME NEW d \in Decisions, NEW e \in Events, LearnBegin(t, d, e) PROVE TypeOK'
    BY <2>3 DEF LearnBegin, Start, Goto, TakeDomainLock, TypeOK, Locations, Kinds
  <2>4. ASSUME NEW d \in Decisions, NEW e \in Events, AuditOutcomeBegin(t, d, e) PROVE TypeOK'
    <3>1. PICK i \in FirstRowsOf(d) : ref' = [ref EXCEPT ![t] = i]
      BY <2>4 DEF AuditOutcomeBegin
    <3>2. i \in Nat
      BY DEF FirstRowsOf, RowsOf, TypeOK
    <3>. QED BY <2>4, <3>1, <3>2 DEF AuditOutcomeBegin, TypeOK, Goto, Start, TakeLedgerLock, Locations, Kinds
  <2>5. CASE VerifyBegin(t)
    BY <2>5 DEF VerifyBegin, Start, Goto, TakeLedgerLock, TypeOK, Locations, Kinds
  <2>. QED BY <1>1, <2>1, <2>2, <2>3, <2>4, <2>5 DEF Open
<1>2. ASSUME NEW t \in Threads, Continue(t) PROVE TypeOK'
  <2>1. CASE AuditDecisionWrite(t)
    <3>1. op[t].d \in Decisions
      BY <2>1 DEF AuditDecisionWrite, Shape, ShapeOf, DecisionKinds
    <3>2. pc' \in [Threads -> Locations]
      BY <2>1 DEF AuditDecisionWrite, Goto, TypeOK, Locations
    <3>. QED BY <2>1, <3>1, <3>2 DEF AuditDecisionWrite, TypeOK
  <2>2. CASE CommitOutcome(t)
    BY <2>2 DEF CommitOutcome, Goto, TypeOK, Locations, Kinds, Shape, ShapeOf, OutcomeKinds
  <2>3. CASE LearnNotApplied(t)
    BY <2>3 DEF LearnNotApplied, Goto, TypeOK, Locations, Kinds
  <2>4. CASE FindSealedDecision(t)
    <3>1. ref' \in [Threads -> Nat]
      BY <2>4 DEF FindSealedDecision, FirstRowsOf, RowsOf, TypeOK
    <3>2. ledgerLock' \in [Procs -> Threads \cup {Nobody}]
      BY <2>4 DEF FindSealedDecision, TakeLedgerLock, TypeOK
    <3>3. pc' \in [Threads -> Locations]
      BY <2>4 DEF FindSealedDecision, Goto, TypeOK, Locations
    <3>. QED BY <2>4, <3>1, <3>2, <3>3 DEF FindSealedDecision, TypeOK
  <2>5. CASE AppendRead(t)
    BY <2>5 DEF AppendRead, Goto, TakeLedgerLock, TypeOK, Locations, Kinds
  <2>6. CASE AppendCheck(t)
    BY <2>6, LinkTyped DEF AppendCheck, Goto, TypeOK, Locations, Kinds
  <2>7. CASE AppendRefused(t)
    BY <2>7, LeaveTyped DEF AppendRefused, TypeOK
  <2>8. CASE AppendSaveEntry(t)
    <3>1. NewRow(t) \in Row
      BY <2>8, NewRowTyped DEF AppendSaveEntry, Appending
    <3>2. ledger' = Append(ledger, NewRow(t))
      BY <2>8 DEF AppendSaveEntry, NewRow
    <3>3. ledger' \in Seq(Row)
      BY <3>1, <3>2 DEF TypeOK
    <3>4. Len(ledger) \in Nat
      BY DEF TypeOK
    <3>. QED BY <2>8, <3>3, <3>4 DEF AppendSaveEntry, Goto, TypeOK, Locations
  <2>9. CASE AppendSaveHead(t)
    <3>1. head' \in [count : Nat, at : Nat]
      <4>1. snap[t] + 1 \in Nat /\ own[t] \in Nat
        BY DEF TypeOK
      <4>. QED BY <2>9, <4>1 DEF AppendSaveHead
    <3>2. CASE Leave({t})
      BY <2>9, <3>1, <3>2, LeaveTyped DEF AppendSaveHead, TypeOK
    <3>3. CASE op[t].kind # "score"
      <4>1. ledgerLock' \in [Procs -> Threads \cup {Nobody}]
        BY <2>9, <3>3 DEF AppendSaveHead, TypeOK, Released
      <4>2. pc' \in [Threads -> Locations]
        BY <2>9, <3>3 DEF AppendSaveHead, TypeOK, Goto, Locations
      <4>. QED BY <2>9, <3>1, <3>3, <4>1, <4>2 DEF AppendSaveHead, TypeOK
    <3>. QED BY <2>9, <3>2, <3>3 DEF AppendSaveHead
  <2>10. CASE FinishMarker(t)
    BY <2>10, LeaveTyped DEF FinishMarker, TypeOK
  <2>11. CASE VerifyEntries(t)
    BY <2>11 DEF VerifyEntries, Goto, TypeOK, Locations, Kinds
  <2>12. CASE VerifyEvidence(t)
    BY <2>12 DEF VerifyEvidence, Goto, TypeOK, Locations, Kinds, Verdicts
  <2>13. CASE VerifyStored(t)
    BY <2>13 DEF VerifyStored, Goto, Released, TypeOK, Locations, Kinds, Verdicts
  <2>14. CASE VerifyReturn(t)
    BY <2>14, LeaveTyped DEF VerifyReturn, TypeOK
  <2>. QED BY <1>2, <2>1, <2>2, <2>3, <2>4, <2>5, <2>6, <2>7, <2>8, <2>9, <2>10, <2>11, <2>12, <2>13, <2>14 DEF Continue
<1>3. ASSUME NEW t \in Threads, StoreCallFails(t) PROVE TypeOK'
  BY <1>3, LeaveTyped DEF StoreCallFails, TypeOK
<1>4. ASSUME NEW p \in Procs, Crash(p) PROVE TypeOK'
  BY <1>4, LeaveTyped DEF Crash, TypeOK
<1>5. CASE UNCHANGED vars
  BY <1>5 DEF vars, TypeOK, Locations, Kinds
<1>. QED BY <1>1, <1>2, <1>3, <1>4, <1>5 DEF Next

LEMMA ShapeNext == TypeOK /\ Shape /\ [Next]_vars => Shape'
<1>. SUFFICES ASSUME TypeOK /\ Shape, [Next]_vars PROVE Shape'
  OBVIOUS
<1>. USE ConstantsAssumption
<1>1. ASSUME NEW t \in Threads, Open(t) PROVE Shape'
  <2>1. ASSUME NEW d \in Decisions, ScorePersist(t, d) PROVE Shape'
    BY <2>1 DEF ScorePersist, Start, Goto, TakeDomainLock, TypeOK, Shape, ShapeOf, DecisionKinds, OutcomeKinds, Appending, Verifying, Locations
  <2>2. ASSUME NEW d \in Decisions, AuditDecisionBegin(t, d) PROVE Shape'
    BY <2>2 DEF AuditDecisionBegin, Start, Goto, TakeLedgerLock, TypeOK, Shape, ShapeOf, DecisionKinds, OutcomeKinds, Appending, Verifying, Locations
  <2>3. ASSUME NEW d \in Decisions, NEW e \in Events, LearnBegin(t, d, e) PROVE Shape'
    BY <2>3 DEF LearnBegin, Start, Goto, TakeDomainLock, TypeOK, Shape, ShapeOf, DecisionKinds, OutcomeKinds, Appending, Verifying, Locations
  <2>4. ASSUME NEW d \in Decisions, NEW e \in Events, AuditOutcomeBegin(t, d, e) PROVE Shape'
    BY <2>4 DEF AuditOutcomeBegin, Start, Goto, TakeLedgerLock, TypeOK, Shape, ShapeOf, DecisionKinds, OutcomeKinds, Appending, Verifying, Locations
  <2>5. CASE VerifyBegin(t)
    BY <2>5 DEF VerifyBegin, Start, Goto, TakeLedgerLock, TypeOK, Shape, ShapeOf, DecisionKinds, OutcomeKinds, Appending, Verifying, Locations
  <2>. QED BY <1>1, <2>1, <2>2, <2>3, <2>4, <2>5 DEF Open
<1>2. ASSUME NEW t \in Threads, Continue(t) PROVE Shape'
  <2>1. CASE AuditDecisionWrite(t)
    BY <2>1 DEF AuditDecisionWrite, Goto, TypeOK, Shape, ShapeOf, DecisionKinds, OutcomeKinds, Appending, Verifying, Locations
  <2>2. CASE CommitOutcome(t)
    BY <2>2 DEF CommitOutcome, Goto, TypeOK, Shape, ShapeOf, DecisionKinds, OutcomeKinds, Appending, Verifying, Locations
  <2>3. CASE LearnNotApplied(t)
    BY <2>3 DEF LearnNotApplied, Goto, TypeOK, Shape, ShapeOf, DecisionKinds, OutcomeKinds, Appending, Verifying, Locations
  <2>4. CASE FindSealedDecision(t)
    BY <2>4 DEF FindSealedDecision, Goto, TakeLedgerLock, TypeOK, Shape, ShapeOf, DecisionKinds, OutcomeKinds, Appending, Verifying, Locations
  <2>5. CASE AppendRead(t)
    BY <2>5 DEF AppendRead, Goto, TakeLedgerLock, TypeOK, Shape, ShapeOf, DecisionKinds, OutcomeKinds, Appending, Verifying, Locations
  <2>6. CASE AppendCheck(t)
    BY <2>6 DEF AppendCheck, Goto, TypeOK, Shape, ShapeOf, DecisionKinds, OutcomeKinds, Appending, Verifying, Locations
  <2>7. CASE AppendRefused(t)
    BY <2>7 DEF AppendRefused, Leave, NoOp, Nothing, Released, TypeOK, Shape, ShapeOf, DecisionKinds, OutcomeKinds, Appending, Verifying, Locations
  <2>8. CASE AppendSaveEntry(t)
    BY <2>8 DEF AppendSaveEntry, Goto, TypeOK, Shape, ShapeOf, DecisionKinds, OutcomeKinds, Appending, Verifying, Locations
  <2>9. CASE AppendSaveHead(t)
    <3>1. CASE Leave({t})
      BY <2>9, <3>1 DEF AppendSaveHead, Leave, NoOp, TypeOK, Shape, ShapeOf, DecisionKinds, OutcomeKinds, Appending, Verifying, Locations
    <3>2. CASE op[t].kind # "score" /\ op' = op /\ Goto(t, "finish")
      BY <2>9, <3>2 DEF AppendSaveHead, Goto, TypeOK, Shape, ShapeOf, DecisionKinds, OutcomeKinds, Appending, Verifying, Locations
    <3>. QED BY <2>9, <3>1, <3>2 DEF AppendSaveHead
  <2>10. CASE FinishMarker(t)
    BY <2>10 DEF FinishMarker, Leave, NoOp, Nothing, Released, TypeOK, Shape, ShapeOf, DecisionKinds, OutcomeKinds, Appending, Verifying, Locations
  <2>11. CASE VerifyEntries(t)
    BY <2>11 DEF VerifyEntries, Goto, TypeOK, Shape, ShapeOf, DecisionKinds, OutcomeKinds, Appending, Verifying, Locations
  <2>12. CASE VerifyEvidence(t)
    BY <2>12 DEF VerifyEvidence, Goto, TypeOK, Shape, ShapeOf, DecisionKinds, OutcomeKinds, Appending, Verifying, Locations
  <2>13. CASE VerifyStored(t)
    BY <2>13 DEF VerifyStored, Goto, Released, TypeOK, Shape, ShapeOf, DecisionKinds, OutcomeKinds, Appending, Verifying, Locations
  <2>14. CASE VerifyReturn(t)
    BY <2>14 DEF VerifyReturn, Leave, NoOp, Nothing, Released, TypeOK, Shape, ShapeOf, DecisionKinds, OutcomeKinds, Appending, Verifying, Locations
  <2>. QED BY <1>2, <2>1, <2>2, <2>3, <2>4, <2>5, <2>6, <2>7, <2>8, <2>9, <2>10, <2>11, <2>12, <2>13, <2>14 DEF Continue
<1>3. ASSUME NEW t \in Threads, StoreCallFails(t) PROVE Shape'
  BY <1>3 DEF StoreCallFails, Leave, NoOp, Nothing, Released, TypeOK, Shape, ShapeOf, DecisionKinds, OutcomeKinds, Appending, Verifying, Locations
<1>4. ASSUME NEW p \in Procs, Crash(p) PROVE Shape'
  BY <1>4 DEF Crash, Leave, NoOp, Nothing, Released, TypeOK, Shape, ShapeOf, DecisionKinds, OutcomeKinds, Appending, Verifying, Locations
<1>5. CASE UNCHANGED vars
  BY <1>5 DEF vars, TypeOK, Shape, ShapeOf, DecisionKinds, OutcomeKinds, Appending, Verifying, Locations
<1>. QED BY <1>1, <1>2, <1>3, <1>4, <1>5 DEF Next

-----------------------------------------------------------------------------
(* NothingInvented *)

LEMMA HonestNext == TypeOK /\ Shape /\ Honest /\ [Next]_vars => Honest'
<1>. SUFFICES ASSUME TypeOK /\ Shape /\ Honest, [Next]_vars PROVE Honest'
  OBVIOUS
<1>. USE ConstantsAssumption
<1>1. ASSUME NEW t \in Threads, Open(t) PROVE Honest'
  <2>1. ASSUME NEW d \in Decisions, ScorePersist(t, d) PROVE Honest'
    BY <2>1 DEF ScorePersist, Start, Goto, TakeDomainLock, Honest, HonestThread, NothingInvented, TypeOK, Shape, ShapeOf, DecisionKinds, OutcomeKinds, Appending, Locations
  <2>2. ASSUME NEW d \in Decisions, AuditDecisionBegin(t, d) PROVE Honest'
    BY <2>2 DEF AuditDecisionBegin, Start, Goto, TakeLedgerLock, Honest, HonestThread, NothingInvented, TypeOK, Shape, ShapeOf, DecisionKinds, OutcomeKinds, Appending, Locations
  <2>3. ASSUME NEW d \in Decisions, NEW e \in Events, LearnBegin(t, d, e) PROVE Honest'
    BY <2>3 DEF LearnBegin, Start, Goto, TakeDomainLock, Honest, HonestThread, NothingInvented, TypeOK, Shape, ShapeOf, DecisionKinds, OutcomeKinds, Appending, Locations
  <2>4. ASSUME NEW d \in Decisions, NEW e \in Events, AuditOutcomeBegin(t, d, e) PROVE Honest'
    BY <2>4 DEF AuditOutcomeBegin, Start, Goto, TakeLedgerLock, Honest, HonestThread, NothingInvented, TypeOK, Shape, ShapeOf, DecisionKinds, OutcomeKinds, Appending, Locations
  <2>5. CASE VerifyBegin(t)
    BY <2>5 DEF VerifyBegin, Start, Goto, TakeLedgerLock, Honest, HonestThread, NothingInvented, TypeOK, Shape, ShapeOf, DecisionKinds, OutcomeKinds, Appending, Locations
  <2>. QED BY <1>1, <2>1, <2>2, <2>3, <2>4, <2>5 DEF Open
<1>2. ASSUME NEW t \in Threads, Continue(t) PROVE Honest'
  <2>1. CASE AuditDecisionWrite(t)
    BY <2>1 DEF AuditDecisionWrite, Goto, Honest, HonestThread, NothingInvented, TypeOK, Shape, ShapeOf, DecisionKinds, OutcomeKinds, Appending, Locations
  <2>2. CASE CommitOutcome(t)
    BY <2>2 DEF CommitOutcome, Goto, Honest, HonestThread, NothingInvented, TypeOK, Shape, ShapeOf, DecisionKinds, OutcomeKinds, Appending, Locations
  <2>3. CASE LearnNotApplied(t)
    BY <2>3 DEF LearnNotApplied, Goto, Honest, HonestThread, NothingInvented, TypeOK, Shape, ShapeOf, DecisionKinds, OutcomeKinds, Appending, Locations
  <2>4. CASE FindSealedDecision(t)
    BY <2>4 DEF FindSealedDecision, Goto, TakeLedgerLock, Honest, HonestThread, NothingInvented, TypeOK, Shape, ShapeOf, DecisionKinds, OutcomeKinds, Appending, Locations
  <2>5. CASE AppendRead(t)
    BY <2>5 DEF AppendRead, Goto, TakeLedgerLock, Honest, HonestThread, NothingInvented, TypeOK, Shape, ShapeOf, DecisionKinds, OutcomeKinds, Appending, Locations
  <2>6. CASE AppendCheck(t)
    BY <2>6 DEF AppendCheck, Goto, Honest, HonestThread, NothingInvented, TypeOK, Shape, ShapeOf, DecisionKinds, OutcomeKinds, Appending, Locations
  <2>7. CASE AppendRefused(t)
    BY <2>7 DEF AppendRefused, Leave, NoOp, Nothing, Released, Honest, HonestThread, NothingInvented, TypeOK, Shape, ShapeOf, DecisionKinds, OutcomeKinds, Appending, Locations
  <2>8. CASE AppendSaveEntry(t)
    <3>1. NewRow(t) \in Row
      BY <2>8, NewRowTyped DEF AppendSaveEntry, Appending
    <3>2. ledger' = Append(ledger, NewRow(t))
      BY <2>8 DEF AppendSaveEntry, NewRow
    <3>3. /\ SealedIn(ledger, Len(ledger))' \subseteq decisions
          /\ SealedOutcomesIn(ledger, Len(ledger))' \subseteq outcomes
      <4>1. op[t].e = Nobody => op[t].d \in decisions
        BY <2>8 DEF AppendSaveEntry, Honest, HonestThread, Shape, ShapeOf, Appending, DecisionKinds, OutcomeKinds
      <4>2. op[t].e # Nobody => op[t].e \in outcomes
        BY <2>8 DEF AppendSaveEntry, Honest, HonestThread, Shape, ShapeOf, Appending, DecisionKinds, OutcomeKinds
      <4>3. /\ SealedIn(ledger, Len(ledger))' =
                  SealedIn(ledger, Len(ledger)) \cup (IF NewRow(t).kind = "decision" THEN {NewRow(t).d} ELSE {})
            /\ SealedOutcomesIn(ledger, Len(ledger))' =
                  SealedOutcomesIn(ledger, Len(ledger)) \cup (IF NewRow(t).kind = "decision" THEN {} ELSE {NewRow(t).e})
        BY <3>1, <3>2, AppendSeals DEF TypeOK
      <4>. QED BY <4>1, <4>2, <4>3 DEF NewRow, Honest, NothingInvented
    <3>4. \A u \in Threads : HonestThread(u)'
      BY <2>8 DEF AppendSaveEntry, Goto, Honest, HonestThread, TypeOK, Appending, Locations
    <3>. QED BY <2>8, <3>3, <3>4 DEF AppendSaveEntry, Honest, NothingInvented
  <2>9. CASE AppendSaveHead(t)
    <3>1. CASE Leave({t})
      BY <2>9, <3>1 DEF AppendSaveHead, Leave, NoOp, TypeOK, Honest, HonestThread, NothingInvented, Appending, Locations
    <3>2. CASE op' = op /\ Goto(t, "finish")
      BY <2>9, <3>2 DEF AppendSaveHead, Goto, TypeOK, Honest, HonestThread, NothingInvented, Appending, Locations
    <3>. QED BY <2>9, <3>1, <3>2 DEF AppendSaveHead
  <2>10. CASE FinishMarker(t)
    BY <2>10 DEF FinishMarker, Leave, NoOp, Nothing, Released, Honest, HonestThread, NothingInvented, TypeOK, Shape, ShapeOf, DecisionKinds, OutcomeKinds, Appending, Locations
  <2>11. CASE VerifyEntries(t)
    BY <2>11 DEF VerifyEntries, Goto, Honest, HonestThread, NothingInvented, TypeOK, Shape, ShapeOf, DecisionKinds, OutcomeKinds, Appending, Locations
  <2>12. CASE VerifyEvidence(t)
    BY <2>12 DEF VerifyEvidence, Goto, Honest, HonestThread, NothingInvented, TypeOK, Shape, ShapeOf, DecisionKinds, OutcomeKinds, Appending, Locations
  <2>13. CASE VerifyStored(t)
    BY <2>13 DEF VerifyStored, Goto, Released, Honest, HonestThread, NothingInvented, TypeOK, Shape, ShapeOf, DecisionKinds, OutcomeKinds, Appending, Locations
  <2>14. CASE VerifyReturn(t)
    BY <2>14 DEF VerifyReturn, Leave, NoOp, Nothing, Released, Honest, HonestThread, NothingInvented, TypeOK, Shape, ShapeOf, DecisionKinds, OutcomeKinds, Appending, Locations
  <2>. QED BY <1>2, <2>1, <2>2, <2>3, <2>4, <2>5, <2>6, <2>7, <2>8, <2>9, <2>10, <2>11, <2>12, <2>13, <2>14 DEF Continue
<1>3. ASSUME NEW t \in Threads, StoreCallFails(t) PROVE Honest'
  BY <1>3 DEF StoreCallFails, Leave, NoOp, Nothing, Released, Honest, HonestThread, NothingInvented, TypeOK, Shape, ShapeOf, DecisionKinds, OutcomeKinds, Appending, Locations
<1>4. ASSUME NEW p \in Procs, Crash(p) PROVE Honest'
  BY <1>4 DEF Crash, Leave, NoOp, Nothing, Released, Honest, HonestThread, NothingInvented, TypeOK, Shape, ShapeOf, DecisionKinds, OutcomeKinds, Appending, Locations
<1>5. CASE UNCHANGED vars
  BY <1>5 DEF vars, Honest, HonestThread, NothingInvented, TypeOK, Shape, ShapeOf, DecisionKinds, OutcomeKinds, Appending, Locations
<1>. QED BY <1>1, <1>2, <1>3, <1>4, <1>5 DEF Next

-----------------------------------------------------------------------------
(* DecisionsCertified *)

LEMMA LookingNext == TypeOK /\ Shape /\ Looking /\ [Next]_vars => Looking'
<1>. SUFFICES ASSUME TypeOK /\ Shape /\ Looking, [Next]_vars PROVE Looking'
  OBVIOUS
<1>. USE ConstantsAssumption
<1>1. ASSUME NEW t \in Threads, Open(t) PROVE Looking'
  <2>1. ASSUME NEW d \in Decisions, ScorePersist(t, d) PROVE Looking'
    BY <2>1 DEF ScorePersist, Start, Goto, TakeDomainLock, Looking, LookingThread, Verified, TypeOK, Shape, ShapeOf, Verifying, Locations, Verdicts
  <2>2. ASSUME NEW d \in Decisions, AuditDecisionBegin(t, d) PROVE Looking'
    BY <2>2 DEF AuditDecisionBegin, Start, Goto, TakeLedgerLock, Looking, LookingThread, Verified, TypeOK, Shape, ShapeOf, Verifying, Locations, Verdicts
  <2>3. ASSUME NEW d \in Decisions, NEW e \in Events, LearnBegin(t, d, e) PROVE Looking'
    BY <2>3 DEF LearnBegin, Start, Goto, TakeDomainLock, Looking, LookingThread, Verified, TypeOK, Shape, ShapeOf, Verifying, Locations, Verdicts
  <2>4. ASSUME NEW d \in Decisions, NEW e \in Events, AuditOutcomeBegin(t, d, e) PROVE Looking'
    BY <2>4 DEF AuditOutcomeBegin, Start, Goto, TakeLedgerLock, Looking, LookingThread, Verified, TypeOK, Shape, ShapeOf, Verifying, Locations, Verdicts
  <2>5. CASE VerifyBegin(t)
    BY <2>5 DEF VerifyBegin, Start, Goto, TakeLedgerLock, Looking, LookingThread, Verified, TypeOK, Shape, ShapeOf, Verifying, Locations, Verdicts
  <2>. QED BY <1>1, <2>1, <2>2, <2>3, <2>4, <2>5 DEF Open
<1>2. ASSUME NEW t \in Threads, Continue(t) PROVE Looking'
  <2>1. CASE AuditDecisionWrite(t)
    BY <2>1 DEF AuditDecisionWrite, Goto, Looking, LookingThread, Verified, TypeOK, Shape, ShapeOf, Verifying, Locations, Verdicts
  <2>2. CASE CommitOutcome(t)
    BY <2>2 DEF CommitOutcome, Goto, Looking, LookingThread, Verified, TypeOK, Shape, ShapeOf, Verifying, Locations, Verdicts
  <2>3. CASE LearnNotApplied(t)
    BY <2>3 DEF LearnNotApplied, Goto, Looking, LookingThread, Verified, TypeOK, Shape, ShapeOf, Verifying, Locations, Verdicts
  <2>4. CASE FindSealedDecision(t)
    BY <2>4 DEF FindSealedDecision, Goto, TakeLedgerLock, Looking, LookingThread, Verified, TypeOK, Shape, ShapeOf, Verifying, Locations, Verdicts
  <2>5. CASE AppendRead(t)
    BY <2>5 DEF AppendRead, Goto, TakeLedgerLock, Looking, LookingThread, Verified, TypeOK, Shape, ShapeOf, Verifying, Locations, Verdicts
  <2>6. CASE AppendCheck(t)
    BY <2>6 DEF AppendCheck, Goto, Looking, LookingThread, Verified, TypeOK, Shape, ShapeOf, Verifying, Locations, Verdicts
  <2>7. CASE AppendRefused(t)
    BY <2>7 DEF AppendRefused, Leave, NoOp, Nothing, Released, Looking, LookingThread, Verified, TypeOK, Shape, ShapeOf, Verifying, Locations, Verdicts
  <2>8. CASE AppendSaveEntry(t)
    <3>1. NewRow(t) \in Row
      BY <2>8, NewRowTyped DEF AppendSaveEntry, Appending
    <3>2. ledger' = Append(ledger, NewRow(t))
      BY <2>8 DEF AppendSaveEntry, NewRow
    <3>3. /\ Len(ledger') = Len(ledger) + 1 /\ Len(ledger) \in Nat
          /\ \A n \in Nat : n <= Len(ledger) => SealedIn(ledger', n) = SealedIn(ledger, n)
      BY <3>1, <3>2, AppendSeals DEF TypeOK
    <3>. QED BY <2>8, <3>3 DEF AppendSaveEntry, Goto, Looking, LookingThread, Verified, TypeOK, Verifying, Locations
  <2>9. CASE AppendSaveHead(t)
    <3>1. CASE Leave({t})
      BY <2>9, <3>1 DEF AppendSaveHead, Leave, Nothing, Looking, LookingThread, Verified, TypeOK, Verifying
    <3>2. CASE Goto(t, "finish") /\ UNCHANGED <<snap, verifyVars>>
      BY <2>9, <3>2 DEF AppendSaveHead, Goto, Looking, LookingThread, Verified, TypeOK, Verifying
    <3>. QED BY <2>9, <3>1, <3>2 DEF AppendSaveHead
  <2>10. CASE FinishMarker(t)
    BY <2>10 DEF FinishMarker, Leave, NoOp, Nothing, Released, Looking, LookingThread, Verified, TypeOK, Shape, ShapeOf, Verifying, Locations, Verdicts
  <2>11. CASE VerifyEntries(t)
    BY <2>11 DEF VerifyEntries, Goto, Looking, LookingThread, Verified, TypeOK, Shape, ShapeOf, Verifying, Locations, Verdicts
  <2>12. CASE VerifyEvidence(t)
    BY <2>12 DEF VerifyEvidence, Goto, Looking, LookingThread, Verified, TypeOK, Shape, ShapeOf, Verifying, Locations, Verdicts
  <2>13. CASE VerifyStored(t)
    BY <2>13 DEF VerifyStored, Goto, Released, Looking, LookingThread, Verified, TypeOK, Shape, ShapeOf, Verifying, Locations, Verdicts
  <2>14. CASE VerifyReturn(t)
    BY <2>14 DEF VerifyReturn, Leave, NoOp, Nothing, Released, Looking, LookingThread, Verified, TypeOK, Shape, ShapeOf, Verifying, Locations, Verdicts
  <2>. QED BY <1>2, <2>1, <2>2, <2>3, <2>4, <2>5, <2>6, <2>7, <2>8, <2>9, <2>10, <2>11, <2>12, <2>13, <2>14 DEF Continue
<1>3. ASSUME NEW t \in Threads, StoreCallFails(t) PROVE Looking'
  BY <1>3 DEF StoreCallFails, Leave, NoOp, Nothing, Released, Looking, LookingThread, Verified, TypeOK, Shape, ShapeOf, Verifying, Locations, Verdicts
<1>4. ASSUME NEW p \in Procs, Crash(p) PROVE Looking'
  BY <1>4 DEF Crash, Leave, NoOp, Nothing, Released, Looking, LookingThread, Verified, TypeOK, Shape, ShapeOf, Verifying, Locations, Verdicts
<1>5. CASE UNCHANGED vars
  BY <1>5 DEF vars, Looking, LookingThread, Verified, TypeOK, Shape, ShapeOf, Verifying, Locations, Verdicts
<1>. QED BY <1>1, <1>2, <1>3, <1>4, <1>5 DEF Next

-----------------------------------------------------------------------------
(* OutcomesCertified *)

LEMMA HoldingNext == TypeOK /\ Shape /\ Holding /\ [Next]_vars => Holding'
<1>. SUFFICES ASSUME TypeOK /\ Shape /\ Holding, [Next]_vars PROVE Holding'
  OBVIOUS
<1>. USE ConstantsAssumption
<1>1. ASSUME NEW t \in Threads, Open(t) PROVE Holding'
  <2>1. ASSUME NEW d \in Decisions, ScorePersist(t, d) PROVE Holding'
    BY <2>1 DEF ScorePersist, Start, Goto, TakeDomainLock, Holding, HoldingThread, TypeOK, Shape, ShapeOf, DecisionKinds, OutcomeKinds, Verifying, DomainLockFree, LedgerLockFree
  <2>2. ASSUME NEW d \in Decisions, AuditDecisionBegin(t, d) PROVE Holding'
    BY <2>2 DEF AuditDecisionBegin, Start, Goto, TakeLedgerLock, Holding, HoldingThread, TypeOK, Shape, ShapeOf, DecisionKinds, OutcomeKinds, Verifying, DomainLockFree, LedgerLockFree
  <2>3. ASSUME NEW d \in Decisions, NEW e \in Events, LearnBegin(t, d, e) PROVE Holding'
    BY <2>3 DEF LearnBegin, Start, Goto, TakeDomainLock, Holding, HoldingThread, TypeOK, Shape, ShapeOf, DecisionKinds, OutcomeKinds, Verifying, DomainLockFree, LedgerLockFree
  <2>4. ASSUME NEW d \in Decisions, NEW e \in Events, AuditOutcomeBegin(t, d, e) PROVE Holding'
    BY <2>4 DEF AuditOutcomeBegin, Start, Goto, TakeLedgerLock, Holding, HoldingThread, TypeOK, Shape, ShapeOf, DecisionKinds, OutcomeKinds, Verifying, DomainLockFree, LedgerLockFree
  <2>5. CASE VerifyBegin(t)
    BY <2>5 DEF VerifyBegin, Start, Goto, TakeLedgerLock, Holding, HoldingThread, TypeOK, Shape, ShapeOf, DecisionKinds, OutcomeKinds, Verifying, DomainLockFree, LedgerLockFree
  <2>. QED BY <1>1, <2>1, <2>2, <2>3, <2>4, <2>5 DEF Open
<1>2. ASSUME NEW t \in Threads, Continue(t) PROVE Holding'
  <2>1. CASE AuditDecisionWrite(t)
    BY <2>1 DEF AuditDecisionWrite, Goto, Holding, HoldingThread, TypeOK, Shape, ShapeOf, DecisionKinds, OutcomeKinds, Verifying
  <2>2. CASE CommitOutcome(t)
    BY <2>2 DEF CommitOutcome, Goto, Holding, HoldingThread, TypeOK, Shape, ShapeOf, DecisionKinds, OutcomeKinds, Verifying
  <2>3. CASE LearnNotApplied(t)
    BY <2>3 DEF LearnNotApplied, Goto, Holding, HoldingThread, TypeOK, Shape, ShapeOf, DecisionKinds, OutcomeKinds, Verifying
  <2>4. CASE FindSealedDecision(t)
    BY <2>4 DEF FindSealedDecision, Goto, TakeLedgerLock, Holding, HoldingThread, TypeOK, Shape, ShapeOf, DecisionKinds, OutcomeKinds, Verifying, DomainLockFree, LedgerLockFree
  <2>5. CASE AppendRead(t)
    BY <2>5 DEF AppendRead, Goto, TakeLedgerLock, Holding, HoldingThread, TypeOK, Shape, ShapeOf, DecisionKinds, OutcomeKinds, Verifying, DomainLockFree, LedgerLockFree
  <2>6. CASE AppendCheck(t)
    BY <2>6 DEF AppendCheck, Goto, Holding, HoldingThread, TypeOK, Shape, ShapeOf, DecisionKinds, OutcomeKinds, Verifying
  <2>7. CASE AppendRefused(t)
    BY <2>7 DEF AppendRefused, Leave, NoOp, Nothing, Released, Holding, HoldingThread, TypeOK, Shape, ShapeOf, DecisionKinds, OutcomeKinds, Verifying
  <2>8. CASE AppendSaveEntry(t)
    BY <2>8 DEF AppendSaveEntry, Goto, Holding, HoldingThread, TypeOK, Shape, ShapeOf, DecisionKinds, OutcomeKinds, Verifying
  <2>9. CASE AppendSaveHead(t)
    <3>1. CASE Leave({t})
      BY <2>9, <3>1 DEF AppendSaveHead, Leave, NoOp, Nothing, Released, Holding, HoldingThread, TypeOK, Shape, ShapeOf, DecisionKinds, OutcomeKinds, Verifying
    <3>2. CASE op[t].kind # "score" /\ Goto(t, "finish") /\ UNCHANGED <<domainLock, op, appendVars, verifyVars>>
      BY <2>9, <3>2 DEF AppendSaveHead, Goto, Released, Holding, HoldingThread, TypeOK, Shape, ShapeOf, DecisionKinds, OutcomeKinds, Verifying
    <3>. QED BY <2>9, <3>1, <3>2 DEF AppendSaveHead
  <2>10. CASE FinishMarker(t)
    BY <2>10 DEF FinishMarker, Leave, NoOp, Nothing, Released, Holding, HoldingThread, TypeOK, Shape, ShapeOf, DecisionKinds, OutcomeKinds, Verifying
  <2>11. CASE VerifyEntries(t)
    BY <2>11 DEF VerifyEntries, Goto, Holding, HoldingThread, TypeOK, Shape, ShapeOf, DecisionKinds, OutcomeKinds, Verifying
  <2>12. CASE VerifyEvidence(t)
    BY <2>12 DEF VerifyEvidence, Goto, Holding, HoldingThread, TypeOK, Shape, ShapeOf, DecisionKinds, OutcomeKinds, Verifying
  <2>13. CASE VerifyStored(t)
    BY <2>13 DEF VerifyStored, Goto, Released, Holding, HoldingThread, TypeOK, Shape, ShapeOf, DecisionKinds, OutcomeKinds, Verifying
  <2>14. CASE VerifyReturn(t)
    BY <2>14 DEF VerifyReturn, Leave, NoOp, Nothing, Released, Holding, HoldingThread, TypeOK, Shape, ShapeOf, DecisionKinds, OutcomeKinds, Verifying
  <2>. QED BY <1>2, <2>1, <2>2, <2>3, <2>4, <2>5, <2>6, <2>7, <2>8, <2>9, <2>10, <2>11, <2>12, <2>13, <2>14 DEF Continue
<1>3. ASSUME NEW t \in Threads, StoreCallFails(t) PROVE Holding'
  BY <1>3 DEF StoreCallFails, Leave, NoOp, Nothing, Released, Holding, HoldingThread, TypeOK, Shape, ShapeOf, DecisionKinds, OutcomeKinds, Verifying
<1>4. ASSUME NEW p \in Procs, Crash(p) PROVE Holding'
  BY <1>4 DEF Crash, Leave, NoOp, Nothing, Released, Holding, HoldingThread, TypeOK, Shape, ShapeOf, DecisionKinds, OutcomeKinds, Verifying
<1>5. CASE UNCHANGED vars
  BY <1>5 DEF vars, Holding, HoldingThread, TypeOK, Shape, ShapeOf, DecisionKinds, OutcomeKinds, Verifying
<1>. QED BY <1>1, <1>2, <1>3, <1>4, <1>5 DEF Next

LEMMA DistinctNext == TypeOK /\ Shape /\ Distinct /\ [Next]_vars => Distinct'
<1>. SUFFICES ASSUME TypeOK /\ Shape /\ Distinct, [Next]_vars PROVE Distinct'
  OBVIOUS
<1>. USE ConstantsAssumption
<1>1. ASSUME NEW t \in Threads, Open(t) PROVE Distinct'
  <2>1. ASSUME NEW d \in Decisions, ScorePersist(t, d) PROVE Distinct'
    BY <2>1 DEF ScorePersist, Start, Goto, TakeDomainLock, Distinct, TypeOK, Shape, ShapeOf, DecisionKinds, OutcomeKinds
  <2>2. ASSUME NEW d \in Decisions, AuditDecisionBegin(t, d) PROVE Distinct'
    BY <2>2 DEF AuditDecisionBegin, Start, Goto, TakeLedgerLock, Distinct, TypeOK, Shape, ShapeOf, DecisionKinds, OutcomeKinds
  <2>3. ASSUME NEW d \in Decisions, NEW e \in Events, LearnBegin(t, d, e) PROVE Distinct'
    BY <2>3 DEF LearnBegin, Start, Goto, TakeDomainLock, Distinct, TypeOK, Shape, ShapeOf, DecisionKinds, OutcomeKinds, FreshEvent
  <2>4. ASSUME NEW d \in Decisions, NEW e \in Events, AuditOutcomeBegin(t, d, e) PROVE Distinct'
    BY <2>4 DEF AuditOutcomeBegin, Start, Goto, TakeLedgerLock, Distinct, TypeOK, Shape, ShapeOf, DecisionKinds, OutcomeKinds, FreshEvent
  <2>5. CASE VerifyBegin(t)
    BY <2>5 DEF VerifyBegin, Start, Goto, TakeLedgerLock, Distinct, TypeOK, Shape, ShapeOf, DecisionKinds, OutcomeKinds
  <2>. QED BY <1>1, <2>1, <2>2, <2>3, <2>4, <2>5 DEF Open
<1>2. ASSUME NEW t \in Threads, Continue(t) PROVE Distinct'
  <2>1. CASE AuditDecisionWrite(t)
    BY <2>1 DEF AuditDecisionWrite, Goto, Distinct, TypeOK, Shape, ShapeOf, DecisionKinds, OutcomeKinds
  <2>2. CASE CommitOutcome(t)
    BY <2>2 DEF CommitOutcome, Goto, Distinct, TypeOK, Shape, ShapeOf, DecisionKinds, OutcomeKinds
  <2>3. CASE LearnNotApplied(t)
    BY <2>3 DEF LearnNotApplied, Goto, Distinct, TypeOK, Shape, ShapeOf, DecisionKinds, OutcomeKinds
  <2>4. CASE FindSealedDecision(t)
    BY <2>4 DEF FindSealedDecision, Goto, TakeLedgerLock, Distinct, TypeOK, Shape, ShapeOf, DecisionKinds, OutcomeKinds
  <2>5. CASE AppendRead(t)
    BY <2>5 DEF AppendRead, Goto, TakeLedgerLock, Distinct, TypeOK, Shape, ShapeOf, DecisionKinds, OutcomeKinds
  <2>6. CASE AppendCheck(t)
    BY <2>6 DEF AppendCheck, Goto, Distinct, TypeOK, Shape, ShapeOf, DecisionKinds, OutcomeKinds
  <2>7. CASE AppendRefused(t)
    BY <2>7 DEF AppendRefused, Leave, NoOp, Nothing, Released, Distinct, TypeOK, Shape, ShapeOf, DecisionKinds, OutcomeKinds
  <2>8. CASE AppendSaveEntry(t)
    BY <2>8 DEF AppendSaveEntry, Goto, Distinct, TypeOK, Shape, ShapeOf, DecisionKinds, OutcomeKinds
  <2>9. CASE AppendSaveHead(t)
    <3>1. CASE Leave({t})
      BY <2>9, <3>1 DEF AppendSaveHead, Leave, NoOp, Nothing, Released, Distinct, TypeOK, Shape, ShapeOf, DecisionKinds, OutcomeKinds
    <3>2. CASE op[t].kind # "score" /\ Goto(t, "finish") /\ UNCHANGED <<domainLock, op, appendVars, verifyVars>>
      BY <2>9, <3>2 DEF AppendSaveHead, Goto, Released, Distinct, TypeOK, Shape, ShapeOf, DecisionKinds, OutcomeKinds
    <3>. QED BY <2>9, <3>1, <3>2 DEF AppendSaveHead
  <2>10. CASE FinishMarker(t)
    BY <2>10 DEF FinishMarker, Leave, NoOp, Nothing, Released, Distinct, TypeOK, Shape, ShapeOf, DecisionKinds, OutcomeKinds
  <2>11. CASE VerifyEntries(t)
    BY <2>11 DEF VerifyEntries, Goto, Distinct, TypeOK, Shape, ShapeOf, DecisionKinds, OutcomeKinds
  <2>12. CASE VerifyEvidence(t)
    BY <2>12 DEF VerifyEvidence, Goto, Distinct, TypeOK, Shape, ShapeOf, DecisionKinds, OutcomeKinds
  <2>13. CASE VerifyStored(t)
    BY <2>13 DEF VerifyStored, Goto, Released, Distinct, TypeOK, Shape, ShapeOf, DecisionKinds, OutcomeKinds
  <2>14. CASE VerifyReturn(t)
    BY <2>14 DEF VerifyReturn, Leave, NoOp, Nothing, Released, Distinct, TypeOK, Shape, ShapeOf, DecisionKinds, OutcomeKinds
  <2>. QED BY <1>2, <2>1, <2>2, <2>3, <2>4, <2>5, <2>6, <2>7, <2>8, <2>9, <2>10, <2>11, <2>12, <2>13, <2>14 DEF Continue
<1>3. ASSUME NEW t \in Threads, StoreCallFails(t) PROVE Distinct'
  BY <1>3 DEF StoreCallFails, Leave, NoOp, Nothing, Released, Distinct, TypeOK, Shape, ShapeOf, DecisionKinds, OutcomeKinds
<1>4. ASSUME NEW p \in Procs, Crash(p) PROVE Distinct'
  BY <1>4 DEF Crash, Leave, NoOp, Nothing, Released, Distinct, TypeOK, Shape, ShapeOf, DecisionKinds, OutcomeKinds
<1>5. CASE UNCHANGED vars
  BY <1>5 DEF vars, Distinct, TypeOK, Shape, ShapeOf, DecisionKinds, OutcomeKinds
<1>. QED BY <1>1, <1>2, <1>3, <1>4, <1>5 DEF Next

\* The ledger only ever grows, one row at a time.
LEMMA LedgerGrows == TypeOK /\ Shape /\ [Next]_vars => (ledger' = ledger \/ \E r \in Row : ledger' = Append(ledger, r))
<1>. SUFFICES ASSUME TypeOK /\ Shape, [Next]_vars PROVE (ledger' = ledger \/ \E r \in Row : ledger' = Append(ledger, r))
  OBVIOUS
<1>. USE ConstantsAssumption
<1>1. ASSUME NEW t \in Threads, Open(t) PROVE (ledger' = ledger \/ \E r \in Row : ledger' = Append(ledger, r))
  <2>1. ASSUME NEW d \in Decisions, ScorePersist(t, d) PROVE (ledger' = ledger \/ \E r \in Row : ledger' = Append(ledger, r))
    BY <2>1 DEF ScorePersist, Start, Goto, TakeDomainLock
  <2>2. ASSUME NEW d \in Decisions, AuditDecisionBegin(t, d) PROVE (ledger' = ledger \/ \E r \in Row : ledger' = Append(ledger, r))
    BY <2>2 DEF AuditDecisionBegin, Start, Goto, TakeLedgerLock
  <2>3. ASSUME NEW d \in Decisions, NEW e \in Events, LearnBegin(t, d, e) PROVE (ledger' = ledger \/ \E r \in Row : ledger' = Append(ledger, r))
    BY <2>3 DEF LearnBegin, Start, Goto, TakeDomainLock
  <2>4. ASSUME NEW d \in Decisions, NEW e \in Events, AuditOutcomeBegin(t, d, e) PROVE (ledger' = ledger \/ \E r \in Row : ledger' = Append(ledger, r))
    BY <2>4 DEF AuditOutcomeBegin, Start, Goto, TakeLedgerLock
  <2>5. CASE VerifyBegin(t)
    BY <2>5 DEF VerifyBegin, Start, Goto, TakeLedgerLock
  <2>. QED BY <1>1, <2>1, <2>2, <2>3, <2>4, <2>5 DEF Open
<1>2. ASSUME NEW t \in Threads, Continue(t) PROVE (ledger' = ledger \/ \E r \in Row : ledger' = Append(ledger, r))
  <2>1. CASE AuditDecisionWrite(t)
    BY <2>1 DEF AuditDecisionWrite, Goto
  <2>2. CASE CommitOutcome(t)
    BY <2>2 DEF CommitOutcome, Goto
  <2>3. CASE LearnNotApplied(t)
    BY <2>3 DEF LearnNotApplied, Goto
  <2>4. CASE FindSealedDecision(t)
    BY <2>4 DEF FindSealedDecision, Goto, TakeLedgerLock
  <2>5. CASE AppendRead(t)
    BY <2>5 DEF AppendRead, Goto, TakeLedgerLock
  <2>6. CASE AppendCheck(t)
    BY <2>6 DEF AppendCheck, Goto
  <2>7. CASE AppendRefused(t)
    BY <2>7 DEF AppendRefused, Leave, NoOp, Nothing, Released
  <2>8. CASE AppendSaveEntry(t)
    <3>1. NewRow(t) \in Row
      BY <2>8, NewRowTyped DEF AppendSaveEntry, Appending
    <3>2. ledger' = Append(ledger, NewRow(t))
      BY <2>8 DEF AppendSaveEntry, NewRow
    <3>. QED BY <3>1, <3>2
  <2>9. CASE AppendSaveHead(t)
    BY <2>9 DEF AppendSaveHead
  <2>10. CASE FinishMarker(t)
    BY <2>10 DEF FinishMarker, Leave, NoOp, Nothing, Released
  <2>11. CASE VerifyEntries(t)
    BY <2>11 DEF VerifyEntries, Goto
  <2>12. CASE VerifyEvidence(t)
    BY <2>12 DEF VerifyEvidence, Goto
  <2>13. CASE VerifyStored(t)
    BY <2>13 DEF VerifyStored, Goto, Released
  <2>14. CASE VerifyReturn(t)
    BY <2>14 DEF VerifyReturn, Leave, NoOp, Nothing, Released
  <2>. QED BY <1>2, <2>1, <2>2, <2>3, <2>4, <2>5, <2>6, <2>7, <2>8, <2>9, <2>10, <2>11, <2>12, <2>13, <2>14 DEF Continue
<1>3. ASSUME NEW t \in Threads, StoreCallFails(t) PROVE (ledger' = ledger \/ \E r \in Row : ledger' = Append(ledger, r))
  BY <1>3 DEF StoreCallFails, Leave, NoOp, Nothing, Released
<1>4. ASSUME NEW p \in Procs, Crash(p) PROVE (ledger' = ledger \/ \E r \in Row : ledger' = Append(ledger, r))
  BY <1>4 DEF Crash, Leave, NoOp, Nothing, Released
<1>5. CASE UNCHANGED vars
  BY <1>5 DEF vars
<1>. QED BY <1>1, <1>2, <1>3, <1>4, <1>5 DEF Next

LEMMA SealedStays ==
    ASSUME TypeOK, Shape, [Next]_vars
    PROVE  /\ Len(ledger) \in Nat /\ Len(ledger) <= Len(ledger')
           /\ SealedOutcomesIn(ledger, Len(ledger)) \subseteq SealedOutcomesIn(ledger', Len(ledger'))
           /\ \A n \in Nat : n <= Len(ledger) =>
                 /\ SealedIn(ledger', n) = SealedIn(ledger, n)
                 /\ SealedOutcomesIn(ledger', n) = SealedOutcomesIn(ledger, n)
<1>1. ledger \in Seq(Row) /\ Len(ledger) \in Nat
  BY DEF TypeOK
<1>2. CASE ledger' = ledger
  BY <1>1, <1>2
<1>3. ASSUME NEW r \in Row, ledger' = Append(ledger, r)
      PROVE  /\ Len(ledger') = Len(ledger) + 1
             /\ SealedOutcomesIn(ledger, Len(ledger)) \subseteq SealedOutcomesIn(ledger', Len(ledger) + 1)
             /\ \A n \in Nat : n <= Len(ledger) =>
                   /\ SealedIn(ledger', n) = SealedIn(ledger, n)
                   /\ SealedOutcomesIn(ledger', n) = SealedOutcomesIn(ledger, n)
  BY <1>1, <1>3, AppendSeals
<1>. QED BY <1>1, <1>2, <1>3, LedgerGrows

\* Nobody ever seals an unsealable decision.
LEMMA UnsealableStays == TypeOK /\ Shape /\ [Next]_vars => (\A x \in Decisions : Unsealable(x) => Unsealable(x)')
<1>. SUFFICES ASSUME TypeOK /\ Shape, [Next]_vars PROVE (\A x \in Decisions : Unsealable(x) => Unsealable(x)')
  OBVIOUS
<1>. USE ConstantsAssumption
<1>1. ASSUME NEW t \in Threads, Open(t) PROVE (\A x \in Decisions : Unsealable(x) => Unsealable(x)')
  <2>1. ASSUME NEW d \in Decisions, ScorePersist(t, d) PROVE (\A x \in Decisions : Unsealable(x) => Unsealable(x)')
    BY <2>1 DEF ScorePersist, Start, Goto, TakeDomainLock, Unsealable, TypeOK, Shape, ShapeOf, DecisionKinds, OutcomeKinds, FreshDecision
  <2>2. ASSUME NEW d \in Decisions, AuditDecisionBegin(t, d) PROVE (\A x \in Decisions : Unsealable(x) => Unsealable(x)')
    BY <2>2 DEF AuditDecisionBegin, Start, Goto, TakeLedgerLock, Unsealable, TypeOK, Shape, ShapeOf, DecisionKinds, OutcomeKinds, FreshDecision
  <2>3. ASSUME NEW d \in Decisions, NEW e \in Events, LearnBegin(t, d, e) PROVE (\A x \in Decisions : Unsealable(x) => Unsealable(x)')
    BY <2>3 DEF LearnBegin, Start, Goto, TakeDomainLock, Unsealable, TypeOK, Shape, ShapeOf, DecisionKinds, OutcomeKinds
  <2>4. ASSUME NEW d \in Decisions, NEW e \in Events, AuditOutcomeBegin(t, d, e) PROVE (\A x \in Decisions : Unsealable(x) => Unsealable(x)')
    BY <2>4 DEF AuditOutcomeBegin, Start, Goto, TakeLedgerLock, Unsealable, TypeOK, Shape, ShapeOf, DecisionKinds, OutcomeKinds
  <2>5. CASE VerifyBegin(t)
    BY <2>5 DEF VerifyBegin, Start, Goto, TakeLedgerLock, Unsealable, TypeOK, Shape, ShapeOf, DecisionKinds, OutcomeKinds
  <2>. QED BY <1>1, <2>1, <2>2, <2>3, <2>4, <2>5 DEF Open
<1>2. ASSUME NEW t \in Threads, Continue(t) PROVE (\A x \in Decisions : Unsealable(x) => Unsealable(x)')
  <2>1. CASE AuditDecisionWrite(t)
    BY <2>1 DEF AuditDecisionWrite, Goto, Unsealable, TypeOK, Shape, ShapeOf, DecisionKinds, OutcomeKinds
  <2>2. CASE CommitOutcome(t)
    BY <2>2 DEF CommitOutcome, Goto, Unsealable, TypeOK, Shape, ShapeOf, DecisionKinds, OutcomeKinds
  <2>3. CASE LearnNotApplied(t)
    BY <2>3 DEF LearnNotApplied, Goto, Unsealable, TypeOK, Shape, ShapeOf, DecisionKinds, OutcomeKinds
  <2>4. CASE FindSealedDecision(t)
    BY <2>4 DEF FindSealedDecision, Goto, TakeLedgerLock, Unsealable, TypeOK, Shape, ShapeOf, DecisionKinds, OutcomeKinds
  <2>5. CASE AppendRead(t)
    BY <2>5 DEF AppendRead, Goto, TakeLedgerLock, Unsealable, TypeOK, Shape, ShapeOf, DecisionKinds, OutcomeKinds
  <2>6. CASE AppendCheck(t)
    BY <2>6 DEF AppendCheck, Goto, Unsealable, TypeOK, Shape, ShapeOf, DecisionKinds, OutcomeKinds
  <2>7. CASE AppendRefused(t)
    BY <2>7 DEF AppendRefused, Leave, NoOp, Nothing, Released, Unsealable, TypeOK, Shape, ShapeOf, DecisionKinds, OutcomeKinds
  <2>8. CASE AppendSaveEntry(t)
    <3>1. NewRow(t) \in Row
      BY <2>8, NewRowTyped DEF AppendSaveEntry, Appending
    <3>2. ledger' = Append(ledger, NewRow(t))
      BY <2>8 DEF AppendSaveEntry, NewRow
    <3>3. /\ Len(ledger') = Len(ledger) + 1
          /\ SealedIn(ledger', Len(ledger) + 1) =
                SealedIn(ledger, Len(ledger)) \cup (IF NewRow(t).kind = "decision" THEN {NewRow(t).d} ELSE {})
      BY <3>1, <3>2, AppendSeals DEF TypeOK
    <3>4. NewRow(t).kind = "decision" => op[t].kind \in DecisionKinds
      BY <2>8 DEF AppendSaveEntry, NewRow, Shape, ShapeOf, Appending, OutcomeKinds, DecisionKinds
    <3>5. UNCHANGED <<decisions, op>>
      BY <2>8 DEF AppendSaveEntry
    <3>. QED BY <3>3, <3>4, <3>5 DEF Unsealable, NewRow
  <2>9. CASE AppendSaveHead(t)
    <3>1. CASE Leave({t})
      BY <2>9, <3>1 DEF AppendSaveHead, Leave, NoOp, Nothing, Released, Unsealable, TypeOK, Shape, ShapeOf, DecisionKinds, OutcomeKinds
    <3>2. CASE op[t].kind # "score" /\ Goto(t, "finish") /\ UNCHANGED <<domainLock, op, appendVars, verifyVars>>
      BY <2>9, <3>2 DEF AppendSaveHead, Goto, Released, Unsealable, TypeOK, Shape, ShapeOf, DecisionKinds, OutcomeKinds
    <3>. QED BY <2>9, <3>1, <3>2 DEF AppendSaveHead
  <2>10. CASE FinishMarker(t)
    BY <2>10 DEF FinishMarker, Leave, NoOp, Nothing, Released, Unsealable, TypeOK, Shape, ShapeOf, DecisionKinds, OutcomeKinds
  <2>11. CASE VerifyEntries(t)
    BY <2>11 DEF VerifyEntries, Goto, Unsealable, TypeOK, Shape, ShapeOf, DecisionKinds, OutcomeKinds
  <2>12. CASE VerifyEvidence(t)
    BY <2>12 DEF VerifyEvidence, Goto, Unsealable, TypeOK, Shape, ShapeOf, DecisionKinds, OutcomeKinds
  <2>13. CASE VerifyStored(t)
    BY <2>13 DEF VerifyStored, Goto, Released, Unsealable, TypeOK, Shape, ShapeOf, DecisionKinds, OutcomeKinds
  <2>14. CASE VerifyReturn(t)
    BY <2>14 DEF VerifyReturn, Leave, NoOp, Nothing, Released, Unsealable, TypeOK, Shape, ShapeOf, DecisionKinds, OutcomeKinds
  <2>. QED BY <1>2, <2>1, <2>2, <2>3, <2>4, <2>5, <2>6, <2>7, <2>8, <2>9, <2>10, <2>11, <2>12, <2>13, <2>14 DEF Continue
<1>3. ASSUME NEW t \in Threads, StoreCallFails(t) PROVE (\A x \in Decisions : Unsealable(x) => Unsealable(x)')
  BY <1>3 DEF StoreCallFails, Leave, NoOp, Nothing, Released, Unsealable, TypeOK, Shape, ShapeOf, DecisionKinds, OutcomeKinds
<1>4. ASSUME NEW p \in Procs, Crash(p) PROVE (\A x \in Decisions : Unsealable(x) => Unsealable(x)')
  BY <1>4 DEF Crash, Leave, NoOp, Nothing, Released, Unsealable, TypeOK, Shape, ShapeOf, DecisionKinds, OutcomeKinds
<1>5. CASE UNCHANGED vars
  BY <1>5 DEF vars, Unsealable, TypeOK, Shape, ShapeOf, DecisionKinds, OutcomeKinds
<1>. QED BY <1>1, <1>2, <1>3, <1>4, <1>5 DEF Next

LEMMA CoveredStays ==
    ASSUME TypeOK, Shape, [Next]_vars
    PROVE  /\ Blocked => Blocked'
           /\ \A e : Covered(e) => Covered(e)'
<1>1. Blocked => Blocked'
  BY UnsealableStays DEF Blocked
<1>. QED BY <1>1, SealedStays DEF Covered

\* In a single process, a learn that finds no row for its decision holds the
\* domain lock and could take the ledger lock: nobody is sealing the decision.
LEMMA MissIsFinal ==
    ASSUME TypeOK, Shape, Honest, Holding, SingleProcess, NEW t \in Threads,
           pc[t] = "find", LedgerLockFree(t), RowsOf(op[t].d) = {}
    PROVE  Blocked
<1>. USE ConstantsAssumption
<1>1. op[t].kind = "learn" /\ op[t].d \in Decisions /\ op[t].d \in decisions
  BY DEF Shape, ShapeOf, Honest, HonestThread, OutcomeKinds
<1>2. op[t].d \notin SealedIn(ledger, Len(ledger))
  BY DEF RowsOf, SealedIn
<1>3. ASSUME NEW u \in Threads, op[u].kind \in DecisionKinds PROVE FALSE
  <2>1. u # t /\ ProcOf[u] = ProcOf[t]
    BY <1>1, <1>3 DEF DecisionKinds, SingleProcess
  <2>2. CASE op[u].kind = "score"
    BY <1>1, <2>1, <2>2 DEF Holding, HoldingThread
  <2>3. CASE op[u].kind = "auditDecision"
    BY <2>1, <2>3 DEF Holding, HoldingThread, LedgerLockFree
  <2>. QED BY <1>3, <2>2, <2>3 DEF DecisionKinds
<1>. QED BY <1>1, <1>2, <1>3 DEF Blocked, Unsealable

LEMMA GuardedNext == TypeOK /\ Shape /\ Honest /\ Holding /\ Distinct /\ Guarded /\ SingleProcess /\ [Next]_vars => Guarded'
<1>. SUFFICES ASSUME TypeOK /\ Shape /\ Honest /\ Holding /\ Distinct /\ Guarded /\ SingleProcess, [Next]_vars PROVE Guarded'
  OBVIOUS
<1>. USE ConstantsAssumption
<1>0. /\ Blocked => Blocked'
      /\ \A e : Covered(e) => Covered(e)'
  BY CoveredStays
<1>1. ASSUME NEW t \in Threads, Open(t) PROVE Guarded'
  <2>1. ASSUME NEW d \in Decisions, ScorePersist(t, d) PROVE Guarded'
    BY <2>1, <1>0 DEF ScorePersist, Start, Goto, TakeDomainLock, Guarded, GuardedThread, TypeOK, Shape, ShapeOf, OutcomeKinds, DecisionKinds, Locations, Appending
  <2>2. ASSUME NEW d \in Decisions, AuditDecisionBegin(t, d) PROVE Guarded'
    BY <2>2, <1>0 DEF AuditDecisionBegin, Start, Goto, TakeLedgerLock, Guarded, GuardedThread, TypeOK, Shape, ShapeOf, OutcomeKinds, DecisionKinds, Locations, Appending
  <2>3. ASSUME NEW d \in Decisions, NEW e \in Events, LearnBegin(t, d, e) PROVE Guarded'
    BY <2>3, <1>0 DEF LearnBegin, Start, Goto, TakeDomainLock, Guarded, GuardedThread, TypeOK, Shape, ShapeOf, OutcomeKinds, DecisionKinds, Locations, Appending, FreshEvent
  <2>4. ASSUME NEW d \in Decisions, NEW e \in Events, AuditOutcomeBegin(t, d, e) PROVE Guarded'
    BY <2>4, <1>0 DEF AuditOutcomeBegin, Start, Goto, TakeLedgerLock, Guarded, GuardedThread, TypeOK, Shape, ShapeOf, OutcomeKinds, DecisionKinds, Locations, Appending, FreshEvent
  <2>5. CASE VerifyBegin(t)
    BY <2>5, <1>0 DEF VerifyBegin, Start, Goto, TakeLedgerLock, Guarded, GuardedThread, TypeOK, Shape, ShapeOf, OutcomeKinds, DecisionKinds, Locations, Appending
  <2>. QED BY <1>1, <2>1, <2>2, <2>3, <2>4, <2>5 DEF Open
<1>2. ASSUME NEW t \in Threads, Continue(t) PROVE Guarded'
  <2>1. CASE AuditDecisionWrite(t)
    BY <2>1, <1>0 DEF AuditDecisionWrite, Goto, Guarded, GuardedThread, TypeOK, Shape, ShapeOf, OutcomeKinds, DecisionKinds, Locations, Appending
  <2>2. CASE CommitOutcome(t)
    BY <2>2, <1>0 DEF CommitOutcome, Goto, Guarded, GuardedThread, TypeOK, Shape, ShapeOf, OutcomeKinds, DecisionKinds, Locations, Appending, Distinct
  <2>3. CASE LearnNotApplied(t)
    BY <2>3, <1>0 DEF LearnNotApplied, Goto, Guarded, GuardedThread, TypeOK, Shape, ShapeOf, OutcomeKinds, DecisionKinds, Locations, Appending
  <2>4. CASE FindSealedDecision(t)
    <3>1. RowsOf(op[t].d) = {} => Blocked
      BY <2>4, MissIsFinal DEF FindSealedDecision
    <3>2. Goto(t, "finish") => Blocked
      BY <2>4, <3>1 DEF FindSealedDecision, Goto, TypeOK
    <3>3. /\ Goto(t, "finish") \/ Goto(t, "read")
          /\ UNCHANGED <<markers, outcomes, op>>
      BY <2>4 DEF FindSealedDecision
    <3>. QED BY <2>4, <1>0, <3>2, <3>3 DEF FindSealedDecision, Goto, Guarded, GuardedThread, Covered, TypeOK, Locations
  <2>5. CASE AppendRead(t)
    BY <2>5, <1>0 DEF AppendRead, Goto, TakeLedgerLock, Guarded, GuardedThread, TypeOK, Shape, ShapeOf, OutcomeKinds, DecisionKinds, Locations, Appending
  <2>6. CASE AppendCheck(t)
    BY <2>6, <1>0 DEF AppendCheck, Goto, Guarded, GuardedThread, TypeOK, Shape, ShapeOf, OutcomeKinds, DecisionKinds, Locations, Appending
  <2>7. CASE AppendRefused(t)
    BY <2>7, <1>0 DEF AppendRefused, Leave, NoOp, Nothing, Released, Guarded, GuardedThread, TypeOK, Shape, ShapeOf, OutcomeKinds, DecisionKinds, Locations, Appending
  <2>8. CASE AppendSaveEntry(t)
    <3>1. NewRow(t) \in Row
      BY <2>8, NewRowTyped DEF AppendSaveEntry, Appending
    <3>2. ledger' = Append(ledger, NewRow(t))
      BY <2>8 DEF AppendSaveEntry, NewRow
    <3>3. /\ Len(ledger') = Len(ledger) + 1
          /\ SealedOutcomesIn(ledger', Len(ledger) + 1) =
                SealedOutcomesIn(ledger, Len(ledger)) \cup (IF NewRow(t).kind = "decision" THEN {} ELSE {NewRow(t).e})
      BY <3>1, <3>2, AppendSeals DEF TypeOK
    <3>4. op[t].kind \in OutcomeKinds => Covered(op[t].e)'
      BY <2>8, <3>3 DEF AppendSaveEntry, NewRow, Covered, Shape, ShapeOf, OutcomeKinds
    <3>. QED BY <2>8, <1>0, <3>4 DEF AppendSaveEntry, Goto, Guarded, GuardedThread, TypeOK, Locations
  <2>9. CASE AppendSaveHead(t)
    <3>1. CASE Leave({t})
      BY <2>9, <1>0, <3>1 DEF AppendSaveHead, Leave, NoOp, Nothing, Released, Guarded, GuardedThread, TypeOK, Shape, ShapeOf, OutcomeKinds, DecisionKinds, Locations, Appending
    <3>2. CASE op[t].kind # "score" /\ Goto(t, "finish") /\ UNCHANGED <<domainLock, op, appendVars, verifyVars>>
      BY <2>9, <1>0, <3>2 DEF AppendSaveHead, Goto, Released, Guarded, GuardedThread, TypeOK, Shape, ShapeOf, OutcomeKinds, DecisionKinds, Locations, Appending
    <3>. QED BY <2>9, <3>1, <3>2 DEF AppendSaveHead
  <2>10. CASE FinishMarker(t)
    BY <2>10, <1>0 DEF FinishMarker, Leave, NoOp, Nothing, Released, Guarded, GuardedThread, TypeOK, Shape, ShapeOf, OutcomeKinds, DecisionKinds, Locations, Appending, Distinct
  <2>11. CASE VerifyEntries(t)
    BY <2>11, <1>0 DEF VerifyEntries, Goto, Guarded, GuardedThread, TypeOK, Shape, ShapeOf, OutcomeKinds, DecisionKinds, Locations, Appending
  <2>12. CASE VerifyEvidence(t)
    BY <2>12, <1>0 DEF VerifyEvidence, Goto, Guarded, GuardedThread, TypeOK, Shape, ShapeOf, OutcomeKinds, DecisionKinds, Locations, Appending
  <2>13. CASE VerifyStored(t)
    BY <2>13, <1>0 DEF VerifyStored, Goto, Released, Guarded, GuardedThread, TypeOK, Shape, ShapeOf, OutcomeKinds, DecisionKinds, Locations, Appending
  <2>14. CASE VerifyReturn(t)
    BY <2>14, <1>0 DEF VerifyReturn, Leave, NoOp, Nothing, Released, Guarded, GuardedThread, TypeOK, Shape, ShapeOf, OutcomeKinds, DecisionKinds, Locations, Appending
  <2>. QED BY <1>2, <2>1, <2>2, <2>3, <2>4, <2>5, <2>6, <2>7, <2>8, <2>9, <2>10, <2>11, <2>12, <2>13, <2>14 DEF Continue
<1>3. ASSUME NEW t \in Threads, StoreCallFails(t) PROVE Guarded'
  BY <1>3, <1>0 DEF StoreCallFails, Leave, NoOp, Nothing, Released, Guarded, GuardedThread, TypeOK, Shape, ShapeOf, OutcomeKinds, DecisionKinds, Locations, Appending
<1>4. ASSUME NEW p \in Procs, Crash(p) PROVE Guarded'
  BY <1>4, <1>0 DEF Crash, Leave, NoOp, Nothing, Released, Guarded, GuardedThread, TypeOK, Shape, ShapeOf, OutcomeKinds, DecisionKinds, Locations, Appending
<1>5. CASE UNCHANGED vars
  BY <1>5, <1>0 DEF vars, Guarded, GuardedThread, TypeOK, Shape, ShapeOf, OutcomeKinds, DecisionKinds, Locations, Appending
<1>. QED BY <1>1, <1>2, <1>3, <1>4, <1>5 DEF Next

LEMMA WatchingNext == TypeOK /\ Shape /\ Looking /\ Guarded /\ Watching /\ [Next]_vars => Watching'
<1>. SUFFICES ASSUME TypeOK /\ Shape /\ Looking /\ Guarded /\ Watching, [Next]_vars PROVE Watching'
  OBVIOUS
<1>. USE ConstantsAssumption
<1>0. /\ Blocked => Blocked'
      /\ \A e : Covered(e) => Covered(e)'
      /\ \A u \in Threads : pc[u] \in Verifying \ {"entries"} =>
            SealedOutcomesIn(ledger', snap[u]) = SealedOutcomesIn(ledger, snap[u])
  BY CoveredStays, SealedStays DEF Looking, LookingThread, TypeOK
<1>1. ASSUME NEW t \in Threads, Open(t) PROVE Watching'
  <2>1. ASSUME NEW d \in Decisions, ScorePersist(t, d) PROVE Watching'
    BY <2>1, <1>0 DEF ScorePersist, Start, Goto, TakeDomainLock, Watching, WatchingThread, Verified, TypeOK, Shape, ShapeOf, Verifying, Locations, Verdicts
  <2>2. ASSUME NEW d \in Decisions, AuditDecisionBegin(t, d) PROVE Watching'
    BY <2>2, <1>0 DEF AuditDecisionBegin, Start, Goto, TakeLedgerLock, Watching, WatchingThread, Verified, TypeOK, Shape, ShapeOf, Verifying, Locations, Verdicts
  <2>3. ASSUME NEW d \in Decisions, NEW e \in Events, LearnBegin(t, d, e) PROVE Watching'
    BY <2>3, <1>0 DEF LearnBegin, Start, Goto, TakeDomainLock, Watching, WatchingThread, Verified, TypeOK, Shape, ShapeOf, Verifying, Locations, Verdicts
  <2>4. ASSUME NEW d \in Decisions, NEW e \in Events, AuditOutcomeBegin(t, d, e) PROVE Watching'
    BY <2>4, <1>0 DEF AuditOutcomeBegin, Start, Goto, TakeLedgerLock, Watching, WatchingThread, Verified, TypeOK, Shape, ShapeOf, Verifying, Locations, Verdicts
  <2>5. CASE VerifyBegin(t)
    BY <2>5, <1>0 DEF VerifyBegin, Start, Goto, TakeLedgerLock, Watching, WatchingThread, Verified, TypeOK, Shape, ShapeOf, Verifying, Locations, Verdicts, Guarded
  <2>. QED BY <1>1, <2>1, <2>2, <2>3, <2>4, <2>5 DEF Open
<1>2. ASSUME NEW t \in Threads, Continue(t) PROVE Watching'
  <2>1. CASE AuditDecisionWrite(t)
    BY <2>1, <1>0 DEF AuditDecisionWrite, Goto, Watching, WatchingThread, Verified, TypeOK, Shape, ShapeOf, Verifying, Locations, Verdicts
  <2>2. CASE CommitOutcome(t)
    BY <2>2, <1>0 DEF CommitOutcome, Goto, Watching, WatchingThread, Verified, TypeOK, Shape, ShapeOf, Verifying, Locations, Verdicts
  <2>3. CASE LearnNotApplied(t)
    BY <2>3, <1>0 DEF LearnNotApplied, Goto, Watching, WatchingThread, Verified, TypeOK, Shape, ShapeOf, Verifying, Locations, Verdicts
  <2>4. CASE FindSealedDecision(t)
    <3>1. /\ Goto(t, "finish") \/ Goto(t, "read")
          /\ UNCHANGED <<ledger, snap, verifyVars>>
      BY <2>4 DEF FindSealedDecision
    <3>2. pc'[t] \in {"finish", "read"} /\ \A u \in Threads \ {t} : pc'[u] = pc[u]
      BY <3>1 DEF Goto, TypeOK
    <3>3. WatchingThread(t)'
      BY <3>2 DEF WatchingThread, Verified, Verifying
    <3>4. ASSUME NEW u \in Threads \ {t} PROVE WatchingThread(u)'
      BY <1>0, <3>1, <3>2 DEF Watching, WatchingThread, Verified
    <3>. QED BY <3>3, <3>4 DEF Watching
  <2>5. CASE AppendRead(t)
    BY <2>5, <1>0 DEF AppendRead, Goto, TakeLedgerLock, Watching, WatchingThread, Verified, TypeOK, Shape, ShapeOf, Verifying, Locations, Verdicts
  <2>6. CASE AppendCheck(t)
    BY <2>6, <1>0 DEF AppendCheck, Goto, Watching, WatchingThread, Verified, TypeOK, Shape, ShapeOf, Verifying, Locations, Verdicts
  <2>7. CASE AppendRefused(t)
    BY <2>7, <1>0 DEF AppendRefused, Leave, NoOp, Nothing, Released, Watching, WatchingThread, Verified, TypeOK, Shape, ShapeOf, Verifying, Locations, Verdicts
  <2>8. CASE AppendSaveEntry(t)
    BY <2>8, <1>0 DEF AppendSaveEntry, Goto, Watching, WatchingThread, Verified, TypeOK, Shape, ShapeOf, Verifying, Locations, Verdicts
  <2>9. CASE AppendSaveHead(t)
    <3>1. CASE Leave({t})
      BY <2>9, <1>0, <3>1 DEF AppendSaveHead, Leave, NoOp, Nothing, Released, Watching, WatchingThread, Verified, TypeOK, Shape, ShapeOf, Verifying, Locations, Verdicts
    <3>2. CASE op[t].kind # "score" /\ Goto(t, "finish") /\ UNCHANGED <<domainLock, op, appendVars, verifyVars>>
      BY <2>9, <1>0, <3>2 DEF AppendSaveHead, Goto, Released, Watching, WatchingThread, Verified, TypeOK, Shape, ShapeOf, Verifying, Locations, Verdicts
    <3>. QED BY <2>9, <3>1, <3>2 DEF AppendSaveHead
  <2>10. CASE FinishMarker(t)
    BY <2>10, <1>0 DEF FinishMarker, Leave, NoOp, Nothing, Released, Watching, WatchingThread, Verified, TypeOK, Shape, ShapeOf, Verifying, Locations, Verdicts
  <2>11. CASE VerifyEntries(t)
    <3>1. snap'[t] = Len(ledger) /\ UNCHANGED <<ledger, since, sawPending, verdict>>
      BY <2>11 DEF VerifyEntries, TypeOK
    <3>2. ~sawPending[t] => \A e \in since[t].outcomes :
             e \in SealedOutcomesIn(ledger', snap'[t]) \/ Blocked'
      BY <2>11, <1>0, <3>1 DEF VerifyEntries, Watching, WatchingThread, Covered
    <3>. QED BY <2>11, <1>0, <3>1, <3>2 DEF VerifyEntries, Goto, Watching, WatchingThread, Verified, TypeOK, Verifying, Locations
  <2>12. CASE VerifyEvidence(t)
    BY <2>12, <1>0 DEF VerifyEvidence, Goto, Watching, WatchingThread, Verified, TypeOK, Shape, ShapeOf, Verifying, Locations, Verdicts
  <2>13. CASE VerifyStored(t)
    <3>1. ASSUME verdict'[t] = "verified"
          PROVE  since[t].outcomes \subseteq SealedOutcomesIn(ledger, snap[t])
      <4>1. decisions \subseteq SealedIn(ledger, snap[t]) /\ ~sawPending[t]
        BY <2>13, <3>1 DEF VerifyStored, TypeOK
      <4>2. SealedIn(ledger, snap[t]) \subseteq SealedIn(ledger, Len(ledger))
        <5>1. snap[t] \in Nat /\ Len(ledger) \in Nat /\ snap[t] <= Len(ledger)
          BY <2>13 DEF VerifyStored, Looking, LookingThread, TypeOK, Verifying
        <5>. QED BY <5>1, SealedMonotone
      <4>3. ~Blocked
        BY <4>1, <4>2 DEF Blocked, Unsealable
      <4>. QED BY <2>13, <4>1, <4>3 DEF VerifyStored, Watching, WatchingThread, Verifying
    <3>. QED BY <2>13, <1>0, <3>1 DEF VerifyStored, Goto, Watching, WatchingThread, Verified, TypeOK, Verifying, Locations
  <2>14. CASE VerifyReturn(t)
    BY <2>14, <1>0 DEF VerifyReturn, Leave, NoOp, Nothing, Released, Watching, WatchingThread, Verified, TypeOK, Shape, ShapeOf, Verifying, Locations, Verdicts
  <2>. QED BY <1>2, <2>1, <2>2, <2>3, <2>4, <2>5, <2>6, <2>7, <2>8, <2>9, <2>10, <2>11, <2>12, <2>13, <2>14 DEF Continue
<1>3. ASSUME NEW t \in Threads, StoreCallFails(t) PROVE Watching'
  BY <1>3, <1>0 DEF StoreCallFails, Leave, NoOp, Nothing, Released, Watching, WatchingThread, Verified, TypeOK, Shape, ShapeOf, Verifying, Locations, Verdicts
<1>4. ASSUME NEW p \in Procs, Crash(p) PROVE Watching'
  BY <1>4, <1>0 DEF Crash, Leave, NoOp, Nothing, Released, Watching, WatchingThread, Verified, TypeOK, Shape, ShapeOf, Verifying, Locations, Verdicts
<1>5. CASE UNCHANGED vars
  BY <1>5, <1>0 DEF vars, Watching, WatchingThread, Verified, TypeOK, Shape, ShapeOf, Verifying, Locations, Verdicts
<1>. QED BY <1>1, <1>2, <1>3, <1>4, <1>5 DEF Next

-----------------------------------------------------------------------------
(* Why a broken chain stays broken *)

\* What _verify_entries asks of the first n rows, without the head record.
RowsOK(l, n) ==
    /\ {l[i].idx : i \in 1..n} = 0..n-1
    /\ \A i \in 1..n : l[i].prev = LinkBefore(l, n, l[i].idx)
    /\ \A i, j \in 1..n :
          IsDecisionRow(l, i) /\ IsDecisionRow(l, j) /\ l[i].d = l[j].d => i = j
    /\ \A i \in 1..n : ~IsDecisionRow(l, i) =>
          \E j \in 1..n : /\ IsDecisionRow(l, j)
                          /\ l[j].idx < l[i].idx
                          /\ l[j].d = l[i].d
                          /\ j = l[i].ref

\* The first n rows carry the indices 0..n-1, in some order.
Counted(l, n) == {l[i].idx : i \in 1..n} = 0..n-1

\* A row was indexed by somebody who had counted the rows before it; so an
\* index that is not the row's own place is one that was given before.
Indexed(l) ==
    \A i \in 1..Len(l) : l[i].idx <= i - 1 /\ Counted(l, l[i].idx) /\ l[i].prev <= Len(l)

\* What an append knows when it has checked the chain, and when it has stored
\* its row: nothing links to a row before the head record names it.
AppendThread(t) ==
    /\ pc[t] \in {"check", "entry"} => snap[t] <= Len(ledger)
    /\ pc[t] = "entry" =>
          /\ Counted(ledger, snap[t])
          /\ link[t] <= Len(ledger)
          /\ snap[t] = Len(ledger) => ~AppendUnderWay /\ ChainOK(ledger, snap[t], head)
    /\ pc[t] = "head" =>
          /\ own[t] \in 1..Len(ledger)
          /\ head.at # own[t]
          /\ \A j \in 1..Len(ledger) : ledger[j].prev # own[t]
          /\ \A u \in Threads : /\ pc[u] = "entry" => link[u] # own[t]
                                /\ pc[u] = "head" /\ u # t => own[u] # own[t]
Linked == Indexed(ledger) /\ head.at <= Len(ledger) /\ \A t \in Threads : AppendThread(t)

\* Past repair: the rows themselves are broken, or nobody is left who could
\* save the head record they need.
Ruined == ~RowsOK(ledger, Len(ledger)) \/ Broken

\* Indices that are all there are all in place: a pigeonhole.
LEMMA CountedInPlace ==
    ASSUME NEW l, Len(l) \in Nat, Indexed(l), Counted(l, Len(l))
    PROVE  \A i \in 1..Len(l) : l[i].idx = i - 1
<1>. DEFINE n == Len(l)
            f == [i \in 1..n |-> l[i].idx]
<1>1. \A i \in 1..n : l[i].idx \in 0..n-1
  BY DEF Counted
<1>2. f \in Surjection(1..n, 0..n-1)
  <2>1. f \in [1..n -> 0..n-1]
    BY <1>1
  <2>2. \A k \in 0..n-1 : \E i \in 1..n : f[i] = k
    BY DEF Counted
  <2>. QED BY <2>1, <2>2 DEF Surjection
<1>3. /\ IsFiniteSet(1..n) /\ IsFiniteSet(0..n-1)
      /\ Cardinality(1..n) = Cardinality(0..n-1)
  BY FS_Interval
<1>4. f \in Injection(1..n, 0..n-1)
  BY <1>2, <1>3, FS_SurjSameCardinalityImpliesInj
<1>5. \A i, j \in 1..n : l[i].idx = l[j].idx => i = j
  BY <1>4 DEF Injection, IsInjective
<1>6. ASSUME NEW i \in 1..n, l[i].idx < i - 1 PROVE FALSE
  <2>. DEFINE k == l[i].idx
              m == l[k + 1].idx
  <2>1. k \in Nat /\ k < i - 1 /\ k + 1 \in 1..n /\ k + 1 # i
    BY <1>1, <1>6
  <2>2. m \in Nat /\ m <= k
    BY <1>1, <2>1 DEF Indexed
  <2>3. m # k
    BY <1>5, <2>1
  <2>4. Counted(l, k)
    BY DEF Indexed
  <2>5. m \in 0..k-1
    BY <2>1, <2>2, <2>3
  <2>6. PICK j \in 1..k : l[j].idx = m
    BY <2>4, <2>5 DEF Counted
  <2>. QED BY <1>5, <2>1, <2>6
<1>. QED BY <1>1, <1>6 DEF Indexed

\* Then the hash before index k is that of the k-th row.
LEMMA LinksInPlace ==
    ASSUME NEW l, NEW n \in Nat, \A i \in 1..n : l[i].idx = i - 1, NEW k \in 0..n
    PROVE  LinkBefore(l, n, k) = k
<1>1. CASE k = 0
  BY <1>1 DEF LinkBefore
<1>2. CASE k # 0
  <2>1. k \in 1..n /\ l[k].idx = k - 1 /\ \A i \in 1..n : l[i].idx = k - 1 => i = k
    BY <1>2
  <2>. QED BY <1>2, <2>1 DEF LinkBefore, RowAt
<1>. QED BY <1>1, <1>2

LEMMA RowsInPlace ==
    ASSUME NEW l, Len(l) \in Nat, Indexed(l), RowsOK(l, Len(l))
    PROVE  /\ \A i \in 1..Len(l) : l[i].idx = i - 1 /\ l[i].prev = i - 1
           /\ LinkBefore(l, Len(l), Len(l)) = Len(l)
<1>1. \A i \in 1..Len(l) : l[i].idx = i - 1
  BY CountedInPlace DEF RowsOK, Counted
<1>2. \A k \in 0..Len(l) : LinkBefore(l, Len(l), k) = k
  BY <1>1, LinksInPlace
<1>. QED BY <1>1, <1>2 DEF RowsOK

LEMMA ChainIsRowsAndHead ==
    ASSUME NEW l, NEW n \in Nat, NEW h
    PROVE  ChainOK(l, n, h) <=> RowsOK(l, n) /\ h = [count |-> n, at |-> LinkBefore(l, n, n)]
BY DEF ChainOK, RowsOK

\* Rows that are broken stay broken, and so they are after a row that got an
\* index which was given before.
LEMMA BrokenRowsStay ==
    ASSUME NEW l \in Seq(Row), NEW r \in Row, Indexed(Append(l, r)),
           RowsOK(Append(l, r), Len(l) + 1)
    PROVE  RowsOK(l, Len(l)) /\ r.idx = Len(l)
<1>. DEFINE k == Append(l, r)
            n == Len(l)
<1>1. /\ Len(k) = n + 1 /\ n \in Nat
      /\ \A i \in 1..n : k[i] = l[i] /\ i \in 1..n+1
      /\ k[n + 1] = r /\ n + 1 \in 1..n+1
      /\ Indexed(k) /\ RowsOK(k, n + 1)
  OBVIOUS
<1>. HIDE DEF k, n
<1>2. \A i \in 1..n+1 : k[i].idx = i - 1 /\ k[i].prev = i - 1
  <2>1. Len(k) \in Nat /\ RowsOK(k, Len(k))
    BY <1>1
  <2>2. \A i \in 1..Len(k) : k[i].idx = i - 1 /\ k[i].prev = i - 1
    BY <1>1, <2>1, RowsInPlace
  <2>. QED BY <1>1, <2>2
<1>3. \A i \in 1..n : l[i].idx = i - 1 /\ l[i].prev = i - 1
  BY <1>1, <1>2
<1>4. {l[i].idx : i \in 1..n} = 0..n-1
  <2>1. \A x \in 0..n-1 : x + 1 \in 1..n /\ x = l[x + 1].idx
    BY <1>1, <1>3
  <2>2. 0..n-1 \subseteq {l[i].idx : i \in 1..n}
    BY <2>1
  <2>3. \A i \in 1..n : l[i].idx \in 0..n-1
    BY <1>1, <1>3
  <2>. QED BY <2>2, <2>3
<1>5. \A i \in 1..n : l[i].prev = LinkBefore(l, n, l[i].idx)
  <2>1. \A j \in 0..n : LinkBefore(l, n, j) = j
    BY <1>1, <1>3, LinksInPlace
  <2>2. \A i \in 1..n : l[i].idx \in 0..n /\ l[i].idx = l[i].prev
    BY <1>1, <1>3
  <2>. QED BY <2>1, <2>2
<1>6. \A i, j \in 1..n : IsDecisionRow(l, i) /\ IsDecisionRow(l, j) /\ l[i].d = l[j].d => i = j
  BY <1>1 DEF RowsOK, IsDecisionRow
<1>7. ASSUME NEW i \in 1..n, ~IsDecisionRow(l, i)
      PROVE  \E j \in 1..n : IsDecisionRow(l, j) /\ l[j].idx < l[i].idx /\ l[j].d = l[i].d /\ j = l[i].ref
  <2>1. PICK j \in 1..n+1 : IsDecisionRow(k, j) /\ k[j].idx < k[i].idx /\ k[j].d = k[i].d /\ j = k[i].ref
    BY <1>1, <1>7 DEF RowsOK, IsDecisionRow
  <2>2. j \in 1..n
    BY <1>1, <1>2, <2>1
  <2>. QED BY <1>1, <2>1, <2>2 DEF IsDecisionRow
<1>8. r.idx = n
  BY <1>1, <1>2
<1>. QED BY <1>4, <1>5, <1>6, <1>7, <1>8 DEF RowsOK, n

\* A step that is not one of an append's leaves the chain alone, and moves no
\* thread into an append except to the check of what it has read just now.
Keeps(u) == pc'[u] = pc[u] /\ snap'[u] = snap[u] /\ link'[u] = link[u] /\ own'[u] = own[u]
Aside ==
    /\ UNCHANGED chainVars
    /\ \A u \in Threads : pc'[u] \in {"check", "entry", "head"} =>
          Keeps(u) \/ (pc'[u] = "check" /\ snap'[u] = Len(ledger))

LEMMA AsideOrAppend ==
    ASSUME TypeOK, [Next]_vars
    PROVE  Aside \/ \E t \in Threads : AppendCheck(t) \/ AppendSaveEntry(t) \/ AppendSaveHead(t)
<1>. USE DEF Aside, Keeps, TypeOK
<1>1. ASSUME NEW t \in Threads, Open(t) PROVE Aside
  <2>1. ASSUME NEW d \in Decisions, ScorePersist(t, d) PROVE Aside
    BY <2>1 DEF ScorePersist, Goto
  <2>2. ASSUME NEW d \in Decisions, AuditDecisionBegin(t, d) PROVE Aside
    BY <2>2 DEF AuditDecisionBegin, Goto
  <2>3. ASSUME NEW d \in Decisions, NEW e \in Events, LearnBegin(t, d, e) PROVE Aside
    BY <2>3 DEF LearnBegin, Goto
  <2>4. ASSUME NEW d \in Decisions, NEW e \in Events, AuditOutcomeBegin(t, d, e) PROVE Aside
    BY <2>4 DEF AuditOutcomeBegin, Goto
  <2>5. CASE VerifyBegin(t)
    BY <2>5 DEF VerifyBegin, Goto
  <2>. QED BY <1>1, <2>1, <2>2, <2>3, <2>4, <2>5 DEF Open
<1>2. ASSUME NEW S, Leave(S), UNCHANGED <<storeVars, chainVars>> \/ UNCHANGED <<decisions, outcomes, chainVars>>
      PROVE  Aside
  BY <1>2 DEF Leave
<1>3. ASSUME NEW t \in Threads, Continue(t)
      PROVE  Aside \/ AppendCheck(t) \/ AppendSaveEntry(t) \/ AppendSaveHead(t)
  <2>1. CASE AuditDecisionWrite(t)
    BY <2>1 DEF AuditDecisionWrite, Goto
  <2>2. CASE CommitOutcome(t)
    BY <2>2 DEF CommitOutcome, Goto
  <2>3. CASE LearnNotApplied(t)
    BY <2>3 DEF LearnNotApplied, Goto
  <2>4. CASE FindSealedDecision(t)
    BY <2>4 DEF FindSealedDecision, Goto
  <2>5. CASE AppendRead(t)
    BY <2>5 DEF AppendRead, Goto
  <2>6. CASE AppendRefused(t) \/ FinishMarker(t) \/ VerifyReturn(t)
    BY <2>6, <1>2 DEF AppendRefused, FinishMarker, VerifyReturn
  <2>7. CASE VerifyEntries(t)
    BY <2>7 DEF VerifyEntries, Goto
  <2>8. CASE VerifyEvidence(t)
    BY <2>8 DEF VerifyEvidence, Goto
  <2>9. CASE VerifyStored(t)
    BY <2>9 DEF VerifyStored, Goto
  <2>. QED BY <1>3, <2>1, <2>2, <2>3, <2>4, <2>5, <2>6, <2>7, <2>8, <2>9 DEF Continue
<1>4. ASSUME NEW t \in Threads, StoreCallFails(t) PROVE Aside
  BY <1>2, <1>4 DEF StoreCallFails
<1>5. ASSUME NEW q \in Procs, Crash(q) PROVE Aside
  BY <1>2, <1>5 DEF Crash
<1>6. CASE UNCHANGED vars
  BY <1>6 DEF vars
<1>. QED BY <1>1, <1>3, <1>4, <1>5, <1>6 DEF Next

\* What saving a row does, as one fact.
LEMMA EntryEffect ==
    ASSUME TypeOK, Shape, NEW t \in Threads, AppendSaveEntry(t)
    PROVE  /\ ledger' = Append(ledger, NewRow(t)) /\ NewRow(t) \in Row
           /\ Len(ledger) \in Nat /\ Len(ledger') = Len(ledger) + 1
           /\ \A i \in 1..Len(ledger) : ledger'[i] = ledger[i]
           /\ ledger'[Len(ledger) + 1].idx = snap[t] /\ ledger'[Len(ledger) + 1].prev = link[t]
           /\ pc[t] = "entry" /\ pc' = [pc EXCEPT ![t] = "head"]
           /\ own' = [own EXCEPT ![t] = Len(ledger) + 1]
           /\ UNCHANGED <<head, snap, link>>
<1>1. NewRow(t) \in Row
  BY NewRowTyped DEF AppendSaveEntry, Appending
<1>2. ledger' = Append(ledger, NewRow(t))
  BY DEF AppendSaveEntry, NewRow
<1>3. NewRow(t).idx = snap[t] /\ NewRow(t).prev = link[t]
  BY DEF NewRow
<1>. HIDE DEF NewRow
<1>4. /\ Len(ledger) \in Nat /\ Len(ledger') = Len(ledger) + 1
      /\ \A i \in 1..Len(ledger) : ledger'[i] = ledger[i]
      /\ ledger'[Len(ledger) + 1] = NewRow(t)
  BY <1>1, <1>2 DEF TypeOK
<1>. QED BY <1>1, <1>2, <1>3, <1>4 DEF AppendSaveEntry, Goto

LEMMA CountedStays ==
    ASSUME NEW l, NEW k, NEW m \in Nat, \A i \in 1..m : k[i] = l[i], NEW n \in Nat, n <= m
    PROVE  Counted(k, n) <=> Counted(l, n)
BY DEF Counted

LEMMA LinkedNext == TypeOK /\ Shape /\ Linked /\ [Next]_vars => Linked'
<1>. SUFFICES ASSUME TypeOK, Shape, Linked, [Next]_vars PROVE Linked'
  OBVIOUS
<1>0. /\ Len(ledger) \in Nat /\ head.at \in Nat
      /\ \A i \in 1..Len(ledger) : ledger[i].idx \in Nat /\ ledger[i].prev \in Nat
      /\ \A u \in Threads : snap[u] \in Nat /\ link[u] \in Nat /\ own[u] \in Nat
  <2>1. \A i \in 1..Len(ledger) : ledger[i] \in Row
    BY DEF TypeOK
  <2>. QED BY <2>1 DEF TypeOK, Row
<1>1. CASE Aside
  BY <1>0, <1>1 DEF Aside, Keeps, Linked, AppendThread, AppendUnderWay
<1>2. ASSUME NEW t \in Threads, AppendCheck(t) PROVE Linked'
  <2>1. /\ pc[t] = "check" /\ ChainOK(ledger, snap[t], head)
        /\ link' = [link EXCEPT ![t] = LinkBefore(ledger, snap[t], snap[t])]
        /\ pc' = [pc EXCEPT ![t] = "entry"]
        /\ UNCHANGED <<ledger, head, snap, own>>
    BY <1>2 DEF AppendCheck, Goto
  <2>2. snap[t] \in Nat /\ snap[t] <= Len(ledger)
    BY <1>0, <2>1 DEF Linked, AppendThread
  <2>3. Counted(ledger, snap[t]) /\ head = [count |-> snap[t], at |-> LinkBefore(ledger, snap[t], snap[t])]
    BY <2>1 DEF ChainOK, Counted
  <2>4. link'[t] = head.at
    BY <2>1, <2>3 DEF TypeOK
  <2>5. ASSUME snap[t] = Len(ledger) PROVE ~AppendUnderWay
    <3>1. SUFFICES ASSUME NEW u \in Threads, pc[u] = "head" PROVE FALSE
      BY DEF AppendUnderWay
    <3>2. RowsOK(ledger, Len(ledger))
      BY <2>1, <2>5, <1>0, ChainIsRowsAndHead
    <3>3. /\ \A i \in 1..Len(ledger) : ledger[i].prev = i - 1
          /\ head.at = Len(ledger)
      BY <1>0, <2>3, <2>5, <3>2, RowsInPlace DEF Linked
    <3>4. own[u] \in 1..Len(ledger) /\ head.at # own[u] /\ \A j \in 1..Len(ledger) : ledger[j].prev # own[u]
      BY <3>1 DEF Linked, AppendThread
    <3>5. own[u] + 1 \in 1..Len(ledger) /\ ledger[own[u] + 1].prev = own[u]
      BY <1>0, <3>3, <3>4
    <3>. QED BY <3>4, <3>5
  <2>6. ASSUME NEW u \in Threads PROVE AppendThread(u)'
    <3>1. pc'[u] \in {"check", "entry"} => snap'[u] <= Len(ledger')
      BY <2>1, <2>2 DEF Linked, AppendThread, TypeOK
    <3>2. (AppendUnderWay' <=> AppendUnderWay) /\ (ChainOK(ledger, snap[u], head)' <=> ChainOK(ledger, snap[u], head))
      BY <2>1 DEF AppendUnderWay, TypeOK
    <3>3. pc'[u] = "entry" =>
            /\ Counted(ledger', snap'[u])
            /\ link'[u] <= Len(ledger')
            /\ snap'[u] = Len(ledger') => ~AppendUnderWay' /\ ChainOK(ledger, snap[u], head)'
      BY <2>1, <2>3, <2>4, <2>5, <3>2 DEF Linked, AppendThread, TypeOK
    <3>4. pc'[u] = "head" =>
            /\ own'[u] \in 1..Len(ledger')
            /\ head'.at # own'[u]
            /\ \A j \in 1..Len(ledger') : ledger'[j].prev # own'[u]
            /\ \A v \in Threads : /\ pc'[v] = "entry" => link'[v] # own'[u]
                                  /\ pc'[v] = "head" /\ v # u => own'[v] # own'[u]
      BY <2>1, <2>4 DEF Linked, AppendThread, TypeOK
    <3>. QED BY <3>1, <3>3, <3>4 DEF AppendThread
  <2>. QED BY <2>1, <2>6 DEF Linked, Indexed
<1>3. ASSUME NEW t \in Threads, AppendSaveEntry(t) PROVE Linked'
  <2>. DEFINE n == Len(ledger)
  <2>1. /\ n \in Nat /\ Len(ledger') = n + 1
        /\ \A i \in 1..n : ledger'[i] = ledger[i]
        /\ ledger'[n + 1].idx = snap[t] /\ ledger'[n + 1].prev = link[t]
        /\ pc[t] = "entry" /\ pc' = [pc EXCEPT ![t] = "head"]
        /\ own' = [own EXCEPT ![t] = n + 1]
        /\ UNCHANGED <<head, snap, link>>
    BY <1>3, EntryEffect
  <2>2. snap[t] <= n /\ Counted(ledger, snap[t]) /\ link[t] <= n /\ head.at <= n
    BY <2>1 DEF Linked, AppendThread
  <2>3. \A k \in Nat : k <= n => (Counted(ledger', k) <=> Counted(ledger, k))
    BY <2>1, CountedStays
  <2>4. Indexed(ledger')
    <3>1. ASSUME NEW i \in 1..n
          PROVE  ledger'[i].idx <= i - 1 /\ Counted(ledger', ledger'[i].idx) /\ ledger'[i].prev <= n + 1
      BY <1>0, <2>1, <2>3 DEF Linked, Indexed
    <3>2. snap[t] <= n + 1 - 1 /\ Counted(ledger', snap[t]) /\ link[t] <= n + 1
      BY <1>0, <2>1, <2>2, <2>3
    <3>3. \A i \in 1..n+1 : i \in 1..n \/ i = n + 1
      BY <2>1
    <3>. QED BY <2>1, <3>1, <3>2, <3>3 DEF Indexed
  <2>5. ASSUME NEW u \in Threads PROVE AppendThread(u)'
    <3>1. pc'[u] \in {"check", "entry"} => pc[u] = pc'[u] /\ snap'[u] <= n
      BY <2>1 DEF Linked, AppendThread, TypeOK
    <3>2. pc'[u] = "entry" => Counted(ledger', snap'[u]) /\ link'[u] <= n /\ snap'[u] # n + 1
      BY <1>0, <2>1, <2>3, <3>1 DEF Linked, AppendThread
    <3>3. ASSUME pc'[u] = "head", u = t
          PROVE  /\ own'[u] = n + 1
                 /\ head'.at # own'[u]
                 /\ \A j \in 1..n+1 : ledger'[j].prev # own'[u]
                 /\ \A v \in Threads : /\ pc'[v] = "entry" => link'[v] # own'[u]
                                       /\ pc'[v] = "head" /\ v # u => own'[v] # own'[u]
      <4>1. own'[u] = n + 1
        BY <2>1, <3>3 DEF TypeOK
      <4>2. \A j \in 1..n+1 : ledger'[j].prev # n + 1
        BY <1>0, <2>1, <2>2 DEF Linked, Indexed
      <4>3. \A v \in Threads : pc'[v] = "entry" => link'[v] # n + 1
        BY <1>0, <2>1 DEF Linked, AppendThread, TypeOK
      <4>4. \A v \in Threads : pc'[v] = "head" /\ v # u => own'[v] # n + 1
        BY <1>0, <2>1, <3>3 DEF Linked, AppendThread, TypeOK
      <4>. QED BY <1>0, <2>1, <2>2, <4>1, <4>2, <4>3, <4>4
    <3>4. ASSUME pc'[u] = "head", u # t
          PROVE  /\ own'[u] \in 1..n
                 /\ head'.at # own'[u]
                 /\ \A j \in 1..n+1 : ledger'[j].prev # own'[u]
                 /\ \A v \in Threads : /\ pc'[v] = "entry" => link'[v] # own'[u]
                                       /\ pc'[v] = "head" /\ v # u => own'[v] # own'[u]
      <4>1. pc[u] = "head" /\ own'[u] = own[u]
        BY <2>1, <3>4 DEF TypeOK
      <4>2. own[u] \in 1..n /\ head.at # own[u] /\ link[t] # own[u] /\ \A j \in 1..n : ledger[j].prev # own[u]
        BY <2>1, <4>1 DEF Linked, AppendThread
      <4>3. \A j \in 1..n+1 : ledger'[j].prev # own[u]
        BY <2>1, <4>2
      <4>4. \A v \in Threads : pc'[v] = "entry" => link'[v] # own[u]
        BY <2>1, <4>1 DEF Linked, AppendThread, TypeOK
      <4>5. \A v \in Threads : pc'[v] = "head" /\ v # u => own'[v] # own[u]
        BY <1>0, <2>1, <4>1, <4>2 DEF Linked, AppendThread, TypeOK
      <4>. QED BY <2>1, <4>1, <4>2, <4>3, <4>4, <4>5
    <3>. QED BY <1>0, <2>1, <3>1, <3>2, <3>3, <3>4 DEF AppendThread
  <2>. QED BY <1>0, <2>1, <2>2, <2>4, <2>5 DEF Linked
<1>4. ASSUME NEW t \in Threads, AppendSaveHead(t) PROVE Linked'
  <2>1. /\ pc[t] = "head" /\ ledger' = ledger /\ head'.at = own[t]
        /\ pc'[t] \in {"idle", "finish"}
        /\ \A u \in Threads \ {t} : Keeps(u)
    <3>1. CASE Leave({t})
      BY <1>4, <3>1 DEF AppendSaveHead, Leave, Keeps
    <3>2. CASE Goto(t, "finish") /\ UNCHANGED <<domainLock, op, appendVars, verifyVars>>
      BY <1>4, <3>2 DEF AppendSaveHead, Goto, Keeps, TypeOK
    <3>. QED BY <1>4, <3>1, <3>2 DEF AppendSaveHead
  <2>2. own[t] \in 1..Len(ledger) /\ AppendUnderWay
    BY <2>1 DEF Linked, AppendThread, AppendUnderWay
  <2>3. ASSUME NEW u \in Threads PROVE AppendThread(u)'
    <3>1. pc'[u] \in {"check", "entry", "head"} => u # t /\ Keeps(u)
      BY <2>1
    <3>2. pc'[u] \in {"check", "entry"} => snap'[u] <= Len(ledger')
      BY <2>1, <3>1 DEF Keeps, Linked, AppendThread
    <3>3. pc'[u] = "entry" => Counted(ledger', snap'[u]) /\ link'[u] <= Len(ledger') /\ snap'[u] # Len(ledger')
      BY <2>1, <2>2, <3>1 DEF Keeps, Linked, AppendThread
    <3>4. pc'[u] = "head" =>
            /\ own'[u] \in 1..Len(ledger')
            /\ head'.at # own'[u]
            /\ \A j \in 1..Len(ledger') : ledger'[j].prev # own'[u]
            /\ \A v \in Threads : /\ pc'[v] = "entry" => link'[v] # own'[u]
                                  /\ pc'[v] = "head" /\ v # u => own'[v] # own'[u]
      BY <2>1, <3>1 DEF Keeps, Linked, AppendThread
    <3>. QED BY <3>2, <3>3, <3>4 DEF AppendThread
  <2>. QED BY <1>0, <2>1, <2>2, <2>3 DEF Linked
<1>. QED BY <1>1, <1>2, <1>3, <1>4, AsideOrAppend

LEMMA RuinedStays == TypeOK /\ Shape /\ Linked /\ Linked' /\ Ruined /\ [Next]_vars => Ruined'
<1>. SUFFICES ASSUME TypeOK, Shape, Linked, Linked', Ruined, [Next]_vars PROVE Ruined'
  OBVIOUS
<1>0. Len(ledger) \in Nat /\ \A u \in Threads : snap[u] \in Nat
  BY DEF TypeOK
<1>1. CASE Aside
  <2>1. AppendUnderWay' => AppendUnderWay
    BY <1>1 DEF Aside, Keeps, AppendUnderWay
  <2>. QED BY <1>1, <2>1 DEF Aside, Ruined, Broken
<1>2. ASSUME NEW t \in Threads, AppendCheck(t) PROVE Ruined'
  BY <1>2 DEF AppendCheck, Goto, Ruined, Broken, AppendUnderWay, TypeOK
<1>3. ASSUME NEW t \in Threads, AppendSaveEntry(t) PROVE Ruined'
  <2>1. /\ ledger' = Append(ledger, NewRow(t)) /\ NewRow(t) \in Row /\ pc[t] = "entry"
        /\ Len(ledger') = Len(ledger) + 1
    BY <1>3, EntryEffect
  <2>2. NewRow(t).idx = snap[t]
    BY DEF NewRow
  <2>3. SUFFICES ASSUME RowsOK(ledger', Len(ledger')) PROVE FALSE
    BY DEF Ruined
  <2>4. RowsOK(ledger, Len(ledger)) /\ snap[t] = Len(ledger)
    <3>. HIDE DEF NewRow
    <3>. QED BY <2>1, <2>2, <2>3, BrokenRowsStay DEF Linked, TypeOK
  <2>5. ChainOK(ledger, Len(ledger), head)
    BY <2>1, <2>4 DEF Linked, AppendThread
  <2>. QED BY <2>4, <2>5 DEF Ruined, Broken
<1>4. ASSUME NEW t \in Threads, AppendSaveHead(t) PROVE Ruined'
  <2>1. pc[t] = "head" /\ ledger' = ledger
    BY <1>4 DEF AppendSaveHead
  <2>. QED BY <2>1 DEF Ruined, Broken, AppendUnderWay
<1>. QED BY <1>1, <1>2, <1>3, <1>4, AsideOrAppend

-----------------------------------------------------------------------------
(* One process and no failures: the chain is always in step *)

\* Where a thread holds the ledger lock, and that it does.
Critical(t) ==
    \/ pc[t] \in {"check", "entry", "head", "entries", "evidence", "stored"}
    \/ op[t].kind \in {"auditDecision", "auditOutcome"}
    \/ op[t].kind = "learn" /\ pc[t] = "read"
Exclusive == \A t \in Threads : Critical(t) => ledgerLock[ProcOf[t]] = t

\* No two calls seal the same decision.
SoleSealer ==
    \A t, u \in Threads :
        op[t].kind \in DecisionKinds /\ op[u].kind \in DecisionKinds /\ op[t].d = op[u].d => t = u

\* The rows verify, each in its place, and so does the head record unless an
\* append is about to save it.
RowInStep(i) ==
    /\ ledger[i].idx = i - 1 /\ ledger[i].prev = i - 1
    /\ IsDecisionRow(ledger, i) =>
          \A j \in 1..Len(ledger) : IsDecisionRow(ledger, j) /\ ledger[j].d = ledger[i].d => i = j
    /\ ~IsDecisionRow(ledger, i) =>
          /\ ledger[i].ref \in 1..i-1
          /\ IsDecisionRow(ledger, ledger[i].ref) /\ ledger[ledger[i].ref].d = ledger[i].d
InStep ==
    /\ \A i \in 1..Len(ledger) : RowInStep(i)
    /\ ~AppendUnderWay => head = [count |-> Len(ledger), at |-> Len(ledger)]

\* What an append or a verification has read is still what there is.
CalmThread(t) ==
    /\ pc[t] \in {"check", "entry", "evidence"} => snap[t] = Len(ledger)
    /\ pc[t] = "entry" => link[t] = Len(ledger)
    /\ pc[t] = "head" => own[t] = Len(ledger) /\ snap[t] + 1 = Len(ledger)
    /\ pc[t] = "stored" => snap[t] <= Len(ledger)
    /\ pc[t] \in {"commit", "read", "check", "entry"} /\ op[t].kind = "auditOutcome" => ref[t] \in RowsOf(op[t].d)
    /\ pc[t] \in {"read", "check", "entry"} /\ op[t].kind = "learn" => ref[t] \in RowsOf(op[t].d)
    /\ pc[t] \in {"write", "read", "check", "entry"} /\ op[t].kind \in DecisionKinds =>
          op[t].d \notin SealedIn(ledger, Len(ledger))
    /\ verdict[t] # "tampered"

\* Whatever is not sealed has somebody who is about to seal it.
AboutToSeal(t) == pc[t] \in {"find", "read", "check", "entry"}
Attended ==
    /\ \A d \in decisions : d \in SealedIn(ledger, Len(ledger))
          \/ \E t \in Threads : AboutToSeal(t) /\ op[t].kind \in DecisionKinds /\ op[t].d = d
    /\ \A e \in outcomes : e \in SealedOutcomesIn(ledger, Len(ledger))
          \/ \E t \in Threads : AboutToSeal(t) /\ op[t].kind \in OutcomeKinds /\ op[t].e = e
    /\ \A m \in markers : \E t \in Threads :
          \/ op[t].kind = "auditDecision" /\ op[t].d = m
          \/ op[t].kind \in OutcomeKinds /\ op[t].e = m

Calm == Exclusive /\ SoleSealer /\ InStep /\ (\A t \in Threads : CalmThread(t)) /\ Attended

LEMMA ExclusiveNext ==
    ASSUME TypeOK, Shape, Exclusive, ~Faults, [Next]_vars
    PROVE  Exclusive'
<1>. USE ConstantsAssumption
<1>1. ASSUME NEW t \in Threads, Open(t) PROVE Exclusive'
  <2>1. ASSUME NEW d \in Decisions, ScorePersist(t, d) PROVE Exclusive'
    BY <2>1 DEF ScorePersist, Start, Goto, TakeDomainLock, FreshDecision, Exclusive, Critical, TypeOK, Shape, ShapeOf, DecisionKinds, OutcomeKinds, Appending, Verifying
  <2>2. ASSUME NEW d \in Decisions, AuditDecisionBegin(t, d) PROVE Exclusive'
    BY <2>2 DEF AuditDecisionBegin, Start, Goto, TakeLedgerLock, LedgerLockFree, FreshDecision, Exclusive, Critical, TypeOK, Shape, ShapeOf, DecisionKinds, OutcomeKinds, Appending, Verifying
  <2>3. ASSUME NEW d \in Decisions, NEW e \in Events, LearnBegin(t, d, e) PROVE Exclusive'
    BY <2>3 DEF LearnBegin, Start, Goto, TakeDomainLock, FreshEvent, Exclusive, Critical, TypeOK, Shape, ShapeOf, DecisionKinds, OutcomeKinds, Appending, Verifying
  <2>4. ASSUME NEW d \in Decisions, NEW e \in Events, AuditOutcomeBegin(t, d, e) PROVE Exclusive'
    BY <2>4 DEF AuditOutcomeBegin, Start, Goto, TakeLedgerLock, LedgerLockFree, FreshEvent, Exclusive, Critical, TypeOK, Shape, ShapeOf, DecisionKinds, OutcomeKinds, Appending, Verifying
  <2>5. CASE VerifyBegin(t)
    BY <2>5 DEF VerifyBegin, Start, Goto, TakeLedgerLock, LedgerLockFree, Exclusive, Critical, TypeOK, Shape, ShapeOf, DecisionKinds, OutcomeKinds, Appending, Verifying
  <2>. QED BY <1>1, <2>1, <2>2, <2>3, <2>4, <2>5 DEF Open
<1>2. ASSUME NEW t \in Threads, Continue(t) PROVE Exclusive'
  <2>1. CASE AuditDecisionWrite(t)
    BY <2>1 DEF AuditDecisionWrite, Goto, Exclusive, Critical, TypeOK, Shape, ShapeOf, DecisionKinds, OutcomeKinds, Appending, Verifying
  <2>2. CASE CommitOutcome(t)
    BY <2>2 DEF CommitOutcome, Goto, Exclusive, Critical, TypeOK, Shape, ShapeOf, DecisionKinds, OutcomeKinds, Appending, Verifying
  <2>3. CASE LearnNotApplied(t)
    BY <2>3 DEF LearnNotApplied, Goto, Exclusive, Critical, TypeOK, Shape, ShapeOf, DecisionKinds, OutcomeKinds, Appending, Verifying
  <2>4. CASE FindSealedDecision(t)
    <3>1. \/ TakeLedgerLock(t) /\ Goto(t, "read")
          \/ Goto(t, "finish") /\ ledgerLock' = ledgerLock
      BY <2>4 DEF FindSealedDecision
    <3>2. LedgerLockFree(t) /\ op' = op
      BY <2>4 DEF FindSealedDecision
    <3>. QED BY <3>1, <3>2 DEF Goto, TakeLedgerLock, LedgerLockFree, Exclusive, Critical, TypeOK, Shape, ShapeOf, DecisionKinds, OutcomeKinds, Appending, Verifying
  <2>5. CASE AppendRead(t)
    BY <2>5 DEF AppendRead, Goto, TakeLedgerLock, LedgerLockFree, Exclusive, Critical, TypeOK, Shape, ShapeOf, DecisionKinds, OutcomeKinds, Appending, Verifying
  <2>6. CASE AppendCheck(t)
    BY <2>6 DEF AppendCheck, Goto, Exclusive, Critical, TypeOK, Shape, ShapeOf, DecisionKinds, OutcomeKinds, Appending, Verifying
  <2>7. CASE AppendRefused(t)
    BY <2>7 DEF AppendRefused, Leave, NoOp, Released, Exclusive, Critical, TypeOK, Shape, ShapeOf, DecisionKinds, OutcomeKinds, Appending, Verifying
  <2>8. CASE AppendSaveEntry(t)
    BY <2>8 DEF AppendSaveEntry, Goto, Exclusive, Critical, TypeOK, Shape, ShapeOf, DecisionKinds, OutcomeKinds, Appending, Verifying
  <2>9. CASE AppendSaveHead(t)
    <3>1. CASE Leave({t})
      BY <2>9, <3>1 DEF AppendSaveHead, Leave, NoOp, Released, Exclusive, Critical, TypeOK, Shape, ShapeOf, DecisionKinds, OutcomeKinds, Appending, Verifying
    <3>2. CASE op[t].kind # "score" /\ Goto(t, "finish") /\ UNCHANGED <<domainLock, op, appendVars, verifyVars>>
      BY <2>9, <3>2 DEF AppendSaveHead, Goto, Released, Exclusive, Critical, TypeOK, Shape, ShapeOf, DecisionKinds, OutcomeKinds, Appending, Verifying
    <3>. QED BY <2>9, <3>1, <3>2 DEF AppendSaveHead
  <2>10. CASE FinishMarker(t)
    BY <2>10 DEF FinishMarker, Leave, NoOp, Released, Exclusive, Critical, TypeOK, Shape, ShapeOf, DecisionKinds, OutcomeKinds, Appending, Verifying
  <2>11. CASE VerifyEntries(t)
    BY <2>11 DEF VerifyEntries, Goto, Exclusive, Critical, TypeOK, Shape, ShapeOf, DecisionKinds, OutcomeKinds, Appending, Verifying
  <2>12. CASE VerifyEvidence(t)
    BY <2>12 DEF VerifyEvidence, Goto, Exclusive, Critical, TypeOK, Shape, ShapeOf, DecisionKinds, OutcomeKinds, Appending, Verifying
  <2>13. CASE VerifyStored(t)
    BY <2>13 DEF VerifyStored, Goto, Released, Exclusive, Critical, TypeOK, Shape, ShapeOf, DecisionKinds, OutcomeKinds, Appending, Verifying
  <2>14. CASE VerifyReturn(t)
    BY <2>14 DEF VerifyReturn, Leave, NoOp, Released, Exclusive, Critical, TypeOK, Shape, ShapeOf, DecisionKinds, OutcomeKinds, Appending, Verifying
  <2>. QED BY <1>2, <2>1, <2>2, <2>3, <2>4, <2>5, <2>6, <2>7, <2>8, <2>9, <2>10, <2>11, <2>12, <2>13, <2>14 DEF Continue
<1>3. CASE UNCHANGED vars
  BY <1>3 DEF vars, Exclusive, Critical, TypeOK, Shape, ShapeOf, DecisionKinds, OutcomeKinds, Appending, Verifying
<1>. QED BY <1>1, <1>2, <1>3 DEF Next, StoreCallFails, Crash

LEMMA SoleSealerNext ==
    ASSUME TypeOK, Shape, SoleSealer, ~Faults, [Next]_vars
    PROVE  SoleSealer'
<1>. USE ConstantsAssumption
<1>1. ASSUME NEW t \in Threads, Open(t) PROVE SoleSealer'
  <2>1. ASSUME NEW d \in Decisions, ScorePersist(t, d) PROVE SoleSealer'
    BY <2>1 DEF ScorePersist, Start, Goto, TakeDomainLock, FreshDecision, SoleSealer, TypeOK, Shape, ShapeOf, DecisionKinds, OutcomeKinds
  <2>2. ASSUME NEW d \in Decisions, AuditDecisionBegin(t, d) PROVE SoleSealer'
    BY <2>2 DEF AuditDecisionBegin, Start, Goto, TakeLedgerLock, LedgerLockFree, FreshDecision, SoleSealer, TypeOK, Shape, ShapeOf, DecisionKinds, OutcomeKinds
  <2>3. ASSUME NEW d \in Decisions, NEW e \in Events, LearnBegin(t, d, e) PROVE SoleSealer'
    BY <2>3 DEF LearnBegin, Start, Goto, TakeDomainLock, FreshEvent, SoleSealer, TypeOK, Shape, ShapeOf, DecisionKinds, OutcomeKinds
  <2>4. ASSUME NEW d \in Decisions, NEW e \in Events, AuditOutcomeBegin(t, d, e) PROVE SoleSealer'
    BY <2>4 DEF AuditOutcomeBegin, Start, Goto, TakeLedgerLock, LedgerLockFree, FreshEvent, SoleSealer, TypeOK, Shape, ShapeOf, DecisionKinds, OutcomeKinds
  <2>5. CASE VerifyBegin(t)
    BY <2>5 DEF VerifyBegin, Start, Goto, TakeLedgerLock, LedgerLockFree, SoleSealer, TypeOK, Shape, ShapeOf, DecisionKinds, OutcomeKinds
  <2>. QED BY <1>1, <2>1, <2>2, <2>3, <2>4, <2>5 DEF Open
<1>2. ASSUME NEW t \in Threads, Continue(t) PROVE SoleSealer'
  <2>1. CASE AuditDecisionWrite(t)
    BY <2>1 DEF AuditDecisionWrite, Goto, SoleSealer, TypeOK, Shape, ShapeOf, DecisionKinds, OutcomeKinds
  <2>2. CASE CommitOutcome(t)
    BY <2>2 DEF CommitOutcome, Goto, SoleSealer, TypeOK, Shape, ShapeOf, DecisionKinds, OutcomeKinds
  <2>3. CASE LearnNotApplied(t)
    BY <2>3 DEF LearnNotApplied, Goto, SoleSealer, TypeOK, Shape, ShapeOf, DecisionKinds, OutcomeKinds
  <2>4. CASE FindSealedDecision(t)
    BY <2>4 DEF FindSealedDecision, Goto, TakeLedgerLock, LedgerLockFree, SoleSealer, TypeOK, Shape, ShapeOf, DecisionKinds, OutcomeKinds
  <2>5. CASE AppendRead(t)
    BY <2>5 DEF AppendRead, Goto, TakeLedgerLock, LedgerLockFree, SoleSealer, TypeOK, Shape, ShapeOf, DecisionKinds, OutcomeKinds
  <2>6. CASE AppendCheck(t)
    BY <2>6 DEF AppendCheck, Goto, SoleSealer, TypeOK, Shape, ShapeOf, DecisionKinds, OutcomeKinds
  <2>7. CASE AppendRefused(t)
    BY <2>7 DEF AppendRefused, Leave, NoOp, Released, SoleSealer, TypeOK, Shape, ShapeOf, DecisionKinds, OutcomeKinds
  <2>8. CASE AppendSaveEntry(t)
    BY <2>8 DEF AppendSaveEntry, Goto, SoleSealer, TypeOK, Shape, ShapeOf, DecisionKinds, OutcomeKinds
  <2>9. CASE AppendSaveHead(t)
    <3>1. CASE Leave({t})
      BY <2>9, <3>1 DEF AppendSaveHead, Leave, NoOp, Released, SoleSealer, TypeOK, Shape, ShapeOf, DecisionKinds, OutcomeKinds
    <3>2. CASE op[t].kind # "score" /\ Goto(t, "finish") /\ UNCHANGED <<domainLock, op, appendVars, verifyVars>>
      BY <2>9, <3>2 DEF AppendSaveHead, Goto, Released, SoleSealer, TypeOK, Shape, ShapeOf, DecisionKinds, OutcomeKinds
    <3>. QED BY <2>9, <3>1, <3>2 DEF AppendSaveHead
  <2>10. CASE FinishMarker(t)
    BY <2>10 DEF FinishMarker, Leave, NoOp, Released, SoleSealer, TypeOK, Shape, ShapeOf, DecisionKinds, OutcomeKinds
  <2>11. CASE VerifyEntries(t)
    BY <2>11 DEF VerifyEntries, Goto, SoleSealer, TypeOK, Shape, ShapeOf, DecisionKinds, OutcomeKinds
  <2>12. CASE VerifyEvidence(t)
    BY <2>12 DEF VerifyEvidence, Goto, SoleSealer, TypeOK, Shape, ShapeOf, DecisionKinds, OutcomeKinds
  <2>13. CASE VerifyStored(t)
    BY <2>13 DEF VerifyStored, Goto, Released, SoleSealer, TypeOK, Shape, ShapeOf, DecisionKinds, OutcomeKinds
  <2>14. CASE VerifyReturn(t)
    BY <2>14 DEF VerifyReturn, Leave, NoOp, Released, SoleSealer, TypeOK, Shape, ShapeOf, DecisionKinds, OutcomeKinds
  <2>. QED BY <1>2, <2>1, <2>2, <2>3, <2>4, <2>5, <2>6, <2>7, <2>8, <2>9, <2>10, <2>11, <2>12, <2>13, <2>14 DEF Continue
<1>3. CASE UNCHANGED vars
  BY <1>3 DEF vars, SoleSealer, TypeOK, Shape, ShapeOf, DecisionKinds, OutcomeKinds
<1>. QED BY <1>1, <1>2, <1>3 DEF Next, StoreCallFails, Crash

LEMMA OnlyOneCritical ==
    ASSUME SingleProcess, Exclusive, NEW t \in Threads, NEW u \in Threads, Critical(t), Critical(u)
    PROVE  t = u
BY DEF SingleProcess, Exclusive

LEMMA InStepVerifies ==
    ASSUME TypeOK, InStep
    PROVE  /\ LinkBefore(ledger, Len(ledger), Len(ledger)) = Len(ledger)
           /\ ~AppendUnderWay => ChainOK(ledger, Len(ledger), head)
<1>. DEFINE n == Len(ledger)
<1>1. n \in Nat /\ \A i \in 1..n : ledger[i].idx = i - 1 /\ ledger[i].prev = i - 1
  BY DEF TypeOK, InStep, RowInStep
<1>2. \A k \in 0..n : LinkBefore(ledger, n, k) = k
  BY <1>1, LinksInPlace
<1>3. {ledger[i].idx : i \in 1..n} = 0..n-1
  <2>1. \A x \in 0..n-1 : x + 1 \in 1..n /\ x = ledger[x + 1].idx
    BY <1>1
  <2>2. 0..n-1 \subseteq {ledger[i].idx : i \in 1..n}
    BY <2>1
  <2>3. \A i \in 1..n : ledger[i].idx \in 0..n-1
    BY <1>1
  <2>. QED BY <2>2, <2>3
<1>4. \A i \in 1..n : ledger[i].prev = LinkBefore(ledger, n, ledger[i].idx)
  <2>1. \A i \in 1..n : ledger[i].idx \in 0..n /\ ledger[i].idx = ledger[i].prev
    BY <1>1
  <2>. QED BY <1>2, <2>1
<1>5. \A i, j \in 1..n :
          IsDecisionRow(ledger, i) /\ IsDecisionRow(ledger, j) /\ ledger[i].d = ledger[j].d => i = j
  BY DEF InStep, RowInStep
<1>6. ASSUME NEW i \in 1..n, ~IsDecisionRow(ledger, i)
      PROVE  \E j \in 1..n : /\ IsDecisionRow(ledger, j) /\ ledger[j].idx < ledger[i].idx
                             /\ ledger[j].d = ledger[i].d /\ j = ledger[i].ref
  <2>1. /\ ledger[i].ref \in 1..i-1 /\ IsDecisionRow(ledger, ledger[i].ref)
        /\ ledger[ledger[i].ref].d = ledger[i].d
    BY <1>6 DEF InStep, RowInStep
  <2>2. ledger[i].ref \in 1..n /\ ledger[ledger[i].ref].idx < ledger[i].idx
    BY <1>1, <2>1
  <2>. QED BY <2>1, <2>2
<1>7. RowsOK(ledger, n)
  BY <1>3, <1>4, <1>5, <1>6 DEF RowsOK
<1>8. n \in 0..n
  BY <1>1
<1>. QED BY <1>1, <1>2, <1>7, <1>8, ChainIsRowsAndHead DEF InStep

\* The row that is stored is in its place and names what it seals.
LEMMA EntryInStep ==
    ASSUME TypeOK, Shape, InStep, NEW t \in Threads, CalmThread(t), AppendSaveEntry(t)
    PROVE  \A i \in 1..Len(ledger) + 1 : RowInStep(i)'
<1>. DEFINE n == Len(ledger)
            r == NewRow(t)
<1>1. /\ ledger' = Append(ledger, r) /\ n \in Nat /\ Len(ledger') = n + 1
      /\ \A i \in 1..n : ledger'[i] = ledger[i]
      /\ pc[t] = "entry"
  BY EntryEffect
<1>2. ledger'[n + 1] = r
  BY <1>1 DEF TypeOK
<1>3. /\ r.d = op[t].d /\ r.ref = ref[t] /\ r.idx = snap[t] /\ r.prev = link[t]
      /\ r.kind = "decision" <=> op[t].e = Nobody
  BY DEF NewRow
<1>4. r.idx = n /\ r.prev = n
  BY <1>1, <1>3 DEF CalmThread
<1>5. op[t].kind \in DecisionKinds \/ op[t].kind \in OutcomeKinds
  BY <1>1 DEF Shape, ShapeOf, Appending
<1>6. ASSUME op[t].kind \in DecisionKinds
      PROVE  r.kind = "decision" /\ \A j \in 1..n : IsDecisionRow(ledger, j) => ledger[j].d # r.d
  <2>1. op[t].e = Nobody /\ op[t].d \notin SealedIn(ledger, n)
    BY <1>1, <1>6 DEF Shape, ShapeOf, CalmThread
  <2>. QED BY <1>3, <2>1 DEF SealedIn
<1>7. ASSUME op[t].kind \in OutcomeKinds
      PROVE  r.kind # "decision" /\ r.ref \in 1..n /\ IsDecisionRow(ledger, r.ref) /\ ledger[r.ref].d = r.d
  <2>1. op[t].e # Nobody /\ ref[t] \in RowsOf(op[t].d)
    BY <1>1, <1>7, ConstantsAssumption DEF Shape, ShapeOf, CalmThread, OutcomeKinds
  <2>. QED BY <1>3, <2>1 DEF RowsOf
<1>. HIDE DEF r, n
<1>8. ASSUME NEW i \in 1..n PROVE RowInStep(i)'
  <2>1. RowInStep(i)
    BY DEF InStep, n
  <2>2. i \in 1..n+1 /\ i # n + 1 /\ ledger'[i] = ledger[i]
    BY <1>1
  <2>3. IsDecisionRow(ledger', i) =>
           \A j \in 1..n+1 : IsDecisionRow(ledger', j) /\ ledger'[j].d = ledger'[i].d => i = j
    BY <1>1, <1>2, <1>5, <1>6, <1>7, <2>1, <2>2 DEF RowInStep, IsDecisionRow, n
  <2>4. ~IsDecisionRow(ledger', i) =>
           /\ ledger'[i].ref \in 1..i-1
           /\ IsDecisionRow(ledger', ledger'[i].ref) /\ ledger'[ledger'[i].ref].d = ledger'[i].d
    BY <1>1, <2>1, <2>2 DEF RowInStep, IsDecisionRow, n
  <2>. QED BY <1>1, <2>1, <2>2, <2>3, <2>4 DEF RowInStep
<1>9. ASSUME NEW i, i = n + 1 PROVE RowInStep(i)'
  <2>1. ledger'[i] = r /\ ledger'[i].idx = i - 1 /\ ledger'[i].prev = i - 1 /\ i - 1 = n
    BY <1>1, <1>2, <1>4, <1>9
  <2>2. IsDecisionRow(ledger', i) =>
           \A j \in 1..n+1 : IsDecisionRow(ledger', j) /\ ledger'[j].d = r.d => i = j
    BY <1>1, <1>2, <1>5, <1>6, <1>7, <1>9 DEF IsDecisionRow
  <2>3. ASSUME ~IsDecisionRow(ledger', i)
        PROVE  r.ref \in 1..n /\ IsDecisionRow(ledger', r.ref) /\ ledger'[r.ref].d = r.d
    <3>1. op[t].kind \in OutcomeKinds
      BY <1>5, <1>6, <2>1, <2>3 DEF IsDecisionRow
    <3>2. r.ref \in 1..n /\ IsDecisionRow(ledger, r.ref) /\ ledger[r.ref].d = r.d
      BY <1>7, <3>1
    <3>. QED BY <1>1, <3>2 DEF IsDecisionRow
  <2>. QED BY <1>1, <2>1, <2>2, <2>3 DEF RowInStep
<1>. QED BY <1>1, <1>8, <1>9 DEF n

LEMMA RowsSealed == ASSUME NEW d PROVE d \in SealedIn(ledger, Len(ledger)) <=> RowsOf(d) # {}
BY DEF SealedIn, RowsOf

\* A thread that is inside the ledger lock finds what it left.
LEMMA CalmNext ==
    ASSUME TypeOK, Shape, NothingInvented, SingleProcess, Exclusive, SoleSealer, InStep,
           \A u \in Threads : CalmThread(u), ~Faults, [Next]_vars
    PROVE  (InStep /\ \A u \in Threads : CalmThread(u))'
<1>. USE ConstantsAssumption
<1>0. \A t, u \in Threads : Critical(t) /\ Critical(u) => t = u
  BY OnlyOneCritical
<1>1. ASSUME NEW t \in Threads, Open(t) PROVE (InStep /\ \A u \in Threads : CalmThread(u))'
  <2>1. ASSUME NEW d \in Decisions, ScorePersist(t, d) PROVE (InStep /\ \A u \in Threads : CalmThread(u))'
    BY <2>1 DEF ScorePersist, Start, Goto, FreshDecision, NothingInvented, TypeOK, Shape, ShapeOf, CalmThread, InStep, RowInStep, AppendUnderWay, RowsOf, DecisionKinds, OutcomeKinds, Appending, Verifying
  <2>2. ASSUME NEW d \in Decisions, AuditDecisionBegin(t, d) PROVE (InStep /\ \A u \in Threads : CalmThread(u))'
    BY <2>2 DEF AuditDecisionBegin, Start, Goto, FreshDecision, NothingInvented, TypeOK, Shape, ShapeOf, CalmThread, InStep, RowInStep, AppendUnderWay, RowsOf, DecisionKinds, OutcomeKinds, Appending, Verifying
  <2>3. ASSUME NEW d \in Decisions, NEW e \in Events, LearnBegin(t, d, e) PROVE (InStep /\ \A u \in Threads : CalmThread(u))'
    BY <2>3 DEF LearnBegin, Start, Goto, TakeDomainLock, FreshEvent, TypeOK, Shape, ShapeOf, CalmThread, InStep, RowInStep, AppendUnderWay, RowsOf, DecisionKinds, OutcomeKinds, Appending, Verifying
  <2>4. ASSUME NEW d \in Decisions, NEW e \in Events, AuditOutcomeBegin(t, d, e) PROVE (InStep /\ \A u \in Threads : CalmThread(u))'
    <3>1. PICK i \in RowsOf(d) : ref' = [ref EXCEPT ![t] = i]
      BY <2>4 DEF AuditOutcomeBegin, FirstRowsOf
    <3>. QED BY <2>4, <3>1 DEF AuditOutcomeBegin, Start, Goto, TypeOK, Shape, ShapeOf, CalmThread, InStep, RowInStep, AppendUnderWay, RowsOf, DecisionKinds, OutcomeKinds, Appending, Verifying
  <2>5. CASE VerifyBegin(t)
    BY <2>5 DEF VerifyBegin, Start, Goto, TakeLedgerLock, LedgerLockFree, TypeOK, Shape, ShapeOf, CalmThread, InStep, RowInStep, AppendUnderWay, RowsOf, DecisionKinds, OutcomeKinds, Appending, Verifying
  <2>. QED BY <1>1, <2>1, <2>2, <2>3, <2>4, <2>5 DEF Open
<1>2. ASSUME NEW t \in Threads, Continue(t) PROVE (InStep /\ \A u \in Threads : CalmThread(u))'
  <2>1. CASE AuditDecisionWrite(t)
    BY <2>1 DEF AuditDecisionWrite, Goto, TypeOK, Shape, ShapeOf, CalmThread, InStep, RowInStep, AppendUnderWay, RowsOf, DecisionKinds, OutcomeKinds, Appending, Verifying
  <2>2. CASE CommitOutcome(t)
    BY <2>2 DEF CommitOutcome, Goto, TypeOK, Shape, ShapeOf, CalmThread, InStep, RowInStep, AppendUnderWay, RowsOf, DecisionKinds, OutcomeKinds, Appending, Verifying
  <2>3. CASE LearnNotApplied(t)
    BY <2>3 DEF LearnNotApplied, Goto, TypeOK, Shape, ShapeOf, CalmThread, InStep, RowInStep, AppendUnderWay, RowsOf, DecisionKinds, OutcomeKinds, Appending, Verifying
  <2>4. CASE FindSealedDecision(t)
    <3>1. (\E i \in RowsOf(op[t].d) : ref' = [ref EXCEPT ![t] = i] /\ Goto(t, "read")) \/ (Goto(t, "finish") /\ ref' = ref)
      BY <2>4 DEF FindSealedDecision, FirstRowsOf
    <3>. QED BY <2>4, <3>1 DEF FindSealedDecision, Goto, TypeOK, Shape, ShapeOf, CalmThread, InStep, RowInStep, AppendUnderWay, RowsOf, DecisionKinds, OutcomeKinds, Appending, Verifying
  <2>5. CASE AppendRead(t)
    BY <2>5 DEF AppendRead, Goto, TakeLedgerLock, LedgerLockFree, TypeOK, Shape, ShapeOf, CalmThread, InStep, RowInStep, AppendUnderWay, RowsOf, DecisionKinds, OutcomeKinds, Appending, Verifying
  <2>6. CASE AppendCheck(t)
    <3>1. LinkBefore(ledger, snap[t], snap[t]) = Len(ledger)
      BY <2>6, InStepVerifies DEF AppendCheck, CalmThread
    <3>. QED BY <2>6, <3>1 DEF AppendCheck, Goto, TypeOK, Shape, ShapeOf, CalmThread, InStep, RowInStep, AppendUnderWay, RowsOf, DecisionKinds, OutcomeKinds, Appending, Verifying
  <2>7. CASE AppendRefused(t)
    <3>1. pc[t] = "check" /\ ~ChainOK(ledger, Len(ledger), head)
      BY <2>7 DEF AppendRefused, CalmThread
    <3>. QED BY <1>0, <3>1, InStepVerifies DEF Critical, AppendUnderWay
  <2>8. CASE AppendSaveEntry(t)
    <3>1. /\ ledger' = Append(ledger, NewRow(t)) /\ NewRow(t) \in Row /\ NewRow(t).d = op[t].d
          /\ Len(ledger) \in Nat /\ Len(ledger') = Len(ledger) + 1
          /\ \A i \in 1..Len(ledger) : ledger'[i] = ledger[i]
          /\ pc[t] = "entry" /\ pc' = [pc EXCEPT ![t] = "head"]
          /\ own' = [own EXCEPT ![t] = Len(ledger) + 1]
          /\ UNCHANGED <<head, snap, link, ref, op, verdict>>
      BY <2>8, EntryEffect DEF AppendSaveEntry, NewRow
    <3>2. InStep'
      <4>1. AppendUnderWay'
        BY <3>1 DEF AppendUnderWay, TypeOK
      <4>. QED BY <2>8, <3>1, <4>1, EntryInStep DEF InStep
    <3>3. \A d : RowsOf(d) \subseteq RowsOf(d)'
      BY <3>1 DEF RowsOf, IsDecisionRow
    <3>4. ASSUME NEW u \in Threads PROVE CalmThread(u)'
      <4>1. CASE u = t
        BY <3>1, <4>1 DEF CalmThread, TypeOK
      <4>2. CASE u # t
        <5>1. pc'[u] = pc[u] /\ pc[u] \notin {"check", "entry", "head", "evidence", "stored"}
          BY <1>0, <3>1, <4>2 DEF Critical, TypeOK
        <5>2. op[u].kind \in DecisionKinds /\ pc[u] \in {"write", "read"} =>
                 op[u].d \notin SealedIn(ledger', Len(ledger'))
          <6>. SUFFICES ASSUME op[u].kind \in DecisionKinds, pc[u] \in {"write", "read"}
                        PROVE  op[u].d \notin SealedIn(ledger', Len(ledger'))
            OBVIOUS
          <6>1. SealedIn(ledger', Len(ledger')) \subseteq
                   SealedIn(ledger, Len(ledger)) \cup (IF op[t].kind \in DecisionKinds THEN {op[t].d} ELSE {})
            <7>1. NewRow(t).kind = "decision" => op[t].kind \in DecisionKinds
              BY <3>1, ConstantsAssumption DEF NewRow, Shape, ShapeOf, Appending, OutcomeKinds
            <7>. HIDE DEF NewRow
            <7>. QED BY <3>1, <7>1, AppendSeals DEF TypeOK
          <6>2. op[t].kind \in DecisionKinds => op[t].d # op[u].d
            BY <4>2 DEF SoleSealer
          <6>. QED BY <6>1, <6>2 DEF CalmThread
        <5>. QED BY <3>1, <3>3, <5>1, <5>2 DEF CalmThread
      <4>. QED BY <4>1, <4>2
    <3>. QED BY <3>2, <3>4
  <2>9. CASE AppendSaveHead(t)
    <3>1. /\ pc[t] = "head" /\ ledger' = ledger /\ pc'[t] \in {"idle", "finish"}
          /\ head' = [count |-> Len(ledger), at |-> Len(ledger)]
      BY <2>9 DEF AppendSaveHead, Leave, Goto, CalmThread, TypeOK
    <3>2. \A u \in Threads \ {t} : pc[u] # "head" /\ pc'[u] = pc[u]
      <4>1. \A u \in Threads \ {t} : pc[u] # "head"
        BY <1>0, <3>1 DEF Critical
      <4>2. \A u \in Threads \ {t} : pc'[u] = pc[u]
        <5>1. CASE Leave({t})
          BY <5>1 DEF Leave
        <5>2. CASE Goto(t, "finish")
          BY <5>2 DEF Goto, TypeOK
        <5>. QED BY <2>9, <5>1, <5>2 DEF AppendSaveHead
      <4>. QED BY <4>1, <4>2
    <3>3. InStep'
      BY <3>1, <3>2 DEF InStep, RowInStep, AppendUnderWay
    <3>4. ASSUME NEW u \in Threads PROVE CalmThread(u)'
      <4>1. CASE Leave({t})
        BY <2>9, <3>1, <4>1 DEF AppendSaveHead, Leave, NoOp, CalmThread, RowsOf, DecisionKinds, TypeOK
      <4>2. CASE Goto(t, "finish") /\ UNCHANGED <<domainLock, op, appendVars, verifyVars>>
        BY <2>9, <3>1, <4>2 DEF AppendSaveHead, Goto, CalmThread, RowsOf, TypeOK
      <4>. QED BY <2>9, <4>1, <4>2 DEF AppendSaveHead
    <3>. QED BY <3>3, <3>4
  <2>10. CASE FinishMarker(t)
    BY <2>10 DEF FinishMarker, Leave, NoOp, Released, TypeOK, Shape, ShapeOf, CalmThread, InStep, RowInStep, AppendUnderWay, RowsOf, DecisionKinds, OutcomeKinds, Appending, Verifying
  <2>11. CASE VerifyEntries(t)
    BY <2>11 DEF VerifyEntries, Goto, TypeOK, Shape, ShapeOf, CalmThread, InStep, RowInStep, AppendUnderWay, RowsOf, DecisionKinds, OutcomeKinds, Appending, Verifying
  <2>12. CASE VerifyEvidence(t)
    <3>1. ChainOK(ledger, snap[t], head)
      BY <2>12, <1>0, InStepVerifies DEF VerifyEvidence, CalmThread, Critical, AppendUnderWay
    <3>. QED BY <2>12, <3>1 DEF VerifyEvidence, Goto, TypeOK, Shape, ShapeOf, CalmThread, InStep, RowInStep, AppendUnderWay, RowsOf, DecisionKinds, OutcomeKinds, Appending, Verifying
  <2>13. CASE VerifyStored(t)
    <3>1. snap[t] \in Nat /\ Len(ledger) \in Nat /\ snap[t] <= Len(ledger)
      BY <2>13 DEF VerifyStored, CalmThread, TypeOK
    <3>2. SealedIn(ledger, snap[t]) \subseteq decisions
      BY <3>1, SealedMonotone DEF NothingInvented
    <3>3. verdict[t] # "tampered"
      BY DEF CalmThread
    <3>4. verdict' = [verdict EXCEPT ![t] = verdict'[t]] /\ verdict'[t] # "tampered"
      BY <2>13, <3>2, <3>3 DEF VerifyStored, TypeOK
    <3>. QED BY <2>13, <3>4 DEF VerifyStored, Goto, TypeOK, Shape, ShapeOf, CalmThread, InStep, RowInStep, AppendUnderWay, RowsOf, DecisionKinds, OutcomeKinds, Appending, Verifying
  <2>14. CASE VerifyReturn(t)
    BY <2>14 DEF VerifyReturn, Leave, NoOp, Released, TypeOK, Shape, ShapeOf, CalmThread, InStep, RowInStep, AppendUnderWay, RowsOf, DecisionKinds, OutcomeKinds, Appending, Verifying
  <2>. QED BY <1>2, <2>1, <2>2, <2>3, <2>4, <2>5, <2>6, <2>7, <2>8, <2>9, <2>10, <2>11, <2>12, <2>13, <2>14 DEF Continue
<1>3. CASE UNCHANGED vars
  BY <1>3 DEF vars, TypeOK, Shape, ShapeOf, CalmThread, InStep, RowInStep, AppendUnderWay, RowsOf, DecisionKinds, OutcomeKinds, Appending, Verifying
<1>. QED BY <1>1, <1>2, <1>3 DEF Next, StoreCallFails, Crash

\* A thread that is not about to seal anything takes nobody's sealer away, and
\* keeps its marker attended as long as the marker is there.
LEMMA AttendedByOthers ==
    ASSUME TypeOK, Attended, NEW t \in Threads, ~AboutToSeal(t),
           UNCHANGED <<decisions, outcomes, ledger>>, markers' \subseteq markers,
           \A u \in Threads \ {t} : pc'[u] = pc[u] /\ op'[u] = op[u],
           op'[t] = op[t] \/ \A m \in markers' :
              /\ op[t].kind = "auditDecision" => op[t].d # m
              /\ op[t].kind \in OutcomeKinds => op[t].e # m
    PROVE  Attended'
<1>1. \A u \in Threads : AboutToSeal(u) => AboutToSeal(u)' /\ op'[u] = op[u]
  BY DEF AboutToSeal
<1>2. \A d \in decisions' : d \in SealedIn(ledger', Len(ledger'))
          \/ \E u \in Threads : AboutToSeal(u)' /\ op'[u].kind \in DecisionKinds /\ op'[u].d = d
  BY <1>1 DEF Attended
<1>3. \A e \in outcomes' : e \in SealedOutcomesIn(ledger', Len(ledger'))
          \/ \E u \in Threads : AboutToSeal(u)' /\ op'[u].kind \in OutcomeKinds /\ op'[u].e = e
  BY <1>1 DEF Attended
<1>4. ASSUME NEW m \in markers'
      PROVE  \E u \in Threads : \/ op'[u].kind = "auditDecision" /\ op'[u].d = m
                                \/ op'[u].kind \in OutcomeKinds /\ op'[u].e = m
  <2>1. PICK u \in Threads : \/ op[u].kind = "auditDecision" /\ op[u].d = m
                             \/ op[u].kind \in OutcomeKinds /\ op[u].e = m
    BY DEF Attended
  <2>2. op'[u] = op[u]
    BY <2>1
  <2>. QED BY <2>1, <2>2
<1>. QED BY <1>2, <1>3, <1>4 DEF Attended

\* A learn finds its decision sealed: whoever stored it holds a lock until it is.
LEMMA AttendedNext ==
    ASSUME TypeOK, Shape, Honest, Holding, SingleProcess, Exclusive, InStep,
           \A u \in Threads : CalmThread(u), Attended, ~Faults, [Next]_vars
    PROVE  Attended'
<1>. USE ConstantsAssumption
<1>0. \A t, u \in Threads : Critical(t) /\ Critical(u) => t = u
  BY OnlyOneCritical
<1>1. ASSUME NEW t \in Threads, Open(t) PROVE Attended'
  <2>1. ASSUME NEW d \in Decisions, ScorePersist(t, d) PROVE Attended'
    BY <2>1 DEF ScorePersist, Start, Goto, TakeDomainLock, FreshDecision, Attended, AboutToSeal, TypeOK, Shape, ShapeOf, DecisionKinds, OutcomeKinds, Appending, Verifying
  <2>2. ASSUME NEW d \in Decisions, AuditDecisionBegin(t, d) PROVE Attended'
    BY <2>2 DEF AuditDecisionBegin, Start, Goto, TakeLedgerLock, LedgerLockFree, FreshDecision, Attended, AboutToSeal, TypeOK, Shape, ShapeOf, DecisionKinds, OutcomeKinds, Appending, Verifying
  <2>3. ASSUME NEW d \in Decisions, NEW e \in Events, LearnBegin(t, d, e) PROVE Attended'
    BY <2>3 DEF LearnBegin, Start, Goto, TakeDomainLock, FreshEvent, Attended, AboutToSeal, TypeOK, Shape, ShapeOf, DecisionKinds, OutcomeKinds, Appending, Verifying
  <2>4. ASSUME NEW d \in Decisions, NEW e \in Events, AuditOutcomeBegin(t, d, e) PROVE Attended'
    BY <2>4 DEF AuditOutcomeBegin, Start, Goto, TakeLedgerLock, LedgerLockFree, FreshEvent, Attended, AboutToSeal, TypeOK, Shape, ShapeOf, DecisionKinds, OutcomeKinds, Appending, Verifying
  <2>5. CASE VerifyBegin(t)
    BY <2>5 DEF VerifyBegin, Start, Goto, TakeLedgerLock, LedgerLockFree, Attended, AboutToSeal, TypeOK, Shape, ShapeOf, DecisionKinds, OutcomeKinds, Appending, Verifying
  <2>. QED BY <1>1, <2>1, <2>2, <2>3, <2>4, <2>5 DEF Open
<1>2. ASSUME NEW t \in Threads, Continue(t) PROVE Attended'
  <2>1. CASE AuditDecisionWrite(t)
    BY <2>1 DEF AuditDecisionWrite, Goto, Attended, AboutToSeal, TypeOK, Shape, ShapeOf, DecisionKinds, OutcomeKinds, Appending, Verifying
  <2>2. CASE CommitOutcome(t)
    BY <2>2 DEF CommitOutcome, Goto, Attended, AboutToSeal, TypeOK, Shape, ShapeOf, DecisionKinds, OutcomeKinds, Appending, Verifying
  <2>3. CASE LearnNotApplied(t)
    BY <2>3, AttendedByOthers DEF LearnNotApplied, Goto, AboutToSeal, TypeOK
  <2>4. CASE FindSealedDecision(t)
    <3>1. RowsOf(op[t].d) # {}
      <4>1. pc[t] = "find" /\ op[t].kind = "learn" /\ op[t].d \in decisions
        BY <2>4 DEF FindSealedDecision, Shape, ShapeOf, Honest, HonestThread
      <4>2. SUFFICES ASSUME op[t].d \notin SealedIn(ledger, Len(ledger)) PROVE FALSE
        BY RowsSealed
      <4>3. PICK u \in Threads : op[u].kind \in DecisionKinds /\ op[u].d = op[t].d
        BY <4>1, <4>2 DEF Attended
      <4>4. op[u].kind # "score"
        BY <4>1, <4>3, ConstantsAssumption DEF Holding, HoldingThread, SingleProcess
      <4>5. ledgerLock[ProcOf[u]] = u /\ u # t
        BY <4>1, <4>3, <4>4 DEF DecisionKinds, Holding, HoldingThread
      <4>. QED BY <2>4, <4>5, ConstantsAssumption DEF FindSealedDecision, LedgerLockFree, SingleProcess
    <3>2. UNCHANGED <<storeVars, chainVars, op>> /\ pc' = [pc EXCEPT ![t] = "read"]
      BY <2>4, <3>1 DEF FindSealedDecision, Goto
    <3>. QED BY <2>4, <3>2 DEF Attended, AboutToSeal, TypeOK, Shape, ShapeOf, DecisionKinds, OutcomeKinds, Appending, Verifying
  <2>5. CASE AppendRead(t)
    BY <2>5 DEF AppendRead, Goto, TakeLedgerLock, LedgerLockFree, Attended, AboutToSeal, TypeOK, Shape, ShapeOf, DecisionKinds, OutcomeKinds, Appending, Verifying
  <2>6. CASE AppendCheck(t)
    BY <2>6 DEF AppendCheck, Goto, Attended, AboutToSeal, TypeOK, Shape, ShapeOf, DecisionKinds, OutcomeKinds, Appending, Verifying
  <2>7. CASE AppendRefused(t)
    <3>1. pc[t] = "check" /\ ~ChainOK(ledger, Len(ledger), head)
      BY <2>7 DEF AppendRefused, CalmThread
    <3>. QED BY <1>0, <3>1, InStepVerifies DEF Critical, AppendUnderWay
  <2>8. CASE AppendSaveEntry(t)
    <3>1. /\ ledger' = Append(ledger, NewRow(t)) /\ NewRow(t) \in Row
          /\ NewRow(t).d = op[t].d /\ NewRow(t).e = op[t].e
          /\ Len(ledger) \in Nat /\ Len(ledger') = Len(ledger) + 1
          /\ pc[t] = "entry" /\ pc' = [pc EXCEPT ![t] = "head"]
          /\ UNCHANGED <<op, storeVars>>
      BY <2>8, EntryEffect DEF AppendSaveEntry, NewRow
    <3>2. /\ op[t].kind \in DecisionKinds => NewRow(t).kind = "decision"
          /\ op[t].kind \in OutcomeKinds => NewRow(t).kind # "decision"
      BY ConstantsAssumption DEF NewRow, Shape, ShapeOf, OutcomeKinds
    <3>3. /\ SealedIn(ledger', Len(ledger')) =
                SealedIn(ledger, Len(ledger)) \cup (IF NewRow(t).kind = "decision" THEN {NewRow(t).d} ELSE {})
          /\ SealedOutcomesIn(ledger', Len(ledger')) =
                SealedOutcomesIn(ledger, Len(ledger)) \cup (IF NewRow(t).kind = "decision" THEN {} ELSE {NewRow(t).e})
      <4>. HIDE DEF NewRow
      <4>. QED BY <3>1, AppendSeals DEF TypeOK
    <3>. HIDE DEF NewRow
    <3>4. \A u \in Threads : u # t => (AboutToSeal(u)' <=> AboutToSeal(u))
      BY <3>1 DEF AboutToSeal, TypeOK
    <3>. QED BY <3>1, <3>2, <3>3, <3>4 DEF Attended
  <2>9. CASE AppendSaveHead(t)
    <3>1. CASE Leave({t}) /\ op[t].kind = "score"
      BY <2>9, <3>1, AttendedByOthers DEF AppendSaveHead, Leave, AboutToSeal, OutcomeKinds
    <3>2. CASE Goto(t, "finish") /\ UNCHANGED <<domainLock, op, appendVars, verifyVars>>
      BY <2>9, <3>2, AttendedByOthers DEF AppendSaveHead, Goto, AboutToSeal, TypeOK
    <3>. QED BY <2>9, <3>1, <3>2 DEF AppendSaveHead
  <2>10. CASE FinishMarker(t)
    <3>1. pc[t] = "finish" /\ Leave({t}) /\ UNCHANGED <<decisions, outcomes, chainVars>>
          /\ markers' = markers \ (IF op[t].kind = "auditDecision" THEN {op[t].d} ELSE {op[t].e})
      BY <2>10 DEF FinishMarker
    <3>2. \A m \in markers' : /\ op[t].kind = "auditDecision" => op[t].d # m
                             /\ op[t].kind \in OutcomeKinds => op[t].e # m
      BY <3>1 DEF OutcomeKinds
    <3>3. ~AboutToSeal(t) /\ \A u \in Threads \ {t} : pc'[u] = pc[u] /\ op'[u] = op[u]
      BY <3>1 DEF AboutToSeal, Leave
    <3>. QED BY <3>1, <3>2, <3>3, AttendedByOthers
  <2>11. CASE VerifyEntries(t)
    BY <2>11 DEF VerifyEntries, Goto, Attended, AboutToSeal, TypeOK, Shape, ShapeOf, DecisionKinds, OutcomeKinds, Appending, Verifying
  <2>12. CASE VerifyEvidence(t)
    BY <2>12 DEF VerifyEvidence, Goto, Attended, AboutToSeal, TypeOK, Shape, ShapeOf, DecisionKinds, OutcomeKinds, Appending, Verifying
  <2>13. CASE VerifyStored(t)
    BY <2>13 DEF VerifyStored, Goto, Released, Attended, AboutToSeal, TypeOK, Shape, ShapeOf, DecisionKinds, OutcomeKinds, Appending, Verifying
  <2>14. CASE VerifyReturn(t)
    BY <2>14 DEF VerifyReturn, Leave, NoOp, Released, Attended, AboutToSeal, TypeOK, Shape, ShapeOf, DecisionKinds, OutcomeKinds, Appending, Verifying
  <2>. QED BY <1>2, <2>1, <2>2, <2>3, <2>4, <2>5, <2>6, <2>7, <2>8, <2>9, <2>10, <2>11, <2>12, <2>13, <2>14 DEF Continue
<1>3. CASE UNCHANGED vars
  BY <1>3 DEF vars, Attended, AboutToSeal, TypeOK, Shape, ShapeOf, DecisionKinds, OutcomeKinds, Appending, Verifying
<1>. QED BY <1>1, <1>2, <1>3 DEF Next, StoreCallFails, Crash

LEMMA CalmStays == IInv /\ SingleProcess /\ ~Faults /\ Calm /\ [Next]_vars => Calm'
BY ExclusiveNext, SoleSealerNext, CalmNext, AttendedNext DEF IInv, Honest, Calm

LEMMA InitiallyCalm == Init => Calm
<1>. SUFFICES ASSUME Init PROVE Calm
  OBVIOUS
<1>. USE DEF Init, NoOp, NoHead
<1>1. Exclusive /\ SoleSealer
  BY DEF Exclusive, Critical, SoleSealer, DecisionKinds
<1>2. InStep /\ Attended
  BY DEF InStep, Attended
<1>3. \A t \in Threads : CalmThread(t)
  BY DEF CalmThread, DecisionKinds
<1>. QED BY <1>1, <1>2, <1>3 DEF Calm

-----------------------------------------------------------------------------
(* Theorems *)

LEMMA InitIInv == Init => IInv
<1>. SUFFICES ASSUME Init PROVE IInv
  OBVIOUS
<1>. USE ConstantsAssumption
<1>1. TypeOK
  BY DEF Init, TypeOK, NoHead, NoOp, Nothing, Locations, Kinds, Verdicts
<1>2. Shape
  BY DEF Init, Shape, ShapeOf, NoOp, DecisionKinds, OutcomeKinds, Appending, Verifying
<1>3. SealedIn(ledger, Len(ledger)) = {} /\ SealedOutcomesIn(ledger, Len(ledger)) = {}
  BY DEF Init, SealedIn, SealedOutcomesIn
<1>4. Honest
  BY <1>3 DEF Init, Honest, HonestThread, NothingInvented, NoOp, Appending
<1>5. Looking
  BY DEF Init, Looking, LookingThread, Verified, Verifying
<1>6. Holding /\ Distinct
  BY DEF Init, Holding, HoldingThread, Distinct, NoOp, OutcomeKinds
<1>. QED BY <1>1, <1>2, <1>4, <1>5, <1>6 DEF IInv

LEMMA NextIInv == IInv /\ [Next]_vars => IInv'
BY TypeNext, ShapeNext, HonestNext, LookingNext, HoldingNext, DistinctNext DEF IInv

LEMMA Invariance == Spec => []IInv
<1>. QED BY InitIInv, NextIInv, PTL DEF Spec

\* Every variable keeps its type, for every set of threads and processes and
\* whatever fails (audit.py and S2PScoreAuditWriter).
THEOREM TypeCorrect == Spec => []TypeOK
<1>1. IInv => TypeOK
  BY DEF IInv
<1>. QED BY <1>1, Invariance, PTL

\* The ledger never seals a decision or an outcome that was not stored first
\* (record_decision and record_outcome run after the write they seal).
THEOREM LedgerIsHonest == Spec => []NothingInvented
<1>1. IInv => NothingInvented
  BY DEF IInv, Honest
<1>. QED BY <1>1, Invariance, PTL

\* verify_chain never certifies a store that held an unsealed decision when
\* the verification began, with any number of processes, failures and crashes.
THEOREM DecisionsAreCertified == Spec => []DecisionsCertified
<1>1. IInv => DecisionsCertified
  BY DEF IInv, Looking, LookingThread, DecisionsCertified
<1>. QED BY <1>1, Invariance, PTL

\* In a single worker process verify_chain never certifies an outcome that was
\* committed without its sealed entry: the marker, or the unsealed decision it
\* belongs to, keeps the verification from succeeding.
THEOREM OutcomesAreCertified == ASSUME SingleProcess PROVE Spec => []OutcomesCertified
<1>. DEFINE SInv == IInv /\ Guarded /\ Watching
<1>1. Init => SInv
  BY InitIInv DEF Init, Guarded, GuardedThread, Watching, WatchingThread, Verified, Verifying
<1>2. SInv /\ [Next]_vars => SInv'
  BY SingleProcess, NextIInv, GuardedNext, WatchingNext DEF IInv
<1>3. SInv => OutcomesCertified
  BY DEF Watching, WatchingThread, OutcomesCertified
<1>. QED BY <1>1, <1>2, <1>3, PTL DEF Spec

\* A chain found broken while no append is under way never verifies again, with
\* any number of processes, failures and crashes: an append that could repair it
\* would need an index that was given already, or a head record nobody is left
\* to save.
THEOREM BrokenStaysBroken == Spec => BrokenForever
<1>1. Init => Linked
  BY DEF Init, Linked, Indexed, AppendThread, NoHead
<1>2. IInv /\ Linked /\ [Next]_vars => Linked'
  BY LinkedNext DEF IInv
<1>3. IInv /\ Linked /\ Linked' /\ Ruined /\ [Next]_vars => Ruined'
  BY RuinedStays DEF IInv
<1>4. Broken => Ruined
  BY DEF Ruined
<1>5. IInv /\ Ruined => ~ChainOK(ledger, Len(ledger), head)
  BY DEF Ruined, Broken, RowsOK, ChainOK
<1>. QED BY <1>1, <1>2, <1>3, <1>4, <1>5, Invariance, PTL DEF Spec, BrokenForever

\* In a single worker process without failures verify_chain never reports
\* tampering: the ledger lock keeps a verifier out of the window between a row
\* and its head record, and requests that run side by side never break the chain.
THEOREM NoFalseAlarm == ASSUME SingleProcess, ~Faults PROVE Spec => []NoFalseTamperReport
<1>1. Init => IInv /\ Calm
  BY InitIInv, InitiallyCalm
<1>2. IInv /\ Calm /\ [Next]_vars => (IInv /\ Calm)'
  BY NextIInv, CalmStays, SingleProcess, ~Faults
<1>3. IInv /\ Calm => NoFalseTamperReport
  BY DEF Calm, CalmThread, NoFalseTamperReport
<1>. QED BY <1>1, <1>2, <1>3, PTL DEF Spec

\* Then, whenever no call is under way, every decision and outcome is sealed, no
\* marker is left and the chain verifies.
THEOREM SealedWhenQuiet == ASSUME SingleProcess, ~Faults PROVE Spec => []QuietMeansSealed
<1>1. Init => IInv /\ Calm
  BY InitIInv, InitiallyCalm
<1>2. IInv /\ Calm /\ [Next]_vars => (IInv /\ Calm)'
  BY NextIInv, CalmStays, SingleProcess, ~Faults
<1>3. IInv /\ Calm => QuietMeansSealed
  <2>. SUFFICES ASSUME IInv, Calm, \A t \in Threads : pc[t] = "idle"
                PROVE  /\ markers = {}
                       /\ decisions = SealedIn(ledger, Len(ledger))
                       /\ outcomes = SealedOutcomesIn(ledger, Len(ledger))
                       /\ ChainOK(ledger, Len(ledger), head)
    BY DEF QuietMeansSealed
  <2>1. \A t \in Threads : op[t].kind = "none" /\ ~AboutToSeal(t)
    BY DEF IInv, Shape, ShapeOf, AboutToSeal
  <2>2. markers = {} /\ decisions \subseteq SealedIn(ledger, Len(ledger))
        /\ outcomes \subseteq SealedOutcomesIn(ledger, Len(ledger))
    BY <2>1 DEF Calm, Attended, OutcomeKinds
  <2>3. NothingInvented
    BY DEF IInv, Honest
  <2>4. ChainOK(ledger, Len(ledger), head)
    BY InStepVerifies DEF IInv, Calm, AppendUnderWay
  <2>. QED BY <2>2, <2>3, <2>4 DEF NothingInvented
<1>. QED BY <1>1, <1>2, <1>3, PTL DEF Spec, Calm

===============================================================================
