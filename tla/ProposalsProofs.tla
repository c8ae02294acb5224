---------------------------- MODULE ProposalsProofs ----------------------------
(***************************************************************************)
(* Machine-checked proofs about Proposals, for any number of threads,      *)
(* decisions and proposals, with failures and crashes: the service         *)
(* implements ProposalLifecycle, a learn request leaves no decision with   *)
(* only open proposals, and a resolution lacks its outcome only when it    *)
(* was interrupted.                                                        *)
(***************************************************************************)
EXTENDS Proposals, TLAPS

USE DEF storeVars, graphVars, lockVars, historyVars, ProposalIds, NoRecord, Recorded, Of

-----------------------------------------------------------------------------
(* The inductive invariant *)

\* The locations of a learn request; it resolves like the others.
Looking == {"index", "look", "scan", "backfill"}
Resolving == {"enter", "save", "saveIndex", "link"}

\* What the graph's records say of themselves and of one another.
Stored ==
    /\ \A p \in ProposalIds : Recorded(p) =>
          /\ p <= created
          /\ record[p].outcome # None => record[p].outcome = record[p].status
    /\ \A d \in Decisions : index[d] # None => index[d] \in Of(d)

\* A creator has a number of its own, and creates what it indexes.
Creators ==
    \A t \in Threads :
        /\ pc[t] \in {"create", "createIndex"} =>
              op[t].p \in 1..created /\ op[t].d \in Decisions /\ ~op[t].learn
        /\ pc[t] = "create" =>
              /\ ~Recorded(op[t].p)
              /\ \A u \in Threads : pc[u] = "create" /\ op[u].p = op[t].p => u = t
        /\ pc[t] = "createIndex" => op[t].p \in Of(op[t].d)

\* A resolver under the lock has the proposal to itself.
Resolvers ==
    \A t \in Threads :
        /\ pc[t] \in Resolving => op[t].p \in ProposalIds /\ op[t].verdict \in Verdicts
        /\ pc[t] \in Resolving \ {"enter"} => Recorded(op[t].p) /\ record[op[t].p].outcome = None
        /\ pc[t] = "save" => record[op[t].p].status = "proposed"
        /\ pc[t] \in Half => record[op[t].p].status = op[t].verdict

\* A learn request is about a learned decision and a proposal of that decision.
Learners ==
    \A t \in Threads :
        /\ pc[t] = "idle" => ~op[t].learn
        /\ pc[t] \in Looking \cup {"done"} => op[t].learn
        /\ op[t].learn =>
              /\ op[t].d \in Decisions /\ learned[op[t].d] > 0 /\ op[t].verdict \in Verdicts
              /\ pc[t] \in {"look", "backfill"} \cup Resolving => op[t].p \in Of(op[t].d)
              /\ pc[t] = "backfill" /\ op[t].seen # "proposed" => record[op[t].p].status \in Verdicts

IInv ==
    /\ TypeOK /\ Stored /\ Creators /\ Resolvers /\ Learners
    /\ ResolutionsAreVerified /\ LearnClosesProposal

-----------------------------------------------------------------------------
(* Every step keeps the invariant *)

LEMMA NoneIsNoneOfThem ==
    None \notin Records /\ None \notin Verdicts /\ None # "proposed" /\ "proposed" \notin Verdicts
  BY ConstantsAssumption DEF Records, Verdicts

\* Proposal p becomes r, and no other proposal is written.
Writes(p, r) ==
    /\ p \in ProposalIds /\ r \in Records
    /\ record' \in [ProposalIds -> Records \cup {NoRecord}]
    /\ record'[p] = r /\ \A q \in ProposalIds \ {p} : record'[q] = record[q]

LEMMA CreateSaveWrites ==
    ASSUME IInv, NEW t \in Threads, CreateSave(t)
    PROVE  Writes(op[t].p, [d |-> op[t].d, status |-> "proposed", outcome |-> None])
  BY ConstantsAssumption DEF IInv, CreateSave, TypeOK, Creators, Records, Writes

LEMMA SaveResolvedWrites ==
    ASSUME IInv, NEW t \in Threads, SaveResolved(t)
    PROVE  Writes(op[t].p, [d |-> record[op[t].p].d, status |-> op[t].verdict, outcome |-> None])
<1>. DEFINE r == [d |-> record[op[t].p].d, status |-> op[t].verdict, outcome |-> None]
<1>1. /\ op[t].p \in ProposalIds /\ record[op[t].p] \in Records /\ op[t].verdict \in Verdicts
      /\ record[op[t].p].outcome = None /\ record \in [ProposalIds -> Records \cup {NoRecord}]
  BY DEF IInv, SaveResolved, TypeOK, Resolvers, Resolving
<1>2. [record[op[t].p] EXCEPT !.status = op[t].verdict] = r
  BY <1>1 DEF Records
<1>3. record' = [record EXCEPT ![op[t].p] = r] /\ r \in Records
  BY <1>1, <1>2 DEF SaveResolved, Records
<1>. QED BY <1>1, <1>3 DEF Writes

LEMMA LinkOutcomeWrites ==
    ASSUME IInv, NEW t \in Threads, LinkOutcome(t)
    PROVE  Writes(op[t].p, [d |-> record[op[t].p].d, status |-> op[t].verdict, outcome |-> op[t].verdict])
<1>. DEFINE r == [d |-> record[op[t].p].d, status |-> op[t].verdict, outcome |-> op[t].verdict]
<1>1. /\ op[t].p \in ProposalIds /\ record[op[t].p] \in Records /\ op[t].verdict \in Verdicts
      /\ record[op[t].p].status = op[t].verdict /\ record \in [ProposalIds -> Records \cup {NoRecord}]
  BY DEF IInv, LinkOutcome, TypeOK, Resolvers, Resolving, Half
<1>2. [record[op[t].p] EXCEPT !.outcome = op[t].verdict] = r
  BY <1>1 DEF Records
<1>3. record' = [record EXCEPT ![op[t].p] = r] /\ r \in Records
  BY <1>1, <1>2 DEF LinkOutcome, Records
<1>. QED BY <1>1, <1>3 DEF Writes

LEMMA LooksForDecision ==
    ASSUME IInv, NEW t \in Threads, pc[t] \in Looking
    PROVE  op[t].learn /\ op[t].d \in Decisions
  BY DEF IInv, Learners

\* A request that stops looking leaves no decision that only has open proposals
\* if its own has a resolved one, or none, or it failed.
LEMMA ClosedBy ==
    ASSUME LearnClosesProposal, NEW t \in Threads,
           UNCHANGED learned, unheard \subseteq unheard', late \subseteq late',
           \A p \in ProposalIds : Recorded(p) =>
              /\ record'[p] # NoRecord /\ record'[p].d = record[p].d
              /\ record[p].status \in Verdicts => record'[p].status \in Verdicts,
           \A p \in ProposalIds : record'[p] # NoRecord =>
              Recorded(p) \/ p \in late' \/ ~(learned[record'[p].d] > 0),
           \A u \in Threads \ {t} : pc'[u] = pc[u] /\ op'[u] = op[u],
           \/ op'[t].learn /\ op'[t].d = op[t].d /\ pc'[t] # "done"
           \/ ~op[t].learn \/ pc[t] = "done" \/ op[t].d \in unheard'
           \/ Of(op[t].d) = {} \/ \E p \in Of(op[t].d) : record[p].status \in Verdicts
    PROVE  LearnClosesProposal'
<1>. SUFFICES ASSUME NEW d \in Decisions, learned[d] > 0, d \notin unheard',
                     \A u \in Threads : ~(op'[u].learn /\ op'[u].d = d /\ pc'[u] # "done"),
                     NEW q \in ProposalIds, record'[q] # NoRecord, record'[q].d = d, q \notin late'
              PROVE  \E p \in ProposalIds : record'[p] # NoRecord /\ record'[p].d = d /\ record'[p].status \in Verdicts
  BY DEF LearnClosesProposal, Learning
<1>1. q \in Of(d) /\ ~(Of(d) \subseteq late) /\ d \notin unheard
  OBVIOUS
<1>2. \E p \in Of(d) : record[p].status \in Verdicts
  <2>1. CASE op[t].learn /\ op[t].d = d /\ pc[t] # "done"
    BY <1>1, <2>1
  <2>2. CASE ~(op[t].learn /\ op[t].d = d /\ pc[t] # "done")
    <3>1. ~Learning(d)
      BY <2>2 DEF Learning
    <3>. QED BY <1>1, <3>1 DEF LearnClosesProposal
  <2>. QED BY <2>1, <2>2
<1>. QED BY <1>2

LEMMA Initially == Init => IInv
<1>. USE ConstantsAssumption DEF Init
<1>. NoOp \in Ops /\ NoOp.learn = FALSE
  BY DEF NoOp, OpOf, Ops
<1>1. Init => TypeOK
  BY DEF TypeOK, Locations, StoreCalls, UnderLock
<1>2. Init => Stored /\ Creators /\ Resolvers /\ Learners
  BY DEF Stored, Creators, Resolvers, Learners, Looking, Resolving, Half
<1>3. Init => ResolutionsAreVerified /\ LearnClosesProposal
  BY DEF ResolutionsAreVerified, LearnClosesProposal
<1>. QED BY <1>1, <1>2, <1>3 DEF IInv

LEMMA ScoreKeepsInvariant ==
    ASSUME IInv, NEW t \in Threads, NEW d_1 \in Decisions, Score(t, d_1)
    PROVE  IInv'
<1>. USE ConstantsAssumption, NoneIsNoneOfThem DEF IInv, Score, BeginCreate, OpOf, NoOp, Goto
<1>1. TypeOK'
  BY DEF TypeOK, Records, Ops, Locations, StoreCalls, UnderLock, Verdicts, Creators, Resolvers, Learners, Looking, Resolving, Half
<1>2. Stored'
  BY DEF Stored, TypeOK, Records, Ops, Creators, Resolvers, Learners
<1>3. Creators'
  BY DEF Creators, TypeOK, Stored, Records, Ops, UnderLock
<1>4. Resolvers'
  BY DEF Resolvers, TypeOK, Stored, Records, Ops, Resolving, Half, UnderLock, Creators
<1>5. Learners'
  BY DEF Learners, TypeOK, Records, Ops, Looking, Resolving, Verdicts
<1>6. ResolutionsAreVerified'
  BY DEF ResolutionsAreVerified, TypeOK, Records, Ops, Half, Verdicts, Resolvers
<1>7. LearnClosesProposal'
  BY DEF LearnClosesProposal, Learning, TypeOK, Records, Ops, Verdicts, Learners
<1>. QED BY <1>1, <1>2, <1>3, <1>4, <1>5, <1>6, <1>7

LEMMA PostKeepsInvariant ==
    ASSUME IInv, NEW t \in Threads, NEW d_1 \in Decisions, Post(t, d_1)
    PROVE  IInv'
<1>. USE ConstantsAssumption, NoneIsNoneOfThem DEF IInv, Post, BeginCreate, OpOf, NoOp, Goto
<1>1. TypeOK'
  BY DEF TypeOK, Records, Ops, Locations, StoreCalls, UnderLock, Verdicts, Creators, Resolvers, Learners, Looking, Resolving, Half
<1>2. Stored'
  BY DEF Stored, TypeOK, Records, Ops, Creators, Resolvers, Learners
<1>3. Creators'
  BY DEF Creators, TypeOK, Stored, Records, Ops, UnderLock
<1>4. Resolvers'
  BY DEF Resolvers, TypeOK, Stored, Records, Ops, Resolving, Half, UnderLock, Creators
<1>5. Learners'
  BY DEF Learners, TypeOK, Records, Ops, Looking, Resolving, Verdicts
<1>6. ResolutionsAreVerified'
  BY DEF ResolutionsAreVerified, TypeOK, Records, Ops, Half, Verdicts, Resolvers
<1>7. LearnClosesProposal'
  BY DEF LearnClosesProposal, Learning, TypeOK, Records, Ops, Verdicts, Learners
<1>. QED BY <1>1, <1>2, <1>3, <1>4, <1>5, <1>6, <1>7

\* A proposal recorded after its decision was learned is late.
LEMMA CreateSaveKeepsInvariant ==
    ASSUME IInv, NEW t \in Threads, CreateSave(t)
    PROVE  IInv'
<1>. USE ConstantsAssumption, NoneIsNoneOfThem
<1>1. /\ pc[t] = "create" /\ lock = None /\ lock' = t /\ pc' = [pc EXCEPT ![t] = "createIndex"]
      /\ UNCHANGED <<index, scored, learned, created, domain, op, unheard, cut>>
      /\ late' = IF learned[op[t].d] > 0 THEN late \cup {op[t].p} ELSE late
  BY DEF CreateSave, Goto
<1>2. /\ op[t].p \in 1..created /\ op[t].p \in ProposalIds /\ op[t].d \in Decisions
      /\ record[op[t].p] = None /\ ~op[t].learn
      /\ \A u \in Threads \ {t} : pc[u] = "create" => op[u].p # op[t].p
  BY <1>1 DEF IInv, TypeOK, Creators
<1>3. /\ pc'[t] = "createIndex" /\ \A u \in Threads \ {t} : pc'[u] = pc[u]
      /\ pc \in [Threads -> Locations] /\ pc' \in [Threads -> Locations]
  BY <1>1 DEF IInv, TypeOK, Locations, StoreCalls
<1>4. /\ record' \in [ProposalIds -> Records \cup {NoRecord}]
      /\ record'[op[t].p] # None /\ record'[op[t].p].d = op[t].d
      /\ record'[op[t].p].status = "proposed" /\ record'[op[t].p].outcome = None
      /\ \A p \in ProposalIds \ {op[t].p} : record'[p] = record[p]
  <2>1. Writes(op[t].p, [d |-> op[t].d, status |-> "proposed", outcome |-> None])
    BY CreateSaveWrites
  <2>. QED BY <2>1 DEF Writes
<1>5. \A p \in ProposalIds : Recorded(p) => record'[p] = record[p]
  BY <1>2, <1>4
<1>6. TypeOK'
  <2>1. late' \subseteq ProposalIds
    BY <1>1, <1>2 DEF IInv, TypeOK
  <2>2. \A u \in Threads : (pc'[u] \in UnderLock <=> lock' = u) /\ (op'[u].learn <=> domain' = u)
    BY <1>1, <1>3 DEF IInv, TypeOK, UnderLock
  <2>. QED BY <1>1, <1>3, <1>4, <2>1, <2>2 DEF IInv, TypeOK
<1>7. Stored'
  BY <1>1, <1>2, <1>4, <1>5 DEF IInv, Stored
<1>8. Creators'
  <2>1. \A u \in Threads :
           /\ pc'[u] \in {"create", "createIndex"} => pc[u] \in {"create", "createIndex"}
           /\ pc'[u] = "create" => pc[u] = "create"
           /\ pc'[u] = "createIndex" => pc[u] = "createIndex" \/ u = t
    BY <1>1, <1>3
  <2>2. \A u \in Threads : pc'[u] \in {"create", "createIndex"} =>
           op'[u].p \in 1..created /\ op'[u].d \in Decisions /\ ~op'[u].learn
    BY <2>1, <1>1, <1>2 DEF IInv, Creators
  <2>3. \A u \in Threads : pc'[u] = "create" =>
           /\ record'[op'[u].p] = NoRecord
           /\ \A w \in Threads : pc'[w] = "create" /\ op'[w].p = op'[u].p => w = u
    BY <2>1, <1>1, <1>2, <1>3, <1>4 DEF IInv, Creators, TypeOK
  <2>4. \A u \in Threads : pc'[u] = "createIndex" =>
           op'[u].p \in ProposalIds /\ record'[op'[u].p] # NoRecord /\ record'[op'[u].p].d = op'[u].d
    BY <2>1, <1>1, <1>2, <1>4, <1>5 DEF IInv, Creators
  <2>. QED BY <1>1, <2>2, <2>3, <2>4 DEF Creators
<1>9. Resolvers'
  BY <1>1, <1>3, <1>5 DEF IInv, Resolvers, Resolving, Half
<1>10. Learners'
  BY <1>1, <1>2, <1>3, <1>5 DEF IInv, Learners, Looking, Resolving
<1>11. ResolutionsAreVerified'
  BY <1>1, <1>3, <1>4 DEF IInv, ResolutionsAreVerified, Half
<1>12. LearnClosesProposal'
  BY <1>1, <1>2, <1>3, <1>4, <1>5, ClosedBy DEF IInv
<1>. QED BY <1>6, <1>7, <1>8, <1>9, <1>10, <1>11, <1>12 DEF IInv

LEMMA CreateIndexKeepsInvariant ==
    ASSUME IInv, NEW t \in Threads, CreateIndex(t)
    PROVE  IInv'
<1>. USE ConstantsAssumption, NoneIsNoneOfThem DEF IInv, CreateIndex, Leave, OpOf, NoOp, Goto
<1>1. TypeOK'
  BY DEF TypeOK, Records, Ops, Locations, StoreCalls, UnderLock, Verdicts, Creators, Resolvers, Learners, Looking, Resolving, Half
<1>2. Stored'
  BY DEF Stored, TypeOK, Records, Ops, Creators, Resolvers, Learners
<1>3. Creators'
  BY DEF Creators, TypeOK, Stored, Records, Ops, UnderLock
<1>4. Resolvers'
  BY DEF Resolvers, TypeOK, Stored, Records, Ops, Resolving, Half, UnderLock, Creators
<1>5. Learners'
  BY DEF Learners, TypeOK, Records, Ops, Looking, Resolving, Verdicts
<1>6. ResolutionsAreVerified'
  BY DEF ResolutionsAreVerified, TypeOK, Records, Ops, Half, Verdicts, Resolvers
<1>7. LearnClosesProposal'
  BY DEF LearnClosesProposal, Learning, TypeOK, Records, Ops, Verdicts, Learners, Creators
<1>. QED BY <1>1, <1>2, <1>3, <1>4, <1>5, <1>6, <1>7

LEMMA AskKeepsInvariant ==
    ASSUME IInv, NEW t \in Threads, NEW p_1 \in ProposalIds, NEW v_1 \in Verdicts, Ask(t, p_1, v_1)
    PROVE  IInv'
<1>. USE ConstantsAssumption, NoneIsNoneOfThem DEF IInv, Ask, OpOf, NoOp, Goto
<1>1. TypeOK'
  BY DEF TypeOK, Records, Ops, Locations, StoreCalls, UnderLock, Verdicts, Creators, Resolvers, Learners, Looking, Resolving, Half
<1>2. Stored'
  BY DEF Stored, TypeOK, Records, Ops, Creators, Resolvers, Learners
<1>3. Creators'
  BY DEF Creators, TypeOK, Stored, Records, Ops, UnderLock
<1>4. Resolvers'
  BY DEF Resolvers, TypeOK, Stored, Records, Ops, Resolving, Half, UnderLock, Creators
<1>5. Learners'
  BY DEF Learners, TypeOK, Records, Ops, Looking, Resolving, Verdicts
<1>6. ResolutionsAreVerified'
  BY DEF ResolutionsAreVerified, TypeOK, Records, Ops, Half, Verdicts, Resolvers
<1>7. LearnClosesProposal'
  BY DEF LearnClosesProposal, Learning, TypeOK, Records, Ops, Verdicts, Learners
<1>. QED BY <1>1, <1>2, <1>3, <1>4, <1>5, <1>6, <1>7

LEMMA EnterKeepsInvariant ==
    ASSUME IInv, NEW t \in Threads, Enter(t)
    PROVE  IInv'
<1>. USE ConstantsAssumption, NoneIsNoneOfThem DEF IInv, Enter, Resolvable, Goto
<1>1. TypeOK'
  BY DEF TypeOK, Records, Ops, Locations, StoreCalls, UnderLock, Verdicts, Creators, Resolvers, Learners, Looking, Resolving, Half
<1>2. Stored'
  BY DEF Stored, TypeOK, Records, Ops, Creators, Resolvers, Learners
<1>3. Creators'
  BY DEF Creators, TypeOK, Stored, Records, Ops, UnderLock
<1>4. Resolvers'
  BY DEF Resolvers, TypeOK, Stored, Records, Ops, Resolving, Half, UnderLock, Creators
<1>5. Learners'
  BY DEF Learners, TypeOK, Records, Ops, Looking, Resolving, Verdicts
<1>6. ResolutionsAreVerified'
  BY DEF ResolutionsAreVerified, TypeOK, Records, Ops, Half, Verdicts, Resolvers
<1>7. LearnClosesProposal'
  BY DEF LearnClosesProposal, Learning, TypeOK, Records, Ops, Verdicts, Learners
<1>. QED BY <1>1, <1>2, <1>3, <1>4, <1>5, <1>6, <1>7

\* A request whose proposal cannot be resolved: if it is a learn request, then
\* because somebody else has resolved it.
LEMMA ReturnKeepsInvariant ==
    ASSUME IInv, NEW t \in Threads, Return(t)
    PROVE  IInv'
<1>. USE ConstantsAssumption, NoneIsNoneOfThem
<1>1. /\ pc[t] = "enter" /\ lock = None /\ op[t].p \in ProposalIds /\ ~Resolvable(op[t].p)
      /\ UNCHANGED <<record, index, scored, learned, created, late, unheard, cut>>
  BY DEF IInv, Return, Resolvers, Resolving
<1>2. op[t].learn <=> domain = t
  BY DEF IInv, TypeOK
<1>3. /\ op' \in [Threads -> Ops] /\ pc' \in [Threads -> Locations] /\ lock' = None
      /\ \/ pc'[t] = "done" /\ op'[t] = op[t] /\ op[t].learn
         \/ pc'[t] = "idle" /\ ~op'[t].learn
      /\ \A u \in Threads \ {t} : pc'[u] = pc[u] /\ op'[u] = op[u]
      /\ domain' \in Threads \cup {None}
      /\ \A u \in Threads : op'[u].learn <=> domain' = u
  <2>1. CASE op[t].learn /\ record[op[t].p].status = op[t].verdict
    BY <1>1, <1>2, <2>1 DEF Return, Goto, IInv, TypeOK, Locations, StoreCalls
  <2>2. CASE ~(op[t].learn /\ record[op[t].p].status = op[t].verdict)
    <3>1. /\ pc' = [pc EXCEPT ![t] = "idle"] /\ op' = [op EXCEPT ![t] = NoOp]
          /\ lock' = None /\ domain' = IF domain = t THEN None ELSE domain
      BY <1>1, <2>2 DEF Return, Goto, Leave
    <3>2. NoOp \in Ops /\ ~NoOp.learn
      BY DEF NoOp, OpOf, Ops
    <3>. QED BY <1>2, <3>1, <3>2 DEF IInv, TypeOK, Locations, StoreCalls
  <2>. QED BY <2>1, <2>2
<1>4. TypeOK'
  <2>1. \A u \in Threads : pc'[u] \in UnderLock <=> lock' = u
    BY <1>1, <1>3 DEF IInv, TypeOK, UnderLock
  <2>. QED BY <1>1, <1>3, <2>1 DEF IInv, TypeOK
<1>5. Stored'
  BY <1>1 DEF IInv, Stored
<1>6. Creators'
  BY <1>1, <1>3 DEF IInv, Creators
<1>7. Resolvers'
  BY <1>1, <1>3 DEF IInv, Resolvers, Resolving, Half
<1>8. Learners'
  BY <1>1, <1>3 DEF IInv, Learners, Looking, Resolving
<1>9. ResolutionsAreVerified'
  BY <1>1, <1>3 DEF IInv, ResolutionsAreVerified, Half
<1>10. LearnClosesProposal'
  <2>1. op[t].learn => op[t].p \in Of(op[t].d)
    BY <1>1 DEF IInv, Learners, Resolving
  <2>2. Recorded(op[t].p) => record[op[t].p].status \in Verdicts
    BY <1>1 DEF IInv, Resolvable, TypeOK, Records
  <2>3. \/ op'[t].learn /\ op'[t].d = op[t].d /\ pc'[t] # "done"
        \/ ~op[t].learn \/ pc[t] = "done" \/ op[t].d \in unheard'
        \/ Of(op[t].d) = {} \/ \E p \in Of(op[t].d) : record[p].status \in Verdicts
    BY <2>1, <2>2
  <2>. QED BY <1>1, <1>3, <2>3, ClosedBy DEF IInv
<1>. QED BY <1>4, <1>5, <1>6, <1>7, <1>8, <1>9, <1>10 DEF IInv

\* The one step that resolves a proposal.
LEMMA SaveResolvedKeepsInvariant ==
    ASSUME IInv, NEW t \in Threads, SaveResolved(t)
    PROVE  IInv'
<1>. USE ConstantsAssumption, NoneIsNoneOfThem
<1>1. /\ pc[t] = "save" /\ pc' = [pc EXCEPT ![t] = "saveIndex"]
      /\ UNCHANGED <<index, scored, learned, created, lock, domain, op, late, unheard, cut>>
  BY DEF SaveResolved, Goto
<1>2. /\ op[t].p \in ProposalIds /\ op[t].verdict \in Verdicts
      /\ Recorded(op[t].p) /\ record[op[t].p].outcome = None /\ record[op[t].p].status = "proposed"
  BY <1>1 DEF IInv, Resolvers, Resolving
<1>3. /\ pc'[t] = "saveIndex" /\ \A u \in Threads \ {t} : pc'[u] = pc[u]
      /\ pc \in [Threads -> Locations] /\ pc' \in [Threads -> Locations]
  BY <1>1 DEF IInv, TypeOK, Locations, StoreCalls
<1>4. /\ record' \in [ProposalIds -> Records \cup {NoRecord}]
      /\ record'[op[t].p] # None /\ record'[op[t].p].d = record[op[t].p].d
      /\ record'[op[t].p].status = op[t].verdict /\ record'[op[t].p].outcome = None
      /\ \A p \in ProposalIds \ {op[t].p} : record'[p] = record[p]
  <2>1. Writes(op[t].p, [d |-> record[op[t].p].d, status |-> op[t].verdict, outcome |-> None])
    BY SaveResolvedWrites
  <2>. QED BY <2>1 DEF Writes
<1>5. \A p \in ProposalIds :
          /\ Recorded(p) <=> record'[p] # NoRecord
          /\ Recorded(p) => record'[p].d = record[p].d /\ record'[p].outcome = record[p].outcome
          /\ record[p].status \in Verdicts => record'[p].status = record[p].status
  BY <1>2, <1>4
<1>6. \A u \in Threads \ {t} : pc[u] \notin {"save", "saveIndex", "link"}
  BY <1>1 DEF IInv, TypeOK, UnderLock
<1>7. TypeOK'
  <2>1. \A u \in Threads : (pc'[u] \in UnderLock <=> lock' = u) /\ (op'[u].learn <=> domain' = u)
    BY <1>1, <1>3 DEF IInv, TypeOK, UnderLock
  <2>. QED BY <1>1, <1>3, <1>4, <2>1 DEF IInv, TypeOK
<1>8. Stored'
  BY <1>1, <1>2, <1>4, <1>5 DEF IInv, Stored
<1>9. Creators'
  <2>1. \A u \in Threads :
           /\ pc'[u] \in {"create", "createIndex"} => pc[u] \in {"create", "createIndex"}
           /\ pc'[u] = "create" => pc[u] = "create"
           /\ pc'[u] = "createIndex" => pc[u] = "createIndex"
    BY <1>1, <1>3
  <2>2. \A u \in Threads : pc'[u] \in {"create", "createIndex"} =>
           op'[u].p \in 1..created /\ op'[u].d \in Decisions /\ ~op'[u].learn
    BY <2>1, <1>1 DEF IInv, Creators
  <2>3. \A u \in Threads : pc'[u] = "create" =>
           /\ record'[op'[u].p] = NoRecord
           /\ \A w \in Threads : pc'[w] = "create" /\ op'[w].p = op'[u].p => w = u
    BY <2>1, <1>1, <1>3, <1>5 DEF IInv, Creators, TypeOK
  <2>4. \A u \in Threads : pc'[u] = "createIndex" =>
           op'[u].p \in ProposalIds /\ record'[op'[u].p] # NoRecord /\ record'[op'[u].p].d = op'[u].d
    BY <2>1, <1>1, <1>5 DEF IInv, Creators
  <2>. QED BY <1>1, <2>2, <2>3, <2>4 DEF Creators
<1>10. Resolvers'
  BY <1>1, <1>2, <1>3, <1>4, <1>5, <1>6 DEF IInv, Resolvers, Resolving, Half
<1>11. Learners'
  BY <1>1, <1>3, <1>5 DEF IInv, Learners, Looking, Resolving
<1>12. ResolutionsAreVerified'
  BY <1>1, <1>3, <1>4 DEF IInv, ResolutionsAreVerified, Half
<1>13. LearnClosesProposal'
  BY <1>1, <1>3, <1>5, ClosedBy DEF IInv
<1>. QED BY <1>7, <1>8, <1>9, <1>10, <1>11, <1>12, <1>13 DEF IInv

LEMMA SaveIndexKeepsInvariant ==
    ASSUME IInv, NEW t \in Threads, SaveIndex(t)
    PROVE  IInv'
<1>. USE ConstantsAssumption, NoneIsNoneOfThem DEF IInv, SaveIndex, Goto
<1>1. TypeOK'
  BY DEF TypeOK, Records, Ops, Locations, StoreCalls, UnderLock, Verdicts, Creators, Resolvers, Learners, Looking, Resolving, Half
<1>2. Stored'
  BY DEF Stored, TypeOK, Records, Ops, Creators, Resolvers, Learners, Resolving, Half
<1>3. Creators'
  BY DEF Creators, TypeOK, Stored, Records, Ops, UnderLock
<1>4. Resolvers'
  BY DEF Resolvers, TypeOK, Stored, Records, Ops, Resolving, Half, UnderLock, Creators
<1>5. Learners'
  BY DEF Learners, TypeOK, Records, Ops, Looking, Resolving, Verdicts
<1>6. ResolutionsAreVerified'
  BY DEF ResolutionsAreVerified, TypeOK, Records, Ops, Half, Verdicts, Resolvers
<1>7. LearnClosesProposal'
  BY DEF LearnClosesProposal, Learning, TypeOK, Records, Ops, Verdicts, Learners
<1>. QED BY <1>1, <1>2, <1>3, <1>4, <1>5, <1>6, <1>7

\* The outcome follows the resolution, and the request lets go of the lock.
LEMMA LinkOutcomeKeepsInvariant ==
    ASSUME IInv, NEW t \in Threads, LinkOutcome(t)
    PROVE  IInv'
<1>. USE ConstantsAssumption, NoneIsNoneOfThem
<1>1. /\ pc[t] = "link"
      /\ UNCHANGED <<index, scored, learned, created, late, unheard, cut>>
  BY DEF LinkOutcome
<1>2. /\ op[t].p \in ProposalIds /\ op[t].verdict \in Verdicts
      /\ Recorded(op[t].p) /\ record[op[t].p].outcome = None /\ record[op[t].p].status = op[t].verdict
  BY <1>1 DEF IInv, Resolvers, Resolving, Half
<1>3. lock = t /\ (op[t].learn <=> domain = t)
  BY <1>1 DEF IInv, TypeOK, UnderLock
<1>4. /\ op' \in [Threads -> Ops] /\ pc' \in [Threads -> Locations] /\ lock' = None
      /\ pc'[t] \in {"idle", "done"} /\ (op[t].learn => pc'[t] = "done")
      /\ pc'[t] = "done" => op'[t] = op[t] /\ op[t].learn
      /\ pc'[t] = "idle" => ~op'[t].learn
      /\ \A u \in Threads \ {t} : pc'[u] = pc[u] /\ op'[u] = op[u]
      /\ domain' \in Threads \cup {None}
      /\ \A u \in Threads : op'[u].learn <=> domain' = u
  <2>1. CASE op[t].learn
    BY <1>3, <2>1 DEF LinkOutcome, Goto, IInv, TypeOK, Locations, StoreCalls
  <2>2. CASE ~op[t].learn
    <3>1. /\ pc' = [pc EXCEPT ![t] = "idle"] /\ op' = [op EXCEPT ![t] = NoOp]
          /\ lock' = None /\ domain' = domain
      BY <1>3, <2>2 DEF LinkOutcome, Goto, Leave
    <3>2. NoOp \in Ops /\ ~NoOp.learn
      BY DEF NoOp, OpOf, Ops
    <3>. QED BY <1>3, <2>2, <3>1, <3>2 DEF IInv, TypeOK, Locations, StoreCalls
  <2>. QED BY <2>1, <2>2
<1>5. /\ record' \in [ProposalIds -> Records \cup {NoRecord}]
      /\ record'[op[t].p] # None /\ record'[op[t].p].d = record[op[t].p].d
      /\ record'[op[t].p].status = op[t].verdict /\ record'[op[t].p].outcome = op[t].verdict
      /\ \A p \in ProposalIds \ {op[t].p} : record'[p] = record[p]
  <2>1. Writes(op[t].p, [d |-> record[op[t].p].d, status |-> op[t].verdict, outcome |-> op[t].verdict])
    BY LinkOutcomeWrites
  <2>. QED BY <2>1 DEF Writes
<1>6. \A p \in ProposalIds :
          /\ Recorded(p) <=> record'[p] # NoRecord
          /\ Recorded(p) => record'[p].d = record[p].d /\ record'[p].status = record[p].status
  BY <1>2, <1>5
<1>7. \A u \in Threads \ {t} : pc[u] \notin UnderLock
  BY <1>3 DEF IInv, TypeOK
<1>8. TypeOK'
  <2>1. \A u \in Threads : pc'[u] \in UnderLock <=> lock' = u
    BY <1>4, <1>7 DEF UnderLock
  <2>. QED BY <1>1, <1>4, <1>5, <2>1 DEF IInv, TypeOK
<1>9. Stored'
  BY <1>1, <1>2, <1>5, <1>6 DEF IInv, Stored
<1>10. Creators'
  <2>1. \A u \in Threads :
           /\ pc'[u] \in {"create", "createIndex"} => pc[u] \in {"create", "createIndex"} /\ u # t
           /\ pc'[u] = "create" => pc[u] = "create"
           /\ pc'[u] = "createIndex" => pc[u] = "createIndex"
    BY <1>1, <1>4
  <2>2. \A u \in Threads : pc'[u] \in {"create", "createIndex"} =>
           op'[u].p \in 1..created /\ op'[u].d \in Decisions /\ ~op'[u].learn
    BY <2>1, <1>1, <1>4 DEF IInv, Creators
  <2>3. \A u \in Threads : pc'[u] = "create" =>
           /\ record'[op'[u].p] = NoRecord
           /\ \A w \in Threads : pc'[w] = "create" /\ op'[w].p = op'[u].p => w = u
    BY <2>1, <1>1, <1>4, <1>6 DEF IInv, Creators, TypeOK
  <2>4. \A u \in Threads : pc'[u] = "createIndex" =>
           op'[u].p \in ProposalIds /\ record'[op'[u].p] # NoRecord /\ record'[op'[u].p].d = op'[u].d
    BY <2>1, <1>1, <1>4, <1>6 DEF IInv, Creators
  <2>. QED BY <1>1, <2>2, <2>3, <2>4 DEF Creators
<1>11. Resolvers'
  BY <1>4, <1>6, <1>7 DEF IInv, Resolvers, Resolving, Half, UnderLock
<1>12. Learners'
  BY <1>1, <1>4, <1>6 DEF IInv, Learners, Looking, Resolving
<1>13. ResolutionsAreVerified'
  BY <1>1, <1>2, <1>4, <1>5 DEF IInv, ResolutionsAreVerified, Half
<1>14. LearnClosesProposal'
  <2>1. op[t].learn => op[t].p \in Of(op[t].d)
    BY <1>1 DEF IInv, Learners, Resolving
  <2>2. \/ op'[t].learn /\ op'[t].d = op[t].d /\ pc'[t] # "done"
        \/ ~op[t].learn \/ pc[t] = "done" \/ op[t].d \in unheard'
        \/ Of(op[t].d) = {} \/ \E p \in Of(op[t].d) : record[p].status \in Verdicts
    BY <1>2, <2>1
  <2>. QED BY <1>1, <1>4, <1>6, <2>2, ClosedBy DEF IInv
<1>. QED BY <1>8, <1>9, <1>10, <1>11, <1>12, <1>13, <1>14 DEF IInv

\* Proposals on record by now are on time, and this request is looking.
LEMMA LearnKeepsInvariant ==
    ASSUME IInv, NEW t \in Threads, NEW d_1 \in Decisions, NEW v_1 \in Verdicts, Learn(t, d_1, v_1)
    PROVE  IInv'
<1>. USE ConstantsAssumption, NoneIsNoneOfThem DEF IInv, Learn, OpOf, NoOp, Goto
<1>1. TypeOK'
  BY DEF TypeOK, Records, Ops, Locations, StoreCalls, UnderLock, Verdicts, Creators, Resolvers, Learners, Looking, Resolving, Half
<1>2. Stored'
  BY DEF Stored, TypeOK, Records, Ops, Creators, Resolvers, Learners
<1>3. Creators'
  BY DEF Creators, TypeOK, Stored, Records, Ops, UnderLock
<1>4. Resolvers'
  BY DEF Resolvers, TypeOK, Stored, Records, Ops, Resolving, Half, UnderLock, Creators
<1>5. Learners'
  BY DEF Learners, TypeOK, Records, Ops, Looking, Resolving, Verdicts
<1>6. ResolutionsAreVerified'
  BY DEF ResolutionsAreVerified, TypeOK, Records, Ops, Half, Verdicts, Resolvers
<1>7. LearnClosesProposal'
  BY DEF LearnClosesProposal, Learning, TypeOK, Records, Ops, Verdicts, Learners
<1>. QED BY <1>1, <1>2, <1>3, <1>4, <1>5, <1>6, <1>7

LEMMA ReadIndexKeepsInvariant ==
    ASSUME IInv, NEW t \in Threads, ReadIndex(t)
    PROVE  IInv'
<1>. USE ConstantsAssumption, NoneIsNoneOfThem
<1>1. /\ pc[t] = "index"
      /\ UNCHANGED <<record, index, scored, learned, created, lock, domain, late, unheard, cut>>
  BY DEF ReadIndex
<1>2. /\ op[t].learn /\ op[t].d \in Decisions /\ op[t] \in Ops
      /\ index[op[t].d] # None => index[op[t].d] \in Of(op[t].d)
  BY <1>1, LooksForDecision DEF IInv, TypeOK, Looking, Stored
<1>3. /\ op' \in [Threads -> Ops] /\ op'[t].p = index[op[t].d] /\ op'[t].d = op[t].d
      /\ op'[t].verdict = op[t].verdict /\ op'[t].learn = op[t].learn
      /\ \A u \in Threads \ {t} : op'[u] = op[u]
  <2>. DEFINE o == [d |-> op[t].d, p |-> index[op[t].d], verdict |-> op[t].verdict,
                    learn |-> op[t].learn, seen |-> op[t].seen]
  <2>1. o \in Ops
    BY <1>2 DEF Ops
  <2>2. op[t] = [d |-> op[t].d, p |-> op[t].p, verdict |-> op[t].verdict,
                 learn |-> op[t].learn, seen |-> op[t].seen]
    BY <1>2 DEF Ops
  <2>3. [op[t] EXCEPT !.p = index[op[t].d]] = o
    BY <2>2
  <2>4. op' = [op EXCEPT ![t] = o]
    BY <2>3 DEF ReadIndex
  <2>. QED BY <2>1, <2>4 DEF IInv, TypeOK
<1>4. /\ pc' \in [Threads -> Locations] /\ \A u \in Threads \ {t} : pc'[u] = pc[u]
      /\ pc'[t] \in {"scan", "look"} /\ (pc'[t] = "look" => index[op[t].d] # None)
  BY DEF ReadIndex, Goto, IInv, TypeOK, Locations, StoreCalls
<1>5. TypeOK'
  <2>1. \A u \in Threads : (pc'[u] \in UnderLock <=> lock' = u) /\ (op'[u].learn <=> domain' = u)
    BY <1>1, <1>3, <1>4 DEF IInv, TypeOK, UnderLock
  <2>. QED BY <1>1, <1>3, <1>4, <2>1 DEF IInv, TypeOK
<1>6. Stored'
  BY <1>1 DEF IInv, Stored
<1>7. Creators'
  BY <1>1, <1>3, <1>4 DEF IInv, Creators
<1>8. Resolvers'
  BY <1>1, <1>3, <1>4 DEF IInv, Resolvers, Resolving, Half
<1>9. Learners'
  <2>1. pc'[t] = "look" => op'[t].p \in Of(op'[t].d)
    BY <1>2, <1>3, <1>4
  <2>2. op'[t].learn /\ learned[op'[t].d] > 0 /\ op'[t].verdict \in Verdicts
    BY <1>2, <1>3 DEF IInv, Learners
  <2>. QED BY <1>1, <1>2, <1>3, <1>4, <2>1, <2>2 DEF IInv, Learners, Looking, Resolving
<1>10. ResolutionsAreVerified'
  BY <1>1, <1>3, <1>4 DEF IInv, ResolutionsAreVerified, Half
<1>11. LearnClosesProposal'
  BY <1>1, <1>2, <1>3, <1>4, ClosedBy DEF IInv
<1>. QED BY <1>5, <1>6, <1>7, <1>8, <1>9, <1>10, <1>11 DEF IInv

\* The status looked at is the proposal's: resolved, or up to this request.
LEMMA LookKeepsInvariant ==
    ASSUME IInv, NEW t \in Threads, Look(t)
    PROVE  IInv'
<1>. USE ConstantsAssumption, NoneIsNoneOfThem
<1>1. /\ pc[t] = "look"
      /\ UNCHANGED <<record, index, scored, learned, created, lock, domain, op, late, unheard, cut>>
  BY DEF Look
<1>2. /\ op[t].learn /\ op[t].d \in Decisions /\ op[t].p \in Of(op[t].d)
      /\ op[t].p \in ProposalIds /\ op[t].verdict \in Verdicts
  BY <1>1, LooksForDecision DEF IInv, Looking, Learners
<1>3. /\ pc' \in [Threads -> Locations] /\ \A u \in Threads \ {t} : pc'[u] = pc[u]
      /\ pc'[t] \in {"enter", "done"} /\ (pc'[t] = "done" => record[op[t].p].status # "proposed")
  BY DEF Look, Goto, IInv, TypeOK, Locations, StoreCalls
<1>4. record[op[t].p].status \in {"proposed"} \cup Verdicts
  BY <1>2 DEF IInv, TypeOK, Records
<1>5. TypeOK'
  <2>1. \A u \in Threads : (pc'[u] \in UnderLock <=> lock' = u) /\ (op'[u].learn <=> domain' = u)
    BY <1>1, <1>3 DEF IInv, TypeOK, UnderLock
  <2>. QED BY <1>1, <1>3, <2>1 DEF IInv, TypeOK
<1>6. Stored'
  BY <1>1 DEF IInv, Stored
<1>7. Creators'
  BY <1>1, <1>3 DEF IInv, Creators
<1>8. Resolvers'
  BY <1>1, <1>2, <1>3 DEF IInv, Resolvers, Resolving, Half
<1>9. Learners'
  BY <1>1, <1>2, <1>3 DEF IInv, Learners, Looking, Resolving
<1>10. ResolutionsAreVerified'
  BY <1>1, <1>3 DEF IInv, ResolutionsAreVerified, Half
<1>11. LearnClosesProposal'
  BY <1>1, <1>2, <1>3, <1>4, ClosedBy DEF IInv
<1>. QED BY <1>5, <1>6, <1>7, <1>8, <1>9, <1>10, <1>11 DEF IInv

\* The scan takes the newest of the decision's proposals.
LEMMA ScanKeepsInvariant ==
    ASSUME IInv, NEW t \in Threads, Scan(t)
    PROVE  IInv'
<1>. USE ConstantsAssumption, NoneIsNoneOfThem
<1>1. /\ pc[t] = "scan" /\ pc' = [pc EXCEPT ![t] = "backfill"]
      /\ UNCHANGED <<record, index, scored, learned, created, lock, domain, late, unheard, cut>>
  BY DEF Scan, Goto
<1>2. op[t].learn /\ op[t].d \in Decisions /\ op[t] \in Ops
  BY <1>1, LooksForDecision DEF IInv, TypeOK, Looking
<1>3. PICK q \in ProposalIds :
           /\ q \in Of(op[t].d)
           /\ op' = [op EXCEPT ![t] = [OpOf(op[t].d, q, op[t].verdict, TRUE)
                                      EXCEPT !.seen = record[q].status]]
  BY DEF Scan, Newest
<1>4. record[q].status \in {"proposed"} \cup Verdicts
  BY <1>3 DEF IInv, TypeOK, Records
<1>5. /\ op' \in [Threads -> Ops] /\ op'[t].p = q /\ op'[t].d = op[t].d
      /\ op'[t].seen = record[q].status
      /\ op'[t].verdict = op[t].verdict /\ op'[t].learn = op[t].learn
      /\ \A u \in Threads \ {t} : op'[u] = op[u]
  <2>. DEFINE o == [d |-> op[t].d, p |-> q, verdict |-> op[t].verdict,
                    learn |-> TRUE, seen |-> record[q].status]
  <2>1. o \in Ops
    BY <1>2, <1>4 DEF Ops
  <2>2. op \in [Threads -> Ops]
    BY DEF IInv, TypeOK
  <2>3. ASSUME NEW x \in Ops, NEW y
        PROVE  [x EXCEPT !.seen = y] = [d |-> x.d, p |-> x.p, verdict |-> x.verdict, learn |-> x.learn, seen |-> y]
    BY DEF Ops
  <2>4. OpOf(op[t].d, q, op[t].verdict, TRUE) \in Ops
    BY <1>2 DEF OpOf, Ops
  <2>5. [OpOf(op[t].d, q, op[t].verdict, TRUE) EXCEPT !.seen = record[q].status] = o
    BY <2>3, <2>4 DEF OpOf
  <2>6. op' = [op EXCEPT ![t] = o]
    BY <1>3, <2>5
  <2>. QED BY <1>2, <2>1, <2>2, <2>6
<1>6. /\ pc' \in [Threads -> Locations] /\ pc'[t] = "backfill"
      /\ \A u \in Threads \ {t} : pc'[u] = pc[u]
  BY <1>1 DEF IInv, TypeOK, Locations, StoreCalls
<1>7. TypeOK'
  <2>1. \A u \in Threads : (pc'[u] \in UnderLock <=> lock' = u) /\ (op'[u].learn <=> domain' = u)
    BY <1>1, <1>5, <1>6 DEF IInv, TypeOK, UnderLock
  <2>. QED BY <1>1, <1>5, <1>6, <2>1 DEF IInv, TypeOK
<1>8. Stored'
  BY <1>1 DEF IInv, Stored
<1>9. Creators'
  BY <1>1, <1>5, <1>6 DEF IInv, Creators
<1>10. Resolvers'
  BY <1>1, <1>5, <1>6 DEF IInv, Resolvers, Resolving, Half
<1>11. Learners'
  <2>1. op'[t].learn /\ learned[op'[t].d] > 0 /\ op'[t].verdict \in Verdicts
    BY <1>1, <1>2, <1>5 DEF IInv, Learners
  <2>2. op'[t].d \in Decisions /\ op'[t].p \in Of(op'[t].d)
    BY <1>2, <1>3, <1>5
  <2>3. op'[t].seen # "proposed" => record[op'[t].p].status \in Verdicts
    BY <1>4, <1>5
  <2>. QED BY <1>1, <1>5, <1>6, <2>1, <2>2, <2>3 DEF IInv, Learners, Looking, Resolving
<1>12. ResolutionsAreVerified'
  BY <1>1, <1>5, <1>6 DEF IInv, ResolutionsAreVerified, Half
<1>13. LearnClosesProposal'
  BY <1>1, <1>2, <1>5, <1>6, ClosedBy DEF IInv
<1>. QED BY <1>7, <1>8, <1>9, <1>10, <1>11, <1>12, <1>13 DEF IInv

LEMMA ScanNothingKeepsInvariant ==
    ASSUME IInv, NEW t \in Threads, ScanNothing(t)
    PROVE  IInv'
<1>. USE ConstantsAssumption, NoneIsNoneOfThem DEF IInv, ScanNothing, Goto
<1>1. TypeOK'
  BY DEF TypeOK, Records, Ops, Locations, StoreCalls, UnderLock, Verdicts, Creators, Resolvers, Learners, Looking, Resolving, Half
<1>2. Stored'
  BY DEF Stored, TypeOK, Records, Ops, Creators, Resolvers, Learners
<1>3. Creators'
  BY DEF Creators, TypeOK, Stored, Records, Ops, UnderLock
<1>4. Resolvers'
  BY DEF Resolvers, TypeOK, Stored, Records, Ops, Resolving, Half, UnderLock, Creators
<1>5. Learners'
  BY DEF Learners, TypeOK, Records, Ops, Looking, Resolving, Verdicts
<1>6. ResolutionsAreVerified'
  BY DEF ResolutionsAreVerified, TypeOK, Records, Ops, Half, Verdicts, Resolvers
<1>7. LearnClosesProposal'
  BY DEF LearnClosesProposal, Learning, TypeOK, Records, Ops, Verdicts, Learners
<1>. QED BY <1>1, <1>2, <1>3, <1>4, <1>5, <1>6, <1>7

LEMMA BackfillKeepsInvariant ==
    ASSUME IInv, NEW t \in Threads, Backfill(t)
    PROVE  IInv'
<1>. USE ConstantsAssumption, NoneIsNoneOfThem DEF IInv, Backfill, Goto
<1>1. TypeOK'
  BY DEF TypeOK, Records, Ops, Locations, StoreCalls, UnderLock, Verdicts, Creators, Resolvers, Learners, Looking, Resolving, Half
<1>2. Stored'
  BY DEF Stored, TypeOK, Records, Ops, Creators, Resolvers, Learners, Looking
<1>3. Creators'
  BY DEF Creators, TypeOK, Stored, Records, Ops, UnderLock
<1>4. Resolvers'
  BY DEF Resolvers, TypeOK, Stored, Records, Ops, Resolving, Half, UnderLock, Creators, Learners, Looking
<1>5. Learners'
  BY DEF Learners, TypeOK, Records, Ops, Looking, Resolving, Verdicts
<1>6. ResolutionsAreVerified'
  BY DEF ResolutionsAreVerified, TypeOK, Records, Ops, Half, Verdicts, Resolvers
<1>7. LearnClosesProposal'
  <2>1. op[t].learn /\ op[t].d \in Decisions
    BY LooksForDecision DEF Looking
  <2>. QED BY <2>1, ClosedBy DEF TypeOK, Learners
<1>. QED BY <1>1, <1>2, <1>3, <1>4, <1>5, <1>6, <1>7

LEMMA LearnReturnsKeepsInvariant ==
    ASSUME IInv, NEW t \in Threads, LearnReturns(t)
    PROVE  IInv'
<1>. USE ConstantsAssumption, NoneIsNoneOfThem DEF IInv, LearnReturns, Leave, OpOf, NoOp, Goto
<1>1. TypeOK'
  BY DEF TypeOK, Records, Ops, Locations, StoreCalls, UnderLock, Verdicts, Creators, Resolvers, Learners, Looking, Resolving, Half
<1>2. Stored'
  BY DEF Stored, TypeOK, Records, Ops, Creators, Resolvers, Learners
<1>3. Creators'
  BY DEF Creators, TypeOK, Stored, Records, Ops, UnderLock
<1>4. Resolvers'
  BY DEF Resolvers, TypeOK, Stored, Records, Ops, Resolving, Half, UnderLock, Creators
<1>5. Learners'
  BY DEF Learners, TypeOK, Records, Ops, Looking, Resolving, Verdicts
<1>6. ResolutionsAreVerified'
  BY DEF ResolutionsAreVerified, TypeOK, Records, Ops, Half, Verdicts, Resolvers
<1>7. LearnClosesProposal'
  BY DEF LearnClosesProposal, Learning, TypeOK, Records, Ops, Verdicts, Learners
<1>. QED BY <1>1, <1>2, <1>3, <1>4, <1>5, <1>6, <1>7

LEMMA StoreCallFailsKeepsInvariant ==
    ASSUME IInv, NEW t \in Threads, StoreCallFails(t)
    PROVE  IInv'
<1>. USE ConstantsAssumption, NoneIsNoneOfThem DEF IInv, StoreCallFails, Interrupted, Leave, OpOf, NoOp, Goto
<1>1. TypeOK'
  BY DEF TypeOK, Records, Ops, Locations, StoreCalls, UnderLock, Verdicts, Creators, Resolvers, Learners, Looking, Resolving, Half
<1>2. Stored'
  BY DEF Stored, TypeOK, Records, Ops, Creators, Resolvers, Learners
<1>3. Creators'
  BY DEF Creators, TypeOK, Stored, Records, Ops, UnderLock
<1>4. Resolvers'
  BY DEF Resolvers, TypeOK, Stored, Records, Ops, Resolving, Half, UnderLock, Creators
<1>5. Learners'
  BY DEF Learners, TypeOK, Records, Ops, Looking, Resolving, Verdicts
<1>6. ResolutionsAreVerified'
  BY DEF ResolutionsAreVerified, TypeOK, Records, Ops, Half, Verdicts, Resolvers
<1>7. LearnClosesProposal'
  BY DEF LearnClosesProposal, Learning, TypeOK, Records, Ops, Verdicts, Learners
<1>. QED BY <1>1, <1>2, <1>3, <1>4, <1>5, <1>6, <1>7

LEMMA CrashKeepsInvariant ==
    ASSUME IInv, Crash
    PROVE  IInv'
<1>. USE ConstantsAssumption, NoneIsNoneOfThem DEF IInv, Crash, Interrupted, OpOf, NoOp
<1>1. TypeOK'
  BY DEF TypeOK, Records, Ops, Locations, StoreCalls, UnderLock, Verdicts, Creators, Resolvers, Learners, Looking, Resolving, Half
<1>2. Stored'
  BY DEF Stored, TypeOK, Records, Ops, Creators, Resolvers, Learners
<1>3. Creators'
  BY DEF Creators, TypeOK, Stored, Records, Ops, UnderLock
<1>4. Resolvers'
  BY DEF Resolvers, TypeOK, Stored, Records, Ops, Resolving, Half, UnderLock, Creators
<1>5. Learners'
  BY DEF Learners, TypeOK, Records, Ops, Looking, Resolving, Verdicts
<1>6. ResolutionsAreVerified'
  BY DEF ResolutionsAreVerified, TypeOK, Records, Ops, Half, Verdicts, Resolvers
<1>7. LearnClosesProposal'
  BY DEF LearnClosesProposal, Learning, TypeOK, Records, Ops, Verdicts, Learners
<1>. QED BY <1>1, <1>2, <1>3, <1>4, <1>5, <1>6, <1>7

LEMMA StepKeepsInvariant == IInv /\ [Next]_vars => IInv'
<1>. SUFFICES ASSUME IInv, [Next]_vars PROVE IInv'
  OBVIOUS
<1>1. ASSUME NEW t \in Threads, Begin(t) PROVE IInv'
  BY <1>1, ScoreKeepsInvariant, PostKeepsInvariant, LearnKeepsInvariant, AskKeepsInvariant
     DEF Begin
<1>2. ASSUME NEW t \in Threads, CreateStep(t) PROVE IInv'
  BY <1>2, CreateSaveKeepsInvariant, CreateIndexKeepsInvariant DEF CreateStep
<1>3. ASSUME NEW t \in Threads, ResolveStep(t) PROVE IInv'
  BY <1>3, EnterKeepsInvariant, ReturnKeepsInvariant, SaveResolvedKeepsInvariant,
     SaveIndexKeepsInvariant, LinkOutcomeKeepsInvariant
     DEF ResolveStep
<1>4. ASSUME NEW t \in Threads, LearnStep(t) PROVE IInv'
  BY <1>4, ReadIndexKeepsInvariant, LookKeepsInvariant, ScanKeepsInvariant,
     ScanNothingKeepsInvariant, BackfillKeepsInvariant, LearnReturnsKeepsInvariant
     DEF LearnStep
<1>5. ASSUME NEW t \in Threads, StoreCallFails(t) PROVE IInv'
  BY <1>5, StoreCallFailsKeepsInvariant
<1>6. CASE Crash
  BY <1>6, CrashKeepsInvariant
<1>7. CASE UNCHANGED vars
  BY <1>7 DEF vars, IInv, TypeOK, Stored, Creators, Resolvers, Learners, ResolutionsAreVerified,
              LearnClosesProposal, Learning
<1>. QED BY <1>1, <1>2, <1>3, <1>4, <1>5, <1>6, <1>7 DEF Next, Proceed

LEMMA InvariantHolds == Spec => []IInv
<1>. QED BY Initially, StepKeepsInvariant, PTL DEF Spec

-----------------------------------------------------------------------------
(* Refinement *)

LEMMA InitRefines == Init => Lifecycle!LifecycleInit
  BY DEF Init, Lifecycle!LifecycleInit, standing, verified

LEMMA StepRefines == IInv /\ [Next]_vars => [Lifecycle!LifecycleNext]_(Lifecycle!lifecycleVars)
<1>. SUFFICES ASSUME IInv, [Next]_vars
              PROVE  Lifecycle!LifecycleNext \/ UNCHANGED <<standing, verified>>
  BY DEF Lifecycle!lifecycleVars
<1>. USE ConstantsAssumption DEF IInv
<1>1. ASSUME NEW t \in Threads, CreateSave(t)
      PROVE  \E p \in ProposalIds : Lifecycle!Propose(p)
  <2>1. record[op[t].p] = None
    BY <1>1 DEF CreateSave, Creators
  <2>2. Writes(op[t].p, [d |-> op[t].d, status |-> "proposed", outcome |-> None])
    BY <1>1, CreateSaveWrites
  <2>3. standing[op[t].p] = None /\ standing' = [standing EXCEPT ![op[t].p] = "proposed"]
    <3>1. ASSUME NEW p \in ProposalIds
          PROVE  standing'[p] = IF p = op[t].p THEN "proposed" ELSE standing[p]
      BY <2>2, NoneIsNoneOfThem DEF standing, Writes
    <3>. QED BY <2>1, <2>2, <3>1 DEF standing, Writes
  <2>4. verified' = verified
    BY <2>1, <2>2, NoneIsNoneOfThem DEF verified, Writes
  <2>. QED BY <2>2, <2>3, <2>4 DEF Lifecycle!Propose, Writes
<1>2. ASSUME NEW t \in Threads, SaveResolved(t)
      PROVE  \E p \in ProposalIds, v \in Verdicts : Lifecycle!Resolve(p, v)
  <2>1. /\ op[t].verdict \in Verdicts /\ Recorded(op[t].p)
        /\ record[op[t].p].status = "proposed" /\ record[op[t].p].outcome = None
    BY <1>2 DEF SaveResolved, Resolvers, Resolving
  <2>2. Writes(op[t].p, [d |-> record[op[t].p].d, status |-> op[t].verdict, outcome |-> None])
    BY <1>2, SaveResolvedWrites
  <2>3. /\ standing[op[t].p] = "proposed"
        /\ standing' = [standing EXCEPT ![op[t].p] = op[t].verdict]
    <3>1. ASSUME NEW p \in ProposalIds
          PROVE  standing'[p] = IF p = op[t].p THEN op[t].verdict ELSE standing[p]
      BY <2>2, NoneIsNoneOfThem DEF standing, Writes
    <3>. QED BY <2>1, <2>2, <3>1 DEF standing, Writes
  <2>4. verified' = verified
    BY <2>1, <2>2, NoneIsNoneOfThem DEF verified, Writes
  <2>. QED BY <2>1, <2>2, <2>3, <2>4 DEF Lifecycle!Resolve, Writes
<1>3. ASSUME NEW t \in Threads, LinkOutcome(t)
      PROVE  \E p \in ProposalIds : Lifecycle!Verify(p)
  <2>1. /\ op[t].verdict \in Verdicts /\ Recorded(op[t].p)
        /\ record[op[t].p].status = op[t].verdict /\ record[op[t].p].outcome = None
    BY <1>3 DEF LinkOutcome, Resolvers, Resolving, Half
  <2>2. Writes(op[t].p, [d |-> record[op[t].p].d, status |-> op[t].verdict, outcome |-> op[t].verdict])
    BY <1>3, LinkOutcomeWrites
  <2>3. /\ standing[op[t].p] = op[t].verdict /\ verified[op[t].p] = None
        /\ verified' = [verified EXCEPT ![op[t].p] = op[t].verdict]
    <3>1. ASSUME NEW p \in ProposalIds
          PROVE  verified'[p] = IF p = op[t].p THEN op[t].verdict ELSE verified[p]
      BY <2>2, NoneIsNoneOfThem DEF verified, Writes
    <3>. QED BY <2>1, <2>2, <3>1 DEF standing, verified, Writes
  <2>4. standing' = standing
    BY <2>1, <2>2, NoneIsNoneOfThem DEF standing, Writes
  <2>. QED BY <2>1, <2>2, <2>3, <2>4 DEF Lifecycle!Verify, Writes
<1>4. ASSUME UNCHANGED record PROVE UNCHANGED <<standing, verified>>
  BY <1>4 DEF standing, verified
<1>5. ASSUME NEW t \in Threads, Begin(t) \/ CreateIndex(t) \/ Enter(t) \/ Return(t) \/ SaveIndex(t)
                                \/ LearnStep(t) \/ StoreCallFails(t)
      PROVE  UNCHANGED record
  BY <1>5 DEF Begin, Score, Post, Learn, Ask, CreateIndex, Enter, Return, SaveIndex, LearnStep,
              ReadIndex, Look, Scan, ScanNothing, Backfill, LearnReturns, StoreCallFails
<1>6. Crash \/ UNCHANGED vars => UNCHANGED record
  BY DEF Crash, vars
<1>. QED BY <1>1, <1>2, <1>3, <1>4, <1>5, <1>6
         DEF Next, Proceed, CreateStep, ResolveStep, Lifecycle!LifecycleNext

-----------------------------------------------------------------------------
(* The theorems *)

\* Every variable keeps its type, and each lock belongs to the thread inside it.
THEOREM TypeCorrect == Spec => []TypeOK
<1>1. IInv => TypeOK
  BY DEF IInv
<1>. QED BY <1>1, InvariantHolds, PTL

\* ProposalService implements ProposalLifecycle: one resolution per proposal,
\* and the outcome on record is that of the resolution.
THEOREM ServiceImplementsLifecycle == Spec => ImplementsLifecycle
<1>. QED BY InitRefines, StepRefines, InvariantHolds, PTL
         DEF Spec, ImplementsLifecycle, Lifecycle!LifecycleSpec

\* A resolved proposal lacks its outcome only between the two writes of its
\* resolution, or when these were interrupted.
THEOREM OutcomesFollow == Spec => []ResolutionsAreVerified
<1>1. IInv => ResolutionsAreVerified
  BY DEF IInv
<1>. QED BY <1>1, InvariantHolds, PTL

\* After a learn request that did not fail, a decision that had a proposal in
\* time has a resolved one.
THEOREM LearnsCloseProposals == Spec => []LearnClosesProposal
<1>1. IInv => LearnClosesProposal
  BY DEF IInv
<1>. QED BY <1>1, InvariantHolds, PTL

\* What the decision index names is on record and of that decision.
THEOREM IndexStaysSound == Spec => []IndexIsSound
<1>1. IInv => IndexIsSound
  BY DEF IInv, Stored, IndexIsSound
<1>. QED BY <1>1, InvariantHolds, PTL

===============================================================================
