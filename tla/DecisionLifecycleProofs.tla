------------------------- MODULE DecisionLifecycleProofs -------------------------
(***************************************************************************)
(* Proofs about DecisionLifecycle.  Inductive is the invariant three of    *)
(* the properties follow from: what a request can rely on where it is      *)
(* (Steady), memory between the L5 state and the store (Layered), the      *)
(* extinction events (Exact) and the receipt store (Numbered).  A step of  *)
(* request t keeps what every other request relies on (OthersStay), so     *)
(* each action's lemma is about its own request.  On top of it Sure says   *)
(* what the counts that others read and kept can be while a request is     *)
(* under the lock, and that receipts are earned.                           *)
(***************************************************************************)
EXTENDS DecisionLifecycle, FiniteSetTheorems, SequenceTheorems, TLAPS

Statuses == {"absent", "pending", "resolved"}
Memories ==
    [active : SUBSET (Decisions \X {"own", "shadow"}), before : Nat, certain : BOOLEAN, applied : BOOLEAN,
     red : BOOLEAN, kept : SUBSET Parts, last : Nat]
Receipts == [id : Nat, d : Decisions, prev : Nat]

Typed ==
    /\ mode \in {"off", "shared", "separate"}
    /\ dec \in [Decisions -> Statuses]
    /\ evidence \subseteq Decisions /\ extinct \subseteq Decisions
    /\ l5 \in [Parts -> SUBSET Decisions]
    /\ learned \subseteq Decisions /\ tracker \subseteq Decisions
    /\ receipts \in Seq(Receipts) /\ byDecision \in [Decisions -> SUBSET Nat] /\ serial \in Nat
    /\ lock \in Threads \cup {Nobody}
    /\ pc \in [Threads -> Locations]
    /\ sub \in [Threads -> Decisions \cup {Nobody}]
    /\ seen \in [Threads -> Memories]

\* Where a request holds the domain lock, and where its evidence is written.
Inside == {"evidence", "begin", "learn", "seal", "extinction", "centroid", "conservation", "dk", "answer"}
Evidenced == Locations \ {"idle", "enrich", "link", "evidence"}
Private == mode # "shared"

\* What each request can rely on where it is.
Holding(t) == pc[t] \in Inside <=> lock = t
About(t) ==
    /\ pc[t] # "idle" => sub[t] \in Decisions
    /\ pc[t] \in Evidenced => sub[t] \in evidence
    /\ pc[t] \in Inside => dec[sub[t]] # "absent"
    /\ pc[t] = "force" => ~ Private
Applying(t) ==
    /\ pc[t] \in {"evidence", "begin", "learn"} => ~ seen[t].applied /\ seen[t].kept = {}
    /\ pc[t] \in {"seal", "extinction"} => seen[t].applied
    /\ pc[t] \in Inside /\ seen[t].applied =>
          dec[sub[t]] = "resolved" /\ sub[t] \in learned /\ \A p \in seen[t].kept : sub[t] \in l5[p]
Emptying(t) ==
    /\ pc[t] = "learn" /\ Private => seen[t].active = Active(CatOf[sub[t]])
    /\ pc[t] = "extinction" => \A e \in Decisions : CatOf[e] = CatOf[sub[t]] => dec[e] # "pending"
Steady(t) == Holding(t) /\ About(t) /\ Applying(t) /\ Emptying(t)

\* What is persisted never runs ahead of memory, and memory never of the store.
Layered ==
    /\ l5["centroid"] \subseteq learned /\ l5["dk"] \subseteq tracker /\ l5["conservation"] \subseteq Resolved
    /\ Resolved \subseteq evidence

\* A category with an outcome and nothing pending has its event, or was cut off,
\* or the request that emptied it is on its way to the event.
Covered(c) ==
    \/ \E e \in Pending : CatOf[e] = c
    \/ \E e \in extinct \cup stranded : CatOf[e] = c
OnTheWay(c) ==
    \E t \in Threads :
        /\ lock = t /\ CatOf[sub[t]] = c
        /\ pc[t] = "extinction" \/ (pc[t] = "seal" /\ seen[t].active = {<<sub[t], "own">>})
Exact == Private => \A d \in Resolved : Covered(CatOf[d]) \/ OnTheWay(CatOf[d])

\* Receipts are numbered as they are added; the index holds those of the store.
Numbered ==
    /\ Len(receipts) <= serial /\ Len(receipts) <= MaxReceipts
    /\ \A i \in DOMAIN receipts : receipts[i].id = serial - Len(receipts) + i
    /\ \A d \in Decisions :
          byDecision[d] = {receipts[i].id : i \in {j \in DOMAIN receipts : receipts[j].d = d}}

Inductive ==
    /\ Typed /\ Layered /\ Exact /\ Numbered
    /\ CompleteIsDurable
    /\ \A t \in Threads : Steady(t)

-----------------------------------------------------------------------------
(* What a step of t leaves to the others *)

\* The requests other than t are where they were, what they rely on only grows,
\* and while one of them holds the lock nothing becomes pending.
Keeps(t) ==
    /\ mode' = mode
    /\ \A u \in Threads \ {t} :
          pc'[u] = pc[u] /\ sub'[u] = sub[u] /\ seen'[u] = seen[u] /\ (lock' = u <=> lock = u)
    /\ \A d \in Decisions :
          /\ dec[d] = "resolved" => dec'[d] = "resolved"
          /\ dec[d] # "absent" => dec'[d] # "absent"
          /\ lock \notin {t, Nobody} => (dec'[d] = "pending" => dec[d] = "pending")
    /\ lock \notin {t, Nobody} /\ Private => dec' = dec
    /\ evidence \subseteq evidence' /\ learned \subseteq learned'
    /\ \A p \in Parts : l5[p] \subseteq l5'[p]

LEMMA CountType ==
    ASSUME NEW R \in SUBSET Decisions, NEW S \in SUBSET Decisions
    PROVE Cardinality(R) + Cardinality(S) \in Nat
<1>1. IsFiniteSet(R) /\ IsFiniteSet(S)
  BY LifecycleAssumption, FS_Subset
<1> QED BY <1>1, FS_CardinalityType

\* The counts a reader may find kept are counts.
Counting == counts \subseteq Nat

LEMMA CountingStep ==
    ASSUME Counting, [Next]_vars
    PROVE Counting'
<1>1. VerifiedCount \in Nat
  BY CountType DEF VerifiedCount, Resolved, VisibleShadow
<1>2. VerifiedCount' \in Nat
  <2>1. Resolved' \subseteq Decisions /\ VisibleShadow("resolved")' \subseteq Decisions
    BY DEF Resolved, VisibleShadow
  <2>2. Cardinality(Resolved') + Cardinality(VisibleShadow("resolved")') \in Nat
    BY <2>1, CountType
  <2> QED BY <2>2 DEF VerifiedCount
<1>3. counts' = counts \/ Counted \/ DropCounts \/ counts' = {VerifiedCount}
  <2>1. ASSUME NEW t \in Threads, NEW d \in Decisions, ScoreCommit(t, d) \/ LearnEnter(t, d) \/ OutcomeEnter(t, d)
        PROVE counts' = counts
    BY <2>1 DEF ScoreCommit, OutcomeEnter, LearnEnter
  <2>2. ASSUME NEW t \in Threads, ScoreEnrich(t) \/ ScoreLink(t) \/ AppendEvidence(t) \/ LearnBegin(t)
        PROVE counts' = counts
    BY <2>2 DEF ScoreEnrich, ScoreLink, AppendEvidence, LearnBegin
  <2>3. ASSUME NEW t \in Threads, LearnRun(t) \/ ShadowOutcome(t) \/ ShadowForce(t)
        PROVE Counted
    BY <2>3 DEF LearnRun, ShadowOutcome, ShadowForce
  <2>4. ASSUME NEW t \in Threads, SealOutcome(t) \/ SaveExtinction(t) \/ FinishOutcome(t)
                                  \/ PersistConservation(t) \/ PersistDK(t) \/ Answer(t)
        PROVE counts' = counts
    BY <2>4 DEF SealOutcome, SaveExtinction, FinishOutcome, PersistConservation, PersistDK, Answer
  <2>5. ASSUME NEW t \in Threads, PersistCentroid(t) PROVE DropCounts
    BY <2>5 DEF PersistCentroid
  <2>6. ASSUME NEW t \in Threads, ReadLastHash(t) \/ AddReceipt(t) \/ RecordProfile(t) \/ ShadowPeek(t)
        PROVE counts' = counts
    BY <2>6 DEF ReadLastHash, AddReceipt, RecordProfile, ShadowPeek
  <2>7. ASSUME NEW d \in Decisions, RunScoreShadow(d) PROVE counts' = counts
    BY <2>7 DEF RunScoreShadow
  <2>8. CASE Crash
    BY <2>8 DEF Crash
  <2>9. CASE UNCHANGED vars
    BY <2>9 DEF vars
  <2> QED BY <2>1, <2>2, <2>3, <2>4, <2>5, <2>6, <2>7, <2>8, <2>9 DEF Next, Proceed, Locked, Unlocked
<1> QED BY <1>1, <1>2, <1>3 DEF Counting, Counted, DropCounts

LEMMA AlwaysCounting == Spec => []Counting
<1>1. Init => Counting
  BY DEF Init, Counting
<1> QED BY <1>1, CountingStep, PTL DEF Spec

\* Without shadow rows, the active decisions of a category are its pending ones.
LEMMA ActivePrivate ==
    ASSUME Private, NEW c
    PROVE Active(c) = {<<d, "own">> : d \in {e \in Pending : CatOf[e] = c}}
BY DEF Active, VisibleShadow, Private, Pending

LEMMA OthersStay ==
    ASSUME Inductive, NEW t, Keeps(t), NEW u \in Threads, u # t
    PROVE Steady(u)'
<1>1. /\ mode' = mode /\ pc'[u] = pc[u] /\ sub'[u] = sub[u] /\ seen'[u] = seen[u]
      /\ (lock' = u <=> lock = u) /\ Private' = Private
  BY DEF Keeps, Private
<1>2. Steady(u) /\ Nobody \notin Threads /\ (lock = u => lock \notin {t, Nobody})
  BY LifecycleAssumption DEF Inductive
<1>3. Holding(u)'
  BY <1>1, <1>2 DEF Steady, Holding
<1>4. pc[u] \in Inside => lock = u
  BY <1>2 DEF Steady, Holding
<1>5. About(u)'
  BY <1>1, <1>2 DEF Steady, About, Keeps, Inside, Evidenced, Locations
<1>6. pc[u] \in Inside /\ Private => dec' = dec
  BY <1>2, <1>4 DEF Keeps
<1>8. Applying(u)'
  <2>1. seen[u].kept \subseteq Parts
    BY DEF Inductive, Typed, Memories
  <2>2. pc[u] \in Inside => sub[u] \in Decisions
    BY <1>2 DEF Steady, About, Inside
  <2> QED BY <1>1, <1>2, <2>1, <2>2 DEF Steady, Applying, Keeps
<1>9. Emptying(u)'
  <2>1. pc[u] = "learn" /\ Private => Active(CatOf[sub[u]])' = Active(CatOf[sub[u]])
    <3>1. ASSUME pc[u] = "learn", Private PROVE Active(CatOf[sub[u]])' = Active(CatOf[sub[u]])
      <4>1. dec' = dec /\ sub'[u] = sub[u] /\ mode' = mode
        BY <3>1, <1>1, <1>6 DEF Inside
      <4> QED BY <3>1, <4>1 DEF Active, Pending, VisibleShadow, Private
    <3> QED BY <3>1
  <2>2. pc[u] = "extinction" => lock \notin {t, Nobody}
    BY <1>2, <1>4 DEF Inside
  <2> QED BY <1>1, <1>2, <2>1, <2>2 DEF Steady, Emptying, Keeps
<1> QED BY <1>3, <1>5, <1>8, <1>9 DEF Steady

-----------------------------------------------------------------------------
(* What most steps leave as it is *)

LEMMA ReceiptsAre ==
    ASSUME Typed
    PROVE /\ Len(receipts) \in Nat /\ DOMAIN receipts = 1..Len(receipts)
          /\ \A i \in DOMAIN receipts :
                receipts[i] \in Receipts /\ receipts[i].d \in Decisions /\ receipts[i].id \in Nat
<1>1. receipts \in Seq(Receipts)
  BY DEF Typed
<1>2. Len(receipts) \in Nat /\ DOMAIN receipts = 1..Len(receipts)
  BY <1>1, LenProperties
<1>3. \A i \in 1..Len(receipts) : receipts[i] \in Receipts
  BY <1>1, ElementOfSeq
<1> QED BY <1>2, <1>3 DEF Receipts

LEMMA ReceiptsStay ==
    ASSUME Inductive, UNCHANGED receiptVars, mode' = mode,
           \A d \in Decisions : dec[d] = "resolved" => dec'[d] = "resolved"
    PROVE Numbered'
<1>1. receipts' = receipts /\ byDecision' = byDecision /\ serial' = serial
  BY DEF receiptVars
<1>2. \A i \in DOMAIN receipts : receipts[i].d \in Decisions
  BY ReceiptsAre DEF Inductive
<1> QED BY <1>1, <1>2 DEF Inductive, Numbered

LEMMA DurableStays ==
    ASSUME Inductive, promised' = promised, \A p \in Parts : l5[p] \subseteq l5'[p]
    PROVE CompleteIsDurable'
BY DEF Inductive, CompleteIsDurable

LEMMA LayeredStays ==
    ASSUME Inductive, l5' = l5, learned \subseteq learned', tracker \subseteq tracker',
           Resolved \subseteq Resolved', Resolved' \subseteq evidence'
    PROVE Layered'
BY DEF Inductive, Layered

\* Exact only needs the category of the request that holds the lock.
LEMMA ExactStays ==
    ASSUME Inductive, mode' = mode, dec' = dec, extinct \subseteq extinct', stranded \subseteq stranded',
           NEW t, Keeps(t),
           \A c \in Categories : lock = t /\ Private /\ CatOf[sub[t]] = c /\ OnTheWay(c)
                                 => Covered(c)' \/ OnTheWay(c)'
    PROVE Exact'
<1> SUFFICES ASSUME Private, NEW d \in Resolved
             PROVE Covered(CatOf[d])' \/ OnTheWay(CatOf[d])'
  BY DEF Exact, Private, Resolved
<1>1. CASE Covered(CatOf[d])
  BY <1>1 DEF Covered, Pending
<1>2. CASE OnTheWay(CatOf[d])
  <2>1. PICK u \in Threads :
            /\ lock = u /\ CatOf[sub[u]] = CatOf[d]
            /\ pc[u] = "extinction" \/ (pc[u] = "seal" /\ seen[u].active = {<<sub[u], "own">>})
    BY <1>2 DEF OnTheWay
  <2>2. CASE u = t
    <3>1. CatOf[d] \in Categories
      BY LifecycleAssumption DEF Resolved
    <3> QED BY <1>2, <2>1, <2>2, <3>1
  <2>3. CASE u # t
    <3>1. pc'[u] = pc[u] /\ sub'[u] = sub[u] /\ seen'[u] = seen[u] /\ lock' = u
      BY <2>1, <2>3 DEF Keeps
    <3> QED BY <2>1, <3>1 DEF OnTheWay
  <2> QED BY <2>2, <2>3
<1> QED BY <1>1, <1>2 DEF Inductive, Exact

LEMMA ElsewhereOnTheWay ==
    ASSUME NEW t \in Threads, pc[t] \notin {"seal", "extinction"}, NEW c, OnTheWay(c)
    PROVE lock # t
BY DEF OnTheWay

\* A step that changes neither the store nor what memory has learned.
LEMMA Passing ==
    ASSUME Inductive, NEW t, Typed', Keeps(t), t \in Threads => Steady(t)',
           UNCHANGED <<mode, dec, evidence, l5, learned, tracker, receiptVars, promised>>,
           extinct \subseteq extinct', stranded \subseteq stranded',
           \A c \in Categories : lock = t /\ Private /\ CatOf[sub[t]] = c /\ OnTheWay(c)
                                 => Covered(c)' \/ OnTheWay(c)'
    PROVE Inductive'
<1>1. Numbered'
  BY ReceiptsStay
<1>2. CompleteIsDurable'
  BY DurableStays
<1>3. Layered'
  BY DEF Inductive, Layered, Resolved
<1>4. Exact'
  BY ExactStays
<1>5. \A u \in Threads : Steady(u)'
  BY OthersStay
<1> QED BY <1>1, <1>2, <1>3, <1>4, <1>5 DEF Inductive

\* What a request leaves behind when it ends.
LEMMA Returned ==
    ASSUME Typed, NEW t \in Threads, Return(t)
    PROVE /\ Steady(t)'
          /\ pc' \in [Threads -> Locations] /\ sub' \in [Threads -> Decisions \cup {Nobody}]
          /\ seen' \in [Threads -> Memories] /\ lock' \in Threads \cup {Nobody}
          /\ \A u \in Threads \ {t} :
                pc'[u] = pc[u] /\ sub'[u] = sub[u] /\ seen'[u] = seen[u] /\ (lock' = u <=> lock = u)
<1>1. Unseen \in Memories
  BY DEF Unseen, Memories, Parts
<1>2. pc'[t] = "idle" /\ lock' # t
  BY LifecycleAssumption DEF Return, Typed
<1>3. Steady(t)'
  BY <1>2 DEF Steady, Holding, About, Applying, Emptying, Inside, Evidenced, Locations
<1> QED BY <1>1, <1>2, <1>3, LifecycleAssumption DEF Return, Typed, Locations

\* Going on to the next location leaves the other requests alone.
LEMMA Gone ==
    ASSUME Typed, NEW t \in Threads, NEW l \in Locations, Goto(t, l)
    PROVE /\ pc' \in [Threads -> Locations] /\ pc'[t] = l
          /\ \A u \in Threads \ {t} : pc'[u] = pc[u]
BY DEF Goto, Typed

LEMMA Remembered ==
    ASSUME Typed, NEW t \in Threads, NEW m \in Memories, Remember(t, m)
    PROVE /\ seen' \in [Threads -> Memories] /\ seen'[t] = m
          /\ \A u \in Threads \ {t} : seen'[u] = seen[u]
BY DEF Remember, Typed

-----------------------------------------------------------------------------
(* Score *)

LEMMA ScoreCommitKeeps ==
    ASSUME Inductive, NEW t \in Threads, NEW d \in Decisions, ScoreCommit(t, d)
    PROVE Inductive'
<1>1. /\ lock = Nobody /\ lock' = lock /\ mode' = mode /\ seen' = seen /\ pc[t] = "idle"
      /\ evidence' = evidence /\ extinct' = extinct /\ stranded' = stranded
      /\ l5' = l5 /\ learned' = learned /\ tracker' = tracker /\ promised' = promised
      /\ UNCHANGED receiptVars
      /\ dec[d] = "absent" /\ dec' = [dec EXCEPT ![d] = "pending"]
  BY DEF ScoreCommit, LockFree, memoryVars, historyVars
<1>2. /\ (pc'[t] = "enrich" /\ sub'[t] = d) \/ (pc'[t] = "idle" /\ sub'[t] = sub[t])
      /\ pc' \in [Threads -> Locations] /\ sub' \in [Threads -> Decisions \cup {Nobody}]
      /\ \A u \in Threads \ {t} : pc'[u] = pc[u] /\ sub'[u] = sub[u]
  <2>1. pc \in [Threads -> Locations] /\ sub \in [Threads -> Decisions \cup {Nobody}] /\ pc[t] = "idle"
    BY DEF ScoreCommit, Inductive, Typed
  <2>2. \/ pc' = [pc EXCEPT ![t] = "enrich"] /\ sub' = [sub EXCEPT ![t] = d]
        \/ pc' = pc /\ sub' = sub
    BY DEF ScoreCommit, Goto
  <2> QED BY <2>1, <2>2 DEF Locations
<1>3. /\ dec' \in [Decisions -> Statuses] /\ dec'[d] = "pending"
      /\ \A e \in Decisions \ {d} : dec'[e] = dec[e]
  BY <1>1 DEF Inductive, Typed, Statuses
<1>4. Typed'
  BY <1>1, <1>2, <1>3 DEF Inductive, Typed, receiptVars
<1>5. Keeps(t)
  BY <1>1, <1>2, <1>3 DEF Keeps, Inductive, Typed
<1>6. Steady(t)'
  BY <1>1, <1>2, LifecycleAssumption
     DEF Inductive, Steady, Holding, About, Applying, Emptying, Inside, Evidenced, Locations
<1>7. Resolved' = Resolved
  BY <1>1, <1>3 DEF Resolved
<1>8. Layered'
  BY <1>1, <1>7 DEF Inductive, Layered
<1>9. Exact'
  <2> SUFFICES ASSUME Private, NEW e \in Resolved
               PROVE Covered(CatOf[e])'
    BY <1>1, <1>7 DEF Exact, Private
  <2>1. ~ OnTheWay(CatOf[e])
    BY <1>1, LifecycleAssumption DEF OnTheWay
  <2>2. Covered(CatOf[e])
    BY <2>1 DEF Inductive, Exact
  <2> QED BY <1>1, <1>3, <2>2 DEF Covered, Pending
<1>10. Numbered'
  BY <1>1, <1>3, ReceiptsStay
<1>11. CompleteIsDurable'
  BY <1>1, DurableStays
<1>12. \A u \in Threads : Steady(u)'
  BY <1>5, <1>6, OthersStay
<1> QED BY <1>4, <1>8, <1>9, <1>10, <1>11, <1>12 DEF Inductive

LEMMA ScoreEnrichKeeps ==
    ASSUME Inductive, NEW t \in Threads, ScoreEnrich(t)
    PROVE Inductive'
<1>1. /\ UNCHANGED <<mode, dec, evidence, extinct, l5, learned, tracker, receiptVars, promised>>
      /\ stranded' = stranded /\ lock' = lock /\ sub' = sub /\ seen' = seen
      /\ pc[t] = "enrich" /\ Goto(t, "link")
  BY DEF ScoreEnrich, storeVars, memoryVars, historyVars
<1>2. pc' \in [Threads -> Locations] /\ pc'[t] = "link" /\ \A u \in Threads \ {t} : pc'[u] = pc[u]
  BY <1>1, Gone DEF Locations, Inductive
<1>3. Typed'
  BY <1>1, <1>2 DEF Inductive, Typed, receiptVars
<1>4. Keeps(t)
  BY <1>1, <1>2 DEF Keeps
<1>5. Steady(t)'
  BY <1>1, <1>2 DEF Inductive, Steady, Holding, About, Applying, Emptying, Inside, Evidenced, Locations
<1> QED BY <1>1, <1>3, <1>4, <1>5, Passing, ElsewhereOnTheWay

LEMMA ScoreLinkKeeps ==
    ASSUME Inductive, NEW t \in Threads, ScoreLink(t)
    PROVE Inductive'
<1>1. /\ UNCHANGED <<mode, dec, evidence, extinct, l5, learned, tracker, receiptVars, promised>>
      /\ stranded' = stranded /\ pc[t] = "link" /\ Return(t)
  BY DEF ScoreLink, memoryVars
<1>2. Typed /\ Typed'
  BY <1>1, Returned DEF Inductive, Typed, receiptVars
<1>3. Keeps(t)
  BY <1>1, <1>2, Returned DEF Keeps
<1> QED BY <1>1, <1>2, <1>3, Returned, Passing, ElsewhereOnTheWay

LEMMA RunScoreShadowKeeps ==
    ASSUME Inductive, NEW d \in Decisions, RunScoreShadow(d)
    PROVE Inductive'
<1>1. /\ UNCHANGED <<mode, dec, evidence, extinct, l5, learned, tracker, receiptVars, promised>>
      /\ stranded' = stranded /\ lock' = lock /\ pc' = pc /\ sub' = sub /\ seen' = seen
  BY DEF RunScoreShadow, memoryVars, requestVars, historyVars
<1>2. Typed'
  BY <1>1 DEF Inductive, Typed, receiptVars
<1>3. Keeps(Nobody)
  BY <1>1 DEF Keeps
<1>4. \A c : OnTheWay(c) => lock # Nobody
  BY LifecycleAssumption DEF OnTheWay
<1> QED BY <1>1, <1>2, <1>3, <1>4, Passing, LifecycleAssumption

-----------------------------------------------------------------------------
(* Learn and outcome, under the domain lock *)

LEMMA LearnEnterKeeps ==
    ASSUME Inductive, Counting, NEW t \in Threads, NEW d \in Decisions, LearnEnter(t, d)
    PROVE Inductive'
<1>0. PICK count \in counts \cup {0}, certain \in BOOLEAN :
          Remember(t, [Unseen EXCEPT !.before = count, !.certain = certain])
  <2>1. PICK count \in counts \cup {0}, available \in BOOLEAN :
            Remember(t, [Unseen EXCEPT !.before = count, !.certain = available /\ ~ doubt])
    BY DEF LearnEnter
  <2>2. (available /\ ~ doubt) \in BOOLEAN
    OBVIOUS
  <2> QED BY <2>1, <2>2
<1> DEFINE m == [Unseen EXCEPT !.before = count, !.certain = certain]
<1>1. /\ UNCHANGED <<mode, dec, shadowRow, evidence, extinct, l5, learned, tracker, receiptVars, promised>>
      /\ stranded' = stranded /\ lock = Nobody /\ lock' = t /\ sub' = [sub EXCEPT ![t] = d]
      /\ pc[t] = "idle" /\ dec[d] # "absent" /\ Goto(t, "evidence") /\ Remember(t, m)
  BY <1>0 DEF LearnEnter, LockFree, storeVars, memoryVars, historyVars
<1>2. m \in Memories /\ m.applied = FALSE /\ m.kept = {}
  <2> DEFINE B == BOOLEAN
  <2>1. FALSE \in B /\ certain \in B /\ count \in Nat
    BY DEF Counting
  <2>2. Memories = [active : SUBSET (Decisions \X {"own", "shadow"}), before : Nat, certain : B,
                    applied : B, red : B, kept : SUBSET Parts, last : Nat]
    BY DEF Memories
  <2>3. Unseen \in Memories
    BY DEF Unseen, Memories
  <2>4. m.applied = FALSE /\ m.kept = {}
    BY DEF Unseen
  <2> HIDE DEF B
  <2>5. m \in Memories
    BY <2>1, <2>2, <2>3
  <2> QED BY <2>4, <2>5
<1> HIDE DEF m
<1>3. pc' \in [Threads -> Locations] /\ pc'[t] = "evidence" /\ \A u \in Threads \ {t} : pc'[u] = pc[u]
  BY <1>1, Gone DEF Locations, Inductive
<1>4. seen' \in [Threads -> Memories] /\ seen'[t] = m /\ \A u \in Threads \ {t} : seen'[u] = seen[u]
  BY <1>1, <1>2, Remembered DEF Inductive
<1>5. sub' \in [Threads -> Decisions \cup {Nobody}] /\ sub'[t] = d /\ \A u \in Threads \ {t} : sub'[u] = sub[u]
  BY <1>1 DEF Inductive, Typed
<1>6. Typed'
  BY <1>1, <1>3, <1>4, <1>5 DEF Inductive, Typed, receiptVars
<1>7. Keeps(t)
  BY <1>1, <1>3, <1>4, <1>5, LifecycleAssumption DEF Keeps
<1>9. Steady(t)'
  <2>1. Holding(t)' /\ About(t)' /\ Emptying(t)'
    BY <1>1, <1>3, <1>5 DEF Holding, About, Emptying, Inside, Evidenced
  <2>2. Applying(t)'
    BY <1>2, <1>3, <1>4 DEF Applying
  <2> QED BY <2>1, <2>2 DEF Steady
<1>10. \A c : OnTheWay(c) => lock # t
  BY <1>1, ElsewhereOnTheWay
<1> QED BY <1>1, <1>6, <1>7, <1>9, <1>10, Passing

LEMMA AppendEvidenceKeeps ==
    ASSUME Inductive, NEW t \in Threads, AppendEvidence(t)
    PROVE Inductive'
<1>1. /\ UNCHANGED <<mode, dec, shadowRow, extinct, l5, learned, tracker, receiptVars, promised>>
      /\ stranded' = stranded /\ pc[t] = "evidence"
  BY DEF AppendEvidence, memoryVars, historyVars
<1>2. Typed /\ lock = t /\ sub[t] \in Decisions
  BY <1>1 DEF Inductive, Steady, Holding, About, Inside
<1>3. CASE Return(t) /\ evidence' = evidence
  <2>1. Typed'
    BY <1>1, <1>2, <1>3, Returned DEF Typed, receiptVars
  <2>2. Keeps(t)
    BY <1>1, <1>2, <1>3, Returned DEF Keeps
  <2> QED BY <1>1, <1>2, <1>3, <2>1, <2>2, Returned, Passing, ElsewhereOnTheWay
<1>4. CASE /\ evidence' = evidence \cup {sub[t]} /\ Goto(t, "begin")
           /\ UNCHANGED <<sub, seen, lock>>
  <2>1. pc' \in [Threads -> Locations] /\ pc'[t] = "begin" /\ \A u \in Threads \ {t} : pc'[u] = pc[u]
    BY <1>2, <1>4, Gone DEF Locations
  <2>2. Typed'
    BY <1>1, <1>2, <1>4, <2>1 DEF Typed, receiptVars
  <2>3. Keeps(t)
    BY <1>1, <1>4, <2>1 DEF Keeps
  <2>5. Steady(t)'
    <3>1. Holding(t)' /\ About(t)' /\ Emptying(t)'
      BY <1>1, <1>2, <1>4, <2>1 DEF Inductive, Steady, Holding, About, Emptying, Inside, Evidenced
    <3>2. Applying(t)'
      BY <1>1, <1>4, <2>1 DEF Inductive, Steady, Applying, Inside
    <3> QED BY <3>1, <3>2 DEF Steady
  <2>6. Layered'
    BY <1>1, <1>4 DEF Inductive, Layered, Resolved
  <2>7. Exact'
    BY <1>1, <2>3, ExactStays, ElsewhereOnTheWay
  <2>8. Numbered' /\ CompleteIsDurable'
    BY <1>1, ReceiptsStay, DurableStays
  <2>9. \A u \in Threads : Steady(u)'
    BY <2>3, <2>5, OthersStay
  <2> QED BY <2>2, <2>6, <2>7, <2>8, <2>9 DEF Inductive
<1> QED BY <1>3, <1>4 DEF AppendEvidence

LEMMA LearnBeginKeeps ==
    ASSUME Inductive, NEW t \in Threads, LearnBegin(t)
    PROVE Inductive'
<1> DEFINE m == [seen[t] EXCEPT !.active = Active(CatOf[sub[t]])]
<1>1. /\ UNCHANGED <<mode, dec, shadowRow, evidence, extinct, l5, learned, tracker, receiptVars, promised>>
      /\ stranded' = stranded /\ lock' = lock /\ sub' = sub
      /\ pc[t] = "begin" /\ Goto(t, "learn") /\ Remember(t, m)
  BY DEF LearnBegin, storeVars, memoryVars, historyVars
<1>2. Active(CatOf[sub[t]]) \in SUBSET (Decisions \X {"own", "shadow"})
  BY DEF Active, Pending, VisibleShadow
<1>3. /\ m \in Memories /\ m.active = Active(CatOf[sub[t]])
      /\ m.applied = seen[t].applied /\ m.kept = seen[t].kept
  BY <1>2 DEF Memories, Inductive, Typed
<1> HIDE DEF m
<1>4. pc' \in [Threads -> Locations] /\ pc'[t] = "learn" /\ \A u \in Threads \ {t} : pc'[u] = pc[u]
  BY <1>1, Gone DEF Locations, Inductive
<1>5. seen' \in [Threads -> Memories] /\ seen'[t] = m /\ \A u \in Threads \ {t} : seen'[u] = seen[u]
  BY <1>1, <1>3, Remembered DEF Inductive
<1>6. Typed'
  BY <1>1, <1>4, <1>5 DEF Inductive, Typed, receiptVars
<1>7. Keeps(t)
  BY <1>1, <1>4, <1>5 DEF Keeps
<1>9. Active(CatOf[sub[t]])' = Active(CatOf[sub[t]])
  BY <1>1 DEF Active, Pending, VisibleShadow
<1>10. Steady(t)'
  <2>1. Holding(t)' /\ About(t)'
    BY <1>1, <1>4 DEF Inductive, Steady, Holding, About, Inside, Evidenced, Locations
  <2>2. ~ seen[t].applied /\ seen[t].kept = {}
    BY <1>1 DEF Inductive, Steady, Applying, Inside
  <2>3. ~ seen'[t].applied /\ seen'[t].kept = {}
    BY <1>1, <1>3, <1>5, <2>2
  <2>4. Applying(t)'
    BY <1>4, <2>3 DEF Applying
  <2>5. Emptying(t)'
    BY <1>1, <1>3, <1>4, <1>5, <1>9 DEF Emptying
  <2> QED BY <2>1, <2>4, <2>5 DEF Steady
<1> QED BY <1>1, <1>6, <1>7, <1>10, Passing, ElsewhereOnTheWay

\* At scorer.learn the request has the lock and the decision, and remembers what
\* is still true.
LEMMA AtLearn ==
    ASSUME Inductive, NEW t \in Threads, pc[t] = "learn"
    PROVE /\ Typed /\ lock = t /\ sub[t] \in Decisions /\ dec[sub[t]] # "absent" /\ sub[t] \in evidence
          /\ ~ seen[t].applied /\ seen[t].kept = {}
          /\ Private => seen[t].active = Active(CatOf[sub[t]])
          /\ \A c : ~ OnTheWay(c)
          /\ seen[t] \in Memories
<1>1. Steady(t) /\ Typed
  BY DEF Inductive
<1>2. lock = t /\ sub[t] \in Decisions /\ dec[sub[t]] # "absent" /\ sub[t] \in evidence
  BY <1>1 DEF Steady, Holding, About, Inside, Evidenced, Locations
<1>3. ~ seen[t].applied /\ seen[t].kept = {}
  BY <1>1 DEF Steady, Applying, Inside
<1>4. Private => seen[t].active = Active(CatOf[sub[t]])
  BY <1>1 DEF Steady, Emptying
<1>5. \A c : ~ OnTheWay(c)
  BY <1>2, ElsewhereOnTheWay
<1>6. seen[t] \in Memories
  BY <1>1 DEF Typed
<1> QED BY <1>1, <1>2, <1>3, <1>4, <1>5, <1>6

LEMMA Committed ==
    ASSUME Inductive, NEW t \in Threads, sub[t] \in Decisions,
           dec' = [dec EXCEPT ![sub[t]] = "resolved"]
    PROVE /\ dec' \in [Decisions -> Statuses]
          /\ dec'[sub[t]] = "resolved" /\ \A e \in Decisions \ {sub[t]} : dec'[e] = dec[e]
          /\ Resolved' = Resolved \cup {sub[t]}
          /\ Pending' = Pending \ {sub[t]}
<1>1. dec \in [Decisions -> Statuses]
  BY DEF Inductive, Typed
<1>2. dec'[sub[t]] = "resolved" /\ \A e \in Decisions \ {sub[t]} : dec'[e] = dec[e]
  BY <1>1
<1>3. dec' \in [Decisions -> Statuses]
  BY <1>1 DEF Statuses
<1> QED BY <1>2, <1>3 DEF Resolved, Pending

\* What the commit of t leaves of the categories: the others are as covered as
\* they were, its own still has a pending decision, is covered, or was emptied.
LEMMA CommitCovers ==
    ASSUME Inductive, NEW t \in Threads, sub[t] \in Decisions, dec[sub[t]] # "absent",
           \A c : ~ OnTheWay(c), Private,
           dec' = [dec EXCEPT ![sub[t]] = "resolved"], extinct' = extinct, stranded \subseteq stranded',
           NEW d \in Resolved'
    PROVE \/ Covered(CatOf[d])'
          \/ CatOf[d] = CatOf[sub[t]] /\ Active(CatOf[sub[t]]) = {<<sub[t], "own">>}
<1>1. Resolved' = Resolved \cup {sub[t]} /\ Pending' = Pending \ {sub[t]}
  BY Committed
<1>2. d \in Decisions
  BY <1>1 DEF Resolved
<1>3. CASE \E e \in Pending \ {sub[t]} : CatOf[e] = CatOf[d]
  BY <1>1, <1>3 DEF Covered
<1>4. CASE \E e \in extinct \cup stranded : CatOf[e] = CatOf[d]
  BY <1>4 DEF Covered
<1>5. ASSUME \A e \in Pending \ {sub[t]} : CatOf[e] # CatOf[d],
             \A e \in extinct \cup stranded : CatOf[e] # CatOf[d]
      PROVE CatOf[d] = CatOf[sub[t]] /\ Active(CatOf[sub[t]]) = {<<sub[t], "own">>}
  <2>1. sub[t] \in Pending /\ CatOf[sub[t]] = CatOf[d]
    <3>1. CASE d \in Resolved
      <4>1. Covered(CatOf[d])
        BY <3>1 DEF Inductive, Exact
      <4> QED BY <4>1, <1>5 DEF Covered
    <3>2. CASE d \notin Resolved
      <4>1. d = sub[t]
        BY <3>2, <1>1
      <4> QED BY <3>2, <4>1 DEF Inductive, Typed, Statuses, Pending, Resolved
    <3> QED BY <3>1, <3>2
  <2>2. {e \in Pending : CatOf[e] = CatOf[sub[t]]} = {sub[t]}
    BY <2>1, <1>5
  <2>3. Active(CatOf[sub[t]]) = {<<e, "own">> : e \in {sub[t]}}
    BY <2>2, ActivePrivate
  <2> QED BY <2>1, <2>3
<1> QED BY <1>3, <1>4, <1>5

LEMMA LearnAppliedKeeps ==
    ASSUME Inductive, NEW t \in Threads, LearnRun(t), Commit(t), learned' = learned \cup {sub[t]},
           Remember(t, [seen[t] EXCEPT !.applied = TRUE, !.before = 0, !.certain = TRUE]), Goto(t, "seal"),
           UNCHANGED <<sub, lock, stranded>>
    PROVE Inductive'
<1> DEFINE m == [seen[t] EXCEPT !.applied = TRUE, !.before = 0, !.certain = TRUE]
<1>1. /\ UNCHANGED <<mode, evidence, extinct, l5, tracker, receiptVars, promised>>
      /\ pc[t] = "learn" /\ dec' = [dec EXCEPT ![sub[t]] = "resolved"]
  BY DEF LearnRun, Commit
<1>2. /\ Typed /\ lock = t /\ sub[t] \in Decisions /\ dec[sub[t]] # "absent" /\ sub[t] \in evidence
      /\ seen[t].kept = {} /\ (Private => seen[t].active = Active(CatOf[sub[t]]))
      /\ \A c : ~ OnTheWay(c)
      /\ seen[t] \in Memories
  BY <1>1, AtLearn
<1>3. /\ dec' \in [Decisions -> Statuses] /\ dec'[sub[t]] = "resolved"
      /\ \A e \in Decisions \ {sub[t]} : dec'[e] = dec[e]
      /\ Resolved' = Resolved \cup {sub[t]}
  BY <1>1, <1>2, Committed
<1>4. /\ m \in Memories /\ m.applied = TRUE /\ m.kept = {} /\ m.active = seen[t].active
  BY <1>2 DEF Memories
<1>5. Remember(t, m)
  OBVIOUS
<1> HIDE DEF m
<1>6. seen' \in [Threads -> Memories] /\ seen'[t] = m /\ \A u \in Threads \ {t} : seen'[u] = seen[u]
  BY <1>2, <1>4, <1>5, Remembered
<1>7. pc' \in [Threads -> Locations] /\ pc'[t] = "seal" /\ \A u \in Threads \ {t} : pc'[u] = pc[u]
  BY <1>2, Gone DEF Locations
<1>8. Typed'
  BY <1>1, <1>2, <1>3, <1>6, <1>7 DEF Typed, receiptVars
<1>9. Keeps(t)
  BY <1>1, <1>2, <1>3, <1>6, <1>7 DEF Keeps
<1>10. Steady(t)'
  <2>1. Holding(t)' /\ About(t)' /\ Emptying(t)'
    BY <1>1, <1>2, <1>3, <1>7 DEF Holding, About, Emptying, Inside, Evidenced, Locations
  <2>2. Applying(t)'
    BY <1>3, <1>4, <1>6, <1>7 DEF Applying
  <2> QED BY <2>1, <2>2 DEF Steady
<1>11. Layered'
  BY <1>1, <1>2, <1>3 DEF Inductive, Layered
<1>12. Exact'
  <2> SUFFICES ASSUME Private, NEW d \in Resolved'
               PROVE Covered(CatOf[d])' \/ OnTheWay(CatOf[d])'
    BY <1>1 DEF Exact, Private
  <2>1. \/ Covered(CatOf[d])'
        \/ CatOf[d] = CatOf[sub[t]] /\ Active(CatOf[sub[t]]) = {<<sub[t], "own">>}
    BY <1>1, <1>2, CommitCovers
  <2>2. ASSUME CatOf[d] = CatOf[sub[t]], Active(CatOf[sub[t]]) = {<<sub[t], "own">>}
        PROVE OnTheWay(CatOf[d])'
    BY <1>2, <1>4, <1>6, <1>7, <2>2 DEF OnTheWay
  <2> QED BY <2>1, <2>2
<1>13. Numbered' /\ CompleteIsDurable'
  BY <1>1, <1>3, ReceiptsStay, DurableStays
<1>14. \A u \in Threads : Steady(u)'
  BY <1>9, <1>10, OthersStay
<1> QED BY <1>8, <1>11, <1>12, <1>13, <1>14 DEF Inductive

LEMMA LearnRaisedAfterKeeps ==
    ASSUME Inductive, NEW t \in Threads, LearnRun(t), Commit(t), Strand(t), UNCHANGED learned
    PROVE Inductive'
<1>1. /\ UNCHANGED <<mode, evidence, extinct, l5, tracker, receiptVars, promised>>
      /\ pc[t] = "learn" /\ dec' = [dec EXCEPT ![sub[t]] = "resolved"]
      /\ Return(t) /\ stranded' = stranded \cup {sub[t]}
  BY DEF LearnRun, Commit, Strand
<1>2. /\ Typed /\ lock = t /\ sub[t] \in Decisions /\ dec[sub[t]] # "absent" /\ sub[t] \in evidence
      /\ \A c : ~ OnTheWay(c)
  BY <1>1, AtLearn
<1>3. /\ dec' \in [Decisions -> Statuses] /\ dec'[sub[t]] = "resolved"
      /\ \A e \in Decisions \ {sub[t]} : dec'[e] = dec[e]
      /\ Resolved' = Resolved \cup {sub[t]}
  BY <1>1, <1>2, Committed
<1>4. Typed'
  BY <1>1, <1>2, <1>3, Returned DEF Typed, receiptVars
<1>5. Keeps(t)
  <2>1. \A u \in Threads \ {t} :
          pc'[u] = pc[u] /\ sub'[u] = sub[u] /\ seen'[u] = seen[u] /\ (lock' = u <=> lock = u)
    BY <1>1, <1>2, Returned
  <2> QED BY <1>1, <1>2, <1>3, <2>1 DEF Keeps
<1>6. Layered'
  BY <1>1, <1>2, <1>3 DEF Inductive, Layered
<1>7. Exact'
  <2> SUFFICES ASSUME Private, NEW d \in Resolved'
               PROVE Covered(CatOf[d])'
    BY <1>1 DEF Exact, Private
  <2>1. Covered(CatOf[d])' \/ CatOf[d] = CatOf[sub[t]]
    BY <1>1, <1>2, CommitCovers
  <2> QED BY <1>1, <2>1 DEF Covered
<1>8. Numbered' /\ CompleteIsDurable'
  BY <1>1, <1>3, ReceiptsStay, DurableStays
<1>9. \A u \in Threads : Steady(u)'
  BY <1>1, <1>2, <1>5, Returned, OthersStay
<1> QED BY <1>4, <1>6, <1>7, <1>8, <1>9 DEF Inductive

LEMMA LearnRunKeeps ==
    ASSUME Inductive, NEW t \in Threads, LearnRun(t)
    PROVE Inductive'
<1>1. /\ UNCHANGED <<mode, shadowRow, evidence, extinct, l5, tracker, receiptVars, promised>>
      /\ pc[t] = "learn"
  BY DEF LearnRun
<1>2. Typed /\ lock = t /\ ~ seen[t].applied /\ seen[t] \in Memories
  BY <1>1, AtLearn
<1>3. CASE /\ \E red \in BOOLEAN : Remember(t, [seen[t] EXCEPT !.red = red])
           /\ Goto(t, "centroid") /\ UNCHANGED <<dec, learned, sub, lock, stranded>>
  <2>1. PICK red \in BOOLEAN : Remember(t, [seen[t] EXCEPT !.red = red])
    BY <1>3
  <2> DEFINE m == [seen[t] EXCEPT !.red = red]
  <2>2. /\ m \in Memories
        /\ m.applied = seen[t].applied /\ m.kept = seen[t].kept
    BY <1>2 DEF Memories
  <2>3. Remember(t, m)
    BY <2>1
  <2> HIDE DEF m
  <2>4. seen' \in [Threads -> Memories] /\ seen'[t] = m /\ \A u \in Threads \ {t} : seen'[u] = seen[u]
    BY <1>2, <2>2, <2>3, Remembered
  <2>5. pc' \in [Threads -> Locations] /\ pc'[t] = "centroid" /\ \A u \in Threads \ {t} : pc'[u] = pc[u]
    BY <1>2, <1>3, Gone DEF Locations
  <2>6. Typed'
    BY <1>1, <1>2, <1>3, <2>4, <2>5 DEF Typed, receiptVars
  <2>7. Keeps(t)
    BY <1>1, <1>3, <2>4, <2>5 DEF Keeps
  <2>9. Steady(t)'
    <3>1. Holding(t)' /\ About(t)' /\ Emptying(t)'
      BY <1>1, <1>3, <2>5 DEF Inductive, Steady, Holding, About, Emptying, Inside, Evidenced, Locations
    <3>3. ~ seen'[t].applied
      BY <1>2, <2>2, <2>4
    <3>4. Applying(t)'
      BY <2>5, <3>3 DEF Applying
    <3> QED BY <3>1, <3>4 DEF Steady
  <2> QED BY <1>1, <1>3, <2>6, <2>7, <2>9, Passing, ElsewhereOnTheWay
<1>4. CASE Return(t) /\ UNCHANGED <<dec, learned, stranded>>
  <2>1. Typed'
    BY <1>1, <1>2, <1>4, Returned DEF Typed, receiptVars
  <2>2. Keeps(t)
    BY <1>1, <1>2, <1>4, Returned DEF Keeps
  <2> QED BY <1>1, <1>2, <1>4, <2>1, <2>2, Returned, Passing, ElsewhereOnTheWay
<1>5. CASE Commit(t) /\ Strand(t) /\ UNCHANGED learned
  BY <1>5, LearnRaisedAfterKeeps
<1>6. CASE /\ Commit(t) /\ learned' = learned \cup {sub[t]}
           /\ Remember(t, [seen[t] EXCEPT !.applied = TRUE, !.before = 0, !.certain = TRUE]) /\ Goto(t, "seal")
           /\ UNCHANGED <<sub, lock, stranded>>
  BY <1>6, LearnAppliedKeeps
<1> QED BY <1>3, <1>4, <1>5, <1>6 DEF LearnRun

\* Going on under the lock, with what was read: the new location may ask no more
\* than the old one.
LEMMA AtSeal ==
    ASSUME Inductive, NEW t \in Threads, pc[t] \in {"seal", "extinction"}
    PROVE /\ Typed /\ Steady(t) /\ lock = t /\ sub[t] \in Decisions /\ seen[t].applied
          /\ dec[sub[t]] = "resolved" /\ sub[t] \in learned
          /\ \A p \in seen[t].kept : sub[t] \in l5[p]
          /\ sub[t] \in evidence
BY DEF Inductive, Steady, Holding, About, Applying, Inside, Evidenced, Locations

LEMMA GoneApplied ==
    ASSUME Inductive, NEW t \in Threads, pc[t] \in {"seal", "extinction"},
           NEW l \in {"extinction", "centroid"}, Goto(t, l),
           UNCHANGED <<mode, dec, evidence, l5, learned, sub, seen, lock>>,
           l = "extinction" => \A e \in Decisions : CatOf[e] = CatOf[sub[t]] => dec[e] # "pending"
    PROVE Keeps(t) /\ Steady(t)' /\ pc'[t] = l /\ pc' \in [Threads -> Locations]
<1>1. /\ Typed /\ Steady(t) /\ lock = t /\ sub[t] \in Decisions /\ seen[t].applied
      /\ dec[sub[t]] = "resolved" /\ sub[t] \in learned
      /\ \A p \in seen[t].kept : sub[t] \in l5[p]
      /\ sub[t] \in evidence
  BY AtSeal
<1>2. pc' \in [Threads -> Locations] /\ pc'[t] = l /\ \A u \in Threads \ {t} : pc'[u] = pc[u]
  BY <1>1, Gone DEF Locations
<1>3. Keeps(t)
  BY <1>2 DEF Keeps
<1>4. Holding(t)' /\ About(t)'
  BY <1>1, <1>2 DEF Holding, About, Inside
<1>5. Applying(t)'
  BY <1>1, <1>2 DEF Applying
<1>6. Emptying(t)'
  BY <1>2 DEF Emptying
<1> QED BY <1>2, <1>3, <1>4, <1>5, <1>6 DEF Steady

LEMMA SealOutcomeKeeps ==
    ASSUME Inductive, NEW t \in Threads, SealOutcome(t)
    PROVE Inductive'
<1> DEFINE k == CatOf[sub[t]]
           emptied == seen[t].active = {<<sub[t], "own">>} /\ Active(k) = {}
<1>1. /\ UNCHANGED <<mode, dec, evidence, extinct, l5, learned, tracker, receiptVars, promised>>
      /\ pc[t] = "seal"
  BY DEF SealOutcome, storeVars, memoryVars
<1>2. Typed /\ lock = t /\ sub[t] \in Decisions
  BY <1>1, AtSeal
<1>3. CASE Strand(t)
  <2>1. Return(t) /\ stranded' = stranded \cup {sub[t]}
    BY <1>3 DEF Strand
  <2>2. Typed'
    BY <1>1, <1>2, <2>1, Returned DEF Typed, receiptVars
  <2>3. Keeps(t)
    BY <1>1, <1>2, <2>1, Returned DEF Keeps
  <2>4. \A c \in Categories : CatOf[sub[t]] = c => Covered(c)'
    BY <2>1 DEF Covered
  <2> QED BY <1>1, <1>2, <2>1, <2>2, <2>3, <2>4, Returned, Passing
<1>4. CASE /\ Goto(t, IF emptied /\ sub[t] \notin extinct THEN "extinction" ELSE "centroid")
           /\ UNCHANGED <<sub, seen, lock, stranded>>
  <2>1. emptied => \A e \in Decisions : CatOf[e] = CatOf[sub[t]] => dec[e] # "pending"
    BY DEF Active, Pending
  <2>2. PICK l \in {"extinction", "centroid"} :
            Goto(t, l) /\ (l = "extinction" <=> emptied /\ sub[t] \notin extinct)
    BY <1>4
  <2>3. Keeps(t) /\ Steady(t)' /\ pc'[t] = l /\ pc' \in [Threads -> Locations]
    BY <1>1, <1>4, <2>1, <2>2, GoneApplied
  <2>4. Typed'
    BY <1>1, <1>2, <1>4, <2>3 DEF Typed, receiptVars
  <2>5. ASSUME NEW c \in Categories, Private, CatOf[sub[t]] = c, OnTheWay(c)
        PROVE Covered(c)' \/ OnTheWay(c)'
    <3>1. seen[t].active = {<<sub[t], "own">>}
      BY <1>1, <1>2, <2>5 DEF OnTheWay
    <3>2. CASE \E e \in Pending : CatOf[e] = c
      BY <1>1, <3>2 DEF Covered, Pending
    <3>3. CASE sub[t] \in extinct
      BY <1>1, <2>5, <3>3 DEF Covered
    <3>4. CASE sub[t] \notin extinct /\ ~ \E e \in Pending : CatOf[e] = c
      <4>1. {e \in Pending : CatOf[e] = k} = {}
        BY <3>4, <2>5
      <4>2. Active(k) = {<<e, "own">> : e \in {}}
        BY <2>5, <4>1, ActivePrivate
      <4>3. l = "extinction"
        BY <2>2, <3>1, <3>4, <4>2
      <4> QED BY <1>2, <1>4, <2>3, <2>5, <4>3 DEF OnTheWay
    <3> QED BY <3>2, <3>3, <3>4
  <2> QED BY <1>1, <1>4, <2>3, <2>4, <2>5, Passing
<1> QED BY <1>3, <1>4 DEF SealOutcome

LEMMA SaveExtinctionKeeps ==
    ASSUME Inductive, NEW t \in Threads, SaveExtinction(t)
    PROVE Inductive'
<1>1. /\ UNCHANGED <<mode, dec, evidence, l5, learned, tracker, receiptVars, promised>>
      /\ pc[t] = "extinction"
  BY DEF SaveExtinction, memoryVars
<1>2. Typed /\ lock = t /\ sub[t] \in Decisions
  BY <1>1, AtSeal
<1>3. CASE Strand(t) /\ UNCHANGED extinct
  <2>1. Return(t) /\ stranded' = stranded \cup {sub[t]}
    BY <1>3 DEF Strand
  <2>2. Typed'
    BY <1>1, <1>2, <1>3, <2>1, Returned DEF Typed, receiptVars
  <2>3. Keeps(t)
    BY <1>1, <1>2, <2>1, Returned DEF Keeps
  <2>4. \A c \in Categories : CatOf[sub[t]] = c => Covered(c)'
    BY <2>1 DEF Covered
  <2> QED BY <1>1, <1>2, <1>3, <2>1, <2>2, <2>3, <2>4, Returned, Passing
<1>4. CASE /\ extinct' = extinct \cup {sub[t]} /\ Goto(t, "centroid")
           /\ UNCHANGED <<sub, seen, lock, stranded>>
  <2>1. Keeps(t) /\ Steady(t)' /\ pc' \in [Threads -> Locations]
    BY <1>1, <1>4, GoneApplied
  <2>2. Typed'
    BY <1>1, <1>2, <1>4, <2>1 DEF Typed, receiptVars
  <2>3. \A c \in Categories : CatOf[sub[t]] = c => Covered(c)'
    BY <1>4 DEF Covered
  <2> QED BY <1>1, <1>4, <2>1, <2>2, <2>3, Passing
<1> QED BY <1>3, <1>4 DEF SaveExtinction

LEMMA FinishOutcomeKeeps ==
    ASSUME Inductive, NEW t \in Threads, FinishOutcome(t)
    PROVE Inductive'
<1>1. /\ UNCHANGED <<mode, dec, evidence, extinct, l5, learned, tracker, receiptVars, promised>>
      /\ pc[t] = "centroid" /\ Return(t) /\ stranded' = stranded \cup {sub[t]}
  BY DEF FinishOutcome, Strand, storeVars, memoryVars
<1>2. Typed /\ sub[t] \in Decisions
  BY <1>1 DEF Inductive, Steady, About
<1>3. Typed'
  BY <1>1, <1>2, Returned DEF Typed, receiptVars
<1>4. Keeps(t)
  BY <1>1, <1>2, Returned DEF Keeps
<1> QED BY <1>1, <1>2, <1>3, <1>4, Returned, Passing, ElsewhereOnTheWay

\* The three L5 writes: what is stored holds what was stored before, and the
\* decision of a request that was applied.
LEMMA PersistKeeps ==
    ASSUME Inductive, NEW t \in Threads, NEW part \in Parts, NEW content \in SUBSET Decisions,
           NEW next \in {"conservation", "dk", "answer"}, Persist(t, part, content, next),
           l5[part] \subseteq content, seen[t].applied => sub[t] \in content,
           tracker \subseteq tracker', tracker' \subseteq Decisions,
           part = "centroid" => content \subseteq learned,
           part = "conservation" => content \subseteq Resolved,
           part = "dk" => content \subseteq tracker'
    PROVE Inductive'
<1> DEFINE m == [seen[t] EXCEPT !.kept = @ \cup {part}]
<1>1. /\ UNCHANGED <<mode, dec, shadowRow, evidence, extinct, learned, receiptVars, promised, sub, lock>>
      /\ stranded' = stranded /\ pc[t] = part /\ Goto(t, next)
      /\ \/ l5' = [l5 EXCEPT ![part] = content] /\ Remember(t, m)
         \/ UNCHANGED <<l5, seen>>
  BY DEF Persist, historyVars
<1>2. Typed /\ Steady(t) /\ pc[t] \in {"centroid", "conservation", "dk"} /\ seen[t] \in Memories
  BY <1>1 DEF Inductive, Typed, Parts
<1>3. lock = t /\ sub[t] \in Decisions /\ sub[t] \in evidence /\ dec[sub[t]] # "absent"
  BY <1>2 DEF Steady, Holding, About, Inside, Evidenced, Locations
<1>4. /\ seen[t].applied => /\ dec[sub[t]] = "resolved" /\ sub[t] \in learned
                            /\ \A p \in seen[t].kept : sub[t] \in l5[p]
  BY <1>2 DEF Steady, Applying, Inside
<1>5. /\ m \in Memories
      /\ m.applied = seen[t].applied /\ m.kept = seen[t].kept \cup {part}
  BY <1>2 DEF Memories
<1> HIDE DEF m
<1>6. /\ seen' \in [Threads -> Memories] /\ \A u \in Threads \ {t} : seen'[u] = seen[u]
      /\ l5' \in [Parts -> SUBSET Decisions]
      /\ \A p \in Parts \ {part} : l5'[p] = l5[p]
      /\ \/ seen'[t] = m /\ l5'[part] = content
         \/ seen'[t] = seen[t] /\ l5'[part] = l5[part]
  <2>1. CASE l5' = [l5 EXCEPT ![part] = content] /\ Remember(t, m)
    <3>1. seen' \in [Threads -> Memories] /\ seen'[t] = m /\ \A u \in Threads \ {t} : seen'[u] = seen[u]
      BY <1>2, <1>5, <2>1, Remembered
    <3> QED BY <1>2, <2>1, <3>1 DEF Typed
  <2>2. CASE UNCHANGED <<l5, seen>>
    BY <1>2, <2>2 DEF Typed
  <2> QED BY <1>1, <2>1, <2>2
<1>7. pc' \in [Threads -> Locations] /\ pc'[t] = next /\ \A u \in Threads \ {t} : pc'[u] = pc[u]
  BY <1>1, <1>2, Gone DEF Locations
<1>8. \A p \in Parts : l5[p] \subseteq l5'[p]
  BY <1>6
<1>9. Typed'
  BY <1>1, <1>2, <1>6, <1>7 DEF Typed, receiptVars
<1>10. Keeps(t)
  BY <1>1, <1>6, <1>7, <1>8 DEF Keeps
<1>11. Steady(t)'
  <2>1. Holding(t)' /\ About(t)' /\ Emptying(t)'
    BY <1>1, <1>3, <1>7 DEF Holding, About, Emptying, Inside
  <2>4. seen'[t].applied => \A p \in seen'[t].kept : sub[t] \in l5'[p]
    <3>1. seen[t].kept \subseteq Parts
      BY <1>2 DEF Memories
    <3> QED BY <1>4, <1>5, <1>6, <1>8, <3>1
  <2>5. seen'[t].applied => dec'[sub'[t]] = "resolved" /\ sub'[t] \in learned'
    BY <1>1, <1>4, <1>5, <1>6
  <2>6. Applying(t)'
    BY <1>1, <1>7, <2>4, <2>5 DEF Applying
  <2> QED BY <2>1, <2>6 DEF Steady
<1>12. Layered'
  BY <1>1, <1>6 DEF Inductive, Layered, Parts, Resolved
<1>13. Exact'
  BY <1>1, <1>2, <1>10, ExactStays, ElsewhereOnTheWay
<1>14. Numbered' /\ CompleteIsDurable'
  BY <1>1, <1>8, ReceiptsStay, DurableStays
<1>15. \A u \in Threads : Steady(u)'
  BY <1>10, <1>11, OthersStay
<1> QED BY <1>9, <1>12, <1>13, <1>14, <1>15 DEF Inductive

LEMMA PersistsKeep ==
    ASSUME Inductive, NEW t \in Threads, PersistCentroid(t) \/ PersistConservation(t) \/ PersistDK(t)
    PROVE Inductive'
<1>1. /\ Typed /\ Layered /\ Steady(t) /\ Resolved \subseteq Decisions
      /\ "centroid" \in Parts /\ "conservation" \in Parts /\ "dk" \in Parts
  BY DEF Inductive, Resolved, Parts
<1>2. learned \subseteq Decisions /\ tracker \subseteq Decisions
  BY <1>1 DEF Typed
<1>3. /\ pc[t] \in Inside => sub[t] \in Decisions
      /\ pc[t] \in Inside /\ seen[t].applied => sub[t] \in learned /\ sub[t] \in Resolved
  BY <1>1 DEF Steady, About, Applying, Inside, Resolved
<1>4. CASE PersistCentroid(t)
  <2>1. Persist(t, "centroid", learned, "conservation") /\ tracker' = tracker /\ pc[t] \in Inside
    BY <1>4 DEF PersistCentroid, Persist, Inside
  <2> QED BY <1>1, <1>2, <1>3, <2>1, PersistKeeps DEF Layered
<1>5. CASE PersistConservation(t)
  <2>1. Persist(t, "conservation", Resolved, "dk") /\ tracker' = tracker /\ pc[t] \in Inside
    BY <1>5 DEF PersistConservation, Persist, Inside
  <2> QED BY <1>1, <1>2, <1>3, <2>1, PersistKeeps DEF Layered
<1>6. CASE seen[t].applied /\ tracker' = tracker \cup {sub[t]} /\ Persist(t, "dk", tracker', "answer")
  <2>1. pc[t] \in Inside
    BY <1>6 DEF Persist, Inside
  <2>2. tracker' \in SUBSET Decisions /\ l5["dk"] \subseteq tracker' /\ sub[t] \in tracker'
    BY <1>1, <1>2, <1>3, <1>6, <2>1 DEF Layered
  <2> QED BY <1>1, <1>2, <1>6, <2>2, PersistKeeps
<1>7. CASE /\ pc[t] = "dk" /\ ~seen[t].applied
           /\ Remember(t, [seen[t] EXCEPT !.kept = @ \cup {"dk"}])
           /\ Goto(t, "answer")
           /\ UNCHANGED <<mode, storeVars, memoryVars, receiptVars, counts, jobs, wrapper, lock,
                          sub, captured, historyVars, calls, crashes>>
  <2> DEFINE m == [seen[t] EXCEPT !.kept = @ \cup {"dk"}]
  <2>1. /\ UNCHANGED <<mode, dec, shadowRow, evidence, extinct, l5, learned, tracker, receiptVars, promised>>
        /\ stranded' = stranded /\ lock' = lock /\ sub' = sub
    BY <1>7 DEF storeVars, memoryVars, historyVars
  <2>2. m \in Memories /\ m.applied = seen[t].applied
    BY <1>1 DEF Typed, Memories
  <2>3. Remember(t, m)
    BY <1>7
  <2> HIDE DEF m
  <2>4. seen' \in [Threads -> Memories] /\ seen'[t] = m /\ \A u \in Threads \ {t} : seen'[u] = seen[u]
    BY <1>1, <2>2, <2>3, Remembered
  <2>5. pc' \in [Threads -> Locations] /\ pc'[t] = "answer" /\ \A u \in Threads \ {t} : pc'[u] = pc[u]
    BY <1>1, <1>7, Gone DEF Locations
  <2>6. Typed'
    BY <1>1, <2>1, <2>4, <2>5 DEF Typed, receiptVars
  <2>7. Keeps(t)
    BY <2>1, <2>4, <2>5 DEF Keeps
  <2>8. Holding(t)' /\ About(t)' /\ Emptying(t)'
    BY <1>1, <1>7, <2>1, <2>5 DEF Steady, Holding, About, Emptying, Inside, Evidenced, Locations
  <2>9. Applying(t)'
    <3>3. ~ seen'[t].applied
      BY <1>7, <2>2, <2>4
    <3> QED BY <2>5, <3>3 DEF Applying
  <2> QED BY <1>7, <2>1, <2>6, <2>7, <2>8, <2>9, Passing, ElsewhereOnTheWay DEF Steady
<1> QED BY <1>4, <1>5, <1>6, <1>7 DEF PersistDK

LEMMA AnswerKeeps ==
    ASSUME Inductive, NEW t \in Threads, Answer(t)
    PROVE Inductive'
<1>1. /\ UNCHANGED <<mode, dec, evidence, extinct, l5, learned, tracker, receiptVars, sub, seen>>
      /\ stranded' = stranded /\ pc[t] = "answer" /\ lock' = Nobody
      /\ promised' = IF seen[t].applied /\ seen[t].kept = Parts
                        THEN promised \cup {sub[t]} ELSE promised
      /\ Goto(t, "receipt") \/ Goto(t, "profile")
  BY DEF Answer, storeVars, memoryVars
<1>2. Typed /\ Steady(t) /\ lock = t /\ sub[t] \in Decisions /\ sub[t] \in evidence
  BY <1>1 DEF Inductive, Steady, Holding, About, Inside, Evidenced, Locations
<1>3. /\ seen[t].applied => dec[sub[t]] = "resolved" /\ \A p \in seen[t].kept : sub[t] \in l5[p]
  BY <1>1, <1>2 DEF Steady, Applying, Inside
<1>5. PICK l \in {"receipt", "profile"} : Goto(t, l)
  BY <1>1
<1>6. pc' \in [Threads -> Locations] /\ pc'[t] = l /\ \A u \in Threads \ {t} : pc'[u] = pc[u]
  BY <1>2, <1>5, Gone DEF Locations
<1>7. Typed'
  BY <1>1, <1>2, <1>6 DEF Typed, receiptVars
<1>8. Keeps(t)
  BY <1>1, <1>2, <1>6, LifecycleAssumption DEF Keeps
<1>9. Steady(t)'
  <2>1. lock' # t
    BY <1>1, LifecycleAssumption
  <2>2. About(t)'
    BY <1>1, <1>2, <1>5, <1>6 DEF About, Inside
  <2> QED BY <1>6, <2>1, <2>2 DEF Steady, Holding, Applying, Emptying, Inside
<1>10. Layered'
  BY <1>1 DEF Inductive, Layered, Resolved
<1>11. Exact'
  BY <1>1, <1>8, ExactStays, ElsewhereOnTheWay
<1>12. Numbered'
  BY <1>1, ReceiptsStay
<1>13. CompleteIsDurable'
  BY <1>1, <1>3 DEF Inductive, CompleteIsDurable
<1>14. \A u \in Threads : Steady(u)'
  BY <1>8, <1>9, OthersStay
<1> QED BY <1>7, <1>10, <1>11, <1>12, <1>13, <1>14 DEF Inductive

-----------------------------------------------------------------------------
(* The receipt store *)

\* The ids of the receipts of a decision in a sequence of receipts.
IndexOf(s, e) == {s[i].id : i \in {j \in DOMAIN s : s[j].d = e}}

LEMMA IndexAppend ==
    ASSUME NEW s \in Seq(Receipts), NEW r \in Receipts, NEW e
    PROVE /\ r.d = e => IndexOf(Append(s, r), e) = IndexOf(s, e) \cup {r.id}
          /\ r.d # e => IndexOf(Append(s, r), e) = IndexOf(s, e)
<1>1. /\ Len(s) \in Nat /\ DOMAIN s = 1..Len(s)
      /\ DOMAIN Append(s, r) = 1..(Len(s) + 1) /\ Append(s, r)[Len(s) + 1] = r
      /\ \A i \in 1..Len(s) : Append(s, r)[i] = s[i]
  BY LenProperties, AppendProperties
<1>2. DOMAIN Append(s, r) = DOMAIN s \cup {Len(s) + 1}
  BY <1>1
<1>3. \A x : x \in IndexOf(Append(s, r), e) <=> x \in IndexOf(s, e) \/ (r.d = e /\ x = r.id)
  BY <1>1, <1>2 DEF IndexOf
<1> QED BY <1>3

LEMMA IndexTail ==
    ASSUME NEW s \in Seq(Receipts), s # <<>>, NEW e,
           \A i, j \in DOMAIN s : s[i].id = s[j].id => i = j
    PROVE /\ s[1].d = e => IndexOf(Tail(s), e) = IndexOf(s, e) \ {s[1].id}
          /\ s[1].d # e => IndexOf(Tail(s), e) = IndexOf(s, e)
<1>1. /\ Len(s) \in Nat /\ DOMAIN s = 1..Len(s) /\ Len(s) # 0
      /\ DOMAIN Tail(s) = 1..(Len(s) - 1)
      /\ \A i \in 1..(Len(s) - 1) : Tail(s)[i] = s[i + 1]
  BY LenProperties, EmptySeq, HeadTailProperties
<1>2. ASSUME NEW x
      PROVE x \in IndexOf(Tail(s), e) <=> \E j \in DOMAIN s : j # 1 /\ s[j].d = e /\ x = s[j].id
  <2>1. ASSUME x \in IndexOf(Tail(s), e) PROVE \E j \in DOMAIN s : j # 1 /\ s[j].d = e /\ x = s[j].id
    <3>1. PICK i \in 1..(Len(s) - 1) : Tail(s)[i].d = e /\ x = Tail(s)[i].id
      BY <1>1, <2>1 DEF IndexOf
    <3>2. i + 1 \in DOMAIN s /\ i + 1 # 1 /\ Tail(s)[i] = s[i + 1]
      BY <1>1
    <3> QED BY <3>1, <3>2
  <2>2. ASSUME NEW j \in DOMAIN s, j # 1, s[j].d = e, x = s[j].id PROVE x \in IndexOf(Tail(s), e)
    <3>1. j - 1 \in DOMAIN Tail(s) /\ Tail(s)[j - 1] = s[j]
      BY <1>1, <2>2
    <3> QED BY <2>2, <3>1 DEF IndexOf
  <2> QED BY <2>1, <2>2
<1>3. \A x : x \in IndexOf(s, e) <=> \E j \in DOMAIN s : s[j].d = e /\ x = s[j].id
  BY DEF IndexOf
<1>4. 1 \in DOMAIN s
  BY <1>1
<1>5. CASE s[1].d = e
  <2>1. \A x : x \in IndexOf(Tail(s), e) <=> x \in IndexOf(s, e) /\ x # s[1].id
    BY <1>2, <1>3, <1>4
  <2> QED BY <1>5, <2>1
<1>6. CASE s[1].d # e
  <2>1. \A x : x \in IndexOf(Tail(s), e) <=> x \in IndexOf(s, e)
    BY <1>2, <1>3, <1>6
  <2> QED BY <1>6, <2>1
<1> QED BY <1>5, <1>6

LEMMA AddKeeps ==
    ASSUME Typed, Numbered, NEW d \in Decisions, NEW last \in Nat, Add(d, last)
    PROVE /\ receipts' \in Seq(Receipts) /\ byDecision' \in [Decisions -> SUBSET Nat] /\ serial' \in Nat
          /\ Numbered'
          /\ \A i \in DOMAIN receipts' :
                receipts'[i].d = d \/ \E j \in DOMAIN receipts : receipts'[i].d = receipts[j].d
<1> DEFINE new == [id |-> serial + 1, d |-> d, prev |-> IF last = 0 THEN LastHash ELSE last]
           full == Len(receipts) = MaxReceipts
           rest == IF full THEN Tail(receipts) ELSE receipts
           kept == IF full THEN [byDecision EXCEPT ![receipts[1].d] = @ \ {receipts[1].id}]
                           ELSE byDecision
<1>1. /\ Len(receipts) \in Nat /\ DOMAIN receipts = 1..Len(receipts)
      /\ receipts \in Seq(Receipts) /\ serial \in Nat
      /\ \A i \in DOMAIN receipts :
            receipts[i] \in Receipts /\ receipts[i].d \in Decisions /\ receipts[i].id \in Nat
  BY ReceiptsAre DEF Typed
<1>2. LastHash \in Nat
  <2>1. CASE receipts = <<>>
    BY <2>1 DEF LastHash
  <2>2. CASE receipts # <<>>
    <3>1. Len(receipts) \in DOMAIN receipts
      BY <1>1, <2>2, EmptySeq
    <3> QED BY <1>1, <2>2, <3>1 DEF LastHash
  <2> QED BY <2>1, <2>2
<1>3. new \in Receipts /\ new.id = serial + 1 /\ new.d = d
  BY <1>1, <1>2 DEF Receipts
<1>4. serial' = serial + 1 /\ receipts' = Append(rest, new) /\ byDecision' = [kept EXCEPT ![d] = @ \cup {new.id}]
  BY DEF Add
<1> HIDE DEF new
<1>5. /\ Len(receipts) <= serial /\ Len(receipts) <= MaxReceipts /\ MaxReceipts \in Nat /\ MaxReceipts > 0
      /\ \A i \in DOMAIN receipts : receipts[i].id = serial - Len(receipts) + i
  BY LifecycleAssumption DEF Numbered
<1>6. \A i, j \in DOMAIN receipts : receipts[i].id = receipts[j].id => i = j
  BY <1>1, <1>5
<1>7. full => receipts # <<>> /\ 1 \in DOMAIN receipts
  BY <1>1, <1>5, EmptySeq
<1>8. /\ rest \in Seq(Receipts) /\ Len(rest) \in Nat /\ DOMAIN rest = 1..Len(rest)
      /\ Len(rest) < MaxReceipts /\ Len(rest) <= serial
      /\ \A i \in DOMAIN rest : rest[i].id = serial - Len(rest) + i
      /\ \A i \in DOMAIN rest : \E j \in DOMAIN receipts : rest[i] = receipts[j]
  <2>1. CASE full
    <3>1. /\ rest = Tail(receipts) /\ Tail(receipts) \in Seq(Receipts)
          /\ Len(Tail(receipts)) = Len(receipts) - 1
          /\ \A i \in 1..(Len(receipts) - 1) : Tail(receipts)[i] = receipts[i + 1]
      BY <1>1, <1>7, <2>1, HeadTailProperties
    <3>2. DOMAIN Tail(receipts) = 1..Len(Tail(receipts))
      BY <3>1, LenProperties
    <3>3. \A i \in 1..(Len(receipts) - 1) : i + 1 \in DOMAIN receipts
      BY <1>1
    <3>4. DOMAIN rest = 1..(Len(receipts) - 1) /\ Len(rest) = Len(receipts) - 1
      BY <3>1, <3>2
    <3>5. \A i \in 1..(Len(receipts) - 1) : rest[i] = receipts[i + 1]
      BY <3>1
    <3> HIDE DEF rest
    <3>6. Len(rest) \in Nat /\ Len(rest) < MaxReceipts /\ Len(rest) <= serial
      BY <1>1, <1>5, <1>7, <2>1, <3>4
    <3>7. \A i \in DOMAIN rest : rest[i].id = serial - Len(rest) + i
      <4> SUFFICES ASSUME NEW i \in 1..(Len(receipts) - 1)
                   PROVE rest[i].id = serial - (Len(receipts) - 1) + i
        BY <3>4
      <4>1. i + 1 \in DOMAIN receipts /\ rest[i] = receipts[i + 1]
        BY <3>3, <3>5
      <4>2. receipts[i + 1].id = serial - Len(receipts) + (i + 1)
        BY <1>5, <4>1
      <4> QED BY <1>1, <4>1, <4>2
    <3>8. \A i \in DOMAIN rest : \E j \in DOMAIN receipts : rest[i] = receipts[j]
      BY <3>3, <3>4, <3>5
    <3>9. rest \in Seq(Receipts) /\ DOMAIN rest = 1..Len(rest)
      BY <3>1, <3>4
    <3> QED BY <3>6, <3>7, <3>8, <3>9
  <2>2. CASE ~ full
    <3>1. rest = receipts /\ Len(receipts) < MaxReceipts
      BY <1>1, <1>5, <2>2
    <3> HIDE DEF rest
    <3> QED BY <1>1, <1>5, <3>1
  <2> QED BY <2>1, <2>2
<1>9. \A e \in Decisions : kept[e] = IndexOf(rest, e)
  <2> SUFFICES ASSUME NEW e \in Decisions PROVE kept[e] = IndexOf(rest, e)
    OBVIOUS
  <2>1. byDecision[e] = IndexOf(receipts, e)
    BY DEF Numbered, IndexOf
  <2>2. CASE full
    <3>1. /\ receipts[1].d = e => IndexOf(Tail(receipts), e) = IndexOf(receipts, e) \ {receipts[1].id}
          /\ receipts[1].d # e => IndexOf(Tail(receipts), e) = IndexOf(receipts, e)
      BY <1>1, <1>6, <1>7, <2>2, IndexTail
    <3>2. /\ receipts[1].d = e => kept[e] = byDecision[e] \ {receipts[1].id}
          /\ receipts[1].d # e => kept[e] = byDecision[e]
      BY <2>2 DEF Typed
    <3> QED BY <2>1, <2>2, <3>1, <3>2
  <2>3. CASE ~ full
    BY <2>1, <2>3
  <2> QED BY <2>2, <2>3
<1>10. kept \in [Decisions -> SUBSET Nat]
  BY <1>1, <1>7 DEF Typed
<1> HIDE DEF rest, kept, full
<1>11. byDecision' \in [Decisions -> SUBSET Nat] /\ byDecision'[d] = kept[d] \cup {new.id}
       /\ \A e \in Decisions \ {d} : byDecision'[e] = kept[e]
  BY <1>1, <1>3, <1>4, <1>10
<1>12. \A e \in Decisions : byDecision'[e] = IndexOf(receipts', e)
  <2> SUFFICES ASSUME NEW e \in Decisions PROVE byDecision'[e] = IndexOf(receipts', e)
    OBVIOUS
  <2>1. /\ e = d => IndexOf(Append(rest, new), e) = IndexOf(rest, e) \cup {new.id}
        /\ e # d => IndexOf(Append(rest, new), e) = IndexOf(rest, e)
    BY <1>3, <1>8, IndexAppend
  <2> QED BY <1>4, <1>9, <1>11, <2>1
<1>13. /\ receipts' \in Seq(Receipts) /\ Len(receipts') = Len(rest) + 1 /\ DOMAIN receipts' = 1..(Len(rest) + 1)
       /\ receipts'[Len(rest) + 1] = new /\ \A i \in 1..Len(rest) : receipts'[i] = rest[i]
  BY <1>3, <1>4, <1>8, AppendProperties, LenProperties
<1>14. Len(receipts') <= serial' /\ Len(receipts') <= MaxReceipts
  BY <1>1, <1>4, <1>5, <1>8, <1>13
<1>15. \A i \in DOMAIN receipts' : receipts'[i].id = serial' - Len(receipts') + i
  <2>0. serial' = serial + 1 /\ Len(receipts') = Len(rest) + 1 /\ DOMAIN receipts' = 1..(Len(rest) + 1)
    BY <1>4, <1>13
  <2> SUFFICES ASSUME NEW i \in 1..(Len(rest) + 1)
               PROVE receipts'[i].id = (serial + 1) - (Len(rest) + 1) + i
    BY <2>0
  <2>1. CASE i = Len(rest) + 1
    BY <1>1, <1>3, <1>8, <1>13, <2>1
  <2>2. CASE i # Len(rest) + 1
    <3>1. i \in DOMAIN rest /\ receipts'[i] = rest[i]
      BY <1>8, <1>13, <2>2
    <3> QED BY <1>1, <1>8, <3>1
  <2> QED BY <2>1, <2>2
<1>16. \A i \in DOMAIN receipts' :
          receipts'[i].d = d \/ \E j \in DOMAIN receipts : receipts'[i].d = receipts[j].d
  <2> SUFFICES ASSUME NEW i \in 1..(Len(rest) + 1), i # Len(rest) + 1
               PROVE \E j \in DOMAIN receipts : receipts'[i].d = receipts[j].d
    BY <1>3, <1>13
  <2>1. i \in 1..Len(rest)
    BY <1>8
  <2>2. i \in DOMAIN rest /\ receipts'[i] = rest[i]
    BY <1>8, <1>13, <2>1
  <2> QED BY <1>8, <2>2
<1>17. Numbered'
  BY <1>12, <1>14, <1>15 DEF Numbered, IndexOf
<1>18. serial' \in Nat
  BY <1>1, <1>4
<1> QED BY <1>11, <1>13, <1>16, <1>17, <1>18

-----------------------------------------------------------------------------
(* After the lock *)

LEMMA AfterLock ==
    ASSUME Inductive, NEW t \in Threads, pc[t] \in {"receipt", "add", "profile", "shadow", "peek", "force"}
    PROVE /\ Typed /\ lock # t /\ sub[t] \in Decisions /\ sub[t] \in evidence
          /\ pc[t] = "force" => ~ Private
          /\ \A c \in Categories : ~ (lock = t /\ OnTheWay(c))
BY DEF Inductive, Steady, Holding, About, Inside, Evidenced, Locations

\* Going on after the lock, with the same decision.
LEMMA GoneAfterLock ==
    ASSUME Inductive, NEW t \in Threads, pc[t] \in {"receipt", "add", "profile", "shadow", "peek"},
           NEW l \in {"add", "profile", "shadow", "peek", "force"}, Goto(t, l),
           UNCHANGED <<mode, dec, evidence, l5, learned, sub, lock>>,
           \A u \in Threads \ {t} : seen'[u] = seen[u],
           l = "force" => ~ Private
    PROVE Keeps(t) /\ Steady(t)' /\ pc' \in [Threads -> Locations]
<1>1. /\ Typed /\ lock # t /\ sub[t] \in Decisions /\ sub[t] \in evidence
  BY AfterLock
<1>2. pc' \in [Threads -> Locations] /\ pc'[t] = l /\ \A u \in Threads \ {t} : pc'[u] = pc[u]
  BY <1>1, Gone DEF Locations
<1>3. Keeps(t)
  BY <1>2 DEF Keeps
<1>4. Holding(t)' /\ Applying(t)' /\ Emptying(t)'
  BY <1>1, <1>2 DEF Holding, Applying, Emptying, Inside
<1>5. About(t)'
  BY <1>1, <1>2 DEF About, Inside, Private
<1> QED BY <1>2, <1>3, <1>4, <1>5 DEF Steady

LEMMA ReadLastHashKeeps ==
    ASSUME Inductive, NEW t \in Threads, ReadLastHash(t)
    PROVE Inductive'
<1> DEFINE m == [seen[t] EXCEPT !.last = LastHash]
<1>1. /\ UNCHANGED <<mode, dec, evidence, extinct, l5, learned, tracker, receiptVars, promised, sub, lock>>
      /\ stranded' = stranded /\ pc[t] = "receipt" /\ Goto(t, "add") /\ Remember(t, m)
  BY DEF ReadLastHash, storeVars, memoryVars, historyVars
<1>2. Typed /\ \A c \in Categories : ~ (lock = t /\ OnTheWay(c))
  BY <1>1, AfterLock
<1>3. LastHash \in Nat
  <2>1. CASE receipts = <<>>
    BY <2>1 DEF LastHash
  <2>2. CASE receipts # <<>>
    <3>1. receipts \in Seq(Receipts)
      BY <1>2 DEF Typed
    <3>2. Len(receipts) \in DOMAIN receipts
      BY <1>2, <2>2, <3>1, ReceiptsAre, EmptySeq
    <3> QED BY <1>2, <2>2, <3>2, ReceiptsAre DEF LastHash
  <2> QED BY <2>1, <2>2
<1>4. m \in Memories
  BY <1>2, <1>3 DEF Typed, Memories
<1> HIDE DEF m
<1>5. seen' \in [Threads -> Memories] /\ \A u \in Threads \ {t} : seen'[u] = seen[u]
  BY <1>1, <1>2, <1>4, Remembered
<1>6. Keeps(t) /\ Steady(t)' /\ pc' \in [Threads -> Locations]
  BY <1>1, <1>5, GoneAfterLock
<1>7. Typed'
  BY <1>1, <1>2, <1>5, <1>6 DEF Typed, receiptVars
<1> QED BY <1>1, <1>2, <1>6, <1>7, Passing

LEMMA AddReceiptKeeps ==
    ASSUME Inductive, NEW t \in Threads, AddReceipt(t)
    PROVE Inductive'
<1>1. /\ UNCHANGED <<mode, dec, evidence, extinct, l5, learned, tracker, promised, sub, seen, lock>>
      /\ stranded' = stranded /\ pc[t] = "add" /\ Goto(t, "profile")
      /\ Add(sub[t], seen[t].last)
  BY DEF AddReceipt, storeVars, memoryVars, historyVars
<1>2. /\ Typed /\ sub[t] \in Decisions
      /\ \A c \in Categories : ~ (lock = t /\ OnTheWay(c))
  BY <1>1, AfterLock
<1>3. seen[t].last \in Nat /\ Numbered
  BY <1>2 DEF Typed, Memories, Inductive
<1>4. /\ receipts' \in Seq(Receipts) /\ byDecision' \in [Decisions -> SUBSET Nat] /\ serial' \in Nat
      /\ Numbered'
      /\ \A i \in DOMAIN receipts' :
            receipts'[i].d = sub[t] \/ \E j \in DOMAIN receipts : receipts'[i].d = receipts[j].d
  BY <1>1, <1>2, <1>3, AddKeeps
<1>5. Keeps(t) /\ Steady(t)' /\ pc' \in [Threads -> Locations]
  BY <1>1, GoneAfterLock
<1>6. Typed'
  BY <1>1, <1>2, <1>4, <1>5 DEF Typed
<1>7. Layered' /\ CompleteIsDurable'
  BY <1>1, DurableStays DEF Inductive, Layered, Resolved
<1>8. Exact'
  BY <1>1, <1>2, <1>5, ExactStays
<1>10. \A u \in Threads : Steady(u)'
  BY <1>5, OthersStay
<1> QED BY <1>4, <1>6, <1>7, <1>8, <1>10 DEF Inductive

LEMMA RecordProfileKeeps ==
    ASSUME Inductive, NEW t \in Threads, RecordProfile(t)
    PROVE Inductive'
<1>1. /\ UNCHANGED <<mode, dec, evidence, extinct, l5, learned, tracker, receiptVars, promised>>
      /\ stranded' = stranded /\ pc[t] = "profile"
      /\ Return(t) \/ (Goto(t, "shadow") /\ UNCHANGED <<sub, seen, lock>>)
  BY DEF RecordProfile, storeVars, historyVars
<1>2. Typed /\ \A c \in Categories : ~ (lock = t /\ OnTheWay(c))
  BY <1>1, AfterLock
<1>3. CASE Return(t)
  <2>1. Typed'
    BY <1>1, <1>2, <1>3, Returned DEF Typed, receiptVars
  <2>2. Keeps(t)
    BY <1>1, <1>2, <1>3, Returned DEF Keeps
  <2> QED BY <1>1, <1>2, <1>3, <2>1, <2>2, Returned, Passing
<1>4. CASE Goto(t, "shadow") /\ UNCHANGED <<sub, seen, lock>>
  <2>1. Keeps(t) /\ Steady(t)' /\ pc' \in [Threads -> Locations]
    BY <1>1, <1>4, GoneAfterLock
  <2>2. Typed'
    BY <1>1, <1>2, <1>4, <2>1 DEF Typed, receiptVars
  <2> QED BY <1>1, <1>2, <2>1, <2>2, Passing
<1> QED BY <1>1, <1>3, <1>4

LEMMA ShadowOutcomeKeeps ==
    ASSUME Inductive, NEW t \in Threads, ShadowOutcome(t) \/ ShadowPeek(t)
    PROVE Inductive'
<1>1. /\ UNCHANGED <<mode, dec, evidence, extinct, l5, learned, tracker, receiptVars, promised>>
      /\ stranded' = stranded /\ pc[t] \in {"shadow", "peek"}
  BY DEF ShadowOutcome, ShadowPeek, storeVars, memoryVars, historyVars
<1>2. Typed /\ \A c \in Categories : ~ (lock = t /\ OnTheWay(c))
  BY <1>1, AfterLock
<1>3. CASE Return(t)
  <2>1. Typed'
    BY <1>1, <1>2, <1>3, Returned DEF Typed, receiptVars
  <2>2. Keeps(t)
    BY <1>1, <1>2, <1>3, Returned DEF Keeps
  <2> QED BY <1>1, <1>2, <1>3, <2>1, <2>2, Returned, Passing
<1>4. ASSUME NEW l \in {"peek", "force"}, Goto(t, l), UNCHANGED <<sub, seen, lock>>, l = "force" => ~ Private
      PROVE Inductive'
  <2>1. Keeps(t) /\ Steady(t)' /\ pc' \in [Threads -> Locations]
    BY <1>1, <1>4, GoneAfterLock
  <2>2. Typed'
    BY <1>1, <1>2, <1>4, <2>1 DEF Typed, receiptVars
  <2> QED BY <1>1, <1>2, <2>1, <2>2, Passing
<1> QED BY <1>3, <1>4 DEF ShadowOutcome, ShadowPeek, Private

LEMMA ShadowForceKeeps ==
    ASSUME Inductive, NEW t \in Threads, ShadowForce(t)
    PROVE Inductive'
<1>1. /\ UNCHANGED <<mode, evidence, extinct, l5, learned, tracker, receiptVars, promised>>
      /\ pc[t] = "force" /\ Return(t) /\ dec' = [dec EXCEPT ![sub[t]] = "resolved"]
  BY DEF ShadowForce, memoryVars
<1>2. Typed /\ ~ Private /\ sub[t] \in Decisions /\ sub[t] \in evidence
  BY <1>1, AfterLock
<1>3. /\ dec' \in [Decisions -> Statuses] /\ dec'[sub[t]] = "resolved"
      /\ \A e \in Decisions \ {sub[t]} : dec'[e] = dec[e]
      /\ Resolved' = Resolved \cup {sub[t]}
  BY <1>1, <1>2, Committed
<1>4. Typed'
  BY <1>1, <1>2, <1>3, Returned DEF Typed, receiptVars
<1>5. Keeps(t)
  <2>1. \A u \in Threads \ {t} :
          pc'[u] = pc[u] /\ sub'[u] = sub[u] /\ seen'[u] = seen[u] /\ (lock' = u <=> lock = u)
    BY <1>1, <1>2, Returned
  <2> QED BY <1>1, <1>2, <1>3, <2>1 DEF Keeps
<1>6. Layered' /\ Exact'
  BY <1>1, <1>2, <1>3 DEF Inductive, Layered, Exact, Private
<1>7. Numbered' /\ CompleteIsDurable'
  BY <1>1, <1>3, ReceiptsStay, DurableStays
<1>8. \A u \in Threads : Steady(u)'
  BY <1>1, <1>2, <1>5, Returned, OthersStay
<1> QED BY <1>4, <1>6, <1>7, <1>8 DEF Inductive

-----------------------------------------------------------------------------
(* Restarts, and the invariant *)

LEMMA AllIdle ==
    ASSUME lock' = Nobody, pc' = [t \in Threads |-> "idle"]
    PROVE \A t \in Threads : Steady(t)'
BY LifecycleAssumption DEF Steady, Holding, About, Applying, Emptying, Inside, Evidenced, Locations

LEMMA NoReceipts ==
    ASSUME receipts' = <<>>, byDecision' = [d \in Decisions |-> {}], serial' = 0
    PROVE /\ receipts' \in Seq(Receipts) /\ byDecision' \in [Decisions -> SUBSET Nat] /\ serial' \in Nat
          /\ Numbered'
<1>1. Len(receipts') = 0 /\ DOMAIN receipts' = {} /\ receipts' \in Seq(Receipts)
  BY EmptySeq, LenProperties
<1>2. Numbered'
  BY <1>1, LifecycleAssumption DEF Numbered
<1> QED BY <1>1, <1>2

LEMMA CrashKeeps ==
    ASSUME Inductive, Crash
    PROVE Inductive'
<1>1. /\ UNCHANGED <<mode, dec, evidence, extinct, l5, promised>>
      /\ learned' = l5["centroid"] /\ tracker' = l5["dk"]
      /\ receipts' = <<>> /\ byDecision' = [d \in Decisions |-> {}] /\ serial' = 0
      /\ lock' = Nobody
      /\ pc' = [t \in Threads |-> "idle"] /\ sub' = [t \in Threads |-> Nobody]
      /\ seen' = [t \in Threads |-> Unseen]
      /\ \A t \in Threads : pc[t] \in {"seal", "extinction"} /\ seen[t].applied => sub[t] \in stranded'
      /\ stranded \subseteq stranded'
  BY DEF Crash, Restore, storeVars
<1>2. Numbered' /\ receipts' \in Seq(Receipts) /\ byDecision' \in [Decisions -> SUBSET Nat]
      /\ serial' \in Nat
  BY <1>1, NoReceipts
<1>3. Typed'
  <2>1. Unseen \in Memories
    BY DEF Unseen, Memories
  <2> QED BY <1>1, <1>2, <2>1 DEF Inductive, Typed, Parts, Locations
<1>4. Layered' /\ CompleteIsDurable'
  BY <1>1 DEF Inductive, Layered, CompleteIsDurable, Resolved
<1>5. Exact'
  <2> SUFFICES ASSUME Private, NEW d \in Resolved PROVE Covered(CatOf[d])'
    BY <1>1 DEF Exact, Private, Resolved
  <2>1. CASE Covered(CatOf[d])
    BY <1>1, <2>1 DEF Covered, Pending
  <2>2. CASE OnTheWay(CatOf[d])
    <3>1. PICK u \in Threads : pc[u] \in {"seal", "extinction"} /\ CatOf[sub[u]] = CatOf[d]
      BY <2>2 DEF OnTheWay
    <3>2. seen[u].applied
      BY <3>1, AtSeal
    <3> QED BY <1>1, <3>1, <3>2 DEF Covered
  <2> QED BY <2>1, <2>2 DEF Inductive, Exact
<1> QED BY <1>1, <1>2, <1>3, <1>4, <1>5, AllIdle DEF Inductive

LEMMA InitInductive ==
    ASSUME Init PROVE Inductive
<1>1. receipts = <<>> /\ byDecision = [d \in Decisions |-> {}] /\ serial = 0
  BY DEF Init
<1>2. /\ Len(receipts) = 0 /\ DOMAIN receipts = {} /\ receipts \in Seq(Receipts)
      /\ byDecision \in [Decisions -> SUBSET Nat] /\ serial \in Nat
  BY <1>1, EmptySeq, LenProperties
<1>3. Numbered
  BY <1>1, <1>2, LifecycleAssumption DEF Numbered
<1>4. Unseen \in Memories
  BY DEF Unseen, Memories
<1>5. Typed
  BY <1>2, <1>4, LifecycleAssumption DEF Init, Typed, Parts, Locations, Statuses
<1>6. Resolved = {}
  BY DEF Init, Resolved
<1>7. Layered /\ Exact /\ CompleteIsDurable
  BY <1>6 DEF Init, Layered, Exact, CompleteIsDurable, Parts
<1>8. \A t \in Threads : Steady(t)
  BY LifecycleAssumption
     DEF Init, Steady, Holding, About, Applying, Emptying, Inside, Evidenced, Locations
<1> QED BY <1>3, <1>5, <1>7, <1>8 DEF Inductive

LEMMA StutterKeeps ==
    ASSUME Inductive, UNCHANGED vars PROVE Inductive'
<1>1. /\ UNCHANGED <<mode, dec, evidence, extinct, l5, learned, tracker, receiptVars, promised>>
      /\ stranded' = stranded /\ lock' = lock /\ pc' = pc /\ sub' = sub /\ seen' = seen
  BY DEF vars, storeVars, memoryVars, receiptVars, requestVars, historyVars
<1>2. Typed'
  BY <1>1 DEF Inductive, Typed, receiptVars
<1>3. Keeps(Nobody)
  BY <1>1 DEF Keeps
<1>4. \A c : OnTheWay(c) => lock # Nobody
  BY LifecycleAssumption DEF OnTheWay
<1> QED BY <1>1, <1>2, <1>3, <1>4, Passing, LifecycleAssumption

LEMMA NextKeeps ==
    ASSUME Inductive, Counting, [Next]_vars PROVE Inductive'
<1>1. ASSUME NEW t \in Threads, NEW d \in Decisions, ScoreCommit(t, d) \/ LearnEnter(t, d) \/ OutcomeEnter(t, d)
      PROVE Inductive'
  BY <1>1, ScoreCommitKeeps, LearnEnterKeeps DEF OutcomeEnter
<1>2. ASSUME NEW t \in Threads, ScoreEnrich(t) \/ ScoreLink(t) PROVE Inductive'
  BY <1>2, ScoreEnrichKeeps, ScoreLinkKeeps
<1>3. ASSUME NEW t \in Threads, Locked(t) PROVE Inductive'
  BY <1>3, AppendEvidenceKeeps, LearnBeginKeeps, LearnRunKeeps, SealOutcomeKeeps, SaveExtinctionKeeps,
     FinishOutcomeKeeps, PersistsKeep, AnswerKeeps DEF Locked
<1>4. ASSUME NEW t \in Threads, Unlocked(t) PROVE Inductive'
  BY <1>4, ReadLastHashKeeps, AddReceiptKeeps, RecordProfileKeeps, ShadowOutcomeKeeps, ShadowForceKeeps
     DEF Unlocked
<1>5. ASSUME NEW d \in Decisions, RunScoreShadow(d) PROVE Inductive'
  BY <1>5, RunScoreShadowKeeps
<1>6. CASE Crash
  BY <1>6, CrashKeeps
<1>7. CASE UNCHANGED vars
  BY <1>7, StutterKeeps
<1> QED BY <1>1, <1>2, <1>3, <1>4, <1>5, <1>6, <1>7 DEF Next, Proceed

\* Every reachable state of any number of requests over any decisions satisfies the
\* inductive invariant, with every fault, restart and shadow mode.
THEOREM AlwaysInductive == Spec => []Inductive
<1>1. Init => Inductive
  BY InitInductive
<1>2. Inductive /\ Counting /\ [Next]_vars => Inductive'
  BY NextKeeps
<1> QED BY <1>1, <1>2, AlwaysCounting, PTL DEF Spec

-----------------------------------------------------------------------------
(* The receipts *)

\* What the counts say, when no shadow's outcomes are counted: a request that took
\* the count before from a good snapshot, and nothing can be kept but the count it
\* took; unless what is kept is in doubt it is the store's count, or the outcome of
\* the request at work is not dropped yet.
Fresh == counts \subseteq {VerifiedCount}
Certain(t) ==
    pc[t] \in Inside /\ ~ seen[t].applied /\ seen[t].certain =>
        seen[t].before = VerifiedCount /\ Fresh
Overtaking(t) == lock = t /\ pc[t] \in {"seal", "extinction", "centroid"} /\ seen[t].applied
Earned(d) == dec[d] = "resolved" \/ d \in unsure
Sure == Private =>
    /\ \A t \in Threads : Certain(t)
    /\ doubt \/ Fresh \/ \E t \in Threads : Overtaking(t)
    /\ \A t \in Threads : pc[t] \in {"receipt", "add"} => Earned(sub[t])
    /\ \A i \in DOMAIN receipts : Earned(receipts[i].d)

\* What a step of t leaves the others.
Aside(t) ==
    \A u \in Threads \ {t} :
        pc'[u] = pc[u] /\ sub'[u] = sub[u] /\ seen'[u] = seen[u] /\ (lock' = u <=> lock = u)

LEMMA CountStays ==
    ASSUME Private, mode' = mode, Resolved' = Resolved
    PROVE VerifiedCount' = VerifiedCount
<1>1. VisibleShadow("resolved") = {} /\ VisibleShadow("resolved")' = {}
  BY DEF VisibleShadow, Private
<1> QED BY <1>1 DEF VerifiedCount

\* A step that resolves nothing, adds no receipt and takes no count.
LEMMA QuietStep ==
    ASSUME Inductive, Sure, NEW t, Aside(t),
           mode' = mode, Resolved' = Resolved, receipts' = receipts, unsure \subseteq unsure',
           counts' \subseteq counts \cup {VerifiedCount, VerifiedCount'},
           t \in Threads /\ pc'[t] \in Inside =>
               pc[t] \in Inside /\ seen'[t].applied = seen[t].applied
               /\ seen'[t].certain = seen[t].certain /\ seen'[t].before = seen[t].before,
           t \in Threads /\ pc'[t] \in {"receipt", "add"} =>
               pc[t] \in {"receipt", "add"} /\ sub'[t] = sub[t],
           \/ doubt'
           \/ counts' = {VerifiedCount}
           \/ doubt' = doubt /\ (t \in Threads /\ Overtaking(t) => Overtaking(t)')
    PROVE Sure'
<1> SUFFICES ASSUME Private PROVE Sure'
  BY DEF Sure, Private
<1>1. VerifiedCount' = VerifiedCount
  BY CountStays
<1>2. Fresh => Fresh'
  BY <1>1 DEF Fresh
<1>3. ASSUME NEW u \in Threads PROVE Certain(u)'
  <2>1. Certain(u)
    BY DEF Sure
  <2>2. CASE u = t
    BY <1>1, <1>2, <2>1, <2>2 DEF Certain
  <2>3. CASE u # t
    BY <1>1, <1>2, <2>1, <2>3 DEF Certain, Aside
  <2> QED BY <2>2, <2>3
<1>4. doubt' \/ Fresh' \/ \E u \in Threads : Overtaking(u)'
  <2>1. CASE doubt'
    BY <2>1
  <2>2. CASE counts' = {VerifiedCount}
    BY <1>1, <2>2 DEF Fresh
  <2>3. CASE doubt' = doubt /\ (t \in Threads /\ Overtaking(t) => Overtaking(t)')
    <3>1. CASE doubt \/ Fresh
      BY <1>2, <2>3, <3>1
    <3>2. ASSUME NEW u \in Threads, Overtaking(u) PROVE Overtaking(u)'
      <4>1. CASE u = t
        BY <2>3, <3>2, <4>1
      <4>2. CASE u # t
        BY <3>2, <4>2 DEF Overtaking, Aside
      <4> QED BY <4>1, <4>2
    <3> QED BY <3>1, <3>2 DEF Sure
  <2> QED BY <2>1, <2>2, <2>3
<1>5. \A d : d \in Decisions /\ Earned(d) => Earned(d)'
  BY DEF Earned, Resolved
<1>6. ASSUME NEW u \in Threads, pc'[u] \in {"receipt", "add"} PROVE Earned(sub[u])'
  <2>1. pc[u] \in {"receipt", "add"} /\ sub'[u] = sub[u]
    BY <1>6 DEF Aside
  <2>2. sub[u] \in Decisions /\ Earned(sub[u])
    BY <2>1 DEF Sure, Inductive, Steady, About
  <2> QED BY <1>5, <2>1, <2>2 DEF Earned
<1>7. ASSUME NEW i \in DOMAIN receipts' PROVE Earned(receipts[i].d)'
  <2>1. receipts[i].d \in Decisions /\ Earned(receipts[i].d)
    BY <1>7, ReceiptsAre DEF Sure, Inductive
  <2> QED BY <1>5, <2>1 DEF Earned
<1> QED BY <1>3, <1>4, <1>6, <1>7 DEF Sure

LEMMA Bystanders ==
    ASSUME Inductive, NEW t \in Threads,
           \/ \E d \in Decisions : ScoreCommit(t, d) \/ LearnEnter(t, d)
           \/ Proceed(t)
    PROVE Aside(t)
<1>1. /\ Nobody \notin Threads /\ pc \in [Threads -> Locations]
      /\ sub \in [Threads -> Decisions \cup {Nobody}] /\ seen \in [Threads -> Memories]
  BY LifecycleAssumption DEF Inductive, Typed
<1>2. Return(t) => Aside(t)
  BY <1>1 DEF Return, Aside
<1>3. ASSUME NEW l, Goto(t, l) PROVE \A u \in Threads \ {t} : pc'[u] = pc[u]
  BY <1>1, <1>3 DEF Goto
<1>4. ASSUME NEW m, Remember(t, m) PROVE \A u \in Threads \ {t} : seen'[u] = seen[u]
  BY <1>1, <1>4 DEF Remember
<1>5. ASSUME NEW d \in Decisions, ScoreCommit(t, d) PROVE Aside(t)
  BY <1>1, <1>3, <1>5 DEF ScoreCommit, Aside
<1>6. ASSUME NEW d \in Decisions, LearnEnter(t, d) PROVE Aside(t)
  <2>1. \A u \in Threads \ {t} : seen'[u] = seen[u]
    BY <1>4, <1>6 DEF LearnEnter
  <2>2. \A u \in Threads \ {t} : pc'[u] = pc[u] /\ sub'[u] = sub[u] /\ (lock' = u <=> lock = u)
    BY <1>1, <1>3, <1>6 DEF LearnEnter, LockFree
  <2> QED BY <2>1, <2>2 DEF Aside
<1>7. CASE ScoreEnrich(t) \/ ScoreLink(t) \/ AppendEvidence(t)
  BY <1>2, <1>3, <1>7 DEF ScoreEnrich, ScoreLink, AppendEvidence, Aside
<1>8. CASE LearnBegin(t) \/ ReadLastHash(t)
  BY <1>3, <1>4, <1>8 DEF LearnBegin, ReadLastHash, Aside
<1>9. CASE LearnRun(t)
  <2>1. \/ Return(t)
        \/ /\ Goto(t, "seal") \/ Goto(t, "centroid")
           /\ \E m : Remember(t, m)
           /\ UNCHANGED <<sub, lock>>
    BY <1>9 DEF LearnRun, Strand
  <2> QED BY <1>2, <1>3, <1>4, <2>1 DEF Aside
<1>10. CASE SealOutcome(t) \/ SaveExtinction(t) \/ FinishOutcome(t)
  BY <1>2, <1>3, <1>10 DEF SealOutcome, SaveExtinction, FinishOutcome, Strand, Aside
<1>11. CASE PersistCentroid(t) \/ PersistConservation(t) \/ PersistDK(t)
  <2>1. /\ \E l : Goto(t, l)
        /\ (\E m : Remember(t, m)) \/ seen' = seen
        /\ UNCHANGED <<sub, lock>>
    BY <1>11 DEF PersistCentroid, PersistConservation, PersistDK, Persist
  <2> QED BY <1>3, <1>4, <2>1 DEF Aside
<1>12. CASE Answer(t)
  <2>1. /\ \E l : Goto(t, l)
        /\ UNCHANGED <<sub, seen>> /\ lock' = Nobody /\ lock = t
    BY <1>12 DEF Answer, Inductive, Steady, Holding, Inside
  <2> QED BY <1>1, <1>3, <2>1 DEF Aside
<1>13. CASE AddReceipt(t) \/ RecordProfile(t) \/ ShadowOutcome(t) \/ ShadowPeek(t) \/ ShadowForce(t)
  BY <1>2, <1>3, <1>13 DEF AddReceipt, RecordProfile, ShadowOutcome, ShadowPeek, ShadowForce, Aside
<1> QED BY <1>5, <1>6, <1>7, <1>8, <1>9, <1>10, <1>11, <1>12, <1>13 DEF Proceed, Locked, Unlocked

\* Where a step of t takes it.
LEMMA Ended ==
    ASSUME Inductive, NEW t \in Threads, Return(t)
    PROVE pc'[t] = "idle"
BY DEF Return, Inductive, Typed

LEMMA ScoreSure ==
    ASSUME Inductive, Sure, NEW t \in Threads,
           (\E d \in Decisions : ScoreCommit(t, d)) \/ ScoreEnrich(t) \/ ScoreLink(t)
    PROVE Sure'
<1>1. Aside(t)
  BY Bystanders DEF Proceed
<1>2. Typed
  BY DEF Inductive
<1>3. CASE \E d \in Decisions : ScoreCommit(t, d)
  <2>1. PICK d \in Decisions : ScoreCommit(t, d)
    BY <1>3
  <2>2. Resolved' = Resolved
    BY <1>2, <2>1 DEF ScoreCommit, Resolved, Typed
  <2>3. pc'[t] \in {"idle", "enrich"}
    BY <1>2, <2>1 DEF ScoreCommit, Goto, Typed
  <2>4. ~ Overtaking(t)
    BY <2>1 DEF ScoreCommit, Overtaking
  <2>5. UNCHANGED <<mode, receipts, counts, doubt, unsure>>
    BY <2>1 DEF ScoreCommit, receiptVars, historyVars
  <2> QED BY <1>1, <2>2, <2>3, <2>4, <2>5, QuietStep DEF Inside
<1>4. CASE ScoreEnrich(t) \/ ScoreLink(t)
  <2>1. pc'[t] \in {"idle", "link"}
    BY <1>2, <1>4, Ended DEF ScoreEnrich, ScoreLink, Goto, Typed
  <2>2. UNCHANGED <<mode, dec, receipts, counts, doubt, unsure>> /\ ~ Overtaking(t)
    BY <1>4 DEF ScoreEnrich, ScoreLink, storeVars, receiptVars, historyVars, Overtaking
  <2>3. Resolved' = Resolved
    BY <2>2 DEF Resolved
  <2> QED BY <1>1, <2>1, <2>2, <2>3, QuietStep DEF Inside
<1> QED BY <1>3, <1>4

\* The count before is one of those kept, and they are all the store's.
LEMMA LearnEnterSure ==
    ASSUME Inductive, Sure, NEW t \in Threads, NEW d \in Decisions, LearnEnter(t, d)
    PROVE Sure'
<1> SUFFICES ASSUME Private PROVE Sure'
  BY DEF LearnEnter, Sure, Private
<1>1. Aside(t) /\ Typed
  BY Bystanders DEF Inductive
<1>2. UNCHANGED <<mode, dec, receipts, counts, doubt, unsure>> /\ lock = Nobody
  BY DEF LearnEnter, LockFree, storeVars, receiptVars, historyVars
<1>3. VerifiedCount' = VerifiedCount
  BY <1>2, CountStays DEF Resolved
<1>4. \A u \in Threads : ~ Overtaking(u)
  BY <1>2, LifecycleAssumption DEF Overtaking
<1>5. doubt \/ Fresh
  BY <1>4 DEF Sure
<1>6. PICK count \in counts \cup {0}, available \in BOOLEAN :
          /\ Snapshot(count, available)
          /\ Remember(t, [Unseen EXCEPT !.before = count, !.certain = available /\ ~ doubt])
  BY DEF LearnEnter
<1>7. seen'[t].before = count /\ (seen'[t].certain => available /\ ~ doubt)
  BY <1>1, <1>6 DEF Remember, Typed, Unseen
<1>8. pc'[t] = "evidence"
  BY <1>1 DEF LearnEnter, Goto, Typed
<1>9. Certain(t)'
  <2>1. seen'[t].certain => count \in counts /\ Fresh
    BY <1>5, <1>6, <1>7 DEF Snapshot
  <2> QED BY <1>2, <1>3, <1>7, <2>1 DEF Certain, Fresh
<1>10. ASSUME NEW u \in Threads, u # t PROVE Certain(u)'
  BY <1>1, <1>2, <1>3, <1>10 DEF Sure, Certain, Fresh, Aside
<1>11. ASSUME NEW u \in Threads, pc'[u] \in {"receipt", "add"} PROVE Earned(sub[u])'
  BY <1>1, <1>2, <1>8, <1>11 DEF Sure, Earned, Aside
<1>12. ASSUME NEW i \in DOMAIN receipts' PROVE Earned(receipts[i].d)'
  BY <1>2, <1>12 DEF Sure, Earned
<1>13. doubt' \/ Fresh'
  BY <1>2, <1>3, <1>5 DEF Fresh
<1> QED BY <1>9, <1>10, <1>11, <1>12, <1>13 DEF Sure

\* An outcome is committed: no other request is under the lock, and what is kept
\* is in doubt or the request has yet to drop it.
LEMMA CommitSure ==
    ASSUME Inductive, Sure, Private, mode' = mode, NEW t \in Threads, pc[t] = "learn", Aside(t),
           Commit(t), receipts' = receipts, unsure' = unsure,
           pc'[t] = "idle" \/ (pc'[t] = "seal" /\ seen'[t].applied),
           doubt' \/ Overtaking(t)'
    PROVE Sure'
<1>1. /\ \A d \in Decisions : dec[d] = "resolved" => dec'[d] = "resolved"
      /\ lock = t
  BY AtLearn DEF Commit, Typed
<1>2. ASSUME NEW u \in Threads PROVE Certain(u)'
  <2>1. CASE u = t
    BY <2>1 DEF Certain, Inside
  <2>2. CASE u # t
    <3>1. pc[u] \notin Inside
      BY <1>1, <2>2 DEF Inductive, Steady, Holding
    <3> QED BY <2>2, <3>1 DEF Certain, Aside
  <2> QED BY <2>1, <2>2
<1>3. \A d : d \in Decisions /\ Earned(d) => Earned(d)'
  BY <1>1 DEF Earned
<1>4. ASSUME NEW u \in Threads, pc'[u] \in {"receipt", "add"} PROVE Earned(sub[u])'
  <2>1. pc[u] \in {"receipt", "add"} /\ sub'[u] = sub[u]
    BY <1>4 DEF Aside
  <2>2. sub[u] \in Decisions /\ Earned(sub[u])
    BY <2>1 DEF Sure, Inductive, Steady, About
  <2> QED BY <1>3, <2>1, <2>2 DEF Earned
<1>5. ASSUME NEW i \in DOMAIN receipts' PROVE Earned(receipts[i].d)'
  <2>1. receipts[i].d \in Decisions /\ Earned(receipts[i].d)
    BY <1>5, ReceiptsAre DEF Sure, Inductive
  <2> QED BY <1>3, <2>1 DEF Earned
<1> QED BY <1>2, <1>4, <1>5 DEF Sure

LEMMA LearnRunSure ==
    ASSUME Inductive, Sure, NEW t \in Threads, LearnRun(t)
    PROVE Sure'
<1> SUFFICES ASSUME Private PROVE Sure'
  BY DEF LearnRun, Sure, Private
<1>1. Aside(t) /\ Typed /\ lock = t /\ ~ seen[t].applied /\ pc[t] = "learn"
  BY Bystanders, AtLearn DEF Proceed, Locked, LearnRun
<1>2. UNCHANGED <<mode, receipts, unsure>> /\ counts' = counts \cup {VerifiedCount'}
  BY DEF LearnRun, receiptVars, Counted
<1>3. ~ Overtaking(t)
  BY <1>1 DEF Overtaking
<1>4. CASE /\ Commit(t) /\ Goto(t, "seal") /\ UNCHANGED lock
           /\ Remember(t, [seen[t] EXCEPT !.applied = TRUE, !.before = 0, !.certain = TRUE])
  <2>1. pc'[t] = "seal" /\ seen'[t].applied
    BY <1>1, <1>4 DEF Goto, Remember, Typed, Memories
  <2>2. Overtaking(t)'
    BY <1>1, <1>4, <2>1 DEF Overtaking
  <2> QED BY <1>1, <1>2, <1>4, <2>1, <2>2, CommitSure
<1>5. CASE (\E red \in BOOLEAN : Remember(t, [seen[t] EXCEPT !.red = red])) /\ Goto(t, "centroid")
           /\ UNCHANGED <<dec, doubt>>
  <2>1. /\ seen'[t].applied = seen[t].applied /\ seen'[t].certain = seen[t].certain
        /\ seen'[t].before = seen[t].before
    BY <1>1, <1>5 DEF Remember, Typed, Memories
  <2>2. pc'[t] = "centroid"
    BY <1>1, <1>5 DEF Goto, Typed
  <2>3. Resolved' = Resolved /\ pc[t] \in Inside
    BY <1>1, <1>5 DEF Resolved, Inside
  <2> QED BY <1>1, <1>2, <1>3, <1>5, <2>1, <2>2, <2>3, QuietStep
<1>6. CASE Commit(t) /\ Strand(t)
  <2>1. pc'[t] = "idle" /\ doubt'
    BY <1>6, Ended DEF Strand
  <2> QED BY <1>1, <1>2, <1>6, <2>1, CommitSure
<1>7. CASE Return(t) /\ UNCHANGED <<dec, doubt>>
  <2>1. Resolved' = Resolved /\ pc'[t] = "idle"
    BY <1>7, Ended DEF Resolved
  <2> QED BY <1>1, <1>2, <1>3, <1>7, <2>1, QuietStep DEF Inside
<1> QED BY <1>4, <1>5, <1>6, <1>7 DEF LearnRun

\* The other steps under the lock take no count; a request that ends after its
\* commit leaves the doubt, and the drop of the counts takes it away.
LEMMA LockedSure ==
    ASSUME Inductive, Sure, NEW t \in Threads,
           \/ AppendEvidence(t) \/ LearnBegin(t) \/ SealOutcome(t) \/ SaveExtinction(t)
           \/ FinishOutcome(t) \/ PersistCentroid(t) \/ PersistConservation(t) \/ PersistDK(t)
    PROVE Sure'
<1>1. Aside(t) /\ Typed /\ Locked(t)
  BY Bystanders DEF Proceed, Locked, Inductive
<1>2. UNCHANGED <<mode, dec, receipts, unsure>>
  BY DEF AppendEvidence, LearnBegin, SealOutcome, SaveExtinction, FinishOutcome, PersistCentroid,
         PersistConservation, PersistDK, Persist, storeVars, receiptVars, historyVars
<1>3. Resolved' = Resolved
  BY <1>2 DEF Resolved
<1>4. CASE AppendEvidence(t)
  <2>1. /\ pc[t] = "evidence" /\ UNCHANGED <<counts, doubt>>
        /\ Return(t) \/ (Goto(t, "begin") /\ UNCHANGED seen)
    BY <1>4 DEF AppendEvidence, historyVars
  <2>2. pc'[t] = "idle" \/ (pc'[t] = "begin" /\ seen' = seen)
    BY <1>1, <2>1, Ended DEF Goto, Typed
  <2>3. ~ Overtaking(t)
    BY <2>1 DEF Overtaking
  <2> QED BY <1>1, <1>2, <1>3, <2>1, <2>2, <2>3, QuietStep DEF Inside
<1>5. CASE LearnBegin(t)
  <2>1. pc[t] = "begin" /\ UNCHANGED <<counts, doubt>> /\ pc'[t] = "learn"
    BY <1>1, <1>5 DEF LearnBegin, Goto, Typed, historyVars
  <2>2. /\ seen'[t].applied = seen[t].applied /\ seen'[t].certain = seen[t].certain
        /\ seen'[t].before = seen[t].before
    BY <1>1, <1>5 DEF LearnBegin, Remember, Typed, Memories
  <2>3. ~ Overtaking(t)
    BY <2>1 DEF Overtaking
  <2> QED BY <1>1, <1>2, <1>3, <2>1, <2>2, <2>3, QuietStep DEF Inside
<1>6. CASE SealOutcome(t) \/ SaveExtinction(t)
  <2>1. /\ counts' = counts /\ pc[t] \in {"seal", "extinction"}
        /\ \/ Strand(t)
           \/ /\ Goto(t, "extinction") \/ Goto(t, "centroid")
              /\ UNCHANGED <<seen, lock, doubt>>
    BY <1>6 DEF SealOutcome, SaveExtinction
  <2>2. CASE Strand(t)
    <3>1. pc'[t] = "idle" /\ doubt'
      BY <2>2, Ended DEF Strand
    <3> QED BY <1>1, <1>2, <1>3, <2>1, <3>1, QuietStep DEF Inside
  <2>3. CASE (Goto(t, "extinction") \/ Goto(t, "centroid")) /\ UNCHANGED <<seen, lock, doubt>>
    <3>1. pc'[t] \in {"extinction", "centroid"}
      BY <1>1, <2>3 DEF Goto, Typed
    <3>2. Overtaking(t) => Overtaking(t)'
      BY <2>3, <3>1 DEF Overtaking
    <3> QED BY <1>1, <1>2, <1>3, <2>1, <2>3, <3>1, <3>2, QuietStep DEF Inside
  <2> QED BY <2>1, <2>2, <2>3
<1>7. CASE FinishOutcome(t)
  <2>1. counts' = counts /\ pc'[t] = "idle" /\ doubt'
    BY <1>7, Ended DEF FinishOutcome, Strand
  <2> QED BY <1>1, <1>2, <1>3, <2>1, QuietStep DEF Inside
<1>8. CASE PersistCentroid(t) \/ PersistConservation(t) \/ PersistDK(t)
  <2>1. /\ pc[t] \in {"centroid", "conservation", "dk"}
        /\ pc'[t] \in {"conservation", "dk", "answer"}
        /\ seen'[t].applied = seen[t].applied /\ seen'[t].certain = seen[t].certain
        /\ seen'[t].before = seen[t].before
    BY <1>1, <1>8 DEF PersistCentroid, PersistConservation, PersistDK, Persist, Goto, Remember, Typed, Memories
  <2>2. \/ doubt' \/ counts' = {VerifiedCount}
        \/ doubt' = doubt /\ ~ Overtaking(t)
    BY <1>8 DEF PersistCentroid, DropCounts, PersistConservation, PersistDK, Persist, Overtaking, historyVars
  <2>3. counts' \subseteq counts \cup {VerifiedCount}
    BY <1>8 DEF PersistCentroid, DropCounts, PersistConservation, PersistDK
  <2> QED BY <1>1, <1>2, <1>3, <2>1, <2>2, <2>3, QuietStep DEF Inside
<1> QED BY <1>4, <1>5, <1>6, <1>7, <1>8

\* Two counts say that there is an outcome only when the second is later; it is the
\* same one after good snapshots, for nothing else can have been kept.
LEMMA AnswerSure ==
    ASSUME Inductive, Counting, Sure, NEW t \in Threads, Answer(t)
    PROVE Sure'
<1> SUFFICES ASSUME Private PROVE Sure'
  BY DEF Answer, Sure, Private
<1>1. Aside(t) /\ Typed /\ pc[t] = "answer" /\ sub[t] \in Decisions
  BY Bystanders DEF Proceed, Locked, Inductive, Answer, Steady, About
<1>2. UNCHANGED <<mode, dec, receipts, counts, doubt, sub, seen>>
  BY DEF Answer, storeVars, receiptVars
<1>3. PICK count \in counts \cup {0}, available \in BOOLEAN :
          /\ Snapshot(count, available)
          /\ Goto(t, IF RecordedForReceipt(t, count) THEN "receipt" ELSE "profile")
          /\ unsure' = IF RecordedForReceipt(t, count) /\ ~ seen[t].applied /\ ~ seen[t].certain
                         THEN unsure \cup {sub[t]} ELSE unsure
  BY DEF Answer
<1>4. VerifiedCount' = VerifiedCount /\ VerifiedCount \in Nat
  BY <1>2, CountStays, CountType DEF Resolved, VerifiedCount, VisibleShadow
<1>5. seen[t].applied => dec[sub[t]] = "resolved"
  BY <1>1 DEF Inductive, Steady, Applying, Inside
<1>6. ~ seen[t].applied /\ seen[t].certain => ~ RecordedForReceipt(t, count)
  <2>1. ASSUME ~ seen[t].applied, seen[t].certain PROVE ~ RecordedForReceipt(t, count)
    <3>1. seen[t].before = VerifiedCount /\ Fresh
      BY <1>1, <2>1 DEF Sure, Certain, Inside
    <3>2. count = VerifiedCount \/ count = 0
      BY <3>1 DEF Fresh
    <3> QED BY <1>4, <2>1, <3>1, <3>2 DEF RecordedForReceipt
  <2> QED BY <2>1
<1>7. unsure \subseteq unsure' /\ pc'[t] \in {"receipt", "profile"}
  BY <1>1, <1>3 DEF Goto, Typed
<1>8. pc'[t] = "receipt" => Earned(sub[t])'
  <2>1. ASSUME pc'[t] = "receipt" PROVE Earned(sub[t])'
    <3>1. RecordedForReceipt(t, count)
      BY <1>1, <1>3, <2>1 DEF Goto, Typed
    <3>2. seen[t].applied \/ sub[t] \in unsure'
      BY <1>3, <1>6, <3>1
    <3> QED BY <1>2, <1>5, <3>2 DEF Earned
  <2> QED BY <2>1
<1>9. ASSUME NEW u \in Threads PROVE Certain(u)' /\ (pc'[u] \in {"receipt", "add"} => Earned(sub[u])')
  <2>1. CASE u = t
    BY <1>7, <1>8, <2>1 DEF Certain, Inside
  <2>2. CASE u # t
    BY <1>1, <1>2, <1>4, <1>7, <2>2 DEF Sure, Certain, Fresh, Earned, Aside
  <2> QED BY <2>1, <2>2
<1>10. doubt' \/ Fresh'
  <2>1. lock = t
    BY <1>1 DEF Inductive, Steady, Holding, Inside
  <2>2. \A u \in Threads : ~ Overtaking(u)
    BY <1>1, <2>1 DEF Overtaking
  <2> QED BY <1>2, <1>4, <2>2 DEF Sure, Fresh
<1>11. ASSUME NEW i \in DOMAIN receipts' PROVE Earned(receipts[i].d)'
  BY <1>2, <1>7, <1>11 DEF Sure, Earned
<1> QED BY <1>9, <1>10, <1>11 DEF Sure

LEMMA AddReceiptSure ==
    ASSUME Inductive, Sure, NEW t \in Threads, AddReceipt(t)
    PROVE Sure'
<1> SUFFICES ASSUME Private PROVE Sure'
  BY DEF AddReceipt, Sure, Private
<1>1. Aside(t) /\ Typed /\ pc[t] = "add" /\ sub[t] \in Decisions /\ seen[t].last \in Nat
  BY Bystanders DEF Proceed, Unlocked, Inductive, AddReceipt, Steady, About, Typed, Memories
<1>2. UNCHANGED <<mode, dec, counts, doubt, unsure, lock, seen>> /\ pc'[t] = "profile"
  BY <1>1 DEF AddReceipt, storeVars, historyVars, Goto, Typed
<1>3. VerifiedCount' = VerifiedCount
  BY <1>2, CountStays DEF Resolved
<1>4. \A i \in DOMAIN receipts' :
          receipts'[i].d = sub[t] \/ \E j \in DOMAIN receipts : receipts'[i].d = receipts[j].d
  BY <1>1, AddKeeps DEF AddReceipt, Inductive
<1>5. Earned(sub[t])
  BY <1>1 DEF Sure
<1>6. ASSUME NEW i \in DOMAIN receipts' PROVE Earned(receipts[i].d)'
  BY <1>2, <1>4, <1>5, <1>6 DEF Sure, Earned
<1>7. ASSUME NEW u \in Threads PROVE Certain(u)' /\ (pc'[u] \in {"receipt", "add"} => Earned(sub[u])')
  <2>1. CASE u = t
    BY <1>2, <2>1 DEF Certain, Inside
  <2>2. CASE u # t
    BY <1>1, <1>2, <1>3, <2>2 DEF Sure, Certain, Fresh, Earned, Aside
  <2> QED BY <2>1, <2>2
<1>8. doubt' \/ Fresh' \/ \E u \in Threads : Overtaking(u)'
  <2>1. ASSUME NEW u \in Threads, Overtaking(u) PROVE Overtaking(u)'
    BY <1>1, <1>2, <2>1 DEF Overtaking, Aside
  <2> QED BY <1>2, <1>3, <2>1 DEF Sure, Fresh
<1> QED BY <1>6, <1>7, <1>8 DEF Sure

\* After the lock the shadow's own outcome is counted, but it is not in the store.
LEMMA UnlockedSure ==
    ASSUME Inductive, Sure, NEW t \in Threads,
           ReadLastHash(t) \/ RecordProfile(t) \/ ShadowOutcome(t) \/ ShadowPeek(t) \/ ShadowForce(t)
    PROVE Sure'
<1>1. Aside(t) /\ Typed
  BY Bystanders DEF Proceed, Unlocked, Inductive
<1>2. UNCHANGED <<mode, receipts, doubt, unsure>>
  BY DEF ReadLastHash, RecordProfile, ShadowOutcome, ShadowPeek, ShadowForce, receiptVars, historyVars
<1>3. CASE ReadLastHash(t)
  <2>1. pc[t] = "receipt" /\ pc'[t] = "add" /\ UNCHANGED <<dec, sub, counts>>
    BY <1>1, <1>3 DEF ReadLastHash, Goto, Typed, storeVars
  <2>2. Resolved' = Resolved /\ ~ Overtaking(t)
    BY <2>1 DEF Resolved, Overtaking
  <2> QED BY <1>1, <1>2, <2>1, <2>2, QuietStep DEF Inside
<1>4. CASE RecordProfile(t) \/ ShadowOutcome(t) \/ ShadowPeek(t)
  <2>1. pc[t] \in {"profile", "shadow", "peek"} /\ pc'[t] \in {"idle", "shadow", "peek", "force"}
    BY <1>1, <1>4, Ended DEF RecordProfile, ShadowOutcome, ShadowPeek, Goto, Typed
  <2>2. dec' = dec /\ counts' \subseteq counts \cup {VerifiedCount'}
    BY <1>4 DEF RecordProfile, ShadowOutcome, ShadowPeek, storeVars, Counted
  <2>3. Resolved' = Resolved /\ ~ Overtaking(t)
    BY <2>1, <2>2 DEF Resolved, Overtaking
  <2> QED BY <1>1, <1>2, <2>1, <2>2, <2>3, QuietStep DEF Inside
<1>5. CASE ShadowForce(t)
  <2>1. ~ Private
    BY <1>5 DEF ShadowForce, Inductive, Steady, About
  <2> QED BY <1>2, <2>1 DEF Sure, Private
<1> QED BY <1>3, <1>4, <1>5

LEMMA NextSure ==
    ASSUME Inductive, Counting, Sure, [Next]_vars
    PROVE Sure'
<1>1. ASSUME NEW t \in Threads, NEW d \in Decisions, ScoreCommit(t, d) \/ LearnEnter(t, d) \/ OutcomeEnter(t, d)
      PROVE Sure'
  BY <1>1, ScoreSure, LearnEnterSure DEF OutcomeEnter
<1>2. ASSUME NEW t \in Threads, Proceed(t) PROVE Sure'
  BY <1>2, ScoreSure, LearnRunSure, LockedSure, AnswerSure, AddReceiptSure, UnlockedSure
     DEF Proceed, Locked, Unlocked
<1>3. ASSUME NEW d \in Decisions, RunScoreShadow(d) PROVE Sure'
  <2>1. UNCHANGED <<mode, dec, receipts, counts, doubt, unsure, pc, sub, seen, lock>>
    BY <1>3 DEF RunScoreShadow, receiptVars, requestVars, historyVars
  <2>2. Aside(Nobody) /\ Nobody \notin Threads /\ Resolved' = Resolved
    BY <2>1, LifecycleAssumption DEF Aside, Resolved
  <2> QED BY <2>1, <2>2, QuietStep
<1>4. CASE Crash
  <2>1. /\ UNCHANGED <<mode, dec>> /\ receipts' = <<>> /\ counts' = {VerifiedCount}
        /\ \A t \in Threads : pc'[t] = "idle"
    BY <1>4 DEF Crash, storeVars
  <2>2. ASSUME Private PROVE Sure'
    <3>1. VerifiedCount' = VerifiedCount
      BY <2>1, <2>2, CountStays DEF Resolved
    <3>2. Fresh' /\ DOMAIN receipts' = {}
      BY <2>1, <3>1 DEF Fresh
    <3> QED BY <2>1, <3>2 DEF Sure, Certain, Inside
  <2> QED BY <2>1, <2>2 DEF Sure, Private
<1>5. CASE UNCHANGED vars
  <2>1. UNCHANGED <<mode, dec, receipts, counts, doubt, unsure, pc, sub, seen, lock>>
    BY <1>5 DEF vars, storeVars, receiptVars, requestVars, historyVars
  <2>2. Aside(Nobody) /\ Nobody \notin Threads /\ Resolved' = Resolved
    BY <2>1, LifecycleAssumption DEF Aside, Resolved
  <2> QED BY <2>1, <2>2, QuietStep
<1> QED BY <1>1, <1>2, <1>3, <1>4, <1>5 DEF Next

-----------------------------------------------------------------------------
(* The properties *)

\* No outcome is stored without its evidence, whoever writes it: the evidence is
\* appended before a request can reach any of the writes (routers/s2p.py:2849 and
\* the shadow's own outcome at 604).
THEOREM EvidenceComesFirst == Spec => []EvidenceFirst
<1>1. Inductive => EvidenceFirst
  BY DEF Inductive, Layered, EvidenceFirst
<1> QED BY <1>1, AlwaysInductive, PTL

\* A learn that answered "complete" is in the three parts of the L5 state for good:
\* memory never falls behind what is persisted, also after a restart.
THEOREM CompleteStays == Spec => []CompleteIsDurable
<1>1. Inductive => CompleteIsDurable
  BY DEF Inductive
<1> QED BY <1>1, AlwaysInductive, PTL

\* Without shadow rows in the store every receipt is of a resolved decision, also
\* when only two verified counts say so that may come from a cache of two seconds
\* (routers/s2p.py:1097), unless it is marked unsure; the index never disagrees
\* with the bounded store.
THEOREM ReceiptsStayEarned == Spec => []ReceiptsAreEarned
<1>1. Init => Sure
  <2>1. ASSUME Init, Private PROVE VerifiedCount = 0
    <3>1. Resolved = {} /\ VisibleShadow("resolved") = {}
      BY <2>1 DEF Init, Resolved, VisibleShadow, Private
    <3> QED BY <3>1, FS_EmptySet DEF VerifiedCount
  <2>2. ASSUME Init, Private PROVE Fresh
    BY <2>1, <2>2 DEF Init, Fresh
  <2>3. ASSUME Init PROVE /\ \A t \in Threads : pc[t] = "idle"
                          /\ DOMAIN receipts = {}
    BY <2>3 DEF Init
  <2>4. ASSUME Init, Private PROVE Sure
    BY <2>2, <2>3, <2>4 DEF Sure, Certain, Inside
  <2> QED BY <2>4 DEF Sure
<1>2. Inductive /\ Counting /\ Sure /\ [Next]_vars => Sure'
  BY NextSure
<1>3. Inductive /\ Sure => ReceiptsAreEarned
  BY DEF Inductive, Sure, Earned, Numbered, ReceiptsAreEarned, Private
<1> QED BY <1>1, <1>2, <1>3, AlwaysInductive, AlwaysCounting, PTL DEF Spec

LEMMA NoFalseExtinction ==
    ASSUME Inductive, [Next]_vars
    PROVE [\A d \in extinct' \ extinct : \A e \in Decisions : CatOf[e] = CatOf[d] => dec[e] # "pending"]_vars
<1>1. CASE extinct' = extinct
  BY <1>1
<1>2. CASE \E t \in Threads : SaveExtinction(t)
  <2>1. PICK t \in Threads : SaveExtinction(t)
    BY <1>2
  <2>2. pc[t] = "extinction" /\ (extinct' = extinct \cup {sub[t]} \/ extinct' = extinct)
    BY <2>1 DEF SaveExtinction
  <2>3. \A e \in Decisions : CatOf[e] = CatOf[sub[t]] => dec[e] # "pending"
    BY <2>2 DEF Inductive, Steady, Emptying
  <2> QED BY <2>2, <2>3
<1>3. extinct' = extinct \/ \E t \in Threads : SaveExtinction(t)
  <2>1. ASSUME NEW t \in Threads, NEW d \in Decisions, ScoreCommit(t, d) \/ LearnEnter(t, d) \/ OutcomeEnter(t, d)
        PROVE extinct' = extinct
    BY <2>1 DEF ScoreCommit, OutcomeEnter, LearnEnter, storeVars
  <2>2. ASSUME NEW t \in Threads, ScoreEnrich(t) \/ ScoreLink(t) PROVE extinct' = extinct
    BY <2>2 DEF ScoreEnrich, ScoreLink, storeVars
  <2>3. ASSUME NEW t \in Threads,
               AppendEvidence(t) \/ LearnBegin(t) \/ LearnRun(t) \/ SealOutcome(t) \/ FinishOutcome(t)
        PROVE extinct' = extinct
    BY <2>3 DEF AppendEvidence, LearnBegin, LearnRun, SealOutcome, FinishOutcome, storeVars
  <2>4. ASSUME NEW t \in Threads,
               PersistCentroid(t) \/ PersistConservation(t) \/ PersistDK(t) \/ Answer(t)
        PROVE extinct' = extinct
    BY <2>4 DEF PersistCentroid, PersistConservation, PersistDK, Persist, Answer, storeVars
  <2>5. ASSUME NEW t \in Threads, Unlocked(t) PROVE extinct' = extinct
    BY <2>5 DEF Unlocked, ReadLastHash, AddReceipt, RecordProfile, ShadowOutcome, ShadowPeek,
                ShadowForce, storeVars
  <2>6. ASSUME NEW d \in Decisions, RunScoreShadow(d) PROVE extinct' = extinct
    BY <2>6 DEF RunScoreShadow
  <2>7. CASE Crash \/ UNCHANGED vars
    BY <2>7 DEF Crash, vars, storeVars
  <2> QED BY <2>1, <2>2, <2>3, <2>4, <2>5, <2>6, <2>7 DEF Next, Proceed, Locked
<1> QED BY <1>1, <1>2, <1>3

\* The check of an empty category and the saving of its extinction event are two
\* store calls, but under the domain lock: no event is false, and none is missing
\* unless the learn that emptied the category was cut off after its commit.
THEOREM ExtinctionStaysExact == Spec => ExtinctionIsExact
<1>1. Inductive => \A d \in Resolved : Recorded(d)
  <2> SUFFICES ASSUME Inductive, NEW d \in Resolved, Private, lock = Nobody
               PROVE Covered(CatOf[d])
    BY DEF Recorded, Covered, Private
  <2>1. ~ OnTheWay(CatOf[d])
    BY LifecycleAssumption DEF OnTheWay
  <2> QED BY <2>1 DEF Inductive, Exact
<1>2. Inductive /\ [Next]_vars
        => [\A d \in extinct' \ extinct : \A e \in Decisions : CatOf[e] = CatOf[d] => dec[e] # "pending"]_vars
  BY NoFalseExtinction
<1> QED BY <1>1, <1>2, AlwaysInductive, PTL DEF Spec, ExtinctionIsExact

================================================================================
