-------------------------- MODULE BudgetPolicyProofs ---------------------------
(***************************************************************************)
(* The persisted budget never takes back an answered allocation, for every *)
(* history bound and every sequence of crashes, failures and restarts.     *)
(*                                                                         *)
(* The inductive invariant says where the last total told can be read back:*)
(* in the slot of its parity, while the other slot holds one less, one     *)
(* more, or nothing.                                                       *)
(***************************************************************************)
EXTENDS BudgetPolicy, FiniteSetTheorems, SequenceTheorems, TLAPS

Snapshots == [all : 0..MaxAllocations, easy : Nat, hard : Nat, history : Seq(Difficulty)]
Busy == {"counted", "deleted", "created"}

Typed ==
    /\ policy \in Snapshots /\ previous \in Snapshots
    /\ slots \in [0..1 -> Snapshots \cup {Gone}]
    /\ phase \in {"idle", "down"} \cup Busy
    /\ told \in 0..MaxAllocations

Sound ==
    /\ Consistent(policy) /\ Consistent(previous)
    /\ \A k \in Present : Consistent(slots[k])

\* The slot of the last total told, and the other one.
Kept == IF told = 0 THEN slots[Slot(told)] = Gone ELSE slots[Slot(told)] # Gone /\ slots[Slot(told)].all = told
Other == slots[Slot(told + 1)] # Gone => slots[Slot(told + 1)].all \in {told + 1, told - 1}

InMemory ==
    /\ phase = "idle" => policy.all = told
    /\ phase \in Busy => policy.all = told + 1 /\ previous.all = told
    /\ phase = "deleted" => slots[Slot(told + 1)] = Gone
    /\ phase = "created" => slots[Slot(told + 1)] = policy

Inductive == Typed /\ Sound /\ Kept /\ Other /\ InMemory

LEMMA Turns ==
    \A n \in Nat :
        /\ Slot(n) \in 0..1 /\ Slot(n + 1) \in 0..1
        /\ Slot(n + 1) # Slot(n) /\ Slot(n + 2) = Slot(n)
        /\ \A k \in 0..1 : k = Slot(n) \/ k = Slot(n + 1)
BY SMT DEF Slot

LEMMA SnapshotIsThere ==
    ASSUME BudgetAssumption, NEW s \in Snapshots
    PROVE  s # Gone
<1>1. s \in [all : Nat, easy : Nat, hard : Nat, history : Seq({"easy", "medium", "hard"})]
  BY DEF Snapshots, Difficulty, BudgetAssumption
<1> QED BY <1>1 DEF BudgetAssumption

\* One more row: the history keeps its length or grows by one, and the rows of a
\* kind grow by at most the row added.
LEMMA LastRowsShape ==
    ASSUME BudgetAssumption, NEW h \in Seq(Difficulty), NEW kind \in Difficulty,
           Len(h) <= MaxHistory
    PROVE  LET new == LastRows(Append(h, kind))
               cut == IF Len(h) = MaxHistory THEN 1 ELSE 0 IN
           /\ new \in Seq(Difficulty)
           /\ Len(new) = Len(h) + 1 - cut
           /\ \A i \in 1..Len(new) : new[i] = Append(h, kind)[i + cut]
<1> DEFINE longer == Append(h, kind)
           cut == IF Len(h) = MaxHistory THEN 1 ELSE 0
<1>0. MaxHistory \in Nat \ {0} /\ Len(h) \in Nat /\ cut \in 0..1
  BY DEF BudgetAssumption
<1>1. longer \in Seq(Difficulty) /\ Len(longer) = Len(h) + 1
  BY AppendProperties
<1>2. LastRows(longer) = SubSeq(longer, cut + 1, Len(longer))
  <2>1. CASE Len(h) = MaxHistory
    <3>1. ~ (Len(longer) < MaxHistory) /\ Len(longer) - MaxHistory + 1 = cut + 1
      BY <1>0, <1>1, <2>1
    <3> QED BY <3>1, Zenon DEF LastRows
  <2>2. CASE Len(h) # MaxHistory
    <3>1. /\ Len(longer) <= MaxHistory
          /\ Len(longer) - Len(longer) + 1 = cut + 1
          /\ Len(longer) < MaxHistory \/ Len(longer) = MaxHistory
      BY <1>0, <1>1, <2>2
    <3> QED BY <3>1, Zenon DEF LastRows
  <2> QED BY <2>1, <2>2
<1>3. /\ SubSeq(longer, cut + 1, Len(longer)) \in Seq(Difficulty)
      /\ Len(SubSeq(longer, cut + 1, Len(longer))) = Len(longer) - cut
      /\ \A i \in 1 .. Len(longer) - cut : SubSeq(longer, cut + 1, Len(longer))[i] = longer[i + cut]
  <2>1. cut \in 0..1 /\ cut + 1 <= Len(longer) /\ cut + 1 \in Int /\ Len(longer) \in Int
    BY <1>0, <1>1
  <2>2. \A i \in cut + 1 .. Len(longer) : longer[i] \in Difficulty
    BY <1>1, <2>1
  <2> DEFINE part == SubSeq(longer, cut + 1, Len(longer))
  <2> HIDE DEF longer, cut
  <2>3. /\ part \in Seq(Difficulty)
        /\ Len(part) = IF cut + 1 <= Len(longer) THEN Len(longer) - (cut + 1) + 1 ELSE 0
        /\ \A i \in 1 .. Len(longer) - (cut + 1) + 1 : part[i] = longer[(cut + 1) + i - 1]
    BY <2>1, <2>2, SubSeqProperties
  <2> QED BY <2>1, <2>3
<1>4. /\ LastRows(longer) \in Seq(Difficulty)
      /\ Len(LastRows(longer)) = Len(h) + 1 - cut
      /\ \A i \in 1 .. Len(LastRows(longer)) : LastRows(longer)[i] = longer[i + cut]
  <2> HIDE DEF longer, cut
  <2> QED BY <1>0, <1>1, <1>2, <1>3
<1> QED BY <1>4

LEMMA VisibleGrows ==
    ASSUME BudgetAssumption, NEW s \in Snapshots, NEW kind \in Difficulty, NEW other \in Difficulty,
           Len(s.history) <= MaxHistory
    PROVE  /\ Visible(s, other) \in Nat
           /\ Visible(Counted(s, kind), other) \in Nat
           /\ Visible(Counted(s, kind), other) <= Visible(s, other) + (IF other = kind THEN 1 ELSE 0)
<1> DEFINE h == s.history
           new == LastRows(Append(h, kind))
           cut == IF Len(h) = MaxHistory THEN 1 ELSE 0
           Old == {i \in 1..Len(h) : h[i] = other}
           All == {i \in 1..Len(h) + 1 : Append(h, kind)[i] = other}
           New == {i \in 1..Len(new) : new[i] = other}
<1>0. h \in Seq(Difficulty) /\ Len(h) \in Nat /\ cut \in 0..1
  BY DEF Snapshots
<1>1. /\ new \in Seq(Difficulty)
      /\ Len(new) = Len(h) + 1 - cut
      /\ \A i \in 1..Len(new) : new[i] = Append(h, kind)[i + cut]
  BY <1>0, LastRowsShape
<1>2. IsFiniteSet(Old) /\ Cardinality(Old) \in Nat
  <2>1. IsFiniteSet(1..Len(h))
    BY <1>0, FS_Interval
  <2> QED BY <2>1, FS_Subset, FS_CardinalityType
<1>3. IsFiniteSet(All) /\ Cardinality(All) \in Nat
      /\ Cardinality(All) = Cardinality(Old) + (IF other = kind THEN 1 ELSE 0)
  <2>1. Append(h, kind)[Len(h) + 1] = kind /\ \A i \in 1..Len(h) : Append(h, kind)[i] = h[i]
    BY <1>0, AppendProperties
  <2>2. All = IF other = kind THEN Old \cup {Len(h) + 1} ELSE Old
    BY <1>0, <2>1
  <2>3. Len(h) + 1 \notin Old
    BY <1>0
  <2> HIDE DEF Old, All
  <2> QED BY <1>2, <2>2, <2>3, FS_AddElement, FS_CardinalityType
<1>4. IsFiniteSet(New) /\ Cardinality(New) \in Nat /\ Cardinality(New) <= Cardinality(All)
  <2> DEFINE shift == [i \in New |-> i + cut]
  <2>1. ASSUME NEW i \in New PROVE i + cut \in All
    <3>1. i \in 1..Len(new) /\ new[i] = other
      OBVIOUS
    <3> HIDE DEF new, cut
    <3> QED BY <1>0, <1>1, <3>1
  <2>2. ASSUME NEW i \in New, NEW j \in New, i + cut = j + cut PROVE i = j
    <3>1. i \in Int /\ j \in Int
      <4> HIDE DEF new
      <4> QED BY <1>0, <1>1
    <3> QED BY <1>0, <2>2, <3>1
  <2>3. shift \in Injection(New, All)
    <3> HIDE DEF New, All, cut
    <3> QED BY <2>1, <2>2 DEF Injection, IsInjective
  <2> HIDE DEF New, All, shift
  <2> QED BY <1>3, <2>3, FS_Injection, FS_CardinalityType
<1>5. Visible(s, other) = Cardinality(Old)
  <2>1. DOMAIN h = 1..Len(h)
    <3> HIDE DEF h
    <3> QED BY <1>0
  <2> QED BY <2>1, Zenon DEF Visible
<1>6. Visible(Counted(s, kind), other) = Cardinality(New)
  <2>1. DOMAIN new = 1..Len(new)
    <3>1. new \in Seq(Difficulty)
      BY <1>1
    <3> HIDE DEF new
    <3> QED BY <3>1
  <2>2. Counted(s, kind).history = new
    BY Zenon DEF Counted
  <2> QED BY <2>1, <2>2, Zenon DEF Visible
<1> HIDE DEF Old, All, New, h, new, cut
<1> QED BY <1>2, <1>3, <1>4, <1>5, <1>6

\* What is counted from a consistent snapshot is one.
LEMMA CountedIsConsistent ==
    ASSUME BudgetAssumption, NEW s \in Snapshots, NEW kind \in Difficulty,
           Consistent(s), s.all < MaxAllocations
    PROVE  /\ Counted(s, kind) \in Snapshots
           /\ Consistent(Counted(s, kind))
           /\ Counted(s, kind).all = s.all + 1
<1> DEFINE c == Counted(s, kind)
           cut == IF Len(s.history) = MaxHistory THEN 1 ELSE 0
<1>0. /\ s.history \in Seq(Difficulty) /\ Len(s.history) \in Nat
      /\ s.all \in Nat /\ s.easy \in Nat /\ s.hard \in Nat
      /\ MaxAllocations \in Nat /\ MaxHistory \in Nat \ {0}
  BY DEF Snapshots, BudgetAssumption
<1>1. Len(s.history) = (IF s.all < MaxHistory THEN s.all ELSE MaxHistory)
  BY DEF Consistent
<1>2. Len(s.history) <= MaxHistory
  BY <1>0, <1>1
<1>3. c.history \in Seq(Difficulty) /\ Len(c.history) = Len(s.history) + 1 - cut
  BY <1>0, <1>2, LastRowsShape DEF Counted
<1>4. /\ c.all = s.all + 1
      /\ c.easy = s.easy + (IF kind = "easy" THEN 1 ELSE 0)
      /\ c.hard = s.hard + (IF kind = "hard" THEN 1 ELSE 0)
  BY DEF Counted
<1>5. c \in Snapshots
  BY <1>0, <1>3, <1>4 DEF Counted, Snapshots
<1>6. \A other \in Difficulty :
        /\ Visible(s, other) \in Nat /\ Visible(c, other) \in Nat
        /\ Visible(c, other) <= Visible(s, other) + (IF other = kind THEN 1 ELSE 0)
  BY <1>2, VisibleGrows
<1>7. Consistent(c)
  <2>1. Len(c.history) = (IF c.all < MaxHistory THEN c.all ELSE MaxHistory)
    <3> HIDE DEF c
    <3> QED BY <1>0, <1>1, <1>3, <1>4
  <2>2. /\ s.easy + s.hard <= s.all
        /\ Visible(s, "easy") <= s.easy /\ Visible(s, "hard") <= s.hard
        /\ Visible(s, "medium") <= s.all - s.easy - s.hard
    BY DEF Consistent
  <2>3. /\ Visible(c, "easy") <= Visible(s, "easy") + (IF kind = "easy" THEN 1 ELSE 0)
        /\ Visible(c, "hard") <= Visible(s, "hard") + (IF kind = "hard" THEN 1 ELSE 0)
        /\ Visible(c, "medium") <= Visible(s, "medium") + (IF kind = "medium" THEN 1 ELSE 0)
        /\ \A other \in Difficulty : Visible(s, other) \in Nat /\ Visible(c, other) \in Nat
    <3> HIDE DEF c
    <3> QED BY <1>6 DEF Difficulty
  <2>4. /\ c.easy + c.hard <= c.all
        /\ Visible(c, "easy") <= c.easy /\ Visible(c, "hard") <= c.hard
        /\ Visible(c, "medium") <= c.all - c.easy - c.hard
    <3> HIDE DEF c
    <3>0. /\ Visible(s, "easy") \in Nat /\ Visible(s, "hard") \in Nat /\ Visible(s, "medium") \in Nat
          /\ Visible(c, "easy") \in Nat /\ Visible(c, "hard") \in Nat /\ Visible(c, "medium") \in Nat
      BY <2>3 DEF Difficulty
    <3>4. s.all \in Nat /\ s.easy \in Nat /\ s.hard \in Nat
      BY <1>0
    <3>1. CASE kind = "easy"
      <4>1. c.all = s.all + 1 /\ c.easy = s.easy + 1 /\ c.hard = s.hard
        BY <1>0, <1>4, <3>1
      <4>2. Visible(c, "easy") <= Visible(s, "easy") + 1 /\ Visible(c, "hard") <= Visible(s, "hard") + 0 /\ Visible(c, "medium") <= Visible(s, "medium") + 0
        BY <2>3, <3>1
      <4> QED BY <2>2, <3>0, <3>4, <4>1, <4>2
    <3>2. CASE kind = "hard"
      <4>1. c.all = s.all + 1 /\ c.easy = s.easy /\ c.hard = s.hard + 1
        BY <1>0, <1>4, <3>2
      <4>2. Visible(c, "easy") <= Visible(s, "easy") + 0 /\ Visible(c, "hard") <= Visible(s, "hard") + 1 /\ Visible(c, "medium") <= Visible(s, "medium") + 0
        BY <2>3, <3>2
      <4> QED BY <2>2, <3>0, <3>4, <4>1, <4>2
    <3>3. CASE kind = "medium"
      <4>1. c.all = s.all + 1 /\ c.easy = s.easy /\ c.hard = s.hard
        BY <1>0, <1>4, <3>3
      <4>2. Visible(c, "easy") <= Visible(s, "easy") + 0 /\ Visible(c, "hard") <= Visible(s, "hard") + 0 /\ Visible(c, "medium") <= Visible(s, "medium") + 1
        BY <2>3, <3>3
      <4> QED BY <2>2, <3>0, <3>4, <4>1, <4>2
    <3> QED BY <3>1, <3>2, <3>3 DEF Difficulty
  <2> HIDE DEF c
  <2> QED BY <2>1, <2>4 DEF Consistent
<1> QED BY <1>4, <1>5, <1>7

LEMMA FreshIsConsistent ==
    ASSUME BudgetAssumption
    PROVE  Fresh \in Snapshots /\ Fresh.all = 0 /\ Consistent(Fresh)
<1>1. Fresh \in Snapshots /\ Fresh.all = 0
  BY DEF Fresh, Snapshots, BudgetAssumption
<1>2. Consistent(Fresh)
  <2>1. \A k : Visible(Fresh, k) = 0
    <3>1. \A k : {i \in DOMAIN Fresh.history : Fresh.history[i] = k} = {}
      BY DEF Fresh
    <3> QED BY <3>1, FS_EmptySet DEF Visible
  <2>2. Fresh.all = 0 /\ Fresh.easy = 0 /\ Fresh.hard = 0 /\ Len(Fresh.history) = 0
    BY DEF Fresh
  <2> HIDE DEF Fresh
  <2> QED BY <2>1, <2>2 DEF Consistent, BudgetAssumption
<1> QED BY <1>1, <1>2

LEMMA Initially == ASSUME BudgetAssumption, Init PROVE Inductive
<1>3. Present = {}
  BY DEF Init, Present
<1>4. Kept /\ Other
  BY Turns DEF Init, Kept, Other
<1>5. InMemory
  BY DEF Init, InMemory, Busy, Fresh
<1>6. Typed
  BY FreshIsConsistent DEF Init, Typed, BudgetAssumption, Busy
<1>7. Sound
  BY FreshIsConsistent, <1>3 DEF Init, Sound
<1> QED BY <1>4, <1>5, <1>6, <1>7 DEF Inductive

LEMMA AllocateKeeps ==
    ASSUME BudgetAssumption, Inductive, Allocate
    PROVE  Inductive' /\ UNCHANGED told
<1>1. PICK kind \in Difficulty : policy' = Counted(policy, kind)
  BY DEF Allocate
<1>2. /\ phase = "idle" /\ policy.all < MaxAllocations /\ policy.all = told
      /\ previous' = policy /\ phase' = "counted" /\ slots' = slots /\ told' = told
      /\ policy \in Snapshots /\ Consistent(policy)
  BY DEF Allocate, Inductive, InMemory, Sound, Typed
<1>3. policy' \in Snapshots /\ Consistent(policy') /\ policy'.all = told + 1
  BY <1>1, <1>2, CountedIsConsistent
<1>4. Typed'
  BY <1>2, <1>3 DEF Inductive, Typed, Busy
<1>5. Sound'
  <2>1. Consistent(policy)' /\ Consistent(previous)'
    BY <1>2, <1>3 DEF Consistent, Visible
  <2>2. Present' = Present
    BY <1>2 DEF Present
  <2>3. \A k \in Present : Consistent(slots[k])'
    BY <1>2 DEF Inductive, Sound, Consistent, Visible
  <2> QED BY <2>1, <2>2, <2>3 DEF Sound
<1>6. Kept' /\ Other'
  BY <1>2 DEF Inductive, Kept, Other, Slot
<1>7. InMemory'
  BY <1>2, <1>3 DEF InMemory, Busy
<1> QED BY <1>2, <1>4, <1>5, <1>6, <1>7 DEF Inductive

LEMMA DeleteKeeps ==
    ASSUME BudgetAssumption, Inductive, DeleteSlot
    PROVE  Inductive' /\ UNCHANGED told
<1>1. /\ phase = "counted" /\ phase' = "deleted" /\ told' = told
      /\ policy' = policy /\ previous' = previous
      /\ policy.all = told + 1 /\ previous.all = told /\ told \in Nat
      /\ slots \in [0..1 -> Snapshots \cup {Gone}]
  BY DEF DeleteSlot, Inductive, InMemory, Busy, Typed
<1>0. slots' = [slots EXCEPT ![Slot(told + 1)] = Gone]
  BY <1>1 DEF DeleteSlot
<1>2. slots'[Slot(told + 1)] = Gone /\ slots'[Slot(told)] = slots[Slot(told)]
  BY <1>0, <1>1, Turns
<1>3. Typed'
  BY <1>0, <1>1, Turns DEF Inductive, Typed, Busy
<1>4. Sound'
  <2>1. \A k \in Present' : k \in Present /\ slots'[k] = slots[k]
    BY <1>0, <1>1, Turns DEF Present
  <2> QED BY <1>1, <2>1 DEF Inductive, Sound, Consistent, Visible
<1>5. Kept' /\ Other'
  BY <1>1, <1>2 DEF Inductive, Kept, Other, Slot
<1>6. InMemory'
  BY <1>1, <1>2 DEF InMemory, Busy, Slot
<1> QED BY <1>1, <1>3, <1>4, <1>5, <1>6 DEF Inductive

LEMMA CreateKeeps ==
    ASSUME BudgetAssumption, Inductive, CreateSlot
    PROVE  Inductive' /\ UNCHANGED told
<1>1. /\ phase = "deleted" /\ phase' = "created" /\ told' = told
      /\ policy' = policy /\ previous' = previous
      /\ policy.all = told + 1 /\ previous.all = told /\ told \in Nat
      /\ policy \in Snapshots /\ Consistent(policy)
      /\ slots \in [0..1 -> Snapshots \cup {Gone}]
  BY DEF CreateSlot, Inductive, InMemory, Busy, Typed, Sound
<1>0. slots' = [slots EXCEPT ![Slot(told + 1)] = policy]
  BY <1>1 DEF CreateSlot
<1>2. slots'[Slot(told + 1)] = policy /\ slots'[Slot(told)] = slots[Slot(told)]
  BY <1>0, <1>1, Turns
<1>3. Typed'
  BY <1>0, <1>1, Turns DEF Inductive, Typed, Busy
<1>4. Sound'
  <2>1. \A k \in Present' : slots'[k] = policy \/ (k \in Present /\ slots'[k] = slots[k])
    BY <1>0, <1>1, Turns DEF Present
  <2> QED BY <1>1, <2>1 DEF Inductive, Sound, Consistent, Visible
<1>5. Kept' /\ Other'
  BY <1>1, <1>2 DEF Inductive, Kept, Other, Slot
<1>6. InMemory'
  BY <1>1, <1>2 DEF InMemory, Busy, Slot
<1> QED BY <1>1, <1>3, <1>4, <1>5, <1>6 DEF Inductive

\* The answered total moves to the slot just created; the other slot holds one less.
LEMMA AnswerKeeps ==
    ASSUME BudgetAssumption, Inductive, Answer
    PROVE  Inductive' /\ told' = told + 1
<1>1. /\ phase = "created" /\ phase' = "idle" /\ told' = told + 1
      /\ policy' = policy /\ previous' = previous /\ slots' = slots
      /\ policy.all = told + 1 /\ told \in Nat
      /\ policy \in Snapshots /\ slots[Slot(told + 1)] = policy
  BY DEF Answer, Inductive, InMemory, Busy, Typed
<1>2. Typed'
  BY <1>1 DEF Inductive, Typed, Busy, Snapshots
<1>3. Sound'
  BY <1>1 DEF Inductive, Sound, Consistent, Visible, Present
<1>4. Kept'
  BY <1>1, SnapshotIsThere DEF Kept, Slot
<1>5. Other'
  <2>1. Slot(told' + 1) = Slot(told)
    BY <1>1 DEF Slot
  <2>2. slots[Slot(told)] # Gone => slots[Slot(told)].all = told
    BY DEF Inductive, Kept
  <2>3. slots'[Slot(told' + 1)] # Gone => slots'[Slot(told' + 1)].all = told' - 1
    BY <1>1, <2>1, <2>2
  <2> QED BY <2>3 DEF Other, Slot
<1>6. InMemory'
  BY <1>1 DEF InMemory, Busy
<1> QED BY <1>1, <1>2, <1>3, <1>4, <1>5, <1>6 DEF Inductive

LEMMA UndoAndCrashKeep ==
    ASSUME BudgetAssumption, Inductive, Undo \/ Crash
    PROVE  Inductive' /\ UNCHANGED told
<1>1. /\ told' = told /\ slots' = slots /\ previous' = previous
      /\ policy' \in {policy, previous}
      /\ phase' = "down" \/ (phase' = "idle" /\ policy'.all = told)
  BY DEF Undo, Crash, Inductive, InMemory, Busy
<1>2. Typed'
  BY <1>1 DEF Inductive, Typed
<1>3. Sound'
  BY <1>1 DEF Inductive, Sound, Consistent, Visible, Present
<1>4. Kept' /\ Other'
  BY <1>1 DEF Inductive, Kept, Other, Slot
<1>5. InMemory'
  BY <1>1 DEF InMemory, Busy
<1> QED BY <1>1, <1>2, <1>3, <1>4, <1>5 DEF Inductive

\* A restart tells what was told, or one more when the save of an unanswered
\* allocation had taken effect.
LEMMA RestartKeeps ==
    ASSUME BudgetAssumption, Inductive, Restart
    PROVE  Inductive' /\ told' \in {told, told + 1}
<1>1. /\ phase' = "idle" /\ slots' = slots /\ previous' = previous
      /\ Newest(policy') /\ told' = policy'.all /\ told \in 0..MaxAllocations
      /\ slots \in [0..1 -> Snapshots \cup {Gone}]
      /\ Kept /\ Other
  BY DEF Restart, Inductive, Typed
<1>2. /\ Slot(told) \in 0..1 /\ Slot(told + 1) \in 0..1 /\ DOMAIN slots = 0..1
      /\ \A k \in 0..1 : k = Slot(told) \/ k = Slot(told + 1)
  BY <1>1, Turns
<1>3. \A k \in Present : slots[k] \in Snapshots /\ Consistent(slots[k])
  BY <1>1 DEF Present, Inductive, Sound
<1>4. Fresh \in Snapshots /\ Fresh.all = 0 /\ Consistent(Fresh)
  BY FreshIsConsistent
<1>5. policy' \in Snapshots /\ Consistent(policy')
  BY <1>1, <1>3, <1>4 DEF Newest
<1>6. policy'.all \in {told, told + 1}
  <2>1. CASE Present = {}
    <3>1. told = 0
      BY <1>1, <1>2, <2>1 DEF Kept, Present
    <3>2. policy' = Fresh
      BY <1>1, <2>1 DEF Newest
    <3> QED BY <1>4, <3>1, <3>2
  <2>2. CASE Present # {}
    <3>1. PICK k \in Present : policy' = slots[k] /\ \A j \in Present : slots[j].all <= slots[k].all
      BY <1>1, <2>2 DEF Newest
    <3>2. \A j \in Present : slots[j].all \in Nat /\ j \in 0..1 /\ slots[j] # Gone
      BY <1>2, <1>3 DEF Present, Snapshots
    <3>3. CASE told = 0
      <4>1. k = Slot(told + 1) /\ slots[k].all \in {told + 1, told - 1} /\ slots[k].all \in Nat
        BY <1>1, <1>2, <3>2, <3>3 DEF Kept, Other
      <4> QED BY <3>1, <3>3, <4>1
    <3>4. CASE told # 0
      <4>1. Slot(told) \in Present /\ slots[Slot(told)].all = told
        BY <1>1, <1>2, <3>4 DEF Kept, Present
      <4>2. CASE k = Slot(told)
        BY <3>1, <4>1, <4>2
      <4>3. CASE k = Slot(told + 1)
        <5>1. slots[k].all \in {told + 1, told - 1} /\ told <= slots[k].all /\ slots[k].all \in Nat
          BY <1>1, <3>1, <3>2, <4>1, <4>3 DEF Other
        <5> QED BY <1>1, <3>1, <5>1
      <4> QED BY <1>2, <3>2, <4>2, <4>3
    <3> QED BY <3>3, <3>4
  <2> QED BY <2>1, <2>2
<1>7. Typed'
  BY <1>1, <1>5 DEF Inductive, Typed, Snapshots
<1>8. Sound'
  BY <1>1, <1>5 DEF Inductive, Sound, Consistent, Visible, Present
<1>9. Kept' /\ Other'
  <2>1. CASE told' = told
    <3>1. told' = told /\ slots' = slots /\ Kept /\ Other
      BY <1>1, <2>1
    <3> QED BY <3>1 DEF Kept, Other, Slot
  <2>2. CASE told' = told + 1
    <3>0. policy'.all # Fresh.all
      BY <1>1, <1>4, <2>2
    <3>1. \E k \in Present : policy' = slots[k]
      BY <1>1, <3>0, Zenon DEF Newest
    <3>2. PICK k \in Present : policy' = slots[k]
      BY <3>1
    <3>3. k \in 0..1 /\ slots[k] # Gone /\ slots[k].all = told + 1
      BY <1>1, <1>2, <2>2, <3>2 DEF Present
    <3>4. k = Slot(told + 1)
      BY <1>1, <1>2, <3>3 DEF Kept
    <3>5. Kept'
      BY <1>1, <2>2, <3>3, <3>4 DEF Kept, Slot
    <3>6. Slot(told' + 1) = Slot(told)
      BY <1>1, <2>2, Turns DEF Slot
    <3>7. slots[Slot(told)] # Gone => slots[Slot(told)].all = told
      BY <1>1 DEF Kept
    <3>8. slots'[Slot(told' + 1)] # Gone => slots'[Slot(told' + 1)].all = told' - 1
      BY <1>1, <2>2, <3>6, <3>7
    <3> QED BY <3>5, <3>8 DEF Other, Slot
  <2> QED BY <1>1, <1>6, <2>1, <2>2
<1>10. InMemory'
  BY <1>1 DEF InMemory, Busy
<1> QED BY <1>1, <1>6, <1>7, <1>8, <1>9, <1>10 DEF Inductive

LEMMA StepKeeps ==
    ASSUME BudgetAssumption, Inductive, [Next]_budgetVars
    PROVE  Inductive' /\ (told' = told \/ told' = told + 1)
<1>1. CASE UNCHANGED budgetVars
  BY <1>1 DEF budgetVars, Inductive, Typed, Sound, Consistent, Visible, Present, Kept, Other, InMemory, Slot
<1>2. CASE Next
  BY <1>2, AllocateKeeps, DeleteKeeps, CreateKeeps, AnswerKeeps, UndoAndCrashKeep, RestartKeeps DEF Next
<1> QED BY <1>1, <1>2

\* Whatever crashes or fails during a save, an answered allocation is counted
\* after every restart, an unanswered one adds at most itself, and no snapshot
\* in the graph keeps the application from starting: the persisted counter
\* implements DurableCounter.
THEOREM Durable ==
    ASSUME BudgetAssumption
    PROVE  Spec => BudgetIsDurable
<1>1. Init => Inductive
  BY Initially
<1>2. Inductive /\ [Next]_budgetVars => Inductive'
  BY StepKeeps
<1>3. Inductive /\ [Next]_budgetVars => [Promise!Tell]_told
  BY StepKeeps DEF Promise!Tell
<1>4. Init => Promise!Init
  BY DEF Init, Promise!Init
<1>5. Inductive => \A k \in Present : Consistent(slots[k])
  BY DEF Inductive, Sound
<1> QED BY <1>1, <1>2, <1>3, <1>4, <1>5, PTL DEF Spec, BudgetIsDurable, Promise!Spec

\* The type invariant of the run, from the same inductive invariant.
THEOREM TypeCorrect ==
    ASSUME BudgetAssumption
    PROVE  Spec => []TypeOK
<1>1. Init => Inductive
  BY Initially
<1>2. Inductive /\ [Next]_budgetVars => Inductive'
  BY StepKeeps
<1>3. Inductive => TypeOK
  <2> SUFFICES ASSUME Inductive PROVE TypeOK
    OBVIOUS
  <2>1. \A s \in {policy, previous} \cup {slots[k] : k \in Present} : s \in Snapshots /\ Consistent(s)
    BY DEF Inductive, Typed, Sound, Present
  <2>2. \A s \in Snapshots : Consistent(s) => Len(s.history) <= MaxHistory /\ {s.all, s.easy, s.hard} \subseteq Nat
    BY DEF Snapshots, Consistent, BudgetAssumption
  <2>3. phase \in {"idle", "counted", "deleted", "created", "down"} /\ told \in 0..MaxAllocations + 1
    BY DEF Inductive, Typed, Busy, BudgetAssumption
  <2> QED BY <2>1, <2>2, <2>3 DEF TypeOK
<1> QED BY <1>1, <1>2, <1>3, PTL DEF Spec
=============================================================================
