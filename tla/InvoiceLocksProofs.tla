-------------------------- MODULE InvoiceLocksProofs --------------------------
(***************************************************************************)
(* Machine-checked proofs about InvoiceLocks, for any number of requests,  *)
(* invoices and entry objects and any max_locks: the manager implements a  *)
(* mutex per invoice (KeyedMutex) and its release never raises.            *)
(*                                                                         *)
(* The heart of the invariant is Counts: an entry's two counters say who   *)
(* is between the two blocks of acquire and who is past them, so an entry  *)
(* that looks idle is used by nobody and may leave the table.              *)
(***************************************************************************)
EXTENDS InvoiceLocks, FiniteSetTheorems, TLAPS

USE DEF tableVars

-----------------------------------------------------------------------------
(* The inductive invariant *)

Away == {"idle", "learnWait", "learnWork"}

\* A request outside acquire and release has no entry; one inside has.
Bound ==
    \A t \in Threads :
        /\ pc[t] \in Away => key[t] = None /\ ent[t] = None
        /\ pc[t] \notin Away => key[t] \in Keys /\ ent[t] \in Objs

CountedOn(o) == {t \in Threads : ent[t] = o /\ pc[t] \in Counted}
HoldingOn(o) == {t \in Threads : ent[t] = o /\ pc[t] \in Holding}

\* The counters of an entry.
Counts ==
    /\ \A o \in Objs : waiters[o] = Cardinality(CountedOn(o))
    /\ \A t \in Threads : pc[t] \in Holding => holders[ent[t]] = 1
    /\ \A o \in Objs : holders[o] # 0 => HoldingOn(o) # {}

\* Its second half, for a lemma of its own.
HoldersCount ==
    /\ \A t \in Threads : pc[t] \in Holding => holders[ent[t]] = 1
    /\ \A o \in Objs : holders[o] # 0 => HoldingOn(o) # {}

\* An entry that is in use is the one the table names.
Named == \A t \in Threads : pc[t] \in Counted \cup Holding => entries[key[t]] = ent[t]

\* No two invoices share an entry.
Separate ==
    \A j, k \in Keys : entries[j] = entries[k] /\ entries[k] # None => j = k

\* Who owns an entry's lock.
Locked ==
    /\ \A t \in Threads : pc[t] \in Owning => lock[ent[t]] = t
    /\ \A o \in Objs, t \in Threads : lock[o] = t => ent[t] = o /\ pc[t] \in Owning

IInv == TypeOK /\ Bound /\ Counts /\ Named /\ Separate /\ Locked

-----------------------------------------------------------------------------
(* Counting *)

LEMMA FiniteCounted == \A o : IsFiniteSet(CountedOn(o))
BY ConstantsAssumption, FS_Subset DEF CountedOn

\* A request joins the counted ones of an entry, or leaves them.
LEMMA CountUp ==
    ASSUME NEW S, IsFiniteSet(S), NEW x, x \notin S
    PROVE  Cardinality(S \cup {x}) = Cardinality(S) + 1
BY FS_AddElement

LEMMA CountDown ==
    ASSUME NEW S, IsFiniteSet(S), NEW x, x \in S
    PROVE  /\ Cardinality(S \ {x}) = Cardinality(S) - 1
           /\ Cardinality(S) \in Nat \ {0}
BY FS_RemoveElement, FS_CardinalityType, FS_EmptySet

\* An idle entry is used by nobody and its lock is free.
LEMMA IdleIsUnused ==
    ASSUME IInv, NEW o \in Objs, Idle(o)
    PROVE  /\ lock[o] = None
           /\ \A t \in Threads : ent[t] = o => pc[t] = "cleanup"
<1>. USE ConstantsAssumption
<1>1. CountedOn(o) = {}
  BY FiniteCounted, FS_EmptySet DEF IInv, Counts, Idle
<1>2. \A t \in Threads : ent[t] = o => pc[t] \notin Counted \cup Holding
  BY <1>1 DEF IInv, Counts, Idle, CountedOn, Holding
<1>3. \A t \in Threads : ent[t] = o => pc[t] = "cleanup"
  BY <1>2 DEF IInv, Bound, TypeOK, Locations, Away, Counted, Holding
<1>4. lock[o] = None
  BY <1>3 DEF IInv, Locked, TypeOK, Owning, Holding
<1>. QED BY <1>3, <1>4

-----------------------------------------------------------------------------
(* Every step keeps the invariant *)

\* At most one request is past acquire on an entry, and it owns the lock.
LEMMA SoleHolder ==
    ASSUME IInv, NEW t \in Threads, NEW u \in Threads,
           pc[t] \in Owning, pc[u] \in Owning, ent[t] = ent[u]
    PROVE  t = u
BY DEF IInv, Locked

\* What a releasing request finds in the table is its own entry.
LEMMA OwnEntry ==
    ASSUME IInv, NEW t \in Threads, pc[t] \in Holding
    PROVE  /\ ent[t] \in Objs /\ key[t] \in Keys /\ entries[key[t]] = ent[t]
           /\ holders[ent[t]] = 1 /\ lock[ent[t]] = t
BY DEF IInv, Bound, Away, Named, Counts, Locked, Owning, Holding

\* A counted request is among the counted ones of its entry.
LEMMA CountedPositive ==
    ASSUME IInv, NEW t \in Threads, pc[t] \in Counted
    PROVE  /\ ent[t] \in Objs /\ key[t] \in Keys
           /\ t \in CountedOn(ent[t])
           /\ waiters[ent[t]] \in Nat \ {0}
           /\ Cardinality(CountedOn(ent[t]) \ {t}) = waiters[ent[t]] - 1
<1>1. ent[t] \in Objs /\ key[t] \in Keys
  BY DEF IInv, Bound, Away, Counted
<1>2. t \in CountedOn(ent[t])
  BY DEF CountedOn
<1>. QED BY <1>1, <1>2, FiniteCounted, CountDown DEF IInv, Counts

LEMMA TypeNext == IInv /\ [Next]_vars => TypeOK'
<1>. SUFFICES ASSUME IInv, [Next]_vars PROVE TypeOK'
  OBVIOUS
<1>. USE ConstantsAssumption
<1>1. ASSUME NEW t \in Threads, LearnAsk(t) PROVE TypeOK'
  BY <1>1 DEF LearnAsk, Goto, IInv, TypeOK, Bound, Away, Locations
<1>2. ASSUME NEW t \in Threads, NEW k \in Keys, EnterKnown(t, k) PROVE TypeOK'
  <2>1. entries[k] \in Objs /\ waiters[entries[k]] + 1 \in Nat
    BY <1>2 DEF EnterKnown, IInv, TypeOK
  <2>. QED BY <1>2, <2>1 DEF EnterKnown, Goto, IInv, TypeOK, Locations
<1>3. ASSUME NEW t \in Threads, NEW k \in Keys, EnterNew(t, k) PROVE TypeOK'
  <2>1. PICK o \in Objs, R \in SUBSET Registered :
           /\ entries' = [j \in Keys |-> IF j = k THEN o ELSE IF j \in R THEN None ELSE entries[j]]
           /\ lock' = [lock EXCEPT ![o] = None]
           /\ waiters' = [waiters EXCEPT ![o] = 1]
           /\ holders' = [holders EXCEPT ![o] = 0]
           /\ ent' = [ent EXCEPT ![t] = o]
    BY <1>3 DEF EnterNew
  <2>. QED BY <1>3, <2>1 DEF EnterNew, Goto, IInv, TypeOK, Locations
<1>4. ASSUME NEW t \in Threads, Win(t) PROVE TypeOK'
  BY <1>4 DEF Win, Goto, IInv, TypeOK, Bound, Away, Locations
<1>5. ASSUME NEW t \in Threads, TimeOut(t) PROVE TypeOK'
  BY <1>5 DEF TimeOut, Goto, IInv, TypeOK, Bound, Away, Locations
<1>6. ASSUME NEW t \in Threads, CountWinner(t) PROVE TypeOK'
  <2>1. /\ ent[t] \in Objs
        /\ waiters[ent[t]] - 1 \in Nat /\ holders[ent[t]] + 1 \in Nat
    <3>1. pc[t] \in Counted
      BY <1>6 DEF CountWinner, Counted
    <3>2. ent[t] \in Objs /\ waiters[ent[t]] \in Nat \ {0}
      BY <3>1, CountedPositive
    <3>3. holders[ent[t]] \in Nat
      BY <3>2 DEF IInv, TypeOK
    <3>. QED BY <3>2, <3>3
  <2>. QED BY <1>6, <2>1 DEF CountWinner, Goto, IInv, TypeOK, Locations
<1>7. ASSUME NEW t \in Threads, CountLoser(t) PROVE TypeOK'
  <2>1. ent[t] \in Objs /\ waiters[ent[t]] - 1 \in Nat
    <3>1. pc[t] \in Counted
      BY <1>7 DEF CountLoser, Counted
    <3>2. ent[t] \in Objs /\ waiters[ent[t]] \in Nat \ {0}
      BY <3>1, CountedPositive
    <3>. QED BY <3>2
  <2>. QED BY <1>7, <2>1 DEF CountLoser, Goto, IInv, TypeOK, Locations
<1>8. ASSUME NEW t \in Threads, Cleanup(t) PROVE TypeOK'
  BY <1>8 DEF Cleanup, Dropped, Return, Goto, IInv, TypeOK, Locations
<1>9. ASSUME NEW t \in Threads, DomainAcquire(t) PROVE TypeOK'
  BY <1>9 DEF DomainAcquire, Goto, IInv, TypeOK, Bound, Away, Locations
<1>10. ASSUME NEW t \in Threads, DomainRelease(t) PROVE TypeOK'
  BY <1>10 DEF DomainRelease, Goto, IInv, TypeOK, Bound, Away, Locations
<1>11. ASSUME NEW t \in Threads, ReleaseInvoice(t) PROVE TypeOK'
  <2>1. entries[key[t]] \in Objs /\ holders[entries[key[t]]] - 1 \in Nat
    BY <1>11 DEF ReleaseInvoice, CanRelease, IInv, Bound, Away, TypeOK
  <2>. QED BY <1>11, <2>1 DEF ReleaseInvoice, Dropped, Return, Goto, IInv, TypeOK, Locations
<1>12. ASSUME NEW t \in Threads, LearnAcquire(t) PROVE TypeOK'
  BY <1>12 DEF LearnAcquire, Goto, IInv, TypeOK, Bound, Away, Locations
<1>13. ASSUME NEW t \in Threads, LearnRelease(t) PROVE TypeOK'
  BY <1>13 DEF LearnRelease, Goto, Return, IInv, TypeOK, Bound, Away, Locations
<1>14. CASE UNCHANGED vars
  BY <1>14 DEF vars, IInv, TypeOK, Bound, Away, Locations
<1>. QED BY <1>1, <1>2, <1>3, <1>4, <1>5, <1>6, <1>7, <1>8, <1>9, <1>10, <1>11, <1>12, <1>13, <1>14 DEF Next, Ask, Proceed

LEMMA BoundNext == IInv /\ [Next]_vars => Bound'
<1>. SUFFICES ASSUME IInv, [Next]_vars PROVE Bound'
  OBVIOUS
<1>. USE ConstantsAssumption
<1>1. ASSUME NEW t \in Threads, LearnAsk(t) PROVE Bound'
  BY <1>1 DEF LearnAsk, Goto, IInv, TypeOK, Bound, Away
<1>2. ASSUME NEW t \in Threads, NEW k \in Keys, EnterKnown(t, k) PROVE Bound'
  BY <1>2 DEF EnterKnown, Goto, IInv, TypeOK, Bound, Away
<1>3. ASSUME NEW t \in Threads, NEW k \in Keys, EnterNew(t, k) PROVE Bound'
  BY <1>3 DEF EnterNew, Goto, IInv, TypeOK, Bound, Away
<1>4. ASSUME NEW t \in Threads, Win(t) PROVE Bound'
  BY <1>4 DEF Win, Goto, IInv, TypeOK, Bound, Away
<1>5. ASSUME NEW t \in Threads, TimeOut(t) PROVE Bound'
  BY <1>5 DEF TimeOut, Goto, IInv, TypeOK, Bound, Away
<1>6. ASSUME NEW t \in Threads, CountWinner(t) PROVE Bound'
  BY <1>6 DEF CountWinner, Goto, IInv, TypeOK, Bound, Away
<1>7. ASSUME NEW t \in Threads, CountLoser(t) PROVE Bound'
  BY <1>7 DEF CountLoser, Goto, IInv, TypeOK, Bound, Away
<1>8. ASSUME NEW t \in Threads, Cleanup(t) PROVE Bound'
  BY <1>8 DEF Cleanup, Goto, Return, IInv, TypeOK, Bound, Away
<1>9. ASSUME NEW t \in Threads, DomainAcquire(t) PROVE Bound'
  BY <1>9 DEF DomainAcquire, Goto, IInv, TypeOK, Bound, Away
<1>10. ASSUME NEW t \in Threads, DomainRelease(t) PROVE Bound'
  BY <1>10 DEF DomainRelease, Goto, IInv, TypeOK, Bound, Away
<1>11. ASSUME NEW t \in Threads, ReleaseInvoice(t) PROVE Bound'
  BY <1>11 DEF ReleaseInvoice, Goto, Return, IInv, TypeOK, Bound, Away
<1>12. ASSUME NEW t \in Threads, LearnAcquire(t) PROVE Bound'
  BY <1>12 DEF LearnAcquire, Goto, IInv, TypeOK, Bound, Away
<1>13. ASSUME NEW t \in Threads, LearnRelease(t) PROVE Bound'
  BY <1>13 DEF LearnRelease, Goto, Return, IInv, TypeOK, Bound, Away
<1>14. CASE UNCHANGED vars
  BY <1>14 DEF vars, IInv, TypeOK, Bound, Away
<1>. QED BY <1>1, <1>2, <1>3, <1>4, <1>5, <1>6, <1>7, <1>8, <1>9, <1>10, <1>11, <1>12, <1>13, <1>14 DEF Next, Ask, Proceed

\* waiters counts the requests between the two blocks of acquire.
LEMMA WaitersNext == IInv /\ [Next]_vars => (\A o \in Objs : waiters[o] = Cardinality(CountedOn(o)))'
<1>. SUFFICES ASSUME IInv, [Next]_vars PROVE (\A o \in Objs : waiters[o] = Cardinality(CountedOn(o)))'
  OBVIOUS
<1>. USE ConstantsAssumption
<1>1. ASSUME NEW t \in Threads, LearnAsk(t) PROVE (\A o \in Objs : waiters[o] = Cardinality(CountedOn(o)))'
  <2>1. \A o \in Objs : CountedOn(o)' = CountedOn(o)
    BY <1>1 DEF LearnAsk, Goto, IInv, Bound, Away, TypeOK, CountedOn, Counted
  <2>. QED BY <1>1, <2>1 DEF LearnAsk, IInv, Counts
<1>2. ASSUME NEW t \in Threads, NEW k \in Keys, EnterKnown(t, k) PROVE (\A o \in Objs : waiters[o] = Cardinality(CountedOn(o)))'
  <2>1. waiters' = [waiters EXCEPT ![entries[k]] = @ + 1] /\ entries[k] \in Objs
    BY <1>2 DEF EnterKnown, IInv, TypeOK
  <2>2. t \notin CountedOn(entries[k])
    BY <1>2 DEF EnterKnown, CountedOn, Counted
  <2>3. \A o \in Objs : CountedOn(o)' = IF o = entries[k] THEN CountedOn(o) \cup {t} ELSE CountedOn(o)
    BY <1>2 DEF EnterKnown, Goto, IInv, TypeOK, Bound, Away, CountedOn, Counted
  <2>4. Cardinality(CountedOn(entries[k]) \cup {t}) = Cardinality(CountedOn(entries[k])) + 1
    BY <2>2, FiniteCounted, CountUp
  <2>. QED BY <2>1, <2>3, <2>4 DEF IInv, Counts, TypeOK
<1>3. ASSUME NEW t \in Threads, NEW k \in Keys, EnterNew(t, k) PROVE (\A o \in Objs : waiters[o] = Cardinality(CountedOn(o)))'
  <2>1. PICK o \in Objs : /\ Unused(o) /\ waiters' = [waiters EXCEPT ![o] = 1]
                           /\ ent' = [ent EXCEPT ![t] = o]
    BY <1>3 DEF EnterNew
  <2>2. CountedOn(o) = {}
    BY <2>1 DEF Unused, CountedOn
  <2>3. \A x \in Objs : CountedOn(x)' = IF x = o THEN {t} ELSE CountedOn(x)
    BY <1>3, <2>1, <2>2 DEF EnterNew, Goto, IInv, TypeOK, Bound, Away, CountedOn, Counted
  <2>4. Cardinality({t}) = 1
    BY FS_Singleton
  <2>. QED BY <2>1, <2>3, <2>4 DEF IInv, Counts, TypeOK
<1>4. ASSUME NEW t \in Threads, Win(t) PROVE (\A o \in Objs : waiters[o] = Cardinality(CountedOn(o)))'
  <2>1. \A o \in Objs : CountedOn(o)' = CountedOn(o)
    BY <1>4 DEF Win, Goto, IInv, Bound, Away, TypeOK, CountedOn, Counted
  <2>. QED BY <1>4, <2>1 DEF Win, IInv, Counts
<1>5. ASSUME NEW t \in Threads, TimeOut(t) PROVE (\A o \in Objs : waiters[o] = Cardinality(CountedOn(o)))'
  <2>1. \A o \in Objs : CountedOn(o)' = CountedOn(o)
    BY <1>5 DEF TimeOut, Goto, IInv, Bound, Away, TypeOK, CountedOn, Counted
  <2>. QED BY <1>5, <2>1 DEF TimeOut, IInv, Counts
<1>6. ASSUME NEW t \in Threads, CountWinner(t) PROVE (\A o \in Objs : waiters[o] = Cardinality(CountedOn(o)))'
  <2>1. pc[t] \in Counted
    BY <1>6 DEF CountWinner, Counted
  <2>2. waiters' = [waiters EXCEPT ![ent[t]] = @ - 1]
    BY <1>6 DEF CountWinner
  <2>3. \A o \in Objs : CountedOn(o)' = IF o = ent[t] THEN CountedOn(o) \ {t} ELSE CountedOn(o)
    BY <1>6 DEF CountWinner, Goto, IInv, TypeOK, CountedOn, Counted
  <2>. QED BY <2>1, <2>2, <2>3, CountedPositive DEF IInv, Counts, TypeOK
<1>7. ASSUME NEW t \in Threads, CountLoser(t) PROVE (\A o \in Objs : waiters[o] = Cardinality(CountedOn(o)))'
  <2>1. pc[t] \in Counted
    BY <1>7 DEF CountLoser, Counted
  <2>2. waiters' = [waiters EXCEPT ![ent[t]] = @ - 1]
    BY <1>7 DEF CountLoser
  <2>3. \A o \in Objs : CountedOn(o)' = IF o = ent[t] THEN CountedOn(o) \ {t} ELSE CountedOn(o)
    BY <1>7 DEF CountLoser, Goto, IInv, TypeOK, CountedOn, Counted
  <2>. QED BY <2>1, <2>2, <2>3, CountedPositive DEF IInv, Counts, TypeOK
<1>8. ASSUME NEW t \in Threads, Cleanup(t) PROVE (\A o \in Objs : waiters[o] = Cardinality(CountedOn(o)))'
  <2>1. \A o \in Objs : CountedOn(o)' = CountedOn(o)
    BY <1>8 DEF Cleanup, Goto, Return, IInv, Bound, Away, TypeOK, CountedOn, Counted
  <2>. QED BY <1>8, <2>1 DEF Cleanup, IInv, Counts
<1>9. ASSUME NEW t \in Threads, DomainAcquire(t) PROVE (\A o \in Objs : waiters[o] = Cardinality(CountedOn(o)))'
  <2>1. \A o \in Objs : CountedOn(o)' = CountedOn(o)
    BY <1>9 DEF DomainAcquire, Goto, IInv, Bound, Away, TypeOK, CountedOn, Counted
  <2>. QED BY <1>9, <2>1 DEF DomainAcquire, IInv, Counts
<1>10. ASSUME NEW t \in Threads, DomainRelease(t) PROVE (\A o \in Objs : waiters[o] = Cardinality(CountedOn(o)))'
  <2>1. \A o \in Objs : CountedOn(o)' = CountedOn(o)
    BY <1>10 DEF DomainRelease, Goto, IInv, Bound, Away, TypeOK, CountedOn, Counted
  <2>. QED BY <1>10, <2>1 DEF DomainRelease, IInv, Counts
<1>11. ASSUME NEW t \in Threads, ReleaseInvoice(t) PROVE (\A o \in Objs : waiters[o] = Cardinality(CountedOn(o)))'
  <2>1. \A o \in Objs : CountedOn(o)' = CountedOn(o)
    BY <1>11 DEF ReleaseInvoice, Goto, Return, IInv, Bound, Away, TypeOK, CountedOn, Counted
  <2>. QED BY <1>11, <2>1 DEF ReleaseInvoice, IInv, Counts
<1>12. ASSUME NEW t \in Threads, LearnAcquire(t) PROVE (\A o \in Objs : waiters[o] = Cardinality(CountedOn(o)))'
  <2>1. \A o \in Objs : CountedOn(o)' = CountedOn(o)
    BY <1>12 DEF LearnAcquire, Goto, IInv, Bound, Away, TypeOK, CountedOn, Counted
  <2>. QED BY <1>12, <2>1 DEF LearnAcquire, IInv, Counts
<1>13. ASSUME NEW t \in Threads, LearnRelease(t) PROVE (\A o \in Objs : waiters[o] = Cardinality(CountedOn(o)))'
  <2>1. \A o \in Objs : CountedOn(o)' = CountedOn(o)
    BY <1>13 DEF LearnRelease, Goto, Return, IInv, Bound, Away, TypeOK, CountedOn, Counted
  <2>. QED BY <1>13, <2>1 DEF LearnRelease, IInv, Counts
<1>14. CASE UNCHANGED vars
  BY <1>14 DEF vars, IInv, Counts, CountedOn
<1>. QED BY <1>1, <1>2, <1>3, <1>4, <1>5, <1>6, <1>7, <1>8, <1>9, <1>10, <1>11, <1>12, <1>13, <1>14 DEF Next, Ask, Proceed

\* holders is 1 exactly while a request is past acquire.
LEMMA HoldersNext == IInv /\ [Next]_vars => HoldersCount'
<1>. SUFFICES ASSUME IInv, [Next]_vars PROVE HoldersCount'
  OBVIOUS
<1>. USE ConstantsAssumption
<1>1. ASSUME NEW t \in Threads, LearnAsk(t) PROVE HoldersCount'
  BY <1>1 DEF LearnAsk, Goto, IInv, TypeOK, Bound, Away, Counts, HoldersCount, HoldingOn, Holding
<1>2. ASSUME NEW t \in Threads, NEW k \in Keys, EnterKnown(t, k) PROVE HoldersCount'
  BY <1>2 DEF EnterKnown, Goto, IInv, TypeOK, Bound, Away, Counts, HoldersCount, HoldingOn, Holding
<1>3. ASSUME NEW t \in Threads, NEW k \in Keys, EnterNew(t, k) PROVE HoldersCount'
  <2>1. PICK o \in Objs : /\ Unused(o) /\ holders' = [holders EXCEPT ![o] = 0]
                           /\ ent' = [ent EXCEPT ![t] = o]
    BY <1>3 DEF EnterNew
  <2>2. pc' = [pc EXCEPT ![t] = "wait"] /\ pc[t] = "idle"
    BY <1>3 DEF EnterNew, Goto
  <2>. QED BY <2>1, <2>2 DEF Unused, IInv, TypeOK, Bound, Away, Counts, HoldersCount, HoldingOn, Holding
<1>4. ASSUME NEW t \in Threads, Win(t) PROVE HoldersCount'
  BY <1>4 DEF Win, Goto, IInv, TypeOK, Bound, Away, Counts, HoldersCount, HoldingOn, Holding
<1>5. ASSUME NEW t \in Threads, TimeOut(t) PROVE HoldersCount'
  BY <1>5 DEF TimeOut, Goto, IInv, TypeOK, Bound, Away, Counts, HoldersCount, HoldingOn, Holding
<1>6. ASSUME NEW t \in Threads, CountWinner(t) PROVE HoldersCount'
  <2>1. ent[t] \in Objs /\ lock[ent[t]] = t
    BY <1>6 DEF CountWinner, IInv, Bound, Away, Locked, Owning
  <2>2. holders[ent[t]] = 0
    BY <1>6, <2>1, SoleHolder DEF CountWinner, IInv, TypeOK, Counts, HoldersCount, HoldingOn, Holding, Owning
  <2>3. holders' = [holders EXCEPT ![ent[t]] = 1]
    BY <1>6, <2>1, <2>2 DEF CountWinner, IInv, TypeOK
  <2>4. pc' = [pc EXCEPT ![t] = "domain"] /\ ent' = ent /\ pc[t] = "won"
    BY <1>6 DEF CountWinner, Goto
  <2>. QED BY <2>1, <2>2, <2>3, <2>4 DEF IInv, TypeOK, Counts, HoldersCount, HoldingOn, Holding
<1>7. ASSUME NEW t \in Threads, CountLoser(t) PROVE HoldersCount'
  BY <1>7 DEF CountLoser, Goto, IInv, TypeOK, Bound, Away, Counts, HoldersCount, HoldingOn, Holding
<1>8. ASSUME NEW t \in Threads, Cleanup(t) PROVE HoldersCount'
  BY <1>8 DEF Cleanup, Goto, Return, IInv, TypeOK, Bound, Away, Counts, HoldersCount, HoldingOn, Holding
<1>9. ASSUME NEW t \in Threads, DomainAcquire(t) PROVE HoldersCount'
  BY <1>9 DEF DomainAcquire, Goto, IInv, TypeOK, Bound, Away, Counts, HoldersCount, HoldingOn, Holding
<1>10. ASSUME NEW t \in Threads, DomainRelease(t) PROVE HoldersCount'
  BY <1>10 DEF DomainRelease, Goto, IInv, TypeOK, Bound, Away, Counts, HoldersCount, HoldingOn, Holding
<1>11. ASSUME NEW t \in Threads, ReleaseInvoice(t) PROVE HoldersCount'
  <2>1. pc[t] \in Holding /\ pc[t] \in Owning
    BY <1>11 DEF ReleaseInvoice, Holding, Owning
  <2>2. /\ ent[t] \in Objs /\ entries[key[t]] = ent[t] /\ holders[ent[t]] = 1
    BY <2>1, OwnEntry
  <2>3. holders' = [holders EXCEPT ![ent[t]] = 0]
    BY <1>11, <2>2 DEF ReleaseInvoice, IInv, TypeOK
  <2>4. /\ pc' = [pc EXCEPT ![t] = "idle"] /\ ent' = [ent EXCEPT ![t] = None]
    BY <1>11 DEF ReleaseInvoice, Return, Goto
  <2>5. \A u \in Threads \ {t} : pc[u] \in Holding => ent[u] # ent[t]
    BY <2>1, SoleHolder DEF Owning
  <2>. QED BY <2>1, <2>2, <2>3, <2>4, <2>5 DEF IInv, TypeOK, Counts, HoldersCount, HoldingOn, Holding
<1>12. ASSUME NEW t \in Threads, LearnAcquire(t) PROVE HoldersCount'
  BY <1>12 DEF LearnAcquire, Goto, IInv, TypeOK, Bound, Away, Counts, HoldersCount, HoldingOn, Holding
<1>13. ASSUME NEW t \in Threads, LearnRelease(t) PROVE HoldersCount'
  BY <1>13 DEF LearnRelease, Goto, Return, IInv, TypeOK, Bound, Away, Counts, HoldersCount, HoldingOn, Holding
<1>14. CASE UNCHANGED vars
  BY <1>14 DEF vars, IInv, TypeOK, Bound, Away, Counts, HoldersCount, HoldingOn, Holding
<1>. QED BY <1>1, <1>2, <1>3, <1>4, <1>5, <1>6, <1>7, <1>8, <1>9, <1>10, <1>11, <1>12, <1>13, <1>14 DEF Next, Ask, Proceed

LEMMA NamedNext == IInv /\ [Next]_vars => Named'
<1>. SUFFICES ASSUME IInv, [Next]_vars PROVE Named'
  OBVIOUS
<1>. USE ConstantsAssumption
<1>1. ASSUME NEW t \in Threads, LearnAsk(t) PROVE Named'
  BY <1>1 DEF LearnAsk, Goto, IInv, TypeOK, Bound, Away, Named, Counted, Holding
<1>2. ASSUME NEW t \in Threads, NEW k \in Keys, EnterKnown(t, k) PROVE Named'
  BY <1>2 DEF EnterKnown, Goto, IInv, TypeOK, Bound, Away, Named, Counted, Holding
<1>3. ASSUME NEW t \in Threads, NEW k \in Keys, EnterNew(t, k) PROVE Named'
  <2>1. PICK o \in Objs, R \in SUBSET Registered :
           /\ Evicts(R) /\ ent' = [ent EXCEPT ![t] = o]
           /\ entries' = [j \in Keys |-> IF j = k THEN o ELSE IF j \in R THEN None ELSE entries[j]]
    BY <1>3 DEF EnterNew
  <2>2. \A j \in R : j \in Keys /\ entries[j] \in Objs /\ Idle(entries[j])
    BY <2>1 DEF Evicts, Registered, IInv, TypeOK
  <2>3. \A u \in Threads : pc[u] \in Counted \cup Holding => key[u] \notin R
    BY <2>2, IdleIsUnused DEF IInv, Named, Counted, Holding
  <2>4. /\ pc' = [pc EXCEPT ![t] = "wait"] /\ pc[t] = "idle" /\ key' = [key EXCEPT ![t] = k]
        /\ entries[k] = None
    BY <1>3 DEF EnterNew, Goto
  <2>. QED BY <2>1, <2>3, <2>4 DEF IInv, TypeOK, Bound, Away, Named, Counted, Holding
<1>4. ASSUME NEW t \in Threads, Win(t) PROVE Named'
  BY <1>4 DEF Win, Goto, IInv, TypeOK, Bound, Away, Named, Counted, Holding
<1>5. ASSUME NEW t \in Threads, TimeOut(t) PROVE Named'
  BY <1>5 DEF TimeOut, Goto, IInv, TypeOK, Bound, Away, Named, Counted, Holding
<1>6. ASSUME NEW t \in Threads, CountWinner(t) PROVE Named'
  BY <1>6 DEF CountWinner, Goto, IInv, TypeOK, Bound, Away, Named, Counted, Holding
<1>7. ASSUME NEW t \in Threads, CountLoser(t) PROVE Named'
  BY <1>7 DEF CountLoser, Goto, IInv, TypeOK, Bound, Away, Named, Counted, Holding
<1>8. ASSUME NEW t \in Threads, Cleanup(t) PROVE Named'
  <2>1. ent[t] \in Objs /\ key[t] \in Keys /\ pc[t] = "cleanup"
    BY <1>8 DEF Cleanup, IInv, Bound, Away
  <2>2. CASE Idle(ent[t])
    <3>1. \A u \in Threads : ent[u] = ent[t] => pc[u] = "cleanup"
      BY <2>1, <2>2, IdleIsUnused
    <3>. QED BY <1>8, <2>1, <3>1 DEF Cleanup, Dropped, Return, Goto, IInv, TypeOK, Bound, Away, Named, Counted, Holding
  <2>3. CASE ~Idle(ent[t])
    BY <1>8, <2>1, <2>3 DEF Cleanup, Dropped, Return, Goto, IInv, TypeOK, Bound, Away, Named, Counted, Holding
  <2>. QED BY <2>2, <2>3
<1>9. ASSUME NEW t \in Threads, DomainAcquire(t) PROVE Named'
  BY <1>9 DEF DomainAcquire, Goto, IInv, TypeOK, Bound, Away, Named, Counted, Holding
<1>10. ASSUME NEW t \in Threads, DomainRelease(t) PROVE Named'
  BY <1>10 DEF DomainRelease, Goto, IInv, TypeOK, Bound, Away, Named, Counted, Holding
<1>11. ASSUME NEW t \in Threads, ReleaseInvoice(t) PROVE Named'
  <2>1. pc[t] \in Holding /\ pc[t] \in Owning
    BY <1>11 DEF ReleaseInvoice, Holding, Owning
  <2>2. ent[t] \in Objs /\ key[t] \in Keys /\ entries[key[t]] = ent[t]
    BY <2>1, OwnEntry
  <2>3. entries' = Dropped(key[t], ent[t], holders[ent[t]] = 1 /\ waiters[ent[t]] = 0)
    BY <1>11, <2>2 DEF ReleaseInvoice
  <2>4. \A u \in Threads \ {t} : pc[u] \in Holding => ent[u] # ent[t]
    BY <2>1, SoleHolder DEF Owning
  <2>5. waiters[ent[t]] = 0 => \A u \in Threads : pc[u] \in Counted => ent[u] # ent[t]
    BY <2>2, CountedPositive
  <2>6. /\ pc' = [pc EXCEPT ![t] = "idle"] /\ ent' = [ent EXCEPT ![t] = None]
        /\ key' = [key EXCEPT ![t] = None]
    BY <1>11 DEF ReleaseInvoice, Return, Goto
  <2>. QED BY <2>2, <2>3, <2>4, <2>5, <2>6 DEF Dropped, IInv, TypeOK, Bound, Away, Named, Counted, Holding
<1>12. ASSUME NEW t \in Threads, LearnAcquire(t) PROVE Named'
  BY <1>12 DEF LearnAcquire, Goto, IInv, TypeOK, Bound, Away, Named, Counted, Holding
<1>13. ASSUME NEW t \in Threads, LearnRelease(t) PROVE Named'
  BY <1>13 DEF LearnRelease, Goto, Return, IInv, TypeOK, Bound, Away, Named, Counted, Holding
<1>14. CASE UNCHANGED vars
  BY <1>14 DEF vars, IInv, TypeOK, Bound, Away, Named, Counted, Holding
<1>. QED BY <1>1, <1>2, <1>3, <1>4, <1>5, <1>6, <1>7, <1>8, <1>9, <1>10, <1>11, <1>12, <1>13, <1>14 DEF Next, Ask, Proceed

LEMMA SeparateNext == IInv /\ [Next]_vars => Separate'
<1>. SUFFICES ASSUME IInv, [Next]_vars PROVE Separate'
  OBVIOUS
<1>. USE ConstantsAssumption
<1>1. ASSUME NEW t \in Threads, LearnAsk(t) PROVE Separate'
  BY <1>1 DEF LearnAsk, Goto, IInv, TypeOK, Separate
<1>2. ASSUME NEW t \in Threads, NEW k \in Keys, EnterKnown(t, k) PROVE Separate'
  BY <1>2 DEF EnterKnown, Goto, IInv, TypeOK, Separate
<1>3. ASSUME NEW t \in Threads, NEW k \in Keys, EnterNew(t, k) PROVE Separate'
  BY <1>3 DEF EnterNew, Goto, IInv, TypeOK, Separate, Unused
<1>4. ASSUME NEW t \in Threads, Win(t) PROVE Separate'
  BY <1>4 DEF Win, Goto, IInv, TypeOK, Separate
<1>5. ASSUME NEW t \in Threads, TimeOut(t) PROVE Separate'
  BY <1>5 DEF TimeOut, Goto, IInv, TypeOK, Separate
<1>6. ASSUME NEW t \in Threads, CountWinner(t) PROVE Separate'
  BY <1>6 DEF CountWinner, Goto, IInv, TypeOK, Separate
<1>7. ASSUME NEW t \in Threads, CountLoser(t) PROVE Separate'
  BY <1>7 DEF CountLoser, Goto, IInv, TypeOK, Separate
<1>8. ASSUME NEW t \in Threads, Cleanup(t) PROVE Separate'
  BY <1>8 DEF Cleanup, Goto, Return, IInv, TypeOK, Separate, Dropped
<1>9. ASSUME NEW t \in Threads, DomainAcquire(t) PROVE Separate'
  BY <1>9 DEF DomainAcquire, Goto, IInv, TypeOK, Separate
<1>10. ASSUME NEW t \in Threads, DomainRelease(t) PROVE Separate'
  BY <1>10 DEF DomainRelease, Goto, IInv, TypeOK, Separate
<1>11. ASSUME NEW t \in Threads, ReleaseInvoice(t) PROVE Separate'
  BY <1>11 DEF ReleaseInvoice, Goto, Return, IInv, TypeOK, Separate, Dropped
<1>12. ASSUME NEW t \in Threads, LearnAcquire(t) PROVE Separate'
  BY <1>12 DEF LearnAcquire, Goto, IInv, TypeOK, Separate
<1>13. ASSUME NEW t \in Threads, LearnRelease(t) PROVE Separate'
  BY <1>13 DEF LearnRelease, Goto, Return, IInv, TypeOK, Separate
<1>14. CASE UNCHANGED vars
  BY <1>14 DEF vars, IInv, TypeOK, Separate
<1>. QED BY <1>1, <1>2, <1>3, <1>4, <1>5, <1>6, <1>7, <1>8, <1>9, <1>10, <1>11, <1>12, <1>13, <1>14 DEF Next, Ask, Proceed

LEMMA LockedNext == IInv /\ [Next]_vars => Locked'
<1>. SUFFICES ASSUME IInv, [Next]_vars PROVE Locked'
  OBVIOUS
<1>. USE ConstantsAssumption
<1>1. ASSUME NEW t \in Threads, LearnAsk(t) PROVE Locked'
  BY <1>1 DEF LearnAsk, Goto, IInv, TypeOK, Bound, Away, Locked, Owning, Holding
<1>2. ASSUME NEW t \in Threads, NEW k \in Keys, EnterKnown(t, k) PROVE Locked'
  BY <1>2 DEF EnterKnown, Goto, IInv, TypeOK, Bound, Away, Locked, Owning, Holding
<1>3. ASSUME NEW t \in Threads, NEW k \in Keys, EnterNew(t, k) PROVE Locked'
  <2>1. PICK o \in Objs : Unused(o) /\ lock' = [lock EXCEPT ![o] = None] /\ ent' = [ent EXCEPT ![t] = o]
    BY <1>3 DEF EnterNew
  <2>2. pc' = [pc EXCEPT ![t] = "wait"] /\ pc[t] = "idle"
    BY <1>3 DEF EnterNew, Goto
  <2>. QED BY <2>1, <2>2 DEF Unused, IInv, TypeOK, Bound, Away, Locked, Owning, Holding
<1>4. ASSUME NEW t \in Threads, Win(t) PROVE Locked'
  BY <1>4 DEF Win, Goto, IInv, TypeOK, Bound, Away, Locked, Owning, Holding
<1>5. ASSUME NEW t \in Threads, TimeOut(t) PROVE Locked'
  BY <1>5 DEF TimeOut, Goto, IInv, TypeOK, Bound, Away, Locked, Owning, Holding
<1>6. ASSUME NEW t \in Threads, CountWinner(t) PROVE Locked'
  BY <1>6 DEF CountWinner, Goto, IInv, TypeOK, Bound, Away, Locked, Owning, Holding
<1>7. ASSUME NEW t \in Threads, CountLoser(t) PROVE Locked'
  BY <1>7 DEF CountLoser, Goto, IInv, TypeOK, Bound, Away, Locked, Owning, Holding
<1>8. ASSUME NEW t \in Threads, Cleanup(t) PROVE Locked'
  BY <1>8 DEF Cleanup, Goto, Return, IInv, TypeOK, Bound, Away, Locked, Owning, Holding
<1>9. ASSUME NEW t \in Threads, DomainAcquire(t) PROVE Locked'
  BY <1>9 DEF DomainAcquire, Goto, IInv, TypeOK, Bound, Away, Locked, Owning, Holding
<1>10. ASSUME NEW t \in Threads, DomainRelease(t) PROVE Locked'
  BY <1>10 DEF DomainRelease, Goto, IInv, TypeOK, Bound, Away, Locked, Owning, Holding
<1>11. ASSUME NEW t \in Threads, ReleaseInvoice(t) PROVE Locked'
  <2>1. pc[t] \in Holding /\ pc[t] \in Owning
    BY <1>11 DEF ReleaseInvoice, Holding, Owning
  <2>2. ent[t] \in Objs /\ entries[key[t]] = ent[t] /\ lock[ent[t]] = t
    BY <2>1, OwnEntry
  <2>3. lock' = [lock EXCEPT ![ent[t]] = None]
    BY <1>11, <2>2 DEF ReleaseInvoice
  <2>4. /\ pc' = [pc EXCEPT ![t] = "idle"] /\ ent' = [ent EXCEPT ![t] = None]
    BY <1>11 DEF ReleaseInvoice, Return, Goto
  <2>. QED BY <2>1, <2>2, <2>3, <2>4 DEF IInv, TypeOK, Locked, Owning, Holding
<1>12. ASSUME NEW t \in Threads, LearnAcquire(t) PROVE Locked'
  BY <1>12 DEF LearnAcquire, Goto, IInv, TypeOK, Bound, Away, Locked, Owning, Holding
<1>13. ASSUME NEW t \in Threads, LearnRelease(t) PROVE Locked'
  BY <1>13 DEF LearnRelease, Goto, Return, IInv, TypeOK, Bound, Away, Locked, Owning, Holding
<1>14. CASE UNCHANGED vars
  BY <1>14 DEF vars, IInv, TypeOK, Bound, Away, Locked, Owning, Holding
<1>. QED BY <1>1, <1>2, <1>3, <1>4, <1>5, <1>6, <1>7, <1>8, <1>9, <1>10, <1>11, <1>12, <1>13, <1>14 DEF Next, Ask, Proceed

LEMMA InitIInv == Init => IInv
<1>. SUFFICES ASSUME Init PROVE IInv
  OBVIOUS
<1>. USE ConstantsAssumption
<1>1. TypeOK /\ Bound /\ Named /\ Separate /\ Locked
  BY DEF Init, TypeOK, Locations, Bound, Away, Named, Counted, Holding, Separate, Locked, Owning
<1>2. \A o \in Objs : CountedOn(o) = {}
  BY DEF Init, CountedOn
<1>3. Counts
  BY <1>2, FS_EmptySet DEF Init, Counts, Holding
<1>. QED BY <1>1, <1>3 DEF IInv

LEMMA NextIInv == IInv /\ [Next]_vars => IInv'
<1>. SUFFICES ASSUME IInv, [Next]_vars PROVE IInv'
  OBVIOUS
<1>1. Counts'
  BY WaitersNext, HoldersNext DEF Counts, HoldersCount
<1>. QED BY <1>1, TypeNext, BoundNext, NamedNext, SeparateNext, LockedNext DEF IInv

LEMMA Invariance == Spec => []IInv
BY InitIInv, NextIInv, PTL DEF Spec

\* No entry is left in the table that no request refers to: dropped by the last
\* request that used it, or kept by one that still does, which is counted on it.
LEMMA StillUsed ==
    ASSUME IInv, NEW t \in Threads, NEW o \in Objs, NEW k \in Keys,
           pc[t] \notin Counted \cup Holding, entries[k] = o, ~Idle(o)
    PROVE  \E u \in Threads \ {t} : key[u] = k /\ ent[u] = o
<1>. USE ConstantsAssumption
<1>1. PICK u \in Threads : ent[u] = o /\ pc[u] \in Counted \cup Holding
  <2>1. CASE holders[o] # 0
    BY <2>1 DEF IInv, Counts, HoldingOn
  <2>2. CASE holders[o] = 0
    <3>1. Cardinality(CountedOn(o)) # 0
      BY <2>2 DEF IInv, Counts, Idle
    <3>2. CountedOn(o) # {}
      BY <3>1, FS_EmptySet
    <3>. QED BY <3>2 DEF CountedOn
  <2>. QED BY <2>1, <2>2
<1>2. entries[key[u]] = o /\ key[u] \in Keys
  BY <1>1 DEF IInv, Named, Bound, Away, Counted, Holding
<1>3. key[u] = k
  BY <1>2 DEF IInv, Separate
<1>. QED BY <1>1, <1>3

LEMMA ForgottenNext == IInv /\ NoForgottenEntry /\ [Next]_vars => NoForgottenEntry'
<1>. SUFFICES ASSUME IInv, NoForgottenEntry, [Next]_vars,
                     NEW k \in Keys, entries'[k] # None
              PROVE  \E t \in Threads : key'[t] = k /\ ent'[t] = entries'[k]
  BY DEF NoForgottenEntry, Registered
<1>. USE ConstantsAssumption
<1>0. entries[k] # None => \E u \in Threads : key[u] = k /\ ent[u] = entries[k]
  BY DEF NoForgottenEntry, Registered
<1>1. ASSUME NEW t \in Threads,
             \/ LearnAsk(t) \/ Win(t) \/ TimeOut(t) \/ CountWinner(t) \/ CountLoser(t)
             \/ DomainAcquire(t) \/ DomainRelease(t) \/ LearnAcquire(t)
      PROVE  \E u \in Threads : key'[u] = k /\ ent'[u] = entries'[k]
  BY <1>0, <1>1 DEF LearnAsk, Win, TimeOut, CountWinner, CountLoser, DomainAcquire, DomainRelease, LearnAcquire
<1>2. ASSUME NEW t \in Threads, NEW j \in Keys, EnterKnown(t, j)
      PROVE  \E u \in Threads : key'[u] = k /\ ent'[u] = entries'[k]
  BY <1>0, <1>2 DEF EnterKnown, IInv, TypeOK, Bound, Away
<1>3. ASSUME NEW t \in Threads, NEW j \in Keys, EnterNew(t, j)
      PROVE  \E u \in Threads : key'[u] = k /\ ent'[u] = entries'[k]
  <2>1. PICK o \in Objs, R \in SUBSET Registered :
           /\ entries' = [i \in Keys |-> IF i = j THEN o ELSE IF i \in R THEN None ELSE entries[i]]
           /\ ent' = [ent EXCEPT ![t] = o]
    BY <1>3 DEF EnterNew
  <2>2. key' = [key EXCEPT ![t] = j] /\ key[t] = None
    BY <1>3 DEF EnterNew, IInv, Bound, Away
  <2>. QED BY <1>0, <2>1, <2>2 DEF IInv, TypeOK
<1>4. ASSUME NEW t \in Threads, Cleanup(t)
      PROVE  \E u \in Threads : key'[u] = k /\ ent'[u] = entries'[k]
  <2>1. ent[t] \in Objs /\ key[t] \in Keys /\ pc[t] \notin Counted \cup Holding
    BY <1>4 DEF Cleanup, IInv, Bound, Away, Counted, Holding
  <2>2. /\ key' = [key EXCEPT ![t] = None] /\ ent' = [ent EXCEPT ![t] = None]
        /\ entries' = Dropped(key[t], ent[t], Idle(ent[t]))
    BY <1>4 DEF Cleanup, Return
  <2>3. entries[k] # None /\ entries'[k] = entries[k]
    BY <2>2 DEF Dropped, IInv, TypeOK
  <2>4. PICK u \in Threads : key[u] = k /\ ent[u] = entries[k]
    BY <1>0, <2>3
  <2>5. CASE u # t
    BY <2>2, <2>3, <2>4, <2>5 DEF IInv, TypeOK
  <2>6. CASE u = t
    <3>1. ~Idle(ent[t])
      BY <2>1, <2>2, <2>3, <2>4, <2>6 DEF Dropped, IInv, TypeOK
    <3>2. \E v \in Threads \ {t} : key[v] = k /\ ent[v] = ent[t]
      BY <2>1, <2>4, <2>6, <3>1, StillUsed
    <3>. QED BY <2>2, <2>3, <2>4, <2>6, <3>2 DEF IInv, TypeOK
  <2>. QED BY <2>5, <2>6
<1>5. ASSUME NEW t \in Threads, ReleaseInvoice(t)
      PROVE  \E u \in Threads : key'[u] = k /\ ent'[u] = entries'[k]
  <2>1. pc[t] \in Holding
    BY <1>5 DEF ReleaseInvoice, Holding
  <2>2. /\ ent[t] \in Objs /\ key[t] \in Keys /\ entries[key[t]] = ent[t] /\ holders[ent[t]] = 1
    BY <2>1, OwnEntry
  <2>3. /\ key' = [key EXCEPT ![t] = None] /\ ent' = [ent EXCEPT ![t] = None]
        /\ entries' = Dropped(key[t], ent[t], waiters[ent[t]] = 0)
    BY <1>5, <2>2 DEF ReleaseInvoice, Return
  <2>4. entries[k] # None /\ entries'[k] = entries[k]
    BY <2>3 DEF Dropped, IInv, TypeOK
  <2>5. PICK u \in Threads : key[u] = k /\ ent[u] = entries[k]
    BY <1>0, <2>4
  <2>6. CASE u # t
    BY <2>3, <2>4, <2>5, <2>6 DEF IInv, TypeOK
  <2>7. CASE u = t
    <3>1. waiters[ent[t]] # 0
      BY <2>2, <2>3, <2>4, <2>5, <2>7 DEF Dropped, IInv, TypeOK
    <3>2. CountedOn(ent[t]) # {}
      BY <2>2, <3>1, FS_EmptySet DEF IInv, Counts
    <3>3. PICK v \in Threads : ent[v] = ent[t] /\ pc[v] \in Counted
      BY <3>2 DEF CountedOn
    <3>4. entries[key[v]] = ent[t] /\ key[v] \in Keys
      BY <3>3 DEF IInv, Named, Bound, Away, Counted
    <3>5. key[v] = k /\ v # t
      BY <2>1, <2>2, <2>5, <2>7, <3>3, <3>4 DEF IInv, Separate, Counted, Holding
    <3>. QED BY <2>3, <2>4, <2>5, <2>7, <3>3, <3>5 DEF IInv, TypeOK
  <2>. QED BY <2>6, <2>7
<1>6. ASSUME NEW t \in Threads, LearnRelease(t)
      PROVE  \E u \in Threads : key'[u] = k /\ ent'[u] = entries'[k]
  BY <1>0, <1>6 DEF LearnRelease, Return, IInv, TypeOK, Bound, Away
<1>7. CASE UNCHANGED vars
  BY <1>0, <1>7 DEF vars
<1>. QED BY <1>1, <1>2, <1>3, <1>4, <1>5, <1>6, <1>7 DEF Next, Ask, Proceed

-----------------------------------------------------------------------------
(* Refinement *)

LEMMA InitRefines == Init => Mutex!MutexInit
BY ConstantsAssumption DEF Init, Mutex!MutexInit, owner, wanted

\* Idle entries are free, so dropping them from the table changes no owner.
LEMMA DroppedIsFree ==
    ASSUME IInv, NEW k \in Keys, entries[k] # None, Idle(entries[k])
    PROVE  owner[k] = None
BY IdleIsUnused DEF owner, IInv, TypeOK

LEMMA StepRefines == IInv /\ [Next]_vars => [Mutex!MutexNext]_(Mutex!mutexVars)
<1>. SUFFICES ASSUME IInv, [Next]_vars PROVE [Mutex!MutexNext]_(Mutex!mutexVars)
  OBVIOUS
<1>. USE ConstantsAssumption
<1>1. ASSUME NEW t \in Threads, NEW k \in Keys, EnterKnown(t, k) PROVE Mutex!Request(t, k)
  <2>1. owner' = owner
    BY <1>1 DEF EnterKnown, owner
  <2>2. wanted' = [wanted EXCEPT ![t] = k] /\ wanted[t] = None
    BY <1>1 DEF EnterKnown, Goto, wanted, IInv, TypeOK
  <2>3. Mutex!Owns(t) = {}
    BY <1>1 DEF EnterKnown, Mutex!Owns, owner, IInv, TypeOK, Locked, Owning, Holding
  <2>. QED BY <2>1, <2>2, <2>3 DEF Mutex!Request
<1>2. ASSUME NEW t \in Threads, NEW k \in Keys, EnterNew(t, k) PROVE Mutex!Request(t, k)
  <2>1. PICK o \in Objs, R \in SUBSET Registered :
           /\ Unused(o) /\ Evicts(R) /\ lock' = [lock EXCEPT ![o] = None]
           /\ entries' = [j \in Keys |-> IF j = k THEN o ELSE IF j \in R THEN None ELSE entries[j]]
    BY <1>2 DEF EnterNew
  <2>2. \A j \in R : j \in Keys /\ owner[j] = None
    BY <2>1, DroppedIsFree DEF Evicts, Registered
  <2>3. entries[k] = None
    BY <1>2 DEF EnterNew
  <2>4. \A j \in Keys : owner'[j] = owner[j]
    BY <2>1, <2>2, <2>3 DEF owner, Unused, IInv, TypeOK
  <2>5. owner' = owner
    BY <2>4 DEF owner
  <2>6. wanted' = [wanted EXCEPT ![t] = k] /\ wanted[t] = None
    BY <1>2 DEF EnterNew, Goto, wanted, IInv, TypeOK
  <2>7. Mutex!Owns(t) = {}
    BY <1>2 DEF EnterNew, Mutex!Owns, owner, IInv, TypeOK, Locked, Owning, Holding
  <2>. QED BY <2>5, <2>6, <2>7 DEF Mutex!Request
<1>3. ASSUME NEW t \in Threads, Win(t) PROVE Mutex!Grant(t, key[t]) /\ key[t] \in Keys
  <2>1. /\ pc[t] = "wait" /\ ent[t] \in Objs /\ key[t] \in Keys /\ entries[key[t]] = ent[t]
        /\ lock[ent[t]] = None
    BY <1>3 DEF Win, IInv, Bound, Away, Named, Counted
  <2>2. lock' = [lock EXCEPT ![ent[t]] = t] /\ pc' = [pc EXCEPT ![t] = "won"]
        /\ UNCHANGED <<entries, key>>
    BY <1>3 DEF Win, Goto
  <2>3. wanted[t] = key[t] /\ owner[key[t]] = None
    BY <2>1 DEF wanted, owner
  <2>4. \A k \in Keys : entries[k] = ent[t] => k = key[t]
    BY <2>1 DEF IInv, Separate
  <2>5. owner' = [owner EXCEPT ![key[t]] = t]
    BY <2>1, <2>2, <2>4 DEF owner, IInv, TypeOK
  <2>6. wanted' = [wanted EXCEPT ![t] = None]
    BY <2>1, <2>2 DEF wanted, IInv, TypeOK
  <2>. QED BY <2>1, <2>3, <2>5, <2>6 DEF Mutex!Grant
<1>4. ASSUME NEW t \in Threads, TimeOut(t) PROVE Mutex!Refuse(t, key[t]) /\ key[t] \in Keys
  <2>1. /\ pc[t] = "wait" /\ ent[t] \in Objs /\ key[t] \in Keys /\ entries[key[t]] = ent[t]
        /\ lock[ent[t]] # None
    BY <1>4 DEF TimeOut, IInv, Bound, Away, Named, Counted
  <2>2. wanted[t] = key[t] /\ owner[key[t]] # None
    BY <2>1 DEF wanted, owner
  <2>3. owner' = owner /\ wanted' = [wanted EXCEPT ![t] = None]
    BY <1>4, <2>1 DEF TimeOut, Goto, owner, wanted, IInv, TypeOK
  <2>. QED BY <2>1, <2>2, <2>3 DEF Mutex!Refuse
<1>5. ASSUME NEW t \in Threads, ReleaseInvoice(t) PROVE Mutex!Release(t, key[t]) /\ key[t] \in Keys
  <2>1. pc[t] = "release" /\ pc[t] \in Holding
    BY <1>5 DEF ReleaseInvoice, Holding
  <2>2. /\ ent[t] \in Objs /\ key[t] \in Keys /\ entries[key[t]] = ent[t] /\ lock[ent[t]] = t
    BY <2>1, OwnEntry
  <2>3. \A k \in Keys : entries[k] = ent[t] => k = key[t]
    BY <2>2 DEF IInv, Separate
  <2>4. /\ lock' = [lock EXCEPT ![ent[t]] = None]
        /\ entries' = entries \/ entries' = [entries EXCEPT ![key[t]] = None]
    BY <1>5, <2>2 DEF ReleaseInvoice, Dropped
  <2>5. owner[key[t]] = t /\ owner' = [owner EXCEPT ![key[t]] = None]
    <3>1. owner[key[t]] = t
      BY <2>2 DEF owner
    <3>2. \A k \in Keys : owner'[k] = IF k = key[t] THEN None ELSE owner[k]
      <4>1. CASE entries' = entries
        BY <2>2, <2>3, <2>4, <4>1 DEF owner, IInv, TypeOK
      <4>2. CASE entries' = [entries EXCEPT ![key[t]] = None]
        BY <2>2, <2>3, <2>4, <4>2 DEF owner, IInv, TypeOK
      <4>. QED BY <2>4, <4>1, <4>2
    <3>. QED BY <3>1, <3>2 DEF owner
  <2>6. wanted' = wanted
    BY <1>5, <2>1 DEF ReleaseInvoice, Return, Goto, wanted, IInv, TypeOK
  <2>. QED BY <2>2, <2>5, <2>6 DEF Mutex!Release
<1>6. ASSUME NEW t \in Threads, Cleanup(t) PROVE UNCHANGED <<owner, wanted>>
  <2>1. ent[t] \in Objs /\ key[t] \in Keys /\ pc[t] = "cleanup"
    BY <1>6 DEF Cleanup, IInv, Bound, Away
  <2>2. wanted' = wanted
    BY <1>6, <2>1 DEF Cleanup, Return, Goto, wanted, IInv, TypeOK
  <2>3. CASE Idle(ent[t]) /\ entries[key[t]] = ent[t]
    <3>1. owner[key[t]] = None
      BY <2>1, <2>3, DroppedIsFree
    <3>2. entries' = [entries EXCEPT ![key[t]] = None] /\ lock' = lock
      BY <1>6, <2>3 DEF Cleanup, Dropped
    <3>. QED BY <2>1, <2>2, <3>1, <3>2 DEF owner, IInv, TypeOK
  <2>4. CASE ~(Idle(ent[t]) /\ entries[key[t]] = ent[t])
    BY <1>6, <2>2, <2>4 DEF Cleanup, Dropped, owner
  <2>. QED BY <2>3, <2>4
<1>7. ASSUME NEW t \in Threads,
             \/ LearnAsk(t) \/ CountWinner(t) \/ CountLoser(t)
             \/ DomainAcquire(t) \/ DomainRelease(t) \/ LearnAcquire(t) \/ LearnRelease(t)
      PROVE  UNCHANGED <<owner, wanted>>
  BY <1>7 DEF LearnAsk, CountWinner, CountLoser, DomainAcquire, DomainRelease,
              LearnAcquire, LearnRelease, Return, Goto, owner, wanted, IInv, TypeOK
<1>8. CASE UNCHANGED vars
  BY <1>8 DEF vars, owner, wanted, Mutex!mutexVars
<1>9. ASSUME UNCHANGED <<owner, wanted>> PROVE UNCHANGED Mutex!mutexVars
  BY <1>9 DEF Mutex!mutexVars
<1>. QED BY <1>1, <1>2, <1>3, <1>4, <1>5, <1>6, <1>7, <1>8, <1>9
         DEF Next, Ask, Proceed, Mutex!MutexNext

-----------------------------------------------------------------------------
(* Theorems *)

\* Every variable of the lock table keeps its type; no counter goes negative.
THEOREM TypeCorrect == Spec => []TypeOK
<1>1. IInv => TypeOK
  BY DEF IInv
<1>. QED BY <1>1, Invariance, PTL

\* The release of the score handler's finally block never raises "Invoice lock
\* is not held", whatever was evicted or cleaned up in between.
THEOREM ReleaseIsSafe == Spec => []ReleaseNeverFails
<1>1. IInv => ReleaseNeverFails
  BY OwnEntry, ConstantsAssumption DEF ReleaseNeverFails, CanRelease, Holding
<1>. QED BY <1>1, Invariance, PTL

\* InvoiceLockManager implements a mutex per invoice: one owner at a time, and a
\* request is turned away only while its own invoice is owned.
THEOREM LocksImplementMutex == Spec => ImplementsMutex
<1>. QED BY InitRefines, StepRefines, Invariance, PTL DEF Spec, ImplementsMutex, Mutex!MutexSpec

\* No lock entry is forgotten in the table: whatever times out, is evicted or
\* cleaned up, every entry there has a request that will clean it up.
THEOREM EntriesAreUsed == Spec => []NoForgottenEntry
<1>1. Init => NoForgottenEntry
  BY DEF Init, NoForgottenEntry, Registered
<1>. QED BY <1>1, ForgottenNext, Invariance, PTL DEF Spec

===============================================================================
