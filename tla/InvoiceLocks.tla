----------------------------- MODULE InvoiceLocks -----------------------------
(***************************************************************************)
(* The locks of the score and learn paths of routers/s2p.py:               *)
(* InvoiceLockManager, the table of per-invoice locks every score request  *)
(* goes through with a time limit, and behind it the domain mutation lock, *)
(* which is awaited without one.                                           *)
(*                                                                         *)
(* Every block under _meta_lock is one step; the wait for an entry's lock  *)
(* is outside it, so the table may change between the steps of one call.   *)
(* An entry is an object: two entries for the same invoice, one of them    *)
(* already dropped from the table, are different objects.                  *)
(***************************************************************************)
EXTENDS Naturals, FiniteSets, FiniteSetsExt

CONSTANTS
    Threads,   \* request threads
    Keys,      \* invoice identifiers
    Objs,      \* lock entry objects
    MaxLocks,  \* max_locks: the size at which idle entries are evicted
    None

ASSUME ConstantsAssumption ==
    /\ None \notin Threads \cup Keys \cup Objs
    /\ IsFiniteSet(Threads) /\ IsFiniteSet(Keys)
    /\ MaxLocks \in Nat \ {0}

VARIABLES
    entries,   \* the table: invoice -> entry
    lock,      \* owner of each entry's lock
    waiters,   \* each entry's waiters count
    holders,   \* each entry's holders count
    domain,    \* owner of the domain mutation lock
    pc,        \* where each request stands
    key,       \* the invoice it scores
    ent        \* the entry object it found or made

tableVars == <<entries, waiters, holders>>
vars == <<entries, lock, waiters, holders, domain, pc, key, ent>>

Init ==
    /\ entries = [k \in Keys |-> None]
    /\ lock = [o \in Objs |-> None]
    /\ waiters = [o \in Objs |-> 0] /\ holders = [o \in Objs |-> 0]
    /\ domain = None
    /\ pc = [t \in Threads |-> "idle"]
    /\ key = [t \in Threads |-> None]
    /\ ent = [t \in Threads |-> None]

Goto(t, l) == pc' = [pc EXCEPT ![t] = l]
Return(t) ==
    /\ Goto(t, "idle")
    /\ key' = [key EXCEPT ![t] = None] /\ ent' = [ent EXCEPT ![t] = None]

Registered == {k \in Keys : entries[k] # None}
\* Mutants (an operator whose name has an underscore) are plausible bugs of
\* the definition that follows; no action uses them.
Idle_IgnoresWaiters(o) == holders[o] = 0
Idle(o) == holders[o] = 0 /\ waiters[o] = 0
Unused(o) == (\A k \in Keys : entries[k] # o) /\ (\A t \in Threads : ent[t] # o)

\* _evict_idle_locked: with max_locks entries or more, drop idle entries (in
\* the table's order, left open here) until there is room or none is left.
Evicts(R) ==
    LET idle == {k \in Registered : Idle(entries[k])}
        excess == IF Cardinality(Registered) < MaxLocks THEN 0
                  ELSE Cardinality(Registered) - MaxLocks + 1
    IN  /\ R \subseteq idle
        /\ Cardinality(R) = IF Cardinality(idle) < excess THEN Cardinality(idle) ELSE excess

-----------------------------------------------------------------------------
(* InvoiceLockManager.acquire *)

\* First block, the invoice has an entry.
EnterKnown(t, k) ==
    /\ pc[t] = "idle" /\ entries[k] # None
    /\ waiters' = [waiters EXCEPT ![entries[k]] = @ + 1]
    /\ key' = [key EXCEPT ![t] = k] /\ ent' = [ent EXCEPT ![t] = entries[k]]
    /\ Goto(t, "wait")
    /\ UNCHANGED <<entries, lock, holders, domain>>

\* First block, the invoice has none: evict, then create one.
EnterNew(t, k) ==
    /\ pc[t] = "idle" /\ entries[k] = None
    /\ \E o \in Objs, R \in SUBSET Registered :
          /\ Unused(o) /\ Evicts(R)
          /\ entries' = [j \in Keys |-> IF j = k THEN o ELSE IF j \in R THEN None ELSE entries[j]]
          /\ lock' = [lock EXCEPT ![o] = None]
          /\ waiters' = [waiters EXCEPT ![o] = 1]
          /\ holders' = [holders EXCEPT ![o] = 0]
          /\ ent' = [ent EXCEPT ![t] = o]
    /\ key' = [key EXCEPT ![t] = k]
    /\ Goto(t, "wait")
    /\ UNCHANGED domain

\* entry.lock.acquire(timeout): outside the meta lock.
Win(t) ==
    /\ pc[t] = "wait" /\ lock[ent[t]] = None
    /\ lock' = [lock EXCEPT ![ent[t]] = t]
    /\ Goto(t, "won")
    /\ UNCHANGED <<tableVars, domain, key, ent>>

TimeOut(t) ==
    /\ pc[t] = "wait" /\ lock[ent[t]] # None
    /\ Goto(t, "lost")
    /\ UNCHANGED <<tableVars, lock, domain, key, ent>>

\* Second block.
CountWinner(t) ==
    /\ pc[t] = "won"
    /\ waiters' = [waiters EXCEPT ![ent[t]] = @ - 1]
    /\ holders' = [holders EXCEPT ![ent[t]] = @ + 1]
    /\ Goto(t, "domain")
    /\ UNCHANGED <<entries, lock, domain, key, ent>>

CountLoser_Retries(t) ==
    /\ pc[t] = "lost"
    /\ Goto(t, "wait")
    /\ UNCHANGED <<tableVars, lock, domain, key, ent>>

CountLoser(t) ==
    /\ pc[t] = "lost"
    /\ waiters' = [waiters EXCEPT ![ent[t]] = @ - 1]
    /\ Goto(t, "cleanup")
    /\ UNCHANGED <<entries, lock, holders, domain, key, ent>>

\* _cleanup_locked: drop the entry if nobody uses it and the table still
\* holds this very object.
Dropped_AnyEntry(k, o, idle) ==
    IF idle THEN [entries EXCEPT ![k] = None] ELSE entries

Dropped(k, o, idle) ==
    IF idle /\ entries[k] = o THEN [entries EXCEPT ![k] = None] ELSE entries

\* The loser's third block, then the 503.
Cleanup_Forgotten(t) ==
    /\ pc[t] = "cleanup"
    /\ UNCHANGED <<tableVars, lock, domain>>
    /\ Return(t)

Cleanup(t) ==
    /\ pc[t] = "cleanup"
    /\ entries' = Dropped(key[t], ent[t], Idle(ent[t]))
    /\ UNCHANGED <<lock, waiters, holders, domain>>
    /\ Return(t)

-----------------------------------------------------------------------------
(* The score handler *)

\* domain_lock.acquire(): "a queue, not an admission gate".
DomainAcquire(t) ==
    /\ pc[t] = "domain" /\ domain = None
    /\ domain' = t
    /\ Goto(t, "work")
    /\ UNCHANGED <<tableVars, lock, key, ent>>

\* The finally block: the domain lock first, then the invoice lock.
DomainRelease(t) ==
    /\ pc[t] = "work"
    /\ domain' = None
    /\ Goto(t, "release")
    /\ UNCHANGED <<tableVars, lock, key, ent>>

\* InvoiceLockManager.release looks the entry up by invoice again.
CanRelease(t) == entries[key[t]] # None /\ holders[entries[key[t]]] # 0

ReleaseInvoice(t) ==
    /\ pc[t] = "release" /\ CanRelease(t)
    /\ LET o == entries[key[t]]
       IN  /\ holders' = [holders EXCEPT ![o] = @ - 1]
           /\ lock' = [lock EXCEPT ![o] = None]
           /\ UNCHANGED <<waiters, domain>>
           /\ entries' = Dropped(key[t], o, holders[o] = 1 /\ waiters[o] = 0)
    /\ Return(t)

\* The learn and outcome handlers take the domain lock alone.
LearnAsk(t) ==
    /\ pc[t] = "idle"
    /\ Goto(t, "learnWait")
    /\ UNCHANGED <<tableVars, lock, domain, key, ent>>

LearnAcquire(t) ==
    /\ pc[t] = "learnWait" /\ domain = None
    /\ domain' = t
    /\ Goto(t, "learnWork")
    /\ UNCHANGED <<tableVars, lock, key, ent>>

LearnRelease(t) ==
    /\ pc[t] = "learnWork"
    /\ domain' = None
    /\ Return(t)
    /\ UNCHANGED <<tableVars, lock>>

-----------------------------------------------------------------------------
Ask(t) == LearnAsk(t) \/ \E k \in Keys : EnterKnown(t, k) \/ EnterNew(t, k)

Proceed(t) ==
    \/ Win(t) \/ TimeOut(t) \/ CountWinner(t) \/ CountLoser(t) \/ Cleanup(t)
    \/ DomainAcquire(t) \/ DomainRelease(t) \/ ReleaseInvoice(t)
    \/ LearnAcquire(t) \/ LearnRelease(t)

Next == \E t \in Threads : Ask(t) \/ Proceed(t)

Spec == Init /\ [][Next]_vars

\* A request that has begun keeps running, and a lock that is free again and
\* again is won eventually; nothing obliges a request to begin.
FairSpec == Spec /\ \A t \in Threads : SF_vars(Proceed(t))

-----------------------------------------------------------------------------
(* Properties *)

Locations == {"idle", "wait", "won", "lost", "cleanup", "domain", "work", "release",
              "learnWait", "learnWork"}
Counted == {"wait", "won", "lost"}
Holding == {"domain", "work", "release"}
Owning == {"won"} \cup Holding

TypeOK ==
    /\ entries \in [Keys -> Objs \cup {None}]
    /\ lock \in [Objs -> Threads \cup {None}]
    /\ waiters \in [Objs -> Nat] /\ holders \in [Objs -> Nat]
    /\ domain \in Threads \cup {None}
    /\ pc \in [Threads -> Locations]
    /\ key \in [Threads -> Keys \cup {None}]
    /\ ent \in [Threads -> Objs \cup {None}]

\* The release in the handler's finally block never raises "Invoice lock is
\* not held": the entry a holder took is still the one the table names.
ReleaseNeverFails == \A t \in Threads : pc[t] = "release" => CanRelease(t)

\* No entry is forgotten in the table: each has a request that will clean it
\* up ("test_same_invoice_timeout_does_not_leak_entry").
NoForgottenEntry ==
    \A k \in Registered : \E t \in Threads : key[t] = k /\ ent[t] = entries[k]

\* The manager implements a mutex per invoice: one owner at a time, a refusal
\* only while that same invoice is owned ("distinct invoices are never
\* rejected merely because another invoice is committing its decision").
owner == [k \in Keys |-> IF entries[k] = None THEN None ELSE lock[entries[k]]]
wanted == [t \in Threads |-> IF pc[t] = "wait" THEN key[t] ELSE None]

Mutex == INSTANCE KeyedMutex
ImplementsMutex == Mutex!MutexSpec

\* Every score and learn request returns: the invoice lock is always taken
\* before the domain lock and no entry's lock is lost with its entry.
EveryRequestReturns == \A t \in Threads : pc[t] # "idle" ~> pc[t] = "idle"

===============================================================================
