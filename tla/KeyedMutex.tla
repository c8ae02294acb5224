------------------------------ MODULE KeyedMutex ------------------------------
(***************************************************************************)
(* What InvoiceLockManager promises ("Serialize mutations for one invoice  *)
(* without blocking other invoices", routers/s2p.py): a request for an     *)
(* invoice is granted when nobody owns that invoice, may be refused only   *)
(* while somebody does, and requests for other invoices are no part of it. *)
(***************************************************************************)
CONSTANTS Threads, Keys, None

VARIABLES
    owner,    \* the thread that owns each invoice
    wanted    \* the invoice each thread is waiting for

mutexVars == <<owner, wanted>>

MutexInit ==
    /\ owner = [k \in Keys |-> None]
    /\ wanted = [t \in Threads |-> None]

Owns(t) == {k \in Keys : owner[k] = t}

Request(t, k) ==
    /\ wanted[t] = None /\ Owns(t) = {}
    /\ wanted' = [wanted EXCEPT ![t] = k]
    /\ UNCHANGED owner

Grant(t, k) ==
    /\ wanted[t] = k /\ owner[k] = None
    /\ owner' = [owner EXCEPT ![k] = t]
    /\ wanted' = [wanted EXCEPT ![t] = None]

Refuse(t, k) ==
    /\ wanted[t] = k /\ owner[k] # None
    /\ wanted' = [wanted EXCEPT ![t] = None]
    /\ UNCHANGED owner

Release(t, k) ==
    /\ owner[k] = t
    /\ owner' = [owner EXCEPT ![k] = None]
    /\ UNCHANGED wanted

MutexNext ==
    \E t \in Threads, k \in Keys :
        Request(t, k) \/ Grant(t, k) \/ Refuse(t, k) \/ Release(t, k)

MutexSpec == MutexInit /\ [][MutexNext]_mutexVars

===============================================================================
