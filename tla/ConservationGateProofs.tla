------------------------ MODULE ConservationGateProofs ------------------------
(***************************************************************************)
(* Machine-checked proofs about ConservationGate, for any threads, bounds  *)
(* and status function: the cached counts never go back behind a clear,    *)
(* and the receipt of an applied outcome shows it, unless a clear met a    *)
(* reader between its check and its store.                                 *)
(*                                                                         *)
(* Readers take no lock, learners take the domain lock.  So the argument   *)
(* has two sides: what a reader still holds when its generation is the     *)
(* current one (Current), and what the one learner inside the lock knows   *)
(* about its own request (Receipts).                                       *)
(***************************************************************************)
EXTENDS ConservationGate, TLAPS

USE DEF cacheVars, historyVars, Threads, Writers

-----------------------------------------------------------------------------
(* The inductive invariant *)

\* Who stands where, and that a learner on its way to the bump still may.
Flow ==
    \A t \in Threads :
        /\ pc[t] \in Counting =>
              /\ call[t].left \in 1..2
              /\ call[t].next \in {"idle", "decide", "before", "after", "evaluate"}
              /\ call[t].next = "idle" => call[t].left = 1
              /\ call[t].next = "decide" => t \in Writers
              /\ call[t].next \in {"before", "after"} => t \in Learns
              /\ call[t].next = "before" => generation < MaxClears
        /\ pc[t] \in {"decide", "queue", "score"} => t \in Writers
        /\ pc[t] \in Held \ {"score"} => t \in Learns
        /\ pc[t] \in {"before", "commit", "bump"} => generation < MaxClears

\* Nothing that was read or recorded is ahead of the graph.
Ordered ==
    /\ cleared <= outcomes
    /\ counts # None => counts.n <= outcomes
    /\ \A t \in Threads :
        /\ call[t].val <= outcomes
        /\ req[t].before # None => req[t].before <= outcomes
        /\ pc[t] \in {"read", "check", "store"} => call[t].gen <= generation

\* A reader that will publish has read no earlier than the last clear and, while
\* a clear is under way, what that clear is for.
Publishes(t) == pc[t] = "store" \/ (pc[t] = "check" /\ call[t].gen = generation)
Current ==
    ~straddled =>
        /\ counts # None => counts.n >= cleared
        /\ \A t \in Threads : Publishes(t) =>
              /\ call[t].val >= cleared
              /\ \A u \in Threads :
                    pc[u] \in {"clearStatus", "clearCounts"} => call[t].val = outcomes

\* What a learn request has on its receipt, step by step.
Cleared(t) == pc[t] \in {"after", "done"} \/ (pc[t] \in Counting /\ call[t].next = "after")
Receipts ==
    \A t \in Learns :
        /\ req[t].applied => pc[t] \in {"bump", "clearStatus", "clearCounts"} \/ Cleared(t)
        /\ req[t].applied /\ req[t].before # None =>
              /\ req[t].before < outcomes
              /\ Cleared(t) => req[t].before < cleared
        /\ pc[t] \in {"check", "store"} /\ call[t].next = "after" => call[t].val >= cleared
        /\ pc[t] = "after" /\ call[t].ok /\ ~straddled => call[t].val >= cleared
        /\ ~straddled => ReceiptShowsOutcomeAt(t)

IInv == TypeOK /\ InFlightHasAReader /\ Flow /\ Ordered /\ Current /\ Receipts

-----------------------------------------------------------------------------
(* What making a counts call, and returning from one, does to a thread *)

OnlyMoves(t) ==
    /\ call' \in [Threads -> Calls] /\ pc' \in [Threads -> Locations]
    /\ \A u \in Threads \ {t} : call'[u] = call[u] /\ pc'[u] = pc[u]

Asking(t, k, l) ==
    /\ OnlyMoves(t) /\ pc'[t] = "look"
    /\ call'[t].left = k /\ call'[t].next = l /\ call'[t].val = 0

Answered(t, n, raises) ==
    /\ OnlyMoves(t)
    /\ \/ pc'[t] = "idle" /\ call[t].next = "idle" /\ call'[t].val = 0
       \/ /\ call[t].next \in {"decide", "before", "after", "evaluate"}
          /\ call'[t].next = call[t].next /\ call'[t].val = n /\ (raises => ~call'[t].ok)
          /\ \/ pc'[t] = "look" /\ call'[t].left = 1
             \/ pc'[t] = call[t].next

LEMMA AskingEffect ==
    ASSUME TypeOK, NEW t \in Threads, NEW k \in 1..2, NEW l \in Locations, CallCounts(t, k, l)
    PROVE  Asking(t, k, l)
<1>. DEFINE new == [left |-> k, next |-> l, ok |-> TRUE, gen |-> 0, val |-> 0]
<1>1. call' = [call EXCEPT ![t] = new] /\ pc' = [pc EXCEPT ![t] = "look"]
  BY DEF CallCounts, CallOf, Goto
<1>2. new \in Calls
  BY ConstantsAssumption DEF Calls, Numbers
<1>3. new.left = k /\ new.next = l /\ new.val = 0
  OBVIOUS
<1>. HIDE DEF new
<1>. QED BY <1>1, <1>2, <1>3 DEF Asking, OnlyMoves, TypeOK, Locations, Counting

LEMMA AnsweredEffect ==
    ASSUME TypeOK, Flow, NEW t \in Threads, pc[t] \in Counting,
           NEW n \in Numbers, NEW raises, CountsReturn(t, n, raises)
    PROVE  Answered(t, n, raises)
<1>. DEFINE new == [left |-> call[t].left - 1, next |-> call[t].next,
                    ok |-> call[t].ok /\ ~raises, gen |-> 0, val |-> n]
<1>1. call[t] \in Calls /\ call[t].left \in 1..2 /\ call[t].next \in Locations
  BY DEF TypeOK, Flow, Calls
<1>2. NoCall \in Calls /\ NoCall.val = 0
  BY ConstantsAssumption DEF NoCall, CallOf, Calls, Numbers, Locations
<1>3. new \in Calls
  BY <1>1, ConstantsAssumption DEF Calls
<1>4. new.left = call[t].left - 1 /\ new.next = call[t].next /\ new.val = n /\ (raises => ~new.ok)
  OBVIOUS
<1>5. /\ call' = [call EXCEPT ![t] = IF call[t].next = "idle" THEN NoCall ELSE new]
      /\ pc' = [pc EXCEPT ![t] = IF call[t].left > 1 THEN "look" ELSE call[t].next]
  BY DEF CountsReturn, Goto
<1>6. call[t].next = "idle" => call[t].left = 1
  BY DEF Flow
<1>. HIDE DEF new
<1>7. OnlyMoves(t)
  BY <1>1, <1>2, <1>3, <1>5 DEF OnlyMoves, TypeOK, Locations, Counting
<1>. QED BY <1>1, <1>2, <1>4, <1>5, <1>6, <1>7 DEF Answered, TypeOK, Flow

-----------------------------------------------------------------------------
(* Every step keeps the invariant *)

LEMMA Initially == Init => IInv
<1>. USE ConstantsAssumption DEF Init
<1>. NoCall \in Calls /\ NoFill \in Fills /\ NoRequest \in Requests
  BY DEF NoCall, CallOf, NoFill, NoRequest, Calls, Fills, Requests, Numbers, Statuses, Locations, Held, Counting
<1>1. Init => TypeOK
  <2>. SUFFICES ASSUME Init PROVE TypeOK
    OBVIOUS
  <2>1. pc \in [Threads -> Locations]
    BY DEF Locations
  <2>2. call \in [Threads -> Calls] /\ fill \in [Threads -> Fills] /\ req \in [Threads -> Requests]
    OBVIOUS
  <2>3. ASSUME NEW t \in Threads PROVE HoldsDomain(t) <=> domain = t
    <3>1. ~HoldsDomain(t)
      BY DEF HoldsDomain, Held, Counting
    <3>2. domain # t
      OBVIOUS
    <3>. QED BY <3>1, <3>2
  <2>4. /\ outcomes \in Numbers /\ generation \in 0..MaxClears
        /\ counts = None /\ status = None /\ domain = None
        /\ cleared \in Numbers /\ clearedBefore \in Numbers
    BY DEF Numbers
  <2>5. countsInFlight \in BOOLEAN /\ statusInFlight \in BOOLEAN /\ straddled \in BOOLEAN
    OBVIOUS
  <2>. HIDE DEF Init
  <2>. QED BY <2>1, <2>2, <2>3, <2>4, <2>5 DEF TypeOK
<1>2. Init => InFlightHasAReader /\ Flow /\ Ordered /\ Current /\ Receipts
  BY DEF InFlightHasAReader, Flow, Ordered, Current, Receipts, Publishes, Cleared, Numbers,
     ReceiptShowsOutcomeAt, Counting, Held, NoCall, CallOf, NoRequest
<1>. QED BY <1>1, <1>2 DEF IInv

LEMMA CountsHitKeepsInvariant ==
    ASSUME IInv, NEW t \in Threads, CountsHit(t)
    PROVE  IInv'
<1>. USE ConstantsAssumption DEF IInv, CountsHit, OnlyMoves, Answered, Goto, Servable
<1>0. Answered(t, counts.n, FALSE)
  BY AnsweredEffect DEF TypeOK, Counting, Calls, Numbers
<1>. USE <1>0
<1>1. TypeOK'
  BY DEF TypeOK, Flow, Ordered, HoldsDomain, Locations, Held, Counting, Calls, Fills, Requests, Numbers, Statuses
<1>2. InFlightHasAReader'
  BY DEF InFlightHasAReader, TypeOK
<1>3. Flow'
  BY DEF Flow, TypeOK, Calls, Held, Counting
<1>4. Ordered'
  BY DEF Ordered, TypeOK, Calls, Requests, Numbers
<1>5. Current'
  BY DEF Current, TypeOK, Publishes, Ordered, Calls, Numbers, Receipts
<1>6. Receipts'
  BY DEF Receipts, TypeOK, Cleared, ReceiptShowsOutcomeAt, Calls, Requests, Numbers, Counting, Current, Flow
<1>. QED BY <1>1, <1>2, <1>3, <1>4, <1>5, <1>6

LEMMA CountsMissKeepsInvariant ==
    ASSUME IInv, NEW t \in Threads, CountsMiss(t)
    PROVE  IInv'
<1>. USE ConstantsAssumption DEF IInv, CountsMiss, Goto, Servable
<1>1. TypeOK'
  BY DEF TypeOK, Flow, Ordered, HoldsDomain, Locations, Held, Counting, Calls, Fills, Requests, Numbers, Statuses
<1>2. InFlightHasAReader'
  BY DEF InFlightHasAReader, TypeOK
<1>3. Flow'
  BY DEF Flow, TypeOK, Calls, Held, Counting
<1>4. Ordered'
  BY DEF Ordered, TypeOK, Calls, Requests, Numbers
<1>5. Current'
  BY DEF Current, TypeOK, Publishes, Ordered, Calls, Numbers
<1>6. Receipts'
  BY DEF Receipts, TypeOK, Cleared, ReceiptShowsOutcomeAt, Calls, Requests, Numbers, Counting
<1>. QED BY <1>1, <1>2, <1>3, <1>4, <1>5, <1>6

\* What is read now is all there is, whatever clear is under way.
LEMMA CountsReadKeepsInvariant ==
    ASSUME IInv, NEW t \in Threads, CountsRead(t)
    PROVE  IInv'
<1>. USE ConstantsAssumption DEF IInv, CountsRead, Goto
<1>1. TypeOK'
  <2>1. pc' \in [Threads -> Locations]
    BY DEF TypeOK, Flow, Locations, Held, Counting
  <2>2. call' \in [Threads -> Calls]
    BY DEF TypeOK, Flow, Calls, Numbers, Locations, Held, Counting, Ordered
  <2>3. fill' \in [Threads -> Fills] /\ req' \in [Threads -> Requests]
    BY DEF TypeOK, Flow, Fills, Requests, Statuses, Calls, Numbers
  <2>4. \A t_1 \in Threads : HoldsDomain(t_1)' <=> domain' = t_1
    BY DEF TypeOK, Flow, HoldsDomain, Held, Counting, Calls
  <2>5. /\ outcomes' \in Numbers /\ generation' \in 0..MaxClears
        /\ counts' \in [n : Numbers, fresh : BOOLEAN] \cup {None}
        /\ status' \in [s : Statuses, fresh : BOOLEAN] \cup {None}
        /\ domain' \in Writers \cup {None}
        /\ cleared' \in Numbers /\ clearedBefore' \in Numbers
        /\ countsInFlight' \in BOOLEAN /\ statusInFlight' \in BOOLEAN /\ straddled' \in BOOLEAN
    BY DEF TypeOK, Flow, Numbers, Calls, Fills, Statuses
  <2>. QED BY <2>1, <2>2, <2>3, <2>4, <2>5 DEF TypeOK
<1>2. InFlightHasAReader'
  BY DEF InFlightHasAReader, TypeOK
<1>3. Flow'
  BY DEF Flow, TypeOK, Calls, Held, Counting
<1>4. Ordered'
  BY DEF Ordered, TypeOK, Calls, Requests, Numbers
<1>5. Current'
  BY DEF Current, TypeOK, Publishes, Ordered, Calls, Numbers
<1>6. Receipts'
  BY DEF Receipts, TypeOK, Cleared, ReceiptShowsOutcomeAt, Calls, Requests, Numbers, Counting, Ordered
<1>. QED BY <1>1, <1>2, <1>3, <1>4, <1>5, <1>6

LEMMA CountsCheckKeepsInvariant ==
    ASSUME IInv, NEW t \in Threads, CountsCheck(t)
    PROVE  IInv'
<1>. USE ConstantsAssumption DEF IInv, CountsCheck, OnlyMoves, Answered, Goto, Unchanged
<1>0. \/ /\ call[t].gen = generation /\ call' = call /\ pc' = [pc EXCEPT ![t] = "store"]
      \/ Answered(t, call[t].val, FALSE)
  BY AnsweredEffect DEF TypeOK, Counting, Calls
<1>. USE <1>0
<1>1. TypeOK'
  BY DEF TypeOK, Flow, Ordered, HoldsDomain, Locations, Held, Counting, Calls, Fills, Requests, Numbers, Statuses
<1>2. InFlightHasAReader'
  BY DEF InFlightHasAReader, TypeOK
<1>3. Flow'
  BY DEF Flow, TypeOK, Calls, Held, Counting
<1>4. Ordered'
  BY DEF Ordered, TypeOK, Calls, Requests, Numbers
<1>5. Current'
  BY DEF Current, TypeOK, Publishes, Ordered, Calls, Numbers
<1>6. Receipts'
  BY DEF Receipts, TypeOK, Cleared, ReceiptShowsOutcomeAt, Calls, Requests, Numbers, Counting, Current, Flow
<1>. QED BY <1>1, <1>2, <1>3, <1>4, <1>5, <1>6

\* No clear has come between the check and this store, or it straddles.
LEMMA CountsStoreKeepsInvariant ==
    ASSUME IInv, NEW t \in Threads, CountsStore(t)
    PROVE  IInv'
<1>. USE ConstantsAssumption DEF IInv, CountsStore, OnlyMoves, Answered, Goto
<1>0. Answered(t, call[t].val, FALSE)
  BY AnsweredEffect DEF TypeOK, Counting, Calls, Numbers
<1>. USE <1>0
<1>1. TypeOK'
  BY DEF TypeOK, Flow, Ordered, HoldsDomain, Locations, Held, Counting, Calls, Fills, Requests, Numbers, Statuses
<1>2. InFlightHasAReader'
  BY DEF InFlightHasAReader, TypeOK
<1>3. Flow'
  BY DEF Flow, TypeOK, Calls, Held, Counting
<1>4. Ordered'
  BY DEF Ordered, TypeOK, Calls, Requests, Numbers
<1>5. Current'
  BY DEF Current, TypeOK, Publishes, Ordered, Calls, Numbers
<1>6. Receipts'
  BY DEF Receipts, TypeOK, Cleared, ReceiptShowsOutcomeAt, Calls, Requests, Numbers, Counting, Current, Flow
<1>. QED BY <1>1, <1>2, <1>3, <1>4, <1>5, <1>6

LEMMA CountsFailKeepsInvariant ==
    ASSUME IInv, NEW t \in Threads, CountsFail(t)
    PROVE  IInv'
<1>. USE ConstantsAssumption DEF IInv, CountsFail, OnlyMoves, Answered, Goto
<1>. 0 \in Numbers
  BY DEF Numbers
<1>0. Answered(t, 0, TRUE)
  BY AnsweredEffect DEF TypeOK, Counting, Calls, Numbers
<1>. USE <1>0
<1>1. TypeOK'
  <2>1. pc' \in [Threads -> Locations]
    BY DEF TypeOK, Flow, Locations, Held, Counting
  <2>2. call' \in [Threads -> Calls]
    BY DEF TypeOK, Flow, Calls, Numbers, Locations, Held, Counting, Ordered
  <2>3. fill' \in [Threads -> Fills] /\ req' \in [Threads -> Requests]
    BY DEF TypeOK, Flow, Fills, Requests, Statuses, Calls, Numbers
  <2>4. \A t_1 \in Threads : HoldsDomain(t_1)' <=> domain' = t_1
    BY DEF TypeOK, Flow, HoldsDomain, Held, Counting, Calls
  <2>5. /\ outcomes' \in Numbers /\ generation' \in 0..MaxClears
        /\ counts' \in [n : Numbers, fresh : BOOLEAN] \cup {None}
        /\ status' \in [s : Statuses, fresh : BOOLEAN] \cup {None}
        /\ domain' \in Writers \cup {None}
        /\ cleared' \in Numbers /\ clearedBefore' \in Numbers
        /\ countsInFlight' \in BOOLEAN /\ statusInFlight' \in BOOLEAN /\ straddled' \in BOOLEAN
    BY DEF TypeOK, Flow, Numbers, Calls, Fills, Statuses
  <2>. QED BY <2>1, <2>2, <2>3, <2>4, <2>5 DEF TypeOK
<1>2. InFlightHasAReader'
  BY DEF InFlightHasAReader, TypeOK
<1>3. Flow'
  BY DEF Flow, TypeOK, Calls, Held, Counting
<1>4. Ordered'
  BY DEF Ordered, TypeOK, Calls, Requests, Numbers, Flow
<1>5. Current'
  BY DEF Current, TypeOK, Publishes, Ordered, Calls, Numbers
<1>6. Receipts'
  BY DEF Receipts, TypeOK, Cleared, ReceiptShowsOutcomeAt, Calls, Requests, Numbers, Counting
<1>. QED BY <1>1, <1>2, <1>3, <1>4, <1>5, <1>6

LEMMA CountsExpireKeepsInvariant ==
    ASSUME IInv, CountsExpire
    PROVE  IInv'
<1>. USE ConstantsAssumption DEF IInv, CountsExpire, Servable
<1>1. TypeOK'
  BY DEF TypeOK, Flow, Ordered, HoldsDomain, Locations, Held, Counting, Calls, Fills, Requests, Numbers, Statuses
<1>2. InFlightHasAReader'
  BY DEF InFlightHasAReader, TypeOK
<1>3. Flow'
  BY DEF Flow, TypeOK, Calls, Held, Counting
<1>4. Ordered'
  BY DEF Ordered, TypeOK, Calls, Requests, Numbers
<1>5. Current'
  BY DEF Current, TypeOK, Publishes, Ordered, Calls, Numbers
<1>6. Receipts'
  BY DEF Receipts, TypeOK, Cleared, ReceiptShowsOutcomeAt, Calls, Requests, Numbers, Counting
<1>. QED BY <1>1, <1>2, <1>3, <1>4, <1>5, <1>6

LEMMA PrimeMissKeepsInvariant ==
    ASSUME IInv, NEW t \in Threads, PrimeMiss(t)
    PROVE  IInv'
<1>. USE ConstantsAssumption DEF IInv, PrimeMiss, OnlyMoves, Asking, Servable
<1>0. Asking(t, 1, "evaluate")
  BY AskingEffect DEF TypeOK, Locations, Held
<1>. USE <1>0
<1>1. TypeOK'
  BY DEF TypeOK, Flow, Ordered, HoldsDomain, Locations, Held, Counting, Calls, Fills, Requests, Numbers, Statuses
<1>2. InFlightHasAReader'
  BY DEF InFlightHasAReader, TypeOK
<1>3. Flow'
  BY DEF Flow, TypeOK, Calls, Held, Counting
<1>4. Ordered'
  BY DEF Ordered, TypeOK, Calls, Requests, Numbers
<1>5. Current'
  BY DEF Current, TypeOK, Publishes, Ordered, Calls, Numbers
<1>6. Receipts'
  BY DEF Receipts, TypeOK, Cleared, ReceiptShowsOutcomeAt, Calls, Requests, Numbers, Counting
<1>. QED BY <1>1, <1>2, <1>3, <1>4, <1>5, <1>6

LEMMA EvaluateKeepsInvariant ==
    ASSUME IInv, NEW t \in Threads, Evaluate(t)
    PROVE  IInv'
<1>. USE ConstantsAssumption DEF IInv, Evaluate, NoCall, CallOf, Goto
<1>1. TypeOK'
  <2>1. pc' \in [Threads -> Locations]
    BY DEF TypeOK, Flow, Locations, Held, Counting
  <2>2. call' \in [Threads -> Calls]
    BY DEF TypeOK, Flow, Calls, Numbers, Locations, Held, Counting, Ordered
  <2>3. fill' \in [Threads -> Fills] /\ req' \in [Threads -> Requests]
    BY DEF TypeOK, Flow, Fills, Requests, Statuses, Calls, Numbers
  <2>4. \A t_1 \in Threads : HoldsDomain(t_1)' <=> domain' = t_1
    BY DEF TypeOK, Flow, HoldsDomain, Held, Counting, Calls
  <2>5. /\ outcomes' \in Numbers /\ generation' \in 0..MaxClears
        /\ counts' \in [n : Numbers, fresh : BOOLEAN] \cup {None}
        /\ status' \in [s : Statuses, fresh : BOOLEAN] \cup {None}
        /\ domain' \in Writers \cup {None}
        /\ cleared' \in Numbers /\ clearedBefore' \in Numbers
        /\ countsInFlight' \in BOOLEAN /\ statusInFlight' \in BOOLEAN /\ straddled' \in BOOLEAN
    BY DEF TypeOK, Flow, Numbers, Calls, Fills, Statuses
  <2>. QED BY <2>1, <2>2, <2>3, <2>4, <2>5 DEF TypeOK
<1>2. InFlightHasAReader'
  BY DEF InFlightHasAReader, TypeOK
<1>3. Flow'
  BY DEF Flow, TypeOK, Calls, Held, Counting
<1>4. Ordered'
  BY DEF Ordered, TypeOK, Calls, Requests, Numbers
<1>5. Current'
  BY DEF Current, TypeOK, Publishes, Ordered, Calls, Numbers
<1>6. Receipts'
  BY DEF Receipts, TypeOK, Cleared, ReceiptShowsOutcomeAt, Calls, Requests, Numbers, Counting
<1>. QED BY <1>1, <1>2, <1>3, <1>4, <1>5, <1>6

LEMMA StatusCheckKeepsInvariant ==
    ASSUME IInv, NEW t \in Threads, StatusCheck(t)
    PROVE  IInv'
<1>. USE ConstantsAssumption DEF IInv, StatusCheck, NoFill, Unchanged, Goto
<1>1. TypeOK'
  BY DEF TypeOK, Flow, Ordered, HoldsDomain, Locations, Held, Counting, Calls, Fills, Requests, Numbers, Statuses
<1>2. InFlightHasAReader'
  BY DEF InFlightHasAReader, TypeOK
<1>3. Flow'
  BY DEF Flow, TypeOK, Calls, Held, Counting
<1>4. Ordered'
  BY DEF Ordered, TypeOK, Calls, Requests, Numbers
<1>5. Current'
  BY DEF Current, TypeOK, Publishes, Ordered, Calls, Numbers
<1>6. Receipts'
  BY DEF Receipts, TypeOK, Cleared, ReceiptShowsOutcomeAt, Calls, Requests, Numbers, Counting
<1>. QED BY <1>1, <1>2, <1>3, <1>4, <1>5, <1>6

LEMMA StatusStoreKeepsInvariant ==
    ASSUME IInv, NEW t \in Threads, StatusStore(t)
    PROVE  IInv'
<1>. USE ConstantsAssumption DEF IInv, StatusStore, NoFill, Goto
<1>1. TypeOK'
  BY DEF TypeOK, Flow, Ordered, HoldsDomain, Locations, Held, Counting, Calls, Fills, Requests, Numbers, Statuses
<1>2. InFlightHasAReader'
  BY DEF InFlightHasAReader, TypeOK
<1>3. Flow'
  BY DEF Flow, TypeOK, Calls, Held, Counting
<1>4. Ordered'
  BY DEF Ordered, TypeOK, Calls, Requests, Numbers
<1>5. Current'
  BY DEF Current, TypeOK, Publishes, Ordered, Calls, Numbers
<1>6. Receipts'
  BY DEF Receipts, TypeOK, Cleared, ReceiptShowsOutcomeAt, Calls, Requests, Numbers, Counting
<1>. QED BY <1>1, <1>2, <1>3, <1>4, <1>5, <1>6

LEMMA StatusExpireKeepsInvariant ==
    ASSUME IInv, StatusExpire
    PROVE  IInv'
<1>. USE ConstantsAssumption DEF IInv, StatusExpire, Servable
<1>1. TypeOK'
  BY DEF TypeOK, Flow, Ordered, HoldsDomain, Locations, Held, Counting, Calls, Fills, Requests, Numbers, Statuses
<1>2. InFlightHasAReader'
  BY DEF InFlightHasAReader, TypeOK
<1>3. Flow'
  BY DEF Flow, TypeOK, Calls, Held, Counting
<1>4. Ordered'
  BY DEF Ordered, TypeOK, Calls, Requests, Numbers
<1>5. Current'
  BY DEF Current, TypeOK, Publishes, Ordered, Calls, Numbers
<1>6. Receipts'
  BY DEF Receipts, TypeOK, Cleared, ReceiptShowsOutcomeAt, Calls, Requests, Numbers, Counting
<1>. QED BY <1>1, <1>2, <1>3, <1>4, <1>5, <1>6

LEMMA ReaderAskKeepsInvariant ==
    ASSUME IInv, NEW t \in Threads, ReaderAsk(t)
    PROVE  IInv'
<1>. USE ConstantsAssumption DEF IInv, ReaderAsk, OnlyMoves, Asking
<1>0. Asking(t, 1, "idle")
  BY AskingEffect DEF TypeOK, Locations, Held
<1>. USE <1>0
<1>1. TypeOK'
  BY DEF TypeOK, Flow, Ordered, HoldsDomain, Locations, Held, Counting, Calls, Fills, Requests, Numbers, Statuses
<1>2. InFlightHasAReader'
  BY DEF InFlightHasAReader, TypeOK
<1>3. Flow'
  BY DEF Flow, TypeOK, Calls, Held, Counting
<1>4. Ordered'
  BY DEF Ordered, TypeOK, Calls, Requests, Numbers
<1>5. Current'
  BY DEF Current, TypeOK, Publishes, Ordered, Calls, Numbers
<1>6. Receipts'
  BY DEF Receipts, TypeOK, Cleared, ReceiptShowsOutcomeAt, Calls, Requests, Numbers, Counting
<1>. QED BY <1>1, <1>2, <1>3, <1>4, <1>5, <1>6

LEMMA GovernanceKeepsInvariant ==
    ASSUME IInv, NEW t \in Threads, Governance(t)
    PROVE  IInv'
<1>. USE ConstantsAssumption DEF IInv, Governance, OnlyMoves, Asking, Servable
<1>0. Asking(t, 1, "decide")
  BY AskingEffect DEF TypeOK, Locations, Held
<1>. USE <1>0
<1>1. TypeOK'
  BY DEF TypeOK, Flow, Ordered, HoldsDomain, Locations, Held, Counting, Calls, Fills, Requests, Numbers, Statuses
<1>2. InFlightHasAReader'
  BY DEF InFlightHasAReader, TypeOK
<1>3. Flow'
  BY DEF Flow, TypeOK, Calls, Held, Counting
<1>4. Ordered'
  BY DEF Ordered, TypeOK, Calls, Requests, Numbers
<1>5. Current'
  BY DEF Current, TypeOK, Publishes, Ordered, Calls, Numbers
<1>6. Receipts'
  BY DEF Receipts, TypeOK, Cleared, ReceiptShowsOutcomeAt, Calls, Requests, Numbers, Counting
<1>. QED BY <1>1, <1>2, <1>3, <1>4, <1>5, <1>6

LEMMA RefuseKeepsInvariant ==
    ASSUME IInv, NEW t \in Threads, Refuse(t)
    PROVE  IInv'
<1>. USE ConstantsAssumption DEF IInv, Refuse, Leave, NoCall, CallOf, NoRequest, Goto
<1>1. TypeOK'
  BY DEF TypeOK, Flow, Ordered, HoldsDomain, Locations, Held, Counting, Calls, Fills, Requests, Numbers, Statuses
<1>2. InFlightHasAReader'
  BY DEF InFlightHasAReader, TypeOK
<1>3. Flow'
  BY DEF Flow, TypeOK, Calls, Held, Counting
<1>4. Ordered'
  BY DEF Ordered, TypeOK, Calls, Requests, Numbers
<1>5. Current'
  BY DEF Current, TypeOK, Publishes, Ordered, Calls, Numbers
<1>6. Receipts'
  BY DEF Receipts, TypeOK, Cleared, ReceiptShowsOutcomeAt, Calls, Requests, Numbers, Counting
<1>. QED BY <1>1, <1>2, <1>3, <1>4, <1>5, <1>6

LEMMA AdmitKeepsInvariant ==
    ASSUME IInv, NEW t \in Threads, Admit(t)
    PROVE  IInv'
<1>. USE ConstantsAssumption DEF IInv, Admit, NoCall, CallOf, Goto
<1>1. TypeOK'
  BY DEF TypeOK, Flow, Ordered, HoldsDomain, Locations, Held, Counting, Calls, Fills, Requests, Numbers, Statuses
<1>2. InFlightHasAReader'
  BY DEF InFlightHasAReader, TypeOK
<1>3. Flow'
  BY DEF Flow, TypeOK, Calls, Held, Counting
<1>4. Ordered'
  BY DEF Ordered, TypeOK, Calls, Requests, Numbers
<1>5. Current'
  BY DEF Current, TypeOK, Publishes, Ordered, Calls, Numbers
<1>6. Receipts'
  BY DEF Receipts, TypeOK, Cleared, ReceiptShowsOutcomeAt, Calls, Requests, Numbers, Counting
<1>. QED BY <1>1, <1>2, <1>3, <1>4, <1>5, <1>6

LEMMA TakeDomainKeepsInvariant ==
    ASSUME IInv, NEW t \in Threads, TakeDomain(t)
    PROVE  IInv'
<1>. USE ConstantsAssumption DEF IInv, TakeDomain, OnlyMoves, Asking, Goto
<1>0. \/ t \in Scores /\ call' = call /\ pc' = [pc EXCEPT ![t] = "score"]
      \/ t \in Learns /\ Asking(t, 2, "before")
  BY AskingEffect DEF TypeOK, Flow, Locations, Held
<1>. USE <1>0
<1>1. TypeOK'
  BY DEF TypeOK, Flow, Ordered, HoldsDomain, Locations, Held, Counting, Calls, Fills, Requests, Numbers, Statuses
<1>2. InFlightHasAReader'
  BY DEF InFlightHasAReader, TypeOK
<1>3. Flow'
  BY DEF Flow, TypeOK, Calls, Held, Counting
<1>4. Ordered'
  BY DEF Ordered, TypeOK, Calls, Requests, Numbers
<1>5. Current'
  BY DEF Current, TypeOK, Publishes, Ordered, Calls, Numbers
<1>6. Receipts'
  BY DEF Receipts, TypeOK, Cleared, ReceiptShowsOutcomeAt, Calls, Requests, Numbers, Counting
<1>. QED BY <1>1, <1>2, <1>3, <1>4, <1>5, <1>6

LEMMA ScoreWritesKeepsInvariant ==
    ASSUME IInv, NEW t \in Threads, ScoreWrites(t)
    PROVE  IInv'
<1>. USE ConstantsAssumption DEF IInv, ScoreWrites, Leave, NoCall, CallOf, NoRequest, Goto
<1>1. TypeOK'
  BY DEF TypeOK, Flow, Ordered, HoldsDomain, Locations, Held, Counting, Calls, Fills, Requests, Numbers, Statuses
<1>2. InFlightHasAReader'
  BY DEF InFlightHasAReader, TypeOK
<1>3. Flow'
  BY DEF Flow, TypeOK, Calls, Held, Counting
<1>4. Ordered'
  BY DEF Ordered, TypeOK, Calls, Requests, Numbers
<1>5. Current'
  BY DEF Current, TypeOK, Publishes, Ordered, Calls, Numbers
<1>6. Receipts'
  BY DEF Receipts, TypeOK, Cleared, ReceiptShowsOutcomeAt, Calls, Requests, Numbers, Counting
<1>. QED BY <1>1, <1>2, <1>3, <1>4, <1>5, <1>6

LEMMA TakeBeforeKeepsInvariant ==
    ASSUME IInv, NEW t \in Threads, TakeBefore(t)
    PROVE  IInv'
<1>. USE ConstantsAssumption DEF IInv, TakeBefore, Snapshot, NoCall, CallOf, Goto
<1>1. TypeOK'
  BY DEF TypeOK, Flow, Ordered, HoldsDomain, Locations, Held, Counting, Calls, Fills, Requests, Numbers, Statuses
<1>2. InFlightHasAReader'
  BY DEF InFlightHasAReader, TypeOK
<1>3. Flow'
  BY DEF Flow, TypeOK, Calls, Held, Counting
<1>4. Ordered'
  BY DEF Ordered, TypeOK, Calls, Requests, Numbers
<1>5. Current'
  BY DEF Current, TypeOK, Publishes, Ordered, Calls, Numbers
<1>6. Receipts'
  BY DEF Receipts, TypeOK, Cleared, ReceiptShowsOutcomeAt, Calls, Requests, Numbers, Counting, Ordered
<1>. QED BY <1>1, <1>2, <1>3, <1>4, <1>5, <1>6

\* Nobody else is clearing: this thread has the domain lock.
LEMMA CommitOutcomeKeepsInvariant ==
    ASSUME IInv, NEW t \in Threads, CommitOutcome(t)
    PROVE  IInv'
<1>. USE ConstantsAssumption DEF IInv
<1>0. /\ pc[t] = "commit" /\ pc' = [pc EXCEPT ![t] = "bump"]
      /\ outcomes < MaxOutcomes /\ outcomes' = outcomes + 1
      /\ UNCHANGED <<cacheVars, domain, call, fill, historyVars>>
  BY DEF CommitOutcome, Goto
<1>a. /\ req' \in [Threads -> Requests]
      /\ \A u \in Threads : /\ req'[u].before = req[u].before /\ req'[u].after = req[u].after
                             /\ req'[u].applied = (req[u].applied \/ u = t)
  BY DEF CommitOutcome, TypeOK, Requests
<1>b. \A u \in Threads : pc[u] \in Held => u = t
  BY <1>0 DEF TypeOK, HoldsDomain, Held
<1>. USE <1>0, <1>a, <1>b
<1>1. TypeOK'
  BY DEF TypeOK, Flow, Ordered, HoldsDomain, Locations, Held, Counting, Calls, Fills, Requests, Numbers, Statuses
<1>2. InFlightHasAReader'
  BY DEF InFlightHasAReader, TypeOK
<1>3. Flow'
  BY DEF Flow, TypeOK, Calls, Held, Counting
<1>4. Ordered'
  BY DEF Ordered, TypeOK, Calls, Requests, Numbers
<1>5. Current'
  BY DEF Current, TypeOK, Publishes, Ordered, Calls, Numbers, Held
<1>6. Receipts'
  BY DEF Receipts, TypeOK, Cleared, ReceiptShowsOutcomeAt, Calls, Requests, Numbers, Counting, Held, Ordered, Flow, Current
<1>. QED BY <1>1, <1>2, <1>3, <1>4, <1>5, <1>6

LEMMA NotAppliedKeepsInvariant ==
    ASSUME IInv, NEW t \in Threads, NotApplied(t)
    PROVE  IInv'
<1>. USE ConstantsAssumption DEF IInv, NotApplied, Goto
<1>1. TypeOK'
  BY DEF TypeOK, Flow, Ordered, HoldsDomain, Locations, Held, Counting, Calls, Fills, Requests, Numbers, Statuses
<1>2. InFlightHasAReader'
  BY DEF InFlightHasAReader, TypeOK
<1>3. Flow'
  BY DEF Flow, TypeOK, Calls, Held, Counting
<1>4. Ordered'
  BY DEF Ordered, TypeOK, Calls, Requests, Numbers
<1>5. Current'
  BY DEF Current, TypeOK, Publishes, Ordered, Calls, Numbers
<1>6. Receipts'
  BY DEF Receipts, TypeOK, Cleared, ReceiptShowsOutcomeAt, Calls, Requests, Numbers, Counting
<1>. QED BY <1>1, <1>2, <1>3, <1>4, <1>5, <1>6

LEMMA LearnFailsKeepsInvariant ==
    ASSUME IInv, NEW t \in Threads, LearnFails(t)
    PROVE  IInv'
<1>. USE ConstantsAssumption DEF IInv, LearnFails, Leave, NoCall, CallOf, NoRequest, Goto
<1>1. TypeOK'
  BY DEF TypeOK, Flow, Ordered, HoldsDomain, Locations, Held, Counting, Calls, Fills, Requests, Numbers, Statuses
<1>2. InFlightHasAReader'
  BY DEF InFlightHasAReader, TypeOK
<1>3. Flow'
  BY DEF Flow, TypeOK, Calls, Held, Counting
<1>4. Ordered'
  BY DEF Ordered, TypeOK, Calls, Requests, Numbers
<1>5. Current'
  BY DEF Current, TypeOK, Publishes, Ordered, Calls, Numbers
<1>6. Receipts'
  BY DEF Receipts, TypeOK, Cleared, ReceiptShowsOutcomeAt, Calls, Requests, Numbers, Counting
<1>. QED BY <1>1, <1>2, <1>3, <1>4, <1>5, <1>6

\* Every reader that has read is now of an older generation, or straddles.
LEMMA BumpKeepsInvariant ==
    ASSUME IInv, NEW t \in Threads, Bump(t)
    PROVE  IInv'
<1>. USE ConstantsAssumption DEF IInv, Bump, Goto
<1>0. \A u \in Threads : pc[u] \in Held \/ (pc[u] \in Counting /\ call[u].next \in Held) => u = t
  BY DEF TypeOK, HoldsDomain, Held
<1>a. ~straddled' => \A u \in Threads : pc[u] # "store"
  OBVIOUS
<1>b. \A u \in Threads : pc[u] = "check" => call[u].gen # generation'
  BY DEF Ordered, TypeOK, Calls
<1>. USE <1>0, <1>a, <1>b
<1>1. TypeOK'
  BY DEF TypeOK, Flow, Ordered, HoldsDomain, Locations, Held, Counting, Calls, Fills, Requests, Numbers, Statuses
<1>2. InFlightHasAReader'
  BY DEF InFlightHasAReader, TypeOK
<1>3. Flow'
  BY DEF Flow, TypeOK, Calls, Held, Counting
<1>4. Ordered'
  BY DEF Ordered, TypeOK, Calls, Requests, Numbers
<1>5. Current'
  BY DEF Current, TypeOK, Publishes, Ordered, Calls, Numbers
<1>6. Receipts'
  BY DEF Receipts, TypeOK, Cleared, ReceiptShowsOutcomeAt, Calls, Requests, Numbers, Counting
<1>. QED BY <1>1, <1>2, <1>3, <1>4, <1>5, <1>6

LEMMA ClearStatusKeepsInvariant ==
    ASSUME IInv, NEW t \in Threads, ClearStatus(t)
    PROVE  IInv'
<1>. USE ConstantsAssumption DEF IInv, ClearStatus, Goto
<1>1. TypeOK'
  BY DEF TypeOK, Flow, Ordered, HoldsDomain, Locations, Held, Counting, Calls, Fills, Requests, Numbers, Statuses
<1>2. InFlightHasAReader'
  BY DEF InFlightHasAReader, TypeOK
<1>3. Flow'
  BY DEF Flow, TypeOK, Calls, Held, Counting
<1>4. Ordered'
  BY DEF Ordered, TypeOK, Calls, Requests, Numbers
<1>5. Current'
  BY DEF Current, TypeOK, Publishes, Ordered, Calls, Numbers
<1>6. Receipts'
  BY DEF Receipts, TypeOK, Cleared, ReceiptShowsOutcomeAt, Calls, Requests, Numbers, Counting
<1>. QED BY <1>1, <1>2, <1>3, <1>4, <1>5, <1>6

LEMMA ClearCountsKeepsInvariant ==
    ASSUME IInv, NEW t \in Threads, ClearCounts(t)
    PROVE  IInv'
<1>. USE ConstantsAssumption DEF IInv, ClearCounts, OnlyMoves, Asking
<1>0. Asking(t, 2, "after")
  BY AskingEffect DEF TypeOK, Locations, Held
<1>. USE <1>0
<1>1. TypeOK'
  BY DEF TypeOK, Flow, Ordered, HoldsDomain, Locations, Held, Counting, Calls, Fills, Requests, Numbers, Statuses
<1>2. InFlightHasAReader'
  BY DEF InFlightHasAReader, TypeOK
<1>3. Flow'
  BY DEF Flow, TypeOK, Calls, Held, Counting
<1>4. Ordered'
  BY DEF Ordered, TypeOK, Calls, Requests, Numbers
<1>5. Current'
  BY DEF Current, TypeOK, Publishes, Ordered, Calls, Numbers, HoldsDomain, Held
<1>6. Receipts'
  BY DEF Receipts, TypeOK, Cleared, ReceiptShowsOutcomeAt, Calls, Requests, Numbers, Counting, HoldsDomain, Held, Flow
<1>. QED BY <1>1, <1>2, <1>3, <1>4, <1>5, <1>6

LEMMA TakeAfterKeepsInvariant ==
    ASSUME IInv, NEW t \in Threads, TakeAfter(t)
    PROVE  IInv'
<1>. USE ConstantsAssumption DEF IInv, TakeAfter, Snapshot, NoCall, CallOf, Goto
<1>1. TypeOK'
  BY DEF TypeOK, Flow, Ordered, HoldsDomain, Locations, Held, Counting, Calls, Fills, Requests, Numbers, Statuses
<1>2. InFlightHasAReader'
  BY DEF InFlightHasAReader, TypeOK
<1>3. Flow'
  BY DEF Flow, TypeOK, Calls, Held, Counting
<1>4. Ordered'
  BY DEF Ordered, TypeOK, Calls, Requests, Numbers
<1>5. Current'
  BY DEF Current, TypeOK, Publishes, Ordered, Calls, Numbers
<1>6. Receipts'
  BY DEF Receipts, TypeOK, Cleared, ReceiptShowsOutcomeAt, Calls, Requests, Numbers, Counting
<1>. QED BY <1>1, <1>2, <1>3, <1>4, <1>5, <1>6

LEMMA LearnReturnsKeepsInvariant ==
    ASSUME IInv, NEW t \in Threads, LearnReturns(t)
    PROVE  IInv'
<1>. USE ConstantsAssumption DEF IInv, LearnReturns, Leave, NoCall, CallOf, NoRequest, Goto
<1>1. TypeOK'
  BY DEF TypeOK, Flow, Ordered, HoldsDomain, Locations, Held, Counting, Calls, Fills, Requests, Numbers, Statuses
<1>2. InFlightHasAReader'
  BY DEF InFlightHasAReader, TypeOK
<1>3. Flow'
  BY DEF Flow, TypeOK, Calls, Held, Counting
<1>4. Ordered'
  BY DEF Ordered, TypeOK, Calls, Requests, Numbers
<1>5. Current'
  BY DEF Current, TypeOK, Publishes, Ordered, Calls, Numbers
<1>6. Receipts'
  BY DEF Receipts, TypeOK, Cleared, ReceiptShowsOutcomeAt, Calls, Requests, Numbers, Counting
<1>. QED BY <1>1, <1>2, <1>3, <1>4, <1>5, <1>6

LEMMA StepKeepsInvariant == IInv /\ [Next]_vars => IInv'
<1>. SUFFICES ASSUME IInv, [Next]_vars PROVE IInv'
  OBVIOUS
<1>1. ASSUME NEW t \in Threads, CountsStep(t) PROVE IInv'
  BY <1>1, CountsHitKeepsInvariant, CountsMissKeepsInvariant, CountsReadKeepsInvariant,
     CountsCheckKeepsInvariant, CountsStoreKeepsInvariant, CountsFailKeepsInvariant
     DEF CountsStep
<1>2. ASSUME NEW t \in Threads, PrimeStep(t) PROVE IInv'
  BY <1>2, PrimeMissKeepsInvariant, EvaluateKeepsInvariant, StatusCheckKeepsInvariant,
     StatusStoreKeepsInvariant
     DEF PrimeStep
<1>3. ASSUME NEW t \in Threads, RequestStep(t) PROVE IInv'
  BY <1>3, ReaderAskKeepsInvariant, GovernanceKeepsInvariant, RefuseKeepsInvariant,
     AdmitKeepsInvariant, TakeDomainKeepsInvariant, ScoreWritesKeepsInvariant,
     TakeBeforeKeepsInvariant, CommitOutcomeKeepsInvariant, NotAppliedKeepsInvariant,
     LearnFailsKeepsInvariant, BumpKeepsInvariant, ClearStatusKeepsInvariant,
     ClearCountsKeepsInvariant, TakeAfterKeepsInvariant, LearnReturnsKeepsInvariant
     DEF RequestStep
<1>4. CASE CountsExpire \/ StatusExpire
  BY <1>4, CountsExpireKeepsInvariant, StatusExpireKeepsInvariant
<1>5. CASE UNCHANGED vars
  <2>. USE <1>5 DEF vars, IInv
  <2>1. TypeOK'
    BY DEF TypeOK, HoldsDomain
  <2>2. (InFlightHasAReader /\ Flow /\ Ordered)'
    BY DEF InFlightHasAReader, Flow, Ordered
  <2>3. (Current /\ Receipts)'
    BY DEF Current, Receipts, Publishes, Cleared, ReceiptShowsOutcomeAt
  <2>. QED BY <2>1, <2>2, <2>3
<1>. QED BY <1>1, <1>2, <1>3, <1>4, <1>5 DEF Next

LEMMA InvariantHolds == Spec => []IInv
<1>1. Init => IInv
  BY Initially
<1>2. IInv /\ [Next]_vars => IInv'
  BY StepKeepsInvariant
<1>. QED BY <1>1, <1>2, PTL DEF Spec

-----------------------------------------------------------------------------
(* The status: how far behind a clear it may be *)

\* A number of outcomes that the status may still be published for: not older
\* than the clear before the last and, while a clear is under way, than the last.
InTime(n) ==
    /\ n \in Numbers /\ clearedBefore <= n /\ n <= outcomes
    /\ (\E u \in Threads : pc[u] \in {"clearStatus", "clearCounts"}) => cleared <= n

\* A status that is published while the counts are about to be dropped shows the
\* last clear, not only the one before it.
CachedInTime ==
    status # None /\ status.s # "UNKNOWN" =>
        \E n \in Numbers :
            /\ status.s = StatusOf(n) /\ clearedBefore <= n /\ n <= outcomes
            /\ (\E u \in Threads : pc[u] = "clearCounts") => cleared <= n

\* Inside a status call; and whether no bump has come since it began.
Priming(t) == (pc[t] \in Counting /\ call[t].next = "evaluate") \/ pc[t] \in {"evaluate", "statusCheck"}
Abreast(t) == fill[t].gen = generation

\* What a thread holds that will publish: counts first, then a status.
CountsInTime(t) ==
    /\ pc[t] \in {"check", "store"} /\ call[t].next = "evaluate" /\ Abreast(t) => InTime(call[t].val)
    /\ pc[t] = "evaluate" /\ call[t].ok /\ Abreast(t) => InTime(call[t].val)
StatusInTime(t) ==
    pc[t] = "statusStore" \/ (pc[t] = "statusCheck" /\ Abreast(t)) =>
        fill[t].s = "UNKNOWN" \/ \E n \in Numbers : InTime(n) /\ fill[t].s = StatusOf(n)

Primed ==
    /\ clearedBefore <= cleared
    /\ \A t \in Threads : Priming(t) => fill[t].gen <= generation
    /\ ~straddled => CachedInTime /\ \A t \in Threads : CountsInTime(t) /\ StatusInTime(t)

LEMMA InitiallyPrimed == Init => Primed
<1>. SUFFICES ASSUME Init PROVE Primed
  OBVIOUS
<1>. USE ConstantsAssumption DEF Init
<1>1. clearedBefore <= cleared
  OBVIOUS
<1>2. \A t \in Threads : ~Priming(t) /\ pc[t] \notin {"statusStore", "statusCheck", "evaluate", "check", "store"}
  BY DEF Priming, Counting
<1>. QED BY <1>1, <1>2 DEF Primed, CachedInTime, CountsInTime, StatusInTime

\* A step of t outside every status call, that leaves the status and the clears
\* alone, keeps what the others hold in time.
LEMMA OutsideStatusCalls ==
    ASSUME IInv, IInv', Primed, NEW t \in Threads,
           UNCHANGED <<generation, status, fill, historyVars>>, outcomes <= outcomes',
           \A u \in Threads \ {t} : pc'[u] = pc[u] /\ call'[u] = call[u],
           ~Priming(t)', pc'[t] \notin {"statusStore", "clearStatus", "clearCounts"}
    PROVE  Primed'
<1>. USE DEF IInv
<1>1. \A n : InTime(n) => InTime(n)'
  BY DEF InTime, TypeOK, Numbers
<1>2. (clearedBefore <= cleared)' /\ (~straddled' => ~straddled)
  BY DEF Primed
<1>3. \A u \in Threads : Priming(u)' => fill'[u].gen <= generation'
  BY DEF Primed, Priming
<1>4. ASSUME ~straddled' PROVE CachedInTime'
  BY <1>4 DEF Primed, CachedInTime, TypeOK, Numbers
<1>5. ASSUME ~straddled', NEW u \in Threads PROVE (CountsInTime(u) /\ StatusInTime(u))'
  <2>1. CASE u = t
    BY <2>1 DEF CountsInTime, StatusInTime, Priming, Counting
  <2>2. CASE u # t
    BY <1>1, <1>5, <2>2 DEF Primed, CountsInTime, StatusInTime, Abreast
  <2>. QED BY <2>1, <2>2
<1>. QED BY <1>2, <1>3, <1>4, <1>5 DEF Primed

LEMMA CountsHitStaysPrimed ==
    ASSUME IInv, IInv', Primed, NEW t \in Threads, CountsHit(t)
    PROVE  Primed'
<1>. USE ConstantsAssumption DEF IInv, CountsHit, OnlyMoves, Answered, Servable
<1>0. Answered(t, counts.n, FALSE)
  BY AnsweredEffect DEF TypeOK, Counting, Calls, Numbers
<1>. USE <1>0
<1>1. clearedBefore' <= cleared' /\ \A u \in Threads : Priming(u)' => fill'[u].gen <= generation'
  BY DEF Primed, Priming, TypeOK, Calls, Fills, Numbers, Counting
<1>2. ASSUME ~straddled' PROVE CachedInTime'
  BY <1>2 DEF Primed, CachedInTime, TypeOK, Numbers, Current, Ordered
<1>3. ASSUME ~straddled', NEW u \in Threads PROVE CountsInTime(u)'
  BY <1>3 DEF Primed, CountsInTime, InTime, Abreast, TypeOK, Calls, Fills, Numbers, Counting, Current, Ordered
<1>4. ASSUME ~straddled', NEW u \in Threads PROVE StatusInTime(u)'
  BY <1>4 DEF Primed, StatusInTime, InTime, Abreast, TypeOK, Calls, Fills, Numbers, Counting, Current, Ordered
<1>. QED BY <1>1, <1>2, <1>3, <1>4 DEF Primed

LEMMA CountsMissStaysPrimed ==
    ASSUME IInv, IInv', Primed, NEW t \in Threads, CountsMiss(t)
    PROVE  Primed'
<1>. USE ConstantsAssumption DEF IInv, CountsMiss, Goto
<1>1. clearedBefore' <= cleared' /\ \A u \in Threads : Priming(u)' => fill'[u].gen <= generation'
  BY DEF Primed, Priming, TypeOK, Calls, Fills, Numbers, Counting
<1>2. ASSUME ~straddled' PROVE CachedInTime'
  BY <1>2 DEF Primed, CachedInTime, TypeOK, Numbers
<1>3. ASSUME ~straddled', NEW u \in Threads PROVE CountsInTime(u)'
  BY <1>3 DEF Primed, CountsInTime, InTime, Abreast, TypeOK, Calls, Fills, Numbers, Counting
<1>4. ASSUME ~straddled', NEW u \in Threads PROVE StatusInTime(u)'
  BY <1>4 DEF Primed, StatusInTime, InTime, Abreast, TypeOK, Calls, Fills, Numbers, Counting
<1>. QED BY <1>1, <1>2, <1>3, <1>4 DEF Primed

LEMMA CountsReadStaysPrimed ==
    ASSUME IInv, IInv', Primed, NEW t \in Threads, CountsRead(t)
    PROVE  Primed'
<1>. USE ConstantsAssumption DEF IInv, CountsRead, Goto
<1>1. clearedBefore' <= cleared' /\ \A u \in Threads : Priming(u)' => fill'[u].gen <= generation'
  BY DEF Primed, Priming, TypeOK, Calls, Fills, Numbers, Counting
<1>2. ASSUME ~straddled' PROVE CachedInTime'
  BY <1>2 DEF Primed, CachedInTime, TypeOK, Numbers, Ordered
<1>3. ASSUME ~straddled', NEW u \in Threads PROVE CountsInTime(u)'
  BY <1>3 DEF Primed, CountsInTime, InTime, Abreast, TypeOK, Calls, Fills, Numbers, Counting, Ordered
<1>4. ASSUME ~straddled', NEW u \in Threads PROVE StatusInTime(u)'
  BY <1>4 DEF Primed, StatusInTime, InTime, Abreast, TypeOK, Calls, Fills, Numbers, Counting, Ordered
<1>. QED BY <1>1, <1>2, <1>3, <1>4 DEF Primed

LEMMA CountsCheckStaysPrimed ==
    ASSUME IInv, IInv', Primed, NEW t \in Threads, CountsCheck(t)
    PROVE  Primed'
<1>. USE ConstantsAssumption DEF IInv, CountsCheck, OnlyMoves, Answered, Goto, Unchanged
<1>0. \/ /\ call[t].gen = generation /\ call' = call /\ pc' = [pc EXCEPT ![t] = "store"]
      \/ Answered(t, call[t].val, FALSE)
  BY AnsweredEffect DEF TypeOK, Counting, Calls
<1>. USE <1>0
<1>1. clearedBefore' <= cleared' /\ \A u \in Threads : Priming(u)' => fill'[u].gen <= generation'
  BY DEF Primed, Priming, TypeOK, Calls, Fills, Numbers, Counting
<1>2. ASSUME ~straddled' PROVE CachedInTime'
  BY <1>2 DEF Primed, CachedInTime, TypeOK, Numbers
<1>3. ASSUME ~straddled', NEW u \in Threads PROVE CountsInTime(u)'
  BY <1>3 DEF Primed, CountsInTime, InTime, Abreast, TypeOK, Calls, Fills, Numbers, Counting
<1>4. ASSUME ~straddled', NEW u \in Threads PROVE StatusInTime(u)'
  BY <1>4 DEF Primed, StatusInTime, InTime, Abreast, TypeOK, Calls, Fills, Numbers, Counting
<1>. QED BY <1>1, <1>2, <1>3, <1>4 DEF Primed

LEMMA CountsStoreStaysPrimed ==
    ASSUME IInv, IInv', Primed, NEW t \in Threads, CountsStore(t)
    PROVE  Primed'
<1>. USE ConstantsAssumption DEF IInv, CountsStore, OnlyMoves, Answered
<1>0. Answered(t, call[t].val, FALSE)
  BY AnsweredEffect DEF TypeOK, Counting, Calls, Numbers
<1>. USE <1>0
<1>1. clearedBefore' <= cleared' /\ \A u \in Threads : Priming(u)' => fill'[u].gen <= generation'
  BY DEF Primed, Priming, TypeOK, Calls, Fills, Numbers, Counting
<1>2. ASSUME ~straddled' PROVE CachedInTime'
  BY <1>2 DEF Primed, CachedInTime, TypeOK, Numbers
<1>3. ASSUME ~straddled', NEW u \in Threads PROVE CountsInTime(u)'
  BY <1>3 DEF Primed, CountsInTime, InTime, Abreast, TypeOK, Calls, Fills, Numbers, Counting
<1>4. ASSUME ~straddled', NEW u \in Threads PROVE StatusInTime(u)'
  BY <1>4 DEF Primed, StatusInTime, InTime, Abreast, TypeOK, Calls, Fills, Numbers, Counting
<1>. QED BY <1>1, <1>2, <1>3, <1>4 DEF Primed

LEMMA CountsFailStaysPrimed ==
    ASSUME IInv, IInv', Primed, NEW t \in Threads, CountsFail(t)
    PROVE  Primed'
<1>. USE ConstantsAssumption DEF IInv, CountsFail, OnlyMoves, Answered
<1>. 0 \in Numbers
  BY DEF Numbers
<1>0. Answered(t, 0, TRUE)
  BY AnsweredEffect DEF TypeOK, Counting, Calls, Numbers
<1>. USE <1>0
<1>1. clearedBefore' <= cleared' /\ \A u \in Threads : Priming(u)' => fill'[u].gen <= generation'
  BY DEF Primed, Priming, TypeOK, Calls, Fills, Numbers, Counting
<1>2. ASSUME ~straddled' PROVE CachedInTime'
  BY <1>2 DEF Primed, CachedInTime, TypeOK, Numbers
<1>3. ASSUME ~straddled', NEW u \in Threads PROVE CountsInTime(u)'
  BY <1>3 DEF Primed, CountsInTime, InTime, Abreast, TypeOK, Calls, Fills, Numbers, Counting
<1>4. ASSUME ~straddled', NEW u \in Threads PROVE StatusInTime(u)'
  BY <1>4 DEF Primed, StatusInTime, InTime, Abreast, TypeOK, Calls, Fills, Numbers, Counting
<1>. QED BY <1>1, <1>2, <1>3, <1>4 DEF Primed

LEMMA CountsExpireStaysPrimed ==
    ASSUME IInv, IInv', Primed, CountsExpire
    PROVE  Primed'
<1>. USE ConstantsAssumption DEF IInv, CountsExpire
<1>1. clearedBefore' <= cleared' /\ \A u \in Threads : Priming(u)' => fill'[u].gen <= generation'
  BY DEF Primed, Priming, TypeOK, Calls, Fills, Numbers, Counting
<1>2. ASSUME ~straddled' PROVE CachedInTime'
  BY <1>2 DEF Primed, CachedInTime, TypeOK, Numbers
<1>3. ASSUME ~straddled', NEW u \in Threads PROVE CountsInTime(u)'
  BY <1>3 DEF Primed, CountsInTime, InTime, Abreast, TypeOK, Calls, Fills, Numbers, Counting
<1>4. ASSUME ~straddled', NEW u \in Threads PROVE StatusInTime(u)'
  BY <1>4 DEF Primed, StatusInTime, InTime, Abreast, TypeOK, Calls, Fills, Numbers, Counting
<1>. QED BY <1>1, <1>2, <1>3, <1>4 DEF Primed

LEMMA PrimeMissStaysPrimed ==
    ASSUME IInv, IInv', Primed, NEW t \in Threads, PrimeMiss(t)
    PROVE  Primed'
<1>. USE ConstantsAssumption DEF IInv, PrimeMiss, OnlyMoves, Asking
<1>0. Asking(t, 1, "evaluate")
  BY AskingEffect DEF TypeOK, Locations, Held
<1>. USE <1>0
<1>1. clearedBefore' <= cleared' /\ \A u \in Threads : Priming(u)' => fill'[u].gen <= generation'
  BY DEF Primed, Priming, TypeOK, Calls, Fills, Numbers, Counting
<1>2. ASSUME ~straddled' PROVE CachedInTime'
  BY <1>2 DEF Primed, CachedInTime, TypeOK, Numbers
<1>3. ASSUME ~straddled', NEW u \in Threads PROVE CountsInTime(u)'
  BY <1>3 DEF Primed, CountsInTime, InTime, Abreast, TypeOK, Calls, Fills, Numbers, Counting
<1>4. ASSUME ~straddled', NEW u \in Threads PROVE StatusInTime(u)'
  BY <1>4 DEF Primed, StatusInTime, InTime, Abreast, TypeOK, Calls, Fills, Numbers, Counting
<1>. QED BY <1>1, <1>2, <1>3, <1>4 DEF Primed

LEMMA EvaluateStaysPrimed ==
    ASSUME IInv, IInv', Primed, NEW t \in Threads, Evaluate(t)
    PROVE  Primed'
<1>. USE ConstantsAssumption DEF IInv, Evaluate, NoCall, CallOf, Goto
<1>1. clearedBefore' <= cleared' /\ \A u \in Threads : Priming(u)' => fill'[u].gen <= generation'
  BY DEF Primed, Priming, TypeOK, Calls, Fills, Numbers, Counting
<1>2. ASSUME ~straddled' PROVE CachedInTime'
  BY <1>2 DEF Primed, CachedInTime, TypeOK, Numbers
<1>3. ASSUME ~straddled', NEW u \in Threads PROVE CountsInTime(u)'
  BY <1>3 DEF Primed, CountsInTime, InTime, Abreast, TypeOK, Calls, Fills, Numbers, Counting
<1>4. ASSUME ~straddled', NEW u \in Threads PROVE StatusInTime(u)'
  <2>1. CASE u = t
    <3>1. \A n : InTime(n) => InTime(n)'
      BY DEF InTime, TypeOK
    <3>2. pc[t] = "evaluate" /\ call[t].ok /\ Abreast(t) => InTime(call[t].val)
      BY <1>4 DEF Primed, CountsInTime
    <3>3. /\ pc'[t] = "statusCheck" /\ fill'[t].gen = fill[t].gen /\ generation' = generation
          /\ fill'[t].s = IF call[t].ok THEN StatusOf(call[t].val) ELSE "UNKNOWN"
      BY DEF TypeOK, Fills
    <3>4. Abreast(t)' => fill'[t].s = "UNKNOWN" \/ \E n \in Numbers : InTime(n)' /\ fill'[t].s = StatusOf(n)
      <4>. SUFFICES ASSUME Abreast(t)', call[t].ok
                    PROVE  \E n \in Numbers : InTime(n)' /\ fill'[t].s = StatusOf(n)
        BY <3>3
      <4>1. PICK n : n = call[t].val
        OBVIOUS
      <4>2. InTime(n)
        BY <3>2, <3>3, <4>1 DEF Abreast
      <4>. QED BY <3>1, <3>3, <4>1, <4>2 DEF InTime
    <3>. QED BY <2>1, <3>3, <3>4 DEF StatusInTime, Abreast
  <2>2. CASE u # t
    BY <1>4, <2>2 DEF Primed, StatusInTime, InTime, Abreast, TypeOK
  <2>. QED BY <2>1, <2>2
<1>. QED BY <1>1, <1>2, <1>3, <1>4 DEF Primed

LEMMA StatusCheckStaysPrimed ==
    ASSUME IInv, IInv', Primed, NEW t \in Threads, StatusCheck(t)
    PROVE  Primed'
<1>. USE ConstantsAssumption DEF IInv, StatusCheck, NoFill, Unchanged, Goto
<1>1. clearedBefore' <= cleared' /\ \A u \in Threads : Priming(u)' => fill'[u].gen <= generation'
  BY DEF Primed, Priming, TypeOK, Calls, Fills, Numbers, Counting
<1>2. ASSUME ~straddled' PROVE CachedInTime'
  BY <1>2 DEF Primed, CachedInTime, TypeOK, Numbers
<1>3. ASSUME ~straddled', NEW u \in Threads PROVE CountsInTime(u)'
  BY <1>3 DEF Primed, CountsInTime, InTime, Abreast, TypeOK, Calls, Fills, Numbers, Counting
<1>4. ASSUME ~straddled', NEW u \in Threads PROVE StatusInTime(u)'
  BY <1>4 DEF Primed, StatusInTime, InTime, Abreast, TypeOK, Calls, Fills, Numbers, Counting
<1>. QED BY <1>1, <1>2, <1>3, <1>4 DEF Primed

LEMMA StatusStoreStaysPrimed ==
    ASSUME IInv, IInv', Primed, NEW t \in Threads, StatusStore(t)
    PROVE  Primed'
<1>. USE ConstantsAssumption DEF IInv, StatusStore, NoFill, Goto
<1>1. clearedBefore' <= cleared' /\ \A u \in Threads : Priming(u)' => fill'[u].gen <= generation'
  BY DEF Primed, Priming, TypeOK, Calls, Fills, Numbers, Counting
<1>2. ASSUME ~straddled' PROVE CachedInTime'
  BY <1>2 DEF Primed, CachedInTime, TypeOK, Numbers, InTime, StatusInTime
<1>3. ASSUME ~straddled', NEW u \in Threads PROVE CountsInTime(u)'
  BY <1>3 DEF Primed, CountsInTime, InTime, Abreast, TypeOK, Calls, Fills, Numbers, Counting, InTime, StatusInTime
<1>4. ASSUME ~straddled', NEW u \in Threads PROVE StatusInTime(u)'
  BY <1>4 DEF Primed, StatusInTime, InTime, Abreast, TypeOK, Calls, Fills, Numbers, Counting, InTime, StatusInTime
<1>. QED BY <1>1, <1>2, <1>3, <1>4 DEF Primed

LEMMA StatusExpireStaysPrimed ==
    ASSUME IInv, IInv', Primed, StatusExpire
    PROVE  Primed'
<1>. USE ConstantsAssumption DEF IInv, StatusExpire, Servable
<1>1. clearedBefore' <= cleared' /\ \A u \in Threads : Priming(u)' => fill'[u].gen <= generation'
  BY DEF Primed, Priming, TypeOK, Calls, Fills, Numbers, Counting
<1>2. ASSUME ~straddled' PROVE CachedInTime'
  BY <1>2 DEF Primed, CachedInTime, TypeOK, Numbers
<1>3. ASSUME ~straddled', NEW u \in Threads PROVE CountsInTime(u)'
  BY <1>3 DEF Primed, CountsInTime, InTime, Abreast, TypeOK, Calls, Fills, Numbers, Counting
<1>4. ASSUME ~straddled', NEW u \in Threads PROVE StatusInTime(u)'
  BY <1>4 DEF Primed, StatusInTime, InTime, Abreast, TypeOK, Calls, Fills, Numbers, Counting
<1>. QED BY <1>1, <1>2, <1>3, <1>4 DEF Primed

\* Whoever was inside a status call has fallen behind; a store straddles.
LEMMA BumpStaysPrimed ==
    ASSUME IInv, IInv', Primed, NEW t \in Threads, Bump(t)
    PROVE  Primed'
<1>. USE ConstantsAssumption DEF IInv, Bump, Goto
<1>0. \A u \in Threads : Priming(u) => ~Abreast(u)'
  BY DEF Primed, Abreast, TypeOK, Fills
<1>. USE <1>0
<1>1. clearedBefore' <= cleared' /\ \A u \in Threads : Priming(u)' => fill'[u].gen <= generation'
  BY DEF Primed, Priming, TypeOK, Calls, Fills, Numbers, Counting
<1>2. ASSUME ~straddled' PROVE CachedInTime'
  BY <1>2 DEF Primed, CachedInTime, TypeOK, Numbers, Priming
<1>3. ASSUME ~straddled', NEW u \in Threads PROVE CountsInTime(u)'
  BY <1>3 DEF Primed, CountsInTime, InTime, Abreast, TypeOK, Calls, Fills, Numbers, Counting, Priming
<1>4. ASSUME ~straddled', NEW u \in Threads PROVE StatusInTime(u)'
  BY <1>4 DEF Primed, StatusInTime, InTime, Abreast, TypeOK, Calls, Fills, Numbers, Counting, Priming
<1>. QED BY <1>1, <1>2, <1>3, <1>4 DEF Primed

LEMMA ClearStatusStaysPrimed ==
    ASSUME IInv, IInv', Primed, NEW t \in Threads, ClearStatus(t)
    PROVE  Primed'
<1>. USE ConstantsAssumption DEF IInv, ClearStatus, Goto
<1>1. clearedBefore' <= cleared' /\ \A u \in Threads : Priming(u)' => fill'[u].gen <= generation'
  BY DEF Primed, Priming, TypeOK, Calls, Fills, Numbers, Counting
<1>2. ASSUME ~straddled' PROVE CachedInTime'
  BY <1>2 DEF Primed, CachedInTime, TypeOK, Numbers
<1>3. ASSUME ~straddled', NEW u \in Threads PROVE CountsInTime(u)'
  BY <1>3 DEF Primed, CountsInTime, InTime, Abreast, TypeOK, Calls, Fills, Numbers, Counting
<1>4. ASSUME ~straddled', NEW u \in Threads PROVE StatusInTime(u)'
  BY <1>4 DEF Primed, StatusInTime, InTime, Abreast, TypeOK, Calls, Fills, Numbers, Counting
<1>. QED BY <1>1, <1>2, <1>3, <1>4 DEF Primed

\* The counts are dropped for what was held back: it is now one clear behind.
LEMMA ClearCountsStaysPrimed ==
    ASSUME IInv, IInv', Primed, NEW t \in Threads, ClearCounts(t)
    PROVE  Primed'
<1>. USE ConstantsAssumption DEF IInv, ClearCounts, OnlyMoves, Asking, Ordered
<1>0. Asking(t, 2, "after")
  BY AskingEffect DEF TypeOK, Locations, Held
<1>. USE <1>0
<1>9. \A u \in Threads : pc[u] \in {"clearStatus", "clearCounts"} => u = t
  BY DEF TypeOK, HoldsDomain, Held
<1>. USE <1>9
<1>1. clearedBefore' <= cleared' /\ \A u \in Threads : Priming(u)' => fill'[u].gen <= generation'
  BY DEF Primed, Priming, TypeOK, Calls, Fills, Numbers, Counting
<1>2. ASSUME ~straddled' PROVE CachedInTime'
  BY <1>2 DEF Primed, CachedInTime, TypeOK, Numbers
<1>3. ASSUME ~straddled', NEW u \in Threads PROVE CountsInTime(u)'
  BY <1>3 DEF Primed, CountsInTime, InTime, Abreast, TypeOK, Calls, Fills, Numbers, Counting
<1>4. ASSUME ~straddled', NEW u \in Threads PROVE StatusInTime(u)'
  BY <1>4 DEF Primed, StatusInTime, InTime, Abreast, TypeOK, Calls, Fills, Numbers, Counting
<1>. QED BY <1>1, <1>2, <1>3, <1>4 DEF Primed

LEMMA StepStaysPrimed == IInv /\ IInv' /\ Primed /\ [Next]_vars => Primed'
<1>. SUFFICES ASSUME IInv, IInv', Primed, [Next]_vars PROVE Primed'
  OBVIOUS
<1>1. ASSUME NEW t \in Threads, CountsStep(t) PROVE Primed'
  BY <1>1, CountsHitStaysPrimed, CountsMissStaysPrimed, CountsReadStaysPrimed,
     CountsCheckStaysPrimed, CountsStoreStaysPrimed, CountsFailStaysPrimed
     DEF CountsStep
<1>2. ASSUME NEW t \in Threads, PrimeStep(t) PROVE Primed'
  BY <1>2, PrimeMissStaysPrimed, EvaluateStaysPrimed, StatusCheckStaysPrimed,
     StatusStoreStaysPrimed
     DEF PrimeStep
<1>3. ASSUME NEW t \in Threads, RequestStep(t) PROVE Primed'
  <2>. USE ConstantsAssumption DEF IInv, TypeOK
  <2>1. CASE ReaderAsk(t)
    <3>1. Asking(t, 1, "idle")
      BY <2>1, AskingEffect DEF ReaderAsk, Locations
    <3>. QED BY <2>1, <3>1, OutsideStatusCalls DEF ReaderAsk, Asking, OnlyMoves, Priming, Numbers
  <2>2. CASE Governance(t)
    <3>1. Asking(t, 1, "decide")
      BY <2>2, AskingEffect DEF Governance, Locations
    <3>. QED BY <2>2, <3>1, OutsideStatusCalls DEF Governance, Asking, OnlyMoves, Priming, Numbers
  <2>3. CASE TakeDomain(t)
    <3>1. (call' = call /\ pc' = [pc EXCEPT ![t] = "score"]) \/ Asking(t, 2, "before")
      BY <2>3, AskingEffect DEF TakeDomain, Goto, Locations, Held
    <3>. QED BY <2>3, <3>1, OutsideStatusCalls DEF TakeDomain, Asking, OnlyMoves, Priming, Counting, Numbers
  <2>4. CASE Refuse(t) \/ ScoreWrites(t) \/ LearnFails(t) \/ LearnReturns(t)
    <3>1. Leave(t)
      BY <2>4 DEF Refuse, ScoreWrites, LearnFails, LearnReturns
    <3>. QED BY <3>1, OutsideStatusCalls DEF Leave, Goto, Priming, Counting, Numbers
  <2>5. CASE Admit(t) \/ TakeBefore(t) \/ TakeAfter(t)
    BY <2>5, OutsideStatusCalls DEF Admit, TakeBefore, TakeAfter, Goto, Priming, Counting, Numbers
  <2>6. CASE CommitOutcome(t) \/ NotApplied(t)
    <3>1. pc' = [pc EXCEPT ![t] = "bump"] /\ UNCHANGED <<call, generation, status, fill, historyVars>>
      BY <2>6 DEF CommitOutcome, NotApplied, Goto
    <3>2. outcomes' = outcomes \/ outcomes' = outcomes + 1
      BY <2>6 DEF CommitOutcome, NotApplied
    <3>3. outcomes <= outcomes'
      BY <3>2 DEF Numbers
    <3>. QED BY <3>1, <3>3, OutsideStatusCalls DEF Priming, Counting
  <2>. QED BY <1>3, <2>1, <2>2, <2>3, <2>4, <2>5, <2>6, BumpStaysPrimed, ClearStatusStaysPrimed,
           ClearCountsStaysPrimed DEF RequestStep
<1>4. CASE CountsExpire \/ StatusExpire
  BY <1>4, CountsExpireStaysPrimed, StatusExpireStaysPrimed
<1>5. CASE UNCHANGED vars
  BY <1>5 DEF vars, Primed, CachedInTime, CountsInTime, StatusInTime, InTime, Priming, Abreast
<1>. QED BY <1>1, <1>2, <1>3, <1>4, <1>5 DEF Next

LEMMA PrimedHolds == Spec => [](IInv /\ Primed)
<1>1. Init => IInv /\ Primed
  BY Initially, InitiallyPrimed
<1>2. IInv /\ Primed /\ [Next]_vars => (IInv /\ Primed)'
  BY StepKeepsInvariant, StepStaysPrimed
<1>. QED BY <1>1, <1>2, PTL DEF Spec

-----------------------------------------------------------------------------
(* The theorems *)

\* Every variable keeps its type, and the domain lock belongs to the thread that
\* is inside it, also while that thread asks for the counts.
THEOREM TypeCorrect == Spec => []TypeOK
<1>1. IInv => TypeOK
  BY DEF IInv
<1>. QED BY <1>1, InvariantHolds, PTL

\* The generation test of _cached_conservation_counts does its work: cached
\* counts show every outcome cleared for, unless a clear met a store.
THEOREM CountsStayCurrent == Spec => []CountsAreCurrent
<1>1. IInv => CountsAreCurrent
  BY DEF IInv, Current, CountsAreCurrent
<1>. QED BY <1>1, InvariantHolds, PTL

\* The verified counts on the receipt of an applied outcome grow by it, with the
\* same proviso.
THEOREM ReceiptsShowOutcomes == Spec => []ReceiptShowsOutcome
<1>1. IInv => ReceiptShowsOutcome
  BY DEF IInv, Receipts, ReceiptShowsOutcome
<1>. QED BY <1>1, InvariantHolds, PTL

\* A stale entry is served only while some reader is at the graph to replace it:
\* the in-flight mark is never left behind.
THEOREM MarksHaveReaders == Spec => []InFlightHasAReader
<1>1. IInv => InFlightHasAReader
  BY DEF IInv
<1>. QED BY <1>1, InvariantHolds, PTL

\* A known status that is cached belongs to a number of outcomes no older than
\* the clear before the last: dropping the status before the counts costs one
\* clear, never two, unless a clear met a store.
THEOREM StatusStaysClose == Spec => []StatusIsOneClearBehind
<1>1. IInv /\ Primed => StatusIsOneClearBehind
  BY DEF IInv, TypeOK, Numbers, Primed, CachedInTime, StatusIsOneClearBehind
<1>. QED BY <1>1, PrimedHolds, PTL

===============================================================================
