-------------------------- MODULE ResponseMaterializer --------------------------
(***************************************************************************)
(* services/response_materializer.py: the snapshot of computed responses   *)
(* that the read endpoints share, the requests that read it, the           *)
(* background refresh and the shutdown of main.py, and the score and learn *)
(* requests of routers/s2p.py that invalidate it after they commit.        *)
(*                                                                         *)
(* Every block under the condition variable's lock is one step.  A build   *)
(* reads the graph twice outside it.  Time is counted in units: a query    *)
(* has QueryLimit of them (refresh_timeout), a wait for somebody else's    *)
(* build WaitLimit (refresh_timeout + 5), a snapshot Ttl; the background     *)
(* refresh waits Sleep after each of its refreshes.                        *)
(***************************************************************************)
EXTENDS Naturals

CONSTANTS
    Readers,     \* request threads
    Loop,        \* the background refresh
    Main,        \* the application's shutdown
    Writes,      \* score and learn requests that commit to the graph
    QueryLimit, WaitLimit, Ttl, Sleep,
    None

ASSUME ConstantsAssumption ==
    /\ Loop \notin Readers /\ Main \notin Readers \cup {Loop}
    /\ QueryLimit \in Nat \ {0} /\ WaitLimit \in Nat \ {0} /\ Ttl \in Nat \ {0}
    /\ Sleep \in Nat
    /\ None \notin [dec : SUBSET Writes, ver : SUBSET Writes]
    /\ None \notin Nat

Builders == Readers \cup {Loop}
Procs == Builders \cup {Main}
MaxTries == 3

VARIABLES
    stage,        \* each write: to come, committed, invalidated or failed
    snap,         \* _materialized; None when it is empty
    age,          \* time since _last_refresh, up to Ttl; None when it is None
    refreshing,   \* _refreshing
    failure,      \* _failure is set
    generation,   \* _generation
    pc,           \* where each process stands
    clock,        \* how long it has been there, for the timed places
    tries,        \* refreshes the call in hand has asked for
    gen,          \* generation a build started from
    build,        \* the writes each of its two queries returned
    disturbed     \* (history) what the call in hand may blame for no answer

snapshotVars == <<snap, age>>
sharedVars == <<snap, age, refreshing, failure, generation>>
callVars == <<tries, gen, build, disturbed>>
vars == <<stage, sharedVars, pc, clock, callVars>>

Stored == {w \in Writes : stage[w] # "none"}
Invalidated == {w \in Writes : stage[w] = "done"}
NoBuild == [dec |-> {}, ver |-> {}]

Init ==
    /\ stage = [w \in Writes |-> "none"]
    /\ snap = None /\ age = None
    /\ refreshing = FALSE /\ failure = FALSE /\ generation = 0
    /\ pc = [p \in Procs |-> IF p = Main THEN "up" ELSE "idle"]
    /\ clock = [p \in Procs |-> IF p = Loop THEN Sleep ELSE 0]
    /\ tries = [p \in Procs |-> 0]
    /\ gen = [p \in Procs |-> 0]
    /\ build = [p \in Procs |-> NoBuild]
    /\ disturbed = [p \in Procs |-> FALSE]

Fresh == age # None /\ age < Ttl
\* What get() hands out: whatever there is while a build is in flight, and
\* otherwise only what has not expired.
Served == IF refreshing \/ Fresh THEN snap ELSE None

Goto(p, l) == pc' = [pc EXCEPT ![p] = l] /\ clock' = [clock EXCEPT ![p] = 0]

-----------------------------------------------------------------------------
(* get_or_refresh, get and refresh *)

\* A request asks with get_or_refresh, or with get alone (cached_response).
Ask(r) ==
    /\ pc[r] = "idle" /\ pc[Main] = "up"
    /\ Goto(r, "look")
    /\ tries' = [tries EXCEPT ![r] = 0]
    /\ disturbed' = [disturbed EXCEPT ![r] = FALSE]
    /\ UNCHANGED <<stage, sharedVars, gen, build>>

\* The startup's refresh, then _s2p_refresh_loop after each sleep, until
\* shutdown cancels it.
LoopAsk ==
    /\ pc[Loop] = "idle" /\ pc[Main] = "up" /\ clock[Loop] = Sleep
    /\ Goto(Loop, "refresh")
    /\ UNCHANGED <<stage, sharedVars, callVars>>

Look(r) ==
    /\ pc[r] = "look"
    /\ Goto(r, IF Fresh THEN "get" ELSE "refresh")
    /\ UNCHANGED <<stage, sharedVars, callVars>>

\* Where a refresh that did not raise returns to: the loop sleeps again, a
\* request looks once more or, after its last try, takes what get() has.
AfterRefresh_GivesUp(p) ==
    /\ Goto(p, IF p = Loop THEN "idle" ELSE "get")
    /\ UNCHANGED tries

AfterRefresh(p) ==
    /\ Goto(p, IF p = Loop THEN "idle" ELSE IF tries[p] + 1 < MaxTries THEN "look" ELSE "get")
    /\ tries' = [tries EXCEPT ![p] = IF p = Loop THEN 0 ELSE @ + 1]

\* refresh: only requests pass if_stale.
SkipRefresh(r) ==
    /\ pc[r] = "refresh" /\ Fresh
    /\ AfterRefresh(r)
    /\ UNCHANGED <<stage, sharedVars, gen, build, disturbed>>

Stale(p) == p \in Readers => ~Fresh

JoinRefresh(p) ==
    /\ pc[p] = "refresh" /\ Stale(p) /\ refreshing
    /\ Goto(p, "waiting")
    /\ UNCHANGED <<stage, sharedVars, callVars>>

StartRefresh_TrustsTheLook(p) ==
    /\ pc[p] = "refresh" /\ Stale(p)
    /\ refreshing' = TRUE /\ failure' = FALSE
    /\ gen' = [gen EXCEPT ![p] = generation]
    /\ Goto(p, "decisions")
    /\ UNCHANGED <<stage, snapshotVars, generation, tries, build, disturbed>>

StartRefresh(p) ==
    /\ pc[p] = "refresh" /\ Stale(p) /\ ~refreshing
    /\ refreshing' = TRUE /\ failure' = FALSE
    /\ gen' = [gen EXCEPT ![p] = generation]
    /\ Goto(p, "decisions")
    /\ UNCHANGED <<stage, snapshotVars, generation, tries, build, disturbed>>

\* The waiter wakes under the lock once nobody refreshes, or when its time is
\* up and somebody still does.
WakeRaises(p) ==
    /\ pc[p] = "waiting" /\ ~refreshing /\ failure
    /\ Goto(p, "idle")
    /\ UNCHANGED <<stage, sharedVars, callVars>>

WakeReturns(p) ==
    /\ pc[p] = "waiting" /\ ~refreshing /\ ~failure
    /\ AfterRefresh(p)
    /\ UNCHANGED <<stage, sharedVars, gen, build, disturbed>>

WaitTimesOut_WaitsAgain(p) ==
    /\ pc[p] = "waiting" /\ refreshing /\ clock[p] = WaitLimit
    /\ Goto(p, "waiting")
    /\ UNCHANGED <<stage, sharedVars, callVars>>

WaitTimesOut(p) ==
    /\ pc[p] = "waiting" /\ refreshing /\ clock[p] = WaitLimit
    /\ AfterRefresh(p)
    /\ disturbed' = [disturbed EXCEPT ![p] = TRUE]
    /\ UNCHANGED <<stage, sharedVars, gen, build>>

\* The two bounded queries; the snapshot is computed from what they return.
ReadDecisions(p) ==
    /\ pc[p] = "decisions"
    /\ build' = [build EXCEPT ![p].dec = Stored]
    /\ Goto(p, "verified")
    /\ UNCHANGED <<stage, sharedVars, tries, gen, disturbed>>

ReadVerified(p) ==
    /\ pc[p] = "verified"
    /\ build' = [build EXCEPT ![p].ver = Stored]
    /\ Goto(p, "publish")
    /\ UNCHANGED <<stage, sharedVars, tries, gen, disturbed>>

\* A query raises, or its result is not there in time.
QueryFails(p) ==
    /\ pc[p] \in {"decisions", "verified"}
    /\ failure' = TRUE
    /\ Goto(p, "failing")
    /\ UNCHANGED <<stage, snapshotVars, refreshing, generation, callVars>>

Current_Unchecked(p) == TRUE
Current(p) == gen[p] = generation

Publish_StampOnly(p) ==
    /\ pc[p] = "publish"
    /\ age' = (IF Current(p) THEN 0 ELSE age)
    /\ snap' = (IF Current(p) /\ snap = None THEN build[p] ELSE snap)
    /\ Goto(p, "finish")
    /\ UNCHANGED <<stage, refreshing, failure, generation, callVars>>

Publish(p) ==
    /\ pc[p] = "publish"
    /\ IF Current(p) THEN snap' = build[p] /\ age' = 0 ELSE UNCHANGED snapshotVars
    /\ Goto(p, "finish")
    /\ UNCHANGED <<stage, refreshing, failure, generation, callVars>>

\* The finally block.
EndBuild(p) ==
    /\ refreshing' = FALSE
    /\ build' = [build EXCEPT ![p] = NoBuild] /\ gen' = [gen EXCEPT ![p] = 0]
    /\ UNCHANGED <<stage, snapshotVars, failure, generation, disturbed>>

FinishRefresh(p) == pc[p] = "finish" /\ EndBuild(p) /\ AfterRefresh(p)
RaiseFailure(p) == pc[p] = "failing" /\ EndBuild(p) /\ Goto(p, "idle") /\ UNCHANGED tries

Get(r) ==
    /\ pc[r] = "get"
    /\ Goto(r, "idle")
    /\ UNCHANGED <<stage, sharedVars, callVars>>

-----------------------------------------------------------------------------
(* Writers *)

Commit(w) ==
    /\ stage[w] = "none" /\ pc[Main] = "up"
    /\ stage' = [stage EXCEPT ![w] = "committed"]
    /\ UNCHANGED <<sharedVars, pc, clock, callVars>>

Invalidate ==
    /\ generation' = generation + 1
    /\ snap' = None /\ age' = None
    /\ disturbed' = [p \in Procs |-> TRUE]
    /\ UNCHANGED <<refreshing, failure>>

InvalidateAfter(w) ==
    /\ stage[w] = "committed"
    /\ Invalidate
    /\ stage' = [stage EXCEPT ![w] = "done"]
    /\ UNCHANGED <<pc, clock, tries, gen, build>>

\* The audit entry of what was just committed cannot be sealed: the request
\* answers 503 without reaching its invalidation.
SealingFails(w) ==
    /\ stage[w] = "committed"
    /\ stage' = [stage EXCEPT ![w] = "failed"]
    /\ UNCHANGED <<sharedVars, pc, clock, callVars>>

-----------------------------------------------------------------------------
(* Shutdown and time *)

\* stop_s2p_materializer runs when the requests are over.
Shutdown ==
    /\ pc[Main] = "up"
    /\ \A r \in Readers : pc[r] = "idle"
    /\ \A w \in Writes : stage[w] # "committed"
    /\ Invalidate
    /\ Goto(Main, "joining")
    /\ UNCHANGED <<stage, tries, gen, build>>

Joined ==
    /\ pc[Main] = "joining"
    /\ ~refreshing \/ clock[Main] = WaitLimit
    /\ Goto(Main, "closed")
    /\ UNCHANGED <<stage, sharedVars, callVars>>

Limit(p) ==
    CASE pc[p] \in {"decisions", "verified"} -> QueryLimit
      [] pc[p] \in {"waiting", "joining"} -> WaitLimit
      [] OTHER -> 0

Clocked(p) == Limit(p) > 0 \/ (p = Loop /\ pc[p] = "idle" /\ clock[p] < Sleep)

\* No time passes beyond a timeout that is due, nor between the end of a build
\* and its finally block.
Tick ==
    /\ \A p \in Procs : Limit(p) > 0 => clock[p] < Limit(p)
    /\ \A p \in Builders : pc[p] \notin {"finish", "failing"}
    /\ clock' = [p \in Procs |-> IF Clocked(p) THEN clock[p] + 1 ELSE clock[p]]
    /\ age' = (IF Fresh THEN age + 1 ELSE age)
    /\ disturbed' = [p \in Procs |-> disturbed[p] \/ (Fresh /\ age + 1 = Ttl)]
    /\ UNCHANGED <<stage, snap, refreshing, failure, generation, pc, tries, gen, build>>

-----------------------------------------------------------------------------
ReadStep(r) == Look(r) \/ SkipRefresh(r) \/ Get(r)

RefreshStep(p) ==
    \/ JoinRefresh(p) \/ StartRefresh(p)
    \/ WakeRaises(p) \/ WakeReturns(p) \/ WaitTimesOut(p)
    \/ ReadDecisions(p) \/ ReadVerified(p) \/ QueryFails(p)
    \/ Publish(p) \/ FinishRefresh(p) \/ RaiseFailure(p)

Next ==
    \/ \E r \in Readers : Ask(r) \/ ReadStep(r)
    \/ \E p \in Builders : RefreshStep(p)
    \/ \E w \in Writes : Commit(w) \/ InvalidateAfter(w) \/ SealingFails(w)
    \/ LoopAsk \/ Shutdown \/ Joined \/ Tick

Spec == Init /\ [][Next]_vars

\* Threads keep running, and time passes however busy they are; nothing
\* obliges anybody to ask, to write or to shut down.
FairSpec ==
    /\ Spec
    /\ \A r \in Readers : WF_vars(ReadStep(r) \/ RefreshStep(r))
    /\ WF_vars(RefreshStep(Loop))
    /\ WF_vars(Joined) /\ SF_vars(Tick)

-----------------------------------------------------------------------------
(* Properties *)

Building == {"decisions", "verified", "publish", "finish", "failing"}
Locations == {"up", "joining", "closed", "idle", "look", "refresh", "waiting", "get"} \cup Building
Views == [dec : SUBSET Writes, ver : SUBSET Writes]

TypeOK ==
    /\ stage \in [Writes -> {"none", "committed", "done", "failed"}]
    /\ snap \in Views \cup {None}
    /\ age \in (0..Ttl) \cup {None}
    /\ refreshing \in BOOLEAN /\ failure \in BOOLEAN /\ generation \in Nat
    /\ pc \in [Procs -> Locations]
    /\ clock \in [Procs -> Nat] /\ tries \in [Procs -> 0..MaxTries]
    /\ gen \in [Procs -> Nat] /\ build \in [Procs -> Views]
    /\ disturbed \in [Procs -> BOOLEAN]

\* Concurrent misses share one refresh: two builds never overlap, and
\* _refreshing says exactly whether one is in flight.
OneBuild ==
    /\ \A p, q \in Builders : pc[p] \in Building /\ pc[q] \in Building => p = q
    /\ refreshing <=> \E p \in Builders : pc[p] \in Building

\* "Invalidation cannot publish an in-flight old build": what is served shows,
\* in both of the queries it was computed from, every write whose
\* invalidation has run.
NothingInvalidatedIsServed ==
    Served # None => Invalidated \subseteq Served.dec /\ Invalidated \subseteq Served.ver

\* A call that comes back without an answer has had an invalidation, an
\* expiry or a wait that timed out under it.
UndisturbedCallsAreAnswered ==
    \A r \in Readers : pc[r] = "get" /\ Served = None => disturbed[r]

\* "A hanging query must not hold self._refreshing=True forever or every caller
\* blocks": no request waits forever, however many builds start and fail around it.
EveryCallReturns == \A r \in Readers : pc[r] # "idle" ~> pc[r] = "idle"

\* Also a write that failed before its invalidation ends up in what is served,
\* or nothing fresh is: an old snapshot lives no longer than its Ttl.
WritesBecomeVisible ==
    \A w \in Writes : stage[w] # "none" ~> (Fresh => w \in snap.dec /\ w \in snap.ver)
===============================================================================
