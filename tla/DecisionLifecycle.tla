--------------------------- MODULE DecisionLifecycle ---------------------------
(***************************************************************************)
(* The life of a decision through routers/s2p.py: score, its link and its  *)
(* shadow job; learn or outcome with the evidence receipt, the scorer's    *)
(* commit, the extinction evidence, the three L5 writes, the outcome       *)
(* receipt, the supplier profile and the shadow outcome.  Everything from  *)
(* the decision read to the response snapshot happens under the domain     *)
(* lock; what follows it, and the link and the jobs of a score, do not.    *)
(*                                                                         *)
(* The audit chain, the proposals and the caches those handlers also touch *)
(* are AuditChain, Proposals and ConservationGate; here they only succeed  *)
(* or fail.  A receipt's hash is its serial number, 0 the empty hash.      *)
(***************************************************************************)
EXTENDS Naturals, Sequences, FiniteSets

CONSTANTS
    Threads, Decisions, Categories,
    CatOf,          \* the category a decision is scored in
    ShadowModes,    \* subset of {"off", "shared", "separate"}
    Faults,         \* what may fail, a subset of the kinds below
    MaxCalls,       \* bound: requests accepted, in each shadow mode
    MaxCrashes,     \* bound: restarts of the process
    MaxReceipts,    \* ReceiptStore.max_receipts
    Nobody

ASSUME LifecycleAssumption ==
    /\ IsFiniteSet(Decisions)
    /\ CatOf \in [Decisions -> Categories]
    /\ ShadowModes \subseteq {"off", "shared", "separate"}
    /\ Faults \subseteq {"seal", "evidence", "learn", "extinction", "proposal", "link",
                     "snapshot", "shadow", "crash"}
    /\ MaxReceipts \in Nat \ {0} /\ MaxCalls \in [ShadowModes -> Nat] /\ MaxCrashes \in Nat
    /\ Nobody \notin Threads \cup Decisions

VARIABLES
    mode,       \* no shadow, a shadow in the active store, or one of its own
    dec,        \* status of every decision in the active store
    shadowRow,  \* status of the row d::shadow
    links,      \* decisions with a DECIDED_ON link
    evidence,   \* decisions with an evidence receipt appended or queued
    extinct,    \* decisions with a class-extinction event
    l5,         \* the persisted learning state, as the decisions in it
    learned,    \* decisions in the scorer's centroids
    tracker,    \* decisions in the DK tracker
    receipts, byDecision, serial,  \* the ReceiptStore
    counts,     \* the verified counts that a reader may find kept
    profiled,   \* decisions in the supplier profiles
    jobs,       \* score shadows submitted to the executor
    wrapper,    \* the learn request whose advisory link replaces the store's
    lock,       \* the domain mutation lock
    pc, sub,    \* program counter and decision of each request
    seen,       \* what a learn request remembers of its reads
    captured,   \* a score captured an advisory link
    reported,   \* (history) scores that answered link_persisted
    promised,   \* (history) learns that answered complete
    stranded,   \* (history) learns that ended between commit and answer
    doubt,      \* (history) the kept count may be older than the last outcome
    unsure,     \* (history) decisions whose receipt an uncertain count decided
    calls, crashes

storeVars   == <<dec, shadowRow, links, evidence, extinct, l5>>
memoryVars  == <<learned, tracker, profiled>>
receiptVars == <<receipts, byDecision, serial>>
requestVars == <<pc, sub, seen, captured>>
historyVars == <<reported, promised, stranded, doubt, unsure>>
vars == <<mode, storeVars, memoryVars, receiptVars, counts, jobs, wrapper, lock,
          requestVars, historyVars, calls, crashes>>

Parts == {"centroid", "conservation", "dk"}
Locations == {"idle", "enrich", "link", "evidence", "begin", "learn", "seal",
              "extinction", "centroid", "conservation", "dk", "answer",
              "receipt", "add", "profile", "shadow", "peek", "force"}
Unseen == [active |-> {}, before |-> 0, certain |-> TRUE, applied |-> FALSE, red |-> FALSE,
           kept |-> {}, last |-> 0]

Init ==
    /\ mode \in ShadowModes
    /\ dec \in [Decisions -> {"absent", "pending"}]
    /\ shadowRow = [d \in Decisions |-> "absent"]
    /\ links = {} /\ evidence = {} /\ extinct = {}
    /\ l5 = [p \in Parts |-> {}]
    /\ learned = {} /\ tracker = {} /\ profiled = {}
    /\ receipts = <<>> /\ byDecision = [d \in Decisions |-> {}] /\ serial = 0
    /\ counts = {0}
    /\ jobs = {} /\ wrapper = Nobody /\ lock = Nobody
    /\ pc = [t \in Threads |-> "idle"] /\ sub = [t \in Threads |-> Nobody]
    /\ seen = [t \in Threads |-> Unseen] /\ captured = [t \in Threads |-> FALSE]
    /\ reported = {} /\ promised = {} /\ stranded = {} /\ doubt = FALSE /\ unsure = {}
    /\ calls = 0 /\ crashes = 0

-----------------------------------------------------------------------------
(* Reads of the stores *)

Pending == {d \in Decisions : dec[d] = "pending"}
Resolved == {d \in Decisions : dec[d] = "resolved"}

\* Rows of the shadow that readers of the active store see.
VisibleShadow(s) == {d \in Decisions : mode = "shared" /\ shadowRow[d] = s}

\* An operator whose name has an underscore is a plausible bug of the definition
\* that follows; no action uses it.
Active_AnyStatus(c) == {<<d, "own">> : d \in {e \in Decisions : CatOf[e] = c /\ dec[e] # "absent"}}
\* active_decision_ids of a category.
Active(c) ==
    {<<d, "own">> : d \in {e \in Pending : CatOf[e] = c}}
    \cup {<<d, "shadow">> : d \in {e \in VisibleShadow("pending") : CatOf[e] = c}}

\* The verified count of the store.
VerifiedCount == Cardinality(Resolved) + Cardinality(VisibleShadow("resolved"))

\* _receipt_conservation_snapshot reads the count as it was kept, at any moment
\* since the counts were last dropped; when a read of it fails it is 0.
Snapshot(count, available) ==
    \/ available /\ count \in counts
    \/ ~available /\ "snapshot" \in Faults /\ count = 0
\* After an outcome the new count may be kept as well as an older one.
Counted == counts' = counts \cup {VerifiedCount'}

DropCounts_Never == UNCHANGED <<counts, doubt>>
\* _clear_score_conservation_status_cache drops what was kept, but a reader that
\* compared the generations before may still keep an older count.
DropCounts ==
    \/ counts' = {VerifiedCount} /\ doubt' = FALSE
    \/ counts # {VerifiedCount} /\ UNCHANGED counts /\ doubt' = TRUE

LastHash == IF receipts = <<>> THEN 0 ELSE receipts[Len(receipts)].id

Goto(t, l) == pc' = [pc EXCEPT ![t] = l]
Remember(t, s) == seen' = [seen EXCEPT ![t] = s]

\* A request ends, by its answer or by an exception; the with statement and the
\* finally blocks give back the lock and the store's own link method.
Return(t) ==
    /\ pc' = [pc EXCEPT ![t] = "idle"]
    /\ sub' = [sub EXCEPT ![t] = Nobody]
    /\ seen' = [seen EXCEPT ![t] = Unseen]
    /\ captured' = [captured EXCEPT ![t] = FALSE]
    /\ lock' = IF lock = t THEN Nobody ELSE lock
    /\ wrapper' = IF wrapper = t THEN Nobody ELSE wrapper

\* It ends without an answer although its outcome is committed, and drops no count.
Strand(t) ==
    /\ Return(t)
    /\ stranded' = stranded \cup {sub[t]}
    /\ doubt' = TRUE

LockFree == lock = Nobody

-----------------------------------------------------------------------------
(* POST /score *)

\* Under both locks: scorer.score stores the decision, the audit row seals it.
\* A failing seal answers 503 and leaves the decision.
ScoreCommit(t, d) ==
    /\ pc[t] = "idle" /\ dec[d] = "absent" /\ LockFree /\ calls < MaxCalls[mode]
    /\ \A u \in Threads : sub[u] # d
    /\ calls' = calls + 1
    /\ dec' = [dec EXCEPT ![d] = "pending"]
    /\ \/ Goto(t, "enrich") /\ sub' = [sub EXCEPT ![t] = d]
       \/ "seal" \in Faults /\ UNCHANGED <<pc, sub>>
    /\ UNCHANGED <<mode, shadowRow, links, evidence, extinct, l5, memoryVars,
                   receiptVars, counts, jobs, wrapper, lock, seen, captured, historyVars, crashes>>

\* Enrichments and the proposal (each may fail and only degrades the answer),
\* then the link method is looked up, before the existing links are read.
ScoreEnrich(t) ==
    /\ pc[t] = "enrich"
    /\ captured' = [captured EXCEPT ![t] = wrapper # Nobody]
    /\ Goto(t, "link")
    /\ UNCHANGED <<mode, storeVars, memoryVars, receiptVars, counts, jobs, wrapper, lock,
                   sub, seen, historyVars, calls, crashes>>

\* _link_decision_to_invoice reports TRUE when the method it looked up returns;
\* the advisory link of a learn request swallows the store's failure.
LinkDecision(d, advisory) ==
    \/ links' = links \cup {d} /\ reported' = reported \cup {d}
    \/ /\ "link" \in Faults /\ UNCHANGED links
       /\ reported' = IF advisory THEN reported \cup {d} ELSE reported

\* Then the shadow is submitted and the score is answered.
ScoreLink(t) ==
    /\ pc[t] = "link"
    /\ LinkDecision(sub[t], captured[t])
    /\ jobs' = IF mode = "off" THEN jobs ELSE jobs \cup {sub[t]}
    /\ Return(t)
    /\ UNCHANGED <<mode, dec, shadowRow, evidence, extinct, l5, memoryVars,
                   receiptVars, counts, promised, stranded, doubt, unsure, calls, crashes>>

\* _record_score_shadow on the executor: four workers, so in any order.
RunScoreShadow(d) ==
    /\ d \in jobs
    /\ jobs' = jobs \ {d}
    /\ \/ shadowRow' = [shadowRow EXCEPT ![d] = IF @ = "absent" THEN "pending" ELSE @]
       \/ "shadow" \in Faults /\ UNCHANGED shadowRow
    /\ UNCHANGED <<mode, dec, links, evidence, extinct, l5, memoryVars,
                   receiptVars, counts, wrapper, lock, requestVars, historyVars, calls, crashes>>

-----------------------------------------------------------------------------
(* POST /learn and POST /outcome, under the domain lock *)

\* Under the lock the decision is read: it must exist, resolved or not. The count
\* of outcomes before this one is taken from a snapshot.
LearnEnter(t, d) ==
    /\ pc[t] = "idle" /\ dec[d] # "absent" /\ LockFree /\ calls < MaxCalls[mode]
    /\ calls' = calls + 1
    /\ lock' = t
    /\ sub' = [sub EXCEPT ![t] = d]
    /\ \E count \in counts \cup {0}, available \in BOOLEAN :
          /\ Snapshot(count, available)
          /\ Remember(t, [Unseen EXCEPT !.before = count, !.certain = available /\ ~doubt])
    /\ Goto(t, "evidence")
    /\ UNCHANGED <<mode, storeVars, memoryVars, receiptVars, counts, jobs, wrapper, captured,
                   historyVars, crashes>>

\* _ensure_outcome_decision: a resolved decision is refused (409), a pending one
\* is written again as it is.
EnsureOutcomeDecision(d) == dec[d] = "pending"
OutcomeEnter(t, d) == EnsureOutcomeDecision(d) /\ LearnEnter(t, d)

\* The evidence receipt is appended, else queued, else the request ends (503).
AppendEvidence_Skipped(t) == pc[t] = "evidence" /\ Goto(t, "begin")
    /\ UNCHANGED <<mode, storeVars, memoryVars, receiptVars, counts, jobs, wrapper, lock,
                   sub, seen, captured, historyVars, calls, crashes>>
AppendEvidence(t) ==
    /\ pc[t] = "evidence"
    /\ \/ /\ evidence' = evidence \cup {sub[t]} /\ Goto(t, "begin")
          /\ UNCHANGED <<sub, seen, captured, lock, wrapper>>
       \/ "evidence" \in Faults /\ Return(t) /\ UNCHANGED evidence
    /\ UNCHANGED <<mode, dec, shadowRow, links, extinct, l5, memoryVars, receiptVars, counts,
                   jobs, historyVars, calls, crashes>>

\* The active decisions are read, the marker written, the link method replaced.
LearnBegin(t) ==
    /\ pc[t] = "begin"
    /\ Remember(t, [seen[t] EXCEPT !.active = Active(CatOf[sub[t]])])
    /\ wrapper' = t
    /\ Goto(t, "learn")
    /\ UNCHANGED <<mode, storeVars, memoryVars, receiptVars, counts, jobs, lock, sub, captured,
                   historyVars, calls, crashes>>

Commit(t) == dec' = [dec EXCEPT ![sub[t]] = "resolved"]

\* scorer.learn commits the outcome and moves the centroids, declines (with the
\* reason conservation_red or another), or raises, before its commit or after.
LearnRun(t) ==
    /\ pc[t] = "learn"
    /\ \/ /\ Commit(t) /\ learned' = learned \cup {sub[t]}
          /\ Remember(t, [seen[t] EXCEPT !.applied = TRUE, !.before = 0, !.certain = TRUE])
          /\ Goto(t, "seal")
          /\ links' = links \cup {sub[t]}
          /\ wrapper' = Nobody
          /\ UNCHANGED <<sub, captured, lock, stranded, doubt>>
       \/ /\ \E red \in BOOLEAN : Remember(t, [seen[t] EXCEPT !.red = red])
          /\ Goto(t, "centroid")
          /\ wrapper' = Nobody
          /\ UNCHANGED <<dec, learned, links, sub, captured, lock, stranded, doubt>>
       \/ "learn" \in Faults /\ Commit(t) /\ Strand(t) /\ UNCHANGED <<learned, links>>
       \/ "learn" \in Faults /\ Return(t) /\ UNCHANGED <<dec, learned, links, stranded, doubt>>
    /\ UNCHANGED <<mode, shadowRow, evidence, extinct, l5, tracker, profiled,
                   receiptVars, jobs, reported, promised, unsure, calls, crashes>>
    /\ Counted

SealOutcome_AnyActive(t) ==
    /\ pc[t] = "seal"
    /\ Goto(t, IF seen[t].active # {} /\ sub[t] \notin extinct THEN "extinction" ELSE "centroid")
    /\ UNCHANGED <<mode, storeVars, memoryVars, receiptVars, counts, jobs, wrapper, lock, sub, seen,
                   captured, historyVars, calls, crashes>>
\* record_outcome of the audit writer, then the second read of record_extinction.
SealOutcome(t) ==
    LET c == CatOf[sub[t]]
        emptied == seen[t].active = {<<sub[t], "own">>} /\ Active(c) = {}
    IN /\ pc[t] = "seal"
       /\ \/ /\ Goto(t, IF emptied /\ sub[t] \notin extinct THEN "extinction" ELSE "centroid")
             /\ UNCHANGED <<sub, seen, captured, lock, wrapper, stranded, doubt>>
          \/ "seal" \in Faults /\ Strand(t)
       /\ UNCHANGED <<mode, storeVars, memoryVars, receiptVars, counts, jobs, reported,
                      promised, unsure, calls, crashes>>

SaveExtinction(t) ==
    /\ pc[t] = "extinction"
    /\ \/ /\ extinct' = extinct \cup {sub[t]} /\ Goto(t, "centroid")
          /\ UNCHANGED <<sub, seen, captured, lock, wrapper, stranded, doubt>>
       \/ "extinction" \in Faults /\ Strand(t) /\ UNCHANGED extinct
    /\ UNCHANGED <<mode, dec, shadowRow, links, evidence, l5, memoryVars,
                   receiptVars, counts, jobs, reported, promised, unsure, calls, crashes>>

\* One L5 write: `content` is stored and kept, or it is skipped and the request
\* goes on with the part reported missing.
Persist(t, part, content, next) ==
    /\ pc[t] = part
    /\ \/ /\ l5' = [l5 EXCEPT ![part] = content]
          /\ Remember(t, [seen[t] EXCEPT !.kept = @ \cup {part}])
       \/ UNCHANGED <<l5, seen>>
    /\ Goto(t, next)
    /\ UNCHANGED <<mode, dec, shadowRow, links, evidence, extinct, learned, profiled,
                   receiptVars, jobs, wrapper, lock, sub, captured, reported, promised,
                   stranded, unsure, calls, crashes>>

\* The audit marker is removed and the decision's proposal resolved, which may
\* raise; then the counts are dropped and the centroid is written, but for a
\* category that learns variances or a write that fails.
FinishOutcome(t) ==
    /\ pc[t] = "centroid" /\ seen[t].applied /\ "proposal" \in Faults
    /\ Strand(t)
    /\ UNCHANGED <<mode, storeVars, memoryVars, receiptVars, counts, jobs, reported,
                   promised, unsure, calls, crashes>>
PersistCentroid(t) == Persist(t, "centroid", learned, "conservation") /\ DropCounts /\ UNCHANGED tracker
PersistConservation(t) == Persist(t, "conservation", Resolved, "dk") /\ UNCHANGED <<tracker, counts, doubt>>

\* The tracker counts the outcome before the write that may fail; a learn that
\* was not applied needs no write and reports the part kept.
PersistDK(t) ==
    \/ /\ seen[t].applied
       /\ tracker' = tracker \cup {sub[t]}
       /\ Persist(t, "dk", tracker', "answer")
       /\ UNCHANGED <<counts, doubt>>
    \/ /\ pc[t] = "dk" /\ ~seen[t].applied
       /\ Remember(t, [seen[t] EXCEPT !.kept = @ \cup {"dk"}])
       /\ Goto(t, "answer")
       /\ UNCHANGED <<mode, storeVars, memoryVars, receiptVars, counts, jobs, wrapper, lock,
                      sub, captured, historyVars, calls, crashes>>

\* _outcome_recorded_for_receipt
RecordedForReceipt_Always(t, after) == TRUE
RecordedForReceipt(t, after) ==
    seen[t].applied \/ (~seen[t].red /\ after > seen[t].before)

\* The count after is taken, "complete" or "partial" decided, the lock released.
Answer(t) ==
    /\ pc[t] = "answer"
    /\ lock' = Nobody
    /\ promised' = IF seen[t].applied /\ seen[t].kept = Parts
                     THEN promised \cup {sub[t]} ELSE promised
    /\ \E count \in counts \cup {0}, available \in BOOLEAN :
          /\ Snapshot(count, available)
          /\ Goto(t, IF RecordedForReceipt(t, count) THEN "receipt" ELSE "profile")
          /\ unsure' = IF RecordedForReceipt(t, count) /\ ~seen[t].applied /\ ~seen[t].certain
                         THEN unsure \cup {sub[t]} ELSE unsure
    /\ UNCHANGED <<mode, storeVars, memoryVars, receiptVars, counts, jobs, wrapper, sub, seen,
                   captured, reported, stranded, doubt, calls, crashes>>

-----------------------------------------------------------------------------
(* After the lock *)

ReadLastHash(t) ==
    /\ pc[t] = "receipt"
    /\ Remember(t, [seen[t] EXCEPT !.last = LastHash])
    /\ Goto(t, "add")
    /\ UNCHANGED <<mode, storeVars, memoryVars, receiptVars, counts, jobs, wrapper, lock, sub,
                   captured, historyVars, calls, crashes>>

Add_KeepsIndex(d, last) ==
    /\ serial' = serial + 1
    /\ receipts' = Append(IF Len(receipts) = MaxReceipts THEN Tail(receipts) ELSE receipts,
                          [id |-> serial + 1, d |-> d, prev |-> IF last = 0 THEN LastHash ELSE last])
    /\ byDecision' = [byDecision EXCEPT ![d] = @ \cup {serial + 1}]
\* ReceiptStore.add: the oldest receipt of a full store leaves both structures.
Add(d, last) ==
    LET new == [id |-> serial + 1, d |-> d, prev |-> IF last = 0 THEN LastHash ELSE last]
        full == Len(receipts) = MaxReceipts
        kept == IF full THEN [byDecision EXCEPT ![receipts[1].d] = @ \ {receipts[1].id}]
                        ELSE byDecision
    IN /\ serial' = serial + 1
       /\ receipts' = Append(IF full THEN Tail(receipts) ELSE receipts, new)
       /\ byDecision' = [kept EXCEPT ![d] = @ \cup {new.id}]

AddReceipt(t) ==
    /\ pc[t] = "add"
    /\ Add(sub[t], seen[t].last)
    /\ Goto(t, "profile")
    /\ UNCHANGED <<mode, storeVars, memoryVars, counts, jobs, wrapper, lock, sub, seen, captured,
                   historyVars, calls, crashes>>

\* The profile is updated whether or not the learn was applied.
RecordProfile(t) ==
    /\ pc[t] = "profile"
    /\ profiled' = profiled \cup {sub[t]}
    /\ IF mode = "off" THEN Return(t)
       ELSE Goto(t, "shadow") /\ UNCHANGED <<sub, seen, captured, lock, wrapper>>
    /\ UNCHANGED <<mode, storeVars, learned, tracker, receiptVars, counts, jobs, historyVars,
                   calls, crashes>>

\* The outcome of d::shadow; a row the executor has not written yet is an error.
ShadowOutcome(t) ==
    /\ pc[t] = "shadow"
    /\ \/ /\ shadowRow[sub[t]] # "absent"
          /\ shadowRow' = [shadowRow EXCEPT ![sub[t]] = "resolved"]
          /\ Goto(t, "peek") /\ UNCHANGED <<sub, seen, captured, lock, wrapper>>
       \/ /\ shadowRow[sub[t]] = "absent" \/ "shadow" \in Faults
          /\ Return(t) /\ UNCHANGED shadowRow
    /\ UNCHANGED <<mode, dec, links, evidence, extinct, l5, memoryVars, receiptVars,
                   jobs, historyVars, calls, crashes>>
    /\ Counted

\* A decision still pending in the shadow's store gets its outcome there too.
ShadowPeek(t) ==
    /\ pc[t] = "peek"
    /\ IF mode = "shared" /\ dec[sub[t]] = "pending"
         THEN Goto(t, "force") /\ UNCHANGED <<sub, seen, captured, lock, wrapper>>
         ELSE Return(t)
    /\ UNCHANGED <<mode, storeVars, memoryVars, receiptVars, counts, jobs, historyVars, calls, crashes>>

ShadowForce(t) ==
    /\ pc[t] = "force"
    /\ dec' = [dec EXCEPT ![sub[t]] = "resolved"]
    /\ Return(t)
    /\ UNCHANGED <<mode, shadowRow, links, evidence, extinct, l5, memoryVars,
                   receiptVars, jobs, reported, promised, stranded, doubt, unsure, calls, crashes>>
    /\ Counted

-----------------------------------------------------------------------------
Restore_NoTracker == learned' = l5["centroid"] /\ tracker' = {}
Restore == learned' = l5["centroid"] /\ tracker' = l5["dk"]
\* The process dies and starts again: the store is kept, memory is restored
\* from the L5 state, submitted shadow jobs and receipts are gone.
Crash ==
    /\ "crash" \in Faults /\ crashes < MaxCrashes
    /\ crashes' = crashes + 1
    /\ Restore
    /\ profiled' = {} /\ jobs' = {}
    /\ receipts' = <<>> /\ byDecision' = [d \in Decisions |-> {}] /\ serial' = 0
    /\ counts' = {VerifiedCount} /\ doubt' = FALSE
    /\ stranded' = stranded \cup {sub[t] : t \in {u \in Threads :
           pc[u] \in {"seal", "extinction", "centroid", "conservation", "dk", "answer"}
           /\ seen[u].applied}}
    /\ lock' = Nobody /\ wrapper' = Nobody
    /\ pc' = [t \in Threads |-> "idle"] /\ sub' = [t \in Threads |-> Nobody]
    /\ seen' = [t \in Threads |-> Unseen] /\ captured' = [t \in Threads |-> FALSE]
    /\ UNCHANGED <<mode, storeVars, reported, promised, unsure, calls>>

Score(t) == (\E d \in Decisions : ScoreCommit(t, d)) \/ ScoreEnrich(t) \/ ScoreLink(t)
Locked(t) ==
    \/ AppendEvidence(t) \/ LearnBegin(t) \/ LearnRun(t) \/ SealOutcome(t)
    \/ SaveExtinction(t) \/ FinishOutcome(t) \/ PersistCentroid(t)
    \/ PersistConservation(t) \/ PersistDK(t) \/ Answer(t)
Unlocked(t) ==
    \/ ReadLastHash(t) \/ AddReceipt(t) \/ RecordProfile(t)
    \/ ShadowOutcome(t) \/ ShadowPeek(t) \/ ShadowForce(t)
Proceed(t) == ScoreEnrich(t) \/ ScoreLink(t) \/ Locked(t) \/ Unlocked(t)

Next ==
    \/ \E t \in Threads : \/ \E d \in Decisions : ScoreCommit(t, d) \/ LearnEnter(t, d) \/ OutcomeEnter(t, d)
                          \/ Proceed(t)
    \/ \E d \in Decisions : RunScoreShadow(d)
    \/ Crash

Spec == Init /\ [][Next]_vars

-----------------------------------------------------------------------------
(* Properties *)

\* No outcome is in the store, whoever wrote it and whatever failed or crashed,
\* without an evidence receipt appended or queued for it before.
EvidenceFirst == \A d \in Resolved : d \in evidence

\* Extinction events are neither false nor missing: one is saved only while no
\* decision of its category is pending, although the check and the save are separate
\* store calls, and a category whose decisions are all resolved has its event, unless
\* a learn was cut off after its commit (no shadow rows in the store).
Recorded(d) == (mode # "shared" /\ lock = Nobody) =>
    \/ \E e \in Pending : CatOf[e] = CatOf[d]
    \/ \E e \in extinct \cup stranded : CatOf[e] = CatOf[d]
ExtinctionIsExact ==
    /\ [](\A d \in Resolved : Recorded(d))
    /\ [][\A d \in extinct' \ extinct : \A e \in Decisions : CatOf[e] = CatOf[d] => dec[e] # "pending"]_vars

\* What a learn answered as "complete" is in all three persisted parts for good:
\* no later write, from memory or after a restart, drops it.
CompleteIsDurable == \A p \in Parts : promised \subseteq l5[p]

\* A receipt is of a decision whose outcome is in the store, also when the scorer
\* did not say so and two counts of outcomes decide, which others may have read and
\* kept long before: unless the read before the outcome failed, or what was kept
\* came through a learn cut off after its commit or back after a drop (no shadow
\* outcomes counted). The index by decision holds exactly the receipts still in the
\* bounded store.
ReceiptsAreEarned ==
    /\ mode # "shared" =>
          \A i \in DOMAIN receipts : dec[receipts[i].d] = "resolved" \/ receipts[i].d \in unsure
    /\ \A d \in Decisions :
          byDecision[d] = {receipts[i].id : i \in {j \in DOMAIN receipts : receipts[j].d = d}}

\* A score that answered link_persisted has its link in the graph.
ReportedLinksExist == reported \subseteq links
================================================================================
