# A formal model of the S2P copilot backend

TLA+ modules, TLC configurations and TLAPS proofs for the source-to-pay (S2P)
copilot in this repository.  Paths below are relative to `src/`; `s2p.py` is
`backend/app/routers/s2p.py`.

The backend is a FastAPI application whose handlers are synchronous functions:
the server runs each in a thread of a pool, so requests interleave freely, and
several worker processes may share one graph database.  State lives in three
places: the graph store (AGE, reached through the SDK's `GraphStore`, without
transactions), in-process objects shared by the threads, and module-level
caches.  That is where the difficulty is, and what is modelled: who may
interleave with whom, what is written in which order, and what is left when a
step fails.  The SDK (`copilot_sdk`, `ci_platform`) is not in this repository;
its calls are modelled from their use in `backend/app` and marked external.

## 1. Inventory

### The decision pipeline

| Component | State | Operations | What makes it correct |
|---|---|---|---|
| Decision audit chain (`framework/audit.py`, `S2PScoreAuditWriter`) | audit rows, head record and pending markers in the graph; a ledger lock per process | seal a decision, seal an outcome, `verify_chain`, archive, reset | a "verified" report certifies nothing that is unsealed; a broken chain is not built upon; no false tamper report |
| Invoice lock manager (`InvoiceLockManager`) | table of lock entries with waiter and holder counts | acquire with timeout, release, evict, clean up | one owner per invoice; no entry lost while used, none left behind; no deadlock with the domain lock |
| Conservation caches and write gate (`s2p.py` 1051-1278) | counts cache, status cache, in-flight marks, a generation | fill on a miss, clear after learn, read for the gate | a cache does not go back behind a clear; a write is not admitted against the status |
| Response materializer (`services/response_materializer.py`) | snapshot, its age, refreshing flag, failure, generation | refresh, get, get_or_refresh, invalidate, wait_idle, background loop | one build at a time; nothing invalidated is served; no caller blocks for ever |
| Score, learn and outcome handlers | none of their own; they order the calls of all the others | `/score`, `/learn`, `/outcome` | a failure after the commit leaves a repairable state; one outcome per decision |
| Proposals (`services/proposal_service.py`) | proposals and outcome payloads, a decision index, in the graph or in SQLite | create after score, confirm, override, resolve after learn | one resolution; the payload matches it; a learned decision leaves no open proposal |
| Outcome receipts (`services/receipt_store.py`) | bounded deque of hash-linked receipts, in memory | add, verify, clear | the chain verifies |
| Evidence receipts (`s2p.py` 1716-1790), learning-state rows (787-941), extinction evidence | rows in the graph | appended before or after the outcome | each applied outcome has its rows |
| Shadow mode (`s2p_shadow.py`) | a second store written on an executor and inline | score shadow, outcome shadow | never changes what the authoritative path answers, except in strict mode |

How they interact: `/score` checks the gate, takes the invoice lock, then the
domain mutation lock, calls `scorer.score` (which stores the decision), seals
it, invalidates the materializer, frees both locks, and only then creates the
proposal and submits side effects.  `/learn` and `/outcome` check the gate,
take the domain lock alone, take the receipt's first snapshot, write a pending
marker, call `scorer.learn` (which stores the outcome), seal it, record
extinction evidence, delete the marker, resolve the proposal, clear the caches,
take the second snapshot, free the lock, and then append the receipt and
invalidate the materializer.  `verify_chain` runs under the ledger lock only.

### Autonomy and control

| Component | State | What makes it correct |
|---|---|---|
| Auto-approve gate (`services/s2p_auto_approve_gate.py`) | thresholds and states per category, event lists | thresholds stay in range; a row moves a threshold once; no lock |
| Interventions, composite gate (`framework/`; the routes to them answer 501) | freeze flags, conservation state, category controls | an operator's freeze is lifted by an operator only |
| Promotion (`services/s2p_autonomy.py`), novelty, variant evolution | SDK engines, a window of distances | demotion under a bad state; bounded window |
| Budget persistence (`services/budget_persistence.py`) | counters in memory, two alternating snapshot slots in the graph | a restart loads the last completed or the interrupted allocation, never less |
| Learning state, checkpoints (`framework/`) | centroids, checkpoints | a rollback restores what was saved |

### Around it

The entity migration and seeding scripts, graph status probes, the tab-state
cache and preview, read-only routers, enrichment and context building,
connectors, oracles and data generators, and the numeric code of `domains/s2p`.
`PROJECT.json` lists every one with its status and, for those not modelled, the
reason.

### What is hard

Interleavings without a common lock (caches, receipts, proposals, category
states, coroutines of the oversight panel); steps that a failure separates (row
and head, outcome and sealing, proposal and payload, delete and create of a
slot, question and creation of a seeded node); checks that are not repeated
after a wait (the gate, the proposal's status); answers put together from
several reads; bounded tables and queues; timeouts that race the event they
wait for; several processes where a lock is per process; a client that does not
know what became of its request.  `PROJECT.json` lists the most important of
these under `hazards`, each at the line where it bites.

## 2. Modules

| Module | Models | Theorems in |
|---|---|---|
| `AuditChain` | the audit chain with its two writers, verifier, failures, crashes, workers | `AuditChainProofs` |
| `KeyedMutex` | abstract: a mutex per key that may refuse while the key is owned | |
| `InvoiceLocks` | the lock manager and the handlers' nesting with the domain lock; implements `KeyedMutex` | `InvoiceLocksProofs` |
| `ResponseMaterializer` | the materializer, its readers, loop, writers and shutdown | `ResponseMaterializerProofs` |
| `ConservationGate` | the conservation caches, the write gate, the receipts' snapshots | `ConservationGateProofs` |
| `ProposalLifecycle` | abstract: a proposal is resolved at most once, and then its outcome recorded | |
| `Proposals` | the proposal service, its graph store and its callers; implements `ProposalLifecycle` | `ProposalsProofs` |
| `DecisionLifecycle` | score, learn and outcome end to end: evidence, commit, extinction, L5 rows, receipts, profile, shadow, restart | `DecisionLifecycleProofs` |
| `DurableCounter` | abstract: a counter that never takes back what it told | |
| `BudgetPolicy` | the budget's counters, its two slots, failures and crashes; implements `DurableCounter` | `BudgetPolicyProofs`, `PlatformProofs` |
| `AutoApproveGate` | the auto-approve gate, its status route, the novelty window | `PlatformProofs` |
| `AutoApprovePolicy` | the older policy of a score and its unlocked statistics | `PlatformProofs` |
| `Authority` | promotion records, the Frozen Twin, its re-freeze, the flush of the centroids | `PlatformProofs` |
| `Interventions` | the oversight panel, composite gate, checkpoints, learning state on disk | `PlatformProofs` |
| `Deployment` | environment check, import, startup, restarts, status route, shutdown | `PlatformProofs` |
| `GraphSeeding` | the two writers of entities, interrupted and run again | `PlatformProofs` |
| `DemoPreseed` | the demonstration's client with lost answers and reruns | `PlatformProofs` |
| `Suppliers` | profiles, enrichment runs, the supplier list and intelligence | `PlatformProofs` |
| `ReadPlans` | data: what each read endpoint reads, in which order, and what a failed read answers | `PlatformProofs` |
| `Endpoints` | an endpoint of `ReadPlans` answered while a decision is scored and learnt | `PlatformProofs` |
| `Platform` | the ten machines from `BudgetPolicy` to `Endpoints` (without `ReadPlans`, which is data), side by side, each in a scene of its own | `PlatformProofs` |
| other `MC...` | the instances TLC checks | |

Operators whose name has an underscore (`Released_Never`, `Dropped_AnyEntry`)
are mutants: what the definition after them would be with a plausible bug.  No
action uses them; each shows that some property depends on that definition.

### AuditChain

A row is identified with its hash: the n-th row stored has position n, and
`prev` and `ref` hold positions.  `ChainOK` is `_verify_entries`.  Each store
call that another worker or a crash can separate from the next is a step:
`AppendRead` (rows), `AppendCheck` (head, verification), `AppendSaveEntry`,
`AppendSaveHead`; the four reads of `verify_chain` are `VerifyBegin` (markers),
`VerifyEntries`, `VerifyEvidence` (head) and `VerifyStored`.  `StoreCallFails`
ends a call where it stands, through the handlers that turn an exception into a
503; `Crash` does so for a process.  A failure that happens after its call took
effect is the same step one location later.  Left out: epoch archival and reset
(an operator's action while no request runs), and the reads.

### InvoiceLocks and KeyedMutex

A block under `_meta_lock` is one step; waiting for an entry's own lock is
outside it.  Entries are objects (`Objs`), because the code keeps a reference
to an entry that the table may meanwhile have dropped and replaced.  The
eviction order is left open.  `TimeOut` is possible whenever the lock is owned.
`KeyedMutex` is what the class promises; the mapping reads `owner` off the
table and `wanted` off the program counters.

### ResponseMaterializer

A snapshot is abstracted to the set of writes that each of its two queries
returned.  Time is counted in units, and only where the code counts it: `Tick`
does not pass a deadline that is due.  The history variable `disturbed` says
what a call without an answer may blame.

### ConservationGate

A cache entry is its content and whether its two seconds are over.  `call`
holds the locals of a `_cached_conservation_counts` call and what its caller
does next; `fill` those of `_score_conservation_status`; `req` those of a score
or learn request.  `CountsCheck` and `CountsStore` are two steps because the
code tests the generation and stores afterwards with no lock, and so are
`Bump`, `ClearStatus` and `ClearCounts`.  The status is a function `StatusOf`
of the number of verified outcomes: any function in the proofs, and in the runs
one that gets worse and recovers.  `straddled` records that a clear happened
while some reader stood between its test and its store, the window the code
leaves open.

### Proposals and ProposalLifecycle

`record` holds what the graph says of each proposal (its decision, status and
whether an outcome payload is there), `index` the decision index beside it.
The two writes of `GraphProposalStore.save` are two steps (`CreateSave` and
`CreateIndex`, `SaveResolved` and `SaveIndex`), and `link_outcome` is a third
(`LinkOutcome`); each may be the last one a request makes (`StoreCallFails`,
`Crash`).  `Look` is `resolve_for_decision` reading the status without the
service's lock, `Enter` and `Return` are `_resolve` reading it again under the
lock.  Proposals are numbered in the order of `created_at`, which is drawn
before the lock, so that a lower number may be recorded after a higher one.
`late`, `unheard` and `cut` are history variables: proposals recorded after
their decision was learned, decisions whose learn request failed on the way,
resolutions interrupted between their writes.  `standing` and `verified` map
the records to `ProposalLifecycle`.  One process is supposed, as the code's
`RLock` supposes it.  Left out: the SQLite `ProposalStore`, which the
application does not use; `ProposalService.link_outcome`, which nothing in the
application calls; the outcome adapter's dictionary, which nothing reads.

### DecisionLifecycle

One request is a thread with a program counter, from the decision read to the
shadow outcome.  What happens under the domain lock is nevertheless cut at
every store call, because a call may fail there, the process may die there, and
the executor's shadow jobs and the link step of a score take no lock.  `mode`
is the shadow's configuration: off, a store of its own, or the active store, in
which case its rows are seen by `active_decision_ids` and the verified counts
(`VisibleShadow`).  `LearnRun` has the four ways of `scorer.learn`: it commits,
declines, or raises before or after its commit.  `l5` is the learning state in
the graph as the set of decisions in it; `Restore` is what a restart makes of
it.  A receipt's hash is its serial number.  The audit chain, the proposals and
the caches appear only as steps that succeed or fail: they have modules of
their own; a restore that reports an error and leaves an empty tracker
(`s2p.py` 267) is left out.

The counts that decide a receipt when the scorer does not say whether it applied
the outcome (`s2p.py` 1533) are not the store's.  `counts` is the set of numbers
that a reader may find in the two-second cache (1097): what a commit makes it
joins what may still be kept (`Counted`), and the clear at 2896, which a learn
that raises after its commit never reaches, drops all but the new number unless
a reader brings an old one back (`DropCounts`).  `Snapshot` draws a number from
it, or answers 0 when the read fails (1509-1512).

`reported`, `promised`, `stranded`, `doubt` and `unsure` are history variables.
`stranded` has the decisions whose learn ended between commit and answer.
`doubt` says that an old number may be kept behind the last outcome, `unsure`
has the decisions whose receipt was earned by comparing with a number taken in
doubt or with a failed read: the code may give such a decision a receipt for
somebody else's outcome, and `ReceiptsAreEarned` excepts exactly those, and the
shared shadow, whose outcomes are counted too.  A failure kind that is not in
`Faults` does not happen.

### BudgetPolicy and DurableCounter

`phase` is where the one allocation under way stands: counted in memory, slot
deleted, slot created.  Each half of the store's replacement may fail, also
after it took effect, and then memory goes back to `previous`; or the process
dies, and `Restart` loads the newest slot, provided that all are consistent.  `DurableCounter` counts
what callers, and restarts, were told.

### AutoApproveGate, AutoApprovePolicy

Confidences and thresholds are in hundredths, the verified rows a sequence that
outcomes extend; a category's recent rows are the set of their positions in it.  `state` is what the status route, without the lock, and an
evaluation, with it, both derive and store.  A configuration is one step, so the
race of its three stores (148, 150, 159) with the status route (443) is not in
the model; `maybe_expand_threshold_from_verified_outcomes_only` is, although in
the repository only tests call it.

The statistics of `AutoApprovePolicy` are updated by jobs on four executor
threads without a lock: every `+= 1` is a read (`ReadCounter`) and a store
(`StoreCounter`), so two jobs may store the same number and an update is lost;
`Reset` is `reset_auto_approve_stats`, which zeroes the totals one by one and
then replaces the tables that jobs may still hold (no route calls it, the tests
do).  The parts therefore need not add up to the total.  What its type invariant
says is that a counter never shows more than the jobs that counted under it,
and, short of a reset, not nothing when one did.

### Authority, Interventions

Promotion's engine and the Frozen Twin are the SDK's: the engine loads a record
and saves it, freezing an existing snapshot is refused.  The re-freeze of the
demonstration is three steps, the flush one per cell.

No route reaches the controls of `Interventions`: those for the oversight panel,
for checkpoints and for the scorer's freeze answer 501 (`framework_router.py`
423, 440, 450, 456 and 642), and in the repository only tests construct the
classes.  The module models the classes as they would run: coroutines that
change memory, await the audit node and let others in between; a rollback that
stores centroids, counts and freeze one after the other (`RestoreCentroids`,
`RestoreCounts`, `FreezeScorer`); and the constructor's scorer, which learns
beside them under no lock (`LearnChecks`, `LearnMoves`, `LearnCounts`), so that
no relation of the tensor to a checkpoint holds and none is stated.  Centroids
and counts are their number of updates.  `doubt` records that two freezing
controls had their nodes under way at once, or that a node was lost; it ends
with the next freezing control that runs alone, and `OversightHolds` says that
the trail is right again from then on.

### Deployment

An environment is a record of the settings that `s2p_graph_status.py` and
`s2p_shadow.py` check; the import of `main.py` is a fixed order of steps, any
of which ends the process when it fails; the startup event seeds and warms.
`wrote` is the history of who wrote which graph under which environment.

### GraphSeeding, DemoPreseed

Each item is asked for in one query and created in another, and a writer may
die at either.  The migration matches only items with the domain stamp, the
seeder does not stamp.  In `DemoPreseed` a request without an answer was
refused, has committed, or is still under way (`young`, and `old` once an
inventory has been read without it); the next run reads the inventory and goes
on from it.  `SeedExtinction` lists the format decisions anew and `Drain` learns
every pending one that is the script's own, the warm events with a fixed id
among them: an event whose warm learn got no answer, or failed, is learned again
in the same run.  `missed` counts the requests that were under way when an
inventory was read; `PlantedOnce` allows one repetition for each and none
without.  An event that was planted twice in this way may be learned once per
decision.  The decisions with a new id on every run are not counted.

### Suppliers

Four places speak of a supplier: events in memory, decisions and outcomes in
the graph (`outcomes` maps each decision that has one to its verdict and its
time), metrics that an enrichment run leaves there, and the profile that
combines them.  An exception is an outcome whose actual action is not
auto-approve, and the last decision of an invoice is by decision time (`Place`),
not by outcome time.  Rates are percentages of small counts.  The window of a profile
is `Trailing` in the runs and 200 in the code, so the bound on a green one is
stated as a rate, fewer than seven misses in a hundred.

### ReadPlans and Endpoints

`ReadPlans` has one entry per route or payload builder: the reads in order, and
what each failure does to the answer (an error, a 404, told in the answer, or
answered as if empty, after any failure or after a timeout only).  Several
queries of one source that fail alike and follow each other are one read.  The
observation that the preview queue writes for each invoice it shows
(`s2p_preview.py` 326-330) is left out: it changes nothing that is read here.

`Endpoints` answers one endpoint again and again while a decision goes through
its `Stages`, so that what an answer puts together may come from different
moments.  A stage is a step of the handlers in their order: the context of
invoices is dropped when a score or learn request *begins* (2407, 2799, 2971),
snapshots and tabs after the commit (2577, 2937).  A stage that can fail without
failing the request, or that a score never reaches because it raised after its
decision was stored, may be left out (`Omissible`, `omitted`); a learn that
raised drops nothing, is sent again and goes on from where it was.  A build
whose rows cannot be read leaves what was kept; a part that cannot be computed
is marked unavailable, and its endpoint is then answered as without a snapshot
(`BuildFails`).  An entry is cleared by the drops its plan names, expires, or is
not kept when a drop overtook its build (`raced`); tabs are kept all the same.

`AnswersAreSound` has exceptions, each the code's own and named:

- `Torn` routes read decisions before outcomes (or outcomes before what was
  counted from them), so a learn between two reads tears the answer; and no drop
  tells a build of a decision whose score raised after storing it (`Unordered`);
- `Quiet` routes answer a failed read as empty with status 200;
- kept answers of the routes in `Old` may be from before an outcome that was
  answered: snapshots and startup values, and the evidence context, which may be
  computed after a learn began and before it committed and is then kept for two
  minutes.  What such an answer says is nevertheless ordered and told.

So the hazards at `s2p_demo_beats.py` 206 and `s2p.py` 2799 are in the model and
happen there; the property shows that the other routes are free of them.

## 3. Runs

| Run | Instance | Shows |
|---|---|---|
| `audit_process` | 1 process, 2 threads, 2 decisions, 2 outcomes, faults | a verified report misses no outcome; the ledger invents nothing |
| `audit_workers` | 2 processes, 2 decisions, 1 outcome, faults | decisions are certified across workers; a broken chain stays broken |
| `audit_returns` | 1 process, 3 threads, 2 decisions, 1 outcome, no faults, fair | no false tamper report; when all is quiet all is sealed; every call returns |
| `audit_forgotten` | 2 processes, faults, violation | an outcome is certified without its entry |
| `locks_table` | 3 threads, 2 invoices, 4 entry objects, table of 1, fair | release never raises, no entry is forgotten, a mutex per invoice, every request returns |
| `materializer` | 1 reader, loop, 2 writes, shutdown, fair | one build, nothing invalidated served, no unexplained empty answer; requests return, writes become visible |
| `conservation_caches` | a learner, and a thread that scores, reads the counts or asks for the status; 2 outcomes, 2 clears | caches do not go back behind a clear; receipts show their outcome; in-flight marks have an owner |
| `conservation_gate` | a score and a learner, violation | RED is not refused |
| `proposals_resolution` | 2 threads, 1 decision, 2 proposals, 2 outcomes, faults, fair | one resolution, with its outcome; a learned decision's proposal is closed; the index is sound; every request returns |
| `lifecycle_requests` | 2 threads, 2 decisions of one category, 3 calls (2 with a shadow that may crash), 1 restart, every fault, 3 shadow modes, 1 receipt kept | no outcome without its evidence; extinction events neither false nor missing; a complete answer is durable; receipts are earned |
| `lifecycle_links` | 2 threads, 2 decisions, link failures, violation | a link is reported that is not there |
| `platform` | ten scenes, below | thresholds, approvals, baselines, oversight, budget, deployment, seeding, demonstration, suppliers, answers |

`platform` checks the components that interact with no other one.  Its initial
state picks a scene, and only that scene's component moves, so its state space
is the sum of theirs and not the product; each component gets its constants in
its `INSTANCE` and its assumptions are assumed again in `Platform`, where TLC
evaluates them on the run.

| Scene | Bounds | Property |
|---|---|---|
| `gate` | 2 threads of which one asks for the status, 1 category and an unknown one, 2 outcomes, 2 calls, windows of 1 | `ThresholdsAreSound`, `ApprovalsAreEarned` |
| `policy` | 2 scores, 1 category and an unknown one, 1 reset | `TypeOK` (lost updates of the statistics) |
| `authority` | 2 clients, 2 classes, 2 cells, 2 re-freezes, 3 calls, 2 updates | `BaselinesAreKept` |
| `oversight` | 2 coroutines, 1 kind, 3 controls, 1 update | `OversightHolds` |
| `budget` | 4 allocations, a history of 2 | `BudgetIsDurable` |
| `deployment` | 2 starts, reviewed environment and each setting amiss | `WritesAreReviewed` |
| `seeding` | 2 writers, 2 nodes, 1 edge, 1 old link, 3 runs | `SeedingConverges` |
| `preseed` | 4 events in 3 phases, 1 of them of the format queue, 3 runs, 2 lost answers | `PlantedOnce` |
| `suppliers` | 1 supplier and one unknown, 3 decisions on 2 invoices, 2 verdicts, 1 enrichment run | `SuppliersAreTrue` |
| `endpoints` | every plan, 1 decision, 1 restart | `AnswersAreSound` |

The bounds.  Every race the hazards name is between two actors, with at most a
third that observes or evicts: two or three threads exhibit it.  Two decisions
and one or two outcomes are the least for an entry with a predecessor and a
successor and for an outcome between two decisions.  A lock table of one with
two invoices reaches its limit at once, with one entry object more than there
are threads, so that a dropped entry and its successor coexist.  The
materializer's limits keep the order of the real ones (a query's timeout is
shorter than a wait's; two queries together are longer) and a snapshot can
expire during a build.  Two clears and two outcomes are what it takes for a
reader to start before one clear and store after another.  Two proposals of one
decision are what the newest is chosen from, one of them may be late, and a
second learn request meets what a first one, or a failure, left behind.  Two
decisions of one category are each other's rival for the category's last
pending row, which may be there at the start; three calls are a learn, the
score or learn that races it, and one after the restart; a store of one receipt
evicts at the second.  Four allocations fill both budget slots twice and the
history more than once.  Two runs of a writer or of a client are an interrupted
one and its repetition; the third of `seeding` is another writer's, the third of
`preseed` meets what a request did that two inventories missed, and two lost
answers are a score's and the learn's of the same event.  Two jobs of the policy
lose an update.  Two starts
are a cutover and its rollback.

Fairness is stated only in `FairSpec`, used by `audit_returns`, `locks_table`,
`materializer` and `proposals_resolution`.  Threads of
the pool keep running, so a call that began goes on: weak fairness where a step
stays possible once it is (the materializer's condition variable is polled
under one lock), strong fairness where threads compete for a lock (Python's
locks do not guarantee an order, but a waiter that is awake again and again
wins eventually) and for the clock.  Nothing obliges a request, a write, a
fault or a shutdown to happen.

Deadlock is checked except in `lifecycle_requests`, `lifecycle_links` and
`platform`, whose bounds on calls, runs and starts let the model stop.

## 4. Findings

Three statements of the repository do not hold of the code; each has a run whose
counterexample shows the sequence, and an entry in `PROJECT.json`:

- an outcome recorded by one worker before another has sealed its decision is
  never sealed and its marker is deleted (`s2p.py` 140-143 against the comment
  at 158);
- the write gate reads a cache that nothing fills (1236 against 1230);
- a score whose link method was looked up while a learn request had replaced it
  reports a link that failed as persisted (1018 and 1976-1994 against
  `backend/tests/test_graph_links.py` 151).

The models follow some more behaviours without a property about them:

- a score whose sealing fails leaves the materialized responses as they were
  until the snapshot expires (2487; `docs/perf_materializer_s2p.md` 17), and
  during a refresh the expired snapshot is served whatever its age
  (`response_materializer.py` 102; line 87 of that document calls the age limit
  strict); shutdown gives up waiting for a build before two slow queries are
  over (135; line 19);
- a cache miss may put back counts from before an outcome when the clear falls
  between its check and its store (`s2p.py` 1123; `CountsAreCurrent` excepts
  that window by name); and a learn that raises after its commit clears nothing,
  so that the next one whose scorer is silent may be given a receipt by the
  other's outcome (1533; `unsure`);
- two executor jobs lose an update of the approval statistics
  (`domains/s2p/auto_approve.py` 121);
- a learn request that finds its proposal resolved the other way answers 500
  after its outcome is committed (`proposal_service.py` 429), and resolving an
  older proposal points the index back at it (451);
- two learn requests fork the receipt chain (`s2p.py` 2937), and
  `RecordProfile` runs although the learn was not applied (1844; the docstring
  at 1850 says "after scorer learning succeeds");
- `/api/learn` accepts a decision that is already resolved (2829), and in
  strict shadow mode a failing shadow answers 502 after the commit (2957);
- GREEN conservation lifts a freeze that an operator set
  (`intervention_controls.py` 381);
- the boundary and review phases of `preseed_s2p_demo.py` plant events with new
  ids on every run (751), although its docstring (3-6) calls it idempotent;
- the drain of `preseed_s2p_demo.py` (497) learns an event again whose learn is
  still under way;
- an evidence context computed between the begin of a learn and its commit is
  kept for two minutes (`s2p.py` 2799), and the other routes in `Torn`, `Quiet`
  and `Old` of `Endpoints`.

## 5. Proofs

Each proof module extends the module it is about; assumptions are the named
`ASSUME` of that module, which the runs evaluate.  Each has an inductive
invariant `IInv`, a lemma that `Init` establishes it, lemmas that the actions
keep it, and theorems that follow.

*AuditChain.*  `TypeCorrect`, `LedgerIsHonest`, `DecisionsAreCertified` hold
for any number of threads and processes, with faults.  `DecisionsCertified` is
not inductive: it needs that what the verifier read first is still in the store
when it compares (`Looking`), and that a thread at a location does what that
location is for (`Shape`).  `OutcomesAreCertified` assumes a single worker
process, without which `audit_forgotten` refutes it.  Its invariant is that a
committed outcome is sealed, or marked, or its decision can never be sealed any
more, in which case the missing decision keeps every report from being verified
(`Guarded`, `Blocked`); the verifier, which reads the markers first, carries
that fact along (`Watching`).  `BrokenStaysBroken` needs what a broken chain is made
of: a row has the index of its place or one that was given before (`Indexed`),
and nothing links to a row before the head record names it (`Linked`).  So a
chain that is broken while nobody appends is broken in its rows, which no later
row repairs, or lacks a head record that nobody is left to save (`Ruined`); that
indices which are all there are all in place is the pigeonhole lemma
`CountedInPlace`.  `NoFalseAlarm` and `SealedWhenQuiet` are
the other side, with one process and no failures: then the rows verify at every
moment and the head record whenever no append is under way (`InStep`), and what
is not sealed has a thread that is about to seal it (`Attended`), both parts of
`Calm`.

*InvoiceLocks.*  `LocksImplementMutex` is the refinement, by step simulation,
and `ReleaseIsSafe` the absence of the code's own error.  The invariant counts:
an entry's waiters are the threads between the two blocks of `acquire`, its
holders those past it (`Counts`), so an idle entry is referred to by nobody who
could still use it, and an entry in use is the one in the table (`Named`).
`EntriesAreUsed` is the converse: an entry in the table has somebody who will
clean it up.

*ResponseMaterializer.*  `BuildsNeverOverlap` and `ServedIsCurrent`.  The
invariant says that a build whose generation is the current one has read, in
each query made so far, every write invalidated so far (`Informed`).
`CallsAreAnswered` says of a call that has nothing to blame that the snapshot it
waits for is there or being built (`Answering`).

*ConservationGate.*  `TypeCorrect`, which includes that the domain lock belongs
to the thread inside it; `CountsStayCurrent`; `ReceiptsShowOutcomes`; and
`MarksHaveReaders`.  For any function from outcomes to status.  The invariant
follows a learn request through its steps (`Flow`), puts the generation and the
clears in order (`Ordered`), and says that, short of a straddling clear, what a
reader is about to store with the current generation is no older than the last
clear (`Current`), so that the second snapshot of a receipt, taken after the
clear, shows the outcome (`Receipts`).  `StatusStaysClose` follows two readers,
as the status is filled from counts that another filled (`Primed`).

*Proposals.*  `ServiceImplementsLifecycle` is the refinement of
`ProposalLifecycle`; `LearnsCloseProposals`, `OutcomesFollow` and
`IndexStaysSound` are the safety properties of the run, with failures and
crashes.  The invariant says that a thread past `Enter` has its proposal to
itself (`Resolvers`), that a creator's number is nobody else's (`Creators`),
that a learn request handles a proposal of the decision it is about
(`Learners`), and that the index names what is on record (`Stored`).
`LearnClosesProposal` is then inductive: the lemma `ClosedBy` says that a
request may stop looking when its decision has a resolved proposal, or none, or
the request failed.

*BudgetPolicy.*  `Durable` is the refinement of `DurableCounter` together with
the consistency of every slot, for every history bound.  The invariant says
that the slot with the parity of the last total told holds it and is never the
one being written (`Kept`), and that the other holds one less, one more, or
nothing (`Other`): so whichever half of a save was the last thing the process
did, a restart finds the total told or the interrupted one.

*DecisionLifecycle.*  `EvidenceComesFirst`, `CompleteStays`,
`ReceiptsStayEarned` and `ExtinctionStaysExact`, for any number of threads,
categories and requests, finitely many decisions, every fault and restart.  The
invariant `Inductive` says of each request what it relies on at its location
(`About`, `Applying`, `Emptying`), that memory and the three L5 parts lie
between what was promised and what is resolved (`Layered`), that receipts are
numbered in order and indexed (`Numbered`), and that a category without a
pending decision has its event, or a request on the way to saving it
(`Covered`, `OnTheWay`).  A step of one request keeps what the others rely on
(`OthersStay`, `Keeps`), which is proved once and used by every action.  The
decisions have to be finite because the verified counts of two moments are
compared as cardinalities.  `ReceiptsStayEarned` has two more layers above it.
`Counting` types the cached numbers.  `Sure` says of a learn that took its first
count without doubt that only that number can be found until its outcome is
committed (`Certain`), and of the cache that it holds the store's number only
(`Fresh`), unless it is in doubt or a request that applied its outcome has not
dropped it yet (`Overtaking`): so a second count above the first one is that
request's own outcome.

*Platform.*  The lemmas `OneSceneMoves` and `EachAlone` reduce a step of the
platform to a step of one component, or of none; each theorem then needs an
invariant of its component only, for any constants.

- `BudgetSurvives` takes the invariant of `BudgetPolicyProofs` through an
  `INSTANCE`.
- `OversightIsKept`: unless in doubt, at most one node about freezing is under
  way, and the last word, that node's or else the trail's, is the flag
  (`TrailTells`): `Panel`.
- `NoBaselineIsLost`: a re-freeze holds the turn from its first step to its last
  and knows what it replaces (`RefreezeIsAt`); what was ever chosen is the chosen
  one or archived (`ChosenIsKept`): `Baselines`.
- `EveryWriteIsReviewed`: each stage of the start carries what the checks before
  it established of the environment (`Deployed`).
- `SeedingIsExact`: what a run has still to do and what the graph holds make up
  its plan (`RunIsAt`, `Planting`), which is inductive only for writers that
  meet nobody; that a link is not lost is not so restricted (`LinksAreKept`):
  `Seeded`.
- `ThresholdsStaySound` and `ApprovalsStayEarned`: what a thread read of the rows
  is a beginning of what they are now (`Begins`), and the state counts no more
  than them (`CountedOnce`): `Gated`.
- `EventsArePlantedOnce`: what was made of an event beyond once was missed by an
  inventory, and what the run may still score, learn or drain on the inventory
  it has was missed altogether (`OnceAtMost`); the script's position bounds what
  may have been done (`InOrder`, `ClientIsAt`), and it passes the cohort only
  when that is there (`CohortIsThere`): `Demonstrated`.
- `SuppliersStayTrue`: a run's two reads only grow (`Studied`), its counts are
  those of one number of outcomes and one of unverified decisions (`Borne`,
  `AddUp`), a list counts invoices that were paid (`Listed`): `Supplied`.
- `AnswersStaySound`: a request has found what was there when cached answers
  were last dropped, short of going through a drop, and everything if it began
  after the decision was learnt (`Due`, `Covered`); what it shows is in the
  order it happened in (`InOrderOf`); entries and answers keep both
  (`RequestIsSound`, `EntryIsSound`, `ResponseIsSound`): `Answering`.  That each
  plan reads in the order its exceptions leave is read off the table, plan by
  plan (`PlanKeeps`, `EveryPlanKeeps`).
- `TypesStayCorrect`: the bounds of the ten components together.  Two of them
  need an argument.  A counter of the policy is at most the number of jobs that
  have counted under it, and so is what any job has read of it and not stored
  yet, as cardinalities of finite sets (`TalliesFit`).  The rolling counts of the
  gate are of subsets of the category's rows (`Orderly`).

The type invariants of the larger modules are part of their proofs
(`TypeCorrect`, `Typed`).

Only model-checked:

- liveness (`EveryCallReturns`, `EveryRequestReturns`, `WritesBecomeVisible`):
  fairness and `ENABLED` are beyond the proof system.

Every safety property of a run is stated by a theorem.

## 6. Not modelled, and what is left

Not modelled:

- the SDK (`copilot_sdk`, `ci_platform`) beyond what its calls do to the state
  here: the scorer's and the promotion engine's algorithms, the tab cache's
  internals, the variant evolver;
- numeric code (`domains/s2p` factors and reward, financial ratios, ranking,
  averaging) and the layout of payloads: floating-point functions of their
  inputs without state;
- the event bus, a sequential in-process dispatch to which no part of the
  S2P path subscribes state;
- connectors, oracles, synthetic data, simulations, fixtures;
- of modelled components: archival and reset of the audit ledger (an operator's
  actions while no request runs), the SQLite `ProposalStore` and
  `ProposalService.link_outcome` (no caller in the application), the comparison
  report of `framework/shadow_mode.py` (no route uses it).

Left to do: liveness of `DecisionLifecycle` (every learn
request returns) beside the safety it has; `Torn` and `Quiet` emptied, should
the routes they name be changed.
