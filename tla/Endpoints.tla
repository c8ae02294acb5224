------------------------------- MODULE Endpoints -------------------------------
(***************************************************************************)
(* One read endpoint answered again and again while one decision is        *)
(* scored, stored and learnt, graph reads fail, the service restarts and   *)
(* cached answers are kept, dropped and expire. The plans of ReadPlans say *)
(* what the endpoint reads; the request reads it in that order, one read   *)
(* at a time, so what it puts together may come from different moments.    *)
(***************************************************************************)
EXTENDS ReadPlans, FiniteSets

CONSTANTS NoEntry, \* nothing is cached, asked or answered
          MaxRestarts

EndpointsAssumption == MaxRestarts \in Nat

VARIABLES
    endpoint, \* the endpoint this behaviour exercises
    progress, \* how far the decision has come, by the stages below
    restarts,
    omitted,  \* what its requests left out, or a restart lost, for good
    entry,    \* the snapshot, tab entry or startup value the endpoint keeps
    request,  \* the request or build under way
    response  \* the last answer, until something else happens

endpointVars == <<endpoint, progress, restarts, omitted, entry, request, response>>

\* The stages of a decision. A score request begins, stores it, drops cached
\* answers and links it; a learn request begins, records the outcome, adds its
\* receipt, drops cached answers and counts it in its supplier's profile. To
\* begin is to drop the context of invoices.
Stages == <<"begun", "decisions", "score", "links", "begun", "verified", "receipts", "learn", "profiles">>
Learnt == Len(Stages)
Level(source) ==
    CASE source = "decisions" -> 2 [] source = "links" -> 4 [] source \in {"verified", "correct"} -> 6
      [] source = "receipts" -> 7 [] source = "profiles" -> 9
Tracked == {"decisions", "links", "verified", "correct", "receipts", "profiles"}
InMemory == {"receipts", "profiles"}
Drops == {"score", "learn"}

\* What may be left out although the decision is learnt and that answered: a link,
\* receipt or profile that fails, and what a score does that raises once its
\* decision is stored. A link that comes after the learn request counts as failed.
Omissible == {"score", "links", "receipts", "profiles"}

\* The sources that show the decision now.
Showing(source) == source \in Tracked /\ progress >= Level(source) /\ source \notin omitted

plan == Plans[endpoint]
Begin(role) ==
    [role |-> role, at |-> 1, shown |-> {}, unread |-> {}, told |-> {}, raced |-> FALSE, learnt |-> progress = Learnt]

Init ==
    /\ endpoint \in DOMAIN Plans
    /\ progress = 0
    /\ restarts = 0
    /\ omitted = {}
    /\ entry = NoEntry
    /\ request = NoEntry
    /\ response = NoEntry

\* A score or learn request takes its next step. Requests and builds under way
\* when cached answers are dropped go on. A learn request that raises drops
\* nothing; sent again, it goes on from where it was.
Advance ==
    /\ progress < Learnt
    /\ progress' = progress + 1
    /\ LET stage == Stages[progress + 1]
           drops == stage \in plan.clears \/ (plan.via = "snapshot" /\ stage \in Drops)
       IN \/ /\ stage \in Omissible
             /\ omitted' = omitted \cup {stage}
             /\ UNCHANGED <<entry, request>>
          \/ /\ entry' = IF drops THEN NoEntry ELSE entry
             /\ request' = IF stage \in Drops /\ request # NoEntry THEN [request EXCEPT !.raced = TRUE] ELSE request
             /\ UNCHANGED omitted
    /\ response' = NoEntry
    /\ UNCHANGED <<endpoint, restarts>>

\* The service stops between two steps of whatever it was doing. A learn
\* request it interrupts is sent again and writes its receipt again; one that
\* was answered is not, and what it left in memory is lost. No request links
\* the decision of a score that was interrupted.
Restart ==
    /\ restarts < MaxRestarts
    /\ restarts' = restarts + 1
    /\ progress' = IF progress \in Level("receipts") .. Learnt - 1 THEN Level("verified") ELSE progress
    /\ omitted' = (omitted \cap {"links"})
                   \cup (IF progress \in Level("decisions") .. Level("links") - 1 THEN {"links"} ELSE {})
                   \cup (IF progress = Learnt THEN InMemory ELSE {})
    /\ entry' = NoEntry
    /\ request' = NoEntry
    /\ response' = NoEntry
    /\ UNCHANGED endpoint

Result(code, from) ==
    [code |-> code, shown |-> from.shown, unread |-> from.unread, told |-> from.told,
     learnt |-> from.learnt, raced |-> from.raced, kept |-> FALSE]

\* What the endpoint keeps is answered as it is; otherwise its reads begin.
Ask ==
    /\ request = NoEntry
    /\ IF entry # NoEntry
       THEN /\ response' = [entry EXCEPT !.learnt = (progress = Learnt), !.kept = TRUE]
            /\ UNCHANGED request
       ELSE /\ request' = Begin("client")
            /\ response' = NoEntry
    /\ UNCHANGED <<endpoint, progress, restarts, omitted, entry>>

\* The materializer builds a snapshot, for this and every endpoint it serves.
Build ==
    /\ plan.via = "snapshot"
    /\ request = NoEntry
    /\ request' = Begin("builder")
    /\ response' = NoEntry
    /\ UNCHANGED <<endpoint, progress, restarts, omitted, entry>>

Reads(n) == {Plans[n].reads[i].of : i \in DOMAIN Plans[n].reads}
reads == IF request.role = "builder" THEN SharedReads ELSE plan.reads
Reading == request # NoEntry /\ request.at <= Len(reads)
read == reads[request.at]

\* A mutant: what a build has read is kept whatever happened meanwhile.
Settle_Overtaken(code, ended) ==
    /\ request' = NoEntry
    /\ response' = IF ended.role = "client" THEN Result(code, ended) ELSE response
    /\ entry' = IF code = 200 /\ (plan.via \in {"tab", "startup"} \/ ended.role = "builder") THEN Result(code, ended) ELSE entry

\* The answer that ends the reads: builders, tabs and startup values keep a
\* good one. A snapshot whose build a mutation overtook is not kept.
Settle(code, ended) ==
    /\ request' = NoEntry
    /\ response' = IF ended.role = "client" THEN Result(code, ended) ELSE response
    /\ entry' = IF code = 200 /\ (plan.via \in {"tab", "startup"} \/ (ended.role = "builder" /\ ~ ended.raced))
                THEN Result(code, ended) ELSE entry

ReadSucceeds ==
    /\ Reading
    /\ LET found == Showing(IF read.of = "counts" THEN "verified" ELSE read.of)
           shown == IF found THEN request.shown \cup {read.of} ELSE request.shown IN
       IF read.needed /\ read.of \in Tracked /\ ~ found
       THEN Settle(404, request)
       ELSE /\ request' = [request EXCEPT !.at = @ + 1, !.shown = shown]
            /\ UNCHANGED <<entry, response>>
    /\ UNCHANGED <<endpoint, progress, restarts, omitted>>

\* The conservation counts may come from their cache, from before the outcome.
CachedCounts ==
    /\ Reading
    /\ read.of = "counts"
    /\ request.role = "client"
    /\ request' = [request EXCEPT !.at = @ + 1]
    /\ UNCHANGED <<endpoint, progress, restarts, omitted, entry, response>>

Unread(told) == [request EXCEPT !.at = @ + 1, !.unread = @ \cup {read.of},
                    !.told = IF told THEN @ \cup {read.of} ELSE @]

ReadFails ==
    /\ Reading
    /\ request.role = "client"
    /\ \/ read.fails \in {"error", "slow"} /\ Settle(503, request)
       \/ read.fails = "missing" /\ Settle(404, request)
       \/ /\ read.fails \in {"told", "empty", "slow"}
          /\ request' = Unread(read.fails = "told")
          /\ UNCHANGED <<entry, response>>
    /\ UNCHANGED <<endpoint, progress, restarts, omitted>>

\* A build that fails to read its rows leaves what was kept. Of its parts, one that
\* tells of the failure is kept, one that cannot be computed is marked, so that its
\* endpoint is answered as without a snapshot, and the others go on.
BuildFails ==
    /\ Reading
    /\ request.role = "builder"
    /\ read.fails # "never"
    /\ LET used == read.of \in Reads(endpoint) IN
       \/ read.of \in Rows /\ Settle(503, request)
       \/ /\ read.of \notin Rows /\ used /\ read.fails = "error"
          /\ request' = NoEntry
          /\ entry' = IF request.raced THEN entry ELSE NoEntry
          /\ UNCHANGED response
       \/ /\ read.of \notin Rows /\ (used => read.fails = "told")
          /\ request' = IF used THEN Unread(TRUE) ELSE [request EXCEPT !.at = @ + 1]
          /\ UNCHANGED <<entry, response>>
    /\ UNCHANGED <<endpoint, progress, restarts, omitted>>

\* The worker goes on after its request has been answered for it; nothing it
\* reads is used.
TimesOut ==
    /\ Reading
    /\ plan.timed \/ request.role = "builder"
    /\ Settle(503, request)
    /\ UNCHANGED <<endpoint, progress, restarts, omitted>>

Answer ==
    /\ request # NoEntry
    /\ request.at > Len(reads)
    /\ Settle(200, request)
    /\ UNCHANGED <<endpoint, progress, restarts, omitted>>

\* Tab entries live for seconds, a snapshot until its next build.
Expire ==
    /\ entry # NoEntry
    /\ plan.via \in {"tab", "snapshot"}
    /\ entry' = NoEntry
    /\ response' = NoEntry
    /\ UNCHANGED <<endpoint, progress, restarts, omitted, request>>

Next ==
    \/ Advance \/ Restart \/ Ask \/ Build
    \/ ReadSucceeds \/ CachedCounts \/ ReadFails \/ BuildFails \/ TimesOut \/ Answer \/ Expire

Spec == Init /\ [][Next]_endpointVars

\* Types: a known endpoint, a stage of the decision, and what is kept, asked
\* and answered.
TypeOK ==
    /\ endpoint \in DOMAIN Plans
    /\ progress \in 0 .. Learnt
    /\ restarts \in 0 .. MaxRestarts
    /\ omitted \subseteq Omissible
    /\ request # NoEntry => request.role \in {"client", "builder"} /\ request.at \in 1 .. Len(reads) + 1
    /\ \A kept \in {entry, response} \ {NoEntry} : kept.code \in {200, 404, 503} /\ kept.told \subseteq kept.unread

----------------------------------------------------------------------------
\* The routes that read decisions before their outcomes, or outcomes before what
\* was counted from them, those that leave a failed read untold, and those
\* whose kept answers outlive a learn request.
Torn == {"decision_explorer", "summary", "audit_export", "frozen_twin", "selected_twin", "compliance_report",
         "supplier_profile", "preview_suppliers"}
Quiet == {"audit_pack", "compliance_screening", "sox_readiness", "conservation_proof",
          "variants", "preview_queue", "preview_conservation", "ols_status", "selected_twin"}
Old == {"evidence_context"} \cup {n \in DOMAIN Plans : Plans[n].via \in {"snapshot", "startup"}}

\* No drop tells a build that reads the decisions first of one that a raising
\* score has stored meanwhile.
Unordered == endpoint \in Torn \/ (plan.via = "snapshot" /\ "score" \in omitted)

Causes == {<<"decisions", "links">>, <<"decisions", "verified">>, <<"decisions", "counts">>,
           <<"verified", "receipts">>, <<"verified", "profiles">>}

\* An answer never counts an outcome whose decision it does not list, says so
\* when a part of it could not be read, and shows every outcome that was
\* answered to the analyst before the request came, but for what the decision's
\* requests omitted and for what the routes above are named for: whatever fails,
\* is cached or restarts between two of its reads.
AnswersAreSound ==
    response # NoEntry /\ response.code = 200 =>
        /\ ~ Unordered =>
            \A c \in Causes :
                {c[1], c[2]} \subseteq Reads(endpoint) /\ {c[1], c[2]} \cap response.unread = {}
                /\ c[2] \in response.shown => c[1] \in response.shown
        /\ endpoint \notin Quiet => response.unread \subseteq response.told
        /\ (response.learnt /\ (endpoint \in Old => ~ response.kept) /\ ~ response.raced) =>
            \A s \in (Reads(endpoint) \cap Tracked) \ response.unread : s \in response.shown \cup omitted
=============================================================================
