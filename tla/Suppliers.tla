------------------------------- MODULE Suppliers -------------------------------
(***************************************************************************)
(* What the program says of a supplier, from four places: the events in    *)
(* memory (services/supplier_profile_accumulator.py), the decisions and    *)
(* outcomes of the graph (supplier_profile_provider.py), the metrics that  *)
(* an enrichment run leaves in the graph (s2p_enrichment.py) and what the  *)
(* profile makes of them (supplier_intelligence.py), with their routers.   *)
(*                                                                         *)
(* Rates are percentages.  The graph keeps of each decision with an        *)
(* outcome whether the recommendation was right, whether the action taken  *)
(* was auto_approve, and when that was said.                               *)
(* Whether the store repeats a write whose idempotency key it has seen is  *)
(* the store's affair: both happen.                                        *)
(***************************************************************************)
EXTENDS Integers, Sequences, FiniteSets, FiniteSetsExt

CONSTANTS
    Ids, Purchases, Unknown,    \* supplier ids; decisions; the decision has no supplier
    SupplierOf, InvoiceOf,      \* of each decision
    Place,                      \* of each decision in the order of timestamps and ids
    Master,                     \* the fixture's invoice count, rate and OTIF per supplier
    Computed, MinSample, Trailing, Reliable, TrendPoints,
    MaxVerdicts, MaxStudies

SuppliersAssumption ==
    /\ SupplierOf \in [Purchases -> Ids \cup {Unknown}] /\ DOMAIN Master \subseteq Ids
    /\ Place \in [Purchases -> Nat] /\ \A d, e \in Purchases : Place[d] = Place[e] => d = e
    /\ {Computed, MinSample, Trailing, Reliable, TrendPoints, MaxVerdicts, MaxStudies} \subseteq Nat \ {0}

VARIABLES
    scored, outcomes,       \* the graph: decisions; of those with an outcome, the outcome
    events,                 \* in memory: the last outcomes of each supplier, in their order
    unplaced,               \* skipped_missing_supplier_id
    metrics,                \* the graph: enriched metrics of a supplier
    study,                  \* the enrichment run under way
    studies, verdicts,      \* runs begun; outcomes recorded so far
    listing, profiles       \* a list request: decisions read; its answer

supplierVars == <<scored, outcomes, events, unplaced, metrics, study, studies, verdicts, listing, profiles>>

OutcomeEvents == [d : Purchases, right : BOOLEAN]
NoOutcomes == [d \in {} |-> [right |-> TRUE, auto |-> TRUE, at |-> 0]]
Off == [phase |-> "off", dry |-> FALSE, outcomes |-> NoOutcomes, all |-> {}, todo |-> {}]
Init ==
    /\ scored = {} /\ outcomes = NoOutcomes
    /\ events = [s \in Ids |-> <<>>] /\ unplaced = 0
    /\ metrics = [s \in Ids |-> {}]
    /\ study = Off /\ studies = 0 /\ verdicts = 0
    /\ listing = {} /\ profiles = {}

Of(s, decisions) == {d \in decisions : SupplierOf[d] = s}
Wrong(told, of) == Cardinality({x \in of : ~told[x].right})
Percent(n, of) == IF of = 0 THEN 0 ELSE (100 * n) \div of
Last(n, seq) == SubSeq(seq, Len(seq) - (IF n < Len(seq) THEN n ELSE Len(seq)) + 1, Len(seq))

-----------------------------------------------------------------------------
(* Decisions and outcomes; the events in memory *)

\* Decisions are named in the order in which they are made.
Score(d) ==
    /\ d \notin scored /\ \A e \in scored : Place[e] < Place[d]
    /\ scored' = scored \cup {d}
    /\ UNCHANGED <<outcomes, events, unplaced, metrics, study, studies, verdicts, listing, profiles>>

\* An event without a supplier is counted and dropped; the queue forgets its oldest.
OnDecisionVerified(o) ==
    LET s == SupplierOf[o.d]
    IN IF s = Unknown
       THEN unplaced' = unplaced + 1 /\ UNCHANGED events
       ELSE events' = [events EXCEPT ![s] = Last(Trailing, Append(@, o))] /\ UNCHANGED unplaced

\* The outcome is committed first; the update of the profile may raise, which is
\* logged.  A decision may be learned again: its outcome moves, its event stays.
RecordOutcome(d, right, auto) ==
    /\ d \in scored /\ verdicts < MaxVerdicts /\ verdicts' = verdicts + 1
    /\ outcomes' = [p \in DOMAIN outcomes \cup {d} |->
                        IF p = d THEN [right |-> right, auto |-> auto, at |-> verdicts'] ELSE outcomes[p]]
    /\ OnDecisionVerified([d |-> d, right |-> right]) \/ UNCHANGED <<events, unplaced>>
    /\ UNCHANGED <<scored, metrics, study, studies, listing, profiles>>

\* The process restarts: the graph stays, a run under way and the events are gone.
Reset ==
    /\ events # [s \in Ids |-> <<>>] \/ study # Off
    /\ events' = [s \in Ids |-> <<>>] /\ unplaced' = 0 /\ study' = Off /\ listing' = {}
    /\ UNCHANGED <<scored, outcomes, metrics, studies, verdicts, profiles>>

\* The regression line of the misses over the events rises.
Late(misses, n) == MapThenSumSet(LAMBDA i : 2 * i - n - 1, misses) > 0
Rising(seq) ==
    LET misses == {i \in DOMAIN seq : ~seq[i].right}
    IN misses # {} /\ Late(misses, Len(seq))

\* Below the threshold the fixture's figures stand and the events are added to its
\* count; from there on the events alone count.
FromEvents(s) ==
    LET e == events[s]
    IN [invoices |-> Len(e), rate |-> Percent(Wrong(e, DOMAIN e), Len(e)),
        declining |-> Len(e) >= TrendPoints /\ Rising(e),
        otif |-> IF s \in DOMAIN Master THEN Master[s].otif ELSE 0,
        source |-> IF s \in DOMAIN Master THEN "hybrid" ELSE "computed"]
GetProfile(s) ==
    LET e == events[s]
    IN IF s \in DOMAIN Master /\ Len(e) < Computed
       THEN [invoices |-> Master[s].invoices + Len(e), rate |-> Master[s].rate, declining |-> FALSE,
             otif |-> Master[s].otif, source |-> "fixture"]
       ELSE FromEvents(s)
HasProfile(s) == events[s] # <<>> \/ s \in DOMAIN Master

\* The colours and clusters of the profile page.
RiskLevel(p) ==
    IF p.rate >= 12 \/ p.otif < 86 THEN "red" ELSE IF p.rate >= 7 \/ p.otif < 92 THEN "amber" ELSE "green"
ClusterName(p) ==
    IF p.otif >= 94 /\ p.rate <= 5 THEN "high_reliability"
    ELSE IF p.invoices >= 5 THEN "volume_leaders"
    ELSE IF p.rate >= 10 \/ p.declining THEN "risk_watch" ELSE "new_low_volume"

-----------------------------------------------------------------------------
(* The enrichment run: outcomes are read before decisions, then a supplier's *)
(* metrics are computed from what was read and written, one after the other  *)

Metric(name, tier, count, value) == [name |-> name, tier |-> tier, count |-> count, value |-> value]
\* No rate without an outcome.
RateMetric_Always(name, n, count) == Metric(name, "learned", count, Percent(n, count))
RateMetric(name, n, count) ==
    IF count = 0 THEN Metric(name, "unavailable", 0, 0) ELSE Metric(name, "learned", count, Percent(n, count))
\* How many in which quarter is left out.
QuarterlyMetric(count) ==
    LET name == "decision_count_by_quarter"
    IN IF count = 0 THEN Metric(name, "unavailable", 0, 0) ELSE Metric(name, "learned", count, 0)
\* How much more the later half misses than the earlier one.
Newest(n, told, of) == {d \in of : Cardinality({e \in of : told[e].at > told[d].at}) < n}
Slope(told, of) ==
    LET half == Cardinality(of) \div 2
        later == Newest(Cardinality(of) - half, told, of)
    IN Percent(Wrong(told, later), Cardinality(of) - half) - Percent(Wrong(told, of \ later), half)
\* 1 is a deteriorating supplier, -1 an improving one.
TrendMetric(told, of) ==
    LET n == Cardinality(of)
    IN IF n < TrendPoints THEN Metric("trend", "unavailable", n, 0)
       ELSE Metric("trend", "learned", n,
                   IF Slope(told, of) > 10 THEN 1 ELSE IF Slope(told, of) < -10 THEN -1 ELSE 0)
ContextMetric(name, s) ==
    IF s \in DOMAIN Master THEN {Metric(name, "context", 0, Master[s].otif)} ELSE {Metric(name, "unavailable", 0, 0)}
ComputeSupplierMetrics(s, told, all) ==
    LET mine == Of(s, DOMAIN told)
        n == Cardinality(mine)
        rows == Of(s, all)
    IN {Metric("verified_decisions", "learned", n, n),
        Metric("unverified_decisions", "context", Cardinality(rows), Cardinality(rows \ mine)),
        Metric("total_decisions", "context", Cardinality(rows), Cardinality(rows)),
        RateMetric("exception_rate", Wrong(told, mine), n),
        RateMetric("accuracy", n - Wrong(told, mine), n),
        QuarterlyMetric(n),
        TrendMetric(told, mine)} \cup ContextMetric("otif_score", s)

StudyOutcomes(dry) ==
    /\ study = Off /\ studies < MaxStudies /\ studies' = studies + 1
    /\ study' = [Off EXCEPT !.phase = "read", !.dry = dry, !.outcomes = outcomes]
    /\ UNCHANGED <<scored, outcomes, events, unplaced, metrics, verdicts, listing, profiles>>
StudyDecisions ==
    /\ study.phase = "read"
    /\ study' = [study EXCEPT !.phase = "write", !.all = scored,
                              !.todo = ({SupplierOf[d] : d \in scored} \ {Unknown}) \cup DOMAIN Master]
    /\ UNCHANGED <<scored, outcomes, events, unplaced, metrics, studies, verdicts, listing, profiles>>
\* A dry run writes nothing; a failing write is a warning of the report.
WriteMetrics(s) ==
    /\ study.phase = "write" /\ s \in study.todo
    /\ study' = [study EXCEPT !.todo = @ \ {s}]
    /\ \/ UNCHANGED metrics
       \/ ~study.dry /\ metrics' = [metrics EXCEPT ![s] = ComputeSupplierMetrics(s, study.outcomes, study.all)]
    /\ UNCHANGED <<scored, outcomes, events, unplaced, studies, verdicts, listing, profiles>>
StudyDone ==
    /\ study.phase = "write" /\ study.todo = {} /\ study' = Off
    /\ UNCHANGED <<scored, outcomes, events, unplaced, metrics, studies, verdicts, listing, profiles>>

-----------------------------------------------------------------------------
(* What the profile makes of the metrics *)

IsLearned(m) == m.tier = "learned"
IsRiskBearing(m) == IsLearned(m) /\ (m.name \in {"exception_rate", "accuracy"} \/ (m.name = "trend" /\ m.value = 1))
MaxCount(ms) == CHOOSE n \in {m.count : m \in ms} : \A m \in ms : m.count <= n
Value(ms, name, absent) == IF \E m \in ms : m.name = name THEN (CHOOSE m \in ms : m.name = name).value ELSE absent
\* A tier needs learned metrics that bear risk, on enough outcomes.
RiskTier(ms) ==
    LET risk == {m \in ms : IsRiskBearing(m)}
        high == \/ Value(risk, "exception_rate", 0) >= 12 \/ Value(risk, "accuracy", 100) < 80
                \/ Value(risk, "trend", 0) = 1
        low == Value(risk, "exception_rate", 100) <= 5 /\ Value(risk, "accuracy", 100) >= 90
    IN IF ms = {} THEN "integration_pending"
       ELSE IF ~\E m \in ms : IsLearned(m) THEN "monitor"
       ELSE IF risk = {} \/ MaxCount(risk) \in 1..(MinSample - 1) THEN "insufficient_data"
       ELSE IF high THEN "high" ELSE IF low THEN "low" ELSE "medium"
IsVerifiedMetric(m) == IsLearned(m) /\ m.name \notin {"total_decisions", "unverified_decisions"}
IntelligenceDepth(ms) ==
    LET counted == {m \in ms : IsVerifiedMetric(m)}
        past == {m \in counted : m.count >= Reliable}
    IN IF counted = {} THEN "none" ELSE IF past = {} THEN "emerging"
       ELSE IF 2 * Cardinality(past) < Cardinality(counted) THEN "developing"
       ELSE IF past = counted THEN "comprehensive" ELSE "reliable"
\* Exposure is told only from a learned rate.
EconomicExposure(ms) == \E m \in ms : m.name = "exception_rate" /\ IsLearned(m)

\* GET list: the decisions are read, then the outcomes, and joined; of an invoice
\* the last decision counts.
ListDecisions ==
    /\ listing = {} /\ scored # {} /\ listing' = scored
    /\ UNCHANGED <<scored, outcomes, events, unplaced, metrics, study, studies, verdicts, profiles>>
LastOfInvoice(of) ==
    {d \in of : \A e \in of : Place[e] > Place[d] => InvoiceOf[e] # InvoiceOf[d]}
Exceptions(of) == {d \in of : ~outcomes[d].auto}
LiveMetrics(s, of) ==
    [s |-> s, invoices |-> Cardinality(LastOfInvoice(of)), exceptions |-> Cardinality(Exceptions(LastOfInvoice(of))),
     provenance |-> "graph"]
Sample(s) == [s |-> s, invoices |-> Master[s].invoices, exceptions |-> 0, provenance |-> "sample_fallback"]
BuildProfiles ==
    /\ listing # {} /\ listing' = {}
    /\ LET told == DOMAIN outcomes \cap listing
           live == {s \in Ids : Of(s, told) # {}}
       IN profiles' = {LiveMetrics(s, Of(s, told)) : s \in live} \cup {Sample(s) : s \in DOMAIN Master \ live}
    /\ UNCHANGED <<scored, outcomes, events, unplaced, metrics, study, studies, verdicts>>

Next ==
    \/ \E d \in Purchases : Score(d) \/ \E right, auto \in BOOLEAN : RecordOutcome(d, right, auto)
    \/ Reset \/ ListDecisions \/ BuildProfiles
    \/ (\E dry \in BOOLEAN : StudyOutcomes(dry)) \/ StudyDecisions \/ (\E s \in Ids : WriteMetrics(s)) \/ StudyDone
Spec == Init /\ [][Next]_supplierVars

-----------------------------------------------------------------------------
(* Properties *)

TypeOK ==
    /\ scored \subseteq Purchases /\ DOMAIN outcomes \subseteq scored /\ events \in [Ids -> Seq(OutcomeEvents)]
    /\ \A d \in DOMAIN outcomes : outcomes[d] \in [right : BOOLEAN, auto : BOOLEAN, at : 1..verdicts]
    /\ study.phase \in {"off", "read", "write"} /\ listing \subseteq Purchases

Told(s) == Of(s, DOMAIN outcomes)
PaidBy(s) == {InvoiceOf[d] : d \in Told(s)}

\* What the program says of a supplier is borne by outcomes, whatever races with
\* the runs and lists that compute it: a risk tier or an exposure by enough (at
\* least one) recorded outcomes of that supplier, the counts of a run add up
\* although they come from two reads, a list says graph only of suppliers with
\* outcomes and counts no invoice twice, and once the events are enough a profile is
\* green on fewer than seven misses in a hundred only, and never at risk beside that.
SuppliersAreTrue ==
    \A s \in Ids :
        /\ RiskTier(metrics[s]) \in {"high", "medium", "low"} => Cardinality(Told(s)) >= MinSample
        /\ EconomicExposure(metrics[s]) \/ IntelligenceDepth(metrics[s]) \notin {"none", "emerging"} => Told(s) # {}
        /\ metrics[s] # {} =>
              Value(metrics[s], "verified_decisions", 0) + Value(metrics[s], "unverified_decisions", 0)
                = Value(metrics[s], "total_decisions", 0)
        /\ \A p \in profiles : p.s = s /\ p.provenance = "graph" =>
              p.invoices \in 1..Cardinality(PaidBy(s)) /\ p.exceptions <= p.invoices
        /\ GetProfile(s).source \in {"computed", "hybrid"} /\ HasProfile(s) /\ RiskLevel(GetProfile(s)) = "green" =>
              /\ 100 * Wrong(events[s], DOMAIN events[s]) < 7 * Len(events[s])
              /\ ClusterName(GetProfile(s)) # "risk_watch"
================================================================================
