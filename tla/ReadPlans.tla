------------------------------- MODULE ReadPlans -------------------------------
(***************************************************************************)
(* What each read endpoint of the copilot reads, in which order, and what  *)
(* it answers when a read fails: one plan per route or payload builder.    *)
(* How data are laid out, averaged, ranked and rounded is left out.        *)
(*                                                                         *)
(* A read names its source and what its failure does to the answer:        *)
(*   error    the request ends with a 5xx answer                           *)
(*   missing  it ends with a 404, as when nothing is found                 *)
(*   told     the answer says that the part is unavailable                 *)
(*   empty    the part is answered as if the source were empty             *)
(*   slow     so it is after a timeout; any other failure is an error      *)
(*   never    memory of this process or packaged data                      *)
(* `needed' reads answer 404 when they find nothing. Several queries of    *)
(* one source that fail alike and follow each other are one read.          *)
(***************************************************************************)
EXTENDS Naturals, Sequences

Read(source, failure) == [of |-> source, fails |-> failure, needed |-> FALSE]
Strict(source) == Read(source, "error")
Told(source) == Read(source, "told")
Silent(source) == Read(source, "empty")
Hasty(source) == Read(source, "slow")
Memory(source) == Read(source, "never")
Needed(read) == [of |-> read.of, fails |-> read.fails, needed |-> TRUE]

\* How a route is served: computed by the request, from a snapshot of the
\* materializer, from the tab cache that the named mutations clear, or from
\* what was computed once after the start.
Plan(via, clears, timed, reads) == [via |-> via, clears |-> clears, timed |-> timed, reads |-> reads]
Live(reads) == Plan("live", {}, FALSE, reads)
Snapshot(reads) == Plan("snapshot", {}, FALSE, reads)
TimedSnapshot(reads) == Plan("snapshot", {}, TRUE, reads)
Tab(clears, reads) == Plan("tab", clears, FALSE, reads)
Startup(reads) == Plan("startup", {}, FALSE, reads)

\* The registrations of the tab cache: the default and the COLD tier.
Standard == {"score", "learn", "reset"}
Cold == {"reset"}

----------------------------------------------------------------------------
(* Evidence. *)
ConservationSnapshot == <<Strict("counts"), Strict("decisions"), Silent("status")>>
TrustReads == <<Told("scorer")>>
LinkedDecisions == <<Strict("links"), Strict("decisions")>>
AuditTrail == Live(LinkedDecisions)
Receipts == Live(<<Memory("receipts"), Memory("receipts")>>)
ReceiptsForInvoice == Live(<<Needed(Memory("receipts"))>>)
ReceiptsForDecision == Live(<<Needed(Memory("receipts"))>>)
ChainIntegrity == Tab({"learn", "reset"}, <<Memory("receipts")>>)
AuditPackReads == <<Memory("receipts"), Memory("receipts"), Memory("receipts")>> \o ConservationSnapshot
AuditPack == TimedSnapshot(AuditPackReads)
EvidenceTemplate == Live(<<Memory("fixture")>> \o TrustReads)
Rules == Tab(Cold, <<Memory("fixture")>>)
RuleLifecycle == Live(<<Memory("fixture")>>)
CompliancePayload == <<Told("factors"), Told("history")>>
Compliance == TimedSnapshot(CompliancePayload)

(* The context of an invoice, as the evidence template shows it. Score and   *)
(* learn requests clear it when they begin, before they store anything.      *)
SupplierContext == <<Memory("fixture"), Told("enrichment")>>
OrderContext == <<Memory("fixture")>>
SimilarDecisions == <<Strict("decisions")>>
CentroidContext == <<Told("scorer")>>
InvoiceContext == <<Memory("fixture")>> \o SupplierContext \o OrderContext \o SimilarDecisions \o CentroidContext
ReceiptContext == <<Told("receipts")>>
EvidenceContext == Tab({"begun"}, InvoiceContext \o ReceiptContext)

(* Insight. *)
Fingerprint == Snapshot(<<Memory("fixture"), Told("factors")>>)
DecisionExplorer == Live(<<Strict("decisions"), Strict("verified")>>)
Similar == Live(<<Memory("fixture"), Memory("fixture")>>)
ProcessContext == Live(<<Memory("fixture")>>)
CrossGraph == Live(<<Memory("fixture"), Told("process")>>)
ProcessSignals == Live(<<Told("process")>>)

(* Performance and governance. *)
CategoryCoverage == <<Strict("verified")>>
SummaryReads == <<Strict("decisions"), Strict("verified"), Strict("correct"), Strict("approvals")>>
CurrentQuality == <<Strict("verified"), Strict("correct")>>
Trajectory == Live(<<Strict("checkpoints"), Strict("verified")>> \o CurrentQuality)
WhatIf == Live(CurrentQuality \o CurrentQuality \o CategoryCoverage)
Summary == TimedSnapshot(SummaryReads)
GovernanceSnapshot == ConservationSnapshot
ScreeningReads == <<Memory("receipts"), Memory("receipts"), Memory("receipts")>> \o GovernanceSnapshot
ComplianceScreening == TimedSnapshot(ScreeningReads)
ComplianceGaps == Live(<<Memory("receipts")>>)
ConservationProof == Live(GovernanceSnapshot \o <<Memory("receipts"), Memory("receipts")>>)
SoxReadiness == Live(ScreeningReads)
Rationalization == Live(<<Memory("fixture")>>)
RationalizationSupplier == Live(<<Needed(Memory("fixture"))>>)

(* Suppliers' payments, warnings, groups and simulated disruptions. *)
Profiles == <<Memory("fixture"), Memory("profiles")>>
PaymentStrategy == Live(Profiles)
PaymentBehavior == Live(<<Memory("fixture"), Needed(Memory("profiles"))>>)
EarlyWarnings == Live(Profiles)
TrendSignals == Live(<<Memory("fixture"), Needed(Memory("profiles"))>>)
Clusters == Live(Profiles)
Similarity == Live(<<Memory("fixture"), Needed(Memory("profiles"))>>)
SimulateDisruption == Live(<<Memory("profiles")>>)
Scenarios == Live(<<Needed(Memory("fixture"))>>)
LeadTimes == Live(<<Memory("fixture")>>)
OptimizerExport == Live(<<Memory("profiles"), Told("scorer")>>)

(* Discoveries, process variants and the control tower. *)
Discoveries == Tab(Cold, <<Memory("fixture")>>)
DiscoveryPropagation == Live(<<Needed(Memory("fixture"))>>)
Variants == Live(<<Silent("process"), Memory("fixture")>>)
Leakage == Live(<<Strict("factors")>>)
Intents == Tab(Cold, <<Memory("fixture")>>)
Classify == Live(<<Needed(Memory("fixture"))>>)
ControlTowerQueue == Live(<<Strict("fixture")>>)

(* The explorer of factors and centroids. *)
DkWeights == Live(<<Strict("scorer"), Told("weights")>>)
FactorRanking == Live(<<Strict("scorer"), Told("weights")>>)
Contribution == Live(<<Strict("scorer"), Needed(Strict("decisions"))>>)
Drift == Live(<<Strict("scorer")>>)
AllCentroids == Live(<<Strict("scorer")>>)
CentroidCell == Live(<<Read("scorer", "missing")>>)
CentroidDrift == Live(<<Told("checkpoints")>>)
ExplainDecision == Live(<<Needed(Strict("decisions")), Told("enrichment"), Told("weights"), Strict("scorer")>>)

(* The audit export and the preview. The observations that a queue request    *)
(* writes, one of each invoice it shows, are read by no plan and left out.    *)
ExportReads ==
    <<Strict("decisions"), Strict("verified"), Strict("correct")>> \o CurrentQuality
    \o <<Told("status"), Told("audit"), Told("trajectory"), Told("fingerprint")>>
AuditExport == Live(ExportReads)
AuditVerify == Live(<<Told("audit")>>)
MergedDecisions == <<Silent("verified"), Hasty("decisions")>>
RecentScores == MergedDecisions \o <<Strict("scorer")>>
PreviewQueue == Snapshot(RecentScores)
PreviewConservation == Snapshot(RecentScores \o <<Strict("status")>>)
PreviewSuppliers == Snapshot(<<Strict("decisions"), Strict("verified")>>)
PreviewTab == Tab(Cold, <<Memory("simulation")>>)

(* The framework's graph routes and the demonstration beats. *)
CentroidEvolution == Live(<<Strict("decisions")>>)
OlsStatus == Live(<<Strict("decisions"), Strict("decisions"), Silent("state")>>)
AutoApproveStats == Live(<<Strict("decisions")>>)
GraphQuery == Live(<<Strict("decisions")>>)
CheckpointList == Live(<<Told("checkpoints")>>)
FrozenTwin == Live(<<Told("decisions"), Told("verified")>>)
SelectedTwin == Live(<<Silent("decisions"), Silent("verified"), Strict("twin")>>)
CounterfactualRoute == Live(<<Needed(Read("decisions", "missing")), Strict("scorer")>>)
Confidence == Live(<<Strict("scorer")>>)

(* What is computed once, and the remaining tabs. *)
FinancialImpact == Startup(<<Strict("decisions"), Strict("receipts")>>)
FactorAnalysis == Startup(<<Strict("decisions")>>)
CohortStatus == Tab(Standard, <<Told("instrument"), Told("verified")>>)
NoveltyStatus == Tab({"score", "reset"}, <<Memory("novelty")>>)
LearningGate == Tab(Cold, <<Memory("fixture")>>)
ConservationStatus == Snapshot(<<Strict("counts")>>)
\* The snapshot has no part of these names: they are always computed.
FingerprintRoute == Live(<<Strict("scorer")>>)
TrajectoryRoute == Live(<<Strict("scorer")>>)

\* What one build of the snapshot reads for all its parts: the rows first, then
\* the counts, each once, the receipts and the extinction events.
Rows == {"decisions", "verified"}
SharedReads ==
    <<Strict("decisions"), Strict("verified"), Strict("counts"), Strict("correct"), Memory("receipts"),
      Told("history")>>

(* The ledger, enrichment, compliance and situations. *)
Timeline == Live(<<Strict("proposals"), Strict("proposals"), Strict("events")>>)
LedgerSummary == Live(<<Strict("proposals"), Strict("proposals"), Strict("events")>>)
EnrichmentSummary == Live(<<Told("enrichment")>>)
EnrichmentSupplier == Live(<<Needed(Told("enrichment"))>>)
ComplianceReport == Live(<<Strict("decisions"), Strict("verified")>>)

\* The situation of a decision: the nodes around its invoice, each enriched, and
\* the most similar decision. The traversal as a whole has a deadline, and the
\* answer says when it was missed.
PreparedContext == <<Strict("decisions"), Memory("fixture")>>
GraphContext == <<Strict("context")>>
EnrichedNodes == <<Strict("enrichment")>>
SimilarInvoice == <<Strict("similar")>>
Deadline == <<Told("traversal")>>
CategoryTraversal == SimilarInvoice \o EnrichedNodes
Traversal == PreparedContext \o GraphContext \o CategoryTraversal
Situation == Live(<<Strict("decisions"), Told("context")>> \o Traversal \o Deadline \o <<Told("weights")>>)

(* What the process and the fixtures know of suppliers, and what is learnt.   *)
SupplierGroups == Live(<<Memory("fixture")>>)
DecliningSuppliers == Live(<<Memory("profiles")>>)
SupplierHeatmap == Live(<<Memory("fixture")>>)
SupplierCorrelations == Live(<<Memory("fixture")>>)
SupplierIntelligence == <<Strict("enrichment"), Memory("fixture"), Strict("verified")>>
SupplierProfile == Live(<<Memory("profiles")>> \o SupplierIntelligence \o <<Memory("profiles")>>)
SupplierHistory == Live(<<Memory("profiles"), Memory("profiles")>>)
InvestigationBudget == Live(<<Memory("budget")>>)
(* The routes of the application. *)
Plans ==
    [audit_trail |-> AuditTrail, receipts |-> Receipts, receipts_for_invoice |-> ReceiptsForInvoice,
     receipts_for_decision |-> ReceiptsForDecision, chain_integrity |-> ChainIntegrity,
     audit_pack |-> AuditPack, evidence_template |-> EvidenceTemplate, evidence_context |-> EvidenceContext, rules |-> Rules,
     rule_lifecycle |-> RuleLifecycle, compliance |-> Compliance, fingerprint |-> Fingerprint,
     decision_explorer |-> DecisionExplorer, similar |-> Similar, process_context |-> ProcessContext,
     cross_graph |-> CrossGraph, process_signals |-> ProcessSignals, trajectory |-> Trajectory,
     what_if |-> WhatIf, summary |-> Summary, compliance_screening |-> ComplianceScreening,
     compliance_gaps |-> ComplianceGaps, conservation_proof |-> ConservationProof,
     sox_readiness |-> SoxReadiness, rationalization |-> Rationalization,
     rationalization_supplier |-> RationalizationSupplier, payment_strategy |-> PaymentStrategy,
     payment_behavior |-> PaymentBehavior, early_warnings |-> EarlyWarnings, trend_signals |-> TrendSignals,
     clusters |-> Clusters, similarity |-> Similarity, simulate_disruption |-> SimulateDisruption,
     scenarios |-> Scenarios, lead_times |-> LeadTimes, optimizer_export |-> OptimizerExport,
     discoveries |-> Discoveries, discovery_propagation |-> DiscoveryPropagation, variants |-> Variants,
     leakage |-> Leakage, intents |-> Intents, classify |-> Classify,
     control_tower_queue |-> ControlTowerQueue, dk_weights |-> DkWeights, factor_ranking |-> FactorRanking,
     contribution |-> Contribution, drift |-> Drift, all_centroids |-> AllCentroids,
     centroid_cell |-> CentroidCell, centroid_drift |-> CentroidDrift, explain_decision |-> ExplainDecision,
     audit_export |-> AuditExport, audit_verify |-> AuditVerify, preview_queue |-> PreviewQueue,
     preview_conservation |-> PreviewConservation, preview_suppliers |-> PreviewSuppliers,
     preview_tab |-> PreviewTab, centroid_evolution |-> CentroidEvolution, ols_status |-> OlsStatus,
     auto_approve_stats |-> AutoApproveStats, graph_query |-> GraphQuery, checkpoint_list |-> CheckpointList,
     frozen_twin |-> FrozenTwin, selected_twin |-> SelectedTwin,
     counterfactual_route |-> CounterfactualRoute, confidence |-> Confidence,
     financial_impact |-> FinancialImpact, factor_analysis |-> FactorAnalysis,
     cohort_status |-> CohortStatus, novelty_status |-> NoveltyStatus, learning_gate |-> LearningGate,
     conservation_status |-> ConservationStatus, fingerprint_route |-> FingerprintRoute,
     trajectory_route |-> TrajectoryRoute, timeline |-> Timeline, ledger_summary |-> LedgerSummary,
     enrichment_summary |-> EnrichmentSummary, enrichment_supplier |-> EnrichmentSupplier,
     compliance_report |-> ComplianceReport, situation |-> Situation,
     supplier_groups |-> SupplierGroups, declining_suppliers |-> DecliningSuppliers,
     supplier_heatmap |-> SupplierHeatmap, supplier_correlations |-> SupplierCorrelations,
     supplier_profile |-> SupplierProfile, supplier_history |-> SupplierHistory,
     investigation_budget |-> InvestigationBudget]
=============================================================================
