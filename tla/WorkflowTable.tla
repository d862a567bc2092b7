--------------------------- MODULE WorkflowTable ---------------------------
(***************************************************************************)
(* The two tables the Orchestrator routes by: the ten workflow types of    *)
(* agent/orchestrator/workflows.mjs, and what each specialist may produce  *)
(* and is able to read, of agent/orchestrator/capabilities.mjs.            *)
(***************************************************************************)
EXTENDS TLC

Proposals == {"DataProposal", "ArchitectureProposal", "EditorialProposal",
              "UXProposal", "ImplementationProposal"}

\* A stage is dispatched to an agent, or a gate the Orchestrator performs, or
\* a person.
dispatch(stage, agent, needs) ==
  [stage |-> stage, kind |-> "dispatch", who |-> agent, needs |-> needs,
   required |-> TRUE]
optional(stage, agent, needs) ==
  [dispatch(stage, agent, needs) EXCEPT !.required = FALSE]
gate(name) ==
  [stage |-> name, kind |-> "gate", who |-> name, needs |-> {},
   required |-> TRUE]
human ==
  [stage |-> "human_review", kind |-> "human", who |-> "human", needs |-> {},
   required |-> TRUE]

\* alone: the type completes without a person when nothing was proposed.
workflow(entry, stages, forbidden, alone) ==
  [entry_contracts |-> entry, stages |-> stages,
   same_agent_forbidden |-> forbidden, alone |-> alone]

Integrated == {"DataProposal", "ClaimEvidence", "DataGap", "ApprovalRequest"}

WORKFLOWS ==
  [NEW_SOURCE |-> workflow(
     {"SourceCandidate"},
     <<dispatch("verify", "legal-verifier", {"VerificationRecord"}),
       dispatch("integrate", "verification-integrator", Integrated),
       gate("provenance"), gate("conflict"), human>>,
     {}, FALSE),
   VERIFICATION_REQUIRED |-> workflow(
     {"DataGap", "ClaimEvidence"},
     <<dispatch("scout", "source-scout", {"SourceCandidate", "DataGap"}),
       dispatch("verify", "legal-verifier", {"VerificationRecord"}),
       dispatch("integrate", "verification-integrator", Integrated),
       gate("provenance"), human>>,
     {{"scout", "verify"}}, TRUE),
   LEGAL_CHANGE |-> workflow(
     {"RegulatoryChange", "SourceCandidate"},
     <<dispatch("detect", "regulatory-change-detector", {"RegulatoryChange"}),
       dispatch("verify", "legal-verifier", {"VerificationRecord"}),
       dispatch("assess_impact", "regulatory-change-detector", {"ImpactAssessment"}),
       dispatch("editorial_impact", "editorial", {"EditorialProposal", "ApprovalRequest"}),
       gate("conflict"), human>>,
     {{"detect", "verify"}}, FALSE),
   DATA_GAP |-> workflow(
     {"DataGap", "KnowledgeGap"},
     <<dispatch("assess", "data-depth", {"DataGap", "KnowledgeGap"}),
       dispatch("route", "proposal-router", {"DataProposal", "ApprovalRequest"}),
       gate("provenance"), human>>,
     {}, TRUE),
   ARCHITECTURE_GAP |-> workflow(
     {"KnowledgeGap"},
     <<dispatch("model", "knowledge-architect",
                {"KnowledgeGap", "ArchitectureProposal", "ApprovalRequest"}),
       gate("conflict"), human>>,
     {}, FALSE),
   EDITORIAL_IMPACT |-> workflow(
     {"ImpactAssessment", "RegulatoryChange", "DataProposal", "VerificationRecord"},
     <<dispatch("read", "editorial", {"EditorialProposal", "ApprovalRequest"}),
       gate("provenance"), human>>,
     {}, TRUE),
   UX_FINDING |-> workflow(
     {"UXProposal", "QAResult"},
     <<dispatch("audit", "ux-auditor", {"UXProposal", "ApprovalRequest"}),
       optional("measure", "browser-qa", {"QAResult"}), human>>,
     {}, TRUE),
   IMPLEMENTATION_REQUEST |-> workflow(
     Proposals,
     <<gate("approval"), gate("scope"), gate("autonomy"), gate("rollback"),
       dispatch("implement", "implementation-qa", {"ChangeRecord", "QAResult"}),
       optional("browser_qa", "browser-qa", {"QAResult"}), human>>,
     {}, FALSE),
   QA_FAILURE |-> workflow(
     {"QAResult"},
     <<dispatch("assess", "implementation-qa", {"QAResult"}),
       gate("rollback"), human>>,
     {}, FALSE),
   POST_DEPLOYMENT_EVENT |-> workflow(
     {"AgentObservation", "WebsiteChange", "QAResult"},
     <<dispatch("measure", "health-monitor", {"AgentObservation"}),
       optional("browser_check", "browser-qa", {"QAResult"}), human>>,
     {}, TRUE)]

capability(produces, consumes) == [produces |-> produces, consumes |-> consumes]

CAPABILITIES ==
  "source-scout" :> capability({"SourceCandidate", "DataGap"}, {})
  @@ "legal-verifier" :> capability({"VerificationRecord"}, {"SourceCandidate", "RegulatoryChange"})
  @@ "verification-integrator" :> capability(Integrated, {"VerificationRecord", "SourceCandidate"})
  @@ "regulatory-change-detector" :> capability({"RegulatoryChange", "ImpactAssessment", "DataGap"},
                     {"SourceCandidate", "VerificationRecord"})
  @@ "data-depth" :> capability({"KnowledgeGap", "DataGap"}, {})
  @@ "proposal-router" :> capability({"DataProposal", "ApprovalRequest"}, {"DataGap", "KnowledgeGap"})
  @@ "knowledge-architect" :> capability({"KnowledgeGap", "ArchitectureProposal", "ApprovalRequest"},
                     {"KnowledgeGap", "DataGap"})
  @@ "editorial" :> capability({"EditorialProposal", "ApprovalRequest"},
                     {"RegulatoryChange", "ImpactAssessment", "VerificationRecord",
                      "DataProposal"})
  @@ "ux-auditor" :> capability({"UXProposal", "ApprovalRequest"}, {"QAResult"})
  @@ "browser-qa" :> capability({"QAResult"}, {})
  @@ "implementation-qa" :> capability({"ImplementationProposal", "QAResult", "ChangeRecord",
                      "WebsiteChange"}, Proposals)
  @@ "health-monitor" :> capability({"AgentObservation"}, {})
=============================================================================
