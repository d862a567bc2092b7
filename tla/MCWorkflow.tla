----------------------------- MODULE MCWorkflow -----------------------------
(* Instances of Workflow for TLC, over the tables the code holds. *)
EXTENDS Workflow, WorkflowTable

Declaring(t) == [declared |-> t, contract |-> None]
About(c) == [declared |-> None, contract |-> c]

\* One event of each type, one that only its subject classifies and one that
\* two types would take.
MCEvent ==
  {Declaring(t) : t \in DOMAIN WORKFLOWS}
  \cup {About("ClaimEvidence"), About("SourceCandidate")}

\* Every agent; none (orchestrator/cli.mjs:275); all but the one that reads
\* the sources and the browser.
MCWirings ==
  LET agents == DOMAIN CAPABILITIES
  IN {agents, {},
      agents \ {"legal-verifier", "browser-qa"}}

CONSTANTS h1, h2

\* Any event is given to the first call, to the second one that two types
\* would take.
MCCalls ==
  [h \in Handle |->
     IF h = h1 THEN MCEvent \X MCWirings
     ELSE {About("SourceCandidate")} \X {{}}]

\* Bound: two calls are made about the same event only.
MCTogether == pc[h2] # "idle" => event[h1] \in {event[h2], None}
=============================================================================
