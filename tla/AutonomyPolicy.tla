--------------------------- MODULE AutonomyPolicy ---------------------------
(***************************************************************************)
(* The autonomy policy of agent/policy: the ledger of governance grants,   *)
(* what of it is in force at an instant, and whether a proposal may be     *)
(* carried out without a person deciding on it.                            *)
(*                                                                         *)
(* A grant's id is its position in the ledger.  Instants are numbers.  A   *)
(* proposal is its id; Content[p] says of its record what the policy asks. *)
(* Paths are whole: "docs/" in a grant is the set Docs here.               *)
(***************************************************************************)
EXTENDS Integers, Sequences, FiniteSets

CONSTANTS
  Proposal,
  Content,      \* Content[p] is the record of proposal p
  Person,
  AgentName,
  Producer,     \* Producer[p] is the agent that produces p
  Path,
  Sources,      \* data/sources.json, the one dataset with grantable fields
  Docs,         \* the paths under docs/
  GrantLedger,  \* the path of grants.jsonl, a tracked file
  NoField,      \* the field of a target that is a path and no more
  Body          \* the lines somebody may want in the ledger, dates aside

Name == Person \cup AgentName

\* AUTOMATIC_ELIGIBLE_PATHS.  Every other path is refused.
Eligible == {Sources} \cup Docs

GrantableField == {"url_status", "last_retrieved", "retrieved_at", "checksum",
  "content_hash", "recheck_interval", "freshness_window", "url"}
NeverField == {"tier", "type", "role", "supports", "last_verified",
  "verification_note", "requires_verification", "reference_gap", "gap_note",
  "title", "publisher", "celex"}
Field == GrantableField \cup NeverField

\* The categories protocol section 20 calls eligible; the others, which no
\* grant may name, are "reserved".
Automatable == {"source_metadata_maintenance", "retrieval_metadata",
  "source_url_correction", "machine_derived_field",
  "governed_metadata_maintenance"}
Category == Automatable \cup {"reserved"}

\* riskRank, up to the first rank that is above every ceiling.
Risk == 0..2
Low == 1

\* `ops`: the operations, each the file it edits and the field its target
\* names.  `also`: paths its affected entities name besides.  `data`: a
\* DataProposal on the source register, against an ImplementationProposal.
\* `reserved`: one of the tests for a category reserved to a person matches.
\* `read`: retrieved_and_read.  `minor`: substantive is false.  `sound`: the
\* preflight gates and the conditions that ask the record alone hold.
RecordType ==
  [ops : SUBSET [file : Path, field : Field \cup {NoField}],
   also : SUBSET Path, data : BOOLEAN, reserved : BOOLEAN, read : BOOLEAN,
   minor : BOOLEAN, risk : Risk, sound : BOOLEAN]

\* A line that revokes grants nothing, and one that enables revokes none.
BodyType ==
  [action : {"enable", "revoke"}, revokes : Nat, categories : SUBSET Category,
   paths : SUBSET Path, fields : SUBSET Field, risk : Risk, by : Name]

ASSUME RecordsAssumption ==
  /\ Content \in [Proposal -> RecordType]
  /\ Producer \in [Proposal -> AgentName]

ASSUME PathsAssumption ==
  /\ Eligible \cup {GrantLedger} \subseteq Path
  /\ Sources \notin Docs
  /\ GrantLedger \notin Eligible
  /\ NoField \notin Field

ASSUME BodyAssumption == Body \subseteq BodyType

VARIABLES
  grants,   \* the lines of grants.jsonl
  clock,    \* now
  store     \* the proposals a reader of agent/records finds

policyVars == <<grants, clock, store>>

-----------------------------------------------------------------------------
(* What a proposal is                                                      *)

Files(p) == {op.file : op \in Content[p].ops}
FieldsOf(p) == {op.field : op \in Content[p].ops}

\* permittedFiles
Permitted(p) == Files(p) \cup Content[p].also

\* categoriseProposal, strictest first.
Categorise(p) ==
  LET c == Content[p]
  IN  CASE c.reserved -> "reserved"
        [] ~c.reserved /\ c.data ->
             IF c.read /\ FieldsOf(p) \cap {"url", "url_status"} # {}
               THEN "source_url_correction"
             ELSE IF FieldsOf(p) \cap {"last_retrieved", "checksum"} # {}
               THEN "retrieval_metadata"
             ELSE IF c.minor THEN "source_metadata_maintenance"
             ELSE "reserved"
        [] ~c.reserved /\ ~c.data ->
             IF Permitted(p) \subseteq Docs THEN "machine_derived_field"
                                            ELSE "reserved"

\* humanReviewTriggers: a path of the legal record needs `substantive: false`.
Triggered(p) ==
  Categorise(p) = "reserved" \/ (Sources \in Permitted(p) /\ ~Content[p].minor)

-----------------------------------------------------------------------------
(* What is granted                                                         *)

KnownAgents == {Producer[p] : p \in store}

\* validateGrant, run when a line is written and each time it is read.
Valid(g, agents) ==
  /\ g.by \notin agents
  /\ clock < g.until
  /\ \/ g.action = "revoke"
     \/ /\ g.categories # {} /\ g.categories \subseteq Automatable
        /\ g.paths # {} /\ g.paths \subseteq Eligible
        /\ g.fields \subseteq GrantableField
        /\ Sources \in g.paths => g.fields # {}
        /\ g.risk <= Low

\* Mutant: a revocation is re-validated as a grant is, and lapses.
RevokedUntilItLapses ==
  {grants[i].revokes : i \in {j \in DOMAIN grants :
     grants[j].action = "revoke" /\ Valid(grants[j], KnownAgents)}}

\* Every line that revokes counts, wherever it stands and whether or not it
\* would be writable today.
Revoked == {grants[i].revokes : i \in {j \in DOMAIN grants :
                                         grants[j].action = "revoke"}}

\* activeGrants
Active ==
  {i \in DOMAIN grants : /\ grants[i].action = "enable"
                         /\ i \notin Revoked
                         /\ Valid(grants[i], KnownAgents)}

\* policyInForce: what active grants name, joined; the lowest risk of all.
InForce ==
  [grants |-> Active,
   categories |-> UNION {grants[i].categories : i \in Active},
   paths |-> UNION {grants[i].paths : i \in Active},
   fields |-> UNION {grants[i].fields : i \in Active},
   risks |-> {r \in 0..Low : \A i \in Active : r <= grants[i].risk}]

\* fieldsPermitted: by the field each target names, whatever the category.
FieldsPermitted(p, policy) == \A op \in Content[p].ops :
  /\ op.field \notin NeverField
  /\ op.file = Sources => op.field \in policy.fields

\* autonomyGates: what is asked before anything is measured.  That a path of
\* the legal record be named exactly adds nothing where paths are whole.
AutonomyGates(p, policy) ==
  /\ policy.grants # {}
  /\ p \in store
  /\ Content[p].sound
  /\ Content[p].risk \in policy.risks
  /\ Permitted(p) # {} /\ Permitted(p) \subseteq policy.paths
  /\ Categorise(p) \in policy.categories \cap Automatable
  /\ FieldsPermitted(p, policy)
  /\ ~Triggered(p)
=============================================================================
