--------------------------- MODULE DecisionLedger ---------------------------
(***************************************************************************)
(* The decision ledger of agent/implement: the record store that agents    *)
(* write, the append-only file that people's decisions go to, the one      *)
(* function that appends to it (recordDecision) and the one that reads an  *)
(* approval out of it (deriveApproval).                                    *)
(*                                                                         *)
(* recordDecision is synchronous JavaScript, so nothing interleaves with   *)
(* it inside one OS process; but the command line and the Control Room     *)
(* server are two processes on one file, and recordDecision touches the    *)
(* disk three times: it reads the records, it reads and verifies the       *)
(* ledger, it appends.  Each of the three is an action here, so two        *)
(* processes interleave between them as the file system allows.            *)
(*                                                                         *)
(* A proposal is its id; its content is a version number, standing for     *)
(* proposalFingerprint (equal versions, equal fingerprints).  An entry's   *)
(* hash is its position in the file: `after` stands for seq and            *)
(* prev_entry_sha256 together, the number of entries its writer had        *)
(* verified when it built the entry.                                       *)
(***************************************************************************)
EXTENDS Naturals, Sequences, FiniteSets

CONSTANTS
  Proposal,     \* proposal ids
  Person,       \* names of people who may decide
  AgentName,    \* names of agents
  Producer,     \* Producer[p] is the agent that produces proposal p
  Writer,       \* OS processes that record decisions
  NoDraft,      \* a writer that is deciding nothing
  MaxVersion,   \* bound: contents a proposal may take
  MaxRequests,  \* bound: ApprovalRequests that may name one proposal
  MaxEntries,   \* bound: no decision is begun once the ledger is this long
  TornWrites    \* whether a process may die in the middle of an append

ASSUME NamesAssumption ==
  /\ Producer \in [Proposal -> AgentName]
  /\ Person \cap AgentName = {}

ASSUME BoundsAssumption ==
  /\ MaxVersion \in Nat \ {0}
  /\ MaxRequests \in Nat
  /\ MaxEntries \in Nat
  /\ TornWrites \in BOOLEAN

ASSUME WriterAssumption == IsFiniteSet(Writer)

VARIABLES
  store,      \* store[p]: the version of p a reader of agent/records finds,
              \* 0 for none
  latest,     \* latest[p]: the version the producing agent last wrote
  requests,   \* requests[p]: how many ApprovalRequests there name p
  ledger,     \* the lines of decisions.jsonl, in file order
  tail,       \* what the file ends in: a "line", an "entry" whose newline was
              \* not written any more, or "part" of one
  garbled,    \* it holds a line that cannot be parsed, with an end
  pc,         \* pc[w]: how far w is in recordDecision
  draft,      \* draft[w]: the entry w is building
  recorded    \* how many decisions have been reported to a person as recorded

vars == <<store, latest, requests, ledger, tail, garbled, pc, draft, recorded>>

Version == 1 .. MaxVersion
Outcome == {"granted", "denied"}
Name == Person \cup AgentName
Written == {"line", "entry", "part"}

Entry == [proposal : Proposal, version : Version, outcome : Outcome,
          by : Name, after : Nat]

ASSUME DraftAssumption == NoDraft \notin Entry

TypeOK ==
  /\ store \in [Proposal -> 0 .. MaxVersion]
  /\ latest \in [Proposal -> 0 .. MaxVersion]
  /\ requests \in [Proposal -> 0 .. MaxRequests]
  /\ ledger \in Seq(Entry)
  /\ tail \in Written
  /\ garbled \in BOOLEAN
  /\ tail = "entry" => ledger # <<>>
  /\ pc \in [Writer -> {"idle", "checked", "verified"}]
  /\ draft \in [Writer -> Entry \cup {NoDraft}]
  /\ \A w \in Writer : pc[w] # "idle" => draft[w] \in Entry
  /\ recorded \in Nat

-----------------------------------------------------------------------------
(***************************************************************************)
(* Reading                                                                 *)
(***************************************************************************)

\* The agents a reader of the record store knows of.
KnownAgents == {Producer[p] : p \in {q \in Proposal : store[q] # 0}}

DecisionsOn(p) == {i \in DOMAIN ledger : ledger[i].proposal = p}

LastDecision(p) ==
  ledger[CHOOSE i \in DecisionsOn(p) : \A j \in DecisionsOn(p) : j <= i]

\* The content an approval of p would be about: the store's, or the copy the
\* last decision carries when the store has none.
CurrentVersion(p) == IF store[p] # 0 THEN store[p] ELSE LastDecision(p).version

\* Mutant: the content granted is never compared with the content there is.
DeriveApprovalIgnoringEdits(p) ==
  CASE DecisionsOn(p) = {} -> "pending"
    [] OTHER -> LastDecision(p).outcome

\* deriveApproval.  void_unknown_proposal and void_simulated need an entry
\* that no caller of recordDecision outside the tests writes.
DeriveApproval(p) ==
  IF DecisionsOn(p) = {}
    THEN IF requests[p] = 0 THEN "no_request" ELSE "pending"
    ELSE LET d == LastDecision(p)
         IN CASE d.outcome = "denied" -> "denied"
              [] d.outcome # "denied" /\ d.by = Producer[p] -> "void_self_approved"
              [] d.outcome # "denied" /\ d.by # Producer[p] ->
                   IF d.version = CurrentVersion(p) THEN "granted"
                                                    ELSE "void_scope_changed"

\* Entry i continues the chain: its seq is i and its prev_entry_sha256 is the
\* hash of entry i - 1.
Linked(i) == ledger[i].after = i - 1

Unlinked == {i \in DOMAIN ledger : ~Linked(i)}

\* Mutant: what cannot be parsed is skipped like a blank line.
VerifiesSkippingPartialLine == Unlinked = {}

\* verifyLedger finds no structural problem.
Verifies == ~garbled /\ tail # "part" /\ Unlinked = {}

\* What a reader that verifies the ledger first, as dispatch and the release
\* gate do, holds of p.  Others (recordDecision's callers before they decide,
\* preflight, the autonomy engine) take DeriveApproval of whatever parses.
Standing(p) == IF Verifies THEN DeriveApproval(p) ELSE "unreadable"

-----------------------------------------------------------------------------
(***************************************************************************)
(* The agents' side: records appear, change and are lost                   *)
(***************************************************************************)

Init ==
  /\ store = [p \in Proposal |-> 0]
  /\ latest = [p \in Proposal |-> 0]
  /\ requests = [p \in Proposal |-> 0]
  /\ ledger = <<>>
  /\ tail = "line"
  /\ garbled = FALSE
  /\ pc = [w \in Writer |-> "idle"]
  /\ draft = [w \in Writer |-> NoDraft]
  /\ recorded = 0

\* The producing agent runs and writes p with the content v.  The record goes
\* to a file named by the run's trace id, which is random, and readers keep the
\* record of the file that sorts last: v, or what they found before.
Propose(p, v) ==
  /\ latest' = [latest EXCEPT ![p] = v]
  /\ \/ store' = [store EXCEPT ![p] = v]
     \/ store[p] # 0 /\ store' = store
  /\ UNCHANGED <<requests, ledger, tail, garbled, pc, draft, recorded>>

\* The producing agent asks for a decision on p.
RaiseRequest(p) ==
  /\ store[p] # 0
  /\ requests[p] < MaxRequests
  /\ requests' = [requests EXCEPT ![p] = @ + 1]
  /\ UNCHANGED <<store, latest, ledger, tail, garbled, pc, draft, recorded>>

\* agent/records is git-ignored and regenerable: a fresh clone has none of it.
LoseRecords ==
  /\ \E p \in Proposal : store[p] # 0
  /\ store' = [p \in Proposal |-> 0]
  /\ latest' = [p \in Proposal |-> 0]
  /\ requests' = [p \in Proposal |-> 0]
  /\ UNCHANGED <<ledger, tail, garbled, pc, draft, recorded>>

-----------------------------------------------------------------------------
(***************************************************************************)
(* recordDecision                                                          *)
(***************************************************************************)

\* What recordDecision asks of the records before it looks at the ledger.
MayDecide(p, who) ==
  /\ store[p] # 0
  /\ who # Producer[p]
  /\ who \notin KnownAgents
  /\ requests[p] # 0

\* Reads the records and passes the checks on them.
CheckRecords(w, p, outcome, who) ==
  /\ pc[w] = "idle"
  /\ Len(ledger) < MaxEntries
  /\ MayDecide(p, who)
  /\ pc' = [pc EXCEPT ![w] = "checked"]
  /\ draft' = [draft EXCEPT ![w] =
       [proposal |-> p, version |-> store[p], outcome |-> outcome,
        by |-> who, after |-> 0]]
  /\ UNCHANGED <<store, latest, requests, ledger, tail, garbled, recorded>>

\* Mutant: the ledger is read for its last line and not verified.
ReadLedgerUnverified(w) ==
  /\ pc[w] = "checked"
  /\ pc' = [pc EXCEPT ![w] = "verified"]
  /\ draft' = [draft EXCEPT ![w].after = Len(ledger)]
  /\ UNCHANGED <<store, latest, requests, ledger, tail, garbled, recorded>>

\* Reads the ledger; it verifies, and the entry is built on its last line.
ReadLedger(w) ==
  /\ pc[w] = "checked"
  /\ Verifies
  /\ pc' = [pc EXCEPT ![w] = "verified"]
  /\ draft' = [draft EXCEPT ![w].after = Len(ledger)]
  /\ UNCHANGED <<store, latest, requests, ledger, tail, garbled, recorded>>

\* Mutant: the entry is dropped and the process goes on deciding.
AbandonDraftOnly(w) ==
  /\ pc' = pc
  /\ draft' = [draft EXCEPT ![w] = NoDraft]

\* w is done with its decision, recorded or not.
Abandon(w) ==
  /\ pc' = [pc EXCEPT ![w] = "idle"]
  /\ draft' = [draft EXCEPT ![w] = NoDraft]

\* Reads the ledger; it does not verify, and LedgerIntegrityError is thrown.
RefuseLedger(w) ==
  /\ pc[w] = "checked"
  /\ ~Verifies
  /\ Abandon(w)
  /\ UNCHANGED <<store, latest, requests, ledger, tail, garbled, recorded>>

\* The text of entry e reaches the file: the line, all of it but the newline,
\* or a part.  After a last line without an end the text is glued to it, and
\* the two are one line nobody can parse.
Write(e, upto) ==
  IF tail = "line"
    THEN /\ ledger' = IF upto = "part" THEN ledger ELSE Append(ledger, e)
         /\ tail' = upto
         /\ UNCHANGED garbled
    ELSE /\ ledger' = IF tail = "entry" THEN SubSeq(ledger, 1, Len(ledger) - 1)
                                       ELSE ledger
         /\ tail' = IF upto = "line" THEN "line" ELSE "part"
         /\ garbled' = (garbled \/ upto = "line")

\* Appends whatever the file has become since.
AppendEntry(w) ==
  /\ pc[w] = "verified"
  /\ Write(draft[w], "line")
  /\ recorded' = recorded + 1
  /\ Abandon(w)
  /\ UNCHANGED <<store, latest, requests>>

\* The process dies before its append, or in the middle of it.
Die(w) ==
  /\ pc[w] # "idle"
  /\ \/ UNCHANGED <<ledger, tail, garbled>>
     \/ /\ TornWrites /\ pc[w] = "verified"
        /\ \E upto \in {"part", "entry"} : Write(draft[w], upto)
  /\ Abandon(w)
  /\ UNCHANGED <<store, latest, requests, recorded>>

-----------------------------------------------------------------------------

Agents ==
  \/ \E p \in Proposal, v \in Version : Propose(p, v)
  \/ \E p \in Proposal : RaiseRequest(p)
  \/ LoseRecords

Deciding ==
  \E w \in Writer :
    \/ \E p \in Proposal, outcome \in Outcome, who \in Name :
         CheckRecords(w, p, outcome, who)
    \/ ReadLedger(w)
    \/ RefuseLedger(w)
    \/ AppendEntry(w)
    \/ Die(w)

Next == Agents \/ Deciding

Spec == Init /\ [][Next]_vars

-----------------------------------------------------------------------------
(***************************************************************************)
(* Properties                                                              *)
(***************************************************************************)

\* In this step a process appends a decision of p with that outcome, as a line
\* of its own.
Recorded(p, outcome) ==
  \E w \in Writer :
    /\ pc[w] = "verified"
    /\ draft[w].proposal = p /\ draft[w].outcome = outcome
    /\ ledger' = Append(ledger, draft[w])

(* A fork of the hash chain never spreads.  Two processes that verified    *)
(* the same file both append, and the second entry no longer continues the *)
(* first; from then on recordDecision refuses, so the entries off the      *)
(* chain are at most the writers that had already verified.                *)
ForkBounded == Cardinality(Unlinked) <= Cardinality(Writer)

(* A decision reported to a person as recorded is a line of the ledger     *)
(* that a reader can parse, but for the few that a crash takes with it: a  *)
(* line that cannot be parsed stops whoever has not verified the file yet, *)
(* so of one or two processes' decisions at most one is lost.              *)
LossBounded == 2 * (recorded - Len(ledger)) <= Cardinality(Writer) + 1

(* An approval never follows an edit.  For a reader that verifies the      *)
(* ledger first, a proposal becomes granted only by a process recording a  *)
(* grant of exactly the content it now has, or, with nothing recorded, by  *)
(* its content going back to what the last decision granted: the record    *)
(* itself, or the copy in the decision once the records are lost.          *)
GrantFollowsNoEdit ==
  [][\A p \in Proposal :
       Standing(p) # "granted" /\ Standing(p)' = "granted"
         => \/ Recorded(p, "granted") /\ LastDecision(p)'.version = CurrentVersion(p)'
            \/ /\ ledger' = ledger /\ store'[p] # store[p]
               /\ LastDecision(p).outcome = "granted"
               /\ store'[p] \in {0, LastDecision(p).version}]_vars

(* A denial stands until a person grants: for a reader that verifies the   *)
(* ledger first, no edit, no further request, no loss of the records and   *)
(* no torn or glued line lifts it.  Such a line may take the denial out of *)
(* what can be read, and an older grant is then the last decision there    *)
(* is; but the ledger does not verify after it, and never will.            *)
OnlyADecisionLiftsADenial ==
  [][/\ ~Verifies => ~Verifies'
     /\ \A p \in Proposal :
          Standing(p) = "denied" /\ Standing(p)' \notin {"denied", "unreadable"}
            => Recorded(p, "granted")]_vars

(* ledger.mjs says an approval does not follow a proposal that has been    *)
(* edited since: when its producing agent writes a granted proposal with   *)
(* another content than the one granted, it is granted no longer.          *)
AnEditEndsAGrant ==
  [][\A p \in Proposal :
       /\ DeriveApproval(p) = "granted" /\ ledger' = ledger
       /\ latest'[p] # latest[p] /\ latest'[p] \notin {0, LastDecision(p).version}
       => DeriveApproval(p)' # "granted"]_vars
=============================================================================
