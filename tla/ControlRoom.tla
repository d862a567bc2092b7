---------------------------- MODULE ControlRoom ----------------------------
(***************************************************************************)
(* The Control Room's decision path (decide.mjs) on top of the decision    *)
(* ledger, and the audit trail it owes an entry to (audit.mjs).            *)
(*                                                                         *)
(* The server is one of the processes that call recordDecision; the others *)
(* are runs of agent/implement/cli.mjs decide, which know nothing of       *)
(* reviewers, screens or the trail.  decide() is synchronous too, so inside*)
(* the server nothing comes between its steps; the command line, the       *)
(* agents that write records and .control-room/cli.mjs, which writes the   *)
(* same trail, are other processes and do.                                 *)
(*                                                                         *)
(* The hash of a trail entry is its position; `prev` is the position of    *)
(* the entry its writer found last, 0 for none.                            *)
(***************************************************************************)
EXTENDS DecisionLedger

CONSTANTS
  Server,        \* the Control Room server, one of the writers
  Auditor,       \* processes that write the audit trail
  Implementable, \* the <<proposal, version>> pairs that pass the preflight
                 \* gates that are not about the approval
  NoScreen,      \* a reviewer looking at nothing
  Nothing,       \* a process that owes the trail no entry
  MaxTrail       \* bound: nothing new is audited once the trail is this long

ASSUME ServerAssumption == Server \in Writer /\ Server \in Auditor

ASSUME RoomAssumption ==
  /\ Implementable \subseteq Proposal \X Version
  /\ MaxTrail \in Nat

VARIABLES
  screen,     \* screen[r]: the <<proposal, version>> reviewer r has before them
  shown,      \* history: every <<reviewer, proposal, version>> ever displayed
  trail,      \* the audit trail, its files in name order
  owed,       \* owed[a]: the entry a is about to record
  viaServer,  \* history: the lines of the ledger the server wrote
  forgotten   \* history: those of them whose entry died with the server

room == <<screen, shown, trail, owed, viaServer, forgotten>>
roomVars == <<vars, room>>

Content == Proposal \X Version

Verdict == {"approved", "rejected"}

\* What the trail says of one act.  Acts that are not about a proposal carry
\* no content.
Act == [action : Verdict \cup {"changes_requested", "refused"},
        actor : Person, content : Content]
         \cup [action : {"other"}]

\* The process that wrote an entry is not in it: it is kept here to tell whose
\* entries link.
AuditEntry == [act : Act, prev : Nat, writer : Auditor]

\* An entry that is owed is never taken for none.
ASSUME NothingAssumption == Nothing \notin Act \X (Nat \cup {Nothing})

RoomTypeOK ==
  /\ screen \in [Person -> Content \cup {NoScreen}]
  /\ shown \subseteq Person \X Proposal \X Version
  /\ trail \in Seq(AuditEntry)
  /\ owed \in [Auditor -> (Act \X (Nat \cup {Nothing})) \cup {Nothing}]
  /\ forgotten \subseteq viaServer
  /\ viaServer \subseteq DOMAIN ledger

-----------------------------------------------------------------------------
(***************************************************************************)
(* The audit trail: AuditLog.record                                        *)
(***************************************************************************)

\* a is to record this act; its entry is not yet chained.
Owe(a, act) == owed' = [owed EXCEPT ![a] = <<act, Nothing>>]

\* Mutant: the head is one entry too far back.
ReadHeadOffByOne(a) ==
  /\ owed[a] # Nothing
  /\ owed[a][2] = Nothing
  /\ owed' = [owed EXCEPT ![a][2] = Len(trail) - 1]
  /\ UNCHANGED <<vars, screen, shown, trail, viaServer, forgotten>>

\* record reads every file of the trail for the hash of the last entry.
ReadHead(a) ==
  /\ owed[a] # Nothing
  /\ owed[a][2] = Nothing
  /\ owed' = [owed EXCEPT ![a][2] = Len(trail)]
  /\ UNCHANGED <<vars, screen, shown, trail, viaServer, forgotten>>

\* and appends, whatever another process has appended since.
AppendTrail(a) ==
  /\ owed[a] # Nothing
  /\ owed[a][2] # Nothing
  /\ trail' = Append(trail, [act |-> owed[a][1], prev |-> owed[a][2], writer |-> a])
  /\ owed' = [owed EXCEPT ![a] = Nothing]
  /\ UNCHANGED <<vars, screen, shown, viaServer, forgotten>>

\* Anything else that is audited: a login, a view, a role change.
AuditOther(a) ==
  /\ owed[a] = Nothing
  /\ a = Server => pc[Server] = "idle"
  /\ Len(trail) < MaxTrail
  /\ Owe(a, [action |-> "other"])
  /\ UNCHANGED <<vars, screen, shown, trail, viaServer, forgotten>>

\* verifyChain links an entry to the one before it.
Chained(i) == trail[i].prev = i - 1

-----------------------------------------------------------------------------
(***************************************************************************)
(* decide                                                                  *)
(***************************************************************************)

\* The queue shows r the version of p the store holds.
Display(r, p) ==
  /\ store[p] # 0
  /\ screen' = [screen EXCEPT ![r] = <<p, store[p]>>]
  /\ shown' = shown \cup {<<r, p, store[p]>>}
  /\ UNCHANGED <<vars, trail, owed, viaServer, forgotten>>

\* r sends a review of what is on the screen, and the server is free.
Submits(r) ==
  /\ screen[r] # NoScreen
  /\ pc[Server] = "idle"
  /\ owed[Server] = Nothing
  /\ Len(trail) < MaxTrail

\* Mutant: the fingerprint sent with the review is not compared.
ReviewableUnbound(p, v) ==
  /\ store[p] # 0
  /\ DeriveApproval(p) = "pending"

\* Mutant: a proposal that was decided may be decided again.
ReviewableAgain(p, v) ==
  /\ store[p] # 0
  /\ v = store[p]

\* Gates 2, 4 and 5: the proposal exists, it is the version that was reviewed,
\* and its approval state is one a decision may be taken from.
Reviewable(p, v) ==
  /\ store[p] # 0
  /\ v = store[p]
  /\ DeriveApproval(p) = "pending"

\* Gate 6: what is approved could be implemented.
GatesPass(p, outcome) ==
  outcome = "granted" => <<p, store[p]>> \in Implementable

\* Every gate passes, and recordDecision reads no records of its own: it is
\* handed the ones the gates read.
Decide(r, outcome) ==
  /\ Submits(r)
  /\ Reviewable(screen[r][1], screen[r][2])
  /\ GatesPass(screen[r][1], outcome)
  /\ CheckRecords(Server, screen[r][1], outcome, r)
  /\ UNCHANGED room

\* A gate refuses, and the refusal is audited.  Gates 1, 3 and 7, about the
\* request and its sender, may refuse any request.
RefuseDecision(r) ==
  /\ Submits(r)
  /\ Owe(Server, [action |-> "refused", actor |-> r, content |-> screen[r]])
  /\ UNCHANGED <<vars, screen, shown, trail, viaServer, forgotten>>

\* A request for changes passes the same gates and writes no ledger line.
RequestChanges(r) ==
  /\ Submits(r)
  /\ Reviewable(screen[r][1], screen[r][2])
  /\ Owe(Server, [action |-> "changes_requested", actor |-> r, content |-> screen[r]])
  /\ UNCHANGED <<vars, screen, shown, trail, viaServer, forgotten>>

\* What line i of the ledger is about.
About(i) == <<ledger[i].proposal, ledger[i].version>>

\* The act the server's decision is audited as.
DecisionAct(action) ==
  [action |-> action, actor |-> draft[Server].by,
   content |-> <<draft[Server].proposal, draft[Server].version>>]

\* recordDecision refused the ledger, and decide audits that.
ServerRefused ==
  /\ RefuseLedger(Server)
  /\ Owe(Server, DecisionAct("refused"))
  /\ UNCHANGED <<screen, shown, trail, viaServer, forgotten>>

\* Mutant: the decision is audited as approved whatever its outcome.
ServerRecordedAlwaysApproved ==
  /\ AppendEntry(Server)
  /\ Owe(Server, DecisionAct("approved"))
  /\ viaServer' = viaServer \cup ((DOMAIN ledger') \ DOMAIN ledger)
  /\ UNCHANGED <<screen, shown, trail, forgotten>>

\* recordDecision appended, and decide goes on to audit the decision.
ServerRecorded ==
  /\ AppendEntry(Server)
  /\ Owe(Server, DecisionAct(IF draft[Server].outcome = "granted"
                               THEN "approved" ELSE "rejected"))
  /\ viaServer' = viaServer \cup ((DOMAIN ledger') \ DOMAIN ledger)
  /\ UNCHANGED <<screen, shown, trail, forgotten>>

\* The server dies and is started again; what it owed the trail is forgotten.
ServerDies ==
  /\ \/ Die(Server)
     \/ pc[Server] = "idle" /\ owed[Server] # Nothing /\ UNCHANGED vars
  /\ owed' = [owed EXCEPT ![Server] = Nothing]
  /\ forgotten' = forgotten \cup
       IF owed[Server] = Nothing THEN {}
       ELSE {i \in viaServer : owed[Server][1].action \in Verdict
                                /\ owed[Server][1].content = About(i)}
  /\ UNCHANGED <<screen, shown, trail, viaServer>>

-----------------------------------------------------------------------------
(***************************************************************************)
(* What the Orchestrator makes of a decision it finds (approval.mjs)       *)
(***************************************************************************)

\* The entries of the trail with one of these actions, on the content that
\* the last decision of p is about.
EntriesOn(p, actions) ==
  {i \in DOMAIN trail :
     /\ trail[i].act.action \in actions
     /\ trail[i].act.content = <<p, LastDecision(p).version>>}

\* Mutant: approvals alone are looked for.
CorroborateApprovals(p) ==
  CASE trail = <<>> -> "no_trail_here"
    [] trail # <<>> /\ EntriesOn(p, {"approved"}) # {} -> "authenticated"
    [] trail # <<>> /\ EntriesOn(p, {"approved"}) = {} -> "unauthenticated"

\* corroborate: whether the last decision of p was taken through the Control
\* Room.  An entry of any decision on the same content will do.
Corroborate(p) ==
  CASE trail = <<>> -> "no_trail_here"
    [] trail # <<>> /\ EntriesOn(p, Verdict) # {} -> "authenticated"
    [] trail # <<>> /\ EntriesOn(p, Verdict) = {} -> "unauthenticated"

-----------------------------------------------------------------------------

RoomInit ==
  /\ Init
  /\ screen = [r \in Person |-> NoScreen]
  /\ shown = {}
  /\ trail = <<>>
  /\ owed = [a \in Auditor |-> Nothing]
  /\ viaServer = {}
  /\ forgotten = {}

\* A person at agent/implement/cli.mjs decide.
CommandLine(w) ==
  /\ w # Server
  /\ \/ \E p \in Proposal, outcome \in Outcome, who \in Name :
          CheckRecords(w, p, outcome, who)
     \/ ReadLedger(w)
     \/ RefuseLedger(w)
     \/ AppendEntry(w)
     \/ Die(w)
  /\ UNCHANGED room

ServerSteps ==
  \/ \E r \in Person, p \in Proposal : Display(r, p)
  \/ \E r \in Person, outcome \in Outcome : Decide(r, outcome)
  \/ \E r \in Person : RefuseDecision(r)
  \/ \E r \in Person : RequestChanges(r)
  \/ ReadLedger(Server) /\ UNCHANGED room
  \/ ServerRefused
  \/ ServerRecorded
  \/ ServerDies

Auditing == \E a \in Auditor : AuditOther(a) \/ ReadHead(a) \/ AppendTrail(a)

RoomNext ==
  \/ Agents /\ UNCHANGED room
  \/ \E w \in Writer : CommandLine(w)
  \/ ServerSteps
  \/ Auditing

RoomSpec == RoomInit /\ [][RoomNext]_roomVars

-----------------------------------------------------------------------------
(***************************************************************************)
(* Properties                                                              *)
(***************************************************************************)

\* The acts the trail has recorded or a live process is about to record.
Told == {trail[i].act : i \in DOMAIN trail}
          \cup {owed[a][1] : a \in {b \in Auditor : owed[b] # Nothing}}

(* Nobody's name is put to a version they never saw: what the trail and    *)
(* the ledger say a reviewer decided, or asked to have changed, is a       *)
(* version the queue displayed to that reviewer, however often the         *)
(* proposal was edited, lost and regenerated between the two.              *)
DecidedWasShown ==
  /\ \A act \in Told :
       act.action \in Verdict \cup {"changes_requested"} =>
         <<act.actor, act.content[1], act.content[2]>> \in shown
  /\ \A i \in viaServer : <<ledger[i].by, ledger[i].proposal, ledger[i].version>> \in shown

(* The trail never tells of a decision that is not in the ledger: each     *)
(* approval and rejection in it is a line the server wrote, with that      *)
(* outcome, by that person, on that version.  (Left out: a ledger that a   *)
(* process died over in the middle of a line, which verifies for nobody.)  *)
TrailTellsTheLedger ==
  ~garbled /\ tail # "part" =>
    \A act \in Told :
      act.action \in Verdict =>
        \E i \in viaServer :
          /\ About(i) = act.content
          /\ ledger[i].by = act.actor
          /\ ledger[i].outcome = IF act.action = "approved" THEN "granted" ELSE "denied"

(* The server's decisions are known for its own: where the last decision   *)
(* on a proposal is the server's, corroborate calls it authenticated,      *)
(* whatever else the trail holds and whoever decided before, unless its    *)
(* entry is still to be written or died with the server.                   *)
ServersDecisionsAreVouched ==
  \A p \in Proposal, i \in viaServer \ forgotten :
    /\ i \in DecisionsOn(p)
    /\ \A j \in DecisionsOn(p) : j <= i
    /\ owed[Server] = Nothing
    => Corroborate(p) = "authenticated"

(* The server decides a proposal once, whatever the command line decides   *)
(* and whoever writes the records meanwhile: no two reviewers' decisions   *)
(* on one proposal are both taken.                                         *)
ServerDecidesOnce ==
  \A i, j \in viaServer : ledger[i].proposal = ledger[j].proposal => i = j

(* decide.mjs says that approving over a denial through its endpoint would *)
(* make the denial advisory: no approval the server records follows a      *)
(* denial of the same proposal.                                            *)
NoApprovalOverADenial ==
  \A i \in viaServer, j \in DOMAIN ledger :
    /\ j < i
    /\ ledger[j].proposal = ledger[i].proposal
    /\ ledger[i].outcome = "granted"
    => ledger[j].outcome = "granted"

(* A break that verifyChain finds in an untouched trail lies between the   *)
(* entries of two processes: one process alone never breaks it, wherever   *)
(* it dies between reading the head and appending.                         *)
OnlyAnotherProcessBreaks ==
  \A i \in DOMAIN trail :
    ~Chained(i) => i > 1 /\ trail[i - 1].writer # trail[i].writer
=============================================================================
