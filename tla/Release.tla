------------------------------- MODULE Release -------------------------------
(***************************************************************************)
(* From a granted proposal to a commit the deploy gate lets through:       *)
(* dispatch (agent/release/dispatch.mjs), which has the implementation     *)
(* agent (agent/implement/implementer.mjs, apply.mjs, scope.mjs) make the  *)
(* change on a branch of its own, and the gate (agent/release/gate.mjs).   *)
(*                                                                         *)
(* One dispatch runs at a time, for minutes, in a clone people go on       *)
(* working in: they edit and stage files, record decisions, commit them,   *)
(* and merge.  Each stage that reads or writes the disk is an action.      *)
(***************************************************************************)
EXTENDS WorkingClone

CONSTANTS
  Scope,        \* Scope[p][v]: the files content v of proposal p names
  Edited,       \* bound: the files people edit by hand
  MaxAge        \* how old an approval may be when it is acted on

ASSUME AgeAssumption == MaxAge \in Nat

ASSUME ScopeAssumption ==
  Scope \in [Proposal -> [Version -> SUBSET File]]

VARIABLES
  store,     \* the content of each proposal in the record store
  pc,        \* where the dispatch is
  job        \* what it has read and done

vars == <<clone, now, store, pc, job>>

NoEntry == [proposal |-> None]

NoJob == [proposal |-> None, content |-> 0, grant |-> 0,
          decision |-> NoEntry, origin |-> None, before |-> {}, before9 |-> {},
          wrote |-> {}, applied |-> 0]

Job == [proposal : Proposal \cup {None}, content : 0..MaxVersion, grant : Nat,
        decision : Entry \cup {NoEntry}, origin : Branch \cup {None},
        before : SUBSET Path, before9 : SUBSET Path, wrote : SUBSET File,
        applied : 0..MaxVersion]

TypeOK ==
  /\ CloneTypeOK
  /\ store \in [Proposal -> Version]
  /\ pc \in {"idle", "approval", "isolate", "write", "check",
             "scope", "return"}
  /\ job \in Job

Permitted == Scope[job.proposal][job.content]
Own == DispatchKey(job.decision)

-----------------------------------------------------------------------------
(* The dispatcher                                                          *)

Init ==
  /\ CloneInit
  /\ store \in [Proposal -> {1}]
  /\ pc = "idle"
  /\ job = NoJob

Goes(stage) == pc' = stage /\ UNCHANGED store
Finish == pc' = "idle" /\ job' = NoJob /\ UNCHANGED store

\* One proposal id; the record store is read, once.
Start(p) ==
  /\ pc = "idle"
  /\ job' = [NoJob EXCEPT !.proposal = p, !.content = store[p]]
  /\ Goes("approval")
  /\ UNCHANGED clone

Grants(e, p, v) == e.proposal = p /\ e.version = v /\ e.outcome = "granted"

\* deriveApproval says granted, of the content read at the start.
Granted ==
  /\ DecisionsOn(ledger, job.proposal) # {}
  /\ Grants(ledger[LastOn(ledger, job.proposal)], job.proposal, job.content)

\* The ledger verifies and holds the grant, however old.
Approve ==
  /\ pc = "approval"
  /\ Granted
  /\ job' = [job EXCEPT !.grant = LastOn(ledger, job.proposal),
                        !.decision = ledger[LastOn(ledger, job.proposal)]]
  /\ Goes("isolate")
  /\ UNCHANGED clone

\* A ledger that does not verify, a proposal that is not granted, or another
\* of the implementation agent's gates.
RefuseApproval ==
  /\ pc = "approval"
  /\ Finish
  /\ UNCHANGED clone

\* Mistake: only what the branch checked out holds counts as done.
DispatchesHere(key) ==
  {i \in Past(head) : commits[i].trailers # None /\ commits[i].trailers.key = key}

\* findDispatches: the commits on any branch that carry the key.
FindDispatches(key) ==
  {i \in Reachable : commits[i].trailers # None /\ commits[i].trailers.key = key}

\* Done already, or no branch for it can be cut.
RefuseIsolate ==
  /\ pc = "isolate"
  /\ \/ FindDispatches(Own) # {}
     \/ head = Main
     \/ dirty \cap Permitted # {}
     \/ Own \in DOMAIN tip
  /\ Finish
  /\ UNCHANGED clone

\* A branch for the proposal, from any but main, with its scope clean.
Isolate ==
  /\ pc = "isolate"
  /\ FindDispatches(Own) = {}
  /\ head # Main
  /\ dirty \cap Permitted = {}
  /\ Own \notin DOMAIN tip
  /\ job' = [job EXCEPT !.origin = head, !.before = ChangedPaths]
  /\ tip' = [b \in DOMAIN tip \cup {Own} |-> tip[IF b = Own THEN head ELSE b]]
  /\ head' = Own
  /\ Goes("write")
  /\ UNCHANGED <<commits, dirty, staged, ledger>>

\* Mistake: the branch is deleted whether or not git left it.
BackOrNot(d, s, lines) ==
  /\ commits' = commits
  /\ dirty' = d
  /\ staged' = s
  /\ tip' = [b \in DOMAIN tip \ {Own} |-> tip[b]]
  /\ LET changed == d \cup (IF lines = Committed THEN {} ELSE {Ledger})
     IN IF /\ job.origin \in DOMAIN tip
           /\ Differ(head, job.origin) \cap changed = {}
        THEN /\ head' = job.origin
             /\ ledger' = IF lines = Committed
                          THEN tip[job.origin].ledger ELSE lines
        ELSE ledger' = lines /\ UNCHANGED head

\* back: the branch it came from is checked out and its own is deleted.
\* Where git refuses the first, the second is not tried.  d and s are the
\* files dirty and staged by now, and lines the ledger.
Back(d, s, lines) ==
  /\ commits' = commits
  /\ dirty' = d
  /\ staged' = s
  /\ LET changed == d \cup (IF lines = Committed THEN {} ELSE {Ledger})
     IN IF /\ job.origin \in DOMAIN tip
           /\ Differ(head, job.origin) \cap changed = {}
        THEN /\ head' = job.origin
             /\ tip' = [b \in DOMAIN tip \ {Own} |-> tip[b]]
             /\ ledger' = IF lines = Committed
                          THEN tip[job.origin].ledger ELSE lines
        ELSE ledger' = lines /\ UNCHANGED <<head, tip>>

-----------------------------------------------------------------------------
(* The implementation agent                                                *)

\* Mistake: the record store is read again.
WriteLive ==
  /\ pc = "write"
  /\ dirty \cap Permitted = {}
  /\ LET files == Scope[job.proposal][store[job.proposal]] IN
     /\ files # {}
     /\ job' = [job EXCEPT !.before9 = ChangedPaths, !.wrote = files,
                           !.applied = store[job.proposal]]
     /\ dirty' = dirty \cup files
  /\ Goes("check")
  /\ UNCHANGED <<commits, tip, head, staged, ledger>>

\* openContext, where the scope is still clean, and applyProposal, which
\* writes the files, of the records it was handed.
Write ==
  /\ pc = "write"
  /\ dirty \cap Permitted = {}
  /\ Permitted # {}
  /\ job' = [job EXCEPT !.before9 = ChangedPaths, !.wrote = Permitted,
                        !.applied = job.content]
  /\ dirty' = dirty \cup Permitted
  /\ Goes("check")
  /\ UNCHANGED <<commits, tip, head, staged, ledger>>

\* The policy refuses, the scope is not clean, or an operation does not fit
\* the file as it is: nothing is written.
RefuseWrite ==
  /\ pc = "write"
  /\ Back(dirty, staged, ledger)
  /\ Finish

\* An exception once some of the files are written: the agent ends "failed"
\* and rolls nothing back.
WriteBreaks ==
  /\ pc = "write"
  /\ dirty \cap Permitted = {}
  /\ \E files \in SUBSET Permitted : Back(dirty \cup files, staged, ledger)
  /\ Finish

CheckBreaks ==
  /\ pc = "check"
  /\ Back(dirty, staged, ledger)
  /\ Finish

\* enforceScope
Outside == ChangedPaths \ (Permitted \cup job.before9)

\* Checks, scope and policy all pass.
PassChecks ==
  /\ pc = "check"
  /\ Outside = {}
  /\ job' = [job EXCEPT !.before9 = {}]
  /\ Goes("scope")
  /\ UNCHANGED clone

\* Mistake: rollback stops at the first path.
RevertOne ==
  /\ pc = "check"
  /\ \E f \in Permitted : Back(dirty \ {f}, staged \ {f}, ledger)
  /\ Finish

\* They regressed, or something outside the scope changed: rollback puts
\* the permitted paths back as the commit has them.
Revert ==
  /\ pc = "check"
  /\ Back(dirty \ Permitted, staged \ Permitted, ledger)
  /\ Finish

-----------------------------------------------------------------------------
(* The dispatcher, once the agent has implemented                          *)

Touched == ChangedPaths \ job.before

\* undo: each touched path is put back, tracked ones from the index.  The
\* ledger is one of them where it changed since the branch was cut.
Undo ==
  /\ pc = "scope"
  /\ Touched = {} \/ ~(Touched \subseteq Permitted)
  /\ Back((dirty \ Touched) \cup staged, staged,
          IF Ledger \in Touched THEN Committed ELSE ledger)
  /\ Finish

\* Mistake: the trailers name the content the store has by now.
TrailersLive ==
  [proposal |-> job.proposal, version |-> store[job.proposal], key |-> Own]

TrailersOf ==
  [proposal |-> job.proposal, version |-> job.decision.version, key |-> Own]

InScope ==
  /\ pc = "scope"
  /\ Touched # {}
  /\ Touched \subseteq Permitted

\* The touched paths are added, and the whole index is committed.
Commit ==
  /\ InScope
  /\ Len(commits) < MaxCommits
  /\ CommitOn(Touched \cup staged, Committed, TrailersOf, job.applied, job.grant)
  /\ dirty' = dirty \ (Touched \cup staged)
  /\ staged' = {}
  /\ job' = [NoJob EXCEPT !.origin = job.origin]
  /\ Goes("return")
  /\ UNCHANGED <<head, ledger>>

\* git refuses, with the paths added: the edit stays, staged.
CommitRefused ==
  /\ InScope
  /\ Back(dirty, staged \cup Touched, ledger)
  /\ Finish

\* The branch it came from is checked out again, if git will.
Return ==
  /\ pc = "return"
  /\ IF CanSwitch(job.origin)
     THEN head' = job.origin /\ ledger' = LedgerOn(job.origin)
     ELSE UNCHANGED <<head, ledger>>
  /\ Finish
  /\ UNCHANGED <<commits, tip, dirty, staged>>

\* The process ends, anywhere.
Die ==
  /\ pc # "idle"
  /\ Finish
  /\ UNCHANGED clone

Dispatch ==
  \/ \E p \in Proposal : Start(p)
  \/ Approve \/ RefuseApproval
  \/ RefuseIsolate \/ Isolate
  \/ Write \/ RefuseWrite \/ WriteBreaks
  \/ CheckBreaks \/ PassChecks \/ Revert
  \/ Undo \/ Commit \/ CommitRefused \/ Return \/ Die

-----------------------------------------------------------------------------
(* The agents and the people meanwhile                                     *)

Propose(p, v) ==
  /\ store[p] # v
  /\ store' = [store EXCEPT ![p] = v]
  /\ UNCHANGED <<clone, pc, job>>

\* Switching branches by hand waits for the dispatch to end.
Meanwhile ==
  /\ \/ \E f \in File : (f \in Edited /\ Edit(f)) \/ Stage(f) \/ Discard(f)
     \/ \E p \in Proposal, outcome \in {"granted", "denied"} :
          Decide(p, store[p], outcome)
     \/ CommitLedger
     \/ \E b \in DOMAIN tip : Merge(b) \/ DeleteMerged(b) \/ (pc = "idle" /\ Switch(b))
  /\ UNCHANGED <<store, pc, job>>

Happens ==
  \/ Dispatch
  \/ \E p \in Proposal, v \in Version : Propose(p, v)
  \/ Meanwhile

Next ==
  \/ Happens /\ UNCHANGED now
  \/ Tick /\ UNCHANGED <<store, pc, job>>

Spec == Init /\ [][Next]_vars

-----------------------------------------------------------------------------
(* The gate, on the commit main is at                                      *)

ByAgents == {i \in Past(Main) : commits[i].trailers # None}

Lines(entries) == {<<k, entries[k]>> : k \in DOMAIN entries}

\* The granted decisions a commit may cite among some lines, with where they
\* are.
Granting(i, entries) ==
  LET t == commits[i].trailers IN
  {line \in Lines(entries) : Grants(line[2], t.proposal, t.version)}

MainLedger == tip[Main].ledger

\* Mistake: those of the ledger main has by now.
PrecedesByNow(i) == Granting(i, MainLedger)

\* Those of the ledger the commit's parent had.
Precedes(i) == Granting(i, commits[i].before)

Cited(i) ==
  CHOOSE line \in Precedes(i) : \A other \in Precedes(i) : other[1] <= line[1]

\* A later denial of the proposal, whatever follows it.
Withdrawn(i, lines) ==
  \E k \in DecisionsOn(lines, commits[i].trailers.proposal) :
    k > Cited(i)[1] /\ lines[k].outcome = "denied"

\* What is cited was decided before the commit, and not long before.
InTime(i) ==
  LET decided == Cited(i)[2].at
  IN decided <= commits[i].at /\ commits[i].at - decided <= MaxAge

\* judgeAgentChanges: what the gate refuses commit i for, where main's ledger
\* has these lines.  Left out are a missing trailer, which TrailersOf rules
\* out, and what it asks of a line's provenance and signature, and of who
\* signed it: every decision here is one a registered reviewer signed, which
\* the dispatcher has asked of it too.
Refused(i, lines) ==
  LET c == commits[i]
  IN \/ Precedes(i) = {}
     \/ LET cited == Cited(i) IN
        \/ cited \notin Lines(lines)
        \/ c.trailers.key # DispatchKey(cited[2])
        \/ Withdrawn(i, lines)
        \/ ~(c.files \subseteq Scope[c.trailers.proposal][c.trailers.version])
        \/ ~InTime(i)

GatePasses == \A i \in ByAgents : ~Refused(i, MainLedger)

-----------------------------------------------------------------------------
(* Where a proposal is: lifecycleOf, agent/release/lifecycle.mjs           *)

\* Mistake: that the change was dispatched is enough, wherever its commit is.
PublishedUnderAnywhere(key) == FindDispatches(key) # {}

\* Of the commits that carry the key one is an ancestor of main.
PublishedUnder(key) == FindDispatches(key) \cap Past(Main) # {}

\* The states a decision leads to; the three before one, told by gates and
\* requests, are "undecided" here.
Lifecycle(p) ==
  IF DecisionsOn(ledger, p) = {} THEN "undecided"
  ELSE LET last == LastOn(ledger, p)
           d == ledger[last]
       IN CASE d.outcome = "denied" ->
                 IF \E k \in DecisionsOn(ledger, p) \ {last} : ledger[k].outcome = "granted"
                 THEN "withdrawn" ELSE "rejected"
            [] d.outcome = "granted" /\ d.version # store[p] -> "superseded"
            [] d.outcome = "granted" /\ d.version = store[p] ->
                 IF PublishedUnder(DispatchKey(d)) THEN "published" ELSE "approved"

-----------------------------------------------------------------------------
(* Properties                                                              *)

\* Nothing is done twice: of the commits that can be reached no two carry
\* the same Dispatch-Key, whatever dispatches die, fail or are repeated and
\* whichever branches are merged and deleted (dispatch.mjs:211-220).
OncePerKey ==
  \A i, j \in Reachable :
    /\ commits[i].trailers # None
    /\ commits[j].trailers # None
    /\ commits[i].trailers.key = commits[j].trailers.key
    => i = j

\* What the gate lets through is what a person granted: each commit of a
\* dispatch on main applied the very content that was granted, before it and
\* not longer before than an approval lasts, in the files that content names
\* and no others, and nobody denied the proposal since, though the store, the
\* ledger and the index changed while the dispatch ran (dispatch.mjs:27-39,
\* gate.mjs:190-253).
WhatPassesWasGranted ==
  GatePasses =>
    \A i \in ByAgents :
      LET c == commits[i]
          p == c.trailers.proposal
      IN /\ c.files \subseteq Scope[p][c.content]
         /\ \E k \in DOMAIN MainLedger :
              /\ Grants(MainLedger[k], p, c.content)
              /\ k <= Len(c.before)
              /\ c.at - MainLedger[k].at \in 0..MaxAge
              /\ \A l \in DOMAIN MainLedger :
                   l > k /\ MainLedger[l].proposal = p
                     => MainLedger[l].outcome = "granted"

\* The gate accepts what was dispatched as it should be.  A commit is refused
\* only where the decision acted on was not committed before the change or was
\* older then than an approval lasts, which the dispatcher asks of neither,
\* where the index held something else, or where the proposal was denied since
\* (dispatch.mjs:193-203 and 275-289, gate.mjs:211-249).
GateAcceptsTheDispatched ==
  \A i \in ByAgents :
    LET c == commits[i]
        p == c.trailers.proposal
    IN /\ c.grant <= Len(c.before)
       /\ c.at - c.before[c.grant].at <= MaxAge
       /\ c.files \subseteq Scope[p][c.content]
       /\ \A k \in DecisionsOn(MainLedger, p) :
            k > c.grant => MainLedger[k].outcome = "granted"
       => ~Refused(i, MainLedger)

\* A refusal of the gate is for good: once main holds a commit it refuses, no
\* decision, fresh grant or later commit makes the gate pass again, and
\* nothing at all is published.  Of the refusals modelled this is so of each;
\* one for a reviewer's key might be mended in the registry (gate.mjs:237-239,
\* 357-359).
RefusedForGood ==
  [][\A i \in ByAgents : Refused(i, MainLedger) => Refused(i, MainLedger)']_vars

\* A dispatch that ends without a commit leaves nothing it wrote in the
\* working tree, except where an exception or git broke it off or a person
\* had staged it (implementer.mjs:29-35, dispatch.mjs:108-120).
FailureLeavesNothing ==
  [][Revert \/ Undo => job.wrote \cap dirty' \subseteq staged']_vars

\* A proposal that reads as published is on main: a commit there applied the
\* very content the record store has now, however often the proposal was
\* edited, decided on and dispatched, and whichever branch and ledger are
\* checked out (lifecycle.mjs:20-22, 67-72).
PublishedIsOnMain ==
  \A p \in Proposal :
    Lifecycle(p) = "published" =>
      \E i \in ByAgents :
        /\ commits[i].trailers.proposal = p
        /\ commits[i].content = store[p]

\* What the code says of the ledger: the dispatcher never writes it
\* (dispatch.mjs:21-22).  A decision recorded and not committed yet is still in
\* the working tree after any step of the dispatch.
Uncommitted(lines, b) == Lines(lines) \ Lines(tip[b].ledger)
NeverWritesTheLedger ==
  [][Dispatch => Uncommitted(ledger, head) \subseteq Lines(ledger')]_vars
=============================================================================
