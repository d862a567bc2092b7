------------------------------ MODULE Autonomy ------------------------------
(***************************************************************************)
(* Limited autonomy (agent/autonomy): one change at a time, carried out    *)
(* under the policy in force with nobody deciding on it.  The runner cuts  *)
(* a branch, writes, checks, commits and merges in the working tree a      *)
(* person works in, so what a person edits, stages, commits and records in *)
(* the grant ledger meanwhile is here too.                                 *)
(*                                                                         *)
(* A file has one thing to differ in: whether it is as the branch has it.  *)
(* A commit is its position in `commits`, a branch the set of commits in   *)
(* it.  The branch an attempt cuts, autonomy/act-..., is its number.       *)
(*                                                                         *)
(* Not here: a rehearsal (no --execute), which writes nothing; a person    *)
(* who switches branches under a running attempt; a second runner; a file  *)
(* that is deleted once it was committed.                                  *)
(***************************************************************************)
EXTENDS AutonomyPolicy

CONSTANTS
  Main,         \* the branch that publishes
  Work,         \* a person's branch
  New,          \* the paths where there is no file until one is committed
  MaxGrants,    \* bound: lines of the grant ledger
  MaxClock,     \* bound: instants
  MaxAttempts,  \* bound: attempts
  MaxCommits    \* bound: commits

Attempt == 1..MaxAttempts
Branch == {Main, Work} \cup Attempt

ASSUME BoundsAssumption ==
  {MaxGrants, MaxClock, MaxAttempts, MaxCommits} \subseteq Nat /\ MaxGrants > 0

ASSUME NewAssumption == New \subseteq Path

ASSUME BranchAssumption ==
  Main # Work /\ Main \notin Attempt /\ Work \notin Attempt

VARIABLES
  commits,  \* every commit: its files, its author (0 a person) and its branch
  past,     \* past[b]: the commits in b, for the branches there are
  head,     \* the branch checked out
  dirty,    \* the paths git status shows
  staged,   \* those of them that are in the index
  pc,       \* where the runner is
  before,   \* what was dirty before the branch was cut
  wrote,    \* history: what git status shows because the runner wrote it
  balked,   \* history: the attempts git would not clean up after, for no
            \* reason that is here
  tried     \* every attempt, with what the action ledger says of it

gitVars == <<commits, past, head, dirty, staged>>
runVars == <<pc, before, wrote, balked, tried>>
vars == <<policyVars, gitVars, runVars>>

\* The outcomes that leave nothing, and the one that leaves a merge.
\* `revert_failed` and `failed` are not reached, and "none" is an attempt
\* without a line.
Unmerged == {"refused", "rehearsed", "reverted"}
Outcome == Unmerged \cup {"merged"}

Expiry == 1..(MaxClock + 1)

Line ==
  [action : {"enable", "revoke"}, revokes : Nat, until : Expiry,
   categories : SUBSET Category, paths : SUBSET Path, fields : SUBSET Field,
   risk : Risk, by : Name]

Commit == [files : SUBSET Path, by : 0..MaxAttempts, on : Branch]

\* `asked`, `held`, `base`: the instant, the length of the grant ledger and
\* the commits there were at the start.  `counted`: the grants the attempt's
\* line names.
Tried == [proposal : Proposal, origin : Branch, asked : 0..MaxClock,
          held : 0..MaxGrants, base : 0..MaxCommits, counted : SUBSET (1..MaxGrants),
          outcome : Outcome \cup {"none"}]

This == Len(tried)
Current == tried[This]
P == Current.proposal
Origin == Current.origin

-----------------------------------------------------------------------------
(* git                                                                     *)

\* The files in which two branches differ.
Differ(b, c) ==
  UNION {commits[i].files : i \in (past[b] \ past[c]) \cup (past[c] \ past[b])}

\* git checkout carries uncommitted work over, unless it is in the way.
CanCheckOut(b) == Differ(head, b) \cap dirty = {}

\* git commit takes the index, whoever filled it.
CommitFiles(files, author) ==
  /\ Len(commits) < MaxCommits
  /\ commits' = Append(commits, [files |-> files, by |-> author, on |-> head])
  /\ past' = [past EXCEPT ![head] = @ \cup {Len(commits) + 1}]
  /\ dirty' = dirty \ files
  /\ staged' = staged \ files
  /\ UNCHANGED head

Without(b) == [c \in DOMAIN past \ {b} |-> past[c]]

-----------------------------------------------------------------------------
(* People                                                                  *)

Edit(f) ==
  /\ dirty' = dirty \cup {f}
  /\ UNCHANGED <<policyVars, commits, past, head, staged, runVars>>

Stage(f) ==
  /\ f \in dirty
  /\ staged' = staged \cup {f}
  /\ UNCHANGED <<policyVars, commits, past, head, dirty, runVars>>

\* The lines of the grant ledger are kept.
Discard(f) ==
  /\ f \in dirty \ {GrantLedger}
  /\ dirty' = dirty \ {f}
  /\ staged' = staged \ {f}
  /\ wrote' = wrote \ {f}
  /\ UNCHANGED <<policyVars, commits, past, head, pc, before, balked, tried>>

CommitByHand ==
  /\ staged # {}
  /\ CommitFiles(staged, 0)
  /\ wrote' = wrote \ staged
  /\ UNCHANGED <<policyVars, pc, before, balked, tried>>

Switch(b) ==
  /\ pc = "idle"
  /\ b # head
  /\ CanCheckOut(b)
  /\ head' = b
  /\ UNCHANGED <<policyVars, commits, past, dirty, staged, runVars>>

\* A line is added to the ledger, a tracked file.
AddLine(g) ==
  /\ Len(grants) < MaxGrants
  /\ grants' = Append(grants, g)
  /\ dirty' = dirty \cup {GrantLedger}
  /\ UNCHANGED <<clock, store, commits, past, head, staged, runVars>>

\* recordGrant, which a person calls through agent/policy/cli.mjs.
RecordGrant(g) == Valid(g, KnownAgents) /\ AddLine(g)

\* A line recordGrant refuses, written with an editor: nothing is asked of it
\* until it is read.
WriteAround(g) == ~Valid(g, KnownAgents) /\ AddLine(g)

Dated(b, until) ==
  [action |-> b.action, revokes |-> b.revokes, until |-> until,
   categories |-> b.categories, paths |-> b.paths, fields |-> b.fields,
   risk |-> b.risk, by |-> b.by]

\* The lines somebody may want written; there has to be something to revoke.
Asked(lines) ==
  {Dated(b, u) : b \in {c \in Body : c.revokes <= lines}, u \in Expiry}

Tick ==
  /\ clock < MaxClock
  /\ clock' = clock + 1
  /\ UNCHANGED <<grants, store, gitVars, runVars>>

\* agent/records is git-ignored: it can be lost, and its agents run again.
LoseRecords ==
  /\ store' = {}
  /\ UNCHANGED <<grants, clock, gitVars, runVars>>

ProducedBy(agents) == {p \in Proposal : Producer[p] \in agents}

Produce(a) ==
  /\ store' = store \cup ProducedBy({a})
  /\ UNCHANGED <<grants, clock, gitVars, runVars>>

-----------------------------------------------------------------------------
(* The runner (runCycle)                                                   *)

Goto(at) == pc' = at /\ UNCHANGED <<policyVars, tried>>

Stop == pc' = "idle" /\ before' = {} /\ wrote' = {}

\* The policy, the branch and the records are read, once.
Start(p) ==
  /\ pc = "idle"
  /\ This < MaxAttempts
  /\ tried' = Append(tried, [proposal |-> p, origin |-> head, asked |-> clock,
       held |-> Len(grants), base |-> Len(commits), counted |-> Active, outcome |-> "none"])
  /\ pc' = IF AutonomyGates(p, InForce) /\ head # Main THEN "gated"
                                                       ELSE "refused"
  /\ UNCHANGED <<policyVars, gitVars, before, wrote, balked>>

\* git checkout -b
Cut == [b \in DOMAIN past \cup {This} |-> past[IF b = This THEN head ELSE b]]

\* cutBranch and openContext, which wants every permitted path clean.
Isolate ==
  /\ pc = "gated"
  /\ Permitted(P) \cap dirty = {}
  /\ before' = dirty
  /\ past' = Cut
  /\ head' = This
  /\ Goto("cut")
  /\ UNCHANGED <<commits, dirty, staged, wrote, balked>>

\* The branch is cut before openContext refuses, and abandoned after it.
NotIsolated ==
  /\ pc = "gated"
  /\ Permitted(P) \cap dirty # {}
  /\ before' = dirty
  /\ \/ UNCHANGED <<past, head, balked>>
     \/ past' = Cut /\ head' \in {Origin, This} /\ balked' = balked \cup {This}
  /\ Goto("refused")
  /\ UNCHANGED <<commits, dirty, staged, wrote>>

\* Mutant: the branch is deleted, whatever is checked out.
AbandonAnyway(left) ==
  /\ head' = IF Differ(head, Origin) \cap left = {} THEN Origin ELSE head
  /\ past' = Without(This)
  /\ balked' = balked

\* Mutant: the branch is left where it is.
AbandonNoBranch(left) ==
  /\ head' = IF Differ(head, Origin) \cap left = {} THEN Origin ELSE head
  /\ UNCHANGED <<past, balked>>

\* abandon: the origin is checked out, and whether or not that went well the
\* branch is deleted, which git refuses while it is checked out.  Either may
\* fail for a reason of git's own.  What failed is told to nobody who asks,
\* and the run goes on.  `left`: the paths a checkout would have to carry.
Abandon(left) ==
  \E back, gone \in BOOLEAN :
    /\ back => Differ(head, Origin) \cap left = {}
    /\ gone => back
    /\ head' = IF back THEN Origin ELSE head
    /\ past' = IF gone THEN Without(This) ELSE past
    /\ balked' = IF gone \/ Differ(head, Origin) \cap left # {}
                 THEN balked ELSE balked \cup {This}

\* Mutant: the target is stripped of its field as the permitted set is.
ApplicableOnceStripped(p) == TRUE

\* applyProposal's first loop: a target has to be the permitted path itself.
Applicable(p) == FieldsOf(p) \subseteq {NoField}

\* The second loop.  What is proposed may be what is there already.
Apply ==
  /\ pc = "cut"
  /\ Applicable(P)
  /\ \E changed \in SUBSET Files(P) :
       /\ dirty' = dirty \cup changed
       /\ wrote' = changed
  /\ Goto("applied")
  /\ UNCHANGED <<commits, past, head, staged, before, balked>>

\* ApplyRefused, before anything is written: the target is not permitted, or
\* the text the operation quotes is not in the file.
RefuseToApply ==
  /\ pc = "cut"
  /\ Abandon(dirty)
  /\ Goto("refused")
  /\ UNCHANGED <<commits, dirty, staged, before, wrote>>

\* A file cannot be written; the ones before it were.
ApplyFails ==
  /\ pc = "cut"
  /\ Applicable(P)
  /\ \E changed \in SUBSET Files(P) : dirty' = dirty \cup changed
  /\ Abandon(dirty')
  /\ Stop
  /\ UNCHANGED <<policyVars, commits, staged, tried>>

\* Mutant: what left the scope is looked for in the index.
OutsideOfTheIndex(p) == (staged \ Permitted(p)) \ before

\* enforceScope
Outside(p) == (dirty \ Permitted(p)) \ before

\* The validators, the browser suite, the facts and the policy route on them
\* may come out either way; the scope does not depend on them.
MayMerge ==
  /\ pc = "applied"
  /\ Outside(P) = {}
  /\ Goto("passed")
  /\ UNCHANGED <<gitVars, before, wrote, balked>>

\* Where there was no file when the context was opened, on the branch the
\* attempt began on.
Created == New \ UNION {commits[c].files : c \in past[Origin]}

\* Mutant: git restore, which leaves the index.
UndoTreeOnly ==
  /\ Abandon(dirty \ (Permitted(P) \ staged))
  /\ dirty' = dirty \ (Permitted(P) \ staged)
  /\ staged' = staged
  /\ wrote' = wrote \cap staged

\* rollback, and the abandon that follows it.  A permitted path is restored
\* from the commit the branch was cut at, in the tree and in the index; one
\* that did not exist is removed from the tree alone.  On the origin the
\* restored are clean; on the branch they differ from what a person
\* committed there.
Undo ==
  LET paths == Permitted(P)
      left == (dirty \ paths) \cup (paths \cap Created \cap staged)
      moved == IF head' = head THEN Differ(head, Origin) \cap paths ELSE {}
  IN /\ Abandon(left)
     /\ dirty' = left \cup moved
     /\ staged' = (staged \ (paths \ Created)) \cup (moved \ Created)
     /\ wrote' = wrote \cap left

MayNotMerge ==
  /\ pc = "applied"
  /\ Undo
  /\ Goto("reverted")
  /\ UNCHANGED <<commits, before>>

\* Mutant: everything that changed is added.
IndexAll == dirty

\* commitChange: the files the proposal names are added, and the index
\* committed.
Index == staged \cup (Files(P) \cap dirty)

CommitChange ==
  /\ pc = "passed"
  /\ Index # {}
  /\ CommitFiles(Index, This)
  /\ wrote' = wrote \ Index
  /\ Goto("committed")
  /\ UNCHANGED <<before, balked>>

NoChange ==
  /\ pc = "passed"
  /\ Index = {}
  /\ Abandon(dirty)
  /\ Goto("rehearsed")
  /\ UNCHANGED <<commits, dirty, staged, before, wrote>>

\* mergeBack: the checkout, and the merge, which wants an index of its own.
GoBack ==
  /\ pc = "committed"
  /\ CanCheckOut(Origin)
  /\ head' = Origin
  /\ Goto("back")
  /\ UNCHANGED <<commits, past, dirty, staged, before, wrote, balked>>

Merge ==
  /\ pc = "back"
  /\ staged = {}
  /\ CanCheckOut(This)
  /\ past' = [past EXCEPT ![head] = @ \cup past[This]]
  /\ Goto("joined")
  /\ UNCHANGED <<commits, head, dirty, staged, before, wrote, balked>>

\* git branch -d
DeleteMerged ==
  /\ pc = "joined"
  /\ past' = Without(This)
  /\ Goto("merged")
  /\ UNCHANGED <<commits, head, dirty, staged, before, wrote, balked>>

\* recordAction
Record ==
  /\ pc \in Outcome
  /\ tried' = [tried EXCEPT ![This].outcome = pc]
  /\ Stop
  /\ UNCHANGED <<policyVars, gitVars, balked>>

\* The process stops, or a call to git or a check throws: nothing catches it.
Die ==
  /\ pc # "idle"
  /\ Stop
  /\ UNCHANGED <<policyVars, gitVars, balked, tried>>

-----------------------------------------------------------------------------

\* The ledger is empty or has a line that is committed.
Init ==
  /\ grants \in {<<>>} \cup {<<g>> : g \in Asked(0)}
  /\ clock = 0
  /\ store \in {ProducedBy(agents) : agents \in SUBSET AgentName}
  /\ commits = <<>> /\ past = [b \in {Main, Work} |-> {}] /\ head = Work
  /\ dirty = {} /\ staged = {}
  /\ pc = "idle" /\ before = {} /\ wrote = {} /\ balked = {} /\ tried = <<>>

People ==
  \/ \E f \in Path : Edit(f) \/ Stage(f) \/ Discard(f)
  \/ CommitByHand
  \/ \E b \in DOMAIN past : Switch(b)
  \/ \E g \in Asked(Len(grants)) : RecordGrant(g) \/ WriteAround(g)
  \/ Tick
  \/ LoseRecords
  \/ \E a \in AgentName : Produce(a)

Runner ==
  \/ \E p \in Proposal : Start(p)
  \/ Isolate \/ NotIsolated
  \/ Apply \/ RefuseToApply \/ ApplyFails
  \/ MayMerge \/ MayNotMerge
  \/ CommitChange \/ NoChange
  \/ GoBack \/ Merge \/ DeleteMerged
  \/ Record
  \/ Die

Next == People \/ Runner

Spec == Init /\ [][Next]_vars

-----------------------------------------------------------------------------
(* Properties                                                              *)

\* Type invariant: no commit is on a branch before it exists, the branch that
\* is checked out is there, nothing is staged that is clean, and what the
\* runner wrote and nobody removed shows in git status.
TypeOK ==
  /\ grants \in Seq(Line) /\ Len(grants) <= MaxGrants
  /\ clock \in 0..MaxClock
  /\ store \subseteq Proposal
  /\ commits \in Seq(Commit) /\ Len(commits) <= MaxCommits
  /\ {Main, Work} \subseteq DOMAIN past /\ DOMAIN past \subseteq Branch
  /\ past \in [DOMAIN past -> SUBSET DOMAIN commits]
  /\ head \in DOMAIN past
  /\ dirty \subseteq Path /\ staged \subseteq dirty
  /\ pc \in {"idle", "gated", "cut", "applied", "passed", "committed", "back",
             "joined"} \cup Outcome
  /\ before \subseteq Path
  /\ wrote \subseteq dirty
  /\ balked \subseteq Attempt
  /\ tried \in Seq(Tried) /\ Len(tried) <= MaxAttempts
  /\ pc # "idle" => tried # <<>>

\* The grant on line i stood when attempt t began: it enables, it had not
\* expired, no line there was by then revokes it, it names nothing that may
\* not be granted, and the agent whose proposal it is did not write it.
Standing(t, i) ==
  /\ grants[i].action = "enable"
  /\ t.asked < grants[i].until
  /\ \A j \in 1..t.held : grants[j].action = "revoke" => grants[j].revokes # i
  /\ grants[i].paths \subseteq Eligible
  /\ grants[i].categories \subseteq Automatable
  /\ grants[i].by # Producer[t.proposal]

\* The category of attempt t and each of its paths are named by grants its
\* line counts and that stood.
Covered(t) ==
  LET standing == {i \in t.counted : i <= t.held /\ Standing(t, i)} IN
  /\ \E i \in standing : Categorise(t.proposal) \in grants[i].categories
  /\ \A f \in Permitted(t.proposal) : \E i \in standing : f \in grants[i].paths

\* Whatever is written to the grant ledger, by whatever hand, and whatever
\* becomes of a grant afterwards: a merged change was of a category, and
\* within paths, that grants standing at its start name, and its line names
\* them (autonomyGates over policyInForce, base.grants).
MergedWasGranted ==
  \A n \in DOMAIN tried : tried[n].outcome = "merged" => Covered(tried[n])

\* No attempt writes the legal record, though a grant may name it: the field
\* gate wants every operation on it to name a field, and applyProposal takes
\* no target that does.
LegalRecordUntouched == wrote \subseteq Docs

\* A person committed on the branch attempt n cut.
ByHandOn(n) == \E c \in DOMAIN commits : commits[c].by = 0 /\ commits[c].on = n

\* The action ledger tells what is in the branches, over crashes, exceptions
\* and whatever git refuses: the change of a merged line is in the branch it
\* names, and there is no commit of any other line.  It does not tell which
\* branches are left over: one is only of an attempt without a line, or a
\* person works on it, or git would not go back or delete it, which abandon
\* keeps to itself (isolate.mjs:133-144, recordAction).
LineTellsTheBranch ==
  \A n \in DOMAIN tried : LET t == tried[n] IN
    /\ t.outcome = "merged" =>
         t.origin \in DOMAIN past /\ \E c \in past[t.origin] : commits[c].by = n
    /\ t.outcome \in Unmerged => \A c \in DOMAIN commits : commits[c].by # n
    /\ n \in DOMAIN past => \/ t.outcome = "none"
                            \/ ByHandOn(n)
                            \/ n \in balked

\* "Seven steps that either all happen or none of them stays" (cycle.mjs),
\* where the runner gets to say so: all it may leave of what it wrote is a new
\* file somebody staged, whose copy in the index the rollback forgets, and
\* the branch it started from is checked out, unless a person committed on
\* the one it cut or git would not go back (apply.mjs:200-207).
NoneOfThemStays ==
  pc \in Unmerged =>
    /\ wrote \subseteq Created \cap staged
    /\ head = Origin \/ ByHandOn(This) \/ This \in balked

\* No line was added since the attempt began, or one was and the scope check
\* cannot tell it from what was there before.
NoLineToSee ==
  \/ Len(grants) = Current.held
  \/ GrantLedger \in before
  \/ \E c \in DOMAIN commits : /\ c > Current.base
                               /\ commits[c].by = 0
                               /\ GrantLedger \in commits[c].files

\* The policy is read once, before minutes of checks.  A revocation recorded
\* from then until the scope check that follows them stops the attempt all
\* the same, because the ledger is in the tree and out of its scope, unless
\* the ledger had lines that were not committed when the branch was cut, or
\* the line is committed under the attempt.  One recorded later, before the
\* merge, stops nothing (cycle.mjs:301, 474).
EarlyRevocationStops == [][pc = "applied" /\ pc' = "passed" => NoLineToSee]_vars

LeavesTheirWork ==
  \A f \in before \cap dirty :
    f \in dirty' \/ (pc' = "committed" /\ f \in staged)

\* What a person was working on when the branch was cut outlives the attempt:
\* no step of the runner cleans it, neither a rollback nor its commit, except
\* that the commit takes what a person had staged (openContext, rollback,
\* commitChange).
WorkInProgressIsKept == [][pc' # pc => LeavesTheirWork]_vars
=============================================================================
