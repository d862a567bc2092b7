# EU Digital Policy: the decision path, verified

The repository is a static website about EU digital law together with the
machinery that maintains it: agents that find, verify and propose changes, an
Orchestrator that routes them, a private Control Room where people decide, an
implementation agent and a dispatcher that carry out what was decided, and a
gate in front of publication. What makes it correct is one sentence: **nothing
reaches the published branch that a person did not grant, in the content and the
files the grant was about.** The modules here model the parts that sentence
depends on, and the scheduled machinery that feeds them; TLC checks them on small
instances, and TLAPS proves what matters most of them for every instance.

1. [The system](#1-the-system): its components, their state and operations
2. [The modules](#2-the-modules): which module models what, and how
3. [The runs](#3-the-runs): what is checked, with which bounds, and what it shows
4. [The proofs](#4-the-proofs): what is proved, from what, and how
5. [What the models say of the code](#5-what-the-models-say-of-the-code)
6. [What is not modelled](#6-what-is-not-modelled)
7. [The plan](#7-the-plan)

Paths below are the repository's, without the leading `src/`.

## 1. The system

Everything is Node.js without dependencies, on files: there is no database, no
lock and no queue. Concurrency is of three kinds: separate OS processes on the
same files (command lines, the Control Room server, agents), callbacks and awaits
in one process (the server's requests, the Orchestrator's dispatchers), and a
person in the same git clone. Each file is read whole, and either appended to
(`*.jsonl`) or replaced by a rename.

    agents --records--> record store <------ read by everything
                             |
         event --> Orchestrator --stage--> agents, gates, a person
                             |
      reviewer --> Control Room --recordDecision--> decision ledger <-- command line
                   operators, audit trail                |
                                                         v
                     implementation agent <-- dispatcher, in a git clone
                                                         | commit + trailers
                                                         v
                               main --> deploy gate --> published
                                 ^
      grant ledger --policy--> limited autonomy, in the same clone

      schedule --> Source Scout --digest branch, pull request--> people
               --> improvement cycle --> cycle ledger --> the next cycle

| Component | State | Operations | What is hard | What makes it correct |
|---|---|---|---|---|
| **Decision ledger** `agent/implement/ledger.mjs`, `attestation.mjs`, `agent/scout/store.mjs` | `decisions.jsonl`, a tracked hash-chained file; the git-ignored record store | `recordDecision` (read records, read and verify the ledger, append), `deriveApproval`, `verifyChain` | several processes on one file without a lock; a crash in an append; a proposal that is edited, lost or regenerated between the reads | an approval is of the content it names, a denial stands, a fork is bounded, a recorded decision is readable |
| **Control Room: review, audit trail** `.control-room/decide.mjs`, `audit.mjs`, `server.mjs` | what a reviewer is shown; the trail's daily files, one hash chain | `POST /api/review`: seven gates, `recordDecision`, an audit entry; `AuditLog.record` | the version shown, judged and recorded are read at three moments; the ledger line precedes its trail entry; two processes on one trail | a reviewer's name is only on what they saw; the trail tells nothing the ledger does not hold; a proposal is decided once |
| **Control Room: operators** `identity.mjs`, `authz.mjs`, `authn.mjs`, `cli.mjs` | the operator registry (one file, replaced whole), sessions, the actor of a request | provision, grant, revoke, disable, enable; login; resolve, act | commands and logins overwrite each other; a request acts on an actor resolved before its body was awaited | an administrator remains; nobody acts with a permission nobody gave; removing access removes it |
| **Orchestrator** `agent/orchestrator/orchestrator.mjs`, `state.mjs`, `workflows.mjs`, `capabilities.mjs` | one workflow per event: state, stages; its journal | `handle()`: open, classify, plan, gates, dispatches, settlement, catch | every outcome of every stage in ten types; appends that fail; a crash; two intakes with one id | only permitted transitions; no agent past a stage that did not pass; an end state that says what happened; it ends |
| **Implementation agent** `agent/implement/implementer.mjs`, `apply.mjs`, `scope.mjs`, `preflight.mjs` | files of the clone, the change context | preflight, `openContext`, `applyProposal`, checks, `enforceScope`, `rollback` | an exception between two writes; somebody else's changes in the same tree | the change stays in the proposal's files or leaves nothing |
| **Dispatcher** `agent/release/dispatch.mjs` | a branch, the index, HEAD, a commit with trailers | isolate, implement, compare paths, commit or undo, return | minutes long, in a clone people work in; may die, fail or be repeated anywhere | nothing is done twice; the commit is of what was granted |
| **Deploy gate** `agent/release/gate.mjs` | none of its own: reads history and the ledger at main's head | `judgeAgentChanges` on each commit that carries trailers | decisions, denials, ledger commits and merges reach main in any order | passes only what was granted and not withdrawn; accepts what was dispatched properly |
| **Lifecycle, workflow audit** `agent/release/lifecycle.mjs`, `workflows.mjs` | none | derives the state of a proposal; reads workflow files for a second way to publish | it joins the ledger checked out, the records and main's history, which move apart | what it calls published is on main, in the content there is |
| **Limited autonomy** `agent/autonomy/` | `autonomy/<id>` branches, the index and tree, an action ledger (git-ignored) | gates, isolate, apply, checks, scope, policy, commit, merge or revert, one line | seven steps that "either all happen or none of them stays", over git, with exceptions nothing catches, in a tree a person works in | what is merged was granted; the line agrees with the branches; what is not merged leaves nothing; nobody's work is lost |
| **Autonomy policy** `agent/policy/` | the grant ledger `grants.jsonl`, tracked | `recordGrant`, `validateGrant`, `activeGrants`, `policyInForce`, categories, field gate, triggers | lines written by any hand; grants that lapse, are revoked or become invalid as records come and go; joined field by field | what is automatic was allowed by a person, in grants that stood |
| **Improvement loop** `agent/improve/` | a tracked cycle ledger | observe (eight observers), compare, triage, record; `history` | cycles of several processes overlap; observers fail, are left out or have no input; lines are torn; corpus and pages are read at different moments | a movement told took place, but for a box the editor saw halves of; cycle and `history` tell the same |
| **Observability** `agent/observability/` | trace files, in-memory spans | spans, events, hand-offs, redaction, query | spans that never end; events on a run already closed; lines cut by a crash | a trace reconstructs the run |
| **Intake, conflicts, corroboration** `agent/orchestrator/events.mjs`, `conflict.mjs`, `approval.mjs` | none | strips and refuses fields, compares records, joins ledger and trail | the trail lags behind the ledger, and is lost where the server dies | no event carries authority; a decision the server took is vouched for |
| **Source scout** `agent/scout/`, `.github/workflows/source-scout.yml` | record files; digests on main and on `scout/digest-*` branches | a scheduled run: collect digests, discover, cross-check, write a digest; a second job: push, open a pull request | no memory but the branches, which people merge, close and delete while runs wait; a job that fails half way | what was proposed is not proposed as new; what is set aside was shown to people |
| **Schemas and gateway** `agent/schemas/` | none | `emit`, `receive`: validate and throw | — | no record passes without validation |
| **Verifier, integration, detector, depth, architect, UX** | none | read the repository, emit records | — | they write no canonical data |
| **Health, browser suite, readiness** | a git-ignored history | measure | a browser process | a run that could not run is not a pass |
| **Simulation** `agent/simulation/` | temporary directories | the real Orchestrator with simulated agents | — | touches nothing real |
| **Public site, tools, other workflows** `app.js`, `js/`, `tools/`, `.github/workflows/` | static | rendering; validation; deployment | — | — |

The hazards of this code, each at its line and with the property that catches
it, are the list `hazards` of `PROJECT.json`.

## 2. The modules

    DecisionLedger    <--EXTENDS-- ControlRoom
    OperatorAccess
    WorkflowLifecycle <--INSTANCE-- Workflow <--constants-- WorkflowTable
    WorkingClone      <--EXTENDS-- Release
    AutonomyPolicy    <--EXTENDS-- Autonomy
    ImprovementLoop
    ScoutSchedule
    DecisionLedgerProofs <--EXTENDS-- ControlRoomProofs
    OperatorAccessProofs, WorkflowProofs, ReleaseProofs, AutonomyProofs,
    ImprovementLoopProofs, ScoutScheduleProofs:
    each ...Proofs EXTENDS the module it is about
    MC...: the instances TLC checks, one module for each component

Operators marked *Mutant* or *Mistake* are definitions a plausible bug would
have led to. No specification uses them: substituted for the definition that
follows them, each makes TLC refute the property it belongs to
(`PROJECT.json`, `mutants`).

### DecisionLedger

A proposal is its id and its content a version number, which stands for
`proposalFingerprint`. `store[p]` is what a reader of `agent/records` finds,
`latest[p]` what the producing agent wrote last: they differ because each run
writes a file named by a random trace id and readers keep the record of the file
that sorts last (`store.mjs:74-95`), so `Propose` may leave the reader's version
where it was. A ledger entry carries `after`, the number of entries its writer had
verified; position and `after` together stand for `seq` and `prev_entry_sha256`,
and `Linked(i)` is what `verifyChain` tests.

`recordDecision` is synchronous but touches the disk three times, so it is three
actions of a process: `CheckRecords` (producer, known agents, a request on
record), `ReadLedger`/`RefuseLedger` (verify, build the entry on the last line),
`AppendEntry`. A process may `Die` between them, and in the middle of the append.
`Write(e, upto)` is what of an entry reaches the file: the line, all of it but the
newline, or a part. `tail` says what the file ends in. A last line without its
newline still parses, so the ledger verifies and the next entry is glued to it:
then both are lost, and `garbled` says that a line nobody can parse stands in the
file. `recorded` counts what people were told is recorded.
`DeriveApproval` keeps the order of the code's early returns. It takes whatever
parses; `Standing` is what a reader holds that verifies the ledger first, as
dispatch and the deploy gate do. `GrantFollowsNoEdit` and
`OnlyADecisionLiftsADenial` are about the latter: after a torn line is glued to a
denial, `DeriveApproval` may well return to an older grant, and `Standing` is
"unreadable" then, and remains so.

### ControlRoom

Extends the ledger with the server as one of its writers. `Display` is the
review queue; `Decide`, `RequestChanges` and `RefuseDecision` are the outcomes of
`decide()`; `ServerRecorded` and `ServerRefused` what follows `recordDecision`.
`decide()` awaits nothing, so while the server is inside it only other processes
act: the command line (`CommandLine`), agents, and `.control-room/cli.mjs`, which
writes the same trail. `AuditLog.record` reads the head and appends: two actions,
`ReadHead` and `AppendTrail`, of every process that audits. `owed` holds the entry
between the two, and is lost when the process dies; `forgotten` keeps which lines of
the ledger lost their entry so. `Corroborate` is the Orchestrator's reader of the
two (`approval.mjs:210-236`): whether the last decision on a proposal reads as
authenticated.

### OperatorAccess

`registry` is the operators file. A command is `Grant`/`Revoke` (look the operator
up), `SetRoles` (read again, refuse to leave no administrator), `WriteRegistry`
(the rename); `Provision` and `SetDisabled` have no separate look-up. `snapshot` is
the registry a process is about to write. `Login` snapshots too, because
`touchOperator` writes `last_seen_at` with the rest of the file. `Resolve` is the
actor of a request at its headers and `Act` what it does once its body has
arrived.

### WorkflowLifecycle, WorkflowTable, Workflow

`WorkflowLifecycle` is what `state.mjs` promises: the states and the transitions.
`WorkflowTable` holds `WORKFLOWS` and `CAPABILITIES` as the code has them.
`Workflow` is `handle()`: one action for each way a stage can go, each ending in a
line of the journal. A line that cannot be written throws into the `catch`
(`Appended` has both cases); `Transition` sets the state first, as
`state.mjs` does, and asserts nothing: that only permitted transitions are
asked for is the refinement, not a guard. An event stands for its content and its
instant, from which `workflowIdFor` derives the id, so two calls about one event
share a journal file. Records are their contracts; a dispatcher may give any subset
of what its grant allows, nothing admissible at all, or throw.

### WorkingClone, Release

`WorkingClone` is git as the dispatcher uses it. A commit is the paths it
changes, the ledger of its parent, and its trailers; a working tree is the paths
that differ from HEAD and from the index. Paths are all the dispatcher and the gate
compare, so contents are left out, except of the ledger, whose lines decide.
`Switch`, `Merge`, `DeleteMerged` refuse where git refuses.

`Release` puts the dispatcher on it, one action per stage that reads or writes
the disk: `Start` (read the records once), `Approve` (verify the ledger, derive
the approval), `Isolate` (is there a dispatch with this key? cut a branch),
`Write` (the implementation agent opens its context and edits), `PassChecks` or
`Revert`, `Undo` or `Commit`, `Return`. Each stage has its refusal; `WriteBreaks`,
`CheckBreaks` and `CommitRefused` are exceptions, `Die` the end of the process.
`Back` is the code's `back()`: where git refuses to check the origin out, the
branch is not deleted either. Between any two steps people edit, stage and
discard files, record decisions, commit the ledger and merge, and agents write
new contents. `Refused(i, lines)` is `judgeAgentChanges` for commit `i`;
`GatePasses` asks it of every agent's commit on main. `content` and `grant` in a
commit are history: what was applied and under which line of the ledger.
`Tick` lets time pass at any step; a decision and a commit carry the time they were
made, on one clock that does not go back, and an approval lasts `MaxAge`. The gate asks
for that (`InTime`) and the dispatcher does not. Left out of `Refused` are a missing
trailer, which the dispatcher's commits do not lack, and what is asked of a line's
provenance, signature and signer, which the dispatcher asks before it commits: every
line here is signed by a reviewer who is and stays registered.
`Lifecycle` is `lifecycleOf` for a proposal that was decided on: it reads the ledger
that is checked out, the records, and with `PublishedUnder` main's history.

### AutonomyPolicy, Autonomy

`AutonomyPolicy` is the policy of `agent/policy` as functions of three variables:
the lines of `grants.jsonl`, the time, and the records a reader finds. A grant's id is
its position. `Content[p]` is what the policy asks of a proposal's record: its
operations with the file and the field each target names, the paths it names
besides, and verdicts on the record alone, taken together as `sound`. `Valid`,
`Revoked`, `Active`, `InForce`, `Categorise`, `FieldsPermitted`, `Triggered` and
`AutonomyGates` follow the functions they are named for.

`Autonomy` is `runCycle` with `--execute`, one action for each step that touches
git, the tree or the action ledger, in a clone where a person edits, stages,
discards, commits and switches branches, and where anybody appends to the grant
ledger: `RecordGrant` through `recordGrant`, `WriteAround` with an editor. A file is
as its branch has it or it is not (`dirty`), in the index or not (`staged`); what the
runner wrote is history (`wrote`). `Applicable` and `Files` keep the three ways in
which the code reads an operation's target: `permittedFiles` strips the field,
`fieldOf` takes it, `applyProposal` takes the target whole. `Outside` is
`enforceScope`. `Undo` is the rollback: a permitted path there was is restored in the
tree and in the index, one there was not (`New`, `Created`) is removed from the tree
alone. `Abandon` is the way back to the branch the run came from and the deletion of
its own; git may refuse either, because work is in the way or for a reason that is
not in the model, the run writes its line all the same, and `balked`
(history) marks the attempts git refused for no reason of the model's. `Die` is the end of
the process, and also every exception: nothing in `runCycle` catches one.

### ImprovementLoop

A cycle of `agent/improve`, of any number of processes: `Begin` takes the time and
loads the corpus, the observers have their turn in order (`Depth`, `DataProposals`,
`Editorial`, `UX`; `DoesNotRun` where one is left out or throws), `Compare` looks up the
previous cycle and tells what moved, `WriteCycle` appends the line. `StopWriting` is a
crash in the append. The tree changes between any two steps: `Change` mends or breaks a
thing in the corpus or in the pages, `Reword` changes what a page says of a box, the claims
of it, or both. `data-proposals` works on what `depth` found and does not run where that is
nothing; `ux` looks at the tree when its turn comes, as `architect` does, whose
`readModel()` loads everything afresh; `editorial` reads the pages when its turn comes and
holds them against the claims of the start (`held`, `Disagreeing`). An entry carries as
history what was in the tree at some time of its pass, and the boxes of which the label and
the claims were both other ones by the editor's turn (`mixed`), so that a report can be held
against it. `Above` is the pairing `cli.mjs history`
makes, by line; `Previous` the one of a cycle, by instant.

### ScoutSchedule

The scheduled Scout with the workflow that runs it. A run is what it was given when
it was triggered (the commit at main's tip, so the digests and sources in it) and what it
made of that. `Trigger`, `Start` and the slot `waiting` are GitHub's concurrency group.
`Collect` copies the digests of the branches, `Scout` finds documents, crosses them with the
sources and the earlier digests and writes a digest, `Push` and `Create` are the
second job, `Fail` ends a run anywhere and `Rerun` starts its second job once more.
People `Merge`, `Close`, `DeleteBranch` and `Promote` in between. `Alike` is the match
by address or title, `Unmatched` the candidates left.

## 3. The runs

Sizes are of complete state spaces, within the constraints a run names. Deadlock is
checked but in three runs, whose systems end: `workflow_stages` (its calls return),
`improvement_cycles` and `scout_schedule` (their cycles, changes and runs are bounded).

| Run | Asks | States | Shows |
|---|---|---|---|
| `ledger_two_writers` | `TypeOK`, `ForkBounded`, `LossBounded`, `GrantFollowsNoEdit`, `OnlyADecisionLiftsADenial` | 284 000 | two processes race, crash and tear lines around a proposal with two contents: the fork and what is lost stay as small as the writers; while the ledger verifies, an approval follows no edit and only a decision lifts a denial |
| `ledger_stale_version` | `AnEditEndsAGrant` | violated | an approval outlives an edit made after it when the edit's file sorts first |
| `room_review` | `RoomTypeOK`, `DecidedWasShown`, `TrailTellsTheLedger`, `ServerDecidesOnce`, `ServersDecisionsAreVouched`, `OnlyAnotherProcessBreaks` | 2 170 000 | a reviewer, a command line and an administrator, and what a reader of ledger and trail makes of them |
| `room_denial` | `NoApprovalOverADenial` | violated | a command line denies between the server's gate and its append |
| `access` | `TypeOK`, `AnAdministratorRemains`, `ActsWereGiven` | 146 000 | two commands, logins and a request in flight |
| `access_login` | `ALoginEnablesNobody` | violated | a login restores a disabled account |
| `workflow_stages` | `TypeOK`, `NothingSteppedOver`, `EndTellsTheRun`, `JournalTellsTheWorkflow`, `LifecycleOfEach`, `Ending` | 18 500 | all ten types, three wirings of agents, a fault and a crash anywhere |
| `release_publish` | `TypeOK`, `OncePerKey`, `WhatPassesWasGranted`, `GateAcceptsTheDispatched`, `PublishedIsOnMain`, `FailureLeavesNothing`, `RefusedForGood` | 1 600 000 | dispatches in a clone that changes under them, or that come too late, and what the gate and the lifecycle make of it |
| `release_ledger` | `NeverWritesTheLedger` | violated | a decision recorded during a dispatch is erased |
| `autonomy` | `TypeOK`, `MergedWasGranted`, `LegalRecordUntouched`, `LineTellsTheBranch`, `NoneOfThemStays`, `EarlyRevocationStops`, `WorkInProgressIsKept` | 787 000 | changes under grants with nobody deciding on them, a person in the same tree, any hand on the grant ledger, an exception anywhere |
| `improvement_cycles` | `LoopTypeOK`, `MovementIsReal`, `HistoryTellsTheReports` | 677 000 | two processes whose cycles overlap, observers that fail, torn lines |
| `scout_schedule` | `ScheduleTypeOK`, `NewToTheMemory`, `SetAsideWasOffered` | 6 220 000 | two scheduled runs, re-runs, and people who merge, close, delete and promote meanwhile |

### Bounds, and why they are enough

* **Ledger.** Two writers are enough to fork, and the proof removes the bound. Two
  versions tell an edit from no edit and let an edit be taken back; three entries
  allow a grant, a denial and a third decision raced by both. `MaxEntries` stops
  the *beginning* of a decision, so a race at the limit still appends.
* **Control Room.** One proposal of two versions, one reviewer, two entries: a
  version displayed, replaced and displayed again, and a decision of either
  process before or after the other's. Only the last version passes preflight, so
  gate 6 has both outcomes. `MaxTrail = 1` stops what is begun, and the trail grows
  past it by what was under way. `MCTwoAtATime` leaves out states where all three
  processes are in the middle of something: every hazard here is of two.
* **Operators.** Two operators, two roles, two commands, one request, the server:
  two commands that each count the other's administrator need no more.
  `MCTwoAtATime` again; commands are interchangeable (symmetry; `access` checks no
  liveness).
* **Workflow.** One call for each type and each of two events only their subject
  classifies, with all agents wired, with none and with all but two; a second call
  about the same event (`MCTogether`). `MaxFaults = 1` is one append or store read
  that fails, anywhere; any number of processes may crash.
* **Release.** Two files, of which one only the second content names and people
  edit too: in scope, out of scope and dirty beforehand all occur. Two entries and
  two commits: an agent's commit and a ledger commit, or two agents' commits
  (`OncePerKey`). The constraints: contents go forward (`MCForward`; back and forth
  is checked on the ledger, where it matters); merges wait for the dispatch
  (`MCMergeBetween`; a merge changes main alone, which no step of a dispatch reads or
  writes); the first decision is a grant (`MCFirstGranted`; after a first denial
  nothing is dispatched until one); time passes once, as soon as the first decision is
  committed and before anything else, and an approval then is too old
  (`MCTickBetween`, `MaxAge = 0`; so grants acted on in time, too late, and granted anew
  all occur). A denial *after* a publication and a second grant
  of the same content need more entries and commits than these; `RefusalIsForGood` is
  proved for any number.
* **Autonomy.** One proposal that rewrites a page and adds one, and one on a field of
  the source register; a
  person's grant for each, a grant the proposing agent wrote for itself and that
  reaches the grant ledger, and a revocation; two dates. `MCHorizon` lets
  lines, attempts and commits by hand add up to three, with nothing after the
  attempt that is the third: a grant, its revocation before or during a run, a
  person's commit on the branch of a run, a second attempt after a merge. In
  `MCHands` a person works on the pages and on the ledger, and in `MCOnlyTheRunners`
  stages, discards and commits the new page without writing one first; in `MCDates` the clerk's own
  grant lasts, which is the worse case; in `MCClock` no time passes during a run,
  which reads the clock at its start alone. The theorems have none of these.
* **Improvement loop.** One gap with a proposal, one flaw and one box with two labels, each
  borne out by claims of its own; three cycles of two interchangeable processes: a finding
  that comes and goes, a cycle compared with the one before the last. `MCTwo` allows two
  changes of the tree, torn lines and absent observers in all: two changes in a row, one
  on either side of an absence or of a crash, an observer missing in either of two
  cycles or in both. A box mixed up takes one change. `MCMore` ends a behaviour with its
  last cycle, after which nothing looks at the tree. The theorems have neither.
* **Scout.** Two documents under one title and one alike to none, two runs and any
  number of re-runs: the second run meets every fate of the first one's digest.
  A third run would only choose among two digests, which it reads as one set.

### Fairness

Only `Workflow` has liveness. `WF_vars(Steps(h))` for each call says that a
process that has not died goes on, which Node's event loop gives, and that an
awaited dispatcher returns or throws. The code has no timeout around the
dispatcher (`orchestrator.mjs:478`): a dispatcher that hangs leaves the
workflow `in_progress` for good, and `Ending` says nothing of it. `Crash` is not
fair and never forced. Nothing else in the code promises progress: decisions,
commands, dispatches and attempts start with a person, a scheduled run may be
cancelled or fail at any step, and no cycle waits for another.

## 4. The proofs

TLAPS checks every leaf of the eight proof modules. The theorems hold for any
number of proposals, writers, operators, workflows, files, lines, commits, cycles
and scheduled runs; the bounds of the specifications (`MaxEntries`, `MaxCommits`,
`MaxFaults` and the like) are any numbers. Every invariant and every action property
that a passing run checks is the subject of one of them.

| Theorem | Of | Rests on |
|---|---|---|
| `DecisionLedgerProofs!TypeCorrect` | `TypeOK` | itself inductive |
| `ForkStaysBounded` | `ForkBounded` | `ForkBudget` |
| `LossStaysBounded` | `LossBounded` | `LossBudget` |
| `OneWriterIsSafe` | `OneWriterNeverForks`, stated with it | `SoleWriter` |
| `DenialStands`, `GrantIsOfTheContent` | `OnlyADecisionLiftsADenial`, `GrantFollowsNoEdit` | types, `StepsOnTheFile`, `UnreadableStays` |
| `ControlRoomProofs!RoomRunsTheLedger` | the ledger's `Spec`, which `RoomSpec` refines | `ScreensAreContents`, types |
| `RoomIsTyped`, `NobodySignsUnseen` | `RoomTypeOK`, `DecidedWasShown` | `RoomInv` |
| `TrailIsBacked` | `TrailTellsTheLedger` | `RoomInv` |
| `OneDecisionThroughTheServer` | `ServerDecidesOnce` | `RoomInv`, `DecidesFirst` |
| `ServerIsVouchedFor` | `ServersDecisionsAreVouched` | `RoomInv`, `EveryLineIsVouchedFor` |
| `OneProcessChains` | `OnlyAnotherProcessBreaks` | `RoomInv`, `OthersAppendedSince` |
| `OperatorAccessProofs!TypeCorrect` | `TypeOK` | itself inductive |
| `AdministratorAlways` | `AnAdministratorRemains` | `EveryCopyHasAnAdministrator` |
| `ActsAreGiven` | `ActsWereGiven` | `EverythingWasGiven` |
| `WorkflowProofs!TypeCorrect` | `TypeOK` | `FlowInv` |
| `Implements` | `LifecycleOfEach` | `FlowInv` |
| `NeverSteppedOver` | `NothingSteppedOver` | `WayInv` |
| `EndsTellTheRun` | `EndTellsTheRun` | `WayInv`, `RunInv` |
| `JournalIsThePath` | `JournalTellsTheWorkflow` | `JournalInv` |
| `ReleaseProofs!TypeCorrect` | `TypeOK` | `StageTells` |
| `NothingTwice` | `OncePerKey` | `HistoryTells` |
| `PassedIsGranted`, `DispatchedIsAccepted`, `RefusalIsForGood` | `WhatPassesWasGranted`, `GateAcceptsTheDispatched`, `RefusedForGood` | `LedgersTell`, `HistoryTells`, `TimesTell` |
| `PublishedIsPublished` | `PublishedIsOnMain` | `HistoryTells` |
| `NothingIsLeft` | `FailureLeavesNothing` | `HistoryTells` |
| `AutonomyProofs!TypeCorrect` | `TypeOK` | `Inv` |
| `MergesAreGranted`, `LegalRecordIsSafe` | `MergedWasGranted`, `LegalRecordUntouched` | `Inv` (`Gated`, `Written`) |
| `LinesTell`, `NothingStays` | `LineTellsTheBranch`, `NoneOfThemStays` | `Inv` (`Isolated`, `Attributed`) |
| `EarlyRevocation`, `WorkIsKept` | `EarlyRevocationStops`, `WorkInProgressIsKept` | `Inv` (`LedgerShows`, `Written`) |
| `ImprovementLoopProofs!LoopTypeCorrect` | `LoopTypeOK` | `LoopInv` |
| `MovementsAreReal` | `MovementIsReal` | `SeenInv` |
| `HistoryIsTheReports` | `HistoryTellsTheReports` | `TellInv` |
| `ScoutScheduleProofs!ScheduleTypeCorrect` | `ScheduleTypeOK` | `ScheduleInv` |
| `AsideWasOffered`, `NewIsNew` | `SetAsideWasOffered`, `NewToTheMemory` | `MemoryInv`, `AsideInv` |

### The inductive invariants

* **`ForkBudget`.** A fork of size *n* needs *n* + 1 writers that verified the
  same ledger. The bound alone is not inductive, because it says nothing of the
  writers about to append; the budget counts the entries off the chain *and* the
  writers between verifying and appending: together they never exceed the
  writers there are, once there is a fork at all. After the first entry off the
  chain no ledger verifies, so no writer joins them.
* **`LossBudget`.** While every line of the file parses, only an entry without its
  newline tells the reported from the readable apart. Once a line does not,
  nobody verifies any more, and the writers that already had are what is left to
  lose entries: each loss of two takes a writer that dies before the newline and
  one that is glued to it. The budget counts twice the loss, the writers about to
  append, and what the end of the file may still cost.
* **`StepsOnTheFile`, `UnreadableStays`** are the two facts the approval's theorems rest
  on: a step that changes the file while it verifies, before and after, adds one whole
  decision to it and nothing else, and a file that does not verify never does again.
  So the last readable decision on a proposal is never an older one, as long as the file
  is one a careful reader reads at all.
* **`SoleWriter`.** With one writer, what it verified is what is there when it
  appends, so nothing breaks the link.
* **`RoomInv`.** The server's lines stay in the ledger, whatever other processes do to
  it: a line the server was told was written ends in its newline
  (`ServersLinesHaveAnEnd`), so the one line a crash may still take is never one of its
  own. While `recordDecision` runs, the server owes the trail nothing and what it
  decides was shown to its reviewer (`BusyOnWhatWasShown`): this carries the version
  from the screen over the three reads to the line. `RoomTypeOK` is part of it, and is
  not inductive alone: that the server's lines are positions of the ledger depends on
  which lines a crash can take.
* **`DecidesFirst`.** A decision in the server's hands is on a proposal that no line of
  its own is on. `deriveApproval` gives that when the decision is taken on, and no
  request is let in before it is appended; what other processes append meanwhile is
  no line of the server's. `ServerDecidesOnce` says nothing of the draft.
* **`EveryLineIsVouchedFor`.** Each line of the server's has an entry that vouches for it
  in the trail or in the server's hands, unless it died with the server. Such an
  entry names the content and not the line, so the one that vouches may be an
  earlier one: the invariant asks for no more, as `corroborate` does.
* **`OthersAppendedSince`.** Since a process read the head of the trail, only others have
  appended: hence an entry that does not link has another's before it.
* **`EveryCopyHasAnAdministrator`.** The checks of `setRoles` and `setDisabled`
  are made on a copy that may be stale when it is written. They suffice because
  each copy any process holds has an administrator of its own, so whichever is
  written last does too.
* **`EverythingWasGiven`.** Every copy of every role, in the registry, in a
  snapshot, in a command or resolved in a request, was given by a command once.
* **`FlowInv`** says for each place in `handle()` what it holds of the workflow:
  its state, its stages so far, whether it may still be halted. The refinement
  needs it because `Transition` asserts nothing: that `state.mjs` permits each
  transition asked for follows from where it is asked. **`WayInv`** adds that a
  call which has not halted has every required stage behind it passed.
* **`RunInv`.** `EndTellsTheRun` speaks of end states, which are reached in one step
  from a `halt` set many stages before. So the halt itself has to show in the stages
  while the rest of them are recorded as not reached (`Shown`), and an exception on its
  way to the `catch` is a fault already counted (`Told`).
* **`JournalInv`.** A line does not name the one before it, and lines of two calls with
  one id are interleaved and may be missing. What can be said of a line alone is
  `LineTells`: its call's opening line stands in the same journal, the line with
  the next number starts where it ended, and where its call has numbered no later
  one it ended where the workflow is. In a journal without gaps two opening lines cannot
  both be, so one call wrote all and its lines stand in the order of their numbers.
  That replay then gives the last line's state is `ChainReplays`, by the first
  position after which it would not.
* **`StageTells`.** From the approval on, a dispatch has a grant of the content
  it read; from the isolation on, HEAD is on its own branch, which is neither of
  the permanent ones nor the one it came from. Nobody switches branches under a
  dispatch in the model; this is its one assumption on people, and the code
  makes it as well.
* **`LedgersTell`.** The ledger is one history. Each branch's ledger continues
  the ledger of each of its commits, and is that of one of them; the working
  tree's continues the one checked out. This is what a checkout relies on:
  where git lets a changed ledger through, the two branches differ in no commit
  of the ledger, so they have the same (`SameLedger`). It is also why a line the
  gate cites from the parent of a commit is a line of main's ledger, in the same
  place (`CitedIsOnMain`), and why main's ledger is only ever continued
  (`MainContinues`).
* **`HistoryTells`.** A dispatch under way still has, at its place in the
  working tree's ledger, the grant it found, because while it runs that ledger
  is only appended to; nothing committed under its key can be reached, because
  nobody else commits dispatches; its own files were clean when it began. So the
  commit it makes names the content that was applied, and the line it was
  applied under if the parent's ledger is long enough to hold it. A branch that
  is deleted takes commits out of reach, and no step brings any back.
* **`TimesTell`.** On each branch, in the working tree and before each commit, decisions
  stand in the order of their times, none later than now or than that commit. The gate
  cites the last granting line, which need not be the one the dispatch acted on: being
  later in the file it is later in time, so it is in time if that one was.

* **`Inv` of autonomy** has a part for each thing a run relies on while others act.
  `Branches`: an attempt's branch is its own, and the branch it began on is still
  there. `Held`: it looked at lines and commits that exist, and lines are only
  added, so what stood when it began is told from the ledger for good. `Gated`: past
  the gates an attempt is covered by standing grants, and names fields a grant may
  name; this does not restate the gates, because the union the gates look at has to
  be traced to single grants that stand. `Written`: what the runner wrote is in the
  files of its proposal, none of which a person had been working on when it began,
  and after a rollback is new and staged or not there.
  `LedgerShows`: a line added during a run is in `git status`, or was there
  before, or a person committed it; no action but a commit or the runner's own cuts
  takes it out. `Isolated`: until it commits, its branch has what it was cut from and
  commits by hand; afterwards its commit is there, or is merged; and a branch that
  outlives its attempt has a commit by hand, or git refused. `Attributed`: a
  commit of the runner is of an attempt under way, merged or without a line.
* **`LoopInv`** counts: lines and cycles under way together are no more than instants
  taken, which a crash that glues two lines leaves true. What can be read are
  entries, what cannot holds nothing.
* **`SeenInv`.** An entry is real if what it found was in the tree at some time of its
  pass, and what an observer that ran could have found and did not was at some
  time not (`Real`). While a pass lasts, what is in the tree now is among what it has
  met (`Watches`), and so is the corpus it was loaded with, which is what `depth` reads
  when its turn comes. What `editorial` finds of a box is real if the label is the one of
  the start, for then it tells of the start, and if the claims are, for then it tells
  of its own turn: what is left is `mixed`. A report is about two such entries.
* **`TellInv`.** No two cycles, recorded or under way, have one instant, so `previous`
  names one line. `Tells` says of a report what stays true while lines are added: of
  the lines it saw, no readable one is both earlier than its cycle and later than the
  one it names. A torn line only takes lines away.
* **`ScheduleInv`, `MemoryInv`, `AsideInv`.** A digest on a branch was offered to people, or
  its run failed, or is at its second job (`Seen`). A run that is about to look has
  collected every branch there is, if it could fetch them: nobody else pushes
  meanwhile, because the concurrency group lets one run at a time work, and a re-run
  takes that place too. So what a run sets aside was met in a digest that was seen,
  and what it calls new in none it could have had.

`RefusalIsForGood` needs all of the release's: a refusal for a missing or out-of-scope line
is fixed in the commit; one for a denial is kept because the denial's place in
main's ledger is; and the one reason that could go away, a citation main does not
hold, never arises.

### Assumptions

All are named `ASSUME`s of the modules, which TLC evaluates in the runs. Bounds
are naturals, and there is at least one version. The writers are finitely many.
An entry that is owed to the trail is not the value that stands for none.
No producer is a person (`ledger.mjs`, `KNOWN_AGENTS`). The first administrator
is an operator, and every role has permissions. The tables of workflows pass what
the code checks when it loads them, and an event declares a type there is
(`events.mjs`). Beyond that check, a person is in each table the last stage and no earlier
one (the check at `workflows.mjs:410` looks at the last alone; the tables have it so).
What may be missing in the corpus is not what may be wrong in the pages, and each
document has a title. A proposal's scope is a set of files and the ledger is not one of
them (`scope.mjs:52` refuses it); main is not the branch worked on. The grant
ledger is no path a grant may name (`governance.mjs:118`), the source register is not
under `docs/`, and lines somebody may write have the shape the ledger is parsed
into. A value that stands for "none" is no value.

### Model-checked only

* `Ending`: liveness under fairness is out of the prover's reach.
* The four properties the code violates: TLC's counterexample is what there is to show.
* That actions can be taken at all (`ENABLED`): the runs fire each of them.

## 5. What the models say of the code

Four runs refute what a comment of the code says of it; each is a finding in
`PROJECT.json` with the lines of both.

| Run | The code says | What it does |
|---|---|---|
| `ledger_stale_version` | an approval "does not follow a proposal that has been edited since" (`ledger.mjs:249`) | a run's records go to a file with a random name, and readers keep the record of the file that sorts last: the edit may stay invisible behind the earlier file, whose approval stays granted (`store.mjs:86`) |
| `room_denial` | "Approving over a denial through the same endpoint would make the denial advisory" (`decide.mjs:353`) | `decide` derives the state from the ledger as it was at line 266; `recordDecision` reads it again and derives nothing. A denial another process appends in between is followed by the grant, which stands |
| `access_login` | `disable` does "remove all access" and `enable` gives "it back" (`.control-room/cli.mjs:259-260`) | a login writes back the registry it read, to stamp `last_seen_at`, over a `disable` made since (`identity.mjs:328`) |
| `release_ledger` | the dispatcher "never writes the ledger" (`dispatch.mjs:21-22`) | a decision recorded while it runs is a path changed out of scope; `undo` checks that path out and the decision is gone (`dispatch.mjs:116`) |

Other things the modelling brought up, which no run states:

**Ledger and Control Room.**
* `deriveApproval` looks at the last decision before it looks at requests
  (`ledger.mjs:197`), so a fresh `ApprovalRequest` on a denied proposal leaves it
  denied, where `decide.mjs:353` tells the reviewer to have one made.
* `corroborate` (`approval.mjs:218`) takes any trail entry about the same proposal
  and fingerprint, so a later command-line decision on it is reported as
  authenticated; a server that dies between `decide.mjs:433` and `458` leaves the
  opposite, a decision of its own reported as the command line's: the exception
  `ServersDecisionsAreVouched` makes.
* An append cut just before its newline still verifies, and the next one is glued to
  it: one decision that was reported as recorded can be lost, with one process too
  (`LossBounded` is the bound). Where the unterminated line was a denial, an older grant
  is the last decision there is. Dispatch and the gate verify the ledger and stop there;
  `decide`'s own gate, `preflight.mjs:64` and `engine.mjs:216` derive an approval from
  what parses and see the grant, and `implementer.mjs:153` only reports the count of
  `malformed` lines, against `ledger.mjs:102`.
* The names a person may not use are read from the regenerable record store
  (`ledger.mjs:294`): where that is lost, an agent's name passes.
* Two processes that audit break an untouched trail, and a torn audit line stays
  malformed for good and takes the next entry with it (`audit.mjs:237`).
* `/api/review` acts with the actor resolved before its body was awaited
  (`server.mjs:302`, `450`). `destroyForOperator` (`authn.mjs:142`) is never called.
* `readRecords` throws on a partial line (`store.mjs:83`); one forked or
  future-dated entry makes the ledger unusable until a person edits it.

**Orchestrator.**
* The rollback gate in front of an `IMPLEMENTATION_REQUEST` is given no records
  (`orchestrator.mjs:371`), so it passes whatever the rollback plan is, where
  `workflows.mjs:246` asks for "a mechanically meaningful path, not a boolean".
* A run with no dispatchers wired completes, with nothing done
  (`workflows.mjs:84`, `orchestrator.mjs:319-321`); in production it is called with
  none (`orchestrator/cli.mjs:275`).
* A scout that finds only a `DataGap` ends in `handoff_broken`.
* `workflows.mjs:85` calls a state "waiting, not finished" that `state.mjs:27-33`
  lists as finished.
* Where the append of the last transition fails, `handle()` returns an end state the
  journal does not have; after a crash a workflow stays in a working state.

**Release.**
* `git commit` without paths (`dispatch.mjs:279`) takes what a person had staged,
  against `dispatch.mjs:38`; only the gate sees it, afterwards.
* An exception once files are written ends `failed` without rollback
  (`implementer.mjs:436-441`, against its header); a commit git refuses leaves the
  edit staged on the branch people work on.
* The dispatcher does not ask that the decision be committed. If it is not, the
  gate refuses the commit, and goes on refusing it when the decision is
  (`RefusedForGood`).
* The dispatcher does not ask how old the approval is: after 30 days it still commits,
  and the gate refuses that commit for good (`gate.mjs:249`, `RefusedForGood`).
* A denial after publication stops every later publication, also after a fresh
  grant: the gate judges the whole of main's history each time.
* A dispatch that died leaves HEAD on its branch; its key cannot be dispatched
  until a person deletes the branch.
* `back()` deletes the dispatch's branch with `-D`, and with it a commit of the
  ledger somebody made there meanwhile.
* `lifecycleOf` calls published what is merged to main, also where the gate refuses
  that commit.

**Limited autonomy and its policy.**
* No proposal on `data/sources.json` can be merged without a decision, whatever is
  granted: the field gate wants each target to name a field, `permittedFiles` strips
  it (`scope.mjs:84-111`) and `applyProposal` wants the target itself among the
  permitted paths (`apply.mjs:151-159`). `LegalRecordUntouched` holds for this reason.
* The categories, paths and fields of all active grants are joined each on its own
  (`governance.mjs:446-453`), against `cycle.mjs:30-32`: a category of one grant is
  automatic on a path of another. `MergedWasGranted` is stated accordingly.
* `automatic_environments` is computed and shown, and nothing consults it
  (`categories.mjs:226`).
* A revocation line is honoured without validation (`governance.mjs:403-422`, against
  `584-585`); a grant's id leaves out its fields (`207-214`).
* A `url` that is neither substantive nor read counts as
  `source_metadata_maintenance` (`categories.mjs:368-381`), against
  `governance.mjs:170`; the applier hides it.
* An exception in the checks, the commit or the merge leaves the edit or the branch,
  and no line (`cycle.mjs:611`), against the header's "none of them stays".
* What git refused `abandon` (`isolate.mjs:133-144`) is returned to callers that do
  not read it (`cycle.mjs:402`, `418`): the line says refused, reverted or rehearsed
  while the branch is still there, or still checked out. `LineTellsTheBranch` and
  `NoneOfThemStays` except these attempts (`balked`) and say what holds even then.
* A rollback removes a file that was not there from the tree and not from the index
  (`apply.mjs:205-208`): one a person staged meanwhile stays staged and goes into
  the next commit. `verified` hashes the tree alone, so the line says reverted.
* What a person commits on a run's branch goes with it when the run is abandoned
  and nothing is in the way (`git branch -D`).
* `commitChange` commits without paths (`isolate.mjs:99`) what a person had staged; an
  edit to a permitted path made during a run is rolled back or committed with it.
* A revocation during a run is not read. One recorded before the scope check
  (`cycle.mjs:474`) stops the run all the same, because the ledger is in the tree and
  out of scope, unless it was already dirty when the branch was cut or is committed at
  once (`EarlyRevocationStops`). One recorded after that check, before the merge,
  stops nothing, and no property says it does.
* An agent is known by its records (`cycle.mjs:298-301`): where they are lost, a grant
  written in its name is honoured, for the proposals of the others.
* The gate's branch for commits under a grant (`gate.mjs:201-210`) asks only that the
  grant's id occurs in `grants.jsonl`.

**Improvement loop.**
* `history` pairs entries by line, a cycle by instant: they disagree once cycles
  overlap.
* A finding that comes or goes around a cycle its observer missed is never reported.
* The corpus is loaded at the start of a pass and the pages are read at the editor's turn
  (`observe.mjs:289`, `editorial.mjs:514-515`). A box whose label and claims change
  together in between is reported as disagreeing, or as mended, though it never was: the
  exception of `MovementIsReal`, with no other.
* When the last gap closes the router has no input, "did not run", and its proposals
  never read resolved.

**Scheduled Scout.**
* A run that waits checks out the commit it was triggered at: what is merged meanwhile,
  and its branch deleted, is proposed as new once more (the exception of
  `NewToTheMemory`).
* A push whose pull request fails leaves a branch the re-run cannot push again, and
  later digests call its candidates proposed before (that of `SetAsideWasOffered`).
* The second job looks at outputs alone, so a first job that went red for its write
  boundary is proposed, where `source-scout.yml:199` says "this fails and nothing is
  proposed".

**Observability**, which no module models. An approval decided in the Control Room is
emitted on a trace of its own (`decide.mjs:509-520`), so the overview keeps the
request pending; a depth run that throws reads as running for good, and so does a
closed run whose last line lost its newline to an event attached later.

## 6. What is not modelled

`PROJECT.json` lists every component with what is left out of it. In the modules
there are:

* **Abstracted data.** Contents of records and files, hashes (an entry's link is
  what its hash would say), wording, and times but for an approval's age at
  the gate. Hence no `future_timestamp`, nor a clock that is set back.
* **Signatures and attestations** of ledger entries and evidence: verified by
  pure functions of one entry.
* **Lines of a ledger as git merges them.** A merge whose ledgers conflict does not
  happen in the models; squash merges, which drop the trailers, are not there.
* **Two dispatches, or two autonomous runs, in one clone.** Git's own index lock
  serialises parts of them and HEAD is shared; the code neither forbids nor handles
  it. Nor a person who switches branches under a run.
* **Parts of gates** that read one thing and decide: preflight's ten gates, policy
  conditions, validators and browser checks, the gate's C1–C6 and C8–C10. Any of
  them may refuse, in the models at any time.
* **A hanging dispatcher**, for which the code has no timeout.
* **Rehearsals and mock runs**, which write nothing.

Not modelled at all, and why:

* *Observability*: one file for each trace, to which one process appends and now and
  then a second one a hand-off; nothing that decides or publishes reads it back. The
  observations above are by reading.
* *Gateway, schemas, verifier, integration, detector, depth, architect, UX*:
  functions of one input without state between calls, which the repository's own
  tests enumerate. What they do to the rest (records edited, lost, regenerated;
  records not admitted; findings or none) is an input of the models.
* *Health, browser suite, readiness, simulation*: input and output, or a harness.
* *Site, tools, `pages.yml`, `qa.yml`*: nothing runs concurrently and nothing is kept.
  They are most of the repository's lines.

## 7. The plan

The order followed the sentence this document begins with: a decision is recorded
(`DecisionLedger`), by someone who may (`OperatorAccess`), on what they saw
(`ControlRoom`); it is routed (`Workflow`), carried out and judged (`Release`), or
carried out under a grant (`Autonomy`); and what is decided on comes from scheduled
runs (`ImprovementLoop`, `ScoutSchedule`). What is left, in order:

1. **An abstract specification of the whole**: what a person granted, what was done and
   what is published, as three sets each of which grows only under the one before, and
   `Release` a refinement of it; `Autonomy` a second one, with the grants of the policy
   in the place of decisions.
2. **The gate's second kind of commit**, made under a grant, and the key registry, whose
   loss or change makes the gate refuse what it passed, in `Release`.
3. **The trace files** of observability, and reading the audit trail back after a torn
   line.
