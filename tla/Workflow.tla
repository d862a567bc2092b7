------------------------------ MODULE Workflow ------------------------------
(***************************************************************************)
(* The Orchestrator: one governed event in, one workflow out               *)
(* (agent/orchestrator/orchestrator.mjs), journalled line by line          *)
(* (state.mjs).                                                            *)
(*                                                                         *)
(* A handle is one call of Orchestrator.handle().  Calls run in processes  *)
(* of their own or interleave in one while a dispatcher is awaited, so     *)
(* every line of the journal is a step.  An event stands for its content   *)
(* and its instant of intake: workflowIdFor derives the workflow's id, and *)
(* with it the journal's file, from these two and nothing else.            *)
(***************************************************************************)
EXTENDS FiniteSets, Integers, Sequences

CONSTANTS
  Handle,        \* calls of handle()
  Event,         \* governed events: the type declared and the subject's contract
  Workflows,     \* the workflow types
  Capabilities,  \* what each agent produces and consumes
  Calls,         \* Calls[h]: the events h may be given, each with the agents
                 \* its Orchestrator has dispatchers for
  None,          \* no event, no declared type, no contract
  MaxFaults      \* bound: appends that fail and stores that cannot be read

Type == DOMAIN Workflows
Agent == DOMAIN Capabilities
Contract == UNION {Capabilities[a].produces : a \in Agent}
Plan(t) == Workflows[t].stages
Verdicts == {"approval", "scope", "autonomy", "rollback", "provenance", "conflict"}

\* A record that proposes a change, and so has a rollback plan to be read.
Proposing == {"DataProposal", "ArchitectureProposal", "EditorialProposal",
              "UXProposal", "ImplementationProposal"}

\* The checks workflows.mjs makes of its table when it is loaded.
LoadChecked(t) ==
  /\ Plan(t) # <<>>
  /\ Plan(t)[Len(Plan(t))].kind = "human"
  /\ \A i \in DOMAIN Plan(t) :
       LET s == Plan(t)[i] IN
       /\ s.kind \in {"dispatch", "gate", "human"}
       /\ s.kind = "dispatch" => /\ s.who \in Agent
                                 /\ s.needs \subseteq Capabilities[s.who].produces
       /\ s.kind = "gate" => s.who \in Verdicts

ASSUME TableAssumption ==
  /\ None \notin Type
  /\ None \notin Event
  /\ \A t \in Type : Plan(t) \in Seq([stage : STRING, kind : STRING, who : STRING,
                                      needs : SUBSET Contract, required : BOOLEAN])
  /\ \A t \in Type : LoadChecked(t)
  /\ \A t \in Type : Workflows[t].alone \in BOOLEAN

\* Of the first half only is there a check: in every type of the table a
\* person is the last stage, and no stage before the last is one.
ASSUME PersonLastAssumption ==
  \A t \in Type : \A i \in DOMAIN Plan(t) :
    Plan(t)[i].kind = "human" => i = Len(Plan(t))

\* receiveEvent refuses an event that declares a type there is not.
ASSUME IntakeAssumption ==
  \A e \in Event : e.declared \in Type \cup {None}

ASSUME BoundAssumption ==
  /\ MaxFaults \in Nat
  /\ Calls \in [Handle -> SUBSET (Event \X SUBSET Agent)]

VARIABLES
  pc,       \* where each call of handle() is
  event,    \* the event it carries
  wired,    \* the agents its Orchestrator has dispatchers for
  state,    \* wf.state
  seq,      \* wf.seq
  stages,   \* wf.stages, in the order of the plan
  halt,     \* whether an earlier stage stopped the loop, and how
  journal,  \* the lines of each workflow's file
  faults

vars == <<pc, event, wired, state, seq, stages, halt, journal, faults>>

Lifecycle == INSTANCE WorkflowLifecycle WITH Workflow <- Handle

Unopened == Lifecycle!Unopened
Ends == Lifecycle!Ends
States == Lifecycle!States
Statuses == {"passed", "refused", "ok", "failed", "not_dispatched",
             "not_reached", "reached"}
Outcome == [status : Statuses, gives : SUBSET Contract]
Line == [by : Handle, seq : Nat, from : States \cup {Unopened}, to : States]

TypeOK ==
  /\ pc \in [Handle -> {"idle", "route", "await", "catch", "done", "dead"}]
  /\ event \in [Handle -> Event \cup {None}]
  /\ wired \in [Handle -> SUBSET Agent]
  /\ state \in [Handle -> States \cup {Unopened}]
  /\ seq \in [Handle -> Nat]
  /\ stages \in [Handle -> Seq(Outcome)]
  /\ halt \in [Handle -> {"no", "blocked", "failed", "rejected"}]
  /\ journal \in [Event -> Seq(Line)]
  /\ faults \in 0..MaxFaults

-----------------------------------------------------------------------------
(* Classification, and what a stage may do                                 *)

\* classify: the type the event and its subject agree on, or None.
Classified(e) ==
  LET byContract == {t \in Type : e.contract \in Workflows[t].entry_contracts}
  IN IF e.declared # None
     THEN IF e.contract = None \/ e.declared \in byContract
          THEN e.declared ELSE None
     ELSE IF \E t \in Type : byContract = {t}
          THEN CHOOSE t \in Type : byContract = {t} ELSE None

TypeOf(h) == Classified(event[h])
PlanOf(h) == Plan(TypeOf(h))
Stage(h) == PlanOf(h)[Len(stages[h]) + 1]

Ok(h) == {i \in DOMAIN stages[h] : stages[h][i].status = "ok"}

\* handoffRecords: what the last stage that was dispatched and came back
\* produced.  It is replaced, not added to.
LastOk(h) == CHOOSE i \in Ok(h) : \A j \in Ok(h) : j <= i
Handoff(h) == IF Ok(h) = {} THEN {} ELSE stages[h][LastOk(h)].gives

\* wf.records
Produced(h) == UNION {stages[h][i].gives : i \in DOMAIN stages[h]}
With(h, status) == {i \in DOMAIN stages[h] : stages[h][i].status = status}

\* A gate that reads records refuses none where there is none to read.
GateVerdicts(h, g) ==
  IF \/ g = "autonomy"
     \/ g = "provenance" /\ Handoff(h) = {}
     \/ g = "rollback" /\ Handoff(h) \cap Proposing = {}
     \/ g = "conflict" /\ Produced(h) = {}
  THEN {"passed"} ELSE {"passed", "refused"}

Granted(s) == s.needs \cap Capabilities[s.who].produces

\* The agent already ran the stage this one may not be paired with.
Collides(h, s) ==
  \E i \in Ok(h) :
    /\ PlanOf(h)[i].who = s.who
    /\ \E pair \in Workflows[TypeOf(h)].same_agent_forbidden :
         s.stage \in pair /\ PlanOf(h)[i].stage \in pair \ {s.stage}

\* The records handed in are none this agent reads, or its own.
HandoffBroken(h, s) ==
  LET reads == Capabilities[s.who].consumes
  IN /\ Handoff(h) # {}
     /\ reads # {}
     /\ \/ Handoff(h) \cap reads = {}
        \/ PlanOf(h)[LastOk(h)].who = s.who

MustRefuse(h, s) == Collides(h, s) \/ Granted(s) = {} \/ HandoffBroken(h, s)

-----------------------------------------------------------------------------
(* Writing the journal                                                     *)

\* Mistake: a line that could not be written takes no number.
AppendedThenNumbered(h, from, to, next) ==
  \/ /\ seq' = [seq EXCEPT ![h] = @ + 1]
     /\ journal' = [journal EXCEPT ![event'[h]] =
                      Append(@, [by |-> h, seq |-> seq[h], from |-> from, to |-> to])]
     /\ pc' = [pc EXCEPT ![h] = next]
     /\ UNCHANGED faults
  \/ /\ faults < MaxFaults
     /\ faults' = faults + 1
     /\ pc' = [pc EXCEPT ![h] = IF from = Unopened THEN "dead" ELSE "catch"]
     /\ UNCHANGED <<seq, journal>>

\* WorkflowJournal.append.  The sequence number is taken before the line is
\* written, and a line that cannot be written is an exception in the caller.
Appended(h, from, to, next) ==
  /\ seq' = [seq EXCEPT ![h] = @ + 1]
  /\ \/ /\ journal' = [journal EXCEPT ![event'[h]] =
                         Append(@, [by |-> h, seq |-> seq[h], from |-> from, to |-> to])]
        /\ pc' = [pc EXCEPT ![h] = next]
        /\ UNCHANGED faults
     \/ /\ faults < MaxFaults
        /\ faults' = faults + 1
        /\ pc' = [pc EXCEPT ![h] = IF from = Unopened THEN "dead" ELSE "catch"]
        /\ UNCHANGED journal

\* WorkflowState.transition sets the state before it appends.  What
\* assertTransition throws on is not a guard here: that no step of the
\* Orchestrator asks for such a transition is LifecycleOfEach.
Transition(h, to, next) ==
  /\ UNCHANGED <<event, wired, stages, halt>>
  /\ state' = [state EXCEPT ![h] = to]
  /\ Appended(h, state[h], to, next)

\* WorkflowState.recordStage, and what the loop makes of the outcome.
RecordStage(h, status, gives, halts) ==
  /\ stages' = [stages EXCEPT ![h] = Append(@, [status |-> status, gives |-> gives])]
  /\ halt' = [halt EXCEPT ![h] = halts]
  /\ UNCHANGED <<event, wired, state>>
  /\ Appended(h, state[h], state[h], "route")

-----------------------------------------------------------------------------
(* The steps of handle()                                                   *)

Init ==
  /\ pc = [h \in Handle |-> "idle"]
  /\ event = [h \in Handle |-> None]
  /\ wired = [h \in Handle |-> {}]
  /\ state = [h \in Handle |-> Unopened]
  /\ seq = [h \in Handle |-> 0]
  /\ stages = [h \in Handle |-> <<>>]
  /\ halt = [h \in Handle |-> "no"]
  /\ journal = [e \in Event |-> <<>>]
  /\ faults = 0

\* An accepted event opens a workflow.  Where its first line cannot be
\* written the constructor throws outside the try and handle() rejects.
Open(h) ==
  /\ pc[h] = "idle"
  /\ \E call \in Calls[h] :
       /\ event' = [event EXCEPT ![h] = call[1]]
       /\ wired' = [wired EXCEPT ![h] = call[2]]
  /\ Appended(h, Unopened, "received", "route")
  /\ state' = [state EXCEPT ![h] = "received"]
  /\ UNCHANGED <<stages, halt>>

Routing(h, s) == pc[h] = "route" /\ state[h] = s

\* An event that cannot be classified goes to a person.
Classify(h) ==
  /\ Routing(h, "received")
  /\ IF TypeOf(h) = None
     THEN Transition(h, "human_review_required", "done")
     ELSE Transition(h, "classified", "route")

MakePlan(h) ==
  /\ Routing(h, "classified")
  /\ Transition(h, "planned", "route")

Begin(h) ==
  /\ Routing(h, "planned")
  /\ Transition(h, "in_progress", "route")

\* The loop is over past the last stage, and at the first person.
LoopOver(h) ==
  \/ Len(stages[h]) = Len(PlanOf(h))
  \/ With(h, "reached") # {}

InLoop(h) == Routing(h, "in_progress") /\ ~LoopOver(h)

\* Mistake: a status outside the ones a stage may have.
NotReachedSkipped(h) ==
  /\ InLoop(h)
  /\ halt[h] # "no"
  /\ RecordStage(h, "skipped", {}, halt[h])

NotReached(h) ==
  /\ InLoop(h)
  /\ halt[h] # "no"
  /\ RecordStage(h, "not_reached", {}, halt[h])

At(h, kind) == InLoop(h) /\ halt[h] = "no" /\ Stage(h).kind = kind

ReachPerson(h) ==
  /\ At(h, "human")
  /\ RecordStage(h, "reached", {}, "no")

PassGate(h) ==
  /\ At(h, "gate")
  /\ "passed" \in GateVerdicts(h, Stage(h).who)
  /\ RecordStage(h, "passed", {}, "no")

RefuseGate(h) ==
  /\ At(h, "gate")
  /\ "refused" \in GateVerdicts(h, Stage(h).who)
  /\ RecordStage(h, "refused", {}, IF Stage(h).required THEN "blocked" ELSE "no")

\* The approval gate of a proposal a person denied.
RejectAtGate(h) ==
  /\ At(h, "gate")
  /\ Stage(h).who = "approval"
  /\ RecordStage(h, "refused", {}, "rejected")

\* The stores the approval is derived from cannot be read.
GateThrows(h) ==
  /\ At(h, "gate")
  /\ Stage(h).who = "approval"
  /\ faults < MaxFaults
  /\ faults' = faults + 1
  /\ pc' = [pc EXCEPT ![h] = "catch"]
  /\ UNCHANGED <<event, wired, state, seq, stages, halt, journal>>

Blocks(s) == IF s.required THEN "blocked" ELSE "no"

RefuseDispatch(h) ==
  /\ At(h, "dispatch")
  /\ MustRefuse(h, Stage(h))
  /\ RecordStage(h, "refused", {}, Blocks(Stage(h)))

\* Mistake: a stage nobody is wired for is stepped past.
NotDispatchedGoesOn(h) ==
  /\ At(h, "dispatch")
  /\ ~MustRefuse(h, Stage(h))
  /\ Stage(h).who \notin wired[h]
  /\ RecordStage(h, "not_dispatched", {}, "no")

NotDispatched(h) ==
  /\ At(h, "dispatch")
  /\ ~MustRefuse(h, Stage(h))
  /\ Stage(h).who \notin wired[h]
  /\ RecordStage(h, "not_dispatched", {}, Blocks(Stage(h)))

\* The dispatcher is called with the grant, and awaited.
Dispatch(h) ==
  /\ At(h, "dispatch")
  /\ ~MustRefuse(h, Stage(h))
  /\ Stage(h).who \in wired[h]
  /\ pc' = [pc EXCEPT ![h] = "await"]
  /\ UNCHANGED <<event, wired, state, seq, stages, halt, journal, faults>>

\* It comes back with records, of which those inside the grant and their
\* contract are admitted; none at all is a result.
Admit(h) ==
  /\ pc[h] = "await"
  /\ \E gives \in SUBSET Granted(Stage(h)) : RecordStage(h, "ok", gives, "no")

\* Every record it offered was refused.
AdmitNone(h) ==
  /\ pc[h] = "await"
  /\ RecordStage(h, "refused", {}, Blocks(Stage(h)))

DispatcherThrows(h) ==
  /\ pc[h] = "await"
  /\ RecordStage(h, "failed", {}, "failed")

\* Mistake: what was produced is taken from the last handoff.
SettledByTheHandoff(h) ==
  CASE halt[h] # "no" -> halt[h]
    [] halt[h] = "no" /\ Handoff(h) = {} /\ Workflows[TypeOf(h)].alone ->
         IF With(h, "not_dispatched") # {} THEN "unresolved" ELSE "completed"
    [] OTHER -> "human_review_required"

\* The whole run, settled: nothing is left to do for nobody only where the
\* type says so and nothing was produced.
Settled(h) ==
  CASE halt[h] # "no" -> halt[h]
    [] halt[h] = "no" /\ Produced(h) = {} /\ Workflows[TypeOf(h)].alone ->
         IF With(h, "not_dispatched") # {} THEN "unresolved" ELSE "completed"
    [] OTHER -> "human_review_required"

Settle(h) ==
  /\ Routing(h, "in_progress")
  /\ LoopOver(h)
  /\ Transition(h, Settled(h), IF Settled(h) = "blocked" THEN "route" ELSE "done")

\* Mistake: a blocked workflow is left where it is.
LeaveBlockedNever(h) ==
  /\ Routing(h, "blocked")
  /\ With(h, "not_dispatched") # {}
  /\ Transition(h, IF Produced(h) = {} THEN "unresolved"
                   ELSE "human_review_required", "done")

\* A blocked workflow is unresolved where nothing ran and nothing was
\* produced, and otherwise something a person has to look at.
LeaveBlocked(h) ==
  /\ Routing(h, "blocked")
  /\ Transition(h, IF /\ With(h, "not_dispatched") # {}
                      /\ With(h, "refused") = {}
                      /\ Produced(h) = {}
                   THEN "unresolved" ELSE "human_review_required", "done")

\* Mistake: the catch does not look whether the workflow has already ended.
CatchFailsAnyway(h) ==
  /\ pc[h] = "catch"
  /\ pc' = [pc EXCEPT ![h] = "done"]
  /\ state' = [state EXCEPT ![h] = "failed"]
  /\ UNCHANGED <<event, wired, seq, stages, halt, journal, faults>>

\* handle()'s catch: a workflow that has not ended fails, and an append that
\* fails again is swallowed.
Catch(h) ==
  /\ pc[h] = "catch"
  /\ pc' = [pc EXCEPT ![h] = "done"]
  /\ IF state[h] \in Ends
     THEN UNCHANGED <<state, seq, journal, faults>>
     ELSE /\ state' = [state EXCEPT ![h] = "failed"]
          /\ seq' = [seq EXCEPT ![h] = @ + 1]
          /\ \/ /\ journal' = [journal EXCEPT ![event[h]] =
                     Append(@, [by |-> h, seq |-> seq[h], from |-> state[h],
                                to |-> "failed"])]
                /\ UNCHANGED faults
             \/ /\ faults < MaxFaults
                /\ faults' = faults + 1
                /\ UNCHANGED journal
  /\ UNCHANGED <<event, wired, stages, halt>>

\* The process ends.  Nothing resumes a workflow.
Crash(h) ==
  /\ pc[h] \in {"route", "await", "catch"}
  /\ pc' = [pc EXCEPT ![h] = "dead"]
  /\ UNCHANGED <<event, wired, state, seq, stages, halt, journal, faults>>

Steps(h) ==
  \/ Classify(h) \/ MakePlan(h) \/ Begin(h)
  \/ NotReached(h) \/ ReachPerson(h)
  \/ PassGate(h) \/ RefuseGate(h) \/ RejectAtGate(h) \/ GateThrows(h)
  \/ RefuseDispatch(h) \/ NotDispatched(h) \/ Dispatch(h)
  \/ Admit(h) \/ AdmitNone(h) \/ DispatcherThrows(h)
  \/ Settle(h) \/ LeaveBlocked(h) \/ Catch(h)

Next ==
  \E h \in Handle :
    \/ Open(h)
    \/ Steps(h)
    \/ Crash(h)

\* A process that has not died goes on, and a dispatcher returns or throws.
Spec == Init /\ [][Next]_vars /\ \A h \in Handle : WF_vars(Steps(h))

-----------------------------------------------------------------------------
(* Reading the journal back                                                *)

\* gapsIn: where the numbers are not contiguous.
Gaps(lines) == {i \in DOMAIN lines : lines[i].seq # i - 1}

\* replay: the state the last transition led to.
Moves(lines) == {i \in DOMAIN lines : lines[i].from # lines[i].to}
Replay(lines) ==
  lines[CHOOSE i \in Moves(lines) : \A j \in Moves(lines) : j <= i].to

-----------------------------------------------------------------------------
(* Properties                                                              *)

\* The Orchestrator implements the lifecycle state.mjs declares: of every
\* step it takes, whatever stages refuse, break or are missing, whatever is
\* thrown and caught, assertTransition would have permitted it, and nothing
\* leaves an end state (state.mjs:73-102, orchestrator.mjs:144-151).
LifecycleOfEach == Lifecycle!Spec

\* A dispatcher runs only where every required stage before it in the plan
\* passed: one that refused, was not dispatched or was stepped past by the
\* loop keeps every later agent from running (orchestrator.mjs:194-236).
NothingSteppedOver ==
  \A h \in Handle : \A i \in 1..Len(stages[h]) + 1 :
    \/ i <= Len(stages[h]) /\ stages[h][i].status \in {"ok", "failed"}
    \/ i = Len(stages[h]) + 1 /\ pc[h] = "await"
    => \A j \in 1..i - 1 : PlanOf(h)[j].required =>
         stages[h][j].status \in {"passed", "ok"}

\* The end state says what happened in the stages: completed only where
\* nobody produced anything, every required stage passed, every dispatched
\* one had a dispatcher and the type completes without a person; unresolved
\* only where an agent was missing and nothing was produced; rejected only
\* where no agent ran after the denial; failed only where something broke;
\* and in every case each stage of the plan is accounted for, unless what
\* broke was the Orchestrator itself (orchestrator.mjs:268-332,
\* workflows.mjs:81-87).
EndTellsTheRun ==
  \A h \in Handle :
    LET whole == event[h] # None /\ TypeOf(h) # None
                 /\ Len(stages[h]) = Len(PlanOf(h))
    IN /\ state[h] = "completed" =>
            /\ whole
            /\ Produced(h) = {}
            /\ Workflows[TypeOf(h)].alone
            /\ With(h, "not_dispatched") = {}
            /\ \A i \in DOMAIN stages[h] : PlanOf(h)[i].required =>
                 stages[h][i].status \in {"passed", "ok", "reached"}
       /\ state[h] = "unresolved" =>
            /\ whole
            /\ Produced(h) = {}
            /\ With(h, "not_dispatched") # {}
       /\ state[h] = "rejected" =>
            /\ whole
            /\ \E i \in With(h, "refused") :
                 /\ PlanOf(h)[i].who = "approval"
                 /\ \A j \in DOMAIN stages[h] : j > i =>
                      stages[h][j].status = "not_reached"
       /\ state[h] = "failed" => faults > 0 \/ (whole /\ With(h, "failed") # {})
       /\ state[h] = "human_review_required" => whole \/ stages[h] = <<>>

\* A journal without a gap is one workflow's own path: one call wrote every
\* line, each transition starts where the one before it ended, and where that
\* call has numbered no line it could not write, replay gives the state the
\* workflow is in.  Two intakes of the same event at one instant, and a line
\* lost to the disk before others, show as a gap (state.mjs:162-166, 277-304).
JournalTellsTheWorkflow ==
  \A e \in Event :
    LET lines == journal[e] IN
    lines # <<>> /\ Gaps(lines) = {} =>
      /\ \A i \in DOMAIN lines \ {1} :
           /\ lines[i].by = lines[1].by
           /\ lines[i].from = lines[i - 1].to
      /\ seq[lines[1].by] = Len(lines) => Replay(lines) = state[lines[1].by]

\* A workflow that was opened ends, in an end state, unless its process dies:
\* no refusal, missing dispatcher or exception leaves it in a working state
\* (orchestrator.mjs:102-152).
Ending ==
  \A h \in Handle :
    pc[h] = "route" ~> (pc[h] = "done" /\ state[h] \in Ends) \/ pc[h] = "dead"
=============================================================================
