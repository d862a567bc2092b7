--------------------------- MODULE WorkflowProofs ---------------------------
(***************************************************************************)
(* What holds of the Orchestrator for every table of workflow types that   *)
(* passes the load checks, every register of capabilities, and any number  *)
(* of calls.                                                               *)
(***************************************************************************)
EXTENDS Workflow, WellFoundedInduction, TLAPS

\* What the place in handle() says of the workflow.
Flow(h) ==
  /\ pc[h] = "idle" => state[h] = Unopened /\ stages[h] = <<>>
  /\ pc[h] # "idle" => state[h] # Unopened /\ event[h] \in Event
  /\ pc[h] \in {"route", "await"} => state[h] \notin Ends
  /\ pc[h] = "await" =>
       /\ state[h] = "in_progress"
       /\ halt[h] = "no"
       /\ With(h, "reached") = {}
       /\ Len(stages[h]) # Len(PlanOf(h))
  /\ pc[h] = "route" /\ state[h] # "received" => TypeOf(h) \in Type
  /\ pc[h] = "await" => TypeOf(h) \in Type
  /\ TypeOf(h) \in Type => Len(stages[h]) <= Len(PlanOf(h))
  /\ TypeOf(h) \notin Type => stages[h] = <<>>
  /\ state[h] \in {"received", "classified", "planned"} => stages[h] = <<>>

FlowInv == \A h \in Handle : Flow(h)

-----------------------------------------------------------------------------
(* What the assumptions on the tables give                                 *)

\* classify answers one of the types, or none.
LEMMA ClassifiedType == \A e \in Event : Classified(e) \in Type \cup {None}
  BY IntakeAssumption, Zenon DEF Classified

\* The stages of a type are a sequence, and what a stage needs are contracts.
LEMMA PlanType ==
  ASSUME NEW t \in Type
  PROVE  /\ Len(Plan(t)) \in Nat
         /\ DOMAIN Plan(t) = 1..Len(Plan(t))
         /\ \A i \in DOMAIN Plan(t) : Plan(t)[i].needs \in SUBSET Contract
<1> DEFINE S == [stage : STRING, kind : STRING, who : STRING,
                 needs : SUBSET Contract, required : BOOLEAN]
<1>1. Plan(t) \in Seq(S)
  BY TableAssumption
<1>2. \A s \in S : s.needs \in SUBSET Contract
  OBVIOUS
<1> HIDE DEF S
<1> QED
  BY <1>1, <1>2

-----------------------------------------------------------------------------
(* Type correctness, with what the place in handle() says                  *)

\* A line written, or lost, keeps the types of what it touches.
LEMMA AppendedTypes ==
  ASSUME TypeOK, NEW g \in Handle, event'[g] \in Event,
         NEW from \in States \cup {Unopened}, NEW to \in States,
         NEW next \in {"route", "done"}, Appended(g, from, to, next)
  PROVE  /\ seq' \in [Handle -> Nat]
         /\ journal' \in [Event -> Seq(Line)]
         /\ faults' \in 0..MaxFaults
         /\ \E p \in {next, "catch", "dead"} :
              /\ pc' = [pc EXCEPT ![g] = p]
              /\ p = "dead" => from = Unopened
<1> DEFINE line == [by |-> g, seq |-> seq[g], from |-> from, to |-> to]
<1>1. seq[g] \in Nat /\ seq' = [seq EXCEPT ![g] = seq[g] + 1]
  BY DEF TypeOK, Appended
<1>2. line \in Line
  BY <1>1 DEF Line
<1>3. seq' \in [Handle -> Nat]
  BY <1>1 DEF TypeOK
<1>4. faults' \in 0..MaxFaults
  BY BoundAssumption DEF TypeOK, Appended
<1>5. journal' \in [Event -> Seq(Line)]
  <2>1. CASE journal' = [journal EXCEPT ![event'[g]] = Append(journal[event'[g]], line)]
    <3>1. Append(journal[event'[g]], line) \in Seq(Line)
      <4> HIDE DEF line
      <4> QED
        BY <1>2 DEF TypeOK
    <3> QED
      BY <2>1, <3>1 DEF TypeOK
  <2>2. CASE journal' = journal
    BY <2>2 DEF TypeOK
  <2> QED
    BY <2>1, <2>2 DEF Appended
<1>6. \E p \in {next, "catch", "dead"} :
        pc' = [pc EXCEPT ![g] = p] /\ (p = "dead" => from = Unopened)
  BY DEF Appended
<1> QED
  BY <1>3, <1>4, <1>5, <1>6

\* A transition from where the workflow is routed.
LEMMA TransitionKeeps ==
  ASSUME TypeOK, FlowInv, NEW g \in Handle, pc[g] = "route",
         NEW to \in States, NEW next \in {"route", "done"},
         Transition(g, to, next),
         next = "route" => to \notin Ends /\ TypeOf(g) \in Type,
         to \in {"received", "classified", "planned"} => stages[g] = <<>>
  PROVE  TypeOK' /\ FlowInv'
<1>1. event[g] \in Event /\ state[g] \in States \cup {Unopened}
      /\ state[g] # Unopened
  BY DEF FlowInv, Flow, TypeOK
<1>2. /\ UNCHANGED <<event, wired, stages, halt>>
      /\ state' = [state EXCEPT ![g] = to]
      /\ Appended(g, state[g], to, next)
  BY DEF Transition
<1>3. PICK p \in {next, "catch", "dead"} :
        pc' = [pc EXCEPT ![g] = p] /\ (p = "dead" => state[g] = Unopened)
  BY <1>1, <1>2, AppendedTypes
<1>4. TypeOK'
  <2>1. seq' \in [Handle -> Nat] /\ journal' \in [Event -> Seq(Line)]
        /\ faults' \in 0..MaxFaults
    BY <1>1, <1>2, AppendedTypes
  <2>2. pc' \in [Handle -> {"idle", "route", "await", "catch", "done", "dead"}]
        /\ state' \in [Handle -> States \cup {Unopened}]
    BY <1>2, <1>3 DEF TypeOK
  <2> QED
    BY <1>2, <2>1, <2>2 DEF TypeOK
<1>5. ASSUME NEW h \in Handle PROVE Flow(h)'
  <2>1. Flow(h) /\ Flow(g)
    BY DEF FlowInv
  <2>2. TypeOf(h)' = TypeOf(h) /\ PlanOf(h)' = PlanOf(h)
        /\ With(h, "reached")' = With(h, "reached")
    BY <1>2 DEF TypeOf, PlanOf, With
  <2>3. CASE h # g
    <3>1. pc'[h] = pc[h] /\ state'[h] = state[h] /\ stages'[h] = stages[h]
          /\ halt'[h] = halt[h] /\ event'[h] = event[h]
      BY <1>2, <1>3, <2>3 DEF TypeOK
    <3> QED
      BY <2>1, <2>2, <3>1 DEF Flow
  <2>4. CASE h = g
    <3>1. pc'[h] = p /\ state'[h] = to /\ stages'[h] = stages[h] /\ event'[h] = event[h]
      BY <1>2, <1>3, <2>4 DEF TypeOK
    <3>2. to # Unopened
      BY DEF States, Unopened, Ends, Lifecycle!States, Lifecycle!Unopened,
             Lifecycle!Working, Lifecycle!Ends
    <3>3. p \in {next, "catch"}
      BY <1>1, <1>3
    <3> QED
      BY <1>1, <2>1, <2>2, <2>4, <3>1, <3>2, <3>3 DEF Flow
  <2> QED
    BY <2>3, <2>4
<1> QED
  BY <1>4, <1>5 DEF FlowInv

\* A stage recorded while the loop has one to record.
LEMMA RecordKeeps ==
  ASSUME TypeOK, FlowInv, NEW g \in Handle, pc[g] \in {"route", "await"},
         state[g] = "in_progress", TypeOf(g) \in Type,
         Len(stages[g]) # Len(PlanOf(g)),
         NEW status \in Statuses, NEW gives \in SUBSET Contract,
         NEW halts \in {"no", "blocked", "failed", "rejected"},
         RecordStage(g, status, gives, halts)
  PROVE  TypeOK' /\ FlowInv'
<1> DEFINE outcome == [status |-> status, gives |-> gives]
<1>1. event[g] \in Event /\ state[g] \in States /\ state[g] # Unopened
  BY DEF FlowInv, Flow, TypeOK
<1>2. /\ UNCHANGED <<event, wired, state>>
      /\ stages' = [stages EXCEPT ![g] = Append(stages[g], outcome)]
      /\ halt' = [halt EXCEPT ![g] = halts]
      /\ Appended(g, state[g], state[g], "route")
  BY DEF RecordStage
<1>3. PICK p \in {"route", "catch", "dead"} :
        pc' = [pc EXCEPT ![g] = p] /\ (p = "dead" => state[g] = Unopened)
  BY <1>1, <1>2, AppendedTypes
<1>4. outcome \in Outcome /\ stages[g] \in Seq(Outcome)
  BY DEF Outcome, TypeOK
<1>5. Append(stages[g], outcome) \in Seq(Outcome)
      /\ Len(Append(stages[g], outcome)) = Len(stages[g]) + 1
  <2> HIDE DEF outcome
  <2> QED
    BY <1>4
<1>6. TypeOK'
  <2>1. stages' \in [Handle -> Seq(Outcome)]
    BY <1>2, <1>5 DEF TypeOK
  <2> QED
    BY <1>1, <1>2, <1>3, <2>1, AppendedTypes DEF TypeOK
<1>7. ASSUME NEW h \in Handle PROVE Flow(h)'
  <2>1. Flow(h) /\ Flow(g)
    BY DEF FlowInv
  <2>2. TypeOf(h)' = TypeOf(h) /\ PlanOf(h)' = PlanOf(h)
    BY <1>2 DEF TypeOf, PlanOf
  <2>3. CASE h # g
    <3>1. pc'[h] = pc[h] /\ stages'[h] = stages[h] /\ halt'[h] = halt[h]
          /\ state'[h] = state[h] /\ event'[h] = event[h]
      BY <1>2, <1>3, <2>3 DEF TypeOK
    <3>2. With(h, "reached")' = With(h, "reached")
      BY <3>1 DEF With
    <3> QED
      BY <2>1, <2>2, <3>1, <3>2 DEF Flow
  <2>4. CASE h = g
    <3>1. pc'[h] = p /\ stages'[h] = Append(stages[g], outcome)
          /\ state'[h] = "in_progress" /\ event'[h] = event[h]
      BY <1>2, <1>3, <2>4 DEF TypeOK
    <3>2. Len(stages'[h]) = Len(stages[g]) + 1
      BY <1>5, <3>1
    <3>3. Len(stages[g]) + 1 <= Len(PlanOf(h))
      <4>1. Len(PlanOf(g)) \in Nat /\ Len(stages[g]) \in Nat
        BY <1>4, PlanType DEF PlanOf
      <4> QED
        BY <2>1, <2>4, <4>1 DEF Flow
    <3>4. p \in {"route", "catch"}
      BY <1>1, <1>3
    <3>5. "in_progress" \notin Ends \cup {Unopened}
      BY DEF Unopened, Ends, Lifecycle!Unopened, Lifecycle!Ends
    <3> QED
      BY <1>1, <2>1, <2>2, <2>4, <3>1, <3>2, <3>3, <3>4, <3>5 DEF Flow
  <2> QED
    BY <2>3, <2>4
<1> QED
  BY <1>6, <1>7 DEF FlowInv

\* The loop has a stage to record, and a type to take it from.
LEMMA InTheLoop ==
  ASSUME TypeOK, FlowInv, NEW g \in Handle, InLoop(g) \/ pc[g] = "await"
  PROVE  /\ pc[g] \in {"route", "await"}
         /\ state[g] = "in_progress"
         /\ TypeOf(g) \in Type
         /\ Len(stages[g]) # Len(PlanOf(g))
         /\ Len(stages[g]) + 1 \in DOMAIN PlanOf(g)
         /\ With(g, "reached") = {}
         /\ halt[g] = "no" \/ pc[g] = "route"
<1>1. Flow(g)
  BY DEF FlowInv
<1>2. /\ pc[g] \in {"route", "await"}
      /\ state[g] = "in_progress"
      /\ TypeOf(g) \in Type
      /\ Len(stages[g]) # Len(PlanOf(g))
      /\ With(g, "reached") = {}
      /\ halt[g] = "no" \/ pc[g] = "route"
  BY <1>1 DEF Flow, InLoop, Routing, LoopOver
<1>3. Len(PlanOf(g)) \in Nat /\ DOMAIN PlanOf(g) = 1..Len(PlanOf(g))
  BY <1>2, PlanType DEF PlanOf
<1>4. Len(stages[g]) \in Nat /\ Len(stages[g]) <= Len(PlanOf(g))
  BY <1>1, <1>2 DEF Flow, TypeOK
<1> QED
  BY <1>2, <1>3, <1>4

\* What a dispatch is granted are contracts.
LEMMA GrantedContracts ==
  ASSUME TypeOK, FlowInv, NEW g \in Handle, pc[g] = "await"
  PROVE  Granted(Stage(g)) \in SUBSET Contract
<1>1. TypeOf(g) \in Type /\ Len(stages[g]) + 1 \in DOMAIN Plan(TypeOf(g))
  BY InTheLoop DEF PlanOf
<1>2. Stage(g).needs \in SUBSET Contract
  BY <1>1, PlanType DEF Stage, PlanOf
<1> QED
  BY <1>2 DEF Granted

\* Every stage outcome recorded keeps the types and the flow.
LEMMA StageKeeps ==
  ASSUME TypeOK, FlowInv, NEW g \in Handle,
         \/ NotReached(g) \/ ReachPerson(g)
         \/ PassGate(g) \/ RefuseGate(g) \/ RejectAtGate(g)
         \/ RefuseDispatch(g) \/ NotDispatched(g)
         \/ Admit(g) \/ AdmitNone(g) \/ DispatcherThrows(g)
  PROVE  TypeOK' /\ FlowInv'
<1> SUFFICES \E status \in Statuses, gives \in SUBSET Contract,
                halts \in {"no", "blocked", "failed", "rejected"} :
               /\ RecordStage(g, status, gives, halts)
               /\ InLoop(g) \/ pc[g] = "await"
  BY InTheLoop, RecordKeeps
<1>1. halt[g] \in {"no", "blocked", "failed", "rejected"}
  BY DEF TypeOK
<1>2. \A s : Blocks(s) \in {"no", "blocked"}
  BY DEF Blocks
<1>3. CASE NotReached(g)
  BY <1>1, <1>3 DEF NotReached, Statuses
<1>4. CASE ReachPerson(g)
  BY <1>4 DEF ReachPerson, At, Statuses
<1>5. CASE PassGate(g)
  BY <1>5 DEF PassGate, At, Statuses
<1>6. CASE RefuseGate(g)
  <2>1. (IF Stage(g).required THEN "blocked" ELSE "no") \in {"no", "blocked"}
    OBVIOUS
  <2> QED
    BY <1>6, <2>1 DEF RefuseGate, At, Statuses
<1>7. CASE RejectAtGate(g)
  BY <1>7 DEF RejectAtGate, At, Statuses
<1>8. CASE RefuseDispatch(g)
  BY <1>2, <1>8 DEF RefuseDispatch, At, Statuses
<1>9. CASE NotDispatched(g)
  BY <1>2, <1>9 DEF NotDispatched, At, Statuses
<1>10. CASE Admit(g)
  <2>1. Granted(Stage(g)) \in SUBSET Contract
    BY <1>10, GrantedContracts DEF Admit
  <2> QED
    BY <1>10, <2>1 DEF Admit, Statuses
<1>11. CASE AdmitNone(g)
  BY <1>2, <1>11 DEF AdmitNone, Statuses
<1>12. CASE DispatcherThrows(g)
  BY <1>12 DEF DispatcherThrows, Statuses
<1> QED
  BY <1>3, <1>4, <1>5, <1>6, <1>7, <1>8, <1>9, <1>10, <1>11, <1>12

\* Where the whole run may settle.
LEMMA SettledEnds ==
  ASSUME TypeOK, NEW g \in Handle
  PROVE  Settled(g) \in {"blocked", "failed", "rejected", "unresolved",
                         "completed", "human_review_required"}
  BY DEF Settled, TypeOK

\* Every transition of the routing keeps the types and the flow.
LEMMA RouteKeeps ==
  ASSUME TypeOK, FlowInv, NEW g \in Handle,
         \/ Classify(g) \/ MakePlan(g) \/ Begin(g) \/ Settle(g) \/ LeaveBlocked(g)
  PROVE  TypeOK' /\ FlowInv'
<1> USE DEF States, Ends, Lifecycle!States, Lifecycle!Ends, Lifecycle!Working
<1>1. Flow(g)
  BY DEF FlowInv
<1>2. CASE Classify(g)
  <2>1. pc[g] = "route" /\ state[g] = "received" /\ stages[g] = <<>> /\ event[g] \in Event
    BY <1>1, <1>2 DEF Classify, Routing, Flow
  <2>2. TypeOf(g) = None \/ TypeOf(g) \in Type
    BY <2>1, ClassifiedType DEF TypeOf
  <2> QED
    BY <1>2, <2>1, <2>2, TransitionKeeps DEF Classify
<1>3. CASE MakePlan(g)
  <2>1. pc[g] = "route" /\ stages[g] = <<>> /\ TypeOf(g) \in Type
    BY <1>1, <1>3 DEF MakePlan, Routing, Flow
  <2> QED
    BY <1>3, <2>1, TransitionKeeps DEF MakePlan
<1>4. CASE Begin(g)
  <2>1. pc[g] = "route" /\ TypeOf(g) \in Type
    BY <1>1, <1>4 DEF Begin, Routing, Flow
  <2> QED
    BY <1>4, <2>1, TransitionKeeps DEF Begin
<1>5. CASE Settle(g)
  <2>1. pc[g] = "route" /\ TypeOf(g) \in Type
    BY <1>1, <1>5 DEF Settle, Routing, Flow
  <2> QED
    BY <1>5, <2>1, SettledEnds, TransitionKeeps DEF Settle
<1>6. CASE LeaveBlocked(g)
  <2>1. pc[g] = "route"
    BY <1>6 DEF LeaveBlocked, Routing
  <2> DEFINE to == IF /\ With(g, "not_dispatched") # {}
                      /\ With(g, "refused") = {}
                      /\ Produced(g) = {}
                   THEN "unresolved" ELSE "human_review_required"
  <2>2. Transition(g, to, "done") /\ to \in {"unresolved", "human_review_required"}
    BY <1>6 DEF LeaveBlocked
  <2> HIDE DEF to
  <2> QED
    BY <2>1, <2>2, TransitionKeeps
<1> QED
  BY <1>2, <1>3, <1>4, <1>5, <1>6

\* An event opens a workflow, or the first line of its journal is lost.
LEMMA OpenKeeps ==
  ASSUME TypeOK, FlowInv, NEW g \in Handle, Open(g)
  PROVE  TypeOK' /\ FlowInv'
<1> USE DEF States, Ends, Unopened, Lifecycle!States, Lifecycle!Ends,
            Lifecycle!Working, Lifecycle!Unopened
<1>1. PICK call \in Calls[g] :
        /\ event' = [event EXCEPT ![g] = call[1]]
        /\ wired' = [wired EXCEPT ![g] = call[2]]
  BY DEF Open
<1>2. call[1] \in Event /\ call[2] \in SUBSET Agent
  BY BoundAssumption
<1>3. /\ pc[g] = "idle" /\ state' = [state EXCEPT ![g] = "received"]
      /\ UNCHANGED <<stages, halt>>
      /\ Appended(g, Unopened, "received", "route")
  BY DEF Open
<1>4. event'[g] = call[1] /\ wired' \in [Handle -> SUBSET Agent]
      /\ event' \in [Handle -> Event \cup {None}]
  BY <1>1, <1>2 DEF TypeOK
<1>5. seq' \in [Handle -> Nat] /\ journal' \in [Event -> Seq(Line)]
      /\ faults' \in 0..MaxFaults
  BY <1>2, <1>3, <1>4, AppendedTypes
<1>6. PICK p \in {"route", "catch", "dead"} : pc' = [pc EXCEPT ![g] = p]
  BY <1>2, <1>3, <1>4, AppendedTypes
<1>7. TypeOK'
  BY <1>3, <1>4, <1>5, <1>6 DEF TypeOK
<1>8. ASSUME NEW h \in Handle PROVE Flow(h)'
  <2>1. Flow(h) /\ Flow(g)
    BY DEF FlowInv
  <2>2. CASE h # g
    <3>1. pc'[h] = pc[h] /\ state'[h] = state[h] /\ stages'[h] = stages[h]
          /\ halt'[h] = halt[h] /\ event'[h] = event[h]
      BY <1>1, <1>3, <1>6, <2>2 DEF TypeOK
    <3>2. TypeOf(h)' = TypeOf(h) /\ PlanOf(h)' = PlanOf(h)
          /\ With(h, "reached")' = With(h, "reached")
      BY <3>1 DEF TypeOf, PlanOf, With
    <3> QED
      BY <2>1, <3>1, <3>2 DEF Flow
  <2>3. CASE h = g
    <3>1. pc'[h] \in {"route", "catch", "dead"} /\ state'[h] = "received"
          /\ stages'[h] = <<>> /\ event'[h] \in Event
      BY <1>2, <1>3, <1>4, <1>6, <2>1, <2>3 DEF TypeOK, Flow
    <3>2. TypeOf(h)' \in Type => Len(PlanOf(h)') \in Nat
      BY PlanType DEF PlanOf
    <3>3. TypeOf(h)' \in Type => Len(stages'[h]) <= Len(PlanOf(h)')
      BY <3>1, <3>2
    <3> QED
      BY <3>1, <3>3 DEF Flow
  <2> QED
    BY <2>2, <2>3
<1> QED
  BY <1>7, <1>8 DEF FlowInv

\* A step that writes nothing: a call that goes on, is awaited, throws, or dies.
LEMMA PlaceKeeps ==
  ASSUME TypeOK, FlowInv, NEW g \in Handle,
         NEW p \in {"await", "catch", "done", "dead"},
         pc[g] # "idle", pc' = [pc EXCEPT ![g] = p],
         p = "await" => InLoop(g) /\ halt[g] = "no",
         UNCHANGED <<event, wired, state, seq, stages, halt, journal>>,
         faults' \in 0..MaxFaults
  PROVE  TypeOK' /\ FlowInv'
<1>1. TypeOK'
  BY DEF TypeOK
<1>2. ASSUME NEW h \in Handle PROVE Flow(h)'
  <2>1. Flow(h) /\ Flow(g)
    BY DEF FlowInv
  <2>2. TypeOf(h)' = TypeOf(h) /\ PlanOf(h)' = PlanOf(h)
        /\ With(h, "reached")' = With(h, "reached")
    BY DEF TypeOf, PlanOf, With
  <2>3. CASE h # g
    <3>1. pc'[h] = pc[h]
      BY <2>3 DEF TypeOK
    <3> QED
      BY <2>1, <2>2, <3>1 DEF Flow
  <2>4. CASE h = g
    <3>1. pc'[h] = p
      BY <2>4 DEF TypeOK
    <3>2. CASE p = "await"
      <4>1. /\ state[g] = "in_progress" /\ TypeOf(g) \in Type
            /\ Len(stages[g]) # Len(PlanOf(g)) /\ With(g, "reached") = {}
            /\ halt[g] = "no" /\ pc[g] = "route"
        BY <3>2, InTheLoop DEF InLoop, Routing
      <4> QED
        BY <2>1, <2>2, <2>4, <3>1, <3>2, <4>1 DEF Flow
    <3>3. CASE p # "await"
      BY <2>1, <2>2, <2>4, <3>1, <3>3 DEF Flow
    <3> QED
      BY <3>2, <3>3
  <2> QED
    BY <2>3, <2>4
<1> QED
  BY <1>1, <1>2 DEF FlowInv

\* So do a gate that throws, a dispatch and a crash.
LEMMA PlacesKeep ==
  ASSUME TypeOK, FlowInv, NEW g \in Handle,
         GateThrows(g) \/ Dispatch(g) \/ Crash(g)
  PROVE  TypeOK' /\ FlowInv'
<1>1. CASE GateThrows(g)
  <2>1. faults' \in 0..MaxFaults
    BY <1>1, BoundAssumption DEF GateThrows, TypeOK
  <2> QED
    BY <1>1, <2>1, PlaceKeeps DEF GateThrows, At, InLoop, Routing
<1>2. CASE Dispatch(g)
  BY <1>2, PlaceKeeps DEF Dispatch, At, InLoop, Routing, TypeOK
<1>3. CASE Crash(g)
  BY <1>3, PlaceKeeps DEF Crash, TypeOK
<1> QED
  BY <1>1, <1>2, <1>3

\* The catch ends a workflow that has not ended, and no other.
LEMMA CatchKeeps ==
  ASSUME TypeOK, FlowInv, NEW g \in Handle, Catch(g)
  PROVE  TypeOK' /\ FlowInv'
<1> DEFINE line == [by |-> g, seq |-> seq[g], from |-> state[g], to |-> "failed"]
<1>1. Flow(g) /\ pc[g] = "catch"
  BY DEF FlowInv, Catch
<1>2. CASE state[g] \in Ends
  BY <1>1, <1>2, PlaceKeeps DEF Catch, TypeOK
<1>3. CASE state[g] \notin Ends
  <2>1. event[g] \in Event /\ state[g] \in States /\ seq[g] \in Nat
    BY <1>1 DEF Flow, TypeOK
  <2>2. "failed" \in States /\ "failed" # Unopened
    BY DEF States, Unopened, Lifecycle!States, Lifecycle!Ends, Lifecycle!Unopened
  <2>3. /\ state' = [state EXCEPT ![g] = "failed"]
        /\ pc' = [pc EXCEPT ![g] = "done"]
        /\ seq' = [seq EXCEPT ![g] = seq[g] + 1]
        /\ UNCHANGED <<event, wired, stages, halt>>
        /\ \/ journal' = [journal EXCEPT ![event[g]] = Append(journal[event[g]], line)]
              /\ faults' = faults
           \/ journal' = journal /\ faults < MaxFaults /\ faults' = faults + 1
    BY <1>3 DEF Catch
  <2>4. line \in Line
    BY <2>1, <2>2 DEF Line
  <2>5. Append(journal[event[g]], line) \in Seq(Line)
    <3> HIDE DEF line
    <3> QED
      BY <2>1, <2>4 DEF TypeOK
  <2>6. TypeOK'
    <3>1. journal' \in [Event -> Seq(Line)]
      <4> HIDE DEF line
      <4> QED
        BY <2>1, <2>3, <2>5 DEF TypeOK
    <3>2. seq' \in [Handle -> Nat] /\ state' \in [Handle -> States \cup {Unopened}]
          /\ faults' \in 0..MaxFaults
      BY <2>1, <2>2, <2>3, BoundAssumption DEF TypeOK
    <3> QED
      BY <2>3, <3>1, <3>2 DEF TypeOK
  <2>7. ASSUME NEW h \in Handle PROVE Flow(h)'
    <3>1. Flow(h)
      BY DEF FlowInv
    <3>2. TypeOf(h)' = TypeOf(h) /\ PlanOf(h)' = PlanOf(h)
          /\ With(h, "reached")' = With(h, "reached")
      BY <2>3 DEF TypeOf, PlanOf, With
    <3>3. CASE h # g
      <4>1. pc'[h] = pc[h] /\ state'[h] = state[h] /\ stages'[h] = stages[h]
            /\ halt'[h] = halt[h] /\ event'[h] = event[h]
        BY <2>3, <3>3 DEF TypeOK
      <4> QED
        BY <3>1, <3>2, <4>1 DEF Flow
    <3>4. CASE h = g
      <4>1. pc'[h] = "done" /\ state'[h] = "failed" /\ stages'[h] = stages[h]
            /\ event'[h] \in Event
        BY <2>1, <2>3, <3>4 DEF TypeOK
      <4> QED
        BY <2>2, <3>1, <3>2, <4>1 DEF Flow
    <3> QED
      BY <3>3, <3>4
  <2> QED
    BY <2>6, <2>7 DEF FlowInv
<1> QED
  BY <1>2, <1>3

\* So does every step.
LEMMA StepKeeps ==
  ASSUME TypeOK, FlowInv, [Next]_vars
  PROVE  TypeOK' /\ FlowInv'
<1>1. CASE UNCHANGED vars
  BY <1>1 DEF vars, TypeOK, FlowInv, Flow, TypeOf, PlanOf, With
<1>2. ASSUME NEW g \in Handle, Open(g) \/ Steps(g) \/ Crash(g)
      PROVE  TypeOK' /\ FlowInv'
  BY <1>2, OpenKeeps, StageKeeps, RouteKeeps, PlacesKeep, CatchKeeps DEF Steps
<1> QED
  BY <1>1, <1>2 DEF Next

(* Type correctness, with what the place in handle() says: a call that is  *)
(* routed or awaited is in a working state, is of a type of the table, and *)
(* has recorded no more stages than its plan has.                          *)
THEOREM TypeCorrect == Spec => [](TypeOK /\ FlowInv)
<1>1. Init => TypeOK /\ FlowInv
  <2> SUFFICES ASSUME Init PROVE TypeOK /\ FlowInv
    OBVIOUS
  <2>1. TypeOK
    BY BoundAssumption DEF Init, TypeOK
  <2>2. \A h \in Handle : TypeOf(h) \in Type => Len(PlanOf(h)) \in Nat
    BY PlanType DEF PlanOf
  <2>3. FlowInv
    BY <2>2 DEF Init, FlowInv, Flow
  <2> QED
    BY <2>1, <2>3
<1>2. (TypeOK /\ FlowInv) /\ [Next]_vars => (TypeOK /\ FlowInv)'
  BY StepKeeps
<1> QED
  BY <1>1, <1>2, PTL DEF Spec

-----------------------------------------------------------------------------
(* The Orchestrator implements the lifecycle                               *)

\* What of the table the Orchestrator uses.
LEMMA Permitted ==
  /\ {"classified", "human_review_required"} \subseteq Lifecycle!Transitions["received"]
  /\ "planned" \in Lifecycle!Transitions["classified"]
  /\ "in_progress" \in Lifecycle!Transitions["planned"]
  /\ {"blocked"} \cup Ends \subseteq Lifecycle!Transitions["in_progress"]
  /\ {"unresolved", "human_review_required"} \subseteq Lifecycle!Transitions["blocked"]
  /\ \A s \in Lifecycle!Working : "failed" \in Lifecycle!Transitions[s]
BY DEF Lifecycle!Transitions, Lifecycle!Working, Ends, Lifecycle!Ends

\* A transition of a routed workflow to a state the table allows is the
\* lifecycle's.
LEMMA TransitionAdvances ==
  ASSUME TypeOK, NEW g \in Handle, state[g] \in Lifecycle!Working,
         NEW to \in Lifecycle!Transitions[state[g]],
         state' = [state EXCEPT ![g] = to]
  PROVE  Lifecycle!Next
BY DEF Lifecycle!Next, Lifecycle!Advance

\* Every step of a call is one the lifecycle allows, or leaves the states
\* alone.
LEMMA StepAdvances ==
  ASSUME TypeOK, FlowInv, [Next]_vars
  PROVE  Lifecycle!Next \/ UNCHANGED state
<1> USE DEF Lifecycle!Working
<1>1. CASE UNCHANGED vars
  BY <1>1 DEF vars
<1>2. ASSUME NEW g \in Handle, Open(g)
      PROVE  Lifecycle!Next
  <2>1. state[g] = Unopened
    BY <1>2 DEF Open, FlowInv, Flow
  <2> QED
    BY <1>2, <2>1 DEF Open, Unopened, Lifecycle!Next, Lifecycle!Open
<1>3. ASSUME NEW g \in Handle, Classify(g)
      PROVE  Lifecycle!Next
  <2>1. state[g] = "received" /\ \E to \in {"classified", "human_review_required"} :
          state' = [state EXCEPT ![g] = to]
    BY <1>3 DEF Classify, Routing, Transition
  <2> QED
    BY <2>1, Permitted, TransitionAdvances
<1>4. ASSUME NEW g \in Handle, MakePlan(g)
      PROVE  Lifecycle!Next
  BY <1>4, Permitted, TransitionAdvances DEF MakePlan, Routing, Transition
<1>5. ASSUME NEW g \in Handle, Begin(g)
      PROVE  Lifecycle!Next
  BY <1>5, Permitted, TransitionAdvances DEF Begin, Routing, Transition
<1>6. ASSUME NEW g \in Handle, Settle(g)
      PROVE  Lifecycle!Next
  <2>1. state[g] = "in_progress" /\ state' = [state EXCEPT ![g] = Settled(g)]
    BY <1>6 DEF Settle, Routing, Transition
  <2> QED
    BY <2>1, SettledEnds, Permitted, TransitionAdvances DEF Ends, Lifecycle!Ends
<1>7. ASSUME NEW g \in Handle, LeaveBlocked(g)
      PROVE  Lifecycle!Next
  <2>1. state[g] = "blocked" /\ \E to \in {"unresolved", "human_review_required"} :
          state' = [state EXCEPT ![g] = to]
    BY <1>7 DEF LeaveBlocked, Routing, Transition
  <2> QED
    BY <2>1, Permitted, TransitionAdvances
<1>8. ASSUME NEW g \in Handle, Catch(g)
      PROVE  Lifecycle!Next \/ UNCHANGED state
  <2>1. CASE state[g] \in Ends
    BY <1>8, <2>1 DEF Catch
  <2>2. CASE state[g] \notin Ends
    <3>1. state[g] \in Lifecycle!Working
      BY <1>8, <2>2 DEF Catch, FlowInv, Flow, TypeOK, States, Ends, Lifecycle!States
    <3>2. state' = [state EXCEPT ![g] = "failed"]
      BY <1>8, <2>2 DEF Catch
    <3>3. "failed" \in Lifecycle!Transitions[state[g]]
      BY <3>1, Permitted
    <3> QED
      BY <3>1, <3>2, <3>3, TransitionAdvances
  <2> QED
    BY <2>1, <2>2
<1>9. ASSUME NEW g \in Handle,
             \/ NotReached(g) \/ ReachPerson(g)
             \/ PassGate(g) \/ RefuseGate(g) \/ RejectAtGate(g) \/ GateThrows(g)
             \/ RefuseDispatch(g) \/ NotDispatched(g) \/ Dispatch(g)
             \/ Admit(g) \/ AdmitNone(g) \/ DispatcherThrows(g) \/ Crash(g)
      PROVE  UNCHANGED state
  BY <1>9 DEF NotReached, ReachPerson, PassGate, RefuseGate, RejectAtGate,
     GateThrows, RefuseDispatch, NotDispatched, Dispatch, Admit, AdmitNone,
     DispatcherThrows, Crash, RecordStage
<1> QED
  BY <1>1, <1>2, <1>3, <1>4, <1>5, <1>6, <1>7, <1>8, <1>9 DEF Next, Steps

(* No step of the Orchestrator asks for a transition the table of          *)
(* state.mjs does not permit, and none leaves an end state, for every      *)
(* table of types and whatever is refused, lost, thrown or caught.         *)
THEOREM Implements == Spec => LifecycleOfEach
<1>1. Init => Lifecycle!Init
  BY DEF Init, Lifecycle!Init, Unopened
<1>2. TypeOK /\ FlowInv /\ [Next]_vars => [Lifecycle!Next]_state
  BY StepAdvances
<1> QED
  BY <1>1, <1>2, TypeCorrect, PTL DEF Spec, LifecycleOfEach, Lifecycle!Spec

-----------------------------------------------------------------------------
(* Nothing is stepped over                                                 *)

\* While the loop goes on, every required stage it has recorded passed.
Clear(h) ==
  halt[h] = "no" =>
    \A j \in DOMAIN stages[h] : PlanOf(h)[j].required =>
      stages[h][j].status \in {"passed", "ok", "reached"}

\* A dispatcher that ran had a clear way, and nobody had been reached.
Ran(h) ==
  \A i \in DOMAIN stages[h] : stages[h][i].status \in {"ok", "failed"} =>
    \A j \in 1..i - 1 :
      /\ stages[h][j].status # "reached"
      /\ PlanOf(h)[j].required => stages[h][j].status \in {"passed", "ok"}

WayInv == \A h \in Handle : Clear(h) /\ Ran(h)

\* Where no step records a stage, the way is as it was.
LEMMA WayStays ==
  ASSUME TypeOK, FlowInv, WayInv, NEW g \in Handle,
         stages' = stages,
         \A h \in Handle : halt'[h] = halt[h],
         \A h \in Handle : event'[h] = event[h] \/ stages[h] = <<>>
  PROVE  WayInv'
<1> SUFFICES ASSUME NEW h \in Handle PROVE Clear(h)' /\ Ran(h)'
  BY DEF WayInv
<1>1. Clear(h) /\ Ran(h)
  BY DEF WayInv
<1>2. CASE event'[h] = event[h]
  BY <1>1, <1>2 DEF Clear, Ran, PlanOf, TypeOf
<1>3. CASE stages[h] = <<>>
  BY <1>3 DEF Clear, Ran
<1> QED
  BY <1>2, <1>3

\* A stage recorded by the loop keeps the way clear or halts it.
LEMMA WayRecorded ==
  ASSUME TypeOK, FlowInv, WayInv, NEW g \in Handle, InLoop(g) \/ pc[g] = "await",
         NEW status \in Statuses, NEW gives \in SUBSET Contract,
         NEW halts \in {"no", "blocked", "failed", "rejected"},
         RecordStage(g, status, gives, halts),
         halts = "no" => halt[g] = "no" /\ (Stage(g).required =>
                                             status \in {"passed", "ok", "reached"}),
         status \in {"ok", "failed"} => halt[g] = "no"
  PROVE  WayInv'
<1> SUFFICES ASSUME NEW h \in Handle PROVE Clear(h)' /\ Ran(h)'
  BY DEF WayInv
<1> DEFINE outcome == [status |-> status, gives |-> gives]
<1>1. Clear(h) /\ Ran(h) /\ Clear(g)
  BY DEF WayInv
<1>2. /\ event' = event
      /\ stages' = [stages EXCEPT ![g] = Append(stages[g], outcome)]
      /\ halt' = [halt EXCEPT ![g] = halts]
  BY DEF RecordStage
<1>3. PlanOf(h)' = PlanOf(h)
  BY <1>2 DEF PlanOf, TypeOf
<1>4. CASE h # g
  <2>1. stages'[h] = stages[h] /\ halt'[h] = halt[h]
    BY <1>2, <1>4 DEF TypeOK
  <2> QED
    BY <1>1, <1>3, <2>1 DEF Clear, Ran
<1>5. CASE h = g
  <2> DEFINE n == Len(stages[g]) + 1
  <2>1. stages[g] \in Seq(Outcome) /\ outcome \in Outcome
    BY DEF TypeOK, Outcome
  <2>2. /\ DOMAIN stages[g] = 1..n - 1 /\ n \in Nat \ {0}
        /\ DOMAIN Append(stages[g], outcome) = 1..n
        /\ Append(stages[g], outcome)[n] = outcome
        /\ \A j \in 1..n - 1 : Append(stages[g], outcome)[j] = stages[g][j]
    <3> HIDE DEF outcome
    <3> QED
      BY <2>1
  <2>3. stages'[h] = Append(stages[g], outcome) /\ halt'[h] = halts
    BY <1>2, <1>5 DEF TypeOK
  <2>4. /\ DOMAIN stages'[h] = 1..n
        /\ stages'[h][n].status = status
        /\ \A j \in 1..n - 1 : stages'[h][j] = stages[h][j]
    BY <1>5, <2>2, <2>3
  <2>5. PlanOf(g)[n] = Stage(g)
    BY DEF Stage
  <2>6. \A j \in 1..n - 1 : stages[g][j].status # "reached"
    BY <2>2, InTheLoop DEF With
  <2> HIDE DEF n
  <2>7. Clear(h)'
    <3>1. ASSUME halts = "no", NEW j \in 1..n, PlanOf(h)[j].required
          PROVE  stages'[h][j].status \in {"passed", "ok", "reached"}
      <4>1. CASE j = n
        BY <1>5, <2>4, <2>5, <3>1, <4>1
      <4>2. CASE j # n
        <5>1. j \in 1..n - 1
          BY <2>2, <4>2
        <5> QED
          BY <1>1, <1>5, <2>2, <2>4, <3>1, <5>1 DEF Clear
      <4> QED
        BY <4>1, <4>2
    <3> QED
      BY <1>3, <2>3, <2>4, <3>1 DEF Clear
  <2>8. Ran(h)'
    <3>1. ASSUME NEW i \in 1..n, stages'[h][i].status \in {"ok", "failed"},
                 NEW j \in 1..i - 1
          PROVE  /\ stages'[h][j].status # "reached"
                 /\ PlanOf(h)[j].required => stages'[h][j].status \in {"passed", "ok"}
      <4>1. j \in 1..n - 1 /\ stages'[h][j] = stages[h][j]
        BY <2>2, <2>4
      <4>2. CASE i = n
        <5>1. halt[g] = "no"
          BY <2>4, <3>1, <4>2
        <5> QED
          BY <1>1, <1>5, <2>2, <2>6, <4>1, <5>1 DEF Clear
      <4>3. CASE i # n
        <5>1. i \in 1..n - 1 /\ stages'[h][i] = stages[h][i]
          BY <2>2, <2>4, <4>3
        <5> QED
          BY <1>1, <1>5, <2>2, <3>1, <4>1, <5>1 DEF Ran
      <4> QED
        BY <4>2, <4>3
    <3> QED
      BY <1>3, <2>4, <3>1 DEF Ran
  <2> QED
    BY <2>7, <2>8
<1> QED
  BY <1>4, <1>5

\* Every outcome the loop records keeps the way.
LEMMA WayKept ==
  ASSUME TypeOK, FlowInv, WayInv, NEW g \in Handle,
         \/ NotReached(g) \/ ReachPerson(g)
         \/ PassGate(g) \/ RefuseGate(g) \/ RejectAtGate(g)
         \/ RefuseDispatch(g) \/ NotDispatched(g)
         \/ Admit(g) \/ AdmitNone(g) \/ DispatcherThrows(g)
  PROVE  WayInv'
<1> SUFFICES \E status \in Statuses, gives \in SUBSET Contract,
                halts \in {"no", "blocked", "failed", "rejected"} :
               /\ RecordStage(g, status, gives, halts)
               /\ InLoop(g) \/ pc[g] = "await"
               /\ halts = "no" => /\ halt[g] = "no"
                                  /\ Stage(g).required =>
                                       status \in {"passed", "ok", "reached"}
               /\ status \in {"ok", "failed"} => halt[g] = "no"
  BY WayRecorded
<1>1. halt[g] \in {"no", "blocked", "failed", "rejected"}
  BY DEF TypeOK
<1>2. pc[g] = "await" => halt[g] = "no"
  BY DEF FlowInv, Flow
<1>3. \A s : /\ Blocks(s) \in {"no", "blocked"}
             /\ Blocks(s) = "no" => ~s.required
  BY DEF Blocks
<1>4. CASE NotReached(g)
  BY <1>1, <1>4 DEF NotReached, Statuses
<1>5. CASE ReachPerson(g)
  BY <1>5 DEF ReachPerson, At, Statuses
<1>6. CASE PassGate(g)
  BY <1>6 DEF PassGate, At, Statuses
<1>7. CASE RefuseGate(g)
  <2>1. RecordStage(g, "refused", {}, Blocks(Stage(g)))
    BY <1>7 DEF RefuseGate, Blocks
  <2> QED
    BY <1>3, <1>7, <2>1 DEF RefuseGate, At, Statuses
<1>8. CASE RejectAtGate(g)
  BY <1>8 DEF RejectAtGate, At, Statuses
<1>9. CASE RefuseDispatch(g)
  BY <1>3, <1>9 DEF RefuseDispatch, At, Statuses
<1>10. CASE NotDispatched(g)
  BY <1>3, <1>10 DEF NotDispatched, At, Statuses
<1>11. CASE Admit(g)
  <2>1. \E gives \in SUBSET Granted(Stage(g)) : RecordStage(g, "ok", gives, "no")
    BY <1>11 DEF Admit
  <2>2. Granted(Stage(g)) \in SUBSET Contract
    BY <1>11, GrantedContracts DEF Admit
  <2> QED
    BY <1>2, <1>11, <2>1, <2>2 DEF Admit, Statuses
<1>12. CASE AdmitNone(g)
  BY <1>2, <1>3, <1>12 DEF AdmitNone, Statuses
<1>13. CASE DispatcherThrows(g)
  BY <1>2, <1>13 DEF DispatcherThrows, Statuses
<1> QED
  BY <1>4, <1>5, <1>6, <1>7, <1>8, <1>9, <1>10, <1>11, <1>12, <1>13

\* Every step keeps what NothingSteppedOver rests on.
LEMMA WayStep ==
  ASSUME TypeOK, FlowInv, WayInv, [Next]_vars
  PROVE  WayInv'
<1>1. CASE UNCHANGED vars
  BY <1>1 DEF vars, WayInv, Clear, Ran, PlanOf, TypeOf
<1>2. ASSUME NEW g \in Handle, Open(g)
      PROVE  WayInv'
  <2>1. PICK call : event' = [event EXCEPT ![g] = call]
    BY <1>2 DEF Open
  <2>2. stages' = stages /\ halt' = halt /\ stages[g] = <<>>
    BY <1>2 DEF Open, FlowInv, Flow
  <2>3. \A h \in Handle : event'[h] = event[h] \/ stages[h] = <<>>
    BY <2>1, <2>2 DEF TypeOK
  <2> QED
    BY <2>2, <2>3, WayStays
<1>3. ASSUME NEW g \in Handle,
             \/ Classify(g) \/ MakePlan(g) \/ Begin(g) \/ Settle(g) \/ LeaveBlocked(g)
             \/ Catch(g) \/ GateThrows(g) \/ Dispatch(g) \/ Crash(g)
      PROVE  WayInv'
  <2>1. stages' = stages /\ halt' = halt /\ event' = event
    BY <1>3 DEF Classify, MakePlan, Begin, Settle, LeaveBlocked, Transition, Catch,
                GateThrows, Dispatch, Crash
  <2> QED
    BY <2>1, WayStays
<1> QED
  BY <1>1, <1>2, <1>3, WayKept DEF Next, Steps

(* No dispatcher runs behind a required stage that did not pass, whatever  *)
(* the table and whatever the other stages come to: refused, missing,      *)
(* optional or broken.                                                     *)
THEOREM NeverSteppedOver == Spec => []NothingSteppedOver
<1>1. Init => WayInv
  BY DEF Init, WayInv, Clear, Ran
<1>2. TypeOK /\ FlowInv /\ WayInv /\ [Next]_vars => WayInv'
  BY WayStep
<1>3. TypeOK /\ FlowInv /\ WayInv => NothingSteppedOver
  <2> SUFFICES ASSUME TypeOK, FlowInv, WayInv, NEW h \in Handle,
                      NEW i \in 1..Len(stages[h]) + 1,
                      \/ i <= Len(stages[h]) /\ stages[h][i].status \in {"ok", "failed"}
                      \/ i = Len(stages[h]) + 1 /\ pc[h] = "await",
                      NEW j \in 1..i - 1, PlanOf(h)[j].required
               PROVE  stages[h][j].status \in {"passed", "ok"}
    BY DEF NothingSteppedOver
  <2>1. stages[h] \in Seq(Outcome)
    BY DEF TypeOK
  <2>2. Len(stages[h]) \in Nat /\ DOMAIN stages[h] = 1..Len(stages[h])
    BY <2>1
  <2>3. Clear(h) /\ Ran(h)
    BY DEF WayInv
  <2>4. CASE i <= Len(stages[h]) /\ stages[h][i].status \in {"ok", "failed"}
    <3>1. i \in DOMAIN stages[h]
      BY <2>2, <2>4
    <3> QED
      BY <2>3, <2>4, <3>1 DEF Ran
  <2>5. CASE i = Len(stages[h]) + 1 /\ pc[h] = "await"
    <3>1. j \in DOMAIN stages[h]
      BY <2>2, <2>5
    <3>2. halt[h] = "no" /\ With(h, "reached") = {}
      BY <2>5 DEF FlowInv, Flow
    <3> QED
      BY <2>3, <3>1, <3>2 DEF Clear, With
  <2> QED
    BY <2>4, <2>5
<1> QED
  BY <1>1, <1>2, <1>3, TypeCorrect, PTL DEF Spec

-----------------------------------------------------------------------------
(* What an end state says of the run                                       *)

\* Every stage of the plan is accounted for.
Whole(h) == event[h] # None /\ TypeOf(h) # None /\ Len(stages[h]) = Len(PlanOf(h))

\* A denied proposal: the approval gate refused, and nothing ran after it.
Denied(h) ==
  \E i \in With(h, "refused") :
    /\ PlanOf(h)[i].who = "approval"
    /\ \A j \in DOMAIN stages[h] : j > i => stages[h][j].status = "not_reached"

\* How the loop stopped shows in the stages, and a person is reached at a
\* stage that is one.
Shown(h) ==
  /\ halt[h] = "failed" => With(h, "failed") # {}
  /\ halt[h] = "rejected" => Denied(h)
  /\ \A i \in With(h, "reached") : PlanOf(h)[i].kind = "human"

\* EndTellsTheRun of one call, in the state s, with what a blocked workflow
\* says.
Tells(h, s) ==
  /\ s = "completed" =>
       /\ Whole(h)
       /\ Produced(h) = {}
       /\ Workflows[TypeOf(h)].alone
       /\ With(h, "not_dispatched") = {}
       /\ \A i \in DOMAIN stages[h] : PlanOf(h)[i].required =>
            stages[h][i].status \in {"passed", "ok", "reached"}
  /\ s = "unresolved" =>
       Whole(h) /\ Produced(h) = {} /\ With(h, "not_dispatched") # {}
  /\ s = "rejected" => Whole(h) /\ Denied(h)
  /\ s = "failed" => faults > 0 \/ (Whole(h) /\ With(h, "failed") # {})
  /\ s = "human_review_required" => Whole(h) \/ stages[h] = <<>>
  /\ s = "blocked" => Whole(h)

\* So the state says, and an exception that is caught is a fault.
Told(h) == Tells(h, state[h]) /\ (pc[h] = "catch" => faults > 0)

RunInv == \A h \in Handle : Shown(h) /\ Told(h)

\* Faults are counted, and an exception in the caller is one of them.
LEMMA AppendedCounts ==
  ASSUME TypeOK, NEW g \in Handle, NEW from, NEW to, NEW next \in {"route", "done"},
         Appended(g, from, to, next)
  PROVE  /\ faults' >= faults
         /\ \/ pc' = [pc EXCEPT ![g] = next]
            \/ pc' = [pc EXCEPT ![g] = "dead"]
            \/ pc' = [pc EXCEPT ![g] = "catch"] /\ faults' > 0
BY DEF Appended, TypeOK

\* Where the stages, the halt and the event of a call are as they were, its
\* state may be any that tells of them.
LEMMA RunStays ==
  ASSUME TypeOK, NEW h \in Handle, NEW s, Shown(h), Tells(h, s),
         stages'[h] = stages[h], halt'[h] = halt[h], event'[h] = event[h],
         state'[h] = s, faults' \in Nat, faults' >= faults,
         pc'[h] = "catch" => faults' > 0
  PROVE  Shown(h)' /\ Told(h)'
<1>1. /\ TypeOf(h)' = TypeOf(h) /\ PlanOf(h)' = PlanOf(h) /\ Produced(h)' = Produced(h)
      /\ \A status \in Statuses : With(h, status)' = With(h, status)
  BY DEF TypeOf, PlanOf, Produced, With
<1>2. (Whole(h)' <=> Whole(h)) /\ (Denied(h)' <=> Denied(h))
  BY <1>1 DEF Whole, Denied, Statuses
<1>3. faults \in Nat
  BY BoundAssumption DEF TypeOK
<1>4. Shown(h)'
  BY <1>1, <1>2 DEF Shown, Statuses
<1>5. Tells(h, state[h])'
  BY <1>1, <1>2, <1>3 DEF Tells, Statuses
<1> QED
  BY <1>4, <1>5 DEF Told

\* The calls a step is not of are told as they were.
LEMMA RunOfOthers ==
  ASSUME TypeOK, RunInv, NEW h \in Handle,
         stages'[h] = stages[h], halt'[h] = halt[h], event'[h] = event[h],
         state'[h] = state[h], pc'[h] = pc[h], faults' \in Nat, faults' >= faults
  PROVE  Shown(h)' /\ Told(h)'
<1>1. faults \in Nat /\ Shown(h) /\ Told(h)
  BY BoundAssumption DEF TypeOK, RunInv
<1> QED
  BY <1>1, RunStays DEF Told

\* A transition to a state that tells of the run.
LEMMA RunMoved ==
  ASSUME TypeOK, TypeOK', RunInv, NEW g \in Handle,
         NEW to, NEW next \in {"route", "done"},
         Transition(g, to, next), Tells(g, to)
  PROVE  RunInv'
<1>1. /\ UNCHANGED <<event, wired, stages, halt>>
      /\ state' = [state EXCEPT ![g] = to]
      /\ Appended(g, state[g], to, next)
  BY DEF Transition
<1>2. /\ faults' \in Nat /\ faults' >= faults
      /\ \E p \in {"route", "done", "dead", "catch"} :
           pc' = [pc EXCEPT ![g] = p] /\ (p = "catch" => faults' > 0)
  BY <1>1, AppendedCounts, BoundAssumption DEF TypeOK
<1> SUFFICES ASSUME NEW h \in Handle PROVE Shown(h)' /\ Told(h)'
  BY DEF RunInv
<1>3. CASE h # g
  <2>1. state'[h] = state[h] /\ pc'[h] = pc[h]
    BY <1>1, <1>2, <1>3 DEF TypeOK
  <2> QED
    BY <1>1, <1>2, <2>1, RunOfOthers
<1>4. CASE h = g
  <2>1. state'[h] = to /\ (pc'[h] = "catch" => faults' > 0)
    BY <1>1, <1>2, <1>4 DEF TypeOK
  <2>2. Shown(h) /\ Tells(h, to)
    BY <1>4 DEF RunInv
  <2> QED
    BY <1>1, <1>2, <2>1, <2>2, RunStays
<1> QED
  BY <1>3, <1>4

\* A workflow settles where the loop is over, and then the whole plan is
\* accounted for: a person is reached last.
LEMMA OverIsWhole ==
  ASSUME TypeOK, FlowInv, RunInv, NEW g \in Handle,
         Routing(g, "in_progress"), LoopOver(g)
  PROVE  Whole(g)
<1>1. Flow(g) /\ Shown(g)
  BY DEF FlowInv, RunInv
<1>2. event[g] \in Event /\ TypeOf(g) \in Type /\ Len(stages[g]) <= Len(PlanOf(g))
  BY <1>1 DEF Flow, Routing
<1>3. event[g] # None /\ TypeOf(g) # None
  BY <1>2, TableAssumption
<1>4. /\ Len(PlanOf(g)) \in Nat /\ DOMAIN PlanOf(g) = 1..Len(PlanOf(g))
      /\ Len(stages[g]) \in Nat /\ DOMAIN stages[g] = 1..Len(stages[g])
  BY <1>2, PlanType DEF PlanOf, TypeOK
<1>5. ASSUME NEW i \in With(g, "reached")
      PROVE  Len(stages[g]) = Len(PlanOf(g))
  <2>1. i \in 1..Len(stages[g]) /\ i \in DOMAIN PlanOf(g)
    BY <1>2, <1>4, <1>5 DEF With
  <2>2. i = Len(PlanOf(g))
    BY <1>1, <1>2, <1>5, <2>1, PersonLastAssumption DEF Shown, PlanOf
  <2> QED
    BY <1>2, <1>4, <2>1, <2>2
<1> QED
  BY <1>3, <1>5 DEF LoopOver, Whole

\* Every transition of the routing is to a state that tells of the run.
LEMMA RoutesTell ==
  ASSUME TypeOK, TypeOK', FlowInv, WayInv, RunInv, NEW g \in Handle,
         \/ Classify(g) \/ MakePlan(g) \/ Begin(g) \/ Settle(g) \/ LeaveBlocked(g)
  PROVE  RunInv'
<1>1. Flow(g) /\ Shown(g) /\ Told(g) /\ Clear(g)
  BY DEF FlowInv, RunInv, WayInv
<1>2. CASE Classify(g)
  <2>1. stages[g] = <<>>
    BY <1>1, <1>2 DEF Classify, Routing, Flow
  <2>2. Tells(g, "human_review_required") /\ Tells(g, "classified")
    BY <2>1 DEF Tells
  <2> QED
    BY <1>2, <2>2, RunMoved DEF Classify
<1>3. CASE MakePlan(g)
  <2>1. Tells(g, "planned")
    BY DEF Tells
  <2> QED
    BY <1>3, <2>1, RunMoved DEF MakePlan
<1>4. CASE Begin(g)
  <2>1. Tells(g, "in_progress")
    BY DEF Tells
  <2> QED
    BY <1>4, <2>1, RunMoved DEF Begin
<1>5. CASE Settle(g)
  <2>1. Whole(g)
    BY <1>5, OverIsWhole DEF Settle
  <2>2. CASE halt[g] # "no"
    <3>1. Settled(g) = halt[g] /\ halt[g] \in {"blocked", "failed", "rejected"}
      BY <2>2 DEF Settled, TypeOK
    <3>2. Tells(g, Settled(g))
      BY <1>1, <2>1, <3>1 DEF Tells, Shown
    <3> QED
      BY <1>5, <3>2, RunMoved DEF Settle
  <2>3. CASE halt[g] = "no"
    <3>1. \A i \in DOMAIN stages[g] : PlanOf(g)[i].required =>
            stages[g][i].status \in {"passed", "ok", "reached"}
      BY <1>1, <2>3 DEF Clear
    <3>2. CASE Produced(g) = {} /\ Workflows[TypeOf(g)].alone
      <4>1. Settled(g) = IF With(g, "not_dispatched") # {} THEN "unresolved" ELSE "completed"
        BY <2>3, <3>2 DEF Settled
      <4>2. Tells(g, Settled(g))
        BY <2>1, <3>1, <3>2, <4>1 DEF Tells
      <4> QED
        BY <1>5, <4>2, RunMoved DEF Settle
    <3>3. CASE ~ (Produced(g) = {} /\ Workflows[TypeOf(g)].alone)
      <4>1. Settled(g) = "human_review_required"
        BY <2>3, <3>3 DEF Settled
      <4>2. Tells(g, Settled(g))
        BY <2>1, <4>1 DEF Tells
      <4> QED
        BY <1>5, <4>2, RunMoved DEF Settle
    <3> QED
      BY <3>2, <3>3
  <2> QED
    BY <2>2, <2>3
<1>6. CASE LeaveBlocked(g)
  <2>1. Whole(g)
    BY <1>1, <1>6 DEF LeaveBlocked, Routing, Told, Tells
  <2>2. CASE With(g, "not_dispatched") # {} /\ With(g, "refused") = {} /\ Produced(g) = {}
    <3>1. Tells(g, "unresolved")
      BY <2>1, <2>2 DEF Tells
    <3> QED
      BY <1>6, <2>2, <3>1, RunMoved DEF LeaveBlocked
  <2>3. CASE ~ (With(g, "not_dispatched") # {} /\ With(g, "refused") = {} /\ Produced(g) = {})
    <3>1. Tells(g, "human_review_required")
      BY <2>1 DEF Tells
    <3> QED
      BY <1>6, <2>3, <3>1, RunMoved DEF LeaveBlocked
  <2> QED
    BY <2>2, <2>3
<1> QED
  BY <1>2, <1>3, <1>4, <1>5, <1>6

\* A stage recorded tells why the loop stopped, where it did.
LEMMA RunRecorded ==
  ASSUME TypeOK, TypeOK', FlowInv, RunInv, NEW g \in Handle,
         InLoop(g) \/ pc[g] = "await",
         NEW status \in Statuses, NEW gives \in SUBSET Contract,
         NEW halts \in {"no", "blocked", "failed", "rejected"},
         RecordStage(g, status, gives, halts),
         halts = "failed" => \/ status = "failed"
                             \/ status = "not_reached" /\ halt[g] = "failed",
         halts = "rejected" => \/ status = "refused" /\ Stage(g).who = "approval"
                               \/ status = "not_reached" /\ halt[g] = "rejected",
         status = "reached" => Stage(g).kind = "human"
  PROVE  RunInv'
<1> DEFINE outcome == [status |-> status, gives |-> gives]
           n == Len(stages[g]) + 1
<1>1. /\ UNCHANGED <<event, wired, state>>
      /\ stages' = [stages EXCEPT ![g] = Append(stages[g], outcome)]
      /\ halt' = [halt EXCEPT ![g] = halts]
      /\ Appended(g, state[g], state[g], "route")
  BY DEF RecordStage
<1>2. /\ faults' \in Nat /\ faults' >= faults
      /\ \E p \in {"route", "dead", "catch"} :
           pc' = [pc EXCEPT ![g] = p] /\ (p = "catch" => faults' > 0)
  BY <1>1, AppendedCounts, BoundAssumption DEF TypeOK
<1>3. stages[g] \in Seq(Outcome) /\ outcome \in Outcome
  BY DEF TypeOK, Outcome
<1>4. /\ n \in Nat /\ DOMAIN stages[g] = 1..n - 1
      /\ DOMAIN stages'[g] = 1..n
      /\ stages'[g][n].status = status
      /\ \A j \in 1..n - 1 : stages'[g][j] = stages[g][j]
  <2>1. stages'[g] = Append(stages[g], outcome)
    BY <1>1 DEF TypeOK
  <2>2. outcome.status = status
    OBVIOUS
  <2> HIDE DEF outcome
  <2> QED
    BY <1>3, <2>1, <2>2
<1>5. \A h \in Handle : PlanOf(h)' = PlanOf(h)
  BY <1>1 DEF PlanOf, TypeOf
<1>6. PlanOf(g)[n] = Stage(g) /\ state[g] = "in_progress"
  BY InTheLoop DEF Stage
<1> HIDE DEF n
<1> SUFFICES ASSUME NEW h \in Handle PROVE Shown(h)' /\ Told(h)'
  BY DEF RunInv
<1>7. CASE h # g
  <2>1. stages'[h] = stages[h] /\ halt'[h] = halt[h] /\ pc'[h] = pc[h]
    BY <1>1, <1>2, <1>7 DEF TypeOK
  <2> QED
    BY <1>1, <1>2, <2>1, RunOfOthers
<1>8. CASE h = g
  <2>0. Shown(g) /\ halt'[g] = halts /\ n \in 1..n
    BY <1>1, <1>4, InTheLoop DEF RunInv, TypeOK
  <2>1. halts = "failed" => With(g, "failed")' # {}
    <3>1. CASE status = "failed"
      BY <1>4, <2>0, <3>1 DEF With
    <3>2. CASE halt[g] = "failed"
      <4>1. PICK i \in 1..n - 1 : stages[g][i].status = "failed"
        BY <1>4, <2>0, <3>2 DEF Shown, With
      <4>2. i \in 1..n
        BY <1>4
      <4> QED
        BY <1>4, <4>1, <4>2 DEF With
    <3> QED
      BY <3>1, <3>2
  <2>2. halts = "rejected" => Denied(g)'
    <3>1. CASE status = "refused" /\ Stage(g).who = "approval"
      <4>1. n \in With(g, "refused")' /\ PlanOf(g)'[n].who = "approval"
        BY <1>4, <1>5, <1>6, <2>0, <3>1 DEF With
      <4>2. \A j \in DOMAIN stages'[g] : ~ (j > n)
        BY <1>4
      <4> QED
        BY <4>1, <4>2 DEF Denied
    <3>2. CASE status = "not_reached" /\ halt[g] = "rejected"
      <4>1. PICK i \in 1..n - 1 :
              /\ stages[g][i].status = "refused"
              /\ PlanOf(g)[i].who = "approval"
              /\ \A j \in 1..n - 1 : j > i => stages[g][j].status = "not_reached"
        BY <1>4, <2>0, <3>2 DEF Shown, Denied, With
      <4>2. i \in With(g, "refused")' /\ PlanOf(g)'[i].who = "approval"
        BY <1>4, <1>5, <4>1 DEF With
      <4>3. ASSUME NEW j \in 1..n, j > i
            PROVE  stages'[g][j].status = "not_reached"
        <5>1. CASE j = n
          BY <1>4, <3>2, <5>1
        <5>2. CASE j # n
          <6>1. j \in 1..n - 1
            BY <1>4, <5>2
          <6> QED
            BY <1>4, <4>1, <4>3, <6>1
        <5> QED
          BY <5>1, <5>2
      <4> QED
        BY <1>4, <4>2, <4>3 DEF Denied
    <3> QED
      BY <3>1, <3>2
  <2>3. ASSUME NEW i \in With(g, "reached")'
        PROVE  PlanOf(g)'[i].kind = "human"
    <3>1. i \in 1..n /\ stages'[g][i].status = "reached"
      BY <1>4, <2>3 DEF With
    <3>2. CASE i = n
      BY <1>4, <1>5, <1>6, <3>1, <3>2
    <3>3. CASE i # n
      <4>1. i \in 1..n - 1
        BY <1>4, <3>1, <3>3
      <4>2. i \in With(g, "reached")
        BY <1>4, <3>1, <4>1 DEF With
      <4> QED
        BY <1>5, <2>0, <4>2 DEF Shown
    <3> QED
      BY <3>2, <3>3
  <2>4. Told(g)'
    <3>1. state'[g] = "in_progress" /\ (pc'[g] = "catch" => faults' > 0)
      BY <1>1, <1>2, <1>6 DEF TypeOK
    <3> QED
      BY <3>1 DEF Told, Tells
  <2> QED
    BY <1>8, <2>0, <2>1, <2>2, <2>3, <2>4 DEF Shown
<1> QED
  BY <1>7, <1>8

\* So does every outcome the loop records.
LEMMA RunKept ==
  ASSUME TypeOK, TypeOK', FlowInv, RunInv, NEW g \in Handle,
         \/ NotReached(g) \/ ReachPerson(g)
         \/ PassGate(g) \/ RefuseGate(g) \/ RejectAtGate(g)
         \/ RefuseDispatch(g) \/ NotDispatched(g)
         \/ Admit(g) \/ AdmitNone(g) \/ DispatcherThrows(g)
  PROVE  RunInv'
<1> SUFFICES \E status \in Statuses, gives \in SUBSET Contract,
                halts \in {"no", "blocked", "failed", "rejected"} :
               /\ RecordStage(g, status, gives, halts)
               /\ InLoop(g) \/ pc[g] = "await"
               /\ halts = "failed" => \/ status = "failed"
                                      \/ status = "not_reached" /\ halt[g] = "failed"
               /\ halts = "rejected" =>
                    \/ status = "refused" /\ Stage(g).who = "approval"
                    \/ status = "not_reached" /\ halt[g] = "rejected"
               /\ status = "reached" => Stage(g).kind = "human"
  BY RunRecorded
<1>1. halt[g] \in {"no", "blocked", "failed", "rejected"}
  BY DEF TypeOK
<1>2. \A s : Blocks(s) \in {"no", "blocked"}
  BY DEF Blocks
<1>3. CASE NotReached(g)
  BY <1>1, <1>3 DEF NotReached, Statuses
<1>4. CASE ReachPerson(g)
  BY <1>4 DEF ReachPerson, At, Statuses
<1>5. CASE PassGate(g)
  BY <1>5 DEF PassGate, At, Statuses
<1>6. CASE RefuseGate(g)
  <2>1. RecordStage(g, "refused", {}, Blocks(Stage(g)))
    BY <1>6 DEF RefuseGate, Blocks
  <2> QED
    BY <1>2, <1>6, <2>1 DEF RefuseGate, At, Statuses
<1>7. CASE RejectAtGate(g)
  BY <1>7 DEF RejectAtGate, At, Statuses
<1>8. CASE RefuseDispatch(g)
  BY <1>2, <1>8 DEF RefuseDispatch, At, Statuses
<1>9. CASE NotDispatched(g)
  BY <1>2, <1>9 DEF NotDispatched, At, Statuses
<1>10. CASE Admit(g)
  <2>1. \E gives \in SUBSET Granted(Stage(g)) : RecordStage(g, "ok", gives, "no")
    BY <1>10 DEF Admit
  <2>2. Granted(Stage(g)) \in SUBSET Contract
    BY <1>10, GrantedContracts DEF Admit
  <2> QED
    BY <1>10, <2>1, <2>2 DEF Admit, Statuses
<1>11. CASE AdmitNone(g)
  BY <1>2, <1>11 DEF AdmitNone, Statuses
<1>12. CASE DispatcherThrows(g)
  BY <1>12 DEF DispatcherThrows, Statuses
<1> QED
  BY <1>3, <1>4, <1>5, <1>6, <1>7, <1>8, <1>9, <1>10, <1>11, <1>12

\* A step that records no stage and moves to no state but that of a caught
\* exception.
LEMMA RunPlaced ==
  ASSUME TypeOK, TypeOK', RunInv, NEW g \in Handle,
         GateThrows(g) \/ Dispatch(g) \/ Crash(g) \/ Catch(g)
  PROVE  RunInv'
<1>1. faults \in Nat /\ faults' \in Nat /\ faults' >= faults
      /\ UNCHANGED <<event, stages, halt>>
  BY BoundAssumption DEF TypeOK, GateThrows, Dispatch, Crash, Catch
<1>2. \E p \in {"await", "dead", "done", "catch"} :
        pc' = [pc EXCEPT ![g] = p] /\ (p = "catch" => faults' > 0)
  BY BoundAssumption DEF TypeOK, GateThrows, Dispatch, Crash, Catch
<1>3. \E s : /\ state' = [state EXCEPT ![g] = s]
             /\ s = state[g] \/ (s = "failed" /\ pc[g] = "catch")
  <2>1. CASE UNCHANGED state
    <3>1. state' = [state EXCEPT ![g] = state[g]]
      BY <2>1 DEF TypeOK
    <3> QED
      BY <3>1
  <2>2. CASE Catch(g)
    BY <2>1, <2>2 DEF Catch
  <2> QED
    BY <2>1, <2>2 DEF GateThrows, Dispatch, Crash
<1> SUFFICES ASSUME NEW h \in Handle PROVE Shown(h)' /\ Told(h)'
  BY DEF RunInv
<1>4. CASE h # g
  <2>1. state'[h] = state[h] /\ pc'[h] = pc[h]
    BY <1>2, <1>3, <1>4 DEF TypeOK
  <2> QED
    BY <1>1, <2>1, RunOfOthers
<1>5. CASE h = g
  <2>1. Shown(g) /\ Told(g)
    BY DEF RunInv
  <2>2. PICK s : /\ state'[g] = s
                 /\ s = state[g] \/ (s = "failed" /\ pc[g] = "catch")
    BY <1>3 DEF TypeOK
  <2>3. Tells(g, s)
    BY <2>1, <2>2 DEF Told, Tells
  <2>4. pc'[g] = "catch" => faults' > 0
    BY <1>2 DEF TypeOK
  <2> QED
    BY <1>1, <1>5, <2>1, <2>2, <2>3, <2>4, RunStays
<1> QED
  BY <1>4, <1>5

\* An event is accepted: nothing to tell yet.
LEMMA RunOpened ==
  ASSUME TypeOK, TypeOK', FlowInv, RunInv, NEW g \in Handle, Open(g)
  PROVE  RunInv'
<1>1. /\ stages[g] = <<>> /\ UNCHANGED <<stages, halt>>
      /\ state' = [state EXCEPT ![g] = "received"]
      /\ Appended(g, Unopened, "received", "route")
      /\ \E e : event' = [event EXCEPT ![g] = e]
  BY DEF Open, FlowInv, Flow
<1>2. /\ faults' \in Nat /\ faults' >= faults
      /\ \E p \in {"route", "dead", "catch"} :
           pc' = [pc EXCEPT ![g] = p] /\ (p = "catch" => faults' > 0)
  BY <1>1, AppendedCounts, BoundAssumption DEF TypeOK
<1> SUFFICES ASSUME NEW h \in Handle PROVE Shown(h)' /\ Told(h)'
  BY DEF RunInv
<1>3. CASE h # g
  <2>1. state'[h] = state[h] /\ pc'[h] = pc[h] /\ event'[h] = event[h]
    BY <1>1, <1>2, <1>3 DEF TypeOK
  <2> QED
    BY <1>1, <1>2, <2>1, RunOfOthers
<1>4. CASE h = g
  <2>1. state'[g] = "received" /\ (pc'[g] = "catch" => faults' > 0)
    BY <1>1, <1>2 DEF TypeOK
  <2>2. Told(g)'
    BY <2>1 DEF Told, Tells
  <2>3. halt[g] \notin {"failed", "rejected"}
    BY <1>1 DEF RunInv, Shown, Denied, With
  <2>4. Shown(g)'
    BY <1>1, <2>3 DEF Shown, With
  <2> QED
    BY <1>4, <2>2, <2>4
<1> QED
  BY <1>3, <1>4

(* The end state says what happened in the stages, whatever the table,     *)
(* whatever refuses, is missing or is thrown: completed only where nobody  *)
(* produced anything and every required stage passed, rejected only where  *)
(* nothing ran after the denial, failed only where something broke.        *)
THEOREM EndsTellTheRun == Spec => []EndTellsTheRun
<1>1. Init => WayInv /\ RunInv
  BY DEF Init, WayInv, Clear, Ran, RunInv, Shown, Told, Tells, With, Unopened,
         Lifecycle!Unopened
<1>2. TypeOK /\ FlowInv /\ WayInv /\ RunInv /\ [Next]_vars => WayInv' /\ RunInv'
  <2> SUFFICES ASSUME TypeOK, FlowInv, WayInv, RunInv, [Next]_vars
               PROVE  WayInv' /\ RunInv'
    OBVIOUS
  <2>1. TypeOK'
    BY StepKeeps
  <2>2. CASE UNCHANGED vars
    <3> SUFFICES ASSUME NEW h \in Handle PROVE Shown(h)' /\ Told(h)'
      BY WayStep DEF RunInv
    <3> QED
      BY <2>2, RunOfOthers, BoundAssumption DEF vars, TypeOK
  <2>3. ASSUME NEW g \in Handle, Open(g) \/ Steps(g) \/ Crash(g)
        PROVE  RunInv'
    BY <2>1, <2>3, RunOpened, RunKept, RoutesTell, RunPlaced DEF Steps
  <2> QED
    BY <2>2, <2>3, WayStep DEF Next
<1>3. RunInv => EndTellsTheRun
  BY DEF RunInv, Told, Tells, Whole, Denied, EndTellsTheRun
<1> QED
  BY <1>1, <1>2, <1>3, TypeCorrect, PTL DEF Spec

-----------------------------------------------------------------------------
(* Reading the journal back                                                *)

\* Of some positions one is the first, and of some up to n one is the last.
LEMMA FirstPosition ==
  ASSUME NEW S \in SUBSET Nat, S # {}
  PROVE  \E i \in S : \A j \in S : i <= j
<1> DEFINE R == OpToRel(<, Nat)
<1>1. IsWellFoundedOn(R, Nat)
  BY NatLessThanWellFounded
<1>2. \A a, b \in Nat : <<a, b>> \in R <=> a < b
  BY DEF OpToRel
<1> HIDE DEF R
<1>3. PICK i \in S : \A j \in S : <<j, i>> \notin R
  BY <1>1, WFMin
<1>4. ASSUME NEW j \in S PROVE i <= j
  <2>1. i \in Nat /\ j \in Nat /\ ~ (j < i)
    BY <1>2, <1>3
  <2> QED
    BY <2>1
<1> QED
  BY <1>4

LEMMA LastPosition ==
  ASSUME NEW n \in Nat, NEW S \in SUBSET (1 .. n), S # {}
  PROVE  \E i \in S : \A j \in S : j <= i
<1> DEFINE T == {n - i : i \in S}
<1>1. T \subseteq Nat /\ T # {}
  <2>1. \A i \in S : n - i \in Nat
    OBVIOUS
  <2> QED
    BY <2>1
<1>2. \E x \in T : \A y \in T : x <= y
  <2> HIDE DEF T
  <2> QED
    BY <1>1, FirstPosition
<1>3. PICK i \in S : \A j \in S : n - i <= n - j
  BY <1>2
<1>4. ASSUME NEW j \in S PROVE j <= i
  BY <1>3
<1> QED
  BY <1>4

\* Where each line starts in the state the line before it led to, and the
\* first is a transition, replay gives the state the last line leads to.
LEMMA ChainReplays ==
  ASSUME NEW lines \in Seq(Line), lines # <<>>,
         lines[1].from # lines[1].to,
         \A i \in 2 .. Len(lines) : lines[i].from = lines[i - 1].to
  PROVE  Replay(lines) = lines[Len(lines)].to
<1> DEFINE n == Len(lines)
           M == Moves(lines)
           m == CHOOSE i \in M : \A j \in M : j <= i
<1>1. n \in Nat /\ 1 \in 1..n /\ DOMAIN lines = 1..n
  OBVIOUS
<1>2. M \subseteq 1..n /\ M # {}
  BY <1>1 DEF Moves
<1> HIDE DEF M
<1>3. m \in M /\ \A j \in M : j <= m
  <2>1. \E i \in M : \A j \in M : j <= i
    BY <1>1, <1>2, LastPosition
  <2> QED
    BY <2>1
<1>4. m \in 1..n /\ Replay(lines) = lines[m].to
  BY <1>2, <1>3 DEF Replay, M
<1> HIDE DEF m
<1>5. ASSUME lines[n].to # lines[m].to
      PROVE  FALSE
  <2> DEFINE S == {i \in m..n : lines[i].to # lines[m].to}
  <2>1. S \subseteq Nat /\ n \in S
    BY <1>1, <1>4, <1>5
  <2>2. PICK k \in S : \A j \in S : k <= j
    <3> HIDE DEF S
    <3> QED
      BY <2>1, FirstPosition
  <2>3. k \in m..n /\ k # m /\ lines[k].to # lines[m].to
    BY <2>2
  <2>4. k \in 2..n /\ k - 1 \in m..n /\ ~ (k <= k - 1)
    BY <1>1, <1>4, <2>3
  <2>5. lines[k - 1].to = lines[m].to
    BY <2>2, <2>4
  <2>6. lines[k].from = lines[k].to
    <3>1. k \in 1..n /\ ~ (k <= m)
      BY <1>1, <1>4, <2>3
    <3> QED
      BY <1>1, <1>3, <3>1 DEF M, Moves
  <2> QED
    BY <2>3, <2>4, <2>5, <2>6
<1> QED
  BY <1>4, <1>5

\* What a line says of the call that wrote it: it is of the event the call
\* carries, the call's first is its opening and was written before, and a line
\* whose number follows starts where this one ended, or the call is there.
LineTells(e, i) ==
  LET l == journal[e][i] IN
  /\ pc[l.by] # "idle"
  /\ event[l.by] = e
  /\ l.seq < seq[l.by]
  /\ l.seq = 0 => l.from # l.to
  /\ \E k \in DOMAIN journal[e] : journal[e][k].by = l.by /\ journal[e][k].seq = 0
  /\ l.seq + 1 = seq[l.by] => l.to = state[l.by]
  /\ \A j \in DOMAIN journal[e] :
       journal[e][j].by = l.by /\ journal[e][j].seq = l.seq + 1
         => journal[e][j].from = l.to

\* A call numbers its opening line 0, and lives on only where it was written.
Numbered(h) ==
  /\ pc[h] = "idle" <=> seq[h] = 0
  /\ pc[h] \notin {"idle", "dead"} =>
       \E k \in DOMAIN journal[event[h]] :
         journal[event[h]][k].by = h /\ journal[event[h]][k].seq = 0

JournalInv ==
  /\ \A e \in Event : \A i \in DOMAIN journal[e] : LineTells(e, i)
  /\ \A h \in Handle : Numbered(h)

\* A line of a journal names its call and its number.
LEMMA LineType ==
  ASSUME TypeOK, NEW e \in Event, NEW i \in DOMAIN journal[e]
  PROVE  journal[e][i].by \in Handle /\ journal[e][i].seq \in Nat
<1>1. journal[e] \in Seq(Line)
  BY DEF TypeOK
<1>2. journal[e][i] \in Line
  BY <1>1
<1> QED
  BY <1>2 DEF Line

\* A line is written, with the number the call has come to.
LEMMA LineWritten ==
  ASSUME TypeOK, JournalInv, NEW g \in Handle, pc[g] # "dead",
         NEW e \in Event, NEW to \in States,
         NEW p \in {"route", "done", "catch"},
         \/ event' = event /\ event[g] = e /\ pc[g] # "idle"
         \/ event' = [event EXCEPT ![g] = e] /\ pc[g] = "idle" /\ state[g] # to,
         pc' = [pc EXCEPT ![g] = p],
         state' = [state EXCEPT ![g] = to],
         seq' = [seq EXCEPT ![g] = seq[g] + 1],
         journal' = [journal EXCEPT ![e] =
           Append(journal[e], [by |-> g, seq |-> seq[g], from |-> state[g], to |-> to])]
  PROVE  JournalInv'
<1> DEFINE line == [by |-> g, seq |-> seq[g], from |-> state[g], to |-> to]
           n == Len(journal[e]) + 1
<1>1. /\ line \in Line /\ line.by = g /\ line.seq = seq[g]
      /\ line.from = state[g] /\ line.to = to
  BY DEF TypeOK, Line
<1> HIDE DEF line
<1>2. /\ journal[e] \in Seq(Line)
      /\ journal'[e] = Append(journal[e], line)
      /\ \A f \in Event : f # e => journal'[f] = journal[f]
  BY DEF TypeOK, line
<1>3. /\ n \in Nat /\ n \in 1..n
      /\ DOMAIN journal[e] = 1..n - 1 /\ DOMAIN journal'[e] = 1..n
      /\ journal'[e][n] = line
      /\ \A k \in 1..n - 1 : journal'[e][k] = journal[e][k]
  BY <1>1, <1>2
<1> HIDE DEF n
<1>4. ASSUME NEW f \in Event, NEW k \in DOMAIN journal[f]
      PROVE  k \in DOMAIN journal'[f] /\ journal'[f][k] = journal[f][k]
  <2>1. CASE f = e
    BY <1>3, <2>1
  <2>2. CASE f # e
    BY <1>2, <2>2
  <2> QED
    BY <2>1, <2>2
<1>5. ASSUME NEW f \in Event, NEW k \in DOMAIN journal'[f]
      PROVE  \/ k \in DOMAIN journal[f]
             \/ f = e /\ k = n
  BY <1>2, <1>3
<1>6. ASSUME NEW f \in Event, NEW k \in DOMAIN journal[f]
      PROVE  /\ LineTells(f, k)
             /\ journal[f][k].by \in Handle /\ journal[f][k].seq \in Nat
  BY LineType DEF JournalInv
<1>7. /\ seq[g] \in Nat /\ seq'[g] = seq[g] + 1 /\ state'[g] = to
      /\ pc'[g] = p /\ event'[g] = e
      /\ \A h \in Handle : h # g => /\ seq'[h] = seq[h] /\ state'[h] = state[h]
                                    /\ pc'[h] = pc[h] /\ event'[h] = event[h]
  BY DEF TypeOK
<1>8. /\ pc[g] = "idle" <=> seq[g] = 0
      /\ pc[g] # "idle" => \E k \in DOMAIN journal[e] :
           journal[e][k].by = g /\ journal[e][k].seq = 0
  BY DEF JournalInv, Numbered
<1>9. \E k \in DOMAIN journal'[e] : journal'[e][k].by = g /\ journal'[e][k].seq = 0
  <2>1. CASE pc[g] = "idle"
    BY <1>1, <1>3, <1>8, <2>1
  <2>2. CASE pc[g] # "idle"
    BY <1>4, <1>8, <2>2
  <2> QED
    BY <2>1, <2>2
<1>10. ASSUME NEW f \in Event, NEW i \in DOMAIN journal'[f]
       PROVE  LineTells(f, i)'
  <2>1. CASE i \in DOMAIN journal[f]
    <3> DEFINE l == journal'[f][i]
    <3>1. journal[f][i] = l /\ LineTells(f, i) /\ l.by \in Handle /\ l.seq \in Nat
      BY <1>4, <1>6, <2>1
    <3> HIDE DEF l
    <3>2. /\ pc[l.by] # "idle" /\ event[l.by] = f /\ l.seq < seq[l.by]
          /\ l.seq = 0 => l.from # l.to
          /\ l.seq + 1 = seq[l.by] => l.to = state[l.by]
          /\ \E k \in DOMAIN journal[f] : journal[f][k].by = l.by /\ journal[f][k].seq = 0
          /\ \A j \in DOMAIN journal[f] :
               journal[f][j].by = l.by /\ journal[f][j].seq = l.seq + 1
                 => journal[f][j].from = l.to
      BY <3>1 DEF LineTells, l
    <3>3. /\ pc'[l.by] # "idle" /\ event'[l.by] = f /\ l.seq < seq'[l.by]
          /\ l.seq + 1 = seq'[l.by] => l.to = state'[l.by]
      <4>1. CASE l.by = g
        BY <1>7, <3>1, <3>2, <4>1
      <4>2. CASE l.by # g
        BY <1>7, <3>1, <3>2, <4>2
      <4> QED
        BY <4>1, <4>2
    <3>4. \E k \in DOMAIN journal'[f] : journal'[f][k].by = l.by /\ journal'[f][k].seq = 0
      BY <1>4, <3>2
    <3>5. ASSUME NEW j \in DOMAIN journal'[f],
                 journal'[f][j].by = l.by, journal'[f][j].seq = l.seq + 1
          PROVE  journal'[f][j].from = l.to
      <4>1. CASE j \in DOMAIN journal[f]
        BY <1>4, <3>2, <3>5, <4>1
      <4>2. CASE f = e /\ j = n
        BY <1>1, <1>3, <3>2, <3>5, <4>2
      <4> QED
        BY <1>5, <4>1, <4>2
    <3>6. \A j \in DOMAIN journal'[f] :
            journal'[f][j].by = l.by /\ journal'[f][j].seq = l.seq + 1
              => journal'[f][j].from = l.to
      BY <3>5
    <3> QED
      BY <3>2, <3>3, <3>4, <3>6, Zenon DEF LineTells, l
  <2>2. CASE f = e /\ i = n
    <3>1. journal'[f][i] = line
      BY <1>3, <2>2
    <3>2. seq[g] = 0 => state[g] # to
      BY <1>8
    <3>3. ASSUME NEW j \in DOMAIN journal'[f],
                 journal'[f][j].by = g, journal'[f][j].seq = seq[g] + 1
          PROVE  FALSE
      <4>1. CASE j \in DOMAIN journal[f]
        <5>1. journal[f][j].by = g /\ journal[f][j].seq = seq[g] + 1
          BY <1>4, <3>3, <4>1
        <5>2. journal[f][j].seq < seq[g]
          BY <1>6, <4>1, <5>1 DEF LineTells
        <5> QED
          BY <1>7, <5>1, <5>2
      <4>2. CASE f = e /\ j = n
        BY <1>1, <1>3, <1>7, <3>3, <4>2
      <4> QED
        BY <1>5, <4>1, <4>2
    <3> QED
      BY <1>1, <1>7, <1>9, <2>2, <3>1, <3>2, <3>3 DEF LineTells
  <2> QED
    BY <1>5, <2>1, <2>2
<1>11. ASSUME NEW h \in Handle PROVE Numbered(h)'
  <2>1. CASE h = g
    BY <1>7, <1>9, <2>1 DEF Numbered
  <2>2. CASE h # g
    <3>1. Numbered(h) /\ pc'[h] = pc[h] /\ seq'[h] = seq[h] /\ event'[h] = event[h]
      BY <1>7, <2>2 DEF JournalInv
    <3>2. ASSUME pc[h] \notin {"idle", "dead"}
          PROVE  \E k \in DOMAIN journal'[event[h]] :
                   journal'[event[h]][k].by = h /\ journal'[event[h]][k].seq = 0
      <4>1. PICK k \in DOMAIN journal[event[h]] :
              journal[event[h]][k].by = h /\ journal[event[h]][k].seq = 0
        BY <3>1, <3>2 DEF Numbered
      <4>2. k \in DOMAIN journal'[event[h]] /\ journal'[event[h]][k] = journal[event[h]][k]
        <5>1. CASE event[h] \in Event
          BY <1>4, <5>1
        <5>2. CASE event[h] \notin Event
          BY <5>2 DEF TypeOK
        <5> QED
          BY <5>1, <5>2
      <4> QED
        BY <4>1, <4>2
    <3> QED
      BY <3>1, <3>2 DEF Numbered
  <2> QED
    BY <2>1, <2>2
<1> QED
  BY <1>10, <1>11 DEF JournalInv

\* A line is numbered and lost, as an opening line only with the call.
LEMMA LineLost ==
  ASSUME TypeOK, JournalInv, NEW g \in Handle, pc[g] # "dead",
         NEW e \in Event, NEW to \in States,
         NEW p \in {"route", "done", "catch", "dead"},
         \/ event' = event /\ event[g] = e /\ pc[g] # "idle"
         \/ event' = [event EXCEPT ![g] = e] /\ pc[g] = "idle" /\ p = "dead",
         pc' = [pc EXCEPT ![g] = p],
         state' = [state EXCEPT ![g] = to],
         seq' = [seq EXCEPT ![g] = seq[g] + 1],
         journal' = journal
  PROVE  JournalInv'
<1>1. /\ seq[g] \in Nat /\ seq'[g] = seq[g] + 1 /\ state'[g] = to
      /\ pc'[g] = p /\ event'[g] = e
      /\ \A h \in Handle : h # g => /\ seq'[h] = seq[h] /\ state'[h] = state[h]
                                    /\ pc'[h] = pc[h] /\ event'[h] = event[h]
  BY DEF TypeOK
<1>2. ASSUME NEW f \in Event, NEW i \in DOMAIN journal[f]
      PROVE  LineTells(f, i)'
  <2> DEFINE l == journal[f][i]
  <2>1. LineTells(f, i) /\ l.by \in Handle /\ l.seq \in Nat
    BY LineType DEF JournalInv
  <2>2. /\ pc[l.by] # "idle" /\ event[l.by] = f /\ l.seq < seq[l.by]
        /\ l.seq + 1 = seq[l.by] => l.to = state[l.by]
    BY <2>1 DEF LineTells
  <2> HIDE DEF l
  <2>3. /\ pc'[l.by] # "idle" /\ event'[l.by] = f /\ l.seq < seq'[l.by]
        /\ l.seq + 1 = seq'[l.by] => l.to = state'[l.by]
    <3>1. CASE l.by = g
      BY <1>1, <2>1, <2>2, <3>1
    <3>2. CASE l.by # g
      BY <1>1, <2>1, <2>2, <3>2
    <3> QED
      BY <3>1, <3>2
  <2> QED
    BY <2>1, <2>3 DEF LineTells, l
<1>3. ASSUME NEW h \in Handle PROVE Numbered(h)'
  <2>1. Numbered(h)
    BY DEF JournalInv
  <2> QED
    BY <1>1, <2>1 DEF Numbered
<1> QED
  BY <1>2, <1>3 DEF JournalInv

\* A step that numbers no line leaves what the lines say as it was.
LEMMA LinesStay ==
  ASSUME TypeOK, JournalInv, UNCHANGED <<event, state, seq, journal>>,
         \/ pc' = pc
         \/ \E g \in Handle :
              /\ pc[g] \notin {"idle", "dead"}
              /\ \E p \in {"await", "catch", "done", "dead"} :
                   pc' = [pc EXCEPT ![g] = p]
  PROVE  JournalInv'
<1>1. ASSUME NEW h \in Handle
      PROVE  /\ pc'[h] = "idle" <=> pc[h] = "idle"
             /\ pc[h] = "dead" => pc'[h] = "dead"
  BY DEF TypeOK
<1>2. ASSUME NEW e \in Event, NEW i \in DOMAIN journal[e]
      PROVE  LineTells(e, i)'
  <2>1. LineTells(e, i) /\ journal[e][i].by \in Handle
    BY LineType DEF JournalInv
  <2> QED
    BY <1>1, <2>1 DEF LineTells
<1>3. ASSUME NEW h \in Handle PROVE Numbered(h)'
  BY <1>1 DEF JournalInv, Numbered
<1> QED
  BY <1>2, <1>3 DEF JournalInv

\* So an append leaves them true, whether it writes its line or not.
LEMMA AppendTells ==
  ASSUME TypeOK, FlowInv, JournalInv, NEW g \in Handle,
         NEW to \in States, NEW next \in {"route", "done"},
         Appended(g, state[g], to, next),
         state' = [state EXCEPT ![g] = to],
         pc[g] # "dead",
         \/ event' = event /\ pc[g] # "idle"
         \/ /\ pc[g] = "idle"
            /\ \E e \in Event : event' = [event EXCEPT ![g] = e]
  PROVE  JournalInv'
<1>1. pc[g] = "idle" <=> state[g] = Unopened
  BY DEF FlowInv, Flow
<1>2. Unopened \notin States
  BY DEF States, Unopened, Lifecycle!States, Lifecycle!Unopened,
         Lifecycle!Working, Lifecycle!Ends
<1>3. event'[g] \in Event
  BY DEF FlowInv, Flow, TypeOK
<1>4. \/ event' = event /\ event[g] = event'[g] /\ pc[g] # "idle"
      \/ event' = [event EXCEPT ![g] = event'[g]] /\ pc[g] = "idle"
  BY DEF TypeOK
<1>5. seq' = [seq EXCEPT ![g] = seq[g] + 1]
  BY DEF Appended
<1>6. CASE /\ journal' = [journal EXCEPT ![event'[g]] =
                Append(journal[event'[g]],
                  [by |-> g, seq |-> seq[g], from |-> state[g], to |-> to])]
           /\ pc' = [pc EXCEPT ![g] = next]
  BY <1>1, <1>2, <1>3, <1>4, <1>5, <1>6, LineWritten
<1>7. CASE /\ journal' = journal
           /\ pc' = [pc EXCEPT ![g] = IF state[g] = Unopened THEN "dead" ELSE "catch"]
  <2> DEFINE p == IF state[g] = Unopened THEN "dead" ELSE "catch"
  <2>1. p \in {"dead", "catch"} /\ (pc[g] = "idle" => p = "dead")
    BY <1>1
  <2>2. pc' = [pc EXCEPT ![g] = p]
    BY <1>7
  <2> HIDE DEF p
  <2> QED
    BY <1>3, <1>4, <1>5, <1>7, <2>1, <2>2, LineLost
<1> QED
  BY <1>6, <1>7 DEF Appended

\* An event that opens a workflow numbers the opening line.
LEMMA OpeningTells ==
  ASSUME TypeOK, FlowInv, JournalInv, NEW g \in Handle, Open(g)
  PROVE  JournalInv'
<1>1. PICK call \in Calls[g] : event' = [event EXCEPT ![g] = call[1]]
  BY DEF Open
<1>2. call[1] \in Event
  BY BoundAssumption
<1>3. pc[g] = "idle" /\ state[g] = Unopened
  BY DEF Open, FlowInv, Flow
<1>4. "received" \in States
  BY DEF States, Lifecycle!States, Lifecycle!Working
<1>5. Appended(g, state[g], "received", "route")
      /\ state' = [state EXCEPT ![g] = "received"]
  BY <1>3 DEF Open
<1> QED
  BY <1>1, <1>2, <1>3, <1>4, <1>5, AppendTells

\* So does a transition.
LEMMA MoveTells ==
  ASSUME TypeOK, FlowInv, JournalInv, NEW g \in Handle,
         \/ Classify(g) \/ MakePlan(g) \/ Begin(g) \/ Settle(g) \/ LeaveBlocked(g)
  PROVE  JournalInv'
<1> USE DEF States, Lifecycle!States, Lifecycle!Ends, Lifecycle!Working
<1>1. ASSUME NEW to \in States, NEW next \in {"route", "done"},
             Transition(g, to, next), pc[g] = "route"
      PROVE  JournalInv'
  BY <1>1, AppendTells DEF Transition
<1> SUFFICES \E to \in States, next \in {"route", "done"} :
               Transition(g, to, next) /\ pc[g] = "route"
  BY <1>1
<1>2. CASE Classify(g)
  BY <1>2 DEF Classify, Routing
<1>3. CASE MakePlan(g)
  BY <1>3 DEF MakePlan, Routing
<1>4. CASE Begin(g)
  BY <1>4 DEF Begin, Routing
<1>5. CASE Settle(g)
  BY <1>5, SettledEnds DEF Settle, Routing
<1>6. CASE LeaveBlocked(g)
  <2> DEFINE to == IF /\ With(g, "not_dispatched") # {}
                      /\ With(g, "refused") = {}
                      /\ Produced(g) = {}
                   THEN "unresolved" ELSE "human_review_required"
  <2>1. Transition(g, to, "done") /\ to \in {"unresolved", "human_review_required"}
        /\ pc[g] = "route"
    BY <1>6 DEF LeaveBlocked, Routing
  <2> HIDE DEF to
  <2> QED
    BY <2>1
<1> QED
  BY <1>2, <1>3, <1>4, <1>5, <1>6

\* So does a stage recorded, which moves to no other state.
LEMMA StageTells ==
  ASSUME TypeOK, FlowInv, JournalInv, NEW g \in Handle,
         \/ NotReached(g) \/ ReachPerson(g)
         \/ PassGate(g) \/ RefuseGate(g) \/ RejectAtGate(g)
         \/ RefuseDispatch(g) \/ NotDispatched(g)
         \/ Admit(g) \/ AdmitNone(g) \/ DispatcherThrows(g)
  PROVE  JournalInv'
<1>1. PICK status, gives, halts : RecordStage(g, status, gives, halts)
  <2>1. CASE NotReached(g) \/ ReachPerson(g) \/ PassGate(g) \/ RejectAtGate(g)
    BY <2>1 DEF NotReached, ReachPerson, PassGate, RejectAtGate
  <2>2. CASE RefuseGate(g)
    BY <2>2, Zenon DEF RefuseGate
  <2>3. CASE RefuseDispatch(g) \/ NotDispatched(g) \/ AdmitNone(g)
    BY <2>3, Zenon DEF RefuseDispatch, NotDispatched, AdmitNone
  <2>4. CASE Admit(g) \/ DispatcherThrows(g)
    BY <2>4 DEF Admit, DispatcherThrows
  <2> QED
    BY <2>1, <2>2, <2>3, <2>4
<1>2. InLoop(g) \/ pc[g] = "await"
  BY DEF NotReached, ReachPerson, PassGate, RefuseGate, RejectAtGate, At,
         RefuseDispatch, NotDispatched, Admit, AdmitNone, DispatcherThrows
<1>3. pc[g] \in {"route", "await"} /\ state[g] = "in_progress"
  BY <1>2, InTheLoop
<1>4. state[g] \in States
  BY <1>3 DEF States, Lifecycle!States, Lifecycle!Working
<1>5. event' = event /\ Appended(g, state[g], state[g], "route")
  BY <1>1 DEF RecordStage
<1>6. state' = [state EXCEPT ![g] = state[g]]
  BY <1>1 DEF RecordStage, TypeOK
<1> QED
  BY <1>3, <1>4, <1>5, <1>6, AppendTells

\* An exception caught numbers a line where the workflow had not ended.
LEMMA CatchTells ==
  ASSUME TypeOK, FlowInv, JournalInv, NEW g \in Handle, Catch(g)
  PROVE  JournalInv'
<1>1. pc[g] = "catch" /\ pc' = [pc EXCEPT ![g] = "done"] /\ event' = event
      /\ event[g] \in Event
  BY DEF Catch, FlowInv, Flow
<1>2. CASE state[g] \in Ends
  BY <1>1, <1>2, LinesStay DEF Catch
<1>3. CASE state[g] \notin Ends
  <2>1. state' = [state EXCEPT ![g] = "failed"] /\ seq' = [seq EXCEPT ![g] = seq[g] + 1]
    BY <1>3 DEF Catch
  <2>2. "failed" \in States
    BY DEF States, Lifecycle!States, Lifecycle!Ends
  <2>3. CASE journal' = journal
    BY <1>1, <2>1, <2>2, <2>3, LineLost
  <2>4. CASE journal' = [journal EXCEPT ![event[g]] =
               Append(journal[event[g]], [by |-> g, seq |-> seq[g], from |-> state[g],
                                          to |-> "failed"])]
    BY <1>1, <2>1, <2>2, <2>4, LineWritten
  <2> QED
    BY <1>3, <2>3, <2>4 DEF Catch
<1> QED
  BY <1>2, <1>3

LEMMA JournalStep ==
  ASSUME TypeOK, FlowInv, JournalInv, [Next]_vars
  PROVE  JournalInv'
<1>1. CASE UNCHANGED vars
  BY <1>1, LinesStay DEF vars
<1>2. ASSUME NEW g \in Handle, Open(g) \/ Steps(g) \/ Crash(g)
      PROVE  JournalInv'
  <2>1. CASE GateThrows(g) \/ Dispatch(g) \/ Crash(g)
    <3>1. UNCHANGED <<event, state, seq, journal>>
      BY <2>1 DEF GateThrows, Dispatch, Crash
    <3>2. pc[g] \notin {"idle", "dead"}
      BY <2>1 DEF GateThrows, Dispatch, Crash, At, InLoop, Routing
    <3>3. \E p \in {"await", "catch", "dead"} : pc' = [pc EXCEPT ![g] = p]
      BY <2>1 DEF GateThrows, Dispatch, Crash
    <3> QED
      BY <3>1, <3>2, <3>3, LinesStay
  <2> QED
    BY <1>2, <2>1, OpeningTells, MoveTells, StageTells, CatchTells DEF Steps
<1> QED
  BY <1>1, <1>2 DEF Next

\* A journal whose numbers have no gap holds the lines of one call, each
\* starting where the one before it ended.
LEMMA NoGapOneCall ==
  ASSUME TypeOK, JournalInv, NEW e \in Event,
         journal[e] # <<>>, Gaps(journal[e]) = {}
  PROVE  /\ \A i \in DOMAIN journal[e] : journal[e][i].by = journal[e][1].by
         /\ \A i \in 2 .. Len(journal[e]) : journal[e][i].from = journal[e][i - 1].to
         /\ journal[e][1].from # journal[e][1].to
<1> DEFINE lines == journal[e]
           n == Len(lines)
<1>1. lines \in Seq(Line) /\ n \in Nat /\ DOMAIN lines = 1..n /\ 1 \in 1..n
  BY DEF TypeOK
<1>2. \A i \in 1..n : lines[i].seq = i - 1
  BY <1>1 DEF Gaps
<1>3. \A i \in 1..n : LineTells(e, i)
  BY <1>1 DEF JournalInv
<1> HIDE DEF lines, n
<1>4. \A i \in 1..n : lines[i].by = lines[1].by
  <2> TAKE i \in 1..n
  <2>1. PICK k \in 1..n : lines[k].by = lines[i].by /\ lines[k].seq = 0
    BY <1>1, <1>3 DEF LineTells, lines
  <2>2. k = 1
    BY <1>1, <1>2, <2>1
  <2> QED
    BY <2>1, <2>2
<1>5. \A i \in 2..n : lines[i].from = lines[i - 1].to
  <2> TAKE i \in 2..n
  <2>1. i \in 1..n /\ i - 1 \in 1..n
    BY <1>1
  <2>2. lines[i].by = lines[i - 1].by /\ lines[i].seq = lines[i - 1].seq + 1
    BY <1>1, <1>2, <1>4, <2>1
  <2>3. LineTells(e, i - 1)
    BY <1>3, <2>1
  <2> QED
    BY <1>1, <2>1, <2>2, <2>3 DEF LineTells, lines
<1>6. lines[1].from # lines[1].to
  <2>1. lines[1].seq = 0
    BY <1>1, <1>2
  <2> QED
    BY <1>1, <1>3, <2>1 DEF LineTells, lines
<1> QED
  BY <1>1, <1>4, <1>5, <1>6 DEF lines, n

(* A journal whose numbers have no gap is one workflow's own path, for any *)
(* number of calls of the same event and whatever lines the disk loses:    *)
(* one call wrote it, each line starts where the one before it ended, and  *)
(* replaying it gives the state of a call that lost no line.               *)
THEOREM JournalIsThePath == Spec => []JournalTellsTheWorkflow
<1>1. Init => JournalInv
  BY DEF Init, JournalInv, Numbered, LineTells
<1>2. TypeOK /\ FlowInv /\ JournalInv /\ [Next]_vars => JournalInv'
  BY JournalStep
<1>3. TypeOK /\ JournalInv => JournalTellsTheWorkflow
  <2> SUFFICES ASSUME TypeOK, JournalInv, NEW e \in Event,
                      journal[e] # <<>>, Gaps(journal[e]) = {}
               PROVE  /\ \A i \in DOMAIN journal[e] \ {1} :
                           /\ journal[e][i].by = journal[e][1].by
                           /\ journal[e][i].from = journal[e][i - 1].to
                      /\ seq[journal[e][1].by] = Len(journal[e])
                           => Replay(journal[e]) = state[journal[e][1].by]
    BY Zenon DEF JournalTellsTheWorkflow
  <2> DEFINE n == Len(journal[e])
  <2>1. journal[e] \in Seq(Line) /\ n \in Nat /\ DOMAIN journal[e] = 1..n
        /\ n \in 1..n
    BY DEF TypeOK
  <2>2. \A i \in DOMAIN journal[e] \ {1} : i \in 2..n
    BY <2>1
  <2>3. Replay(journal[e]) = journal[e][n].to
    BY <2>1, NoGapOneCall, ChainReplays
  <2>4. journal[e][n].by = journal[e][1].by /\ journal[e][n].seq + 1 = n
    BY <2>1, NoGapOneCall DEF Gaps
  <2>5. seq[journal[e][1].by] = n => journal[e][n].to = state[journal[e][1].by]
    <3>1. LineTells(e, n)
      BY <2>1 DEF JournalInv
    <3>2. journal[e][n].seq + 1 = seq[journal[e][n].by]
            => journal[e][n].to = state[journal[e][n].by]
      BY <3>1, Zenon DEF LineTells
    <3> QED
      BY <2>4, <3>2
  <2> QED
    BY <2>2, <2>3, <2>5, NoGapOneCall
<1> QED
  BY <1>1, <1>2, <1>3, TypeCorrect, PTL DEF Spec
=============================================================================
