------------------------- MODULE WorkflowLifecycle -------------------------
(***************************************************************************)
(* What agent/orchestrator/state.mjs promises of every workflow: the       *)
(* states it may be in, the transitions it may make, and that an end state *)
(* is the last one.                                                        *)
(***************************************************************************)

CONSTANT Workflow   \* workflows, opened or not

VARIABLE state

\* No event has opened the workflow yet.
Unopened == "unopened"

Ends == {"completed", "rejected", "unresolved", "human_review_required",
         "failed"}
Working == {"received", "classified", "planned", "in_progress", "blocked"}
States == Working \cup Ends

\* Every transition this system permits.
Transitions ==
  [received    |-> {"classified", "human_review_required", "unresolved", "failed"},
   classified  |-> {"planned", "human_review_required", "failed"},
   planned     |-> {"in_progress", "human_review_required", "failed"},
   in_progress |-> {"in_progress"} \cup {"blocked"} \cup Ends,
   blocked     |-> {"in_progress", "human_review_required", "unresolved", "failed"}]

TypeOK == state \in [Workflow -> States \cup {Unopened}]

Init == state = [w \in Workflow |-> Unopened]

Open(w) ==
  /\ state[w] = Unopened
  /\ state' = [state EXCEPT ![w] = "received"]

Advance(w) ==
  /\ state[w] \in Working
  /\ \E to \in Transitions[state[w]] : state' = [state EXCEPT ![w] = to]

Next == \E w \in Workflow : Open(w) \/ Advance(w)

Spec == Init /\ [][Next]_state
=============================================================================
