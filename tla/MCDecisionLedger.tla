-------------------------- MODULE MCDecisionLedger --------------------------
(* Instances of DecisionLedger for TLC. *)
EXTENDS DecisionLedger

CONSTANTS p1, p2, a1, a2

\* The first proposal is one agent's, any other is the second agent's.
MCProducer == [p \in Proposal |-> IF p = p1 THEN a1 ELSE a2]
=============================================================================
