--------------------------- MODULE MCControlRoom ---------------------------
(* Instances of ControlRoom for TLC. *)
EXTENDS ControlRoom

CONSTANTS p1, p2, a1, a2

MCProducer == [p \in Proposal |-> IF p = p1 THEN a1 ELSE a2]

\* Every content but the first of each proposal passes the gates.
MCImplementable == {c \in Proposal \X (1 .. MaxVersion) : c[2] = MaxVersion}

\* Bound: of the processes, two are in the middle of something at a time.
MCTwoAtATime ==
  Cardinality({w \in Writer : pc[w] # "idle"}
                \cup {a \in Auditor : owed[a] # Nothing}) <= 2
=============================================================================
