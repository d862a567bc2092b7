-------------------------- MODULE MCOperatorAccess --------------------------
(* Instances of OperatorAccess for TLC. *)
EXTENDS OperatorAccess, Integers, TLC

\* Nothing tells two processes running a command apart.
MCCommands == Permutations(Cli)

\* Bound: of the commands, the login and the reviews, two are under way at a
\* time.
MCTwoAtATime ==
  Cardinality({c \in Cli : ~Idle(c)})
    + Cardinality({q \in Request : request[q] # None})
    + (IF ServerFree THEN 0 ELSE 1) <= 2
=============================================================================
