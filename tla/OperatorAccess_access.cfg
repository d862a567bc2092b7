\* Two commands, logins and a review in flight on one registry.
SPECIFICATION Spec
CONSTANTS
  Operator = {ada, bo}
  Role = {"approver", "administrator"}
  FirstAdmin = ada
  Cli = {c1, c2}
  Request = {q1}
  Absent = Absent
  None = None
SYMMETRY MCCommands
CONSTRAINT MCTwoAtATime
INVARIANTS
  TypeOK
  AnAdministratorRemains
PROPERTIES
  ActsWereGiven
