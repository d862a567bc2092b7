\* Two processes, torn writes, a proposal edited, lost and regenerated around them.
SPECIFICATION Spec
CONSTANTS
  p1 = p1
  p2 = p2
  a1 = a1
  a2 = a2
  Proposal = {p1}
  Person = {ada}
  AgentName = {a1}
  Producer <- MCProducer
  Writer = {w1, w2}
  NoDraft = NoDraft
  MaxVersion = 2
  MaxRequests = 1
  MaxEntries = 3
  TornWrites = TRUE
INVARIANTS
  TypeOK
  ForkBounded
  LossBounded
PROPERTIES
  GrantFollowsNoEdit
  OnlyADecisionLiftsADenial
