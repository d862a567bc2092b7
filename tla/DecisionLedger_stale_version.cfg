\* The producing agent writes a second content after the grant.
SPECIFICATION Spec
CONSTANTS
  p1 = p1
  p2 = p2
  a1 = a1
  a2 = a2
  Proposal = {p1}
  Person = {ada}
  AgentName = {a1}
  Producer <- MCProducer
  Writer = {w1}
  NoDraft = NoDraft
  MaxVersion = 2
  MaxRequests = 1
  MaxEntries = 1
  TornWrites = FALSE
PROPERTIES
  AnEditEndsAGrant
