\* The command line denies while the server approves.
SPECIFICATION RoomSpec
CONSTANTS
  p1 = p1
  p2 = p2
  a1 = a1
  a2 = a2
  Proposal = {p1}
  Person = {ada}
  AgentName = {a1}
  Producer <- MCProducer
  Writer = {server, cli}
  NoDraft = NoDraft
  MaxVersion = 1
  MaxRequests = 1
  MaxEntries = 2
  TornWrites = FALSE
  Server = server
  Auditor = {server}
  Implementable <- MCImplementable
  NoScreen = NoScreen
  Nothing = Nothing
  MaxTrail = 1
INVARIANTS
  NoApprovalOverADenial
