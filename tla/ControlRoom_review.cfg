\* A reviewer, a command line and an administrator around a changing proposal.
SPECIFICATION RoomSpec
CONSTANTS
  p1 = p1
  p2 = p2
  a1 = a1
  a2 = a2
  Proposal = {p1}
  Person = {ada}
  AgentName = {a1}
  Producer <- MCProducer
  Writer = {server, cli}
  NoDraft = NoDraft
  MaxVersion = 2
  MaxRequests = 1
  MaxEntries = 2
  TornWrites = TRUE
  Server = server
  Auditor = {server, admin}
  Implementable <- MCImplementable
  NoScreen = NoScreen
  Nothing = Nothing
  MaxTrail = 1
CONSTRAINT MCTwoAtATime
INVARIANTS
  RoomTypeOK
  DecidedWasShown
  TrailTellsTheLedger
  ServerDecidesOnce
  ServersDecisionsAreVouched
  OnlyAnotherProcessBreaks
