\* One call of handle() for each type, two about one event, and a fault anywhere.
SPECIFICATION Spec
CONSTANTS
  None = None
  h1 = h1
  h2 = h2
  Handle = {h1, h2}
  Event <- MCEvent
  Workflows <- WORKFLOWS
  Capabilities <- CAPABILITIES
  Calls <- MCCalls
  MaxFaults = 1
INVARIANTS
  TypeOK
  NothingSteppedOver
  EndTellsTheRun
  JournalTellsTheWorkflow
PROPERTIES
  LifecycleOfEach
  Ending
CONSTRAINT MCTogether
CHECK_DEADLOCK FALSE
