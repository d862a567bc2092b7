CONSTANTS
  page = page
  share = share
  other = other
  title = title
  other_title = other_title
  Document <- MCDocument
  TitleOf <- MCTitleOf
  MaxRuns = 2
SPECIFICATION Spec
SYMMETRY MCSymmetry
INVARIANT ScheduleTypeOK
PROPERTY NewToTheMemory
INVARIANT SetAsideWasOffered
CHECK_DEADLOCK FALSE
