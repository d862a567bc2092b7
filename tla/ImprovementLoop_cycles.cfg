CONSTANTS
  Process = {p1, p2}
  gap = gap
  flaw = flaw
  Gap <- MCGap
  Proposable <- MCGap
  Flaw <- MCFlaw
  box = box
  Box = {box}
  argument = argument
  statement = statement
  Label <- MCLabel
  Borne <- MCBorne
  AtFirst <- MCGap
  MaxCycles = 3
  MaxChanges = 2
SPECIFICATION Spec
SYMMETRY MCSymmetry
CONSTRAINT MCTwo
CONSTRAINT MCMore
INVARIANT LoopTypeOK
INVARIANT MovementIsReal
INVARIANT HistoryTellsTheReports
CHECK_DEADLOCK FALSE
