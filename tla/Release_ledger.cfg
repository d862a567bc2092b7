\* A decision recorded while a dispatch runs.
SPECIFICATION Spec
CONSTANTS
  p1 = p1
  f1 = f1
  f2 = f2
  Proposal = {p1}
  Ledger = ledgerfile
  Main = main
  Feature = feature
  None = None
  File = {f1, f2}
  Scope <- MCScope
  Edited = {f2}
  MaxVersion = 2
  MaxEntries = 2
  MaxCommits = 2
  MaxTime = 0
  MaxAge = 0
PROPERTIES NeverWritesTheLedger
