\* One runner, a person at the keyboard, and a ledger anybody may write to.
SPECIFICATION Spec
CONSTANTS
  d = d
  s = s
  ada = ada
  clerk = clerk
  page = page
  fresh = fresh
  sources = sources
  ledger = ledger
  Proposal = {d, s}
  Content <- MCContent
  Person = {ada}
  AgentName = {clerk}
  Producer <- MCProducer
  Path = {page, fresh, sources, ledger}
  Sources = sources
  Docs = {page, fresh}
  New = {fresh}
  GrantLedger = ledger
  NoField = NoField
  Body <- MCBody
  Main = Main
  Work = Work
  MaxGrants = 2
  MaxClock = 1
  MaxAttempts = 2
  MaxCommits = 2
CONSTRAINTS
  MCHorizon
  MCHands
  MCDates
  MCClock
ACTION_CONSTRAINT
  MCOnlyTheRunners
INVARIANTS
  TypeOK
  MergedWasGranted
  LegalRecordUntouched
  LineTellsTheBranch
  NoneOfThemStays
PROPERTIES
  EarlyRevocationStops
  WorkInProgressIsKept
