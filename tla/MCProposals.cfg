SPECIFICATION Spec
CONSTANTS
  c1 = c1
  c2 = c2
  x = x
  y = y
  t1 = t1
  t2 = t2
  add = add
  change = change
  check = check
  app = app
  NoContent = NoContent
  NoProposal = NoProposal
  Text = {x, y}
  SeedContent <- MCSeed
  SeedsFiles = TRUE
  DiffOf <- MCDiffOf
  Thread = {t1, t2}
  Actor = {app}
  Approver = {app}
  RequireDryRun = TRUE
  Proposal = {add, change, check}
  Declarative = {add, change}
  EditedDiffs <- MCEdited
  Code = {c1}
  MaxVersion = 4
  MayBreak = TRUE
INVARIANTS
  ApprovedIsApplied
  VersionsNotShared
SYMMETRY MCSymmetry
CONSTRAINT MCCodeLast
PROPERTIES
  DecisionsFinal
CHECK_DEADLOCK FALSE
