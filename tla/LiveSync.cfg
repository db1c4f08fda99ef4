SPECIFICATION Spec
CONSTANTS
  c1 = c1
  c2 = c2
  Client = {c1, c2}
  MaxEdits <- MCOneEach
  MaxFaults = 1
INVARIANTS
  TypeOK
  CapturedSurvives
  PendingShown
  Converged
PROPERTIES
  OutboxDrains
