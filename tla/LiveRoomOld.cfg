SPECIFICATION Spec
CONSTANTS
  a1 = a1
  a2 = a2
  e1 = e1
  e2 = e2
  Account = {a1, a2}
  OpId = {e1, e2}
  Hash = {h1, h2}
  None = None
  Author <- MCAuthor
  Legacy <- MCOldMap
  MaxPending = 1
  MaxFaults = 2
  MaxCrashes = 1
  MaxGrants = 0
INVARIANTS
  TypeOK QueueBounded
  ExactlyOnce
  AckedDurable
  ReceiptsCoverHistory
