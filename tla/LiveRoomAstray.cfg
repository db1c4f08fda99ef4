SPECIFICATION Spec
CONSTANTS
  a1 = a1
  a2 = a2
  e1 = e1
  e2 = e2
  Account = {a1, a2}
  OpId = {e1, e2}
  Hash = {h1}
  None = None
  Author <- MCAuthor
  Legacy <- MCNewMap
  MaxPending = 2
  MaxFaults = 0
  MaxCrashes = 0
  MaxGrants = 0
PROPERTIES
  AppliedReachesEveryone
