SPECIFICATION Spec
CONSTANTS
  c1 = c1
  c2 = c2
  Client = {c1}
  MaxEdits <- MCTwoAlone
  MaxFaults = 1
INVARIANTS
  OwnEditsInOrder
