SPECIFICATION Spec
CONSTANTS
  None = None
  Account = {o, g1, g2}
  Owner = o
  Token = {t1, t2}
  Request = {r1, r2}
  MaxCommits = 1
  MaxAccepts = 2
  MaxFailures = 1
SYMMETRY Symmetric
INVARIANTS
  TypeOK
  CurrentMeansEqual
  RolesWereOffered
PROPERTIES
  NoEditTakenBack
  StaleOnlyByOverlap
  RolesLostOnlyByOverlap
