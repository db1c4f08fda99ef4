SPECIFICATION Spec
CONSTANTS
  None = None
  Account = {o, g1}
  Owner = o
  Token = {t1}
  Request = {r1, r2}
  MaxCommits = 0
  MaxAccepts = 2
  MaxFailures = 1
INVARIANT AcceptedIsDurable
