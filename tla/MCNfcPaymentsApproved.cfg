SPECIFICATION Spec
CONSTANTS
  Enrolls = {e1}
  Revokes = {}
  Prepares = {p1}
  Auths = {a1, a2}
  Lookahead = 10
  MostCalm = 4
  MostFaulty = 4
  None = None
  Environments = {{}}
CHECK_DEADLOCK FALSE
INVARIANT
  ApprovedMeansPaid
