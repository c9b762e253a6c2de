SPECIFICATION Spec
CONSTANTS
  Enrolls = {e1, e2}
  Revokes = {v1}
  Prepares = {p1}
  Auths = {a1}
  Lookahead = 10
  MostCalm = 5
  MostFaulty = 5
  None = None
  Environments = {{}}
CHECK_DEADLOCK FALSE
INVARIANT
  ReenrolmentSucceeds
