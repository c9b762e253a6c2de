SPECIFICATION Spec
CONSTANTS
  Enrolls = {e1, e2}
  Revokes = {v1}
  Prepares = {p1, p2}
  Auths = {a1, a2}
  Lookahead = 10
  MostCalm = 6
  MostFaulty = 4
  None = None
  Environments = {{}, {"db", "redis", "vault", "crash"}}
CONSTRAINT FewRequests
SYMMETRY Symmetry
CHECK_DEADLOCK FALSE
INVARIANTS
  EnrolledCardIsUsable
  OneTapPerSession
  SpentStaysSpent
  CounterCoversPayments
  PaidIsApproved
PROPERTIES
  RevokedCannotPay
