SPECIFICATION TSpec
CONSTANTS
  Creations = {t1}
  Changes = {q1, q2, q3}
  Emails = {m1}
  NoValue = NoValue
  TenantFaults = {{}}
CHECK_DEADLOCK FALSE
PROPERTY FollowsTenantMachine
