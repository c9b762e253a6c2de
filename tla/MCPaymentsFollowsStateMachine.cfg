SPECIFICATION Spec
CONSTANTS
  Txs = {t1}
  Confirms = {p1}
  Cancels = {x1}
  Ticks = {}
  None = None
  Environments = {{}}
CHECK_DEADLOCK FALSE
PROPERTY
  FollowsStateMachine
