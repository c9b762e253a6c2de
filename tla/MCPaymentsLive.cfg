SPECIFICATION FairSpec
CONSTANTS
  Txs = {t1}
  Confirms = {p1, p2}
  Cancels = {}
  Ticks = {k1}
  None = None
  Environments = {{}, {"lostReply"}}
CHECK_DEADLOCK FALSE
PROPERTIES
  EveryRequestIsAnswered
  EveryTransactionIsResolved
  OutcomeReachesTheRoom
