SPECIFICATION Spec
CONSTANTS
  Txs = {t1}
  Confirms = {p1, p2}
  Cancels = {x1}
  Ticks = {k1}
  None = None
  Environments = {{}, {"lostReply", "db", "crash"}}
SYMMETRY Symmetry
CHECK_DEADLOCK FALSE
INVARIANTS
  SuccessIsBacked
  AnswersMatchCharges
  ProcessingIsOwned
  OutcomeIsAnnounced
  FailedMeansUncharged
PROPERTIES
  NeverSentAgain
  ClosedStaysClosed
  KeepsContract
