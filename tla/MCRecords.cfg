SPECIFICATION RecordsSpec
CONSTANTS
  Requests = {r1, r2, r3}
  Tenants = {a, b}
  Intents = {i1}
  Amounts = {19, 60}
  None = None
  Environments = {{"db", "crash"}}
  Documents = {r1, r2, r3}
  NoDocument = NoDocument
  States = {s1, s2}
  Failing = {s1}
  MaxFigured = 2
  AnyState = AnyState
  OtherState = OtherState
  Limit = 2
  ListFaults = {{"db"}}
  Processes = {a, b}
  MaxStarts = 2
  MaxLost = 1
  BootFaults = {{}, {"crash"}, {"db"}}
  Calls = {a, b}
  Ids = {r1, r2, r3}
  NoCall = NoCall
  MaxEvents = 2
  Latest = 2
  Delay = 1
  Window = 1
  Horizon = 2
  AuditFaults = {{"db", "crash"}}
SYMMETRY Symmetry
CHECK_DEADLOCK FALSE
INVARIANTS
  OneTransactionPerIntent
  WireAddsUp
  WalksMissNothing
  FiguresAddUp
  SeedsFit
  EventsShowAnswers
