SPECIFICATION Spec
CONSTANTS
  Requests = {a1, a2, a3}
  Before = Before
  NoCode = NoCode
  MaxAttempts = 1
  MaxResends = 1
  AccountFaults = {{"db"}, {"redis", "crash"}}
  NewTerminals = {x1}
  Operations = {o1, o2}
  Grants = {k1}
  NoClient = NoClient
  TerminalFaults = {{}, {"db", "crash"}}
  Rotations = {n2, n3}
  Tokens = {t1}
  Verifications = {v1, v2}
  FirstKey = FirstKey
  NoKey = NoKey
  KeyLife = 1
  AccessLife = 0
  RefreshLife = 1
  ClockSkew = 1
  LastTick = 2
  KeyFaults = {{"crash"}, {"vault", "crash"}}
  Logins = {l1, l2}
  Refreshes = {f1}
  NoLogin = NoLogin
  SessionLife = 1
  LastDay = 3
  SessionFaults = {{"vault"}, {"redis", "db"}}
  Roles = {g1, g2}
  Checks = {h1, h2}
  RoleChanges = {r1}
  NoRole = NoRole
  EntryLife = 1
  LastMinute = 1
  RightFaults = {{"redis", "db"}}
  Modules = {m1, m2, m3}
  Group = m1
  Children = {m3}
  NoModule = NoModule
  NoList = NoList
  ModuleChanges = {w1}
  Reorders = {q1}
  Readers = {n1}
  MaxOrder = 1
  ModuleFaults = {{}, {"redis", "db", "crash"}}
SYMMETRY Symmetry
CHECK_DEADLOCK FALSE
INVARIANTS
  TypeOK
  LimitsHold
  CodesWorkOnce
  TokensVerify
  ListIsCurrent
  ClientFollowsTerminal
PROPERTIES
  DisabledForGood
  RevokedForever
  ExpiredCannotRefresh
  GrantsEnd
