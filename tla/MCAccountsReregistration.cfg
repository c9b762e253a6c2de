SPECIFICATION Spec
CONSTANTS
  Requests = {a1, a2, a3}
  Before = Before
  NoCode = NoCode
  MaxAttempts = 1
  MaxResends = 1
  AccountFaults = {{}, {"db"}}
  NewTerminals = {x1}
  Operations = {o1}
  Grants = {k1}
  NoClient = NoClient
  TerminalFaults = {{}}
  Rotations = {n2}
  Tokens = {t1}
  Verifications = {v1}
  FirstKey = FirstKey
  NoKey = NoKey
  KeyLife = 1
  AccessLife = 0
  RefreshLife = 1
  ClockSkew = 1
  LastTick = 1
  KeyFaults = {{"crash"}}
  Logins = {l1}
  Refreshes = {f1}
  NoLogin = NoLogin
  SessionLife = 1
  LastDay = 1
  SessionFaults = {{"vault"}}
  Roles = {g1}
  Checks = {h1}
  RoleChanges = {r1}
  NoRole = NoRole
  EntryLife = 1
  LastMinute = 1
  RightFaults = {{"redis", "db"}}
  Modules = {m1, m3}
  Group = m1
  Children = {m3}
  NoModule = NoModule
  NoList = NoList
  ModuleChanges = {w1}
  Reorders = {q1}
  Readers = {n1}
  MaxOrder = 1
  ModuleFaults = {{}}
SYMMETRY Symmetry
CHECK_DEADLOCK FALSE
PROPERTY NewPasswordLogsIn
