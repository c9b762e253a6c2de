SPECIFICATION Spec
CONSTANTS
  Registrations = {a1, a2, a3}
  Retries = {q1}
  Holders = {h1, h2}
  NoCard = NoCard
  CardFaults = {{}, {"db"}, {"vault"}, {"lostReply", "crash"}}
  Calls = {a1, a2, a3}
  Configured = Configured
  Timeout = 1
  Window = 3
  Lease = 4
  Day = 4
  Horizon = 8
  VaultFaults = {{}, {"lost"}}
  Exchanges = {a1, a2, a3}
  Rotations = {t1}
  Devices = {b1, b2}
  Owners = {c1, c2}
  MaxDevices = 1
  MaxRotations = 1
  None = None
  DeviceFaults = {{}, {"db", "vault", "crash"}}
  Creations = {b1, b2}
  Changes = {c1, c2}
  Emails = {b1, b2}
  NoValue = NoValue
  TenantFaults = {{}, {"db"}, {"vault", "crash"}}
SYMMETRY Symmetry
CHECK_DEADLOCK FALSE
INVARIANTS
  StoredCardHasSecrets
  NoSecretsLeftBehind
  AnswersMatchCards
  TokenIsLive
  DeviceKeysAreInVault
  DevicesWithinLimit
  TenantsAreWhole
