---------------------------- MODULE SecretsProofs ----------------------------
(***************************************************************************)
(* What is proved of the modules that keep secrets in Vault: of            *)
(* CardRegistration for any number of registrations, retries and holders;  *)
(* of VaultClient for any number of calls, any timeout, any lease of more  *)
(* than three timeouts and any window of at least three; of DeviceKeys for *)
(* any number of exchanges, rotations, devices and users and any limits;   *)
(* all of them under every combination of failures.                        *)
(***************************************************************************)
EXTENDS CardRegistration, VaultClient, DeviceKeys, FiniteSetTheorems, TLAPS

-----------------------------------------------------------------------------
(* CardRegistration.                                                       *)

\* What a registration's place in the saga says of Vault, of its answer, of the
\* issuer and of the card.
Saga ==
  /\ \A h \in Holders : stored[h] # NoCard => holder[stored[h]] = h
  /\ \A r \in Registrations :
       /\ cpc[r] \in {"idle", "save", "verify", "create"} => canswer[r] = "none" /\ stored[holder[r]] # r
       /\ cpc[r] \in {"verify", "create"} => r \in secrets
       /\ cpc[r] = "create" /\ code[r] # "AP002" => r \in activated
       /\ cpc[r] = "rollback" => canswer[r] # "201"
       /\ cpc[r] = "rollback" /\ ~CFails("db") => stored[holder[r]] # r
       /\ canswer[r] = "201" => stored[holder[r]] = r

CInv == CTypeOK /\ Saga /\ StoredCardHasSecrets /\ NoSecretsLeftBehind /\ AnswersMatchCards

LEMMA CInvHolds == CInit => CInv
<1> SUFFICES ASSUME CInit PROVE CInv
  OBVIOUS
<1> USE CardAssumption DEF CInit
<1> QED
  BY DEF CInv, CTypeOK, Saga, StoredCardHasSecrets, NoSecretsLeftBehind, AnswersMatchCards, Codes

LEMMA CInvKept == CInv /\ [CNext]_cvars => CInv'
<1> SUFFICES ASSUME CInv, [CNext]_cvars PROVE CInv'
  OBVIOUS
<1> USE CardAssumption DEF CInv, CTypeOK, Saga, StoredCardHasSecrets, NoSecretsLeftBehind,
        AnswersMatchCards, Codes, CFails, CGoto, CRespond, RollbackAndRespond, outside, creq
<1>1. ASSUME NEW r \in Registrations, CheckHolder(r) PROVE CInv'
  BY <1>1 DEF CheckHolder
<1>2. ASSUME NEW r \in Registrations, SaveSecrets(r) PROVE CInv'
  BY <1>2 DEF SaveSecrets
<1>3. ASSUME NEW r \in Registrations, Verify(r) PROVE CInv'
  BY <1>3 DEF Verify, IssuerActs
<1>4. ASSUME NEW r \in Registrations, Create(r) PROVE CInv'
  BY <1>4 DEF Create, Insert, StatusFor
<1>5. ASSUME NEW r \in Registrations, Rollback(r) PROVE CInv'
  BY <1>5 DEF Rollback
<1>6. ASSUME NEW q \in Retries, NEW r \in Registrations, Retry(q, r) PROVE CInv'
  BY <1>6 DEF Retry
<1>7. ASSUME CCrash PROVE CInv'
  BY <1>7 DEF CCrash
<1>8. ASSUME UNCHANGED cvars PROVE CInv'
  BY <1>8 DEF cvars
<1> QED
  BY <1>1, <1>2, <1>3, <1>4, <1>5, <1>6, <1>7, <1>8 DEF CNext

LEMMA CInvAlways == CSpec => []CInv
  BY CInvHolds, CInvKept, PTL DEF CSpec

\* Every variable keeps its type.
THEOREM CardsTypeCorrect == CSpec => []CTypeOK
<1>1. CInv => CTypeOK
  BY DEF CInv
<1> QED
  BY <1>1, CInvAlways, PTL

\* Whatever registrations for one holder run at the same time, are refused, rolled
\* back or cut short, a stored card has its secrets, unless Mongo itself fails.
THEOREM CardsHaveSecrets == CSpec => []StoredCardHasSecrets
<1>1. CInv => StoredCardHasSecrets
  BY DEF CInv
<1> QED
  BY <1>1, CInvAlways, PTL

\* Every way out of a registration takes its secrets with it, if the process
\* and Vault let it.
THEOREM NothingLeftBehind == CSpec => []NoSecretsLeftBehind
<1>1. CInv => NoSecretsLeftBehind
  BY DEF CInv
<1> QED
  BY <1>1, CInvAlways, PTL

\* Answers, stored cards and the issuer agree.
THEOREM AnswersAndCardsAgree == CSpec => []AnswersMatchCards
<1>1. CInv => AnswersMatchCards
  BY DEF CInv
<1> QED
  BY <1>1, CInvAlways, PTL

-----------------------------------------------------------------------------
(* VaultClient.                                                            *)

\* A call that waits does so within its timeout; only tokens of a login are
\* renewed, and only wrapped secrets unwrapped.
Pending ==
  /\ isRenewable => token \in Calls
  /\ \A c \in Calls :
       /\ vpc[c] \in Waiting => now <= deadline[c] /\ deadline[c] <= now + Timeout
       /\ vpc[c] = "renew" => used[c] \in Calls
       /\ vpc[c] = "unwrap" => wrapped

\* How far the code's idea of a lease may be from Vault's: a login's answer is
\* at most one timeout old; a renewal's may be for a token that was replaced
\* while it was under way, by one granted up to a timeout earlier.
Leases ==
  /\ tokenExpire <= leaseEnd[token] + 2 * Timeout
  /\ \A c \in Calls :
       /\ leaseEnd[c] <= now + Lease
       /\ vpc[c] = "login" /\ reply[c] = "yes" => leaseEnd[c] >= deadline[c] - Timeout + Lease
       /\ vpc[c] = "renew" /\ (reply[c] = "yes" \/ used[c] # token) =>
            leaseEnd[token] >= deadline[c] - 2 * Timeout + Lease
       /\ vpc[c] = "kv" /\ reply[c] = "none" => leaseEnd[used[c]] > deadline[c]

VInv == VTypeOK /\ Pending /\ Leases

LEMMA VInvHolds == VInit => VInv
<1> SUFFICES ASSUME VInit PROVE VInv
  OBVIOUS
<1> USE VaultAssumption DEF VInit, Waiting, Tokens
<1>1. VTypeOK
  <2>1. leaseEnd \in [Tokens -> Nat]
    OBVIOUS
  <2>2. /\ vpc \in [Calls -> Waiting \cup {"idle", "ok", "failed"}]
        /\ used \in [Calls -> Tokens]
        /\ reply \in [Calls -> {"none", "yes", "no"}]
        /\ deadline \in [Calls -> Nat]
    OBVIOUS
  <2> QED
    BY <2>1, <2>2 DEF VTypeOK
<1>2. Pending
  BY DEF Pending
<1>3. Leases
  <2>1. leaseEnd[token] = Day + Window + Timeout /\ \A c \in Calls : leaseEnd[c] = 0
    OBVIOUS
  <2> QED
    BY <2>1 DEF Leases
<1> QED
  BY <1>1, <1>2, <1>3 DEF VInv

LEMMA VInvKept == VInv /\ [VNext]_vvars => VInv'
<1> SUFFICES ASSUME VInv, [VNext]_vvars PROVE VInv'
  OBVIOUS
<1> USE VaultAssumption DEF VInv, VTypeOK, Pending, Leases, Waiting, Tokens, client, server, http, config
<1>1. ASSUME NEW c \in Calls, GetToken(c) PROVE VInv'
  BY <1>1 DEF GetToken, Valid, Send, Login
<1>2. ASSUME NEW c \in Calls, Renewed(c) PROVE VInv'
  BY <1>2 DEF Renewed, Send, Login
<1>3. ASSUME NEW c \in Calls, Unwrapped(c) PROVE VInv'
  BY <1>3 DEF Unwrapped, Send, Finish
<1>4. ASSUME NEW c \in Calls, LoggedIn(c) PROVE VInv'
  BY <1>4 DEF LoggedIn, Send, Finish
<1>5. ASSUME NEW c \in Calls, Served(c) PROVE VInv'
  BY <1>5 DEF Served, Finish
<1>6. ASSUME NEW c \in Calls, External(c) PROVE VInv'
  <2>1. CASE VaultRenews(c)
    BY <1>6, <2>1 DEF External, VaultRenews, Answers, Live
  <2>2. CASE VaultUnwraps(c)
    BY <1>6, <2>2 DEF External, VaultUnwraps, Answers
  <2>3. CASE VaultLogsIn(c)
    BY <1>6, <2>3 DEF External, VaultLogsIn, Answers
  <2>4. CASE VaultServes(c)
    BY <1>6, <2>4 DEF External, VaultServes, Answers, Live
  <2>5. CASE Lose(c)
    BY <1>6, <2>5 DEF External, Lose, Answers
  <2> QED
    BY <1>6, <2>1, <2>2, <2>3, <2>4, <2>5 DEF External
<1>7. ASSUME Tick PROVE VInv'
  BY <1>7 DEF Tick
<1>8. ASSUME UNCHANGED vvars PROVE VInv'
  BY <1>8 DEF vvars
<1> QED
  BY <1>1, <1>2, <1>3, <1>4, <1>5, <1>6, <1>7, <1>8 DEF VNext

\* Every variable keeps its type; no deadline or expiry is ever before 0.
THEOREM ClientTypeCorrect == VSpec => []VTypeOK
<1>1. VInv => VTypeOK
  BY DEF VInv
<1> QED
  BY <1>1, VInvHolds, VInvKept, PTL DEF VSpec

LEMMA LiveFromInv == VInv => TokenIsLive
  BY VaultAssumption DEF VInv, VTypeOK, Pending, Leases, Waiting, Tokens, TokenIsLive, Live

\* However logins and renewals of concurrent calls overtake each other, no KV
\* call is sent with a token that Vault will have forgotten when it arrives.
THEOREM TokensAreLive == VSpec => []TokenIsLive
<1> QED
  BY LiveFromInv, VInvHolds, VInvKept, PTL DEF VSpec

-----------------------------------------------------------------------------

\* While nothing is lost, Vault says no only to a renewal or to a second unwrap.
Refusals ==
  vfaults = {} => \A c \in Calls :
    /\ reply[c] = "no" => vpc[c] = "renew" \/ (vpc[c] = "unwrap" /\ ~sealed)
    /\ vpc[c] = "failed" => wrapped /\ ~sealed

\* As long as Vault answers, a KV call fails for nothing but the wrapped secret.
THEOREM FailuresAreUnwraps == VSpec => []FailsOnlyUnwrapping
<1>1. VInit => Refusals
  BY DEF VInit, Refusals
<1>2. VInv /\ TokenIsLive /\ Refusals /\ [VNext]_vvars => Refusals'
  <2> SUFFICES ASSUME VInv, TokenIsLive, Refusals, [VNext]_vvars PROVE Refusals'
    OBVIOUS
  <2> USE DEF VInv, VTypeOK, Pending, TokenIsLive, Refusals, Waiting, Tokens, client, server, http, config
  <2>1. ASSUME NEW c \in Calls, GetToken(c) PROVE Refusals'
    BY <2>1 DEF GetToken, Send, Login
  <2>2. ASSUME NEW c \in Calls, Renewed(c) PROVE Refusals'
    BY <2>2 DEF Renewed, Send, Login
  <2>3. ASSUME NEW c \in Calls, Unwrapped(c) PROVE Refusals'
    BY <2>3 DEF Unwrapped, Send, Finish
  <2>4. ASSUME NEW c \in Calls, LoggedIn(c) PROVE Refusals'
    BY <2>4 DEF LoggedIn, Send, Finish
  <2>5. ASSUME NEW c \in Calls, Served(c) PROVE Refusals'
    BY <2>5 DEF Served, Finish
  <2>6. ASSUME NEW c \in Calls, External(c) PROVE Refusals'
    BY <2>6 DEF External, VaultRenews, VaultUnwraps, VaultLogsIn, VaultServes, Lose, Answers
  <2>7. ASSUME Tick PROVE Refusals'
    BY <2>7 DEF Tick
  <2>8. ASSUME UNCHANGED vvars PROVE Refusals'
    BY <2>8 DEF vvars
  <2> QED
    BY <2>1, <2>2, <2>3, <2>4, <2>5, <2>6, <2>7, <2>8 DEF VNext
<1>3. Refusals => FailsOnlyUnwrapping
  BY DEF Refusals, FailsOnlyUnwrapping
<1> QED
  BY <1>1, <1>2, <1>3, LiveFromInv, VInvHolds, VInvKept, PTL DEF VSpec

-----------------------------------------------------------------------------
(* DeviceKeys.                                                             *)

UnderWayAt == {"find", "store", "record", "update", "create"}

\* What the place of an exchange says of its device and of Vault.
ExchangesPlaced ==
  \A e \in Exchanges :
    /\ epc[e] \in UnderWayAt =>
         device[e] \in Devices /\ caller[e] \in Owners /\ eanswer[e] = "none"
    /\ epc[e] = "idle" => eanswer[e] = "none"
    /\ epc[e] \in {"record", "update", "create"} => e \in vault
    /\ epc[e] \in {"record", "update"} \/ (epc[e] = "store" /\ before[e] # None) =>
         before[e] # None /\ key[device[e]] # None
    /\ eanswer[e] = "200" => epc[e] = "done" /\ device[e] \in Devices

\* The cron only takes up devices that have a document, and nothing deletes one.
CronPlaced ==
  /\ overdue \subseteq {d \in Devices : key[d] # None}
  /\ queue \subseteq {d \in Devices : key[d] # None}
  /\ rpc # "idle" => rdevice \in Devices /\ rotation \in Rotations /\ rbefore \in Exchanges

\* An exchange that has seen every write finds the room it counted.
RoomCounted ==
  \A e \in unseen : epc[e] \in UnderWayAt => Cardinality(ActiveDevices(caller[e])) < MaxDevices

DInv == DTypeOK /\ ExchangesPlaced /\ CronPlaced /\ RoomCounted /\ DeviceKeysAreInVault /\ DevicesWithinLimit

\* Fewer devices, fewer active ones.
LEMMA FewerDevices ==
  ASSUME NEW S \in SUBSET Devices, NEW R \in SUBSET S
  PROVE  Cardinality(S) \in Nat /\ Cardinality(R) \in Nat /\ Cardinality(R) <= Cardinality(S)
<1>1. IsFiniteSet(S)
  BY FS_Subset, DeviceAssumption
<1> QED
  BY <1>1, FS_Subset, FS_CardinalityType

\* One device more, at most one active device more.
LEMMA OneDeviceMore ==
  ASSUME NEW S \in SUBSET Devices, NEW d \in Devices, NEW R \in SUBSET (S \cup {d})
  PROVE  Cardinality(R) <= Cardinality(S) + 1
<1>1. IsFiniteSet(S)
  BY FS_Subset, DeviceAssumption
<1>2. Cardinality(S \cup {d}) = IF d \in S THEN Cardinality(S) ELSE Cardinality(S) + 1
  BY <1>1, FS_AddElement
<1>3. S \cup {d} \in SUBSET Devices /\ Cardinality(S) \in Nat
  BY <1>1, FS_CardinalityType
<1>4. Cardinality(R) \in Nat /\ Cardinality(R) <= Cardinality(S \cup {d})
  BY <1>3, FewerDevices
<1> QED
  BY <1>2, <1>3, <1>4

\* What does not touch an owner or a status beyond ROTATED makes no active device.
NoneActivated ==
  /\ \A u \in Owners : ActiveDevices(u)' \subseteq ActiveDevices(u)
  /\ lapped' = lapped

LEMMA LimitKept ==
  ASSUME DInv, NoneActivated
  PROVE  /\ DevicesWithinLimit'
         /\ \A u \in Owners : Cardinality(ActiveDevices(u)) < MaxDevices =>
                              Cardinality(ActiveDevices(u)') < MaxDevices
<1>1. \A u \in Owners : ActiveDevices(u) \in SUBSET Devices
  BY DEF ActiveDevices
<1>2. \A u \in Owners : /\ Cardinality(ActiveDevices(u)) \in Nat /\ Cardinality(ActiveDevices(u)') \in Nat
                        /\ Cardinality(ActiveDevices(u)') <= Cardinality(ActiveDevices(u))
  BY <1>1, FewerDevices DEF NoneActivated
<1>3. DevicesWithinLimit'
  BY <1>2, DeviceAssumption DEF DevicesWithinLimit, DInv, NoneActivated
<1> QED
  BY <1>2, <1>3, DeviceAssumption

\* A write for the device of the caller, by an exchange that has seen all the others.
LEMMA LimitKeptByWrite ==
  ASSUME DInv, NEW e \in Exchanges, epc[e] \in {"update", "create"}, NEW u, Activate(e, u),
         epc[e] = "create" => u = caller[e]
  PROVE  DevicesWithinLimit'
<1> SUFFICES ASSUME ~lapped', NEW w \in Owners
             PROVE  Cardinality(ActiveDevices(w)') <= MaxDevices
  BY DEF DevicesWithinLimit
<1> DEFINE d == device[e]
<1>1. ~lapped /\ e \in unseen /\ u = caller[e] /\ d \in Devices /\ u \in Owners
  BY DEF Activate, DInv, ExchangesPlaced, UnderWayAt
<1>2. ActiveDevices(w) \in SUBSET Devices
  BY DEF ActiveDevices
<1>3. CASE w = u
  <2>1. ActiveDevices(w)' \subseteq ActiveDevices(w) \cup {d}
    BY DEF ActiveDevices, Activate, DInv, DTypeOK
  <2>2. Cardinality(ActiveDevices(w)') <= Cardinality(ActiveDevices(w)) + 1
    BY <1>1, <1>2, <2>1, OneDeviceMore
  <2>3. Cardinality(ActiveDevices(w)) < MaxDevices
    BY <1>1, <1>3 DEF DInv, RoomCounted, UnderWayAt
  <2>4. Cardinality(ActiveDevices(w)) \in Nat /\ Cardinality(ActiveDevices(w)') \in Nat
    BY <1>2, FewerDevices DEF ActiveDevices
  <2> QED
    BY <2>2, <2>3, <2>4, DeviceAssumption
<1>4. CASE w # u
  <2>1. ActiveDevices(w)' \subseteq ActiveDevices(w)
    BY <1>1, <1>4 DEF ActiveDevices, Activate, DInv, DTypeOK
  <2>2. Cardinality(ActiveDevices(w)') <= Cardinality(ActiveDevices(w))
    BY <1>2, <2>1, FewerDevices
  <2>3. Cardinality(ActiveDevices(w)) <= MaxDevices
    BY <1>1 DEF DInv, DevicesWithinLimit
  <2>4. Cardinality(ActiveDevices(w)) \in Nat /\ Cardinality(ActiveDevices(w)') \in Nat
    BY <1>2, FewerDevices DEF ActiveDevices
  <2> QED
    BY <2>2, <2>3, <2>4, DeviceAssumption
<1> QED
  BY <1>3, <1>4

LEMMA DInvHolds == DInit => DInv
<1> SUFFICES ASSUME DInit PROVE DInv
  OBVIOUS
<1> USE DeviceAssumption DEF DInit
<1>1. \A u \in Owners : ActiveDevices(u) = {}
  BY DEF ActiveDevices
<1>2. Cardinality({}) = 0
  BY FS_EmptySet
<1>3. DevicesWithinLimit
  <2> SUFFICES ASSUME NEW u \in Owners PROVE Cardinality(ActiveDevices(u)) <= MaxDevices
    BY DEF DevicesWithinLimit
  <2>1. Cardinality(ActiveDevices(u)) = 0
    BY <1>1, <1>2
  <2> QED
    BY <2>1
<1> QED
  BY <1>3 DEF DInv, DTypeOK, ExchangesPlaced, CronPlaced, RoomCounted, DeviceKeysAreInVault, UnderWayAt

LEMMA DInvKept == DInv /\ [DNext]_dvars => DInv'
<1> SUFFICES ASSUME DInv, [DNext]_dvars PROVE DInv'
  OBVIOUS
<1> USE DeviceAssumption DEF DFails, EGoto, EAnswer, docs, cron, UnderWayAt, Keys
<1>1. ASSUME NEW e \in Exchanges, CountDevices(e) PROVE DInv'
  <2>1. PICK u \in Owners, d \in Devices :
          /\ Asks(e, u, d)
          /\ \/ Cardinality(ActiveDevices(u)) < MaxDevices /\ EGoto(e, "find")
             \/ Cardinality(ActiveDevices(u)) >= MaxDevices /\ EAnswer(e, "409")
             \/ EAnswer(e, "400")
             \/ DFails("db") /\ EAnswer(e, "500")
    BY <1>1 DEF CountDevices
  <2>2. (DTypeOK /\ ExchangesPlaced /\ CronPlaced /\ DeviceKeysAreInVault)'
    BY <1>1, <2>1 DEF CountDevices, Asks, DInv, DTypeOK, ExchangesPlaced, CronPlaced, DeviceKeysAreInVault
  <2>3. \A w \in Owners : ActiveDevices(w)' = ActiveDevices(w)
    BY <1>1 DEF CountDevices, ActiveDevices
  <2>4. DevicesWithinLimit'
    BY <1>1, <2>3 DEF CountDevices, DInv, DevicesWithinLimit
  <2>5. RoomCounted'
    BY <1>1, <2>1, <2>3 DEF CountDevices, Asks, DInv, DTypeOK, ExchangesPlaced, RoomCounted
  <2> QED
    BY <2>2, <2>4, <2>5 DEF DInv
<1> DEFINE Quiet == UNCHANGED <<dstatus, key, owner, lapped>>
           Steady == /\ unseen' \subseteq unseen /\ caller' = caller
                     /\ \A f \in Exchanges : epc'[f] \in UnderWayAt => epc[f] \in UnderWayAt
\* A step that touches no document but to mark it ROTATED keeps the count.
<1>q. ASSUME NoneActivated, Steady PROVE RoomCounted' /\ DevicesWithinLimit'
  <2>1. \A u \in Owners : Cardinality(ActiveDevices(u)) < MaxDevices =>
                            Cardinality(ActiveDevices(u)') < MaxDevices
    BY <1>q, LimitKept
  <2>2. RoomCounted'
    BY <1>q, <2>1 DEF RoomCounted, DInv, ExchangesPlaced, DTypeOK
  <2> QED
    BY <1>q, <2>2, LimitKept
<1>d. Quiet => NoneActivated
  BY DEF NoneActivated, ActiveDevices
<1> HIDE DEF Quiet, Steady
<1>2. ASSUME NEW e \in Exchanges, FindDevice(e) PROVE DInv'
  <2>1. (DTypeOK /\ ExchangesPlaced /\ CronPlaced /\ DeviceKeysAreInVault)' /\ Quiet /\ Steady
    BY <1>2 DEF FindDevice, DInv, DTypeOK, ExchangesPlaced, CronPlaced, DeviceKeysAreInVault, Quiet, Steady
  <2> QED
    BY <2>1, <1>q, <1>d DEF DInv
<1>3. ASSUME NEW e \in Exchanges, StorePrivateKey(e) PROVE DInv'
  <2>1. (DTypeOK /\ ExchangesPlaced /\ CronPlaced /\ DeviceKeysAreInVault)' /\ Quiet /\ Steady
    BY <1>3 DEF StorePrivateKey, AfterStore, DInv, DTypeOK, ExchangesPlaced, CronPlaced,
                DeviceKeysAreInVault, Quiet, Steady
  <2> QED
    BY <2>1, <1>q, <1>d DEF DInv
<1>4. ASSUME NEW e \in Exchanges, RecordExchange(e) PROVE DInv'
  <2>1. (DTypeOK /\ ExchangesPlaced /\ CronPlaced /\ DeviceKeysAreInVault)' /\ Quiet /\ Steady
    BY <1>4 DEF RecordExchange, Recorded, DInv, DTypeOK, ExchangesPlaced, CronPlaced,
                DeviceKeysAreInVault, Quiet, Steady
  <2> QED
    BY <2>1, <1>q, <1>d DEF DInv
<1>5. ASSUME NEW e \in Exchanges, UpdateDevice(e) PROVE DInv'
  <2>0. device[e] \in Devices /\ caller[e] \in Owners /\ owner[device[e]] \in Owners \cup {None}
    BY <1>5 DEF UpdateDevice, DInv, DTypeOK, ExchangesPlaced
  <2>1. (DTypeOK /\ ExchangesPlaced /\ CronPlaced /\ DeviceKeysAreInVault)'
    <3>1. DTypeOK'
      <4>1. /\ key' \in [Devices -> Exchanges \cup {None}] /\ dstatus' \in [Devices -> {"ACTIVE", "ROTATED"}]
            /\ owner' \in [Devices -> Owners \cup {None}] /\ overdue' \in SUBSET Devices
            /\ unseen' \in SUBSET Exchanges
        BY <1>5, <2>0 DEF UpdateDevice, Activate, DInv, DTypeOK
      <4>2. /\ epc' \in [Exchanges -> {"idle", "find", "store", "record", "update", "create", "done"}]
            /\ eanswer' \in [Exchanges -> {"none", "200", "400", "409", "500", "lost"}]
        BY <1>5 DEF UpdateDevice, DInv, DTypeOK
      <4>3. lapped' \in BOOLEAN
        BY <1>5, Zenon DEF UpdateDevice, Activate, DInv, DTypeOK
      <4> QED
        BY <1>5, <4>1, <4>2, <4>3 DEF UpdateDevice, DInv, DTypeOK
    <3>2. ExchangesPlaced'
      BY <1>5, <2>0, SMTT(30) DEF UpdateDevice, Activate, DInv, DTypeOK, ExchangesPlaced
    <3>3. CronPlaced'
      BY <1>5, <2>0, SMTT(30) DEF UpdateDevice, Activate, DInv, DTypeOK, CronPlaced
    <3>4. DeviceKeysAreInVault'
      BY <1>5, <2>0, SMTT(30) DEF UpdateDevice, Activate, DInv, DTypeOK, ExchangesPlaced, DeviceKeysAreInVault
    <3> QED
      BY <3>1, <3>2, <3>3, <3>4
  <2>2. CASE Activate(e, owner[device[e]])
    <3>1. RoomCounted'
      BY <2>2 DEF Activate, RoomCounted
    <3>2. epc[e] = "update"
      BY <1>5 DEF UpdateDevice
    <3>3. DevicesWithinLimit'
      BY <2>2, <3>2, LimitKeptByWrite
    <3> QED
      BY <2>1, <3>1, <3>3 DEF DInv
  <2>3. CASE UNCHANGED <<docs, unseen, lapped>>
    <3>1. Quiet /\ Steady
      BY <1>5, <2>3 DEF UpdateDevice, Quiet, Steady, DInv, DTypeOK
    <3> QED
      BY <2>1, <3>1, <1>q, <1>d DEF DInv
  <2> QED
    BY <1>5, <2>2, <2>3 DEF UpdateDevice
<1>6. ASSUME NEW e \in Exchanges, CreateDevice(e) PROVE DInv'
  <2>0. device[e] \in Devices /\ caller[e] \in Owners /\ owner[device[e]] \in Owners \cup {None}
    BY <1>6 DEF CreateDevice, DInv, DTypeOK, ExchangesPlaced
  <2>1. (DTypeOK /\ ExchangesPlaced /\ CronPlaced /\ DeviceKeysAreInVault)'
    <3>1. DTypeOK'
      <4>1. /\ key' \in [Devices -> Exchanges \cup {None}] /\ dstatus' \in [Devices -> {"ACTIVE", "ROTATED"}]
            /\ owner' \in [Devices -> Owners \cup {None}] /\ overdue' \in SUBSET Devices
            /\ unseen' \in SUBSET Exchanges
        BY <1>6, <2>0 DEF CreateDevice, Activate, DInv, DTypeOK
      <4>2. /\ epc' \in [Exchanges -> {"idle", "find", "store", "record", "update", "create", "done"}]
            /\ eanswer' \in [Exchanges -> {"none", "200", "400", "409", "500", "lost"}]
        BY <1>6 DEF CreateDevice, DInv, DTypeOK
      <4>3. lapped' \in BOOLEAN
        BY <1>6, Zenon DEF CreateDevice, Activate, DInv, DTypeOK
      <4> QED
        BY <1>6, <4>1, <4>2, <4>3 DEF CreateDevice, DInv, DTypeOK
    <3>2. ExchangesPlaced'
      BY <1>6, <2>0, SMTT(30) DEF CreateDevice, Activate, DInv, DTypeOK, ExchangesPlaced
    <3>3. CronPlaced'
      BY <1>6, <2>0, SMTT(30) DEF CreateDevice, Activate, DInv, DTypeOK, CronPlaced
    <3>4. DeviceKeysAreInVault'
      BY <1>6, <2>0, SMTT(30) DEF CreateDevice, Activate, DInv, DTypeOK, ExchangesPlaced, DeviceKeysAreInVault
    <3> QED
      BY <3>1, <3>2, <3>3, <3>4
  <2>2. CASE Activate(e, caller[e])
    <3>1. RoomCounted'
      BY <2>2 DEF Activate, RoomCounted
    <3>2. epc[e] = "create"
      BY <1>6 DEF CreateDevice
    <3>3. DevicesWithinLimit'
      BY <2>2, <3>2, LimitKeptByWrite
    <3> QED
      BY <2>1, <3>1, <3>3 DEF DInv
  <2>3. CASE UNCHANGED <<docs, unseen, lapped>>
    <3>1. Quiet /\ Steady
      BY <1>6, <2>3 DEF CreateDevice, Quiet, Steady, DInv, DTypeOK
    <3> QED
      BY <2>1, <3>1, <1>q, <1>d DEF DInv
  <2> QED
    BY <1>6, <2>2, <2>3 DEF CreateDevice
<1>7. ASSUME NEW d \in Devices, KeyAges(d) PROVE DInv'
  <2>1. (DTypeOK /\ ExchangesPlaced /\ CronPlaced /\ DeviceKeysAreInVault)' /\ Quiet /\ Steady
    BY <1>7 DEF KeyAges, ereq, DInv, DTypeOK, ExchangesPlaced, CronPlaced, DeviceKeysAreInVault, Quiet, Steady
  <2> QED
    BY <2>1, <1>q, <1>d DEF DInv
<1>8. ASSUME CronFinds PROVE DInv'
  <2>1. (DTypeOK /\ ExchangesPlaced /\ CronPlaced /\ DeviceKeysAreInVault)' /\ Quiet /\ Steady
    BY <1>8 DEF CronFinds, ereq, DInv, DTypeOK, ExchangesPlaced, CronPlaced, DeviceKeysAreInVault, Quiet, Steady
  <2> QED
    BY <2>1, <1>q, <1>d DEF DInv
<1>9. ASSUME RotateFind PROVE DInv'
  <2>1. (DTypeOK /\ ExchangesPlaced /\ CronPlaced /\ DeviceKeysAreInVault)' /\ Quiet /\ Steady
    BY <1>9 DEF RotateFind, ereq, DInv, DTypeOK, ExchangesPlaced, CronPlaced, DeviceKeysAreInVault, Quiet, Steady
  <2> QED
    BY <2>1, <1>q, <1>d DEF DInv
<1>10. ASSUME RotateStore PROVE DInv'
  <2>1. (DTypeOK /\ ExchangesPlaced /\ CronPlaced /\ DeviceKeysAreInVault)' /\ Quiet /\ Steady
    BY <1>10 DEF RotateStore, RGoto, RNext, ereq, DInv, DTypeOK, ExchangesPlaced, CronPlaced,
                 DeviceKeysAreInVault, Quiet, Steady
  <2> QED
    BY <2>1, <1>q, <1>d DEF DInv
<1>11. ASSUME RotateMark PROVE DInv'
  <2>1. (DTypeOK /\ ExchangesPlaced /\ CronPlaced /\ DeviceKeysAreInVault)' /\ Steady
    BY <1>11 DEF RotateMark, RGoto, RNext, ereq, DInv, DTypeOK, ExchangesPlaced, CronPlaced,
                 DeviceKeysAreInVault, Steady
  <2>2. NoneActivated
    BY <1>11 DEF RotateMark, DInv, DTypeOK, NoneActivated, ActiveDevices
  <2> QED
    BY <2>1, <2>2, <1>q DEF DInv
<1>12. ASSUME RotateRecord PROVE DInv'
  <2>1. (DTypeOK /\ ExchangesPlaced /\ CronPlaced /\ DeviceKeysAreInVault)' /\ Quiet /\ Steady
    BY <1>12 DEF RotateRecord, Recorded, RGoto, RNext, ereq, DInv, DTypeOK, ExchangesPlaced, CronPlaced,
                 DeviceKeysAreInVault, Quiet, Steady
  <2> QED
    BY <2>1, <1>q, <1>d DEF DInv
<1>13. ASSUME RotateCreate PROVE DInv'
  <2>1. (DTypeOK /\ ExchangesPlaced /\ CronPlaced /\ DeviceKeysAreInVault)' /\ Quiet /\ Steady
    BY <1>13 DEF RotateCreate, RGoto, RNext, ereq, DInv, DTypeOK, ExchangesPlaced, CronPlaced,
                 DeviceKeysAreInVault, Quiet, Steady
  <2> QED
    BY <2>1, <1>q, <1>d DEF DInv
<1>14. ASSUME DCrash PROVE DInv'
  <2>1. (DTypeOK /\ ExchangesPlaced /\ CronPlaced /\ DeviceKeysAreInVault)' /\ Quiet /\ Steady
    BY <1>14 DEF DCrash, DInv, DTypeOK, ExchangesPlaced, CronPlaced, DeviceKeysAreInVault, Quiet, Steady
  <2> QED
    BY <2>1, <1>q, <1>d DEF DInv
<1>15. ASSUME UNCHANGED dvars PROVE DInv'
  <2>1. (DTypeOK /\ ExchangesPlaced /\ CronPlaced /\ DeviceKeysAreInVault)' /\ Quiet /\ Steady
    BY <1>15 DEF dvars, ereq, DInv, DTypeOK, ExchangesPlaced, CronPlaced, DeviceKeysAreInVault, Quiet, Steady
  <2> QED
    BY <2>1, <1>q, <1>d DEF DInv
<1> QED
  BY <1>1, <1>2, <1>3, <1>4, <1>5, <1>6, <1>7, <1>8, <1>9, <1>10, <1>11, <1>12, <1>13, <1>14, <1>15
  DEF DNext

LEMMA DInvAlways == DSpec => []DInv
  BY DInvHolds, DInvKept, PTL DEF DSpec

\* Every variable keeps its type.
THEOREM DevicesTypeCorrect == DSpec => []DTypeOK
<1>1. DInv => DTypeOK
  BY DEF DInv
<1> QED
  BY <1>1, DInvAlways, PTL

\* However exchanges and the cron's rotations interleave, fail and are cut short, the
\* key a document names and every key a phone was given is in Vault.
THEOREM DeviceKeysAlwaysInVault == DSpec => []DeviceKeysAreInVault
<1>1. DInv => DeviceKeysAreInVault
  BY DEF DInv
<1> QED
  BY <1>1, DInvAlways, PTL

\* The limit of devices is passed only by an exchange that missed another's write, or
\* that was for a device of someone else.
THEOREM LimitOfDevicesHolds == DSpec => []DevicesWithinLimit
<1>1. DInv => DevicesWithinLimit
  BY DEF DInv
<1> QED
  BY <1>1, DInvAlways, PTL
=============================================================================
