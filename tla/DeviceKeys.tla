------------------------------ MODULE DeviceKeys ------------------------------
(***************************************************************************)
(* Keys of mobile devices (devices/): exchangePublicKeyWithDevice, and the *)
(* weekly handlePeriodicKeyRotation with rotateDeviceKey.  A device has a  *)
(* document in Mongo, whose keyHandle names a private key in Vault; both   *)
(* are changed one after the other, with an await in between.              *)
(*                                                                         *)
(* A key is named by the exchange or the rotation that generates it.  The  *)
(* other operations of the controller end in DeviceOwnershipGuard, which   *)
(* looks for request.user.id and finds none, or answer an empty list.      *)
(***************************************************************************)
EXTENDS Naturals, FiniteSets

CONSTANTS
  Exchanges,    \* POST /devices/key-exchange requests
  Rotations,    \* rotations the cron starts
  Devices, Owners,
  MaxDevices,   \* MAX_DEVICES_PER_USER
  MaxRotations, \* MAX_ROTATIONS_PER_24H
  None,         \* no document, key, rotation, user or device
  DeviceFaults

ASSUME DeviceAssumption ==
  /\ IsFiniteSet(Devices)
  /\ Exchanges \cap Rotations = {} /\ None \notin Exchanges \cup Rotations \cup Devices \cup Owners
  /\ MaxDevices \in Nat \ {0} /\ MaxRotations \in Nat \ {0}
  /\ DeviceFaults \subseteq SUBSET {"db", "vault", "crash"}

VARIABLES
  key,      \* keyHandle of each device's document, or None
  dstatus,  \* its status
  owner,    \* its userId
  overdue,  \* devices whose key expired 90 days ago
  vault,    \* keys whose private half is in Vault
  history,  \* device_key_rotations
  epc,      \* where each exchange is
  caller,   \* its user
  device,   \* its device
  before,   \* the keyHandle it found, or None
  eanswer,
  unseen,   \* exchanges that counted and have not seen another one's write
  lapped,   \* whether such a write, or one for another's device, was made
  rpc,      \* where the cron is
  queue,    \* devices findExpiredKeys gave it and it has not come to
  rotation, \* the rotation under way, which is for
  rdevice,  \* this device, and found
  rbefore,  \* this keyHandle
  rspent,   \* rotations of earlier devices and weeks
  dfaults   \* the failures of this behaviour; never changes

docs == <<key, dstatus, owner, overdue>>
ereq == <<epc, caller, device, before, eanswer>>
cron == <<rpc, queue, rotation, rdevice, rbefore, rspent>>
dvars == <<docs, vault, history, ereq, unseen, lapped, cron, dfaults>>

Keys == Exchanges \cup Rotations

DTypeOK ==
  /\ key \in [Devices -> Exchanges \cup {None}]
  /\ dstatus \in [Devices -> {"ACTIVE", "ROTATED"}]
  /\ owner \in [Devices -> Owners \cup {None}]
  /\ overdue \in SUBSET Devices
  /\ vault \in SUBSET Keys
  /\ history \in SUBSET [device : Devices, from : Exchanges, to : Keys]
  /\ epc \in [Exchanges -> {"idle", "find", "store", "record", "update", "create", "done"}]
  /\ caller \in [Exchanges -> Owners \cup {None}]
  /\ device \in [Exchanges -> Devices \cup {None}]
  /\ before \in [Exchanges -> Exchanges \cup {None}]
  /\ eanswer \in [Exchanges -> {"none", "200", "400", "409", "500", "lost"}]
  /\ unseen \in SUBSET Exchanges
  /\ lapped \in BOOLEAN
  /\ rpc \in {"idle", "store", "mark", "record", "create"}
  /\ queue \in SUBSET Devices
  /\ rotation \in Rotations \cup {None}
  /\ rdevice \in Devices \cup {None}
  /\ rbefore \in Exchanges \cup {None}
  /\ rspent \in SUBSET Rotations
  /\ dfaults \in DeviceFaults

DInit ==
  /\ key = [d \in Devices |-> None]
  /\ dstatus = [d \in Devices |-> "ACTIVE"]
  /\ owner = [d \in Devices |-> None]
  /\ overdue = {} /\ vault = {} /\ history = {}
  /\ epc = [e \in Exchanges |-> "idle"]
  /\ caller = [e \in Exchanges |-> None] /\ device = [e \in Exchanges |-> None]
  /\ before = [e \in Exchanges |-> None]
  /\ eanswer = [e \in Exchanges |-> "none"]
  /\ unseen = {} /\ lapped = FALSE
  /\ rpc = "idle" /\ queue = {} /\ rspent = {}
  /\ rotation = None /\ rdevice = None /\ rbefore = None
  /\ dfaults \in DeviceFaults

DFails(service) == service \in dfaults
EGoto(e, l) == epc' = [epc EXCEPT ![e] = l] /\ UNCHANGED eanswer
EAnswer(e, a) == epc' = [epc EXCEPT ![e] = "done"] /\ eanswer' = [eanswer EXCEPT ![e] = a]

ActiveDevices(u) == {d \in Devices : key[d] # None /\ owner[d] = u /\ dstatus[d] = "ACTIVE"}

-----------------------------------------------------------------------------
(* exchangePublicKeyWithDevice.                                            *)

Asks(e, u, d) ==
  /\ epc[e] = "idle"
  /\ caller' = [caller EXCEPT ![e] = u] /\ device' = [device EXCEPT ![e] = d]
  /\ unseen' = unseen \cup {e}

\* Mutant: the limit itself is let through.
CountOneMore(e) ==
  /\ \E u \in Owners, d \in Devices :
       Asks(e, u, d) /\ Cardinality(ActiveDevices(u)) <= MaxDevices /\ EGoto(e, "find")
  /\ UNCHANGED <<docs, vault, history, before, lapped, cron, dfaults>>

\* The public key is validated and the active devices of the user are counted.
CountDevices(e) ==
  /\ \E u \in Owners, d \in Devices :
       /\ Asks(e, u, d)
       /\ \/ Cardinality(ActiveDevices(u)) < MaxDevices /\ EGoto(e, "find")
          \/ Cardinality(ActiveDevices(u)) >= MaxDevices /\ EAnswer(e, "409")
          \/ EAnswer(e, "400")
          \/ DFails("db") /\ EAnswer(e, "500")
  /\ UNCHANGED <<docs, vault, history, before, lapped, cron, dfaults>>

\* findByDeviceId, whoever the device belongs to.
FindDevice(e) ==
  /\ epc[e] = "find"
  /\ \/ before' = [before EXCEPT ![e] = key[device[e]]] /\ EGoto(e, "store")
     \/ DFails("db") /\ EAnswer(e, "500") /\ UNCHANGED before
  /\ UNCHANGED <<docs, vault, history, caller, device, unseen, lapped, cron, dfaults>>

AfterStore(e) == IF before[e] = None THEN "create" ELSE "record"

\* Mutant: the Result of the Vault client is not looked at.
StorePrivateKeyOrNot(e) ==
  /\ epc[e] = "store"
  /\ vault' = vault \cup {e} \/ (DFails("vault") /\ UNCHANGED vault)
  /\ EGoto(e, AfterStore(e))
  /\ UNCHANGED <<docs, history, caller, device, before, unseen, lapped, cron, dfaults>>

\* storeServerPrivateKey; a failing call may have stored the key.
StorePrivateKey(e) ==
  /\ epc[e] = "store"
  /\ \/ vault' = vault \cup {e} /\ EGoto(e, AfterStore(e))
     \/ DFails("vault") /\ EAnswer(e, "500") /\ (vault' = vault \cup {e} \/ UNCHANGED vault)
  /\ UNCHANGED <<docs, history, caller, device, before, unseen, lapped, cron, dfaults>>

Recorded(d, old, new) == history' = history \cup {[device |-> d, from |-> old, to |-> new]}

\* recordRotation, for a device that had a document.
RecordExchange(e) ==
  /\ epc[e] = "record"
  /\ \/ Recorded(device[e], before[e], e) /\ EGoto(e, "update")
     \/ DFails("db") /\ EAnswer(e, "500")
        /\ (Recorded(device[e], before[e], e) \/ UNCHANGED history)
  /\ UNCHANGED <<docs, vault, caller, device, before, unseen, lapped, cron, dfaults>>

\* A key comes into force: the others that counted have not seen it.
Activate(e, u) ==
  /\ key' = [key EXCEPT ![device[e]] = e]
  /\ dstatus' = [dstatus EXCEPT ![device[e]] = "ACTIVE"]
  /\ owner' = [owner EXCEPT ![device[e]] = u]
  /\ overdue' = overdue \ {device[e]}
  /\ lapped' = (lapped \/ e \notin unseen \/ u # caller[e])
  /\ unseen' = {}

\* update: a new key, ACTIVE again, the owner as it was.
UpdateDevice(e) ==
  /\ epc[e] = "update"
  /\ \/ Activate(e, owner[device[e]]) /\ EAnswer(e, "200")
     \/ DFails("db") /\ EAnswer(e, "500")
        /\ (Activate(e, owner[device[e]]) \/ UNCHANGED <<docs, unseen, lapped>>)
  /\ UNCHANGED <<vault, history, caller, device, before, cron, dfaults>>

\* create under the unique index on deviceId.
CreateDevice(e) ==
  /\ epc[e] = "create"
  /\ \/ key[device[e]] = None /\ Activate(e, caller[e]) /\ EAnswer(e, "200")
     \/ key[device[e]] # None /\ EAnswer(e, "500") /\ UNCHANGED <<docs, unseen, lapped>>
     \/ DFails("db") /\ key[device[e]] = None /\ EAnswer(e, "500")
        /\ (Activate(e, caller[e]) \/ UNCHANGED <<docs, unseen, lapped>>)
  /\ UNCHANGED <<vault, history, caller, device, before, cron, dfaults>>

-----------------------------------------------------------------------------
(* handlePeriodicKeyRotation.  A failing step ends the rotation of a device*)
(* and the cron goes on to the next one.                                   *)

\* 90 days have passed since the key expired.
KeyAges(d) ==
  /\ key[d] # None /\ d \notin overdue
  /\ overdue' = overdue \cup {d}
  /\ UNCHANGED <<key, dstatus, owner, vault, history, ereq, unseen, lapped, cron, dfaults>>

\* findExpiredKeys.
CronFinds ==
  /\ rpc = "idle" /\ queue = {}
  /\ queue' = {d \in overdue : dstatus[d] = "ACTIVE"}
  /\ UNCHANGED <<docs, vault, history, ereq, unseen, lapped, rpc, rotation, rdevice, rbefore,
                 rspent, dfaults>>

RGoto(l) == rpc' = l /\ UNCHANGED <<queue, rotation, rdevice, rbefore, rspent>>
RNext == RGoto("idle")

\* rotateDeviceKey for the next device: findByDeviceId and the rotations of the
\* last day, of which some may be older.
RotateFind ==
  /\ rpc = "idle"
  /\ \E d \in queue, r \in Rotations \ rspent :
       /\ queue' = queue \ {d} /\ rotation' = r /\ rspent' = rspent \cup {r}
       /\ rdevice' = d /\ rbefore' = key[d]
       /\ \/ rpc' = "store"
          \/ DFails("db") /\ rpc' = "idle"
          \/ Cardinality({h \in history : h.device = d}) >= MaxRotations /\ rpc' = "idle"
  /\ UNCHANGED <<docs, vault, history, ereq, unseen, lapped, dfaults>>

\* storeServerPrivateKey.
RotateStore ==
  /\ rpc = "store"
  /\ \/ vault' = vault \cup {rotation} /\ RGoto("mark")
     \/ DFails("vault") /\ RNext /\ (vault' = vault \cup {rotation} \/ UNCHANGED vault)
  /\ UNCHANGED <<docs, history, ereq, unseen, lapped, dfaults>>

\* updateStatus by id, whatever key the document has by now.
RotateMark ==
  /\ rpc = "mark"
  /\ \/ dstatus' = [dstatus EXCEPT ![rdevice] = "ROTATED"] /\ RGoto("record")
     \/ DFails("db") /\ RNext
        /\ (dstatus' = [dstatus EXCEPT ![rdevice] = "ROTATED"] \/ UNCHANGED dstatus)
  /\ UNCHANGED <<key, owner, overdue, vault, history, ereq, unseen, lapped, dfaults>>

\* recordRotation.
RotateRecord ==
  /\ rpc = "record"
  /\ \/ Recorded(rdevice, rbefore, rotation) /\ RGoto("create")
     \/ DFails("db") /\ RNext /\ (Recorded(rdevice, rbefore, rotation) \/ UNCHANGED history)
  /\ UNCHANGED <<docs, vault, ereq, unseen, lapped, dfaults>>

\* create, under an index on deviceId that holds the document just marked.
RotateCreate ==
  /\ rpc = "create"
  /\ key[rdevice] # None
  /\ RNext
  /\ UNCHANGED <<docs, vault, history, ereq, unseen, lapped, dfaults>>

\* The process stops.
DCrash ==
  /\ DFails("crash")
  /\ epc' = [e \in Exchanges |-> IF epc[e] = "idle" THEN "idle" ELSE "done"]
  /\ eanswer' = [e \in Exchanges |-> IF epc[e] \in {"idle", "done"} THEN eanswer[e] ELSE "lost"]
  /\ rpc' = "idle" /\ queue' = {}
  /\ UNCHANGED <<docs, vault, history, caller, device, before, unseen, lapped, rotation,
                 rdevice, rbefore, rspent, dfaults>>

DNext ==
  \/ \E e \in Exchanges :
       \/ CountDevices(e) \/ FindDevice(e) \/ StorePrivateKey(e)
       \/ RecordExchange(e) \/ UpdateDevice(e) \/ CreateDevice(e)
  \/ \E d \in Devices : KeyAges(d)
  \/ CronFinds \/ RotateFind \/ RotateStore \/ RotateMark \/ RotateRecord \/ RotateCreate
  \/ DCrash

DSpec == DInit /\ [][DNext]_dvars

-----------------------------------------------------------------------------
(* Properties.                                                             *)

\* The key a device's document names, and every key a phone was given, has its
\* private half in Vault, however exchanges and rotations interleave and fail;
\* and the document exists once a phone was answered.
DeviceKeysAreInVault ==
  /\ \A d \in Devices : key[d] # None => key[d] \in vault
  /\ \A e \in Exchanges : eanswer[e] = "200" => e \in vault /\ key[device[e]] # None

\* A user has more active devices than the limit only if an exchange was written
\* after another one that it had not counted, or for the device of someone else.
DevicesWithinLimit ==
  ~lapped => \A u \in Owners : Cardinality(ActiveDevices(u)) <= MaxDevices
=============================================================================
