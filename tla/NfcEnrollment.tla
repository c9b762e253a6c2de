---------------------------- MODULE NfcEnrollment ----------------------------
(***************************************************************************)
(* The NFC enrolment of one card (nfc-enrollment.service.ts): its document *)
(* in Mongo, unique per card; its root seed in Vault, at a path that       *)
(* depends on the card only; its counter in Redis.  Each await is a step.  *)
(* An enrol request names the seed it derives: the phone and the server    *)
(* can only use the same one if both took part in the same request.        *)
(***************************************************************************)
EXTENDS Integers

CONSTANTS
  Enrolls,     \* POST /cards/:cardId/nfc-enrollment requests
  Revokes,     \* DELETE /cards/:cardId/nfc-enrollment requests
  None,
  Environments \* the sets of services that may fail in a behaviour

ASSUME EnrollmentAssumption ==
  /\ Enrolls \cap Revokes = {}
  /\ None \notin Enrolls \cup Int
  /\ Environments \subseteq SUBSET {"db", "redis", "vault", "crash"}

VARIABLES
  status,   \* of the enrolment document, "absent" before it is created
  seedOf,   \* the enrol request whose keys the document holds
  vault,    \* the root seed in Vault
  counter,  \* the counter in Redis, or None
  epc,      \* where each enrol and revoke request is
  found,    \* enrol requests that found the card enrolled
  eanswer,  \* HTTP status they were answered with
  faults    \* the services that fail in this behaviour; never changes

card == <<status, seedOf, vault, counter>>
ereq == <<epc, found, eanswer>>
evars == <<card, ereq, faults>>

ETypeOK ==
  /\ status \in {"absent", "active", "revoked"}
  /\ seedOf \in Enrolls \cup {None}
  /\ vault \in Enrolls \cup {None}
  /\ counter \in {n \in Int : n >= -1} \cup {None}
  /\ epc \in [Enrolls \cup Revokes ->
       {"idle", "drop", "retire", "reset", "store", "create", "init", "done"}]
  /\ found \in SUBSET Enrolls
  /\ eanswer \in [Enrolls \cup Revokes -> {"none", "200", "201", "400", "403", "500", "lost"}]
  /\ faults \in Environments

EInit ==
  /\ status = "absent" /\ seedOf = None /\ vault = None /\ counter = None
  /\ epc = [e \in Enrolls \cup Revokes |-> "idle"]
  /\ found = {}
  /\ eanswer = [e \in Enrolls \cup Revokes |-> "none"]
  /\ faults \in Environments

-----------------------------------------------------------------------------

EGoto(e, l) == epc' = [epc EXCEPT ![e] = l] /\ UNCHANGED eanswer
ERespond(e, c) == epc' = [epc EXCEPT ![e] = "done"] /\ eanswer' = [eanswer EXCEPT ![e] = c]
Fails(service) == service \in faults

\* A call whose failure throws: it may have taken effect all the same.
Throwing(service, e, effect, vs) ==
  Fails(service) /\ (effect \/ UNCHANGED vs) /\ ERespond(e, "500")

\* A device key that is no P-256 point is refused; then findByCardId, which only
\* sees active documents.
EnrollFind(e) ==
  /\ epc[e] = "idle"
  /\ \/ ERespond(e, "400") /\ UNCHANGED found
     \/ status = "active" /\ found' = found \cup {e} /\ EGoto(e, "drop")
     \/ status # "active" /\ EGoto(e, "store") /\ UNCHANGED found
     \/ Fails("db") /\ ERespond(e, "500") /\ UNCHANGED found
  /\ UNCHANGED <<card, faults>>

\* The same, and the enrolment of another user is left alone.
RevokeFind(v) ==
  /\ epc[v] = "idle"
  /\ \/ status = "active" /\ (EGoto(v, "drop") \/ ERespond(v, "403"))
     \/ status # "active" /\ ERespond(v, "400")
     \/ Fails("db") /\ ERespond(v, "500")
  /\ UNCHANGED <<card, found, faults>>

\* deleteKV of the seed.  A failure is a Result nobody looks at.
DropSeed(e) ==
  /\ epc[e] = "drop"
  /\ vault' = None \/ (Fails("vault") /\ UNCHANGED vault)
  /\ EGoto(e, "retire")
  /\ UNCHANGED <<status, seedOf, counter, found, faults>>

\* Mutant: the document is left alone, as the seed is gone anyway.
RetireNothing(e) ==
  /\ epc[e] = "retire"
  /\ EGoto(e, "reset")
  /\ UNCHANGED <<card, found, faults>>

\* update of the active document, if there still is one, to revoked.
Retire(e) ==
  LET Write == status' = (IF status = "active" THEN "revoked" ELSE status) IN
  /\ epc[e] = "retire"
  /\ \/ Write /\ EGoto(e, "reset")
     \/ Throwing("db", e, Write, status)
  /\ UNCHANGED <<seedOf, vault, counter, found, faults>>

\* resetRedisCounter; a revoke is then answered, an enrol goes on.
Reset(e) ==
  /\ epc[e] = "reset"
  /\ \/ counter' = None /\ e \in Enrolls /\ EGoto(e, "store")
     \/ counter' = None /\ e \in Revokes /\ ERespond(e, "200")
     \/ Throwing("redis", e, counter' = None, counter)
  /\ UNCHANGED <<status, seedOf, vault, found, faults>>

\* writeKV of the new seed.  A failure is a Result whose "success" is
\* undefined, and passes both checks.
StoreSeed(e) ==
  /\ epc[e] = "store"
  /\ vault' = e \/ (Fails("vault") /\ UNCHANGED vault)
  /\ EGoto(e, "create")
  /\ UNCHANGED <<status, seedOf, counter, found, faults>>

\* create of the document, under the unique index on cardId: a revoked
\* document of the card blocks it as an active one does.
Create(e) ==
  LET Write == status' = "active" /\ seedOf' = e IN
  /\ epc[e] = "create"
  /\ \/ status = "absent" /\ Write /\ EGoto(e, "init")
     \/ status # "absent" /\ ERespond(e, "500") /\ UNCHANGED <<status, seedOf>>
     \/ status = "absent" /\ Throwing("db", e, Write, <<status, seedOf>>)
  /\ UNCHANGED <<vault, counter, found, faults>>

\* initRedisCounter and the 201.
InitCounter(e) ==
  /\ epc[e] = "init"
  /\ \/ counter' = -1 /\ ERespond(e, "201")
     \/ Throwing("redis", e, counter' = -1, counter)
  /\ UNCHANGED <<status, seedOf, vault, found, faults>>

EInFlight(e) == epc[e] \notin {"idle", "done"}

\* The process stops: the clients of the requests in flight get no answer.
ECrash ==
  /\ epc' = [e \in DOMAIN epc |-> IF EInFlight(e) THEN "done" ELSE epc[e]]
  /\ eanswer' = [e \in DOMAIN epc |-> IF EInFlight(e) THEN "lost" ELSE eanswer[e]]
  /\ UNCHANGED <<card, found, faults>>

EnrollStep(e) ==
  EnrollFind(e) \/ DropSeed(e) \/ Retire(e) \/ Reset(e) \/ StoreSeed(e)
    \/ Create(e) \/ InitCounter(e)
RevokeStep(v) == RevokeFind(v) \/ DropSeed(v) \/ Retire(v) \/ Reset(v)

ENext == (\E e \in Enrolls : EnrollStep(e)) \/ (\E v \in Revokes : RevokeStep(v))

-----------------------------------------------------------------------------
(* Properties.                                                             *)

\* When no service fails, no change of the enrolment is under way and no two
\* enrol requests ran into each other, an active enrolment can be used: Vault
\* holds the seed of the very request that created it, and there is a counter.
\* (Two that both found the card free overwrite each other's seed.)
AtRest == \A e \in Enrolls \cup Revokes : ~EInFlight(e)
FoundFree(e) == e \notin found /\ epc[e] # "idle" /\ eanswer[e] # "400"
Alone == \A e, d \in Enrolls : FoundFree(e) /\ FoundFree(d) => e = d
EnrolledCardIsUsable ==
  faults = {} /\ AtRest /\ Alone /\ status = "active" =>
    vault = seedOf /\ counter # None

\* What the service and its tests say: who enrols an enrolled card gets a new enrolment in
\* place of the old one.
ReenrolmentSucceeds ==
  faults = {} => \A e \in found : epc[e] = "done" => eanswer[e] = "201"
=============================================================================
