--------------------------- MODULE CardRegistration ---------------------------
(***************************************************************************)
(* Registering cards (cards.service.ts): registerCard is a saga over Vault *)
(* (PAN and PIN block), the SGT (registration and activation at the        *)
(* issuer) and Mongo (the card), with a rollback of Vault; retryActivation *)
(* starts from a stored card.  Each await is a step.                       *)
(*                                                                         *)
(* A card is named by the request that registers it, whose uuid it has. A  *)
(* holder is a user and a card type: the unique index allows one card for  *)
(* each.                                                                   *)
(***************************************************************************)

CONSTANTS
  Registrations, \* POST /cards requests
  Retries,       \* POST /cards/:id/retry-activation requests
  Holders,       \* pairs of a user and a card type
  NoCard,
  CardFaults     \* the sets of failures a behaviour may be exposed to

ASSUME CardAssumption ==
  /\ NoCard \notin Registrations
  /\ CardFaults \subseteq SUBSET {"db", "vault", "lostReply", "crash"}

VARIABLES
  stored,    \* the cards collection: the card of each holder, or NoCard
  status,    \* of the stored cards
  secrets,   \* cards whose PAN and PIN block are in Vault
  activated, \* cards whose PIN the issuer activated
  cpc,       \* where each registration is
  holder,    \* whom it is for
  code,      \* the activation code it goes on with
  canswer,   \* what it was answered, or will be after the rollback
  ranswer,   \* what each retry was answered
  retried,   \* the card each retry was for, or NoCard
  cfaults    \* the failures of this behaviour; never changes

outside == <<secrets, activated>>
creq == <<cpc, holder, code, canswer>>
cvars == <<stored, status, outside, creq, ranswer, retried, cfaults>>

Codes == {"AP000", "AP001", "AP002", "AP003", "AP004"}

CTypeOK ==
  /\ stored \in [Holders -> Registrations \cup {NoCard}]
  /\ status \in [Registrations -> {"REGISTERED", "ACTIVE"}]
  /\ secrets \in SUBSET Registrations
  /\ activated \in SUBSET Registrations
  /\ cpc \in [Registrations -> {"idle", "save", "verify", "create", "rollback", "done"}]
  /\ holder \in [Registrations -> Holders]
  /\ code \in [Registrations -> Codes]
  /\ canswer \in [Registrations -> {"none", "201", "400", "409", "500", "502", "lost"}]
  /\ ranswer \in [Retries -> {"none", "404", "403", "409", "500"}]
  /\ retried \in [Retries -> Registrations \cup {NoCard}]
  /\ cfaults \in CardFaults

CInit ==
  /\ stored = [h \in Holders |-> NoCard]
  /\ status = [r \in Registrations |-> "REGISTERED"]
  /\ secrets = {} /\ activated = {}
  /\ cpc = [r \in Registrations |-> "idle"]
  /\ holder \in [Registrations -> Holders]
  /\ code = [r \in Registrations |-> "AP000"]
  /\ canswer = [r \in Registrations |-> "none"]
  /\ ranswer = [q \in Retries |-> "none"]
  /\ retried = [q \in Retries |-> NoCard]
  /\ cfaults \in CardFaults

CFails(service) == service \in cfaults
CGoto(r, l) == cpc' = [cpc EXCEPT ![r] = l] /\ UNCHANGED <<holder, canswer>>
CRespond(r, c) ==
  cpc' = [cpc EXCEPT ![r] = "done"] /\ canswer' = [canswer EXCEPT ![r] = c] /\ UNCHANGED holder
\* rollbackVaultSecrets comes before the answer.
RollbackAndRespond(r, c) ==
  cpc' = [cpc EXCEPT ![r] = "rollback"] /\ canswer' = [canswer EXCEPT ![r] = c] /\ UNCHANGED holder

-----------------------------------------------------------------------------
(* registerCard.                                                           *)

\* findByUserId; a failing read comes back as null, like no card.  A PAN that
\* is not of 16 digits passes the Luhn check and is refused by the PIN block.
CheckHolder(r) ==
  /\ cpc[r] = "idle"
  /\ \/ stored[holder[r]] # NoCard /\ CRespond(r, "409")
     \/ /\ stored[holder[r]] = NoCard \/ CFails("db")
        /\ CGoto(r, "save") \/ CRespond(r, "500")
  /\ UNCHANGED <<stored, status, outside, code, ranswer, retried, cfaults>>

\* Mutant: the Result of savePanAndPinblock is not looked at.
SaveSecretsOrNot(r) ==
  /\ cpc[r] = "save"
  /\ secrets' = secrets \cup {r} \/ (CFails("vault") /\ UNCHANGED secrets)
  /\ CGoto(r, "verify")
  /\ UNCHANGED <<stored, status, activated, code, ranswer, retried, cfaults>>

\* savePanAndPinblock.  A failure is answered at once, without a rollback, also
\* when Vault did store the secrets.
SaveSecrets(r) ==
  /\ cpc[r] = "save"
  /\ \/ secrets' = secrets \cup {r} /\ CGoto(r, "verify")
     \/ CFails("vault") /\ CRespond(r, "500")
        /\ (secrets' = secrets \cup {r} \/ UNCHANGED secrets)
  /\ UNCHANGED <<stored, status, activated, code, ranswer, retried, cfaults>>

\* What the issuer has done when the SGT answers with a code.
IssuerActs(r, c) ==
  activated' = IF c \in {"AP000", "AP003"} THEN activated \cup {r} ELSE activated

\* activatePin.  A refusal is a failure of the adapter or, with ok set, a code
\* the service looks at; a lost answer and AP004 say nothing of the issuer.
Verify(r) ==
  /\ cpc[r] = "verify"
  /\ \/ \E c \in {"AP000", "AP002", "AP003"} :
          IssuerActs(r, c) /\ CGoto(r, "create") /\ code' = [code EXCEPT ![r] = c]
     \/ \E c \in {"AP001", "AP004"}, a \in {"400", "502"} :
          /\ a = "502" => c = "AP004"
          /\ IssuerActs(r, c) /\ RollbackAndRespond(r, a) /\ UNCHANGED code
     \/ CFails("lostReply") /\ IssuerActs(r, "AP000") /\ UNCHANGED code
        /\ (RollbackAndRespond(r, "400") \/ RollbackAndRespond(r, "502"))
     \/ CFails("db") /\ RollbackAndRespond(r, "500") /\ UNCHANGED <<activated, code>>
  /\ UNCHANGED <<stored, status, secrets, ranswer, retried, cfaults>>

StatusFor(c) == IF c = "AP002" THEN "REGISTERED" ELSE "ACTIVE"

Insert(r) ==
  /\ stored' = [stored EXCEPT ![holder[r]] = r]
  /\ status' = [status EXCEPT ![r] = StatusFor(code[r])]

\* Mutant: the index is on the user and type of card, but not unique.
CreateAnyway(r) ==
  /\ cpc[r] = "create"
  /\ Insert(r) /\ CRespond(r, "201")
  /\ UNCHANGED <<outside, code, ranswer, retried, cfaults>>

\* Mutant: a failed create is answered without a rollback.
CreateOrGiveUp(r) ==
  /\ cpc[r] = "create"
  /\ \/ stored[holder[r]] = NoCard /\ Insert(r) /\ CRespond(r, "201")
     \/ stored[holder[r]] # NoCard /\ CRespond(r, "500") /\ UNCHANGED <<stored, status>>
  /\ UNCHANGED <<outside, code, ranswer, retried, cfaults>>

\* create under the unique index on (userId, cardType).  Whatever throws, also
\* after the card was stored, the catch rolls Vault back.
Create(r) ==
  /\ cpc[r] = "create"
  /\ \/ stored[holder[r]] = NoCard /\ Insert(r) /\ CRespond(r, "201")
     \/ stored[holder[r]] # NoCard /\ RollbackAndRespond(r, "500") /\ UNCHANGED <<stored, status>>
     \/ CFails("db") /\ stored[holder[r]] = NoCard /\ RollbackAndRespond(r, "500")
        /\ (Insert(r) \/ UNCHANGED <<stored, status>>)
  /\ UNCHANGED <<outside, code, ranswer, retried, cfaults>>

\* deletePanAndPinblock; a failure is logged.
Rollback(r) ==
  /\ cpc[r] = "rollback"
  /\ secrets' = secrets \ {r} \/ (CFails("vault") /\ UNCHANGED secrets)
  /\ CGoto(r, "done")
  /\ UNCHANGED <<stored, status, activated, code, ranswer, retried, cfaults>>

-----------------------------------------------------------------------------
(* retryActivation.                                                        *)

IsStored(r) == \E h \in Holders : stored[h] = r

\* What readKV returns: the body of KV version 2, with the secret in data.data.
KVBody(r) == [data |-> [data |-> [pan |-> r, pinblock |-> r], metadata |-> r]]
\* getPan of the card adapter looks one level higher than getPinblock.
GetPan(r) ==
  IF r \in secrets /\ "pan" \in DOMAIN KVBody(r).data THEN KVBody(r).data.pan ELSE NoCard

\* The handler reads the card and, when it is REGISTERED, its PAN.  As the PAN
\* is never found the rest of the handler is not reached.
Retry(q, r) ==
  /\ ranswer[q] = "none"
  /\ retried' = [retried EXCEPT ![q] = r]
  /\ \E a \in {"404", "403", "409", "500"} :
       /\ ranswer' = [ranswer EXCEPT ![q] = a]
       /\ \/ a = "404" /\ (~IsStored(r) \/ CFails("db"))
          \/ a = "403" /\ IsStored(r)
          \/ a = "409" /\ IsStored(r) /\ status[r] # "REGISTERED"
          \/ a = "500" /\ IsStored(r) /\ status[r] = "REGISTERED"
             /\ (GetPan(r) = NoCard \/ CFails("vault"))
  /\ UNCHANGED <<stored, status, outside, creq, cfaults>>

-----------------------------------------------------------------------------

\* The process stops: the clients in flight get no answer, nothing is undone.
CCrash ==
  /\ CFails("crash")
  /\ cpc' = [r \in Registrations |-> IF cpc[r] = "idle" THEN "idle" ELSE "done"]
  /\ canswer' = [r \in Registrations |-> IF cpc[r] \in {"idle", "done"} THEN canswer[r] ELSE "lost"]
  /\ UNCHANGED <<stored, status, outside, holder, code, ranswer, retried, cfaults>>

CNext ==
  \/ \E r \in Registrations :
       CheckHolder(r) \/ SaveSecrets(r) \/ Verify(r) \/ Create(r) \/ Rollback(r)
  \/ \E q \in Retries, r \in Registrations : Retry(q, r)
  \/ CCrash

CSpec == CInit /\ [][CNext]_cvars

-----------------------------------------------------------------------------
(* Properties.                                                             *)

\* A stored card has its PAN and PIN block in Vault, whichever registrations
\* for the same holder fail or are rolled back, and wherever the process stops.
\* A create that throws after storing the card is the exception.
StoredCardHasSecrets ==
  ~CFails("db") => \A h \in Holders : stored[h] # NoCard => stored[h] \in secrets

\* No secrets of a card that does not exist stay in Vault, as long as the
\* process does not stop and Vault does what it is asked.
NoSecretsLeftBehind ==
  ~CFails("vault") /\ ~CFails("crash") =>
    \A r \in secrets : cpc[r] \in {"verify", "create", "rollback"} \/ stored[holder[r]] = r

\* Of all registrations for a holder the one that was answered 201 has the
\* card, an ACTIVE card was activated by the issuer, and without failures who
\* has the card was told so.
AnswersMatchCards ==
  \A r \in Registrations :
    /\ cpc[r] = "done" /\ canswer[r] = "201" => stored[holder[r]] = r
    /\ stored[holder[r]] = r /\ status[r] = "ACTIVE" => r \in activated
    /\ stored[holder[r]] = r /\ cfaults \subseteq {"vault", "lostReply"} => canswer[r] = "201"
=============================================================================
