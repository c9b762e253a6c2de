-------------------------------- MODULE Tenants --------------------------------
(***************************************************************************)
(* Tenants (tenant.service.ts, tenant-oauth2-credentials.service.ts): the  *)
(* creation, which puts a PAN and a client secret in Vault, a document in  *)
(* Mongo and an entry in the history, one after the other and without a    *)
(* rollback; and the requests that change a tenant: a transition of its    *)
(* state, a new client secret, another email, the webhook.                 *)
(*                                                                         *)
(* A tenant is named by the request that creates it, whose uuid it has; a  *)
(* secret by the request that makes it.  The version number stored with a  *)
(* secret is left out: nothing is decided by it.                           *)
(***************************************************************************)

CONSTANTS
  Creations,    \* POST /tenants requests
  Changes,      \* requests about a tenant
  Emails,
  NoValue,
  TenantFaults

ASSUME TenantAssumption ==
  /\ Creations \cap Changes = {} /\ NoValue \notin Creations \cup Changes \cup Emails
  /\ TenantFaults \subseteq SUBSET {"db", "vault", "crash"}

Statuses == {"PENDING_REVIEW", "MORE_DATA_REQUESTED", "APPROVED", "ACTIVE", "SUSPENDED", "REJECTED"}
Fields == {"url", "events"}

VARIABLES
  tenants,   \* the tenants collection
  state,     \* status of a tenant
  email,     \* its email
  webhook,   \* who last set each field of its webhook
  pans,      \* tenants whose PAN is in Vault
  secret,    \* the client secret in Vault, or NoValue
  trail,     \* tenant_lifecycle: entries of creations and transitions
  tpc,       \* where each request is
  tanswer,
  tenant,    \* the tenant of a change under way
  local,     \* what it goes on with: the transition, the new email, or the webhook it read
  tfaults    \* the failures of this behaviour; never changes

tdocs == <<tenants, state, email, webhook>>
creds == <<pans, secret>>
wish == <<tenant, local>>
tvars == <<tdocs, creds, trail, tpc, tanswer, wish, tfaults>>

TRequests == Creations \cup Changes
Setters == [Fields -> TRequests]
Entry(c, r, from, to) == [tenant |-> c, by |-> r, from |-> from, to |-> to]
Entries == [tenant : Creations, by : TRequests, from : Statuses, to : Statuses]

TTypeOK ==
  /\ tenants \in SUBSET Creations
  /\ state \in [Creations -> Statuses]
  /\ email \in [Creations -> Emails \cup {NoValue}]
  /\ webhook \in [Creations -> Setters]
  /\ pans \in SUBSET Creations
  /\ secret \in [Creations -> TRequests \cup {NoValue}]
  /\ trail \in SUBSET Entries
  /\ tpc \in [TRequests -> {"idle", "pan", "secret", "create", "entry", "link", "transition",
                            "record", "rotate", "touch", "email", "webhook", "get", "done"}]
  /\ tanswer \in [TRequests -> {"none", "200", "201", "202", "404", "406", "409", "500", "lost"}]
  /\ tenant \in [Changes -> Creations \cup {NoValue}]
  /\ local \in [Changes -> Entries \cup Emails \cup Setters \cup {NoValue}]
  /\ tfaults \in TenantFaults

TInit ==
  /\ tenants = {} /\ pans = {} /\ trail = {}
  /\ state = [c \in Creations |-> "PENDING_REVIEW"]
  /\ email = [c \in Creations |-> NoValue]
  /\ webhook = [c \in Creations |-> [f \in Fields |-> c]]
  /\ secret = [c \in Creations |-> NoValue]
  /\ tpc = [r \in TRequests |-> "idle"]
  /\ tanswer = [r \in TRequests |-> "none"]
  /\ tenant = [q \in Changes |-> NoValue]
  /\ local = [q \in Changes |-> NoValue]
  /\ tfaults \in TenantFaults

TFails(service) == service \in tfaults
TGoto(r, l) == tpc' = [tpc EXCEPT ![r] = l] /\ UNCHANGED tanswer
TAnswer(r, a) == tpc' = [tpc EXCEPT ![r] = "done"] /\ tanswer' = [tanswer EXCEPT ![r] = a]

-----------------------------------------------------------------------------
(* createTenant.                                                           *)

Taken(e) == \E c \in tenants : email[c] = e

\* findByEmail, where a failing read is like finding none, and the code of the
\* tenant, a number from a sequence.
CheckEmail(c) ==
  /\ tpc[c] = "idle"
  /\ \E e \in Emails :
       /\ email' = [email EXCEPT ![c] = e]
       /\ \/ Taken(e) /\ TAnswer(c, "409")
          \/ (~Taken(e) \/ TFails("db")) /\ TGoto(c, "pan")
          \/ TFails("db") /\ TAnswer(c, "500")
  /\ UNCHANGED <<tenants, state, webhook, creds, trail, wish, tfaults>>

PanStored(c) == pans' = pans \cup {c}

\* savePan, which also refuses a PAN that is not of 13 to 19 digits.
SavePan(c) ==
  /\ tpc[c] = "pan"
  /\ \/ PanStored(c) /\ TGoto(c, "secret")
     \/ TAnswer(c, "500") /\ UNCHANGED pans
     \/ TFails("vault") /\ TAnswer(c, "500") /\ PanStored(c)
  /\ UNCHANGED <<tdocs, secret, trail, wish, tfaults>>

StoreSecret(c, r) == secret' = [secret EXCEPT ![c] = r]

\* Mutant: the secret is saved, but not waited for.
SaveSecretOrNot(c) ==
  /\ tpc[c] = "secret"
  /\ StoreSecret(c, c) \/ (TFails("vault") /\ UNCHANGED secret)
  /\ TGoto(c, "create")
  /\ UNCHANGED <<tdocs, pans, trail, wish, tfaults>>

\* saveOAuth2ClientSecret; a failure is answered and leaves the PAN in Vault.
SaveSecret(c) ==
  /\ tpc[c] = "secret"
  /\ \/ StoreSecret(c, c) /\ TGoto(c, "create")
     \/ TFails("vault") /\ TAnswer(c, "500") /\ (StoreSecret(c, c) \/ UNCHANGED secret)
  /\ UNCHANGED <<tdocs, pans, trail, wish, tfaults>>

\* create, which throws when another tenant has the nit; the index on email is not unique.
CreateTenant(c) ==
  /\ tpc[c] = "create"
  /\ \/ tenants' = tenants \cup {c} /\ TGoto(c, "entry")
     \/ TAnswer(c, "500") /\ UNCHANGED tenants
     \/ TFails("db") /\ TAnswer(c, "500") /\ tenants' = tenants \cup {c}
  /\ UNCHANGED <<state, email, webhook, creds, trail, wish, tfaults>>

Creation(c) == Entry(c, c, "PENDING_REVIEW", "PENDING_REVIEW")

\* findById of the creator and the first entry of the history.
RecordCreation(c) ==
  /\ tpc[c] = "entry"
  /\ \/ trail' = trail \cup {Creation(c)} /\ TGoto(c, "link")
     \/ TFails("db") /\ TAnswer(c, "500") /\ (trail' = trail \cup {Creation(c)} \/ UNCHANGED trail)
  /\ UNCHANGED <<tdocs, creds, wish, tfaults>>

\* addTenantIdToUser changes active users only; what it did is not looked at,
\* and the user's document is not modelled here.
LinkCreator(c) ==
  /\ tpc[c] = "link"
  /\ TAnswer(c, "201") \/ (TFails("db") /\ TAnswer(c, "500"))
  /\ UNCHANGED <<tdocs, creds, trail, wish, tfaults>>

-----------------------------------------------------------------------------
(* Changes.  Each reads the tenant and goes on with what it read; a failing *)
(* read is like finding none.                                              *)

Begin(q, c, l, v) ==
  /\ TGoto(q, l)
  /\ tenant' = [tenant EXCEPT ![q] = c] /\ local' = [local EXCEPT ![q] = v]
Keep(q, l) == TGoto(q, l) /\ UNCHANGED wish
End(q, a) ==
  /\ TAnswer(q, a)
  /\ tenant' = [tenant EXCEPT ![q] = NoValue] /\ local' = [local EXCEPT ![q] = NoValue]

\* The tenant is not there, or the read failed.
NotFound(q) ==
  /\ tpc[q] = "idle"
  /\ tenants # Creations \/ TFails("db")
  /\ End(q, "404")
  /\ UNCHANGED <<tdocs, creds, trail, tfaults>>

IsValidStateTransition(from, to) ==
  to \in CASE from = "PENDING_REVIEW" -> {"APPROVED", "MORE_DATA_REQUESTED", "REJECTED"}
           [] from = "MORE_DATA_REQUESTED" -> {"APPROVED", "ACTIVE", "REJECTED", "SUSPENDED"}
           [] from = "APPROVED" -> {"ACTIVE", "SUSPENDED"}
           [] from = "SUSPENDED" -> {"ACTIVE", "APPROVED"}
           [] from = "ACTIVE" -> {"SUSPENDED"}
           [] from = "REJECTED" -> {}

\* transitionTenantState up to the check.
TransitionFind(q) ==
  /\ tpc[q] = "idle"
  /\ \E c \in tenants, s \in Statuses :
       \/ /\ IsValidStateTransition(state[c], s)
          /\ Begin(q, c, "transition", Entry(c, q, state[c], s))
       \/ ~IsValidStateTransition(state[c], s) /\ End(q, "406")
  /\ UNCHANGED <<tdocs, creds, trail, tfaults>>

Moved(q) == state' = [state EXCEPT ![tenant[q]] = local[q].to]

\* updateStatus, whatever the state is by now.
TransitionWrite(q) ==
  /\ tpc[q] = "transition"
  /\ \/ Moved(q) /\ Keep(q, "record")
     \/ TFails("db") /\ End(q, "500") /\ (Moved(q) \/ UNCHANGED state)
  /\ UNCHANGED <<tenants, email, webhook, creds, trail, tfaults>>

\* findById of the user and the entry in the history.
TransitionRecord(q) ==
  /\ tpc[q] = "record"
  /\ \/ trail' = trail \cup {local[q]} /\ End(q, "200")
     \/ TFails("db") /\ End(q, "500") /\ (trail' = trail \cup {local[q]} \/ UNCHANGED trail)
  /\ UNCHANGED <<tdocs, creds, tfaults>>

\* regenerateSecret finds the tenant of the user.
SecretFind(q) ==
  /\ tpc[q] = "idle"
  /\ \E c \in tenants : Begin(q, c, "rotate", NoValue)
  /\ UNCHANGED <<tdocs, creds, trail, tfaults>>

\* rotateOAuth2ClientSecret replaces the secret.
SecretRotated(q) == StoreSecret(tenant[q], q)
SecretRotate(q) ==
  /\ tpc[q] = "rotate"
  /\ \/ SecretRotated(q) /\ Keep(q, "touch")
     \/ TFails("vault") /\ End(q, "500") /\ (SecretRotated(q) \/ UNCHANGED secret)
  /\ UNCHANGED <<tdocs, pans, trail, tfaults>>

\* updateOAuth2Credentials writes the client id it read: only its failure counts.
SecretTouch(q) ==
  /\ tpc[q] = "touch"
  /\ End(q, "202") \/ (TFails("db") /\ End(q, "500"))
  /\ UNCHANGED <<tdocs, creds, trail, tfaults>>

\* updateTenant: findById and, for a new email, findByEmail.
EmailFind(q) ==
  /\ tpc[q] = "idle"
  /\ \E c \in tenants, e \in Emails :
       \/ (e = email[c] \/ ~Taken(e) \/ TFails("db")) /\ Begin(q, c, "email", e)
       \/ e # email[c] /\ Taken(e) /\ End(q, "409")
  /\ UNCHANGED <<tdocs, creds, trail, tfaults>>

\* update, which throws too when it is given a nit that another tenant has.
Renamed(q) == email' = [email EXCEPT ![tenant[q]] = local[q]]
EmailWrite(q) ==
  /\ tpc[q] = "email"
  /\ \/ Renamed(q) /\ End(q, "200")
     \/ End(q, "500") /\ UNCHANGED email
     \/ TFails("db") /\ End(q, "500") /\ Renamed(q)
  /\ UNCHANGED <<tenants, state, webhook, creds, trail, tfaults>>

\* updateTenantCredentialsByUser reads the whole webhook ...
WebhookFind(q) ==
  /\ tpc[q] = "idle"
  /\ \E c \in tenants : Begin(q, c, "webhook", webhook[c])
  /\ UNCHANGED <<tdocs, creds, trail, tfaults>>

\* ... and writes the whole webhook, with the fields it was given.
WebhookWrite(q) ==
  /\ tpc[q] = "webhook"
  /\ \E given \in SUBSET Fields :
       LET new == [f \in Fields |-> IF f \in given THEN q ELSE local[q][f]]
           Written == webhook' = [webhook EXCEPT ![tenant[q]] = new] IN
       \/ Written /\ End(q, "200")
       \/ TFails("db") /\ End(q, "500") /\ (Written \/ UNCHANGED webhook)
  /\ UNCHANGED <<tenants, state, email, creds, trail, tfaults>>

\* getTenantById: without the PAN, getValue throws.
GetFind(q) ==
  /\ tpc[q] = "idle"
  /\ \E c \in tenants : Begin(q, c, "get", NoValue)
  /\ UNCHANGED <<tdocs, creds, trail, tfaults>>

GetAnswer(q) ==
  /\ tpc[q] = "get"
  /\ \/ tenant[q] \in pans /\ End(q, "200")
     \/ (tenant[q] \notin pans \/ TFails("vault")) /\ End(q, "500")
  /\ UNCHANGED <<tdocs, creds, trail, tfaults>>

-----------------------------------------------------------------------------

\* The process stops: nothing is undone, nothing is taken up again.
TCrash ==
  /\ TFails("crash")
  /\ tpc' = [r \in TRequests |-> IF tpc[r] = "idle" THEN "idle" ELSE "done"]
  /\ tanswer' = [r \in TRequests |-> IF tpc[r] \in {"idle", "done"} THEN tanswer[r] ELSE "lost"]
  /\ tenant' = [q \in Changes |-> NoValue] /\ local' = [q \in Changes |-> NoValue]
  /\ UNCHANGED <<tdocs, creds, trail, tfaults>>

TNext ==
  \/ \E c \in Creations :
       \/ CheckEmail(c) \/ SavePan(c) \/ SaveSecret(c) \/ CreateTenant(c)
       \/ RecordCreation(c) \/ LinkCreator(c)
  \/ \E q \in Changes :
       \/ NotFound(q)
       \/ TransitionFind(q) \/ TransitionWrite(q) \/ TransitionRecord(q)
       \/ SecretFind(q) \/ SecretRotate(q) \/ SecretTouch(q)
       \/ EmailFind(q) \/ EmailWrite(q) \/ WebhookFind(q) \/ WebhookWrite(q)
       \/ GetFind(q) \/ GetAnswer(q)
  \/ TCrash

TSpec == TInit /\ [][TNext]_tvars

-----------------------------------------------------------------------------
(* Properties.                                                             *)

\* The PAN and a client secret are in Vault; and, unless a write failed, the secret is one
\* its owner was given or is about to be.
HasSecrets(c) ==
  /\ c \in pans /\ secret[c] # NoValue
  /\ tfaults = {} /\ secret[c] \in Changes =>
       tpc[secret[c]] = "touch" \/ tanswer[secret[c]] = "202"

\* An entry of the history leads to the state, and each entry starts where another one
\* ended.
IsExplained(c) ==
  LET mine == {h \in trail : h.tenant = c} IN
  /\ \E h \in mine : h.to = state[c]
  /\ \A h \in mine : \E g \in mine : g.to = h.from

\* A tenant that exists can be read, wherever its creation or a rotation failed or
\* stopped; and, once nothing is under way and nothing failed, its history explains its
\* state, also when transitions have overtaken each other.
TenantsAreWhole ==
  \A c \in tenants :
    /\ HasSecrets(c)
    /\ tfaults = {} /\ (\A r \in TRequests : tpc[r] \notin {"entry", "record"}) => IsExplained(c)

\* What the comment on the state machine allows.
DocumentedTransition(from, to) ==
  to \in CASE from = "PENDING_REVIEW" -> {"MORE_DATA_REQUESTED", "APPROVED", "REJECTED"}
           [] from = "MORE_DATA_REQUESTED" -> {"APPROVED", "ACTIVE", "REJECTED", "SUSPENDED"}
           [] from = "APPROVED" -> {"SUSPENDED", "ACTIVE"}
           [] from = "ACTIVE" -> {"SUSPENDED"}
           [] from = "SUSPENDED" -> {"ACTIVE"}
           [] from = "REJECTED" -> {}

\* The status of a tenant moves only as that comment says: a rejected one stays rejected, a
\* suspended one can only be activated.
FollowsTenantMachine ==
  [][\A c \in tenants : state'[c] # state[c] => DocumentedTransition(state[c], state'[c])]_tvars
=============================================================================
