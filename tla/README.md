# A TLA+ model of the classical payment server

The repository is a NestJS server of a card payment gateway. Merchants (tenants)
create transactions, customers pay them with a registered card, by QR code or by
NFC, and the server moves the money by calling the SGT, the issuer's switch. It
keeps its documents in MongoDB, short-lived keys in Redis and secrets in
HashiCorp Vault, and runs in one Node process.

This directory holds TLA+ modules for the parts whose order of events matters,
configurations that model-check them with TLC, and proofs checked by TLAPS.
`PROJECT.json` lists the components with what of each is modelled, the runs, the
mutants that show each property can fail, the lines of code each definition
stands for, the hazards and the theorems.

## Inventory

| part | state | operations | what is hard | what makes it correct |
|---|---|---|---|---|
| Transactions (`transactions/`) | `transactions` collection, `transaction_sequences` | create, confirm, cancel, expire (cron) | handlers check a status they read and write later, unconditionally; the process may stop half way | one transaction per intent; paid once; a status that agrees with the money; nobody left waiting |
| Payment processor, SGT adapter | none of its own: the document, the card's balance, the switch | processPayment, failAndReturn, transfer | lost and late answers, failures after the money moved | success only when charged; every exit announces |
| Socket notifier, gateway | connected clients, rooms | three event handlers, sendToRoom, join | events and stored state seen at different times | the payer's room hears the outcome |
| Queries, dashboards | none | pages of lists, figures of a period | reads side by side, while documents are stored and change state | nothing skipped; figures that add up |
| NFC enrolment | enrolment document, seed in Vault, counter in Redis | enrol, revoke, status | three stores changed one after the other | an active enrolment can pay; a revoked one cannot |
| NFC payments | session and mapping in Redis | prepare, authorise | the same token presented twice, expiry, two writes side by side after the payment | one payment per token |
| Cards | card document, PAN and PIN block in Vault | register, retry activation, query | a saga over Vault, SGT and Mongo with a rollback | an active card has its secrets |
| Vault client | token, lease | login, renew, KV operations | one-time wrapped secret, concurrent logins | a valid token whenever Vault is reachable |
| Devices | key documents, key history, private keys in Vault | exchange, weekly rotation | a limit checked before it is used up; keys in two stores | the key a phone uses is in Vault; no more devices than allowed |
| Accounts (`auth/`, `users/`) | user document, codes and counters in Redis | register, confirm, resend, forgot, reset, login; create, transition, roles, passwords | read-then-set counters; a transition checked on a stale read | limits hold; a code works once; disabled is for good |
| Sessions (`auth/`) | entry in Redis, documents in Mongo | login, refresh, scheduler | two stores; a document marked by its user alone | a working session is not marked expired |
| Signing keys, tokens (`auth/`) | keys in memory and in Vault, ids of used tokens in memory | start, rotate, sign, verify | all keys written as one document; a timer and callers; a registry a restart empties | a token is good while it and its key live; an access token passes `verify` once |
| Tenants | document, its history, PAN and client secret in Vault | create, transition, credentials, email, webhook, read | two stores without a rollback; history written afterwards | a tenant is whole; its history explains its state |
| Terminals, OAuth | terminal and OAuth client | create, suspend, reactivate, revoke, rotate, delete; tokens | two documents that must agree | the client follows the terminal; a revoked one stays so |
| Roles, permissions | roles, cached permissions | resolve, update | a cache that is never cleared and does not read back what was stored | a permission taken away stops working |
| Modules, navigation | ordered modules, list in memory | create, update, disable, reorder, read | a list read before a write and kept after it | the list is the one stored |
| Audit | events, answers | log, save, update with the answer | the answer is written later, to the events of an id the client may send again | an event shows its own request's answer |
| Bootstrap, seeds, routes | modules, roles, users | three phases at start | processes side by side, a stop half way; permissions in three files | seeds that fit together; a menu that leads somewhere |

They interact by calls (the controllers call one service, services call
repositories and adapters), by domain events on an in-process emitter
(`transaction.*` to the notifier and the dispatcher), by shared documents
(`cardId`, `tenantId`, the user), and by timers (expiration of transactions every minute,
sessions every hour, device keys every week, signing keys every day). Node runs one
callback at a time; the concurrency is between the awaits.

## Modules

Every module has one variable per piece of state the code keeps, one action per
stretch of code between two awaits, and a program counter per request, whose
values are named for what the request does next. `faults` (`cfaults`, `dfaults`, ...) is
chosen once, at the start, and says which kinds of failure a behaviour may meet:
`db`, `redis` and `vault` mean that a call to that store may throw, having taken
effect or not, `crash` that the process may stop and start again. Properties that need a
calm world say so with `faults = {}`. Variables marked "history" are read by properties
only.

| module | models |
|---|---|
| `Payments` | confirm, cancel, the processor, the expiration cron and the notifier on stored transactions |
| `PaymentContract` | what Payments promises about money, in six actions; `KeepsContract` says Payments implements it |
| `Commissions` | the split of an amount into settlement and commission |
| `TransactionCreation` | POST /transactions: look-up, number, insert, event, both answers, and the amounts that later go to the SGT |
| `NfcEnrollment`, `NfcPayments` | enrol and revoke for one card over Mongo, Vault and Redis; prepare, authorise and the expiry of keys |
| `CardRegistration` | the saga that registers a card over Vault, the SGT and Mongo, and the retry of an activation |
| `VaultClient` | the token of the Vault client: renewal, login, the wrapped secret, HTTP calls under way |
| `DeviceKeys` | the key exchange of a device and the weekly rotation, over Mongo and Vault |
| `Tenants` | creation and changes of a tenant, over Mongo, Vault and the history |
| `Accounts` | one phone's account: registration, codes, passwords, login, administration |
| `Sessions` | one user's sessions: login, refresh, the scheduler, over Redis and Mongo |
| `SigningKeys` | the keys in memory and in Vault, rotation, sign, the guards, verify with the registry of used tokens, restart |
| `Terminals` | terminals, their OAuth clients, and the clients' tokens |
| `Permissions` | one user's permissions: roles, the entry in Redis, the guard |
| `Menu` | the modules, the list of them in memory, and reorder |
| `Listings` | the lists of the API, page by page, and the reads of one listed document |
| `Dashboard` | extends it with the figures of a period |
| `Catalog`, `Routes` | the seeds of modules and roles, and the menu they give; every route with its guards and the permission it needs |
| `Bootstrap` | extends them with the start of processes that fill empty collections |
| `Audit` | the audit trail of a request |
| `MCPayments`, `MCNfcPayments`, `MCSecrets`, `MCAccounts`, `MCRecords` | instances for TLC, with symmetry |
| `PaymentsProofs`, `NfcPaymentsProofs`, `TenantsProofs` | theorems about the modules they are named for |
| `RecordsProofs` | theorems about `TransactionCreation`, `Listings`, `Dashboard`, `Bootstrap`, `Audit` |
| `SecretsProofs` | theorems about `CardRegistration`, `VaultClient`, `DeviceKeys` |
| `AuthProofs`, `AdministrationProofs` | theorems about `SigningKeys`, `Sessions`, `Permissions`; about `Terminals`, `Menu` |
| `AccountsProofs` | theorems about `Accounts`, and about the composition in `MCAccounts` |

`MCSecrets`, `MCAccounts` and `MCRecords` each put several modules into one run. The modules of
one run share no variable (but for `Dashboard`, which reads the collection of `Listings`), so a
behaviour follows one of them, named by the variable `part`, and the others stay as they
started: the run explores the sum of their states and not the product.

### Payments

`status`, `cardId`, `customerId` and `sgtCode` are the fields of the document;
`calls` and `paidBy` are what the SGT saw and did; `notices` are emitted events
whose handler has not finished; `pushed` is what the room was sent. A confirm
goes through `mark` (the PROCESSING write), `card`, `secrets`, `transfer`,
`settle`, `balance`, and one of the two `tell` steps. `UpdateStatus` overwrites,
as `findOneAndUpdate({ id })` does. The faults are `lostReply` (the SGT's answer
is lost, comes late, or says the issuer was not reached although the money moved),
`db` (any Mongo call throws, having taken effect or not) and `crash`.

The SGT is modelled from how the code uses it: it is sent `TXN-<transactionId>`
as its anti-replay reference, so it executes one transfer per transaction. That is
the one assumption about an outside party on which "charged once" rests.

The card and the user of a confirm are named after the request. Left out: audit
records, log lines, the wording of answers, the values of the balance.

### Transaction creation

A document is named by the request that inserted it. `Blockers` are the documents
that the two unique indexes hold against an insert. Amounts are in centavos in
the store and the request; the amount of an answer is kept in hundredths of a
centavo because the code returns it in two units (see Findings).

### NFC

One card, because everything the two services share is keyed by the card. A
session is named by the prepare that made it, a token by its session and the
enrolment whose seed signed it: signature verification is equality of seeds. A
terminal may present any token the phone could have made, any number of times.
The finally block of `authorizePayment` runs `markSessionUsed` and
`updateEnrollmentCounter` with `Promise.allSettled`, so `MarkRead`, `MarkWrite` and
`Bump` interleave. `Expire` may drop a session or the mapping at any time.
`processPayment` is an outcome here; `Payments` looks inside. Likewise a confirm or
a cancel that names the transaction of a tap belongs to `Payments`. The counter of the Mongo
document never leaves -1, as nothing calls `incrementCounter`.

### Cards

`registerCard` is `CheckHolder`, `SaveSecrets`, `Verify`, `Create`, and `Rollback` where
the code calls `rollbackVaultSecrets`; its answer is fixed before the rollback and
given after it. A card is named by its request, whose uuid it has. `secrets` are the
cards in Vault, `activated` those whose PIN the issuer activated, `stored` the
collection under its unique index on user and card type. The SGT answers with one of
the five activation codes, or its answer is lost. `retryActivation` is modelled up to
`getPan`, which never finds a PAN: nothing behind that line is reached (see Findings). The
faults are `db`, `vault`, `lostReply` and `crash`.

### Vault client

Each KV call asks `getToken`, which may renew the token or log in, with an unwrap
first when the secret is wrapped. An HTTP call is sent, handled by Vault, and its
answer taken up, and other KV calls run in between, so two calls may renew and log in
at once and write `token` and `tokenExpire` in any order. A token is named by the KV
call whose login it came from. `VAULT_TOKEN` is set, as `config.schema.ts`
requires, so the client starts with a token it trusts for a day and then
logs in by AppRole. Time is in units of the HTTP timeout (5 s); the code's window of
300 s and lease of 3600 s satisfy what the module assumes, a window of at least three
timeouts and a longer lease. Vault grants the lease its answer names. The fault is a
call or an answer that is lost.

### Devices

A key is named by the exchange or rotation that generates it. An exchange is `CountDevices`,
`FindDevice`, `StorePrivateKey`, `RecordExchange` and one of `UpdateDevice` and `CreateDevice`;
the cron takes up one device after the other with `RotateFind`, `RotateStore`, `RotateMark`,
`RotateRecord` and `RotateCreate`. The create of a rotation violates the unique index on the
device, so a rotation leaves the document ROTATED with the key it had. `unseen` and
`lapped` remember which exchanges counted devices before another exchange wrote.
`DeviceOwnershipGuard` looks for `request.user.id`, which an Actor does not have, so
revocation, the rotation a user asks for and the reads of one device answer 403 always.

### Tenants

A creation is `CheckEmail`, `SavePan`, `SaveSecret`, `CreateTenant`, `RecordCreation` and
`LinkCreator`, with no way back from any of them. A transition reads the state, is
checked against the table of `tenant.state-machine.ts` (`IsValidStateTransition`; the comment above that
table, which says something else, is `DocumentedTransition`), writes with `findOneAndUpdate({ id })`
and then adds to the history. `regenerateSecret` replaces the secret in Vault before it
touches the document. The webhook is one subdocument, which each writer merges from what
it read. A secret is named by the request that made it, so "its owner was given it" is an
equality.

### Accounts

One phone, because every document and key of `Accounts` belongs to one. A code is
named by the request that generated it. The code service is `ValidateCode`,
`ValidateAttempts`, `CountAttempt`, `ClearCode` and `ForgetAttempts`: reads and
writes of Redis with other requests in between. `CodeExpires` and `AttemptsExpire` drop the keys, in
the order their times to live allow. `plain` says that a password was stored as it came, which
`RegisterAgain` does. What administrators do to the same document (`AdminCreate`, `TransitionWrite`,
`RolesWrite`, `SetPassword`, `DisableUser`) races with it.

### Sessions and signing keys

A refresh token lives seven days, the key that signs it one day and `getKey` answers none
after that: `Sessions` has the long life, `SigningKeys` the short one, and in neither does a
refresh owe the user a success. A document is named by its login. The scheduler lists the expired
documents (`FindExpiredSessions`) and marks, for each, the first ACTIVE document of the same
user (`ExpireSession`). Keys are in memory (with the kid of the active one) and in one Vault
document; a rotation takes a copy of the keys, waits, and writes the copy (`SaveKeysToVault`). `sign`
asks for the active key and later for the private key of whichever key is active then; it also puts the new
token's jti into the registry (`Sign`), which is in memory and so is empty after a restart (`Stops`). The guards
of requests (`GuardAccepts`) look at the key, the signature and the expiry. `verify`, which only the refresh
calls, does so with a clock tolerance, and then refuses an access token whose jti the registry has and
registers the others (`VerifyToken`, `RegisterJti`): so the process that signed an access token never
accepts it there, and an earlier one's it accepts once. An entry of an expired token counts for nothing, so within the
tolerance such a token may pass again ("late"). Refresh tokens are not registered by `verify`. The claims kept are
`type` and `exp`; `iss` and `aud` come from the configuration, which a behaviour does not change.

### Terminals

A client is named by the creation or rotation that made it. Each operation reads the
terminal (`Resolve`), changes the client and then the terminal, without a condition on
either write. `crossed` remembers the terminals that had two operations under way. The routes of
administrators differ in the states they accept, as in the code.

### Permissions and menu

Of one permission a role gives nothing, the permission or its module's wildcard, or the global
wildcard. What the entry grants after `JSON.stringify` and `JSON.parse` is what is
modelled: only the flag of the global wildcard survives. `Menu` keeps the list as the
orders of the active modules; `SendUpdates` and `UpdateArrives` are the parallel
updates of a reorder, which may land in any order and fail one by one.

### Lists and figures

`Walks` has, for every list, whether its page is a find and a count, where a page starts, and which
documents its filter leaves out; one client walks one list while documents are
stored and change state. Figures are the sets of transactions they count: the volume is
read like the count and is left out, and so are the figures of other collections.

### Bootstrap, seeds and routes

`Catalog` and `Routes` are data taken over from the sources: the modules, the roles
with their grants, and the routes in the order in which the controllers are tried. They are
checked against each other: `NoneIsHidden` (no list is behind an earlier route with a
parameter) and `LeadsOn` (a role that is offered a module in the menu may read the list
behind it, for the lists whose module and permission the code relates). `Bootstrap` fills
the collections document by document in two processes that start, fail and stop.

### Audit

An event is saved in the background; the answer is captured after it was sent and, `Delay`
later, written to the `Latest` most recent events with its request id that are no older than
`Window` and have no answer. The request id is the client's `x-request-id`, if it
is a UUID, and may be sent again.

## Runs

| run | instance | shows |
|---|---|---|
| `payments_safety` | 1 transaction, 2 confirms, 1 cancel, 1 tick; no fault, or all | eight properties of `Payments` |
| `payments_live` | 1 transaction, 2 confirms, 1 tick; no fault, or lost answers | requests are answered, transactions closed, rooms told |
| `payments_state_machine` | 1 confirm, 1 cancel | violation: the stored status leaves the documented machine |
| `records` | creation: 3 requests, 2 tenants, 1 intent, amounts 19 and 60. Lists and figures: 3 documents (figures of 2), 2 states, pages of 2. Start: 2 processes, 2 starts, 1 failing write. Audit: 2 calls of 2 events | two properties of `TransactionCreation`, one each of `Listings`, `Dashboard`, `Bootstrap` and `Audit` |
| `nfc` | 2 enrols, 1 revoke, 2 prepares, 2 presentations; at most 6 started without faults, 4 with | six properties of `NfcPayments` |
| `nfc_approved` | 1 enrol, 1 prepare, 2 presentations | violation: approved without a payment |
| `re_enrolment` | 2 enrols, no fault | violation: the second ends in 500 and the card has no enrolment left |
| `secrets` | cards: 3 registrations for 2 holders, 1 retry. Client: 3 KV calls over 8 timeouts, lease 4, window 3, first token 4. Devices: 3 exchanges, 1 rotation, 2 devices, 2 owners, limit 1. Tenants: 2 creations, 2 changes, 2 emails | three properties of `CardRegistration`, one of `VaultClient`, two of `DeviceKeys`, one of `Tenants` |
| `tenant_transitions` | 1 creation, 3 changes, no fault | violation: overlapping transitions leave the documented machine |
| `accounts` | accounts: 3 requests, limits of 1. Terminals: 1 terminal, 2 operations, 1 token request. Keys: 2 rotations, 1 token, 2 verifications, key life 1, access life 0, refresh life 1, tolerance 1, 2 ticks. Sessions: 2 logins, 1 refresh, life 1, 3 days. Permissions: 2 roles, 2 checks, 1 change of roles, 1 minute. Menu: 3 modules, 1 change, 1 reorder, 1 reader | the types of all six, and nine properties of theirs |
| `reregistration` | 3 requests on one account | violation: the password of a second registration never logs in |
| `permissions_cached` | 2 checks by one user | violation: the entry in the cache grants less than was stored |

Why the bounds are enough. Transactions do not share state, except for the queue
of a tick and the sets of calls, which are indexed by transaction: one is enough,
and the proofs cover any number. Two confirms exhibit every race between writers
of the same kind; the cancel and the tick are the writers of other kinds. In the
NFC run two presentations are needed for a replay, two prepares for a shared counter
or a dropped session, two enrols for a replaced seed. `MostCalm` and `MostFaulty`
bound how many requests a behaviour starts (constraint `FewRequests`); 4 with
faults is enough for enrol, prepare and two presentations, or enrol, prepare,
presentation and revoke.

Three registrations for two holders have a race and a bystander; three KV calls have one
whose token is replaced while a second one renews it and a third uses it, and the
horizon leaves time for a first login, a renewal and a login after that. With a limit of one
device, two exchanges race for the place and a third is for the device of the other user;
the rotation adds the writer of the other kind. Two creations race for one email, two
changes are two transitions, or a transition and a new secret, of one tenant.

Three requests on an account are a registration, a guess, and the one that
overtakes it; with limits of one the second wrong guess is one too many. Two
operations on a terminal overlap or follow each other, and a token request comes between. Two rotations
overlap, or one comes before and one after a restart; with a life of one tick a key expires within
the run. Two verifications of one token are a use and its repetition, in one process or around a restart; an access token
that lives through its tick only is presented before its expiry, within the tolerance, and after it. Two logins overlap or follow each other around the expiry of the first one's
document. Two checks are one that fills the entry and one that finds it, while a role changes.
The group, its child and a module beside them are the shapes of a menu. Two pages of two
with three documents have a boundary that a new document moves. Two starts are a race
of two processes, or a stop half way and another start. Two calls may share an `x-request-id`.

`records` follows four of the eight lists, one of each kind: of a merchant's own, with documents dropped
from a page, with pages that are counted, and whole. The rows of `Walks` for the others have the shape of
one of these, and the proof is for all of them. All its
creations are for one intent, of two tenants, as those for different intents meet only in the number,
about which there is a proof. The parts share the names of their
requests, so that one symmetry serves them all.
`CHECK_DEADLOCK FALSE` everywhere: when every request has been spent, the model stops.

Fairness. The safety runs use none. `payments_live` uses weak fairness on each
step of a request that has started, of the cron and of the notifier, and on the
passing of the deadline: the event loop runs every pending continuation, the
HTTP client has a timeout, the cron fires every minute. Clients owe nothing: a
transaction need not be confirmed. Crashes and failing writes are excluded,
since the code has no recovery: a transaction left in PROCESSING stays there, and
an event lost with the process is not sent again. That absence is itself visible:
`ProcessingIsOwned` and `OutcomeIsAnnounced` hold only without these faults.

### The properties

`Payments`: `SuccessIsBacked` (booked or announced as paid only when charged),
`AnswersMatchCharges` (200 only to the payer), `ProcessingIsOwned` and
`OutcomeIsAnnounced` (nothing is left half done or untold), `FailedMeansUncharged`
(in a calm world, with one confirm), `NeverSentAgain` (a transaction that is
settled is not sent again, crash or not), `ClosedStaysClosed` (a final status with
no writer left never changes), `KeepsContract` (refinement), and in the live run
`EveryRequestIsAnswered`, `EveryTransactionIsResolved`, `OutcomeReachesTheRoom`.

`TransactionCreation`: `OneTransactionPerIntent`, `WireAddsUp`; and, stated and proved but in no
run, `NumbersNeverClash` and `CreationIsAnnounced`.

`NfcPayments`: `OneTapPerSession` (a token gets past its nonce once),
`SpentStaysSpent` (the read-then-write of markSessionUsed never refreshes a spent
session), `CounterCoversPayments`, `PaidIsApproved` (who paid is told so, unless
overtaken by a payment with at least the same counter), `EnrolledCardIsUsable`,
`RevokedCannotPay` (while the enrolment stays revoked nothing is paid with it).

`CardRegistration`: `StoredCardHasSecrets` and `NoSecretsLeftBehind` (the card in Mongo
and its secrets in Vault come and go together, as far as the rollback can), and
`AnswersMatchCards` (201 to the one who has the card; ACTIVE only when the issuer
activated it).

`VaultClient`: `TokenIsLive` (no KV call is sent with a token Vault has forgotten, however
renewals and logins overtake each other); `FailsOnlyUnwrapping` (while Vault answers, the only
failure is a wrapped secret that is used up) is proved only.

`DeviceKeys`: `DeviceKeysAreInVault` (the key a document names and every key a phone was given is
in Vault, in the middle of any exchange or rotation) and `DevicesWithinLimit` (the limit is
passed only by an exchange that missed another one's write, or was for somebody else's device).

`Tenants`: `TenantsAreWhole` (a tenant that exists has its PAN and its secret, and, when
nothing failed, a history with an entry for its state and one for whatever state an entry started from, also when
transitions overtook each other).

`Accounts`: `LimitsHold` (of guesses and resends, as long as they do not overlap), `CodesWorkOnce`
(a code that did its work is never compared again), `DisabledForGood` (registrations, resets and
transitions never bring a disabled user back).

`Terminals`: `ClientFollowsTerminal` (without failures and overlapping operations the two
documents agree, and so do all clients the terminal ever had) and `RevokedForever` (a revoked client
gets no token again).

`SigningKeys`: `TokensVerify`, which is `QuietTokensHold` (a token signed in quiet is accepted by the guards, and to refresh by
`verify`, until it or its key expires, across restarts) and `AccessTokensPassOnce` (`verify` accepts an access token at
most once in a process, and never in the one that signed it, until it expires; this under every fault). `Sessions`: `ExpiredCannotRefresh` (though the scheduler marks by user, no session
that still works is marked). `Permissions`: `GrantsEnd` (a permission taken away works for no
longer than the entry lives). `Menu`: `ListIsCurrent` (at rest the list in memory is the one stored).

`Listings`: `WalksMissNothing` (a client that goes to the last page has seen all that was there when
it began, and can open it). `Dashboard`: `FiguresAddUp` (the figures of one answer are of the
same transactions). `Bootstrap`: `SeedsFit` (whatever is stored when processes start side by side
and stop, menus open and lead on). `Audit`: `EventsShowAnswers` (no event shows an answer of another
request, but of one that used its id within the window).

Several of these exclude an interleaving by a precondition (`~lapped`, `~mixed`, `t \notin crossed`,
`~together`, `~torn`, `~overlapped`, `~stirred`, `~raced`). There the code does not keep the promise, and the hazard in `PROJECT.json` says what goes wrong. The property then says
that this interleaving is the only way, which is what a fix has to close. Two of these promises are documented:
`device-key.constants.ts:64-65` gives the maximum of devices per user as a security limit, and exchanges that overlap pass
it; `TENANTS_API.md:403-405` says that every transition of a tenant is registered, and one whose request fails or stops after the
write of the status is not. Likewise `FailedMeansUncharged`, `PaidIsApproved`, `EnrolledCardIsUsable`,
`ClientFollowsTerminal` and `ListIsCurrent` say nothing of a failing write, under which they do not hold.

Each property of a passing run has a mutant: a definition changed as a plausible
bug would change it, under which TLC finds the property violated.

## Findings

Where a document, comment or DTO says something else than the code does, a run
expects a violation:

1. `FollowsStateMachine`. The status is written without looking at the stored one;
   `transaction.state-machine.ts` is consulted by cancel on a stale read only. A
   confirm and a cancel that both read NEW take the document out of a final state.
2. `ReenrolmentSucceeds`. Enrolling an enrolled card revokes the old enrolment, and then the unique index on `cardId`
   refuses the new one: the card never has an enrolment again. The service and its test say that it gets a new one; the
   test mocks the repository.
3. `ApprovedMeansPaid`. A token presented again is answered approved, whatever
   became of the payment.
4. `FollowsTenantMachine`. A transition of a tenant is validated on a state read earlier: overlapping ones lead from
   REJECTED to APPROVED. The table also lets a suspended tenant be approved, which the comment above it
   (`tenant.state-machine.ts:21`) does not, and `TENANTS_API.md:279-283` knows no suspension.
5. `NewPasswordLogsIn`. A second registration of an unconfirmed phone stores the password
   as it came where an argon2 hash belongs; after the confirmation nobody can log in with it.
6. `EntryKeepsGrant`. The cached permissions hold two Sets, which JSON leaves empty: who got
   through a minute's first check is denied at the next, unless the wildcard is global.

Three more disagreements can be read off the code without a run:

- A retried creation is answered with the amount in units (`transaction.service.ts:83`), the first in centavos (`:181`);
  `transactions.dto.ts:131` says centavos. `AmountInAnswer` models it.
- `getPan` (`card-vault.adapter.ts:56`) looks for the PAN one level too high in the body of a KV version 2 read
  (`getPinblock` looks where it is), so a card left REGISTERED is never activated by a retry, against
  `card.controller.ts:212`. `GetPan` models it.
- A refresh token is documented as valid for seven days (`JWT_ISSUER_TROUBLESHOOTING.md:91`), and the key that signed it
  lives one: `getKey` answers none after that, and the refresh is refused.

Other facts seen while modelling, which no document contradicts:

- A transaction is booked FAILED although paid, after a lost answer, a failed balance update or a
  second confirm; its `cardId` is that of the last confirm, though another one's card paid.
- Two NFC sessions may have one counter; a failed Vault write passes.
- A wrapped Vault secret works for one login; every login unwraps it again.
- The roles of the seeds and the catalog of modules disagree: the Auditor has `audit.read` and
  `audit.export` where the catalog enables `audit.view` only, so the menu hides audit from it; the
  merchant is shown users, for `users.view`, but GET /users asks for `users.edit`.
- A boot that stops half way leaves collections that no later boot completes; if someone
  registers before a boot that did not store the super administrator is repeated, there never is one.
- `DeviceOwnershipGuard` refuses everybody; the controller of terminals for administrators has
  `@Permissions` and no `PermissionsGuard`; on a tenant's own routes `@Permissions` is commented out.
- confirm-phone and resend-code are not among the routes exempt from CSRF; the life of a CSRF token is
  given in milliseconds to a parameter in seconds.
- The webhook dispatcher filters one subdocument as if it were a list; the TypeError is
  caught and no webhook is ever sent.
- `hardDelete` of a module looks for an `_id` that no module has and answers 500.

## Proofs

TLC checks the instances above; TLAPS proves, for any sets of transactions, requests,
tenants, intents, amounts, devices, owners, terminals, clients, keys, sessions, roles, modules, documents
and processes, any limit, life and size of a page, and any combination of faults:

| module | theorem | property | says |
|---|---|---|---|
| `PaymentsProofs` | `TypeCorrect` | — | Every variable of Payments keeps its type, for any number of transactions, requests and ticks. |
| `PaymentsProofs` | `SuccessBacked` | `SuccessIsBacked` | No transaction is booked or announced as paid unless the SGT moved the money, under every interleaving and fault. |
| `PaymentsProofs` | `AnswersMatch` | `AnswersMatchCharges` | A 200 is given only to the confirm that was charged; without faults a charged one is never answered 422. |
| `PaymentsProofs` | `FailedUncharged` | `FailedMeansUncharged` | Without faults and with one confirm, FAILED means not charged, whatever cancel and the cron do. |
| `PaymentsProofs` | `ProcessingOwned` | `ProcessingIsOwned` | Without crashes and failing writes a transaction in PROCESSING has a confirm that will move it on. |
| `PaymentsProofs` | `OutcomeAnnounced` | `OutcomeIsAnnounced` | Without crashes and failing writes every stored outcome is announced or about to be. |
| `PaymentsProofs` | `SentNoMore` | `NeverSentAgain` | A transaction that has left NEW and has no confirm under way is never sent to the SGT again. |
| `PaymentsProofs` | `ClosedForGood` | `ClosedStaysClosed` | A final status with no handler or tick still at work never changes, nor do the fields that tell who paid. |
| `PaymentsProofs` | `ImplementsContract` | `KeepsContract` | Payments implements PaymentContract: charge at most once, book only what was charged, tell paid only to the payer. |
| `RecordsProofs` | `SplitIsRight` | — | For every amount, commission and settlement add up to it and the commission is the nearest centavo to 2.5%. |
| `RecordsProofs` | `TypeCorrect` | — | Every variable of TransactionCreation keeps its type. |
| `RecordsProofs` | `OnePerIntent` | `OneTransactionPerIntent` | For any number of concurrent and retried requests, all 201 answers for an intent name one transaction. |
| `RecordsProofs` | `NumbersUnique` | — | No two requests ever draw the same number. |
| `RecordsProofs` | `AnnouncedWhenStored` | — | Only stored transactions are announced, and without faults all of them are. |
| `RecordsProofs` | `WireIsRight` | `WireAddsUp` | The amounts sent to the SGT add up to what the creating request asked for, for every amount. |
| `RecordsProofs` | `ListsTypeCorrect` | — | Every variable of Listings keeps its type. |
| `RecordsProofs` | `NothingIsMissed` | `WalksMissNothing` | For any number of documents, any size of page and any list of the API, a client that goes to the last page has seen all that was there when it began, unless one leaves the list or comes in between the reads of the last page, and can open what it saw. |
| `RecordsProofs` | `FiguresTypeCorrect` | — | Every variable of Dashboard keeps its type. |
| `RecordsProofs` | `FiguresOfOneMoment` | `FiguresAddUp` | Unless a transaction of its periods is stored between the reads, the figures of an answer are of the same transactions, whatever changes state. |
| `RecordsProofs` | `AuditTypeCorrect` | — | Every variable of Audit keeps its type. |
| `RecordsProofs` | `AnswersAreShown` | `EventsShowAnswers` | An event shows its own request's answer, or that of one that used its id within the window; and the events an update found all have an answer when it has ended. |
| `RecordsProofs` | `StartTypeCorrect` | — | Every variable of Bootstrap keeps its type, for any number of processes. |
| `RecordsProofs` | `SeedsGoTogether` | — | However many processes start, stop and start again side by side, the menus open, a super administrator has its role, and all is stored once one is up if none stopped half way. |
| `RecordsProofs` | `SeedsFitTogether` | `SeedsFit` | Given the two facts about the constant tables of routes, which TLC evaluates in full, the whole of SeedsFit in every behaviour. |
| `NfcPaymentsProofs` | `TypeCorrect` | — | Every variable of NfcPayments and NfcEnrollment keeps its type, whatever interleaves and fails. |
| `NfcPaymentsProofs` | `OneTap` | `OneTapPerSession` | However often and by however many terminals a token is presented, one presentation gets past the nonce. |
| `NfcPaymentsProofs` | `SpentForGood` | `SpentStaysSpent` | The read-then-write of markSessionUsed, prepares and expiry never make a spent session fresh again. |
| `NfcPaymentsProofs` | `RevokedStays` | `RevokedCannotPay` | While the enrolment stays revoked, and no authorisation is under way that saw it active, the card makes no payment. |
| `NfcPaymentsProofs` | `CounterCovers` | `CounterCoversPayments` | While the enrolment is active the stored counter covers every payment that was answered. |
| `NfcPaymentsProofs` | `PaidToldApproved` | `PaidIsApproved` | Without faults, who paid is told approved unless overtaken by a payment with at least the same counter. |
| `NfcPaymentsProofs` | `EnrolledIsUsable` | `EnrolledCardIsUsable` | Without failing services an active enrolment at rest has its creator's seed and a counter. |
| `SecretsProofs` | `CardsTypeCorrect` | — | Every variable of CardRegistration keeps its type. |
| `SecretsProofs` | `CardsHaveSecrets` | `StoredCardHasSecrets` | A stored card has its secrets, for any number of registrations and holders and wherever the process stops. |
| `SecretsProofs` | `NothingLeftBehind` | `NoSecretsLeftBehind` | Without failing Vault calls and crashes no secrets stay behind for a card that was not created. |
| `SecretsProofs` | `AnswersAndCardsAgree` | `AnswersMatchCards` | A 201 is given to the registration that has the card, and an ACTIVE card was activated at the issuer. |
| `SecretsProofs` | `ClientTypeCorrect` | — | Every variable of VaultClient keeps its type. |
| `SecretsProofs` | `TokensAreLive` | `TokenIsLive` | With a safety window of at least three timeouts no KV call is sent with an expired token, however many calls renew and log in at once. |
| `SecretsProofs` | `FailuresAreUnwraps` | — | While Vault answers, a KV call fails only because an earlier login used the wrapped secret up. |
| `SecretsProofs` | `DevicesTypeCorrect` | — | Every variable of DeviceKeys keeps its type. |
| `SecretsProofs` | `DeviceKeysAlwaysInVault` | `DeviceKeysAreInVault` | The key a device's document names and every key a phone was given are in Vault, however exchanges and rotations interleave and fail. |
| `SecretsProofs` | `LimitOfDevicesHolds` | `DevicesWithinLimit` | For every limit and any number of exchanges: a user has more active devices than the limit only if an exchange missed another's write or was for the device of someone else. |
| `TenantsProofs` | `TenantsTypeCorrect` | — | Every variable of Tenants keeps its type. |
| `TenantsProofs` | `TenantsAlwaysWhole` | `TenantsAreWhole` | A tenant that exists has its PAN and a secret its owner was given, and a history that explains its state, for any number of creations and changes. |
| `AdministrationProofs` | `TerminalsTypeCorrect` | — | Every variable of Terminals keeps its type. |
| `AdministrationProofs` | `ClientsFollowTerminals` | `ClientFollowsTerminal` | Without failures, a terminal whose operations never overlapped has an active client exactly when its document says so, and all its other clients are revoked. |
| `AdministrationProofs` | `RevokedStaysRevoked` | `RevokedForever` | A revoked client that no reactivation or token request had looked at before stays revoked, inactive and without tokens, whatever fails. |
| `AdministrationProofs` | `MenuTypeCorrect` | — | Every variable of Menu keeps its type, and the orders stay numbers of modules, for any number of changes and reorders. |
| `AdministrationProofs` | `MenuIsCurrent` | `ListIsCurrent` | Unless something was written while a list was being read, or a write failed, the list in memory is the stored one whenever nothing is being written. |
| `AuthProofs` | `KeysTypeCorrect` | — | Every variable of SigningKeys keeps its type. |
| `AuthProofs` | `QuietTokensVerify` | `TokensVerify` | For any number of rotations that do not overlap and any restarts, the guards accept a token signed in quiet, and verify lets it refresh, until it or its key expires; and, whatever fails or overlaps, before it expires verify accepts an access token at most once in a process and never in the one that signed it. |
| `AuthProofs` | `SessionsTypeCorrect` | — | Every variable of Sessions keeps its type. |
| `AuthProofs` | `MarkedCannotRefresh` | `ExpiredCannotRefresh` | Though the scheduler marks by user, no session whose refresh token works is marked, for any number of logins that do not overlap. |
| `AuthProofs` | `PermissionsTypeCorrect` | — | Every variable of Permissions keeps its type. |
| `AuthProofs` | `LostGrantsEnd` | `GrantsEnd` | For any number of roles, checks and changes that do not tear a read apart, a permission taken away works for no longer than an entry lives. |
| `AccountsProofs` | `AccountsTypeCorrect` | — | Every variable of Accounts keeps its type, for any number of requests and any limits. |
| `AccountsProofs` | `UsedCodesAreGone` | `CodesWorkOnce` | A code that confirmed a phone or reset a password is never stored again to be compared, whatever overlaps, fails or stops. |
| `AccountsProofs` | `DisabledStaysDisabled` | `DisabledForGood` | Whatever interleaves and fails, no operation brings a disabled user back. |
| `AccountsProofs` | `LimitsAreKept` | `LimitsHold` | For every limit: no more wrong guesses and resends than that, as long as those that count do not overlap, Redis answers and the process does not stop. |
| `AccountsProofs` | `PartsTypeCorrect` | `TypeOK` | A behaviour of the composition is one of each of its six parts, and keeps the types of all of them. |

The assumptions are those named in the modules (`ConstantsAssumption`,
`CreationAssumption`, `EnrollmentAssumption`, `NfcAssumption`, `CardAssumption`,
`VaultAssumption`, `DeviceAssumption`, `TenantAssumption`, `TerminalAssumption`, `KeyAssumption`,
`SessionAssumption`, `RightAssumption`, `AccountAssumption`, `ModuleAssumption`, `ListAssumption`,
`DashboardAssumption`, `BootAssumption`, `AuditAssumption`): the sets of
requests are disjoint, `None` and its like are none of
their members, amounts, limits and lives are positive integers (a token's life may be 0), the sets of devices, of modules and of
documents are finite and there is a document, the group of the menu is a module, and the window and the
lease are long against the timeout. `SeedsFitTogether` assumes two more facts, about constants of `Catalog` and
`Routes`: that no route hides a later one, and that the whole menu leads each role on. Both are finite tables;
TLC evaluates them in full in the run `records`, whose property `SeedsFit` has them as a conjunct.

For `Payments` the safety properties are inductive only with what ties the program
counter of a confirm to the SGT: that a request is past `transfer` only if it called
the SGT or never will, that a success code in `reply` means `paidBy` is set and, if
the request is on the way to `balance` or `tellPaid`, that it is the payer; and that
a request answered 404 or 406 did nothing. `PaymentsProofs` groups these as named
invariants, proves each preserved action by action, and derives the listed
properties. The refinement is the same case split: each action is a `Charge`, `Book`,
`Unbook`, `TellPaid`, `TellOther`, `UnbookAndTell` or a stutter of `PaymentContract`.

For `TransactionCreation` the argument runs over the numbers drawn (bounded by the
counter and distinct), the uniqueness of the intent among inserted documents, and
the fact that a document and its request agree. `SplitIsRight` is arithmetic.

For the NFC modules there are six groups. `Shape` is the types and where a request
can be when. `Spent` joins `OneTapPerSession` and `SpentStaysSpent`: only the prepare
that makes a session writes it fresh, and it does so before any phone has the
session, so neither the look-back of markSessionUsed nor expiry can.
`Enrolled` says that the unique index on `cardId` lets one request create the
document, ever, which is also why `ReenrolmentSucceeds` fails. `RevokedCannotPay` needs the
types and places only: who saw the enrolment active is named in its precondition. `Counted` ties what a payment's finally block has done to the
counter in Redis. `CalmAnswers` follows an authorisation through its two halves
when nothing fails, and names the payment that overtook it otherwise. `Sown` says
whose seed Vault holds while an enrolment is under way.

For the cards `Saga` says what each place in the saga implies: past `save` the secrets
are in Vault, before `create` the card is not stored, a request in the rollback was not
answered 201. For the client `Pending` bounds what is under way by its timeout, and
`Leases` bounds how far `tokenExpire` may run ahead of what Vault granted: by two
timeouts, because a login's answer may be one timeout old, and a renewal's answer may
move the expiry of a token that a login granted up to one timeout before the renewal
was sent has replaced. With a third timeout for the KV call itself that is the window
the theorem asks for.

For the devices `DInv` adds three things to the two properties. `ExchangesPlaced`: past
`store` the exchange's key is in Vault, and past `record` the device it updates has a document.
`CronPlaced`: the cron is at a device that has a document, and nothing deletes one. `RoomCounted`: an
exchange that has seen every write since it counted still finds the room it counted. The limit is a
cardinality, so the lemmas `FewerDevices` and `OneDeviceMore` come from the library's theorems on
finite sets, and `LimitKept` and `LimitKeptByWrite` say once for all actions what a write to a document
does to the count.

For the tenants `TInv` says where a creation is and what it has put into Vault by then
(`CreationsPlaced`), that a change under way knows its tenant and the entry it is going to write
(`ChangesPlaced`), that the secret in Vault is one its owner was given or is about to be given
(`SecretsGiven`), and `StatesExplained`, which is the property with the entries that are about
to be written counted as if they were there (`Recording`): the document changes before its
history, so only with these is the explanation preserved. `ExplanationsKept` does all
steps that record nothing.

For the terminals `OInv` names the client an operation has found and what it has done to it
(`RequestsPlaced`), and for a terminal that never had two operations at once says that all its clients but
the current one are revoked, that one operation at most is under way, and that this operation found the
terminal as it is and has done to the client what it is about to do to the terminal
(`TerminalsOrdered`). `RevokedForever` needs no invariant but the types.

For the accounts the invariants are in three layers. `PlacesFit` says which operations reach which
place. `CodesPlaced` follows a code: it is stored by a request that will not store it again, and the guess
that used it has removed it; `RequestsMove` says once, for every action, what a step makes of a
request and of the codes, and the proof of `CodesWorkOnce` needs nothing else. `CountsKept` holds while
operations that count do not overlap: what `GuessesCounted` and `ResendsCounted` say of the counts at
rest, `GuessesSeen` says for the request between its read and its write. `DisabledForGood` needs
the types and `PlacesFit`: of the transitions, only one that saw DISABLED is under way.

For the signing keys `KeysInStep` says that, until two rotations overlap or Vault fails, the document in Vault is the
memory of the process up to the key about to be written, and that a quiet token's kid and signature are
of one key in that document; a restart reads it back. `RefusalsInStep`, its third part, says that a refresh is refused only to
a quiet token that has expired or whose key has. `RegistryInStep` holds under every failure: an access token
that has not expired is in the registry of the process that signed it and of one that accepted it, and one that is
being registered came from an earlier process; no timer runs between the check and the registration. For the sessions
`InOrderOfExpiry` says that documents are inserted in the order they expire, which is why the first
ACTIVE document of a user, which the scheduler marks, is an expired one as long as
`MarksTheExpired` bounds what it still has to mark by what is due; the lemmas on
sequences and cardinalities (`Appended`, `DueCounted`, `OneFewer`) carry it. For the permissions
`ReadsAreOfNow` says that an untorn read is of the present minute, and that an entry is no younger than
the grant it was made of.

For the menu `ListsCurrent` says that a list that was read is the stored one until something is written, and
that memory holds it or nothing while nothing is being written; a reorder deletes the key only when
all its updates have arrived. That `SendUpdates` sends orders of modules is a fact about sequences
(`InsertAtTyped`, `UpdatesTyped`).

For the lists `OnItsWay` gives each document due a position, the number of documents before it: a document the
client still waits for is not before its page, and the count is of a list that is long enough for it.
A document stored before it moves it to a later place only (`PositionsFit` and the library's
theorems on cardinality); `Through` is what is left of it at the end. For the figures `FiguresCurrent` says
that what was read is what would be read now, and `FiguresAgree` keeps this when all are read.

For the audit trail `EventsPlaced` and `AnswersPlaced` say that an update goes through, and an answer was
written to, events of its request that were young enough when it looked; `PromptUpdates` that an update that
found all events has those without an answer still before it.

For the start `ModulesFilled` and `RolesFilled` say that while no upsert fails a
collection is the first k entries of its table, that a process storing entries is not beyond the next one,
and that, if none stopped half way, some process is at that one until all are there: a
process that stores an entry already there, or the next one, keeps it (`SeedingFills`), however many do so.
With the tables entry by entry (`ModulesListed`, `NamesDiffer`) the menu opens at every such
point, as the group comes before its children (`MenusOpenOnTheWay`).

`PartsBehave` shows that a behaviour of the composition of `MCAccounts` is one of each of its parts, from which
`PartsTypeCorrect` follows.

Only model-checked: the three liveness properties of `payments_live`, as fairness is out of this
prover's reach, and the two facts about the tables of routes and roles named above, which have no
variables: comparing every pair of some ninety routes is TLC's work. Every
other property of a passing run is a theorem. The properties that a run
refutes have none, of course.

## Not modelled

`PROJECT.json` has a note for each component. In short:

- Audit records written by handlers of payments, log lines, texts of answers, layout of QR codes, PIN block
  formats, TLV, HKDF, ECDSA, key material, redaction: data, or formatting, that no decision here depends on.
- The card's balance: the SGT's figure is written as it comes, and with two payments at
  once the last writer wins; no document promises otherwise.
- The webhook dispatcher, which never sends; the handlers of module events, which delete a key that
  nothing writes; the list cache of roles; `invalidateKey`, `incrementCounter`, `regenerateSecret` and
  `updateUrl` of the webhook service, `AuditAdapter`, the alerts gateway, `ModulesSeedService` and `SYSTEM_PERMISSIONS`, which nothing
  calls or provides; `hardDelete` of modules, revocation and manual rotation of device keys, and a
  retry behind `getPan`, which cannot be reached.
- The table of clients in the sockets gateway, CSRF tokens, `serviceLogin`, logout, and `cleanupExpiredJtis`, which nothing calls.
- `update` and `updateMyProfile` of users, `updateTerminal`, and the other writers of texts.
- Figures of users, tenants and cards, the ten last transactions, the enrichment of a listed
  transaction, the summary of audit events, and equal `createdAt` of two documents.
- Refusals for system modules, system roles and the super administrator.
- Test transactions, a development helper that calls create.

What a continuation would do first: state an abstract specification of "a secret per document" that
`CardRegistration`, `DeviceKeys` and `Tenants` all implement, and of "a copy that follows what is stored" for
`Permissions`, `Menu` and `SigningKeys`; and carry the theorems of the parts over to `MCSecrets` and
`MCRecords`, as `PartsBehave` does for `MCAccounts`.
