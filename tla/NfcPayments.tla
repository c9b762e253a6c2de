----------------------------- MODULE NfcPayments -----------------------------
(***************************************************************************)
(* NFC payments with one card: the phone prepares a session                *)
(* (nfc-prepare.service.ts), the terminal presents the token the phone     *)
(* signed for it, perhaps more than once (nfc-authorization.service.ts),   *)
(* while the enrolment may be revoked or replaced (NfcEnrollment).         *)
(*                                                                         *)
(* A session is named by the prepare request that made it.  A token is the *)
(* session it was signed for and the seed it was signed with: the phone    *)
(* signs the counter it was given.  What processPayment does is the        *)
(* subject of Payments; here it has an outcome.                            *)
(***************************************************************************)
EXTENDS NfcEnrollment

CONSTANTS
  Prepares,  \* POST /payment-tokens/prepare requests
  Auths,     \* POST /nfc-payments/authorize requests
  Lookahead  \* COUNTER_LOOKAHEAD_WINDOW, 10 in the code

ASSUME NfcAssumption == Lookahead \in Nat \ {0} /\ None \notin Prepares

VARIABLES
  session,   \* of each prepare request: "none", "fresh" or "used" in Redis
  sessionNo, \* the counter in it
  current,   \* the session the card is mapped to
  ppc, previous, panswer,  \* the prepare requests, and what they read
  tapFor, signedBy, apc,   \* the authorize requests, the session and seed of their token
  result,    \* what an authorize request will answer if its finally block succeeds
  marking, bumping, \* the two halves of the finally block, which run side by side
  aanswer,   \* what they were answered
  tx         \* status of the transaction each of them stored

redisSessions == <<session, sessionNo, current>>
preq == <<ppc, previous, panswer>>
areq == <<tapFor, signedBy, apc, result, marking, bumping, aanswer, tx>>
vars == <<evars, redisSessions, preq, areq>>

TypeOK ==
  /\ ETypeOK
  /\ session \in [Prepares -> {"none", "fresh", "used"}]
  /\ sessionNo \in [Prepares -> Nat]
  /\ current \in Prepares \cup {None}
  /\ ppc \in [Prepares -> {"idle", "counter", "mapping", "drop", "unmap",
                           "store", "map", "done"}]
  /\ previous \in [Prepares -> Prepares \cup {None}]
  /\ panswer \in [Prepares -> {"none", "200", "403", "404", "500", "lost"}]
  /\ tapFor \in [Auths -> Prepares \cup {None}]
  /\ signedBy \in [Auths -> Enrolls \cup {None}]
  /\ apc \in [Auths -> {"idle", "terminal", "enrolment", "seed", "counter", "nonce",
                        "store", "start", "pay", "unreachable", "finally", "done"}]
  /\ result \in [Auths -> {"none", "approved", "declined", "500"}]
  /\ marking \in [Auths -> {"none", "read", "write", "ok", "thrown"}]
  /\ bumping \in [Auths -> {"none", "write", "ok", "thrown"}]
  /\ aanswer \in [Auths -> {"none", "refused", "already", "approved",
                            "declined", "500", "lost"}]
  /\ tx \in [Auths -> {"none", "new", "processing", "success", "failed"}]

Init ==
  /\ EInit
  /\ session = [p \in Prepares |-> "none"]
  /\ sessionNo = [p \in Prepares |-> 0]
  /\ current = None
  /\ ppc = [p \in Prepares |-> "idle"]
  /\ previous = [p \in Prepares |-> None]
  /\ panswer = [p \in Prepares |-> "none"]
  /\ tapFor = [a \in Auths |-> None]
  /\ signedBy = [a \in Auths |-> None]
  /\ apc = [a \in Auths |-> "idle"]
  /\ result = [a \in Auths |-> "none"]
  /\ marking = [a \in Auths |-> "none"]
  /\ bumping = [a \in Auths |-> "none"]
  /\ aanswer = [a \in Auths |-> "none"]
  /\ tx = [a \in Auths |-> "none"]

\* The counter in Redis, or else the one of the document, which stays -1.
LastCounter == IF counter = None THEN -1 ELSE counter

-----------------------------------------------------------------------------
(* preparePaymentSession                                                   *)

PGoto(p, l) == ppc' = [ppc EXCEPT ![p] = l] /\ UNCHANGED panswer
PRespond(p, c) == ppc' = [ppc EXCEPT ![p] = "done"] /\ panswer' = [panswer EXCEPT ![p] = c]
PThrows(p) == Fails("redis") /\ PRespond(p, "500")

\* The card must have an active enrolment, of the user who asks.
PrepareFind(p) ==
  /\ ppc[p] = "idle"
  /\ \/ status = "active" /\ (PGoto(p, "counter") \/ PRespond(p, "403"))
     \/ status # "active" /\ PRespond(p, "404")
     \/ Fails("db") /\ PRespond(p, "500")
  /\ UNCHANGED <<evars, redisSessions, previous, areq>>

\* The counter of the session: one more than the last accepted one.
PrepareCounter(p) ==
  /\ ppc[p] = "counter"
  /\ \/ sessionNo' = [sessionNo EXCEPT ![p] = LastCounter + 1] /\ PGoto(p, "mapping")
     \/ PThrows(p) /\ UNCHANGED sessionNo
  /\ UNCHANGED <<evars, session, current, previous, areq>>

\* The session the card is mapped to, to be dropped.
PrepareMapping(p) ==
  /\ ppc[p] = "mapping"
  /\ \/ /\ previous' = [previous EXCEPT ![p] = current]
        /\ PGoto(p, IF current = None THEN "store" ELSE "drop")
     \/ PThrows(p) /\ UNCHANGED previous
  /\ UNCHANGED <<evars, redisSessions, areq>>

PrepareDrop(p) ==
  LET Write == session' = [session EXCEPT ![previous[p]] = "none"] IN
  /\ ppc[p] = "drop"
  /\ \/ Write /\ PGoto(p, "unmap")
     \/ PThrows(p) /\ (Write \/ UNCHANGED session)
  /\ UNCHANGED <<evars, sessionNo, current, previous, areq>>

PrepareUnmap(p) ==
  /\ ppc[p] = "unmap"
  /\ \/ current' = None /\ PGoto(p, "store")
     \/ PThrows(p) /\ current' \in {current, None}
  /\ UNCHANGED <<evars, session, sessionNo, previous, areq>>

PrepareStore(p) ==
  LET Write == session' = [session EXCEPT ![p] = "fresh"] IN
  /\ ppc[p] = "store"
  /\ \/ Write /\ PGoto(p, "map")
     \/ PThrows(p) /\ (Write \/ UNCHANGED session)
  /\ UNCHANGED <<evars, sessionNo, current, previous, areq>>

\* The mapping, and the answer that tells the phone its session.
PrepareMap(p) ==
  /\ ppc[p] = "map"
  /\ \/ current' = p /\ PRespond(p, "200")
     \/ PThrows(p) /\ current' \in {current, p}
  /\ UNCHANGED <<evars, session, sessionNo, previous, areq>>

PrepareStep(p) ==
  PrepareFind(p) \/ PrepareCounter(p) \/ PrepareMapping(p) \/ PrepareDrop(p)
    \/ PrepareUnmap(p) \/ PrepareStore(p) \/ PrepareMap(p)

\* Keys expire: a session after 300 s, or 65 s once used, and the mapping.
Expire ==
  /\ \/ \E p \in Prepares :
          session[p] # "none" /\ session' = [session EXCEPT ![p] = "none"] /\ UNCHANGED current
     \/ current # None /\ current' = None /\ UNCHANGED session
  /\ UNCHANGED <<evars, sessionNo, preq, areq>>

-----------------------------------------------------------------------------
(* authorizePayment                                                        *)

AGoto(a, l) == apc' = [apc EXCEPT ![a] = l] /\ UNCHANGED aanswer
ARespond(a, c) == apc' = [apc EXCEPT ![a] = "done"] /\ aanswer' = [aanswer EXCEPT ![a] = c]
AThrows(service, a) == Fails(service) /\ ARespond(a, "500")

\* Step 2: the session the token names.
AuthSession(a, p, e) ==
  /\ apc[a] = "idle"
  /\ panswer[p] = "200" /\ eanswer[e] = "201"
  /\ tapFor' = [tapFor EXCEPT ![a] = p]
  /\ signedBy' = [signedBy EXCEPT ![a] = e]
  /\ \/ session[p] = "none" /\ ARespond(a, "refused")
     \/ session[p] = "used" /\ ARespond(a, "already")
     \/ session[p] = "fresh" /\ AGoto(a, "terminal")
     \/ AThrows("redis", a)
  /\ UNCHANGED <<evars, redisSessions, preq, result, marking, bumping, tx>>

\* Steps 2b and 2c: a known, active terminal that can do NFC.
AuthTerminal(a) ==
  /\ apc[a] = "terminal"
  /\ AGoto(a, "enrolment") \/ ARespond(a, "refused") \/ AThrows("db", a)
  /\ UNCHANGED <<evars, redisSessions, preq, tapFor, signedBy, result, marking, bumping, tx>>

\* Mutant: the enrolment is looked up whatever its status.
AuthEnrolmentAny(a) ==
  /\ apc[a] = "enrolment"
  /\ \/ status # "absent" /\ AGoto(a, "seed")
     \/ status = "absent" /\ ARespond(a, "refused")
  /\ UNCHANGED <<evars, redisSessions, preq, tapFor, signedBy, result, marking, bumping, tx>>

\* Step 3: the active enrolment of the card.
AuthEnrolment(a) ==
  /\ apc[a] = "enrolment"
  /\ \/ status = "active" /\ AGoto(a, "seed")
     \/ status # "active" /\ ARespond(a, "refused")
     \/ AThrows("db", a)
  /\ UNCHANGED <<evars, redisSessions, preq, tapFor, signedBy, result, marking, bumping, tx>>

\* Steps 3 to 5: the seed in Vault, and the signature made with it.
AuthSeed(a) ==
  /\ apc[a] = "seed"
  /\ \/ vault = signedBy[a] /\ AGoto(a, "counter")
     \/ (vault # signedBy[a] \/ Fails("vault")) /\ ARespond(a, "refused")
  /\ UNCHANGED <<evars, redisSessions, preq, tapFor, signedBy, result, marking, bumping, tx>>

\* Steps 6 to 8: the counter against the window, the age of the token, the amount.
AuthCounter(a) ==
  /\ apc[a] = "counter"
  /\ \/ /\ sessionNo[tapFor[a]] \in LastCounter + 1 .. LastCounter + Lookahead
        /\ AGoto(a, "nonce")
     \/ ARespond(a, "refused")
     \/ AThrows("redis", a)
  /\ UNCHANGED <<evars, redisSessions, preq, tapFor, signedBy, result, marking, bumping, tx>>

\* Mutant: used is looked at in step 2 only.
AuthNonceUnchecked(a) ==
  /\ apc[a] = "nonce"
  /\ \/ /\ session[tapFor[a]] # "none"
        /\ session' = [session EXCEPT ![tapFor[a]] = "used"]
        /\ AGoto(a, "store")
     \/ session[tapFor[a]] = "none" /\ ARespond(a, "refused") /\ UNCHANGED session
  /\ UNCHANGED <<evars, sessionNo, current, preq, tapFor, signedBy, result, marking, bumping, tx>>

\* Step 9: the script that reads and sets used in one go.
AuthNonce(a) ==
  LET p == tapFor[a]
      Consume == session' = [session EXCEPT ![p] = "used"]
  IN
  /\ apc[a] = "nonce"
  /\ \/ session[p] = "fresh" /\ Consume /\ AGoto(a, "store")
     \/ session[p] # "fresh" /\ ARespond(a, "refused") /\ UNCHANGED session
     \/ AThrows("redis", a) /\ ((session[p] = "fresh" /\ Consume) \/ UNCHANGED session)
  /\ UNCHANGED <<evars, sessionNo, current, preq, tapFor, signedBy, result, marking, bumping, tx>>

\* Entering the finally block, with the result to answer after it.
Finally(a, r) ==
  /\ AGoto(a, "finally")
  /\ result' = [result EXCEPT ![a] = r]
  /\ marking' = [marking EXCEPT ![a] = "read"]
  /\ bumping' = [bumping EXCEPT ![a] = "write"]

Becomes(a, s) == tx' = [tx EXCEPT ![a] = s]
Stays == UNCHANGED <<apc, aanswer, result, marking, bumping>>

\* Step 11: create of the transaction, its intentId the session.
AuthStore(a) ==
  LET Taken == \E b \in Auths : tx[b] # "none" /\ tapFor[b] = tapFor[a] IN
  /\ apc[a] = "store"
  /\ \/ /\ ~Taken /\ Becomes(a, "new") /\ AGoto(a, "start")
        /\ UNCHANGED <<result, marking, bumping>>
     \/ /\ Taken \/ Fails("db")
        /\ UNCHANGED tx \/ (~Taken /\ Becomes(a, "new"))
        /\ Finally(a, "500")
  /\ UNCHANGED <<evars, redisSessions, preq, tapFor, signedBy>>

\* updateStatus(PROCESSING).
AuthStart(a) ==
  /\ apc[a] = "start"
  /\ \/ Becomes(a, "processing") /\ AGoto(a, "pay") /\ UNCHANGED <<result, marking, bumping>>
     \/ Fails("db") /\ (UNCHANGED tx \/ Becomes(a, "processing")) /\ Finally(a, "500")
  /\ UNCHANGED <<evars, redisSessions, preq, tapFor, signedBy>>

\* processPayment: SUCCESS, FAILED, or a throw, which can leave any status.
AuthPay(a) ==
  /\ apc[a] = "pay"
  /\ \/ Becomes(a, "success") /\ Finally(a, "approved")
     \/ Becomes(a, "failed") /\ Finally(a, "declined")
     \/ /\ Fails("db") /\ \E s \in {"processing", "success", "failed"} : Becomes(a, s)
        /\ AGoto(a, "unreachable") /\ UNCHANGED <<result, marking, bumping>>
  /\ UNCHANGED <<evars, redisSessions, preq, tapFor, signedBy>>

\* The catch around it: FAILED with SGT_UNREACHABLE.
AuthUnreachable(a) ==
  /\ apc[a] = "unreachable"
  /\ \/ Becomes(a, "failed") /\ Finally(a, "declined")
     \/ Fails("db") /\ (UNCHANGED tx \/ Becomes(a, "failed")) /\ Finally(a, "500")
  /\ UNCHANGED <<evars, redisSessions, preq, tapFor, signedBy>>

Marking(a, l) == marking' = [marking EXCEPT ![a] = l]
Bumping(a, l) == bumping' = [bumping EXCEPT ![a] = l]

\* markSessionUsed reads the session ...
MarkRead(a) ==
  /\ marking[a] = "read"
  /\ \/ session[tapFor[a]] # "none" /\ Marking(a, "write")
     \/ session[tapFor[a]] = "none" /\ Marking(a, "ok")
     \/ Fails("redis") /\ Marking(a, "thrown")
  /\ UNCHANGED <<evars, redisSessions, preq, tapFor, signedBy, apc, result, bumping, aanswer, tx>>

\* Mutant: the session is written back as it was found before the payment.
MarkWriteStale(a) ==
  /\ marking[a] = "write"
  /\ session' = [session EXCEPT ![tapFor[a]] = "fresh"] /\ Marking(a, "ok")
  /\ UNCHANGED <<evars, sessionNo, current, preq, tapFor, signedBy, apc, result, bumping, aanswer, tx>>

\* ... and writes it back, also when it has been dropped in between.
MarkWrite(a) ==
  LET Write == session' = [session EXCEPT ![tapFor[a]] = "used"] IN
  /\ marking[a] = "write"
  /\ \/ Write /\ Marking(a, "ok")
     \/ Fails("redis") /\ (Write \/ UNCHANGED session) /\ Marking(a, "thrown")
  /\ UNCHANGED <<evars, sessionNo, current, preq, tapFor, signedBy, apc, result, bumping, aanswer, tx>>

\* Mutant: an error of Redis is logged and forgotten.
BumpSwallowsErrors(a) ==
  /\ bumping[a] = "write"
  /\ \/ counter' = sessionNo[tapFor[a]] /\ Bumping(a, "ok")
     \/ Fails("redis") /\ UNCHANGED counter /\ Bumping(a, "ok")
  /\ UNCHANGED <<status, seedOf, vault, ereq, faults, redisSessions, preq,
                 tapFor, signedBy, apc, result, marking, aanswer, tx>>

\* Mutant: the branch of the script for a missing counter returns nothing.
BumpForgetsReturn(a) ==
  LET n == sessionNo[tapFor[a]] IN
  /\ bumping[a] = "write"
  /\ \/ n > LastCounter /\ counter' = n /\ Bumping(a, IF counter = None THEN "thrown" ELSE "ok")
     \/ n <= LastCounter /\ UNCHANGED counter /\ Bumping(a, "thrown")
  /\ UNCHANGED <<status, seedOf, vault, ereq, faults, redisSessions, preq,
                 tapFor, signedBy, apc, result, marking, aanswer, tx>>

\* updateEnrollmentCounter, beside it: the script that only ever raises the
\* counter (a missing one is below every n), and throws when it has not.
Bump(a) ==
  LET n == sessionNo[tapFor[a]]
      Raise == n > LastCounter /\ counter' = n
  IN
  /\ bumping[a] = "write"
  /\ \/ Raise /\ Bumping(a, "ok")
     \/ n <= LastCounter /\ UNCHANGED counter /\ Bumping(a, "thrown")
     \/ Fails("redis") /\ (Raise \/ UNCHANGED counter) /\ Bumping(a, "thrown")
  /\ UNCHANGED <<status, seedOf, vault, ereq, faults, redisSessions, preq,
                 tapFor, signedBy, apc, result, marking, aanswer, tx>>

\* After both: the result, unless one of them threw.
AuthAnswer(a) ==
  /\ apc[a] = "finally"
  /\ {marking[a], bumping[a]} \subseteq {"ok", "thrown"}
  /\ ARespond(a, IF "thrown" \in {marking[a], bumping[a]} THEN "500" ELSE result[a])
  /\ UNCHANGED <<evars, redisSessions, preq, tapFor, signedBy, result, marking, bumping, tx>>

AuthStep(a) ==
  AuthTerminal(a) \/ AuthEnrolment(a) \/ AuthSeed(a) \/ AuthCounter(a) \/ AuthNonce(a)
    \/ AuthStore(a) \/ AuthStart(a) \/ AuthPay(a) \/ AuthUnreachable(a)
    \/ MarkRead(a) \/ MarkWrite(a) \/ Bump(a) \/ AuthAnswer(a)

\* The process stops.  Redis, Vault and Mongo keep what they hold.
Crash ==
  LET lostP == {p \in Prepares : ppc[p] \notin {"idle", "done"}}
      lostA == {a \in Auths : apc[a] \notin {"idle", "done"}}
  IN
  /\ "crash" \in faults
  /\ ECrash
  /\ ppc' = [p \in Prepares |-> IF p \in lostP THEN "done" ELSE ppc[p]]
  /\ panswer' = [p \in Prepares |-> IF p \in lostP THEN "lost" ELSE panswer[p]]
  /\ apc' = [a \in Auths |-> IF a \in lostA THEN "done" ELSE apc[a]]
  /\ aanswer' = [a \in Auths |-> IF a \in lostA THEN "lost" ELSE aanswer[a]]
  /\ marking' = [a \in Auths |-> "none"]
  /\ bumping' = [a \in Auths |-> "none"]
  /\ UNCHANGED <<redisSessions, previous, tapFor, signedBy, result, tx>>

Next ==
  \/ ENext /\ UNCHANGED <<redisSessions, preq, areq>>
  \/ \E p \in Prepares : PrepareStep(p)
  \/ Expire
  \/ \E a \in Auths : AuthStep(a) \/ \E p \in Prepares, e \in Enrolls : AuthSession(a, p, e)
  \/ Crash

Spec == Init /\ [][Next]_vars

-----------------------------------------------------------------------------
(* Properties.                                                             *)

\* Past the nonce: on the way to the SGT, or done with a transaction.
Past(a) == apc[a] \in {"store", "start", "pay", "unreachable", "finally"} \/ tx[a] # "none"

\* However often a token is presented, and whatever drops, expires or rewrites
\* its session meanwhile, one authorisation at most gets past its nonce.
OneTapPerSession ==
  \A a, b \in Auths : Past(a) /\ Past(b) /\ tapFor[a] = tapFor[b] => a = b

\* A session from which a payment was made never becomes fresh again: not by a
\* markSessionUsed that writes back what it read, after a prepare or the TTL
\* has removed the key.
SpentStaysSpent ==
  \A a \in Auths : Past(a) => session[tapFor[a]] # "fresh"

\* While the enrolment is active, its counter covers every payment that was
\* answered: a token with a counter up to it is refused.
CounterCoversPayments ==
  status = "active" =>
    \A a \in Auths : aanswer[a] \in {"approved", "declined"} =>
      counter # None /\ counter >= sessionNo[tapFor[a]]

\* When no service fails, a payment that went through is answered "approved",
\* unless another payment with the same card and at least its counter overtook
\* it: two sessions can be prepared with one counter, and the second to finish
\* is answered 500 although it was paid.
PaidIsApproved ==
  faults = {} =>
    \A a \in Auths : tx[a] = "success" /\ apc[a] = "done" =>
      \/ aanswer[a] = "approved"
      \/ \E b \in Auths \ {a} :
           tx[b] # "none" /\ sessionNo[tapFor[b]] >= sessionNo[tapFor[a]]

\* While the enrolment is revoked and no authorisation that saw it active is under way, the
\* card makes no payment.
Barred ==
  /\ status = "revoked"
  /\ \A a \in Auths : apc[a] \in {"idle", "terminal", "enrolment", "done"}
RevokedCannotPay == [][Barred /\ status' = "revoked" => Barred' /\ tx' = tx]_vars

\* What the API says: approved is whether the payment was approved.
ApprovedMeansPaid ==
  \A a \in Auths : aanswer[a] \in {"approved", "already"} =>
    \E b \in Auths : tapFor[b] = tapFor[a] /\ tx[b] = "success"
=============================================================================
