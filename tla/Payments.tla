------------------------------ MODULE Payments ------------------------------
(***************************************************************************)
(* The life of a payment transaction once it is stored as 'new': the HTTP  *)
(* handlers confirm and cancel (transaction.service.ts), the payment       *)
(* processor that charges the card at the SGT switch                       *)
(* (transaction-payment.processor.ts), the expiration cron and the socket  *)
(* notifier.  Node runs one callback at a time, so a step of the model is  *)
(* what runs between two awaits; every await is a point where the steps of *)
(* other requests, of cron ticks and of the notifier interleave.           *)
(*                                                                         *)
(* Requests are spent once.  The card and the user of a confirm request    *)
(* are named after the request: writing cardId or customerId writes it.    *)
(***************************************************************************)
CONSTANTS
  Txs,       \* transaction ids that may be stored
  Confirms,  \* POST /transactions/confirm requests
  Cancels,   \* POST /transactions/:id/cancel requests
  Ticks,     \* cron ticks that may overlap
  None,      \* the absent value of cardId, customerId, sgtTransferCode, ...
  Environments \* the sets of failures a behaviour may be exposed to

Requests == Confirms \cup Cancels
Stored == {"new", "processing", "success", "failed", "cancelled"}
Final == {"success", "failed", "cancelled"}
PaidCodes == {"TR000", "TR002"}
RefusedCodes == {"TR001", "TR003"}

ASSUME ConstantsAssumption ==
  /\ Confirms \cap Cancels = {}
  /\ None \notin Txs \cup Requests \cup PaidCodes
  /\ Environments \subseteq SUBSET {"lostReply", "db", "crash"}

VARIABLES
  status,    \* status of each stored transaction, "absent" before it exists
  cardId,    \* the request whose card the document names
  customerId,\* the request whose user the document names
  sgtCode,   \* sgtTransferCode of the document
  expired,   \* transactions whose expiresAt has passed
  faults,    \* the failures this behaviour is exposed to; never changes
  pc,        \* where each request is
  target,    \* the transaction a request is about
  reply,     \* what the SGT adapter returned to a confirm request
  answer,    \* HTTP status a request was answered with
  todo,      \* transactions a tick has read as expired and not handled yet
  cur,       \* transaction a tick has just cancelled, its event not emitted
  calls,     \* confirm requests that sent /transfer for a transaction
  paidBy,    \* the request whose /transfer the SGT executed
  notices,   \* events emitted whose socket handler has not finished
  pushed     \* 'payment.result' statuses sent to the room of a transaction

doc == <<status, cardId, customerId, sgtCode>>
req == <<pc, target, reply, answer>>
cron == <<todo, cur>>
sgt == <<calls, paidBy>>
room == <<notices, pushed>>
env == <<expired, faults>>
vars == <<doc, env, req, cron, sgt, room>>

Outcomes == {"success", "failed", "cancelled", "expired"}
ConfirmPcs == {"mark", "card", "secrets", "transfer", "settle", "balance",
               "tellPaid", "fail", "tellFailed"}
CancelPcs == {"close", "tellCancelled"}
Answers == {"none", "200", "202", "404", "406", "422", "500", "lost"}

TypeOK ==
  /\ status \in [Txs -> Stored \cup {"absent"}]
  /\ cardId \in [Txs -> Confirms \cup {None}]
  /\ customerId \in [Txs -> Requests \cup {None}]
  /\ sgtCode \in [Txs -> PaidCodes \cup RefusedCodes \cup {None}]
  /\ expired \in SUBSET Txs
  /\ faults \in Environments
  /\ pc \in [Requests -> ConfirmPcs \cup CancelPcs \cup {"idle", "done"}]
  /\ target \in [Requests -> Txs \cup {None}]
  /\ reply \in [Confirms -> PaidCodes \cup RefusedCodes \cup {"error", None}]
  /\ answer \in [Requests -> Answers]
  /\ todo \in [Ticks -> SUBSET Txs]
  /\ cur \in [Ticks -> Txs \cup {None}]
  /\ calls \in [Txs -> SUBSET Confirms]
  /\ paidBy \in [Txs -> Confirms \cup {None}]
  /\ notices \in SUBSET (Txs \X Outcomes)
  /\ pushed \in [Txs -> SUBSET Outcomes]

Init ==
  /\ status = [t \in Txs |-> "absent"]
  /\ cardId = [t \in Txs |-> None]
  /\ customerId = [t \in Txs |-> None]
  /\ sgtCode = [t \in Txs |-> None]
  /\ expired = {}
  /\ faults \in Environments
  /\ pc = [r \in Requests |-> "idle"]
  /\ target = [r \in Requests |-> None]
  /\ reply = [r \in Confirms |-> None]
  /\ answer = [r \in Requests |-> "none"]
  /\ todo = [k \in Ticks |-> {}]
  /\ cur = [k \in Ticks |-> None]
  /\ calls = [t \in Txs |-> {}]
  /\ paidBy = [t \in Txs |-> None]
  /\ notices = {}
  /\ pushed = [t \in Txs |-> {}]

-----------------------------------------------------------------------------
(* Helpers shared by the handlers.                                         *)

\* The transition table the cancel handler consults.
IsValidTransition(from, to) ==
  \/ from = "new" /\ to \in {"processing", "cancelled"}
  \/ from = "processing" /\ to \in Final

Goto(r, l) == pc' = [pc EXCEPT ![r] = l]
Respond(r, code) == Goto(r, "done") /\ answer' = [answer EXCEPT ![r] = code]

\* updateStatus is findOneAndUpdate({id}): it does not look at the status it
\* overwrites.
UpdateStatus(t, s) == status' = [status EXCEPT ![t] = s]

\* A Mongo call that throws may or may not have reached the database.
DbThrows == "db" \in faults

\* emit() starts the socket handler, which first awaits findById.
Emit(t, o) == notices' = notices \cup {<<t, o>>} /\ UNCHANGED pushed

-----------------------------------------------------------------------------
(* The environment: creation (module TransactionCreation), time.           *)

\* transactionModel.create of a document in status NEW.
Store(t) ==
  /\ status[t] = "absent"
  /\ UpdateStatus(t, "new")
  /\ UNCHANGED <<cardId, customerId, sgtCode, env, req, cron, sgt, room>>

\* The ttlMinutes of a stored transaction run out.
TtlPasses(t) ==
  /\ status[t] # "absent" /\ t \notin expired
  /\ expired' = expired \cup {t}
  /\ UNCHANGED <<faults, doc, req, cron, sgt, room>>

-----------------------------------------------------------------------------
(* confirm                                                                 *)

\* Mutant: only a final status is refused, so a transaction that is being
\* processed is confirmed again.
ConfirmFindAnyOpen(r, t) ==
  /\ pc[r] = "idle"
  /\ target' = [target EXCEPT ![r] = t]
  /\ \/ status[t] = "absent" /\ Respond(r, "404")
     \/ status[t] \in Final /\ Respond(r, "406")
     \/ status[t] \in {"new", "processing"} /\ Goto(r, "mark") /\ UNCHANGED answer
  /\ UNCHANGED <<doc, env, reply, cron, sgt, room>>

\* findById, then the 404 and 406 returns.  expiresAt is not looked at.
ConfirmFind(r, t) ==
  /\ pc[r] = "idle"
  /\ target' = [target EXCEPT ![r] = t]
  /\ \/ status[t] = "absent" /\ Respond(r, "404")
     \/ status[t] \in Stored \ {"new"} /\ Respond(r, "406")
     \/ status[t] = "new" /\ Goto(r, "mark") /\ UNCHANGED answer
     \/ DbThrows /\ Respond(r, "500")
  /\ UNCHANGED <<doc, env, reply, cron, sgt, room>>

\* Mutant: the update is filtered on status NEW, and a null result goes
\* nowhere.
ConfirmMarkIfNew(r) ==
  LET t == target[r] IN
  /\ pc[r] = "mark" /\ status[t] = "new"
  /\ UpdateStatus(t, "processing")
  /\ cardId' = [cardId EXCEPT ![t] = r]
  /\ customerId' = [customerId EXCEPT ![t] = r]
  /\ Goto(r, "card")
  /\ UNCHANGED <<sgtCode, env, target, reply, answer, cron, sgt, room>>

\* updateStatus(PROCESSING, {cardId, customerId}).
ConfirmMark(r) ==
  LET t == target[r]
      Write == /\ UpdateStatus(t, "processing")
               /\ cardId' = [cardId EXCEPT ![t] = r]
               /\ customerId' = [customerId EXCEPT ![t] = r]
               /\ UNCHANGED sgtCode
  IN
  /\ pc[r] = "mark"
  /\ \/ Write /\ Goto(r, "card") /\ UNCHANGED answer
     \/ DbThrows /\ (Write \/ UNCHANGED doc) /\ Respond(r, "500")
  /\ UNCHANGED <<env, target, reply, cron, sgt, room>>

-----------------------------------------------------------------------------
(* processPayment, run by confirm                                          *)

\* Mutant: a missing card is answered directly, not through failAndReturn.
ReadCardAnswers(r) ==
  /\ pc[r] = "card"
  /\ \/ Goto(r, "secrets") /\ UNCHANGED answer
     \/ Respond(r, "422")
  /\ UNCHANGED <<doc, env, target, reply, cron, sgt, room>>

\* Step 1: the card exists, is ACTIVE and has a token, or failAndReturn.
ReadCard(r) ==
  /\ pc[r] = "card"
  /\ Goto(r, "secrets") \/ Goto(r, "fail")
  /\ UNCHANGED <<doc, env, target, reply, answer, cron, sgt, room>>

\* Steps 2-4: pinblock, user, tenant and tenant PAN, each or failAndReturn.
ReadSecrets(r) ==
  /\ pc[r] = "secrets"
  /\ Goto(r, "transfer") \/ Goto(r, "fail")
  /\ UNCHANGED <<doc, env, target, reply, answer, cron, sgt, room>>

\* Mutant: the client reference is new on every attempt, so the SGT executes
\* every transfer it is sent.
SgtExecutesEveryCall(t, r) ==
  \/ /\ paidBy' = [paidBy EXCEPT ![t] = r]
     /\ \E code \in PaidCodes : reply' = [reply EXCEPT ![r] = code]
  \/ /\ UNCHANGED paidBy
     /\ \E code \in RefusedCodes \cup {"error"} :
          reply' = [reply EXCEPT ![r] = code]

\* What the SGT does with a /transfer: it executes one transfer per
\* clientReference (TXN-<id>) and refuses a repeated one; the answer may be
\* lost, or report that the issuer could not be reached, after the money
\* moved.  (A transfer the client gave up on may still be executed: SgtLate.)
SgtExecutes(t, r) ==
  \/ /\ paidBy[t] = None
     /\ paidBy' = [paidBy EXCEPT ![t] = r]
     /\ \E code \in PaidCodes
             \cup (IF "lostReply" \in faults THEN {"TR003", "error"} ELSE {}) :
          reply' = [reply EXCEPT ![r] = code]
  \/ /\ UNCHANGED paidBy
     /\ \E code \in RefusedCodes \cup {"error"} :
          reply' = [reply EXCEPT ![r] = code]

\* Step 6: SgtCardAdapter.transfer.  The pinblock is re-encrypted before
\* anything is sent; "error" is a Result.fail.
Transfer(r) ==
  LET t == target[r] IN
  /\ pc[r] = "transfer"
  /\ \/ /\ reply' = [reply EXCEPT ![r] = "error"]
        /\ UNCHANGED sgt
     \/ /\ calls' = [calls EXCEPT ![t] = @ \cup {r}]
        /\ SgtExecutes(t, r)
  /\ Goto(r, "settle")
  /\ UNCHANGED <<doc, env, target, answer, cron, room>>

\* The HTTP client gave up on the call, or the process died during it, and
\* the SGT executes it all the same.
SgtLate(t, r) ==
  /\ "lostReply" \in faults
  /\ r \in calls[t] /\ reply[r] = "error"
  /\ paidBy[t] = None
  /\ paidBy' = [paidBy EXCEPT ![t] = r]
  /\ UNCHANGED <<doc, env, req, cron, calls, room>>

\* Mutant: TR003 (the issuer was not reached) is counted as a success.
SettleUnreachedAsPaid(r) ==
  LET t == target[r]
      Write(s) == /\ UpdateStatus(t, s)
                  /\ sgtCode' = [sgtCode EXCEPT ![t] = reply[r]]
                  /\ UNCHANGED <<cardId, customerId>>
  IN
  /\ pc[r] = "settle"
  /\ \/ reply[r] = "error" /\ Goto(r, "fail") /\ UNCHANGED doc
     \/ reply[r] \in PaidCodes \cup {"TR003"} /\ Write("success") /\ Goto(r, "balance")
     \/ reply[r] = "TR001" /\ Write("failed") /\ Goto(r, "tellFailed")
  /\ UNCHANGED <<env, target, reply, answer, cron, sgt, room>>

\* Step 7: a Result.fail goes to failAndReturn; otherwise the code decides
\* which status is written, whatever the document holds by now.  (A code the
\* server does not know is treated like TR001.)
Settle(r) ==
  LET t == target[r]
      Write(s) == /\ UpdateStatus(t, s)
                  /\ sgtCode' = [sgtCode EXCEPT ![t] = reply[r]]
                  /\ UNCHANGED <<cardId, customerId>>
  IN
  /\ pc[r] = "settle"
  /\ \/ reply[r] = "error" /\ Goto(r, "fail") /\ UNCHANGED doc
     \/ /\ reply[r] \in PaidCodes
        /\ \/ Write("success") /\ (Goto(r, "balance") \/ Goto(r, "tellPaid"))
           \/ DbThrows /\ (Write("success") \/ UNCHANGED doc) /\ Goto(r, "fail")
     \/ /\ reply[r] \in RefusedCodes
        /\ \/ Write("failed") /\ Goto(r, "tellFailed")
           \/ DbThrows /\ (Write("failed") \/ UNCHANGED doc) /\ Goto(r, "fail")
  /\ UNCHANGED <<env, target, reply, answer, cron, sgt, room>>

\* Mutant: a card that cannot be updated fails the payment like any other step.
UpdateBalanceFails(r) ==
  /\ pc[r] = "balance"
  /\ Goto(r, "tellPaid") \/ Goto(r, "fail")
  /\ UNCHANGED <<doc, env, target, reply, answer, cron, sgt, room>>

\* cardsRepository.update of the balance; if it throws, the catch of
\* processPayment fails a payment that is already SUCCESS.
UpdateBalance(r) ==
  /\ pc[r] = "balance"
  /\ Goto(r, "tellPaid") \/ (DbThrows /\ Goto(r, "fail"))
  /\ UNCHANGED <<doc, env, target, reply, answer, cron, sgt, room>>

\* 'transaction.processed' with status success, and the 200 of confirm.
TellPaid(r) ==
  /\ pc[r] = "tellPaid"
  /\ Emit(target[r], "success")
  /\ Respond(r, "200")
  /\ UNCHANGED <<doc, env, target, reply, cron, sgt>>

\* Mutant: failAndReturn answers without emitting the event.
FailAndReturnSilently(r) ==
  /\ pc[r] = "fail"
  /\ UpdateStatus(target[r], "failed")
  /\ UNCHANGED <<cardId, customerId, sgtCode>>
  /\ Respond(r, "422")
  /\ UNCHANGED <<env, target, reply, cron, sgt, room>>

\* failAndReturn: updateStatus(FAILED); if it throws, confirm answers 500.
FailAndReturn(r) ==
  LET Write == /\ UpdateStatus(target[r], "failed")
               /\ UNCHANGED <<cardId, customerId, sgtCode>>
  IN
  /\ pc[r] = "fail"
  /\ \/ Write /\ Goto(r, "tellFailed") /\ UNCHANGED answer
     \/ DbThrows /\ (Write \/ UNCHANGED doc) /\ Respond(r, "500")
  /\ UNCHANGED <<env, target, reply, cron, sgt, room>>

\* Mutant: confirm answers 200 whenever the processor returned.
TellFailedAs200(r) ==
  /\ pc[r] = "tellFailed"
  /\ Emit(target[r], "failed")
  /\ Respond(r, "200")
  /\ UNCHANGED <<doc, env, target, reply, cron, sgt>>

\* 'transaction.processed' with status failed, and the 422 of confirm.
TellFailed(r) ==
  /\ pc[r] = "tellFailed"
  /\ Emit(target[r], "failed")
  /\ Respond(r, "422")
  /\ UNCHANGED <<doc, env, target, reply, cron, sgt>>

-----------------------------------------------------------------------------
(* cancel                                                                  *)

\* findById and isValidTransition on what it read.
CancelFind(r, t) ==
  /\ pc[r] = "idle"
  /\ target' = [target EXCEPT ![r] = t]
  /\ \/ status[t] = "absent" /\ Respond(r, "404")
     \/ /\ status[t] # "absent" /\ ~IsValidTransition(status[t], "cancelled")
        /\ Respond(r, "406")
     \/ /\ IsValidTransition(status[t], "cancelled")
        /\ Goto(r, "close") /\ UNCHANGED answer
     \/ DbThrows /\ Respond(r, "500")
  /\ UNCHANGED <<doc, env, reply, cron, sgt, room>>

\* updateStatus(CANCELLED, {customerId}).
CancelWrite(r) ==
  LET t == target[r]
      Write == /\ UpdateStatus(t, "cancelled")
               /\ customerId' = [customerId EXCEPT ![t] = r]
               /\ UNCHANGED <<cardId, sgtCode>>
  IN
  /\ pc[r] = "close"
  /\ \/ Write /\ Goto(r, "tellCancelled") /\ UNCHANGED answer
     \/ DbThrows /\ (Write \/ UNCHANGED doc) /\ Respond(r, "500")
  /\ UNCHANGED <<env, target, reply, cron, sgt, room>>

\* 'transaction.cancelled' and the 202 of cancel.
TellCancelled(r) ==
  /\ pc[r] = "tellCancelled"
  /\ Emit(target[r], "cancelled")
  /\ Respond(r, "202")
  /\ UNCHANGED <<doc, env, target, reply, cron, sgt>>

-----------------------------------------------------------------------------
(* The expiration cron: a tick reads its list once and works it off.       *)

\* Mutant: the query selects by expiresAt alone.
TickFindAnyStatus(k) ==
  LET due == {t \in expired : status[t] # "absent"} IN
  /\ todo[k] = {} /\ cur[k] = None
  /\ due # {}
  /\ todo' = [todo EXCEPT ![k] = due]
  /\ UNCHANGED <<doc, env, req, cur, sgt, room>>

\* findExpired: status NEW and expiresAt <= now.  A tick that finds nothing
\* changes nothing.
TickFind(k) ==
  LET due == {t \in expired : status[t] = "new"} IN
  /\ todo[k] = {} /\ cur[k] = None
  /\ due # {}
  /\ todo' = [todo EXCEPT ![k] = due]
  /\ UNCHANGED <<doc, env, req, cur, sgt, room>>

\* updateStatus(CANCELLED) of one of them; a throw is caught and the loop
\* goes on with the next.
TickExpire(k, t) ==
  LET Write == /\ UpdateStatus(t, "cancelled")
               /\ UNCHANGED <<cardId, customerId, sgtCode>>
  IN
  /\ t \in todo[k] /\ cur[k] = None
  /\ todo' = [todo EXCEPT ![k] = @ \ {t}]
  /\ \/ Write /\ cur' = [cur EXCEPT ![k] = t]
     \/ DbThrows /\ (Write \/ UNCHANGED doc) /\ UNCHANGED cur
  /\ UNCHANGED <<env, req, sgt, room>>

\* 'transaction.expired'.
TickTell(k) ==
  /\ cur[k] # None
  /\ Emit(cur[k], "expired")
  /\ cur' = [cur EXCEPT ![k] = None]
  /\ UNCHANGED <<doc, env, req, todo, sgt>>

-----------------------------------------------------------------------------
(* The socket notifier and the process.                                    *)

\* Mutant: the notifier has no handler for 'transaction.expired'.
PushNotExpired(t, o) ==
  /\ <<t, o>> \in notices
  /\ notices' = notices \ {<<t, o>>}
  /\ IF o = "expired" THEN UNCHANGED pushed
     ELSE pushed' = [pushed EXCEPT ![t] = @ \cup {o}]
  /\ UNCHANGED <<doc, env, req, cron, sgt>>

\* emitPaymentResult: findById, whose failure loses the notice, then
\* sendToRoom(intentId, 'payment.result').
Push(t, o) ==
  /\ <<t, o>> \in notices
  /\ notices' = notices \ {<<t, o>>}
  /\ \/ pushed' = [pushed EXCEPT ![t] = @ \cup {o}]
     \/ DbThrows /\ UNCHANGED pushed
  /\ UNCHANGED <<doc, env, req, cron, sgt>>

InFlight(r) == pc[r] \notin {"idle", "done"}

\* The process stops and starts again: what was in memory is gone, the
\* clients of the requests in flight get no answer.  Nothing at start-up
\* looks for transactions left in PROCESSING.
Crash ==
  /\ "crash" \in faults
  /\ pc' = [r \in Requests |-> IF InFlight(r) THEN "done" ELSE pc[r]]
  /\ answer' = [r \in Requests |-> IF InFlight(r) THEN "lost" ELSE answer[r]]
  /\ todo' = [k \in Ticks |-> {}]
  /\ cur' = [k \in Ticks |-> None]
  /\ notices' = {}
  /\ UNCHANGED <<doc, env, target, reply, sgt, pushed>>

-----------------------------------------------------------------------------

ConfirmStep(r) ==
  \/ ConfirmMark(r) \/ ReadCard(r) \/ ReadSecrets(r) \/ Transfer(r)
  \/ Settle(r) \/ UpdateBalance(r) \/ TellPaid(r) \/ FailAndReturn(r)
  \/ TellFailed(r)

CancelStep(r) == CancelWrite(r) \/ TellCancelled(r)

TickStep(k) == TickFind(k) \/ (\E t \in Txs : TickExpire(k, t)) \/ TickTell(k)

Next ==
  \/ \E t \in Txs : Store(t) \/ TtlPasses(t)
  \/ \E r \in Confirms, t \in Txs : ConfirmFind(r, t) \/ SgtLate(t, r)
  \/ \E r \in Confirms : ConfirmStep(r)
  \/ \E r \in Cancels : (\E t \in Txs : CancelFind(r, t)) \/ CancelStep(r)
  \/ \E k \in Ticks : TickStep(k)
  \/ \E t \in Txs, o \in Outcomes : Push(t, o)
  \/ Crash

Spec == Init /\ [][Next]_vars

\* The event loop runs every pending continuation, the cron fires every
\* minute and the clock advances; clients owe nothing.
Fairness ==
  /\ \A t \in Txs : WF_vars(TtlPasses(t))
  /\ \A r \in Confirms : WF_vars(ConfirmStep(r))
  /\ \A r \in Cancels : WF_vars(CancelStep(r))
  /\ \A k \in Ticks : WF_vars(TickStep(k))
  /\ \A t \in Txs, o \in Outcomes : WF_vars(Push(t, o))

FairSpec == Spec /\ Fairness
-----------------------------------------------------------------------------
(* Properties.                                                             *)

Announced(t, o) == <<t, o>> \in notices \/ o \in pushed[t]

\* A transaction is booked or announced as a success only when the SGT moved
\* the money, and the document then carries a success code: whatever confirms,
\* cancels, ticks, lost replies, failing writes and crashes interleave with
\* the processor's writes.
SuccessIsBacked ==
  \A t \in Txs :
    /\ status[t] = "success" => paidBy[t] # None /\ sgtCode[t] \in PaidCodes
    /\ Announced(t, "success") => paidBy[t] # None

\* The 200 of confirm goes only to the request that was charged, however many
\* confirm the same transaction; and, when no reply is lost and no write
\* throws, a request that was charged is not answered 422.
AnswersMatchCharges ==
  \A r \in Confirms :
    /\ answer[r] = "200" => paidBy[target[r]] = r
    /\ faults = {} /\ answer[r] = "422" => paidBy[target[r]] # r

\* Without crashes and failing writes nothing is left in PROCESSING, which no
\* code picks up: some confirm is still on its way to a final status.
ProcessingIsOwned ==
  faults \cap {"db", "crash"} = {} =>
    \A t \in Txs : status[t] = "processing" =>
      \E r \in Confirms :
        target[r] = t /\ pc[r] \in {"card", "secrets", "transfer", "settle", "fail"}

\* The stored outcome has been announced, or the handler that wrote one is
\* about to announce it.
SuccessIsTold(t) ==
  status[t] = "success" =>
    \/ Announced(t, "success")
    \/ \E r \in Confirms : target[r] = t /\ pc[r] \in {"balance", "tellPaid"}
FailureIsTold(t) ==
  status[t] = "failed" =>
    \/ Announced(t, "failed")
    \/ \E r \in Confirms : target[r] = t /\ pc[r] = "tellFailed"
ClosingIsTold(t) ==
  status[t] = "cancelled" =>
    \/ Announced(t, "cancelled") \/ Announced(t, "expired")
    \/ \E r \in Cancels : target[r] = t /\ pc[r] = "tellCancelled"
    \/ \E k \in Ticks : cur[k] = t

\* Without crashes and failing writes no interleaving of writers leaves a
\* final status that nobody hears of.
OutcomeIsAnnounced ==
  faults \cap {"db", "crash"} = {} =>
    \A t \in Txs : SuccessIsTold(t) /\ FailureIsTold(t) /\ ClosingIsTold(t)

\* With no fault at all and a single confirm that found the transaction NEW,
\* FAILED means the customer was not charged, whatever cancel and the cron do.
\* (A second confirm that read NEW too breaks it: the SGT refuses its repeated
\* reference and it writes FAILED over the success of the first.)
FoundNew(r, t) == target[r] = t /\ answer[r] \notin {"404", "406"}
FailedMeansUncharged ==
  faults = {} =>
    \A t \in Txs :
      (\A r1, r2 \in Confirms : FoundNew(r1, t) /\ FoundNew(r2, t) => r1 = r2)
        => (status[t] = "failed" => paidBy[t] = None)

\* Once a transaction has left NEW and no confirm that saw it NEW is still
\* running, it is never sent to the SGT again: a later confirm, after a crash
\* or not, cannot have it charged.
Settled(t) ==
  /\ status[t] \notin {"absent", "new"}
  /\ \A r \in Confirms : ~(target[r] = t /\ InFlight(r))
NeverSentAgain ==
  [][\A t \in Txs : Settled(t) =>
       Settled(t)' /\ calls'[t] = calls[t]]_vars

\* A final status is final once the handlers and ticks that looked at the
\* transaction earlier are done: what no guard of updateStatus ensures, the
\* checks of confirm, cancel and findExpired ensure for later arrivals.
Closed(t) ==
  /\ status[t] \in Final
  /\ \A r \in Requests : ~(target[r] = t /\ InFlight(r))
  /\ \A k \in Ticks : t \notin todo[k] /\ cur[k] # t
ClosedStaysClosed ==
  [][\A t \in Txs : Closed(t) =>
       Closed(t)' /\ status'[t] = status[t] /\ cardId'[t] = cardId[t]
       /\ customerId'[t] = customerId[t] /\ sgtCode'[t] = sgtCode[t]]_vars

\* Every step does what the contract allows: charge once, book only what was
\* charged, tell "paid" only to the payer.
Contract == INSTANCE PaymentContract WITH
  Payers <- Confirms,
  charged <- paidBy,
  booked <- {t \in Txs : status[t] = "success"},
  told <- [r \in Confirms |-> IF answer[r] = "none" THEN "waiting"
                              ELSE IF answer[r] = "200" THEN "paid" ELSE "other"]
KeepsContract == Contract!Spec

\* A confirm, cancel or tick that has started comes to its end.
EveryRequestIsAnswered ==
  \A r \in Requests : InFlight(r) ~> answer[r] # "none"

\* A stored transaction does not stay NEW or PROCESSING: the cron cancels it
\* when it expires unless a confirm or a cancel got there first.
EveryTransactionIsResolved ==
  \A t \in Txs : status[t] \in {"new", "processing"} ~> status[t] \in Final

\* The room hears of the stored outcome, unless it is overwritten first.
OutcomeReachesTheRoom ==
  \A t \in Txs, s \in Final :
    status[t] = s ~>
      \/ status[t] # s \/ s \in pushed[t]
      \/ s = "cancelled" /\ "expired" \in pushed[t]

-----------------------------------------------------------------------------
(* What the repository says of transactions, and the code does not do.     *)

\* The state machine of the domain: success, failed and cancelled are final,
\* and a status changes only along its transitions.
FollowsStateMachine ==
  [][\A t \in Txs : status[t] # "absent" /\ status'[t] # status[t] =>
       IsValidTransition(status[t], status'[t])]_vars
=============================================================================
