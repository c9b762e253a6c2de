--------------------------- MODULE PaymentsProofs ---------------------------
(***************************************************************************)
(* What is proved of Payments for every set of transactions, requests and  *)
(* ticks, and every combination of failures.                               *)
(***************************************************************************)
EXTENDS Payments, TLAPS

-----------------------------------------------------------------------------
(* Types.                                                                  *)

\* A request that has started knows its transaction: needed for the types,
\* because the handlers write to status[target[r]].
Located == \A r \in Requests : pc[r] # "idle" => target[r] \in Txs
Shape == TypeOK /\ Located

LEMMA ShapeInvariant == Spec => []Shape
<1>1. Init => Shape
  BY DEF Init, Shape, Located, TypeOK, Stored, Answers, ConfirmPcs
<1>2. Shape /\ [Next]_vars => Shape'
  <2> SUFFICES ASSUME Shape, [Next]_vars PROVE Shape'
    OBVIOUS
  <2> USE DEF Shape, Located, TypeOK, Stored, Final, Outcomes, ConfirmPcs, CancelPcs, Answers,
              PaidCodes, RefusedCodes, Requests, doc, env, req, cron, sgt, room,
              Goto, Respond, UpdateStatus, Emit
  <2>1. ASSUME NEW t \in Txs, Store(t) PROVE Shape'
    BY <2>1 DEF Store
  <2>2. ASSUME NEW t \in Txs, TtlPasses(t) PROVE Shape'
    BY <2>2 DEF TtlPasses
  <2>3. ASSUME NEW r \in Confirms, NEW t \in Txs, ConfirmFind(r, t) PROVE Shape'
    BY <2>3 DEF ConfirmFind
  <2>4. ASSUME NEW r \in Confirms, NEW t \in Txs, SgtLate(t, r) PROVE Shape'
    BY <2>4 DEF SgtLate
  <2>5. ASSUME NEW r \in Confirms, ConfirmMark(r) PROVE Shape'
    BY <2>5 DEF ConfirmMark
  <2>6. ASSUME NEW r \in Confirms, ReadCard(r) PROVE Shape'
    BY <2>6 DEF ReadCard
  <2>7. ASSUME NEW r \in Confirms, ReadSecrets(r) PROVE Shape'
    BY <2>7 DEF ReadSecrets
  <2>8. ASSUME NEW r \in Confirms, Transfer(r) PROVE Shape'
    BY <2>8, SMTT(30) DEF Transfer, SgtExecutes
  <2>9. ASSUME NEW r \in Confirms, Settle(r) PROVE Shape'
    BY <2>9 DEF Settle
  <2>10. ASSUME NEW r \in Confirms, UpdateBalance(r) PROVE Shape'
    BY <2>10 DEF UpdateBalance
  <2>11. ASSUME NEW r \in Confirms, TellPaid(r) PROVE Shape'
    BY <2>11 DEF TellPaid
  <2>12. ASSUME NEW r \in Confirms, FailAndReturn(r) PROVE Shape'
    BY <2>12 DEF FailAndReturn
  <2>13. ASSUME NEW r \in Confirms, TellFailed(r) PROVE Shape'
    BY <2>13 DEF TellFailed
  <2>14. ASSUME NEW r \in Cancels, NEW t \in Txs, CancelFind(r, t) PROVE Shape'
    BY <2>14 DEF CancelFind
  <2>15. ASSUME NEW r \in Cancels, CancelWrite(r) PROVE Shape'
    BY <2>15, SMTT(30) DEF CancelWrite
  <2>16. ASSUME NEW r \in Cancels, TellCancelled(r) PROVE Shape'
    BY <2>16 DEF TellCancelled
  <2>17. ASSUME NEW k \in Ticks, TickFind(k) PROVE Shape'
    BY <2>17 DEF TickFind
  <2>18. ASSUME NEW k \in Ticks, NEW t \in Txs, TickExpire(k, t) PROVE Shape'
    BY <2>18 DEF TickExpire
  <2>19. ASSUME NEW k \in Ticks, TickTell(k) PROVE Shape'
    BY <2>19 DEF TickTell
  <2>20. ASSUME NEW t \in Txs, NEW o \in Outcomes, Push(t, o) PROVE Shape'
    BY <2>20 DEF Push
  <2>21. CASE Crash
    BY <2>21 DEF Crash, InFlight
  <2>22. CASE UNCHANGED vars
    BY <2>22 DEF vars
  <2> HIDE DEF Shape, Located, TypeOK, Stored, Final, Outcomes, ConfirmPcs, CancelPcs, Answers,
               PaidCodes, RefusedCodes, Requests, doc, env, req, cron, sgt, room,
               Goto, Respond, UpdateStatus, Emit
  <2> QED
    BY <2>1, <2>2, <2>3, <2>4, <2>5, <2>6, <2>7, <2>8, <2>9, <2>10, <2>11,
       <2>12, <2>13, <2>14, <2>15, <2>16, <2>17, <2>18, <2>19, <2>20, <2>21,
       <2>22 DEF Next, ConfirmStep, CancelStep, TickStep
<1> QED
  BY <1>1, <1>2, PTL DEF Spec

\* Every handler, tick and notifier step keeps the documents, the requests in
\* flight and the SGT's books well formed.
THEOREM TypeCorrect == Spec => []TypeOK
<1>1. Shape => TypeOK
  BY DEF Shape
<1> QED
  BY <1>1, ShapeInvariant, PTL

-----------------------------------------------------------------------------
(* Money.  SuccessIsBacked is not inductive: the write of SUCCESS looks at  *)
(* the reply the request carries since Transfer, so the invariant follows   *)
(* the request from the reply to its answer.                                *)

\* A request that has not called the SGT carries no reply.
BeforeReply == {"idle", "mark", "card", "secrets", "transfer"}
NoReplyYet == \A r \in Confirms : pc[r] \in BeforeReply => reply[r] = None
\* A success code is carried only by the request that moved the money.
ReplyIsBacked ==
  \A r \in Confirms :
    reply[r] \in PaidCodes => target[r] \in Txs /\ paidBy[target[r]] = r
\* Only a request that carries a success code is on its way to the 200.
PaidPath ==
  \A r \in Confirms :
    pc[r] \in {"balance", "tellPaid"} \/ answer[r] = "200" => reply[r] \in PaidCodes
\* A request is answered when it is done, and only then.
AnsweredOnce == \A r \in Confirms : answer[r] = "none" <=> pc[r] # "done"

Money ==
  NoReplyYet /\ ReplyIsBacked /\ PaidPath /\ AnsweredOnce /\ SuccessIsBacked

LEMMA MoneyInitially == Init => Money
  BY ConstantsAssumption
  DEF Init, Money, BeforeReply, NoReplyYet, ReplyIsBacked, PaidPath, AnsweredOnce,
      SuccessIsBacked, Announced, PaidCodes, Requests, Outcomes

LEMMA MoneyStep == ASSUME Shape, Money, [Next]_vars PROVE Money'
<1> USE ConstantsAssumption
    DEF Money, BeforeReply, NoReplyYet, ReplyIsBacked, PaidPath, AnsweredOnce,
        SuccessIsBacked, Announced, Shape, Located, TypeOK, Stored, Final,
        Outcomes, ConfirmPcs, CancelPcs, Answers, PaidCodes, RefusedCodes,
        Requests, doc, env, req, cron, sgt, room, Goto, Respond, UpdateStatus,
        Emit
<1>1. ASSUME NEW t \in Txs, Store(t) PROVE Money'
  BY <1>1 DEF Store
<1>2. ASSUME NEW t \in Txs, TtlPasses(t) PROVE Money'
  BY <1>2 DEF TtlPasses
<1>3. ASSUME NEW r \in Confirms, NEW t \in Txs, ConfirmFind(r, t) PROVE Money'
  BY <1>3 DEF ConfirmFind
<1>4. ASSUME NEW r \in Confirms, NEW t \in Txs, SgtLate(t, r) PROVE Money'
  BY <1>4 DEF SgtLate
<1>5. ASSUME NEW r \in Confirms, ConfirmMark(r) PROVE Money'
  BY <1>5 DEF ConfirmMark
<1>6. ASSUME NEW r \in Confirms, ReadCard(r) PROVE Money'
  BY <1>6 DEF ReadCard
<1>7. ASSUME NEW r \in Confirms, ReadSecrets(r) PROVE Money'
  BY <1>7 DEF ReadSecrets
<1>8. ASSUME NEW r \in Confirms, Transfer(r) PROVE Money'
  BY <1>8 DEF Transfer, SgtExecutes
<1>9. ASSUME NEW r \in Confirms, Settle(r) PROVE Money'
  BY <1>9 DEF Settle
<1>10. ASSUME NEW r \in Confirms, UpdateBalance(r) PROVE Money'
  BY <1>10 DEF UpdateBalance
<1>11. ASSUME NEW r \in Confirms, TellPaid(r) PROVE Money'
  BY <1>11 DEF TellPaid
<1>12. ASSUME NEW r \in Confirms, FailAndReturn(r) PROVE Money'
  BY <1>12 DEF FailAndReturn
<1>13. ASSUME NEW r \in Confirms, TellFailed(r) PROVE Money'
  BY <1>13 DEF TellFailed
<1>14. ASSUME NEW r \in Cancels, NEW t \in Txs, CancelFind(r, t) PROVE Money'
  BY <1>14 DEF CancelFind
<1>15. ASSUME NEW r \in Cancels, CancelWrite(r) PROVE Money'
  BY <1>15 DEF CancelWrite
<1>16. ASSUME NEW r \in Cancels, TellCancelled(r) PROVE Money'
  BY <1>16 DEF TellCancelled
<1>17. ASSUME NEW k \in Ticks, TickFind(k) PROVE Money'
  BY <1>17 DEF TickFind
<1>18. ASSUME NEW k \in Ticks, NEW t \in Txs, TickExpire(k, t) PROVE Money'
  BY <1>18 DEF TickExpire
<1>19. ASSUME NEW k \in Ticks, TickTell(k) PROVE Money'
  BY <1>19 DEF TickTell
<1>20. ASSUME NEW t \in Txs, NEW o \in Outcomes, Push(t, o) PROVE Money'
  BY <1>20 DEF Push
<1>21. CASE Crash
  BY <1>21 DEF Crash, InFlight
<1>22. CASE UNCHANGED vars
  BY <1>22 DEF vars
<1> HIDE DEF Money
<1> QED
  BY <1>1, <1>2, <1>3, <1>4, <1>5, <1>6, <1>7, <1>8, <1>9, <1>10, <1>11, <1>12,
     <1>13, <1>14, <1>15, <1>16, <1>17, <1>18, <1>19, <1>20, <1>21, <1>22
  DEF Next, ConfirmStep, CancelStep, TickStep

LEMMA MoneyInvariant == Spec => []Money
  BY ShapeInvariant, MoneyInitially, MoneyStep, PTL DEF Spec

\* A stored or announced success was charged and carries a success code: no
\* interleaving of confirms, cancels, ticks, lost replies, failing writes and
\* crashes with the processor's blind writes books money that did not move.
THEOREM SuccessBacked == Spec => []SuccessIsBacked
<1>1. Money => SuccessIsBacked
  BY DEF Money
<1> QED
  BY <1>1, MoneyInvariant, PTL
-----------------------------------------------------------------------------
(* Who was charged, who wrote FAILED.                                      *)

\* The payer sent the transfer.
PayerCalled == \A t \in Txs : paidBy[t] # None => paidBy[t] \in calls[t]
\* Who sent it found the transaction NEW and is past the call.
CallerFoundNew ==
  \A t \in Txs : \A r \in calls[t] :
    /\ target[r] = t /\ pc[r] \notin BeforeReply
    /\ answer[r] \notin {"404", "406"}
\* With no fault the payer knows that it paid, ...
PayerKnows == faults = {} => \A t \in Txs, r \in Confirms :
                               paidBy[t] = r => reply[r] \in PaidCodes
\* ... it does not take the way of failure, ...
FailPath ==
  faults = {} => \A r \in Confirms :
    pc[r] \in {"fail", "tellFailed"} \/ answer[r] = "422" => reply[r] \notin PaidCodes
\* ... and FAILED was written by a request that found the transaction NEW, is
\* past its call and did not pay.
FailedHasAuthor ==
  faults = {} => \A t \in Txs : status[t] = "failed" =>
    \E r \in Confirms : /\ FoundNew(r, t) /\ paidBy[t] # r
                        /\ pc[r] \in {"tellFailed", "done"}

Blame ==
  PayerCalled /\ CallerFoundNew /\ PayerKnows /\ FailPath /\ FailedHasAuthor

LEMMA BlameInitially == Init => Blame
  BY ConstantsAssumption
  DEF Init, Blame, BeforeReply, PayerCalled, CallerFoundNew, PayerKnows,
      FailPath, FailedHasAuthor, PaidCodes, Requests

LEMMA BlameStep == ASSUME Shape, Money, Blame, [Next]_vars PROVE Blame'
<1> USE ConstantsAssumption
    DEF Blame, BeforeReply, PayerCalled, CallerFoundNew, PayerKnows, FailPath,
        FailedHasAuthor, FoundNew, Money, NoReplyYet, AnsweredOnce, Shape,
        Located, TypeOK, Stored, Final, ConfirmPcs, CancelPcs, Answers,
        PaidCodes, RefusedCodes, Requests, doc, env, req, cron, sgt, room,
        Goto, Respond, UpdateStatus, Emit, DbThrows
<1>1. ASSUME NEW t \in Txs, Store(t) PROVE Blame'
  BY <1>1 DEF Store
<1>2. ASSUME NEW t \in Txs, TtlPasses(t) PROVE Blame'
  BY <1>2 DEF TtlPasses
<1>3. ASSUME NEW r \in Confirms, NEW t \in Txs, ConfirmFind(r, t) PROVE Blame'
  BY <1>3, SMTT(30) DEF ConfirmFind
<1>4. ASSUME NEW r \in Confirms, NEW t \in Txs, SgtLate(t, r) PROVE Blame'
  BY <1>4 DEF SgtLate
<1>5. ASSUME NEW r \in Confirms, ConfirmMark(r) PROVE Blame'
  BY <1>5, SMTT(30) DEF ConfirmMark
<1>6. ASSUME NEW r \in Confirms, ReadCard(r) PROVE Blame'
  BY <1>6 DEF ReadCard
<1>7. ASSUME NEW r \in Confirms, ReadSecrets(r) PROVE Blame'
  BY <1>7 DEF ReadSecrets
<1>8. ASSUME NEW r \in Confirms, Transfer(r) PROVE Blame'
  <2>1. PayerCalled'
    BY <1>8 DEF Transfer, SgtExecutes
  <2>2. CallerFoundNew'
    BY <1>8 DEF Transfer, SgtExecutes
  <2>3. PayerKnows'
    <3> SUFFICES ASSUME faults = {}, NEW u \in Txs, NEW q \in Confirms,
                        paidBy'[u] = q
                 PROVE  reply'[q] \in PaidCodes
      BY <1>8 DEF Transfer
    <3>1. CASE paidBy[u] = q
      <4>1. q # r
        BY <3>1, <1>8 DEF Transfer
      <4> QED
        BY <3>1, <4>1, <1>8 DEF Transfer, SgtExecutes
    <3>2. CASE paidBy[u] # q
      <4>1. q = r /\ reply'[q] \in PaidCodes \cup {}
        BY <3>2, <1>8 DEF Transfer, SgtExecutes
      <4> QED
        BY <4>1
    <3> QED
      BY <3>1, <3>2
  <2>4. FailPath'
    BY <1>8 DEF Transfer, SgtExecutes
  <2>5. FailedHasAuthor'
    BY <1>8 DEF Transfer, SgtExecutes
  <2> QED
    BY <2>1, <2>2, <2>3, <2>4, <2>5
<1>9. ASSUME NEW r \in Confirms, Settle(r) PROVE Blame'
  BY <1>9 DEF Settle
<1>10. ASSUME NEW r \in Confirms, UpdateBalance(r) PROVE Blame'
  BY <1>10 DEF UpdateBalance
<1>11. ASSUME NEW r \in Confirms, TellPaid(r) PROVE Blame'
  BY <1>11 DEF TellPaid
<1>12. ASSUME NEW r \in Confirms, FailAndReturn(r) PROVE Blame'
  <2>1. PayerCalled'
    BY <1>12 DEF FailAndReturn
  <2>2. CallerFoundNew'
    BY <1>12 DEF FailAndReturn
  <2>3. PayerKnows'
    BY <1>12 DEF FailAndReturn
  <2>4. FailPath'
    BY <1>12 DEF FailAndReturn
  <2>5. FailedHasAuthor'
    BY <1>12 DEF FailAndReturn
  <2> QED
    BY <2>1, <2>2, <2>3, <2>4, <2>5
<1>13. ASSUME NEW r \in Confirms, TellFailed(r) PROVE Blame'
  BY <1>13 DEF TellFailed
<1>14. ASSUME NEW r \in Cancels, NEW t \in Txs, CancelFind(r, t) PROVE Blame'
  BY <1>14 DEF CancelFind
<1>15. ASSUME NEW r \in Cancels, CancelWrite(r) PROVE Blame'
  <2>1. PayerCalled'
    BY <1>15 DEF CancelWrite
  <2>2. CallerFoundNew'
    BY <1>15 DEF CancelWrite
  <2>3. PayerKnows'
    BY <1>15 DEF CancelWrite
  <2>4. FailPath'
    BY <1>15 DEF CancelWrite
  <2>5. FailedHasAuthor'
    BY <1>15 DEF CancelWrite
  <2> QED
    BY <2>1, <2>2, <2>3, <2>4, <2>5
<1>16. ASSUME NEW r \in Cancels, TellCancelled(r) PROVE Blame'
  BY <1>16 DEF TellCancelled
<1>17. ASSUME NEW k \in Ticks, TickFind(k) PROVE Blame'
  BY <1>17 DEF TickFind
<1>18. ASSUME NEW k \in Ticks, NEW t \in Txs, TickExpire(k, t) PROVE Blame'
  BY <1>18 DEF TickExpire
<1>19. ASSUME NEW k \in Ticks, TickTell(k) PROVE Blame'
  BY <1>19 DEF TickTell
<1>20. ASSUME NEW t \in Txs, NEW o \in Outcomes, Push(t, o) PROVE Blame'
  BY <1>20 DEF Push
<1>21. CASE Crash
  BY <1>21 DEF Crash, InFlight
<1>22. CASE UNCHANGED vars
  BY <1>22 DEF vars
<1> HIDE DEF Blame
<1> QED
  BY <1>1, <1>2, <1>3, <1>4, <1>5, <1>6, <1>7, <1>8, <1>9, <1>10, <1>11,
     <1>12, <1>13, <1>14, <1>15, <1>16, <1>17, <1>18, <1>19, <1>20, <1>21, <1>22
  DEF Next, ConfirmStep, CancelStep, TickStep

LEMMA BlameInvariant == Spec => []Blame
  BY ShapeInvariant, MoneyInvariant, BlameInitially, BlameStep, PTL DEF Spec

\* Only the request that was charged is answered 200, and in a behaviour
\* without faults it is never answered 422, however many confirm at once.
THEOREM AnswersMatch == Spec => []AnswersMatchCharges
<1>1. Shape /\ Money /\ Blame => AnswersMatchCharges
  BY ConstantsAssumption
  DEF Shape, Located, TypeOK, Money, ReplyIsBacked, PaidPath, AnsweredOnce,
      Blame, PayerKnows, FailPath, AnswersMatchCharges, Requests
<1> QED
  BY <1>1, ShapeInvariant, MoneyInvariant, BlameInvariant, PTL

\* Without faults, a transaction that a single confirm found NEW and that is
\* FAILED was not charged, whatever cancels and ticks did to it.
THEOREM FailedUncharged == Spec => []FailedMeansUncharged
<1>1. Shape /\ Blame => FailedMeansUncharged
  BY ConstantsAssumption
  DEF Shape, TypeOK, Blame, PayerCalled, CallerFoundNew, FailedHasAuthor,
      FoundNew, FailedMeansUncharged, Requests
<1> QED
  BY <1>1, ShapeInvariant, BlameInvariant, PTL

-----------------------------------------------------------------------------
(* Nothing is forgotten.                                                   *)

LEMMA OwnedStep ==
  ASSUME Shape, ProcessingIsOwned, [Next]_vars PROVE ProcessingIsOwned'
<1> USE DEF ProcessingIsOwned, Shape, Located, TypeOK, Stored, Final, ConfirmPcs,
        CancelPcs, PaidCodes, RefusedCodes, Requests, doc, env, req, cron, sgt,
        room, Goto, Respond, UpdateStatus, Emit, DbThrows
<1>1. ASSUME NEW t \in Txs, Store(t) PROVE ProcessingIsOwned'
  BY <1>1 DEF Store
<1>2. ASSUME NEW t \in Txs, TtlPasses(t) PROVE ProcessingIsOwned'
  BY <1>2 DEF TtlPasses
<1>3. ASSUME NEW r \in Confirms, NEW t \in Txs, ConfirmFind(r, t) PROVE ProcessingIsOwned'
  BY <1>3 DEF ConfirmFind
<1>4. ASSUME NEW r \in Confirms, NEW t \in Txs, SgtLate(t, r) PROVE ProcessingIsOwned'
  BY <1>4 DEF SgtLate
<1>5. ASSUME NEW r \in Confirms, ConfirmMark(r) PROVE ProcessingIsOwned'
  BY <1>5 DEF ConfirmMark
<1>6. ASSUME NEW r \in Confirms, ReadCard(r) PROVE ProcessingIsOwned'
  BY <1>6 DEF ReadCard
<1>7. ASSUME NEW r \in Confirms, ReadSecrets(r) PROVE ProcessingIsOwned'
  BY <1>7 DEF ReadSecrets
<1>8. ASSUME NEW r \in Confirms, Transfer(r) PROVE ProcessingIsOwned'
  BY <1>8 DEF Transfer, SgtExecutes
<1>9. ASSUME NEW r \in Confirms, Settle(r) PROVE ProcessingIsOwned'
  BY <1>9 DEF Settle
<1>10. ASSUME NEW r \in Confirms, UpdateBalance(r) PROVE ProcessingIsOwned'
  BY <1>10 DEF UpdateBalance
<1>11. ASSUME NEW r \in Confirms, TellPaid(r) PROVE ProcessingIsOwned'
  BY <1>11 DEF TellPaid
<1>12. ASSUME NEW r \in Confirms, FailAndReturn(r) PROVE ProcessingIsOwned'
  BY <1>12 DEF FailAndReturn
<1>13. ASSUME NEW r \in Confirms, TellFailed(r) PROVE ProcessingIsOwned'
  BY <1>13 DEF TellFailed
<1>14. ASSUME NEW r \in Cancels, NEW t \in Txs, CancelFind(r, t) PROVE ProcessingIsOwned'
  BY <1>14 DEF CancelFind
<1>15. ASSUME NEW r \in Cancels, CancelWrite(r) PROVE ProcessingIsOwned'
  BY <1>15 DEF CancelWrite
<1>16. ASSUME NEW r \in Cancels, TellCancelled(r) PROVE ProcessingIsOwned'
  BY <1>16 DEF TellCancelled
<1>17. ASSUME NEW k \in Ticks, TickFind(k) PROVE ProcessingIsOwned'
  BY <1>17 DEF TickFind
<1>18. ASSUME NEW k \in Ticks, NEW t \in Txs, TickExpire(k, t) PROVE ProcessingIsOwned'
  BY <1>18 DEF TickExpire
<1>19. ASSUME NEW k \in Ticks, TickTell(k) PROVE ProcessingIsOwned'
  BY <1>19 DEF TickTell
<1>20. ASSUME NEW t \in Txs, NEW o \in Outcomes, Push(t, o) PROVE ProcessingIsOwned'
  BY <1>20 DEF Push
<1>21. CASE Crash
  BY <1>21 DEF Crash, InFlight
<1>22. CASE UNCHANGED vars
  BY <1>22 DEF vars
<1> HIDE DEF ProcessingIsOwned
<1> QED
  BY <1>1, <1>2, <1>3, <1>4, <1>5, <1>6, <1>7, <1>8, <1>9, <1>10, <1>11,
     <1>12, <1>13, <1>14, <1>15, <1>16, <1>17, <1>18, <1>19, <1>20, <1>21, <1>22
  DEF Next, ConfirmStep, CancelStep, TickStep

\* Without crashes and failing writes a PROCESSING transaction always has a
\* confirm that will still write its final status.
THEOREM ProcessingOwned == Spec => []ProcessingIsOwned
<1>1. Init => ProcessingIsOwned
  BY DEF Init, ProcessingIsOwned
<1> QED
  BY <1>1, OwnedStep, ShapeInvariant, PTL DEF Spec

LEMMA SuccessToldStep ==
  ASSUME Shape, NEW u \in Txs, SuccessIsTold(u), [Next]_vars,
         faults \cap {"db", "crash"} = {}
  PROVE  SuccessIsTold(u)'
<1> USE ConstantsAssumption
    DEF SuccessIsTold, Announced, Shape, Located, TypeOK, Stored, Final,
        Outcomes, ConfirmPcs, CancelPcs, PaidCodes, RefusedCodes, Requests, doc,
        env, req, cron, sgt, room, Goto, Respond, UpdateStatus, Emit, DbThrows
<1>1. ASSUME NEW t \in Txs, Store(t) PROVE SuccessIsTold(u)'
  BY <1>1 DEF Store
<1>2. ASSUME NEW t \in Txs, TtlPasses(t) PROVE SuccessIsTold(u)'
  BY <1>2 DEF TtlPasses
<1>3. ASSUME NEW r \in Confirms, NEW t \in Txs, ConfirmFind(r, t) PROVE SuccessIsTold(u)'
  BY <1>3 DEF ConfirmFind
<1>4. ASSUME NEW r \in Confirms, NEW t \in Txs, SgtLate(t, r) PROVE SuccessIsTold(u)'
  BY <1>4 DEF SgtLate
<1>5. ASSUME NEW r \in Confirms, ConfirmMark(r) PROVE SuccessIsTold(u)'
  BY <1>5 DEF ConfirmMark
<1>6. ASSUME NEW r \in Confirms, ReadCard(r) PROVE SuccessIsTold(u)'
  BY <1>6 DEF ReadCard
<1>7. ASSUME NEW r \in Confirms, ReadSecrets(r) PROVE SuccessIsTold(u)'
  BY <1>7 DEF ReadSecrets
<1>8. ASSUME NEW r \in Confirms, Transfer(r) PROVE SuccessIsTold(u)'
  BY <1>8 DEF Transfer, SgtExecutes
<1>9. ASSUME NEW r \in Confirms, Settle(r) PROVE SuccessIsTold(u)'
  BY <1>9 DEF Settle
<1>10. ASSUME NEW r \in Confirms, UpdateBalance(r) PROVE SuccessIsTold(u)'
  BY <1>10 DEF UpdateBalance
<1>11. ASSUME NEW r \in Confirms, TellPaid(r) PROVE SuccessIsTold(u)'
  BY <1>11 DEF TellPaid
<1>12. ASSUME NEW r \in Confirms, FailAndReturn(r) PROVE SuccessIsTold(u)'
  BY <1>12 DEF FailAndReturn
<1>13. ASSUME NEW r \in Confirms, TellFailed(r) PROVE SuccessIsTold(u)'
  BY <1>13 DEF TellFailed
<1>14. ASSUME NEW r \in Cancels, NEW t \in Txs, CancelFind(r, t) PROVE SuccessIsTold(u)'
  BY <1>14 DEF CancelFind
<1>15. ASSUME NEW r \in Cancels, CancelWrite(r) PROVE SuccessIsTold(u)'
  BY <1>15 DEF CancelWrite
<1>16. ASSUME NEW r \in Cancels, TellCancelled(r) PROVE SuccessIsTold(u)'
  BY <1>16 DEF TellCancelled
<1>17. ASSUME NEW k \in Ticks, TickFind(k) PROVE SuccessIsTold(u)'
  BY <1>17 DEF TickFind
<1>18. ASSUME NEW k \in Ticks, NEW t \in Txs, TickExpire(k, t) PROVE SuccessIsTold(u)'
  BY <1>18 DEF TickExpire
<1>19. ASSUME NEW k \in Ticks, TickTell(k) PROVE SuccessIsTold(u)'
  BY <1>19 DEF TickTell
<1>20. ASSUME NEW t \in Txs, NEW o \in Outcomes, Push(t, o) PROVE SuccessIsTold(u)'
  BY <1>20 DEF Push
<1>21. CASE Crash
  BY <1>21 DEF Crash, InFlight
<1>22. CASE UNCHANGED vars
  BY <1>22 DEF vars
<1> HIDE DEF SuccessIsTold
<1> QED
  BY <1>1, <1>2, <1>3, <1>4, <1>5, <1>6, <1>7, <1>8, <1>9, <1>10, <1>11,
     <1>12, <1>13, <1>14, <1>15, <1>16, <1>17, <1>18, <1>19, <1>20, <1>21, <1>22
  DEF Next, ConfirmStep, CancelStep, TickStep

LEMMA FailureToldStep ==
  ASSUME Shape, NEW u \in Txs, FailureIsTold(u), [Next]_vars,
         faults \cap {"db", "crash"} = {}
  PROVE  FailureIsTold(u)'
<1> USE ConstantsAssumption
    DEF FailureIsTold, Announced, Shape, Located, TypeOK, Stored, Final,
        Outcomes, ConfirmPcs, CancelPcs, PaidCodes, RefusedCodes, Requests, doc,
        env, req, cron, sgt, room, Goto, Respond, UpdateStatus, Emit, DbThrows
<1>1. ASSUME NEW t \in Txs, Store(t) PROVE FailureIsTold(u)'
  BY <1>1 DEF Store
<1>2. ASSUME NEW t \in Txs, TtlPasses(t) PROVE FailureIsTold(u)'
  BY <1>2 DEF TtlPasses
<1>3. ASSUME NEW r \in Confirms, NEW t \in Txs, ConfirmFind(r, t) PROVE FailureIsTold(u)'
  BY <1>3 DEF ConfirmFind
<1>4. ASSUME NEW r \in Confirms, NEW t \in Txs, SgtLate(t, r) PROVE FailureIsTold(u)'
  BY <1>4 DEF SgtLate
<1>5. ASSUME NEW r \in Confirms, ConfirmMark(r) PROVE FailureIsTold(u)'
  BY <1>5 DEF ConfirmMark
<1>6. ASSUME NEW r \in Confirms, ReadCard(r) PROVE FailureIsTold(u)'
  BY <1>6 DEF ReadCard
<1>7. ASSUME NEW r \in Confirms, ReadSecrets(r) PROVE FailureIsTold(u)'
  BY <1>7 DEF ReadSecrets
<1>8. ASSUME NEW r \in Confirms, Transfer(r) PROVE FailureIsTold(u)'
  BY <1>8 DEF Transfer, SgtExecutes
<1>9. ASSUME NEW r \in Confirms, Settle(r) PROVE FailureIsTold(u)'
  BY <1>9 DEF Settle
<1>10. ASSUME NEW r \in Confirms, UpdateBalance(r) PROVE FailureIsTold(u)'
  BY <1>10 DEF UpdateBalance
<1>11. ASSUME NEW r \in Confirms, TellPaid(r) PROVE FailureIsTold(u)'
  BY <1>11 DEF TellPaid
<1>12. ASSUME NEW r \in Confirms, FailAndReturn(r) PROVE FailureIsTold(u)'
  BY <1>12 DEF FailAndReturn
<1>13. ASSUME NEW r \in Confirms, TellFailed(r) PROVE FailureIsTold(u)'
  BY <1>13 DEF TellFailed
<1>14. ASSUME NEW r \in Cancels, NEW t \in Txs, CancelFind(r, t) PROVE FailureIsTold(u)'
  BY <1>14 DEF CancelFind
<1>15. ASSUME NEW r \in Cancels, CancelWrite(r) PROVE FailureIsTold(u)'
  BY <1>15 DEF CancelWrite
<1>16. ASSUME NEW r \in Cancels, TellCancelled(r) PROVE FailureIsTold(u)'
  BY <1>16 DEF TellCancelled
<1>17. ASSUME NEW k \in Ticks, TickFind(k) PROVE FailureIsTold(u)'
  BY <1>17 DEF TickFind
<1>18. ASSUME NEW k \in Ticks, NEW t \in Txs, TickExpire(k, t) PROVE FailureIsTold(u)'
  BY <1>18 DEF TickExpire
<1>19. ASSUME NEW k \in Ticks, TickTell(k) PROVE FailureIsTold(u)'
  BY <1>19 DEF TickTell
<1>20. ASSUME NEW t \in Txs, NEW o \in Outcomes, Push(t, o) PROVE FailureIsTold(u)'
  BY <1>20 DEF Push
<1>21. CASE Crash
  BY <1>21 DEF Crash, InFlight
<1>22. CASE UNCHANGED vars
  BY <1>22 DEF vars
<1> HIDE DEF FailureIsTold
<1> QED
  BY <1>1, <1>2, <1>3, <1>4, <1>5, <1>6, <1>7, <1>8, <1>9, <1>10, <1>11,
     <1>12, <1>13, <1>14, <1>15, <1>16, <1>17, <1>18, <1>19, <1>20, <1>21, <1>22
  DEF Next, ConfirmStep, CancelStep, TickStep

LEMMA ClosingToldStep ==
  ASSUME Shape, NEW u \in Txs, ClosingIsTold(u), [Next]_vars,
         faults \cap {"db", "crash"} = {}
  PROVE  ClosingIsTold(u)'
<1> USE ConstantsAssumption
    DEF ClosingIsTold, Announced, Shape, Located, TypeOK, Stored, Final,
        Outcomes, ConfirmPcs, CancelPcs, PaidCodes, RefusedCodes, Requests, doc,
        env, req, cron, sgt, room, Goto, Respond, UpdateStatus, Emit, DbThrows
<1>1. ASSUME NEW t \in Txs, Store(t) PROVE ClosingIsTold(u)'
  BY <1>1 DEF Store
<1>2. ASSUME NEW t \in Txs, TtlPasses(t) PROVE ClosingIsTold(u)'
  BY <1>2 DEF TtlPasses
<1>3. ASSUME NEW r \in Confirms, NEW t \in Txs, ConfirmFind(r, t) PROVE ClosingIsTold(u)'
  BY <1>3 DEF ConfirmFind
<1>4. ASSUME NEW r \in Confirms, NEW t \in Txs, SgtLate(t, r) PROVE ClosingIsTold(u)'
  BY <1>4 DEF SgtLate
<1>5. ASSUME NEW r \in Confirms, ConfirmMark(r) PROVE ClosingIsTold(u)'
  BY <1>5 DEF ConfirmMark
<1>6. ASSUME NEW r \in Confirms, ReadCard(r) PROVE ClosingIsTold(u)'
  BY <1>6 DEF ReadCard
<1>7. ASSUME NEW r \in Confirms, ReadSecrets(r) PROVE ClosingIsTold(u)'
  BY <1>7 DEF ReadSecrets
<1>8. ASSUME NEW r \in Confirms, Transfer(r) PROVE ClosingIsTold(u)'
  BY <1>8 DEF Transfer, SgtExecutes
<1>9. ASSUME NEW r \in Confirms, Settle(r) PROVE ClosingIsTold(u)'
  BY <1>9 DEF Settle
<1>10. ASSUME NEW r \in Confirms, UpdateBalance(r) PROVE ClosingIsTold(u)'
  BY <1>10 DEF UpdateBalance
<1>11. ASSUME NEW r \in Confirms, TellPaid(r) PROVE ClosingIsTold(u)'
  BY <1>11 DEF TellPaid
<1>12. ASSUME NEW r \in Confirms, FailAndReturn(r) PROVE ClosingIsTold(u)'
  BY <1>12 DEF FailAndReturn
<1>13. ASSUME NEW r \in Confirms, TellFailed(r) PROVE ClosingIsTold(u)'
  BY <1>13 DEF TellFailed
<1>14. ASSUME NEW r \in Cancels, NEW t \in Txs, CancelFind(r, t) PROVE ClosingIsTold(u)'
  BY <1>14 DEF CancelFind
<1>15. ASSUME NEW r \in Cancels, CancelWrite(r) PROVE ClosingIsTold(u)'
  BY <1>15 DEF CancelWrite
<1>16. ASSUME NEW r \in Cancels, TellCancelled(r) PROVE ClosingIsTold(u)'
  BY <1>16 DEF TellCancelled
<1>17. ASSUME NEW k \in Ticks, TickFind(k) PROVE ClosingIsTold(u)'
  BY <1>17 DEF TickFind
<1>18. ASSUME NEW k \in Ticks, NEW t \in Txs, TickExpire(k, t) PROVE ClosingIsTold(u)'
  BY <1>18 DEF TickExpire
<1>19. ASSUME NEW k \in Ticks, TickTell(k) PROVE ClosingIsTold(u)'
  BY <1>19 DEF TickTell
<1>20. ASSUME NEW t \in Txs, NEW o \in Outcomes, Push(t, o) PROVE ClosingIsTold(u)'
  BY <1>20 DEF Push
<1>21. CASE Crash
  BY <1>21 DEF Crash, InFlight
<1>22. CASE UNCHANGED vars
  BY <1>22 DEF vars
<1> HIDE DEF ClosingIsTold
<1> QED
  BY <1>1, <1>2, <1>3, <1>4, <1>5, <1>6, <1>7, <1>8, <1>9, <1>10, <1>11,
     <1>12, <1>13, <1>14, <1>15, <1>16, <1>17, <1>18, <1>19, <1>20, <1>21, <1>22
  DEF Next, ConfirmStep, CancelStep, TickStep

\* Without crashes and failing writes a stored outcome has been announced or
\* the handler that wrote it is about to.
THEOREM OutcomeAnnounced == Spec => []OutcomeIsAnnounced
<1>1. Init => OutcomeIsAnnounced
  BY DEF Init, OutcomeIsAnnounced, SuccessIsTold, FailureIsTold, ClosingIsTold
<1>2. Shape /\ OutcomeIsAnnounced /\ [Next]_vars => OutcomeIsAnnounced'
  <2> SUFFICES ASSUME Shape, OutcomeIsAnnounced, [Next]_vars
               PROVE  OutcomeIsAnnounced'
    OBVIOUS
  <2>1. faults' = faults
    BY DEF Next, ConfirmStep, CancelStep, TickStep, Store, TtlPasses,
           ConfirmFind, SgtLate, ConfirmMark, ReadCard, ReadSecrets, Transfer,
           Settle, UpdateBalance, TellPaid, FailAndReturn, TellFailed,
           CancelFind, CancelWrite, TellCancelled, TickFind, TickExpire,
           TickTell, Push, Crash, vars, env
  <2> QED
    BY <2>1, SuccessToldStep, FailureToldStep, ClosingToldStep
    DEF OutcomeIsAnnounced
<1> QED
  BY <1>1, <1>2, ShapeInvariant, PTL DEF Spec

-----------------------------------------------------------------------------
(* What a step may never do.                                               *)

LEMMA SettledStep ==
  ASSUME Shape, NEW u \in Txs, Settled(u), [Next]_vars
  PROVE  Settled(u)' /\ calls'[u] = calls[u]
<1> DEFINE Kept == Settled(u)' /\ calls'[u] = calls[u]
<1> USE ConstantsAssumption
    DEF Settled, InFlight, Shape, Located, TypeOK, Stored, Final, ConfirmPcs,
        CancelPcs, Requests, doc, env, req, cron, sgt, room, Goto, Respond,
        UpdateStatus
<1>1. ASSUME NEW t \in Txs, Store(t) PROVE Kept
  BY <1>1 DEF Store
<1>2. ASSUME NEW t \in Txs, TtlPasses(t) PROVE Kept
  BY <1>2 DEF TtlPasses
<1>3. ASSUME NEW r \in Confirms, NEW t \in Txs, ConfirmFind(r, t) PROVE Kept
  BY <1>3 DEF ConfirmFind
<1>4. ASSUME NEW r \in Confirms, NEW t \in Txs, SgtLate(t, r) PROVE Kept
  BY <1>4 DEF SgtLate
<1>5. ASSUME NEW r \in Confirms, ConfirmMark(r) PROVE Kept
  BY <1>5 DEF ConfirmMark
<1>6. ASSUME NEW r \in Confirms, ReadCard(r) PROVE Kept
  BY <1>6 DEF ReadCard
<1>7. ASSUME NEW r \in Confirms, ReadSecrets(r) PROVE Kept
  BY <1>7 DEF ReadSecrets
<1>8. ASSUME NEW r \in Confirms, Transfer(r) PROVE Kept
  BY <1>8 DEF Transfer, SgtExecutes
<1>9. ASSUME NEW r \in Confirms, Settle(r) PROVE Kept
  BY <1>9 DEF Settle
<1>10. ASSUME NEW r \in Confirms, UpdateBalance(r) PROVE Kept
  BY <1>10 DEF UpdateBalance
<1>11. ASSUME NEW r \in Confirms, TellPaid(r) PROVE Kept
  BY <1>11 DEF TellPaid
<1>12. ASSUME NEW r \in Confirms, FailAndReturn(r) PROVE Kept
  BY <1>12 DEF FailAndReturn
<1>13. ASSUME NEW r \in Confirms, TellFailed(r) PROVE Kept
  BY <1>13 DEF TellFailed
<1>14. ASSUME NEW r \in Cancels, NEW t \in Txs, CancelFind(r, t) PROVE Kept
  BY <1>14 DEF CancelFind
<1>15. ASSUME NEW r \in Cancels, CancelWrite(r) PROVE Kept
  BY <1>15 DEF CancelWrite
<1>16. ASSUME NEW r \in Cancels, TellCancelled(r) PROVE Kept
  BY <1>16 DEF TellCancelled
<1>17. ASSUME NEW k \in Ticks, TickFind(k) PROVE Kept
  BY <1>17 DEF TickFind
<1>18. ASSUME NEW k \in Ticks, NEW t \in Txs, TickExpire(k, t) PROVE Kept
  BY <1>18 DEF TickExpire
<1>19. ASSUME NEW k \in Ticks, TickTell(k) PROVE Kept
  BY <1>19 DEF TickTell
<1>20. ASSUME NEW t \in Txs, NEW o \in Outcomes, Push(t, o) PROVE Kept
  BY <1>20 DEF Push
<1>21. ASSUME Crash PROVE Kept
  BY <1>21 DEF Crash, InFlight
<1>22. ASSUME UNCHANGED vars PROVE Kept
  BY <1>22 DEF vars
<1> HIDE DEF Kept
<1>23. Kept
  BY <1>1, <1>2, <1>3, <1>4, <1>5, <1>6, <1>7, <1>8, <1>9, <1>10, <1>11,
     <1>12, <1>13, <1>14, <1>15, <1>16, <1>17, <1>18, <1>19, <1>20, <1>21, <1>22
  DEF Next, ConfirmStep, CancelStep, TickStep
<1> QED
  BY <1>23 DEF Kept

\* A transaction that is past NEW, with no confirm under way for it, is never
\* sent to the SGT again, whatever requests, ticks and crashes follow.
THEOREM SentNoMore == Spec => NeverSentAgain
<1>1. Shape /\ [Next]_vars =>
        [\A t \in Txs : Settled(t) => Settled(t)' /\ calls'[t] = calls[t]]_vars
  BY SettledStep
<1> QED
  BY <1>1, ShapeInvariant, PTL DEF Spec, NeverSentAgain

LEMMA ClosedStep ==
  ASSUME Shape, NEW u \in Txs, Closed(u), [Next]_vars
  PROVE  /\ Closed(u)' /\ status'[u] = status[u] /\ cardId'[u] = cardId[u]
         /\ customerId'[u] = customerId[u] /\ sgtCode'[u] = sgtCode[u]
<1> DEFINE Kept == /\ Closed(u)' /\ status'[u] = status[u] /\ cardId'[u] = cardId[u]
                   /\ customerId'[u] = customerId[u] /\ sgtCode'[u] = sgtCode[u]
<1> USE ConstantsAssumption
    DEF Closed, InFlight, IsValidTransition, Shape, Located, TypeOK, Stored,
        Final, ConfirmPcs, CancelPcs, Requests, doc, env, req, cron, sgt, room,
        Goto, Respond, UpdateStatus
<1>1. ASSUME NEW t \in Txs, Store(t) PROVE Kept
  BY <1>1 DEF Store
<1>2. ASSUME NEW t \in Txs, TtlPasses(t) PROVE Kept
  BY <1>2 DEF TtlPasses
<1>3. ASSUME NEW r \in Confirms, NEW t \in Txs, ConfirmFind(r, t) PROVE Kept
  BY <1>3 DEF ConfirmFind
<1>4. ASSUME NEW r \in Confirms, NEW t \in Txs, SgtLate(t, r) PROVE Kept
  BY <1>4 DEF SgtLate
<1>5. ASSUME NEW r \in Confirms, ConfirmMark(r) PROVE Kept
  BY <1>5 DEF ConfirmMark
<1>6. ASSUME NEW r \in Confirms, ReadCard(r) PROVE Kept
  BY <1>6 DEF ReadCard
<1>7. ASSUME NEW r \in Confirms, ReadSecrets(r) PROVE Kept
  BY <1>7 DEF ReadSecrets
<1>8. ASSUME NEW r \in Confirms, Transfer(r) PROVE Kept
  BY <1>8 DEF Transfer, SgtExecutes
<1>9. ASSUME NEW r \in Confirms, Settle(r) PROVE Kept
  BY <1>9 DEF Settle
<1>10. ASSUME NEW r \in Confirms, UpdateBalance(r) PROVE Kept
  BY <1>10 DEF UpdateBalance
<1>11. ASSUME NEW r \in Confirms, TellPaid(r) PROVE Kept
  BY <1>11 DEF TellPaid
<1>12. ASSUME NEW r \in Confirms, FailAndReturn(r) PROVE Kept
  BY <1>12 DEF FailAndReturn
<1>13. ASSUME NEW r \in Confirms, TellFailed(r) PROVE Kept
  BY <1>13 DEF TellFailed
<1>14. ASSUME NEW r \in Cancels, NEW t \in Txs, CancelFind(r, t) PROVE Kept
  BY <1>14 DEF CancelFind
<1>15. ASSUME NEW r \in Cancels, CancelWrite(r) PROVE Kept
  BY <1>15 DEF CancelWrite
<1>16. ASSUME NEW r \in Cancels, TellCancelled(r) PROVE Kept
  BY <1>16 DEF TellCancelled
<1>17. ASSUME NEW k \in Ticks, TickFind(k) PROVE Kept
  BY <1>17 DEF TickFind
<1>18. ASSUME NEW k \in Ticks, NEW t \in Txs, TickExpire(k, t) PROVE Kept
  BY <1>18 DEF TickExpire
<1>19. ASSUME NEW k \in Ticks, TickTell(k) PROVE Kept
  BY <1>19 DEF TickTell
<1>20. ASSUME NEW t \in Txs, NEW o \in Outcomes, Push(t, o) PROVE Kept
  BY <1>20 DEF Push
<1>21. ASSUME Crash PROVE Kept
  BY <1>21 DEF Crash, InFlight
<1>22. ASSUME UNCHANGED vars PROVE Kept
  BY <1>22 DEF vars
<1> HIDE DEF Kept
<1>23. Kept
  BY <1>1, <1>2, <1>3, <1>4, <1>5, <1>6, <1>7, <1>8, <1>9, <1>10, <1>11,
     <1>12, <1>13, <1>14, <1>15, <1>16, <1>17, <1>18, <1>19, <1>20, <1>21, <1>22
  DEF Next, ConfirmStep, CancelStep, TickStep
<1> QED
  BY <1>23 DEF Kept

\* A final transaction that no handler and no tick has in hand keeps its
\* status, its card, its customer and its code for ever.
THEOREM ClosedForGood == Spec => ClosedStaysClosed
<1>1. Shape /\ [Next]_vars =>
        [\A t \in Txs : Closed(t) =>
           Closed(t)' /\ status'[t] = status[t] /\ cardId'[t] = cardId[t]
           /\ customerId'[t] = customerId[t] /\ sgtCode'[t] = sgtCode[t]]_vars
  BY ClosedStep
<1> QED
  BY <1>1, ShapeInvariant, PTL DEF Spec, ClosedStaysClosed

-----------------------------------------------------------------------------
(* The code implements the contract: paidBy is what was charged, the SUCCESS *)
(* documents are what is booked, the answers are what was told.              *)

LEMMA ContractInitially == Init => Contract!Init
  BY ConstantsAssumption DEF Init, Contract!Init, Requests

LEMMA ContractStep ==
  ASSUME Shape, Money, [Next]_vars
  PROVE  [Contract!Next]_(Contract!vars)
<1> DEFINE Told == [q \in Confirms |->
                      IF answer[q] = "none" THEN "waiting"
                      ELSE IF answer[q] = "200" THEN "paid" ELSE "other"]
           Booked == {t \in Txs : status[t] = "success"}
           Same == paidBy' = paidBy /\ Booked' = Booked /\ Told' = Told
           Kept == [Contract!Next]_(Contract!vars)
<1>0. Same => Kept
  BY DEF Contract!vars
<1>a. ASSUME NEW t \in Txs, NEW q \in Confirms,
             Contract!Charge(t, q) \/ Contract!UnbookAndTell(t, q)
      PROVE  Kept
  BY <1>a DEF Contract!Next
<1>b. ASSUME NEW t \in Txs, Contract!Book(t) \/ Contract!Unbook(t) PROVE Kept
  BY <1>b DEF Contract!Next
<1>c. ASSUME NEW q \in Confirms, Contract!TellPaid(q) PROVE Kept
  BY <1>c DEF Contract!Next
<1>d. ASSUME NEW P \in SUBSET Confirms, Contract!TellOther(P) PROVE Kept
  BY <1>d DEF Contract!Next
<1>f. ASSUME NEW r \in Confirms, NEW c, answer \in [Requests -> Answers],
             answer' = [answer EXCEPT ![r] = c], c # "none", answer[r] = "none"
      PROVE  /\ Told[r] = "waiting"
             /\ Told' = [Told EXCEPT ![r] = IF c = "200" THEN "paid" ELSE "other"]
  <2>1. \A q \in Confirms : answer'[q] = IF q = r THEN c ELSE answer[q]
    BY <1>f DEF Requests
  <2> QED
    BY <2>1, <1>f
<1>e. \A q \in Confirms : pc[q] # "idle" => target[q] \in Txs
  BY DEF Shape, Located, Requests
<1> USE ConstantsAssumption
    DEF Shape, Located, TypeOK, Stored, Final, ConfirmPcs, CancelPcs, Answers,
        PaidCodes, RefusedCodes, Requests, Money, AnsweredOnce, doc, env, req,
        cron, sgt, room, Goto, Respond, UpdateStatus
<1> HIDE DEF Kept
<1>1. ASSUME NEW t \in Txs, Store(t) PROVE Kept
  <2>1. Same
    BY <1>1 DEF Store
  <2> QED
    BY <2>1, <1>0
<1>2. ASSUME NEW t \in Txs, TtlPasses(t) PROVE Kept
  <2>1. Same
    BY <1>2 DEF TtlPasses
  <2> QED
    BY <2>1, <1>0
<1>3. ASSUME NEW r \in Confirms, NEW t \in Txs, ConfirmFind(r, t) PROVE Kept
  <2>1. CASE answer' = answer
    <3>1. Same
      BY <1>3, <2>1 DEF ConfirmFind
    <3> QED
      BY <3>1, <1>0
  <2>2. CASE answer' # answer
    <3>1. Contract!TellOther({r})
      BY <1>3, <2>2 DEF ConfirmFind, Contract!TellOther
    <3> QED
      BY <3>1, <1>d
  <2> QED
    BY <2>1, <2>2
<1>4. ASSUME NEW r \in Confirms, NEW t \in Txs, SgtLate(t, r) PROVE Kept
  <2>1. answer[r] # "200"
    BY <1>4 DEF SgtLate, PaidPath
  <2>2. Contract!Charge(t, r)
    BY <1>4, <2>1 DEF SgtLate, Contract!Charge
  <2> QED
    BY <2>2, <1>a
<1>5. ASSUME NEW r \in Confirms, ConfirmMark(r) PROVE Kept
  <2>0. PICK t \in Txs : target[r] = t
    BY <1>5, <1>e DEF ConfirmMark
  <2>1. CASE answer' = answer
    <3>1. Contract!Unbook(t)
      BY <2>0, <1>5, <2>1 DEF ConfirmMark, Contract!Unbook
    <3> QED
      BY <3>1, <1>b
  <2>2. CASE answer' # answer /\ status' = status
    <3>1. Contract!TellOther({r})
      BY <1>5, <2>2 DEF ConfirmMark, Contract!TellOther
    <3> QED
      BY <3>1, <1>d
  <2>3. CASE answer' # answer /\ status' # status
    <3>1. Contract!UnbookAndTell(t, r)
      <4>1. /\ status' = [status EXCEPT ![t] = "processing"] /\ paidBy' = paidBy
            /\ answer' = [answer EXCEPT ![r] = "500"] /\ answer[r] = "none"
        BY <2>0, <1>5, <2>3 DEF ConfirmMark
      <4>2. Booked' = Booked \ {t}
        BY <4>1
      <4>3. "500" # "none" /\ "500" # "200"
        OBVIOUS
      <4>4. Told[r] = "waiting" /\ Told' = [Told EXCEPT ![r] = "other"]
        BY ONLY <4>1, <4>3, <1>f, TypeOK DEF TypeOK
      <4> QED
        BY <4>1, <4>2, <4>4 DEF Contract!UnbookAndTell
    <3> QED
      BY <3>1, <1>a
  <2> QED
    BY <2>1, <2>2, <2>3
<1>6. ASSUME NEW r \in Confirms, ReadCard(r) PROVE Kept
  <2>1. Same
    BY <1>6 DEF ReadCard
  <2> QED
    BY <2>1, <1>0
<1>7. ASSUME NEW r \in Confirms, ReadSecrets(r) PROVE Kept
  <2>1. Same
    BY <1>7 DEF ReadSecrets
  <2> QED
    BY <2>1, <1>0
<1>8. ASSUME NEW r \in Confirms, Transfer(r) PROVE Kept
  <2>0. PICK t \in Txs : target[r] = t
    BY <1>8, <1>e DEF Transfer
  <2>1. CASE paidBy' = paidBy
    <3>1. Same
      BY <1>8, <2>1 DEF Transfer
    <3> QED
      BY <3>1, <1>0
  <2>2. CASE paidBy' # paidBy
    <3>1. Contract!Charge(t, r)
      BY <2>0, <1>8, <2>2 DEF Transfer, SgtExecutes, Contract!Charge
    <3> QED
      BY <3>1, <1>a
  <2> QED
    BY <2>1, <2>2
<1>9. ASSUME NEW r \in Confirms, Settle(r) PROVE Kept
  <2>0. PICK t \in Txs : target[r] = t
    BY <1>9, <1>e DEF Settle
  <2>1. CASE status' = status
    <3>1. Same
      BY <1>9, <2>1 DEF Settle
    <3> QED
      BY <3>1, <1>0
  <2>2. CASE status' # status /\ reply[r] \in PaidCodes
    <3>1. paidBy[t] # None
      BY <2>0, <1>9, <2>2 DEF Settle, ReplyIsBacked
    <3>2. Contract!Book(t)
      BY <2>0, <1>9, <2>2, <3>1 DEF Settle, Contract!Book
    <3> QED
      BY <3>2, <1>b
  <2>3. CASE status' # status /\ reply[r] \notin PaidCodes
    <3>1. Contract!Unbook(t)
      BY <2>0, <1>9, <2>3 DEF Settle, Contract!Unbook
    <3> QED
      BY <3>1, <1>b
  <2> QED
    BY <2>1, <2>2, <2>3
<1>10. ASSUME NEW r \in Confirms, UpdateBalance(r) PROVE Kept
  <2>1. Same
    BY <1>10 DEF UpdateBalance
  <2> QED
    BY <2>1, <1>0
<1>11. ASSUME NEW r \in Confirms, TellPaid(r) PROVE Kept
  <2>0. PICK t \in Txs : target[r] = t
    BY <1>11, <1>e DEF TellPaid
  <2>1. paidBy[target[r]] = r
    BY <1>11 DEF TellPaid, PaidPath, ReplyIsBacked
  <2>2. Contract!TellPaid(r)
    <3>1. /\ paidBy' = paidBy /\ status' = status
          /\ answer' = [answer EXCEPT ![r] = "200"] /\ answer[r] = "none"
      BY <1>11 DEF TellPaid
    <3>2. Told[r] = "waiting" /\ Told' = [Told EXCEPT ![r] = "paid"]
      BY <3>1, <1>f
    <3> QED
      BY <2>0, <2>1, <3>1, <3>2 DEF Contract!TellPaid
  <2> QED
    BY <2>2, <1>c
<1>12. ASSUME NEW r \in Confirms, FailAndReturn(r) PROVE Kept
  <2>0. PICK t \in Txs : target[r] = t
    BY <1>12, <1>e DEF FailAndReturn
  <2>1. CASE answer' = answer
    <3>1. Contract!Unbook(t)
      BY <2>0, <1>12, <2>1 DEF FailAndReturn, Contract!Unbook
    <3> QED
      BY <3>1, <1>b
  <2>2. CASE answer' # answer /\ status' = status
    <3>1. Contract!TellOther({r})
      BY <1>12, <2>2 DEF FailAndReturn, Contract!TellOther
    <3> QED
      BY <3>1, <1>d
  <2>3. CASE answer' # answer /\ status' # status
    <3>1. Contract!UnbookAndTell(t, r)
      <4>1. /\ status' = [status EXCEPT ![t] = "failed"] /\ paidBy' = paidBy
            /\ answer' = [answer EXCEPT ![r] = "500"] /\ answer[r] = "none"
        BY <2>0, <1>12, <2>3 DEF FailAndReturn
      <4>2. Booked' = Booked \ {t}
        BY <4>1
      <4>3. "500" # "none" /\ "500" # "200"
        OBVIOUS
      <4>4. Told[r] = "waiting" /\ Told' = [Told EXCEPT ![r] = "other"]
        BY ONLY <4>1, <4>3, <1>f, TypeOK DEF TypeOK
      <4> QED
        BY <4>1, <4>2, <4>4 DEF Contract!UnbookAndTell
    <3> QED
      BY <3>1, <1>a
  <2> QED
    BY <2>1, <2>2, <2>3
<1>13. ASSUME NEW r \in Confirms, TellFailed(r) PROVE Kept
  <2>1. Contract!TellOther({r})
    BY <1>13 DEF TellFailed, Contract!TellOther
  <2> QED
    BY <2>1, <1>d
<1>14. ASSUME NEW r \in Cancels, NEW t \in Txs, CancelFind(r, t) PROVE Kept
  <2>1. Same
    BY <1>14 DEF CancelFind
  <2> QED
    BY <2>1, <1>0
<1>15. ASSUME NEW r \in Cancels, CancelWrite(r) PROVE Kept
  <2>0. PICK t \in Txs : target[r] = t
    BY <1>15, <1>e DEF CancelWrite
  <2>1. CASE status' = status
    <3>1. Same
      BY <1>15, <2>1 DEF CancelWrite
    <3> QED
      BY <3>1, <1>0
  <2>2. CASE status' # status
    <3>1. Contract!Unbook(t)
      BY <2>0, <1>15, <2>2 DEF CancelWrite, Contract!Unbook
    <3> QED
      BY <3>1, <1>b
  <2> QED
    BY <2>1, <2>2
<1>16. ASSUME NEW r \in Cancels, TellCancelled(r) PROVE Kept
  <2>1. Same
    BY <1>16 DEF TellCancelled
  <2> QED
    BY <2>1, <1>0
<1>17. ASSUME NEW k \in Ticks, TickFind(k) PROVE Kept
  <2>1. Same
    BY <1>17 DEF TickFind
  <2> QED
    BY <2>1, <1>0
<1>18. ASSUME NEW k \in Ticks, NEW t \in Txs, TickExpire(k, t) PROVE Kept
  <2>1. CASE status' = status
    <3>1. Same
      BY <1>18, <2>1 DEF TickExpire
    <3> QED
      BY <3>1, <1>0
  <2>2. CASE status' # status
    <3>1. Contract!Unbook(t)
      BY <1>18, <2>2 DEF TickExpire, Contract!Unbook
    <3> QED
      BY <3>1, <1>b, <1>e, <1>18 DEF TickExpire
  <2> QED
    BY <2>1, <2>2
<1>19. ASSUME NEW k \in Ticks, TickTell(k) PROVE Kept
  <2>1. Same
    BY <1>19 DEF TickTell
  <2> QED
    BY <2>1, <1>0
<1>20. ASSUME NEW t \in Txs, NEW o \in Outcomes, Push(t, o) PROVE Kept
  <2>1. Same
    BY <1>20 DEF Push
  <2> QED
    BY <2>1, <1>0
<1>21. ASSUME Crash PROVE Kept
  <2>1. PICK P \in SUBSET Confirms : P = {q \in Confirms : InFlight(q)}
    OBVIOUS
  <2>2. Contract!TellOther(P)
    BY <1>21, <2>1 DEF Crash, InFlight, Contract!TellOther
  <2> QED
    BY <2>2, <1>d
<1>22. ASSUME UNCHANGED vars PROVE Kept
  <2>1. Same
    BY <1>22 DEF vars
  <2> QED
    BY <2>1, <1>0
<1>23. Kept
  BY <1>1, <1>2, <1>3, <1>4, <1>5, <1>6, <1>7, <1>8, <1>9, <1>10, <1>11,
     <1>12, <1>13, <1>14, <1>15, <1>16, <1>17, <1>18, <1>19, <1>20, <1>21, <1>22
  DEF Next, ConfirmStep, CancelStep, TickStep
<1> QED
  BY <1>23 DEF Kept

\* The handlers, the processor, the cron and the failures of the environment
\* implement the contract: one charge per transaction, nothing booked that was
\* not charged, "paid" told only to the payer.
THEOREM ImplementsContract == Spec => KeepsContract
  BY ContractInitially, ContractStep, ShapeInvariant, MoneyInvariant, PTL
  DEF Spec, KeepsContract, Contract!Spec
=============================================================================
