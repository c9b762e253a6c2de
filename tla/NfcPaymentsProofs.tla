--------------------------- MODULE NfcPaymentsProofs ---------------------------
(***************************************************************************)
(* What is proved of NfcPayments for any number of requests of each kind,  *)
(* any window and every combination of failures.                           *)
(***************************************************************************)
EXTENDS NfcPayments, TLAPS

-----------------------------------------------------------------------------
(* Types.                                                                  *)

\* A request that has started knows what it is about: a prepare that drops a
\* session, which one; an authorisation, a session that was handed to a phone.
Located ==
  /\ \A p \in Prepares :
       /\ ppc[p] = "drop" => previous[p] \in Prepares
       /\ panswer[p] = "200" => ppc[p] = "done"
  /\ \A a \in Auths :
       /\ apc[a] = "idle" => tx[a] = "none" /\ marking[a] = "none" /\ bumping[a] = "none"
                             /\ aanswer[a] = "none"
       /\ apc[a] # "idle" =>
            /\ tapFor[a] \in Prepares /\ panswer[tapFor[a]] = "200"
            /\ signedBy[a] \in Enrolls /\ eanswer[signedBy[a]] = "201"
  /\ \A e \in Enrolls \cup Revokes :
       /\ eanswer[e] # "none" => epc[e] = "done"
       /\ e \in Revokes => epc[e] \notin {"store", "create", "init"}
Shape == TypeOK /\ Located

LEMMA ShapeInvariant == Spec => []Shape
<1>1. Init => Shape
  BY DEF Init, EInit, Shape, Located, TypeOK, ETypeOK
<1>2. Shape /\ [Next]_vars => Shape'
  <2> SUFFICES ASSUME Shape, [Next]_vars PROVE Shape'
    OBVIOUS
  <2> USE EnrollmentAssumption, NfcAssumption
      DEF Shape, Located, TypeOK, ETypeOK, card, ereq, evars, redisSessions, preq, areq,
          EGoto, ERespond, Throwing, Fails, PGoto, PRespond, PThrows,
          AGoto, ARespond, AThrows
  <2>1. ASSUME NEW e \in Enrolls, EnrollFind(e), UNCHANGED <<redisSessions, preq, areq>> PROVE Shape'
    BY <2>1 DEF EnrollFind
  <2>2. ASSUME NEW v \in Revokes, RevokeFind(v), UNCHANGED <<redisSessions, preq, areq>> PROVE Shape'
    BY <2>2 DEF RevokeFind
  <2>3. ASSUME NEW e \in Enrolls \cup Revokes, DropSeed(e), UNCHANGED <<redisSessions, preq, areq>> PROVE Shape'
    BY <2>3 DEF DropSeed
  <2>4. ASSUME NEW e \in Enrolls \cup Revokes, Retire(e), UNCHANGED <<redisSessions, preq, areq>> PROVE Shape'
    BY <2>4 DEF Retire
  <2>5. ASSUME NEW e \in Enrolls \cup Revokes, Reset(e), UNCHANGED <<redisSessions, preq, areq>> PROVE Shape'
    BY <2>5 DEF Reset
  <2>6. ASSUME NEW e \in Enrolls, StoreSeed(e), UNCHANGED <<redisSessions, preq, areq>> PROVE Shape'
    BY <2>6 DEF StoreSeed
  <2>7. ASSUME NEW e \in Enrolls, Create(e), UNCHANGED <<redisSessions, preq, areq>> PROVE Shape'
    BY <2>7 DEF Create
  <2>8. ASSUME NEW e \in Enrolls, InitCounter(e), UNCHANGED <<redisSessions, preq, areq>> PROVE Shape'
    BY <2>8 DEF InitCounter
  <2>9. ASSUME NEW p \in Prepares, PrepareFind(p) PROVE Shape'
    BY <2>9 DEF PrepareFind
  <2>10. ASSUME NEW p \in Prepares, PrepareCounter(p) PROVE Shape'
    BY <2>10 DEF PrepareCounter, LastCounter
  <2>11. ASSUME NEW p \in Prepares, PrepareMapping(p) PROVE Shape'
    BY <2>11 DEF PrepareMapping
  <2>12. ASSUME NEW p \in Prepares, PrepareDrop(p) PROVE Shape'
    BY <2>12 DEF PrepareDrop
  <2>13. ASSUME NEW p \in Prepares, PrepareUnmap(p) PROVE Shape'
    BY <2>13 DEF PrepareUnmap
  <2>14. ASSUME NEW p \in Prepares, PrepareStore(p) PROVE Shape'
    BY <2>14 DEF PrepareStore
  <2>15. ASSUME NEW p \in Prepares, PrepareMap(p) PROVE Shape'
    BY <2>15 DEF PrepareMap
  <2>16. CASE Expire
    BY <2>16 DEF Expire
  <2>17. ASSUME NEW a \in Auths, NEW p \in Prepares, NEW e \in Enrolls, AuthSession(a, p, e) PROVE Shape'
    BY <2>17 DEF AuthSession
  <2>18. ASSUME NEW a \in Auths, AuthTerminal(a) PROVE Shape'
    BY <2>18 DEF AuthTerminal
  <2>19. ASSUME NEW a \in Auths, AuthEnrolment(a) PROVE Shape'
    BY <2>19 DEF AuthEnrolment
  <2>20. ASSUME NEW a \in Auths, AuthSeed(a) PROVE Shape'
    BY <2>20 DEF AuthSeed
  <2>21. ASSUME NEW a \in Auths, AuthCounter(a) PROVE Shape'
    BY <2>21 DEF AuthCounter
  <2>22. ASSUME NEW a \in Auths, AuthNonce(a) PROVE Shape'
    BY <2>22 DEF AuthNonce
  <2>23. ASSUME NEW a \in Auths, AuthStore(a) PROVE Shape'
    BY <2>23, SMTT(30) DEF AuthStore, Becomes, Finally
  <2>24. ASSUME NEW a \in Auths, AuthStart(a) PROVE Shape'
    BY <2>24 DEF AuthStart, Becomes, Finally
  <2>25. ASSUME NEW a \in Auths, AuthPay(a) PROVE Shape'
    BY <2>25, SMTT(30) DEF AuthPay, Becomes, Finally
  <2>26. ASSUME NEW a \in Auths, AuthUnreachable(a) PROVE Shape'
    BY <2>26, SMTT(30) DEF AuthUnreachable, Becomes, Finally
  <2>27. ASSUME NEW a \in Auths, MarkRead(a) PROVE Shape'
    BY <2>27 DEF MarkRead, Marking
  <2>28. ASSUME NEW a \in Auths, MarkWrite(a) PROVE Shape'
    BY <2>28 DEF MarkWrite, Marking
  <2>29. ASSUME NEW a \in Auths, Bump(a) PROVE Shape'
    BY <2>29 DEF Bump, Bumping, LastCounter
  <2>30. ASSUME NEW a \in Auths, AuthAnswer(a) PROVE Shape'
    BY <2>30 DEF AuthAnswer
  <2>31. CASE Crash
    BY <2>31 DEF Crash, ECrash, EInFlight
  <2>32. CASE UNCHANGED vars
    BY <2>32 DEF vars
  <2> QED
    BY <2>1, <2>2, <2>3, <2>4, <2>5, <2>6, <2>7, <2>8, <2>9, <2>10, <2>11, <2>12, <2>13,
       <2>14, <2>15, <2>16, <2>17, <2>18, <2>19, <2>20, <2>21, <2>22, <2>23, <2>24, <2>25,
       <2>26, <2>27, <2>28, <2>29, <2>30, <2>31, <2>32
    DEF Next, ENext, EnrollStep, RevokeStep, PrepareStep, AuthStep
<1> QED
  BY <1>1, <1>2, PTL DEF Spec

\* Every variable keeps its type, however the requests interleave and whatever
\* fails; in particular counters stay numbers or absent.
THEOREM TypeCorrect == Spec => []TypeOK
<1>1. Shape => TypeOK
  BY DEF Shape
<1> QED
  BY <1>1, ShapeInvariant, PTL

-----------------------------------------------------------------------------
(* One payment per token.                                                  *)

\* The two properties are one invariant: a nonce is consumed only while the
\* session is fresh, so nobody with that session is past it; and only a prepare
\* whose session no phone has been given makes a session fresh.
Spent == OneTapPerSession /\ SpentStaysSpent

LEMMA SpentInvariant == Spec => []Spent
<1>1. Init => Spent
  BY DEF Init, Spent, OneTapPerSession, SpentStaysSpent, Past
<1>2. Shape /\ Spent /\ [Next]_vars => Spent'
  <2> SUFFICES ASSUME Shape, Spent, [Next]_vars PROVE Spent'
    OBVIOUS
  <2> USE DEF Shape, Located, Spent, OneTapPerSession, SpentStaysSpent, Past,
              redisSessions, areq
  <2> USE DEF TypeOK
  <2>1. CASE ENext /\ UNCHANGED <<redisSessions, preq, areq>>
    BY <2>1
  <2>2. ASSUME NEW p \in Prepares,
               PrepareFind(p) \/ PrepareCounter(p) \/ PrepareMapping(p) \/ PrepareUnmap(p)
                 \/ PrepareMap(p)
        PROVE Spent'
    BY <2>2 DEF PrepareFind, PrepareCounter, PrepareMapping, PrepareUnmap, PrepareMap
  <2>3. ASSUME NEW p \in Prepares, PrepareDrop(p) PROVE Spent'
    BY <2>3 DEF PrepareDrop
  <2>4. ASSUME NEW p \in Prepares, PrepareStore(p) PROVE Spent'
    BY <2>4 DEF PrepareStore
  <2>5. CASE Expire
    BY <2>5 DEF Expire
  <2>6. ASSUME NEW a \in Auths, NEW p \in Prepares, NEW e \in Enrolls, AuthSession(a, p, e)
        PROVE Spent'
    BY <2>6 DEF AuthSession, AGoto, ARespond, AThrows
  <2>7. ASSUME NEW a \in Auths,
               AuthTerminal(a) \/ AuthEnrolment(a) \/ AuthSeed(a) \/ AuthCounter(a)
        PROVE Spent'
    BY <2>7 DEF AuthTerminal, AuthEnrolment, AuthSeed, AuthCounter, AGoto, ARespond, AThrows
  <2>8. ASSUME NEW a \in Auths, AuthNonce(a) PROVE Spent'
    BY <2>8 DEF AuthNonce, AGoto, ARespond, AThrows
  <2>9. ASSUME NEW a \in Auths, AuthStore(a) PROVE Spent'
    BY <2>9 DEF AuthStore, Becomes, Finally, AGoto
  <2>10. ASSUME NEW a \in Auths, AuthStart(a) PROVE Spent'
    BY <2>10 DEF AuthStart, Becomes, Finally, AGoto
  <2>11. ASSUME NEW a \in Auths, AuthPay(a) PROVE Spent'
    BY <2>11 DEF AuthPay, Becomes, Finally, AGoto
  <2>12. ASSUME NEW a \in Auths, AuthUnreachable(a) PROVE Spent'
    BY <2>12 DEF AuthUnreachable, Becomes, Finally, AGoto
  <2>13. ASSUME NEW a \in Auths, MarkRead(a) PROVE Spent'
    BY <2>13 DEF MarkRead
  <2>14. ASSUME NEW a \in Auths, MarkWrite(a) PROVE Spent'
    BY <2>14 DEF MarkWrite
  <2>15. ASSUME NEW a \in Auths, Bump(a) PROVE Spent'
    BY <2>15 DEF Bump
  <2>16. ASSUME NEW a \in Auths, AuthAnswer(a) PROVE Spent'
    BY <2>16 DEF AuthAnswer, ARespond
  <2>17. CASE Crash
    BY <2>17 DEF Crash
  <2>18. CASE UNCHANGED vars
    BY <2>18 DEF vars
  <2> QED
    BY <2>1, <2>2, <2>3, <2>4, <2>5, <2>6, <2>7, <2>8, <2>9, <2>10, <2>11, <2>12, <2>13,
       <2>14, <2>15, <2>16, <2>17, <2>18
    DEF Next, PrepareStep, AuthStep
<1> QED
  BY <1>1, <1>2, ShapeInvariant, PTL DEF Spec

\* However many times a token is presented, whatever expires or is dropped, it
\* gets past its nonce once.
THEOREM OneTap == Spec => []OneTapPerSession
<1>1. Spent => OneTapPerSession
  BY DEF Spent
<1> QED
  BY <1>1, SpentInvariant, PTL

\* No interleaving of markSessionUsed with prepares and expiry makes a session
\* that was used for a payment fresh again.
THEOREM SpentForGood == Spec => []SpentStaysSpent
<1>1. Spent => SpentStaysSpent
  BY DEF Spent
<1> QED
  BY <1>1, SpentInvariant, PTL

-----------------------------------------------------------------------------
(* Revocation.                                                             *)

\* While the enrolment stays revoked and no authorisation that saw it active is
\* under way, no step of anybody makes a payment with the card.
THEOREM RevokedStays == Spec => RevokedCannotPay
<1>1. Shape /\ [Next]_vars => [Barred /\ status' = "revoked" => Barred' /\ tx' = tx]_vars
  <2> SUFFICES ASSUME Shape, [Next]_vars, Barred PROVE Barred' /\ tx' = tx
    OBVIOUS
  <2> USE DEF Shape, TypeOK, Barred, card, evars, areq, preq
  <2>1. ASSUME NEW e \in Enrolls, EnrollStep(e), UNCHANGED <<redisSessions, preq, areq>>
        PROVE Barred' /\ tx' = tx
    BY <2>1 DEF EnrollStep, EnrollFind, DropSeed, Retire, Reset, StoreSeed, Create, InitCounter,
                Throwing
  <2>2. ASSUME NEW v \in Revokes, RevokeStep(v), UNCHANGED <<redisSessions, preq, areq>>
        PROVE Barred' /\ tx' = tx
    BY <2>2 DEF RevokeStep, RevokeFind, DropSeed, Retire, Reset, Throwing
  <2>3. ASSUME NEW p \in Prepares, PrepareStep(p) PROVE Barred' /\ tx' = tx
    BY <2>3 DEF PrepareStep, PrepareFind, PrepareCounter, PrepareMapping, PrepareDrop,
                PrepareUnmap, PrepareStore, PrepareMap
  <2>4. CASE Expire
    BY <2>4 DEF Expire
  <2>5. ASSUME NEW a \in Auths, NEW p \in Prepares, NEW e \in Enrolls, AuthSession(a, p, e)
        PROVE Barred' /\ tx' = tx
    BY <2>5 DEF AuthSession, AGoto, ARespond, AThrows
  <2>6. ASSUME NEW a \in Auths, AuthTerminal(a) \/ AuthEnrolment(a) PROVE Barred' /\ tx' = tx
    BY <2>6 DEF AuthTerminal, AuthEnrolment, AGoto, ARespond, AThrows
  <2>7. ASSUME NEW a \in Auths,
               AuthSeed(a) \/ AuthCounter(a) \/ AuthNonce(a) \/ AuthStore(a) \/ AuthStart(a)
                 \/ AuthPay(a) \/ AuthUnreachable(a) \/ AuthAnswer(a)
        PROVE FALSE
    BY <2>7 DEF AuthSeed, AuthCounter, AuthNonce, AuthStore, AuthStart, AuthPay,
                AuthUnreachable, AuthAnswer
  <2>8. ASSUME NEW a \in Auths, MarkRead(a) \/ MarkWrite(a) \/ Bump(a) PROVE Barred' /\ tx' = tx
    BY <2>8 DEF MarkRead, MarkWrite, Bump
  <2>9. CASE Crash
    BY <2>9 DEF Crash, ECrash
  <2>10. CASE UNCHANGED vars
    BY <2>10 DEF vars
  <2> QED
    BY <2>1, <2>2, <2>3, <2>4, <2>5, <2>6, <2>7, <2>8, <2>9, <2>10 DEF Next, ENext, AuthStep
<1> QED
  BY <1>1, ShapeInvariant, PTL DEF Spec, RevokedCannotPay

-----------------------------------------------------------------------------
(* The enrolment has one creator, ever.                                    *)

\* The unique index lets one request create the document, and an enrolment once
\* revoked stays revoked; so a request answered 201, or about to be, is the
\* creator, and whoever works on a replacement works on a revoked enrolment.
Creator(e) == seedOf = e /\ e \notin found /\ epc[e] \in {"init", "done"} /\ eanswer[e] # "400"
Enrolled ==
  /\ status = "absent" =>
       /\ found = {} /\ seedOf = None
       /\ \A e \in Enrolls \cup Revokes :
            epc[e] \notin {"drop", "retire", "reset", "init"} /\ eanswer[e] # "201"
  /\ status # "absent" => \E e \in Enrolls : Creator(e)
  /\ \A e \in Enrolls : epc[e] = "init" \/ eanswer[e] = "201" => seedOf = e
  /\ \A e \in Enrolls \cup Revokes : epc[e] = "reset" => status = "revoked"
  /\ \A e \in found : epc[e] \in {"reset", "store", "create", "init"} => status = "revoked"

LEMMA EnrolledInvariant == Spec => []Enrolled
<1>1. Init => Enrolled
  BY DEF Init, EInit, Enrolled
<1>2. Shape /\ Enrolled /\ [Next]_vars => Enrolled'
  <2> SUFFICES ASSUME Shape, Enrolled, [Next]_vars PROVE Enrolled'
    OBVIOUS
  <2> USE EnrollmentAssumption
      DEF Shape, Located, Enrolled, Creator, TypeOK, ETypeOK, card, ereq, evars,
          EGoto, ERespond, Throwing, Fails
  <2>1. ASSUME NEW e \in Enrolls, EnrollFind(e) PROVE Enrolled'
    BY <2>1 DEF EnrollFind
  <2>2. ASSUME NEW v \in Revokes, RevokeFind(v) PROVE Enrolled'
    BY <2>2 DEF RevokeFind
  <2>3. ASSUME NEW e \in Enrolls \cup Revokes, DropSeed(e) PROVE Enrolled'
    BY <2>3 DEF DropSeed
  <2>4. ASSUME NEW e \in Enrolls \cup Revokes, Retire(e) PROVE Enrolled'
    BY <2>4 DEF Retire
  <2>5. ASSUME NEW e \in Enrolls \cup Revokes, Reset(e) PROVE Enrolled'
    BY <2>5 DEF Reset
  <2>6. ASSUME NEW e \in Enrolls, StoreSeed(e) PROVE Enrolled'
    BY <2>6 DEF StoreSeed
  <2>7. ASSUME NEW e \in Enrolls, Create(e) PROVE Enrolled'
    BY <2>7 DEF Create
  <2>8. ASSUME NEW e \in Enrolls, InitCounter(e) PROVE Enrolled'
    BY <2>8 DEF InitCounter
  <2>9. ASSUME NEW p \in Prepares, PrepareStep(p) PROVE Enrolled'
    BY <2>9 DEF PrepareStep, PrepareFind, PrepareCounter, PrepareMapping, PrepareDrop,
                PrepareUnmap, PrepareStore, PrepareMap
  <2>10. CASE Expire
    BY <2>10 DEF Expire
  <2>11. ASSUME NEW a \in Auths, NEW p \in Prepares, NEW e \in Enrolls, AuthSession(a, p, e)
         PROVE Enrolled'
    BY <2>11 DEF AuthSession
  <2>12. ASSUME NEW a \in Auths, AuthStep(a) PROVE Enrolled'
    BY <2>12 DEF AuthStep, AuthTerminal, AuthEnrolment, AuthSeed, AuthCounter, AuthNonce, AuthStore,
                 AuthStart, AuthPay, AuthUnreachable, MarkRead, MarkWrite, Bump, AuthAnswer
  <2>13. CASE Crash
    BY <2>13 DEF Crash, ECrash, EInFlight
  <2>14. CASE UNCHANGED vars
    BY <2>14 DEF vars
  <2> QED
    BY <2>1, <2>2, <2>3, <2>4, <2>5, <2>6, <2>7, <2>8, <2>9, <2>10, <2>11, <2>12, <2>13, <2>14
    DEF Next, ENext, EnrollStep, RevokeStep
<1> QED
  BY <1>1, <1>2, ShapeInvariant, PTL DEF Spec

-----------------------------------------------------------------------------
(* The counter.                                                            *)

\* From the moment the counter is raised for a payment, not only from its
\* answer, the counter covers it for as long as the enrolment is active.
Counted ==
  status = "active" =>
    \A a \in Auths : bumping[a] = "ok" \/ aanswer[a] \in {"approved", "declined"} =>
      counter # None /\ counter >= sessionNo[tapFor[a]]

LEMMA CountedInvariant == Spec => []Counted
<1>1. Init => Counted
  BY DEF Init, EInit, Counted
<1>2. Shape /\ Enrolled /\ Counted /\ [Next]_vars => Counted'
  <2> SUFFICES ASSUME Shape, Enrolled, Counted, [Next]_vars PROVE Counted'
    OBVIOUS
  <2> USE EnrollmentAssumption, NfcAssumption
      DEF Shape, Located, Counted, TypeOK, ETypeOK, card, ereq, evars, redisSessions, preq, areq
  <2>1. ASSUME NEW e \in Enrolls \cup Revokes, UNCHANGED <<redisSessions, preq, areq>>,
               \/ EnrollFind(e) \/ RevokeFind(e) \/ DropSeed(e) \/ Retire(e) \/ StoreSeed(e)
        PROVE Counted'
    BY <2>1 DEF EnrollFind, RevokeFind, DropSeed, Retire, StoreSeed, Throwing
  <2>2. ASSUME NEW e \in Enrolls \cup Revokes, UNCHANGED <<redisSessions, preq, areq>>, Reset(e)
        PROVE Counted'
    BY <2>2 DEF Reset, Enrolled
  \* Before anybody was answered 201, nothing has been paid.
  <2>3. ASSUME NEW e \in Enrolls, UNCHANGED <<redisSessions, preq, areq>>,
               Create(e) \/ InitCounter(e)
        PROVE Counted'
    BY <2>3 DEF Create, InitCounter, Throwing, Enrolled
  <2>4. ASSUME NEW p \in Prepares, PrepareStep(p) PROVE Counted'
    <3>1. CASE PrepareCounter(p)
      BY <3>1 DEF PrepareCounter
    <3> QED
      BY <2>4, <3>1 DEF PrepareStep, PrepareFind, PrepareMapping, PrepareDrop, PrepareUnmap,
                   PrepareStore, PrepareMap
  <2>5. CASE Expire
    BY <2>5 DEF Expire
  <2>6. ASSUME NEW a \in Auths, NEW p \in Prepares, NEW e \in Enrolls, AuthSession(a, p, e)
        PROVE Counted'
    BY <2>6 DEF AuthSession, AGoto, ARespond, AThrows
  <2>7. ASSUME NEW a \in Auths,
               AuthTerminal(a) \/ AuthEnrolment(a) \/ AuthSeed(a) \/ AuthCounter(a) \/ AuthNonce(a)
        PROVE Counted'
    BY <2>7 DEF AuthTerminal, AuthEnrolment, AuthSeed, AuthCounter, AuthNonce, AGoto, ARespond,
                AThrows
  <2>8. ASSUME NEW a \in Auths, AuthStore(a) \/ AuthStart(a) \/ AuthPay(a) \/ AuthUnreachable(a)
        PROVE Counted'
    BY <2>8 DEF AuthStore, AuthStart, AuthPay, AuthUnreachable, Finally, AGoto
  <2>9. ASSUME NEW a \in Auths, MarkRead(a) \/ MarkWrite(a) PROVE Counted'
    BY <2>9 DEF MarkRead, MarkWrite
  <2>10. ASSUME NEW a \in Auths, Bump(a) PROVE Counted'
    BY <2>10 DEF Bump, Bumping, LastCounter
  <2>11. ASSUME NEW a \in Auths, AuthAnswer(a) PROVE Counted'
    BY <2>11 DEF AuthAnswer, ARespond
  <2>12. CASE Crash
    BY <2>12 DEF Crash, ECrash
  <2>13. CASE UNCHANGED vars
    BY <2>13 DEF vars
  <2> QED
    BY <2>1, <2>2, <2>3, <2>4, <2>5, <2>6, <2>7, <2>8, <2>9, <2>10, <2>11, <2>12, <2>13
    DEF Next, ENext, EnrollStep, RevokeStep, AuthStep
<1> QED
  BY <1>1, <1>2, ShapeInvariant, EnrolledInvariant, PTL DEF Spec

\* While the enrolment is active, no payment that was answered can be made
\* again with its counter.
THEOREM CounterCovers == Spec => []CounterCoversPayments
<1>1. Counted => CounterCoversPayments
  BY DEF Counted, CounterCoversPayments
<1> QED
  BY <1>1, CountedInvariant, PTL

-----------------------------------------------------------------------------
(* Answers.                                                                *)

\* Without faults the counter is the one of a payment whose raise succeeded;
\* so a raise that is refused was overtaken by another payment.
Overtaken(a) ==
  \E b \in Auths \ {a} : tx[b] # "none" /\ sessionNo[tapFor[b]] >= sessionNo[tapFor[a]]
Raised(b) == bumping[b] = "ok" /\ tx[b] # "none" /\ counter = sessionNo[tapFor[b]]
Told(a) ==
  /\ apc[a] \in {"idle", "terminal", "enrolment", "seed", "counter", "nonce", "store"} =>
       tx[a] = "none"
  /\ apc[a] \in {"start", "pay", "finally"} => tx[a] # "none"
  /\ apc[a] # "unreachable" /\ marking[a] # "thrown"
  /\ apc[a] = "start" => tx[a] = "new"
  /\ bumping[a] # "none" => apc[a] \in {"finally", "done"} /\ tx[a] # "none"
  /\ bumping[a] = "thrown" => Overtaken(a)
  /\ apc[a] = "finally" /\ tx[a] = "success" => result[a] = "approved"
  /\ apc[a] = "done" /\ tx[a] = "success" => aanswer[a] = "approved" \/ Overtaken(a)
CalmAnswers ==
  faults = {} =>
    /\ counter \in {None, -1} \/ \E b \in Auths : Raised(b)
    /\ \A a \in Auths : Told(a)

LEMMA CalmAnswersInvariant == Spec => []CalmAnswers
<1>1. Init => CalmAnswers
  BY DEF Init, EInit, CalmAnswers, Told
<1>2. Shape /\ Spent /\ CalmAnswers /\ [Next]_vars => CalmAnswers'
  <2>0. [Next]_vars => UNCHANGED faults
    <3>1. ENext => UNCHANGED faults
      BY DEF ENext, EnrollStep, EnrollFind, RevokeStep, RevokeFind, DropSeed, Retire, Reset,
             StoreSeed, Create, InitCounter
    <3>2. \A p \in Prepares : PrepareFind(p) \/ PrepareStep(p) => UNCHANGED faults
      BY DEF PrepareStep, PrepareFind, PrepareCounter, PrepareMapping, PrepareDrop, PrepareUnmap,
             PrepareStore, PrepareMap, evars
    <3>3. \A a \in Auths : AuthStep(a) => UNCHANGED faults
      BY DEF AuthStep, AuthTerminal, AuthEnrolment, AuthSeed, AuthCounter, AuthNonce, AuthStore,
             AuthStart, AuthPay, AuthUnreachable, MarkRead, MarkWrite, Bump, AuthAnswer, evars
    <3> QED
      BY <3>1, <3>2, <3>3 DEF Next, Expire, AuthSession, Crash, ECrash, vars, evars
  <2> SUFFICES ASSUME Shape, Spent, CalmAnswers, faults = {}, [Next]_vars PROVE CalmAnswers'
    BY <2>0 DEF CalmAnswers
  <2> USE EnrollmentAssumption, NfcAssumption
      DEF Shape, Located, CalmAnswers, Told, Overtaken, Raised, TypeOK, ETypeOK, card, ereq, evars,
          redisSessions, preq, areq, Fails
  <2>1. CASE ENext /\ UNCHANGED <<redisSessions, preq, areq>>
    BY <2>1 DEF ENext, EnrollStep, EnrollFind, RevokeStep, RevokeFind, DropSeed, Retire, Reset,
                StoreSeed, Create, InitCounter, Throwing
  <2>2. ASSUME NEW p \in Prepares, PrepareCounter(p) PROVE CalmAnswers'
    BY <2>2 DEF PrepareCounter
  <2>3. ASSUME NEW p \in Prepares,
               \/ PrepareFind(p) \/ PrepareMapping(p) \/ PrepareDrop(p) \/ PrepareUnmap(p)
               \/ PrepareStore(p) \/ PrepareMap(p)
        PROVE CalmAnswers'
    BY <2>3 DEF PrepareFind, PrepareMapping, PrepareDrop, PrepareUnmap, PrepareStore, PrepareMap
  <2>4. CASE Expire
    BY <2>4 DEF Expire
  <2>5. ASSUME NEW a \in Auths, NEW p \in Prepares, NEW e \in Enrolls, AuthSession(a, p, e)
        PROVE CalmAnswers'
    BY <2>5 DEF AuthSession, AGoto, ARespond, AThrows
  <2>6. ASSUME NEW a \in Auths,
               AuthTerminal(a) \/ AuthEnrolment(a) \/ AuthSeed(a) \/ AuthCounter(a) \/ AuthNonce(a)
        PROVE CalmAnswers'
    BY <2>6 DEF AuthTerminal, AuthEnrolment, AuthSeed, AuthCounter, AuthNonce, AGoto, ARespond,
                AThrows
  \* The intent of the transaction is free, as nobody else got past the nonce.
  <2>7. ASSUME NEW a \in Auths, AuthStore(a) PROVE CalmAnswers'
    <3>1. ~ \E b \in Auths : tx[b] # "none" /\ tapFor[b] = tapFor[a]
      BY <2>7 DEF AuthStore, Spent, OneTapPerSession, Past
    <3> QED
      BY <2>7, <3>1 DEF AuthStore, AGoto, Becomes
  <2>8. ASSUME NEW a \in Auths, AuthStart(a) PROVE CalmAnswers'
    BY <2>8 DEF AuthStart, AGoto, Becomes
  <2>9. ASSUME NEW a \in Auths, AuthPay(a) PROVE CalmAnswers'
    BY <2>9 DEF AuthPay, AGoto, Becomes, Finally
  <2>10. ASSUME NEW a \in Auths, AuthUnreachable(a) PROVE CalmAnswers'
    BY <2>10 DEF AuthUnreachable
  <2>11. ASSUME NEW a \in Auths, MarkRead(a) \/ MarkWrite(a) PROVE CalmAnswers'
    BY <2>11 DEF MarkRead, MarkWrite, Marking
  <2>12. ASSUME NEW a \in Auths, Bump(a) PROVE CalmAnswers'
    BY <2>12 DEF Bump, Bumping, LastCounter
  <2>13. ASSUME NEW a \in Auths, AuthAnswer(a) PROVE CalmAnswers'
    BY <2>13 DEF AuthAnswer, ARespond
  <2>14. CASE Crash
    BY <2>14 DEF Crash
  <2>15. CASE UNCHANGED vars
    BY <2>15 DEF vars
  <2> QED
    BY <2>1, <2>2, <2>3, <2>4, <2>5, <2>6, <2>7, <2>8, <2>9, <2>10, <2>11, <2>12, <2>13, <2>14,
       <2>15
    DEF Next, PrepareStep, AuthStep
<1> QED
  BY <1>1, <1>2, ShapeInvariant, SpentInvariant, PTL DEF Spec

\* When nothing fails, who paid is told so, unless another payment with at
\* least the same counter overtook the raise.
THEOREM PaidToldApproved == Spec => []PaidIsApproved
<1>1. CalmAnswers => PaidIsApproved
  BY DEF CalmAnswers, Told, Overtaken, PaidIsApproved
<1> QED
  BY <1>1, CalmAnswersInvariant, PTL

-----------------------------------------------------------------------------
(* The seed.                                                               *)

\* Without faults, when only one request found the card free, it is the only
\* writer of the seed from before its create until the enrolment is retired.
Sown ==
  faults = {} /\ Alone =>
    /\ status = "absent" => \A e \in Enrolls : epc[e] = "create" => vault = e
    /\ status = "active" =>
         /\ vault = seedOf \/ \E x \in Enrolls \cup Revokes : epc[x] = "retire"
         /\ counter # None \/ epc[seedOf] = "init"

LEMMA SownInvariant == Spec => []Sown
<1>1. Init => Sown
  BY DEF Init, EInit, Sown
<1>2. Shape /\ Enrolled /\ Sown /\ [Next]_vars => Sown'
  <2> SUFFICES ASSUME Shape, Enrolled, Sown, [Next]_vars, (faults = {} /\ Alone)' PROVE Sown'
    BY DEF Sown
  <2> USE EnrollmentAssumption, NfcAssumption
      DEF Shape, Located, Sown, Alone, FoundFree, TypeOK, ETypeOK, card, ereq, evars, redisSessions,
          EGoto, ERespond, Throwing, Fails
  <2>1. ASSUME NEW e \in Enrolls, EnrollFind(e) PROVE Sown'
    BY <2>1 DEF EnrollFind, Enrolled, Creator
  <2>2. ASSUME NEW v \in Revokes, RevokeFind(v) PROVE Sown'
    BY <2>2 DEF RevokeFind, Enrolled, Creator
  <2>3. ASSUME NEW e \in Enrolls \cup Revokes, DropSeed(e) PROVE Sown'
    BY <2>3 DEF DropSeed, Enrolled, Creator
  <2>4. ASSUME NEW e \in Enrolls \cup Revokes, Retire(e) PROVE Sown'
    BY <2>4 DEF Retire, Enrolled, Creator
  <2>5. ASSUME NEW e \in Enrolls \cup Revokes, Reset(e) PROVE Sown'
    BY <2>5 DEF Reset, Enrolled, Creator
  <2>6. ASSUME NEW e \in Enrolls, StoreSeed(e) PROVE Sown'
    BY <2>6, SMTT(30) DEF StoreSeed, Enrolled, Creator
  <2>7. ASSUME NEW e \in Enrolls, Create(e) PROVE Sown'
    BY <2>7 DEF Create, Enrolled, Creator
  <2>8. ASSUME NEW e \in Enrolls, InitCounter(e) PROVE Sown'
    BY <2>8 DEF InitCounter, Enrolled, Creator
  <2>9. ASSUME NEW p \in Prepares, PrepareStep(p) PROVE Sown'
    BY <2>9 DEF PrepareStep, PrepareFind, PrepareCounter, PrepareMapping, PrepareDrop,
                PrepareUnmap, PrepareStore, PrepareMap
  <2>10. CASE Expire
    BY <2>10 DEF Expire
  <2>11. ASSUME NEW a \in Auths, NEW p \in Prepares, NEW e \in Enrolls, AuthSession(a, p, e)
         PROVE Sown'
    BY <2>11 DEF AuthSession
  <2>12. ASSUME NEW a \in Auths, Bump(a) PROVE Sown'
    BY <2>12 DEF Bump
  <2>13. ASSUME NEW a \in Auths, AuthStep(a), ~Bump(a) PROVE Sown'
    BY <2>13, SMTT(30) DEF AuthStep, AuthTerminal, AuthEnrolment, AuthSeed, AuthCounter, AuthNonce, AuthStore,
                 AuthStart, AuthPay, AuthUnreachable, MarkRead, MarkWrite, AuthAnswer
  <2>14. CASE Crash
    BY <2>14 DEF Crash, ECrash
  <2>15. CASE UNCHANGED vars
    BY <2>15 DEF vars
  <2> QED
    BY <2>1, <2>2, <2>3, <2>4, <2>5, <2>6, <2>7, <2>8, <2>9, <2>10, <2>11, <2>12, <2>13, <2>14,
       <2>15
    DEF Next, ENext, EnrollStep, RevokeStep
<1> QED
  BY <1>1, <1>2, ShapeInvariant, EnrolledInvariant, PTL DEF Spec

\* An active enrolment at rest has the seed of its creator in Vault, and a
\* counter, unless two requests both found the card free.
THEOREM EnrolledIsUsable == Spec => []EnrolledCardIsUsable
<1>1. Shape /\ Enrolled /\ Sown => EnrolledCardIsUsable
  BY DEF Shape, TypeOK, ETypeOK, Enrolled, Creator, Sown, EnrolledCardIsUsable, AtRest, EInFlight
<1> QED
  BY <1>1, ShapeInvariant, EnrolledInvariant, SownInvariant, PTL
=============================================================================
