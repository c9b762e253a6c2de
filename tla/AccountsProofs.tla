--------------------------- MODULE AccountsProofs ---------------------------
(***************************************************************************)
(* What is proved of Accounts for any number of requests, any limits of    *)
(* attempts and resends, and every combination of failures; and that the   *)
(* composition of MCAccounts keeps the types of all its parts.             *)
(***************************************************************************)
EXTENDS MCAccounts, AuthProofs, AdministrationProofs

Validating == {"attempts", "count", "find", "mark", "clear", "forget"}

\* What the place of a request says of what it does.
PlacesFit ==
  \A r \in Requests :
    /\ apc[r] = "idle" <=> does[r] = "none"
    /\ apc[r] # "done" => aanswer[r] = "none"
    /\ apc[r] \in {"code", "tell"} => does[r] \in {"register", "merchant", "resend", "forgot"}
    /\ apc[r] = "create" => does[r] \in {"register", "merchant", "create"}
    /\ apc[r] \in Validating => does[r] \in Guessing
    /\ apc[r] \in {"may", "wipe", "resends", "bump"} => does[r] = "resend"
    /\ does[r] \in Guessing => apc[r] \in Validating \cup {"done"}

LEMMA PlacesFitFirst == AInit => ATypeOK /\ PlacesFit
<1> SUFFICES ASSUME AInit PROVE ATypeOK /\ PlacesFit
  OBVIOUS
<1> USE AccountAssumption DEF AInit
<1>1. /\ code \in [Types -> Requests \cup {Before, NoCode}]
      /\ given \in [Requests -> Requests \cup {Before, NoCode}]
  OBVIOUS
<1>2. /\ attempts \in [Types -> Nat] /\ tried \in [Types -> Nat] /\ seen \in [Requests -> Nat]
      /\ later \in [Types -> BOOLEAN]
  OBVIOUS
<1>3. /\ does \in [Requests -> Doings \cup {"none"}] /\ from \in [Requests -> UserStates \cup {"none"}]
      /\ status \in UserStates \cup {"none"} /\ afaults \in AccountFaults
  BY DEF UserStates
<1>4. ATypeOK
  BY <1>1, <1>2, <1>3 DEF ATypeOK
<1>5. PlacesFit
  BY DEF PlacesFit, Validating, Guessing
<1> QED
  BY <1>4, <1>5

LEMMA FlagSet ==
  ASSUME NEW S, NEW f \in [S -> BOOLEAN], NEW k
  PROVE  [f EXCEPT ![k] = TRUE] \in [S -> BOOLEAN] /\ [f EXCEPT ![k] = FALSE] \in [S -> BOOLEAN]
  OBVIOUS

LEMMA PlacesFitKept == ATypeOK /\ PlacesFit /\ [ANext]_avars => ATypeOK' /\ PlacesFit'
<1> SUFFICES ASSUME ATypeOK, PlacesFit, [ANext]_avars PROVE ATypeOK' /\ PlacesFit'
  OBVIOUS
<1> DEFINE Kept == ATypeOK' /\ PlacesFit'
<1> USE AccountAssumption DEF ATypeOK, PlacesFit, Validating, Types, Guessing, Counting, Doings, UserStates,
        auser, acodes, areq, AGoto, AAnswer, Sees, Found
<1>1. ASSUME NEW r \in Requests, Register(r) PROVE Kept
  BY <1>1 DEF Register, Comes
<1>2. ASSUME NEW r \in Requests, RegisterAgain(r) PROVE Kept
  <2>1. password' \in Requests \cup {Before}
    BY <1>2 DEF RegisterAgain
  <2>2. plain' \in BOOLEAN
    BY <1>2, Zenon DEF RegisterAgain
  <2> QED
    BY <1>2, <2>1, <2>2 DEF RegisterAgain
<1>3. ASSUME NEW r \in Requests, RegisterMerchant(r) PROVE Kept
  BY <1>3 DEF RegisterMerchant, Comes
<1>4. ASSUME NEW r \in Requests, RaiseToMerchant(r) PROVE Kept
  <2>1. merchant' \in BOOLEAN
    BY <1>4 DEF RaiseToMerchant, SetRoles
  <2> QED
    BY <1>4, <2>1 DEF RaiseToMerchant, SetRoles
<1>5. ASSUME NEW r \in Requests, CreateUser(r) PROVE Kept
  <2>1. status' \in UserStates \cup {"none"}
    BY <1>5 DEF CreateUser
  <2>2. merchant' \in BOOLEAN
    BY <1>5 DEF CreateUser
  <2>3. password' \in Requests \cup {Before}
    BY <1>5 DEF CreateUser
  <2>4. seen' \in [Requests -> Nat]
    BY <1>5 DEF CreateUser
  <2>5. \/ apc' = [apc EXCEPT ![r] = "done"] /\ aanswer' \in {[aanswer EXCEPT ![r] = "201"], [aanswer EXCEPT ![r] = "500"]}
        \/ does[r] # "create" /\ apc' = [apc EXCEPT ![r] = "code"] /\ UNCHANGED aanswer
    BY <1>5 DEF CreateUser
  <2>6. UNCHANGED <<does, given, from, mixed, afaults, code, attempts, resends, tried, later, resent>>
    BY <1>5 DEF CreateUser
  <2>7. apc[r] = "create" /\ plain' \in BOOLEAN /\ confirmed' \in BOOLEAN
    BY <1>5 DEF CreateUser
  <2> QED
    BY <2>1, <2>2, <2>3, <2>4, <2>5, <2>6, <2>7
<1>6. ASSUME NEW r \in Requests, GenerateAndStore(r) PROVE Kept
  <2>1. code' \in [Types -> Requests \cup {Before, NoCode}]
    BY <1>6 DEF GenerateAndStore, StoreCode, CodeType
  <2>2. tried' \in [Types -> Nat]
    BY <1>6 DEF GenerateAndStore, StoreCode, CodeType
  <2>3. later' \in [Types -> BOOLEAN]
    <3>1. later' = [later EXCEPT ![CodeType(does[r])] = FALSE] \/ UNCHANGED later
      BY <1>6, Zenon DEF GenerateAndStore, StoreCode
    <3> QED
      BY <3>1, FlagSet
  <2> QED
    BY <1>6, <2>1, <2>2, <2>3 DEF GenerateAndStore, StoreCode, CodeType
<1>7. ASSUME NEW r \in Requests, TellCode(r) PROVE Kept
  BY <1>7 DEF TellCode
<1>8. ASSUME NEW r \in Requests, ConfirmPhone(r) PROVE Kept
  BY <1>8 DEF ConfirmPhone, ValidateCode, Comes, CodeType
<1>9. ASSUME NEW r \in Requests, ResetPassword(r) PROVE Kept
  BY <1>9 DEF ResetPassword, ValidateCode, Comes, CodeType
<1>10. ASSUME NEW r \in Requests, ValidateAttempts(r) PROVE Kept
  BY <1>10 DEF ValidateAttempts, MayTry, CodeType
<1>11. ASSUME NEW r \in Requests, CountAttempt(r) PROVE Kept
  <2>1. attempts' \in [Types -> Nat]
    BY <1>11 DEF CountAttempt, SetAttempts, CodeType
  <2>2. later' \in [Types -> BOOLEAN]
    <3>1. later' = [later EXCEPT ![CodeType(does[r])] = TRUE] \/ UNCHANGED later
      BY <1>11, Zenon DEF CountAttempt, SetAttempts
    <3>2. later \in [Types -> BOOLEAN]
      OBVIOUS
    <3> HIDE DEF Types, ATypeOK, CodeType
    <3> QED
      BY <3>1, <3>2, FlagSet
  <2> QED
    BY <1>11, <2>1, <2>2 DEF CountAttempt, SetAttempts, CodeType
<1>12. ASSUME NEW r \in Requests, FindAccount(r) PROVE Kept
  BY <1>12 DEF FindAccount
<1>13. ASSUME NEW r \in Requests, MarkAccount(r) PROVE Kept
  <2>1. confirmed' \in BOOLEAN /\ plain' \in BOOLEAN
    BY <1>13 DEF MarkAccount
  <2>2. password' \in Requests \cup {Before}
    BY <1>13 DEF MarkAccount
  <2> QED
    BY <1>13, <2>1, <2>2 DEF MarkAccount
<1>14. ASSUME NEW r \in Requests, ClearCode(r) PROVE Kept
  BY <1>14 DEF ClearCode, CodeType
<1>15. ASSUME NEW r \in Requests, ForgetAttempts(r) PROVE Kept
  BY <1>15 DEF ForgetAttempts, SetAttempts, CodeType
<1>16. ASSUME NEW r \in Requests, ResendCode(r) PROVE Kept
  BY <1>16 DEF ResendCode, Comes
<1>17. ASSUME NEW r \in Requests, CanResend(r) PROVE Kept
  BY <1>17 DEF CanResend
<1>18. ASSUME NEW r \in Requests, WipeAttempts(r) PROVE Kept
  BY <1>18 DEF WipeAttempts, SetAttempts
<1>19. ASSUME NEW r \in Requests, ReadResends(r) PROVE Kept
  BY <1>19 DEF ReadResends
<1>20. ASSUME NEW r \in Requests, IncrementResends(r) PROVE Kept
  BY <1>20 DEF IncrementResends
<1>21. ASSUME NEW r \in Requests, ForgotPassword(r) PROVE Kept
  BY <1>21 DEF ForgotPassword, Comes
<1>22. ASSUME NEW r \in Requests, LoginVerify(r) PROVE Kept
  BY <1>22 DEF LoginVerify
<1>23. ASSUME NEW r \in Requests, AdminCreate(r) PROVE Kept
  BY <1>23 DEF AdminCreate, Comes
<1>24. ASSUME NEW r \in Requests, AdminPassword(r) PROVE Kept
  <2>1. password' \in Requests \cup {Before}
    BY <1>24 DEF AdminPassword, Comes, SetPassword
  <2>2. plain' \in BOOLEAN
    BY <1>24, Zenon DEF AdminPassword, Comes, SetPassword
  <2> QED
    BY <1>24, <2>1, <2>2 DEF AdminPassword, Comes, SetPassword
<1>25. ASSUME NEW r \in Requests, DisableUser(r) PROVE Kept
  BY <1>25 DEF DisableUser, Comes
<1>26. ASSUME NEW r \in Requests, TransitionFind(r) PROVE Kept
  BY <1>26 DEF TransitionFind, FindUser, Comes
<1>27. ASSUME NEW r \in Requests, TransitionWrite(r) PROVE Kept
  BY <1>27 DEF TransitionWrite, At
<1>28. ASSUME NEW r \in Requests, TransitionRecord(r) PROVE Kept
  BY <1>28 DEF TransitionRecord
<1>29. ASSUME NEW r \in Requests, RolesFind(r) PROVE Kept
  BY <1>29 DEF RolesFind, FindUser, Comes
<1>30. ASSUME NEW r \in Requests, RolesWrite(r) PROVE Kept
  BY <1>30 DEF RolesWrite, SetRoles, At
<1>31. ASSUME NEW r \in Requests, MyPasswordFind(r) PROVE Kept
  BY <1>31 DEF MyPasswordFind, FindUser, Comes
<1>32. ASSUME NEW r \in Requests, MyPasswordWrite(r) PROVE Kept
  <2>1. password' \in Requests \cup {Before}
    BY <1>32 DEF MyPasswordWrite, SetPassword, At
  <2>2. plain' \in BOOLEAN
    BY <1>32, Zenon DEF MyPasswordWrite, SetPassword, At
  <2> QED
    BY <1>32, <2>1, <2>2 DEF MyPasswordWrite, SetPassword, At
<1>33. ASSUME NEW r \in Requests, NEW g \in Requests \cup {Before}, Login(r, g) PROVE Kept
  BY <1>33 DEF Login, Comes
<1>34. ASSUME NEW k \in Types, CodeExpires(k) PROVE Kept
  BY <1>34 DEF CodeExpires
<1>35. ASSUME NEW k \in Types, AttemptsExpire(k) PROVE Kept
  BY <1>35 DEF AttemptsExpire, SetAttempts
<1>36. ASSUME ACrash PROVE Kept
  BY <1>36 DEF ACrash, Busy
<1>37. ASSUME UNCHANGED avars PROVE Kept
  BY <1>37 DEF avars
<1> HIDE DEF Kept
<1>38. ASSUME ANext PROVE Kept
  BY <1>38, <1>1, <1>2, <1>3, <1>4, <1>5, <1>6, <1>7, <1>8, <1>9, <1>10, <1>11, <1>12,
     <1>13, <1>14, <1>15, <1>16, <1>17, <1>18, <1>19, <1>20, <1>21, <1>22, <1>23, <1>24,
     <1>25, <1>26, <1>27, <1>28, <1>29, <1>30, <1>31, <1>32, <1>33, <1>34, <1>35, <1>36,
     <1>37
     DEF ANext
<1> QED
  BY <1>37, <1>38 DEF Kept

-----------------------------------------------------------------------------
(* The life of a code.                                                     *)

\* Request r has stored the code it generated, or never will.
Generated(r) == apc[r] \in {"tell", "wipe", "resends", "bump", "done"}

\* Request r has a guess, and it has not been refused.
Presented(r) == does[r] \in Guessing /\ (apc[r] \in Validating \/ aanswer[r] = "200")

OfType(c, k) ==
  \/ c \in Requests /\ Generated(c) /\ CodeType(does[c]) = k
  \/ c = Before /\ k = "confirmation"

\* A code is of one type and was stored by a request that will not store it again, and
\* the guess that used it has removed it.
CodesPlaced ==
  /\ \A k \in Types : code[k] # NoCode => OfType(code[k], k)
  /\ \A r \in Requests : Presented(r) => OfType(given[r], CodeType(does[r]))
  /\ \A r \in Requests : Presented(r) /\ apc[r] \in {"forget", "done"} => code[CodeType(does[r])] # given[r]

\* What a step makes of request q.
RequestMoves(q) ==
  /\ apc[q] # "idle" => does'[q] = does[q] /\ given'[q] = given[q]
  /\ Generated(q) => Generated(q)'
  /\ Presented(q)' =>
       \/ Presented(q)
       \/ apc'[q] = "attempts" /\ UNCHANGED code /\ given'[q] = code[CodeType(does'[q])] /\ given'[q] # NoCode
  /\ Presented(q)' /\ apc'[q] \in {"forget", "done"} =>
       apc[q] \in {"forget", "done"} \/ code' = [code EXCEPT ![CodeType(does[q])] = NoCode]

\* What a step makes of the codes.
CodesMove ==
  \/ UNCHANGED code
  \/ \E k \in Types : code' = [code EXCEPT ![k] = NoCode]
  \/ \E r \in Requests : apc[r] = "code" /\ Generated(r)' /\ code' = [code EXCEPT ![CodeType(does[r])] = r]

LEMMA RequestsMove ==
  ASSUME ATypeOK, PlacesFit, [ANext]_avars
  PROVE  CodesMove /\ \A q \in Requests : RequestMoves(q)
<1> DEFINE Kept == CodesMove /\ \A q \in Requests : RequestMoves(q)
<1> USE AccountAssumption DEF ATypeOK, PlacesFit, Validating, Guessing, Counting, Types,
        auser, acodes, areq, AGoto, AAnswer, CodeType, Generated, Presented, RequestMoves, CodesMove
<1>1. ASSUME NEW r \in Requests, Register(r) PROVE Kept
  BY <1>1 DEF Register, Comes
<1>2. ASSUME NEW r \in Requests, RegisterAgain(r) PROVE Kept
  BY <1>2 DEF RegisterAgain
<1>3. ASSUME NEW r \in Requests, RegisterMerchant(r) PROVE Kept
  BY <1>3 DEF RegisterMerchant, Comes
<1>4. ASSUME NEW r \in Requests, RaiseToMerchant(r) PROVE Kept
  BY <1>4 DEF RaiseToMerchant, SetRoles
<1>5. ASSUME NEW r \in Requests, CreateUser(r) PROVE Kept
  BY <1>5 DEF CreateUser
<1>6. ASSUME NEW r \in Requests, GenerateAndStore(r) PROVE Kept
  BY <1>6 DEF GenerateAndStore, StoreCode, CodeType
<1>7. ASSUME NEW r \in Requests, TellCode(r) PROVE Kept
  BY <1>7 DEF TellCode
<1>8. ASSUME NEW r \in Requests, ConfirmPhone(r) PROVE Kept
  BY <1>8 DEF ConfirmPhone, ValidateCode, Comes, CodeType
<1>9. ASSUME NEW r \in Requests, ResetPassword(r) PROVE Kept
  BY <1>9 DEF ResetPassword, ValidateCode, Comes, CodeType
<1>10. ASSUME NEW r \in Requests, ValidateAttempts(r) PROVE Kept
  BY <1>10 DEF ValidateAttempts, MayTry, CodeType
<1>11. ASSUME NEW r \in Requests, CountAttempt(r) PROVE Kept
  BY <1>11 DEF CountAttempt, SetAttempts, CodeType
<1>12. ASSUME NEW r \in Requests, FindAccount(r) PROVE Kept
  BY <1>12 DEF FindAccount
<1>13. ASSUME NEW r \in Requests, MarkAccount(r) PROVE Kept
  BY <1>13 DEF MarkAccount
<1>14. ASSUME NEW r \in Requests, ClearCode(r) PROVE Kept
  BY <1>14 DEF ClearCode, CodeType
<1>15. ASSUME NEW r \in Requests, ForgetAttempts(r) PROVE Kept
  BY <1>15 DEF ForgetAttempts, SetAttempts, CodeType
<1>16. ASSUME NEW r \in Requests, ResendCode(r) PROVE Kept
  BY <1>16 DEF ResendCode, Comes
<1>17. ASSUME NEW r \in Requests, CanResend(r) PROVE Kept
  BY <1>17 DEF CanResend
<1>18. ASSUME NEW r \in Requests, WipeAttempts(r) PROVE Kept
  BY <1>18 DEF WipeAttempts, SetAttempts
<1>19. ASSUME NEW r \in Requests, ReadResends(r) PROVE Kept
  BY <1>19 DEF ReadResends
<1>20. ASSUME NEW r \in Requests, IncrementResends(r) PROVE Kept
  BY <1>20 DEF IncrementResends
<1>21. ASSUME NEW r \in Requests, ForgotPassword(r) PROVE Kept
  BY <1>21 DEF ForgotPassword, Comes
<1>22. ASSUME NEW r \in Requests, LoginVerify(r) PROVE Kept
  BY <1>22 DEF LoginVerify
<1>23. ASSUME NEW r \in Requests, AdminCreate(r) PROVE Kept
  BY <1>23 DEF AdminCreate, Comes
<1>24. ASSUME NEW r \in Requests, AdminPassword(r) PROVE Kept
  BY <1>24 DEF AdminPassword, Comes, SetPassword
<1>25. ASSUME NEW r \in Requests, DisableUser(r) PROVE Kept
  BY <1>25 DEF DisableUser, Comes
<1>26. ASSUME NEW r \in Requests, TransitionFind(r) PROVE Kept
  BY <1>26 DEF TransitionFind, FindUser, Comes
<1>27. ASSUME NEW r \in Requests, TransitionWrite(r) PROVE Kept
  BY <1>27 DEF TransitionWrite, At
<1>28. ASSUME NEW r \in Requests, TransitionRecord(r) PROVE Kept
  BY <1>28 DEF TransitionRecord
<1>29. ASSUME NEW r \in Requests, RolesFind(r) PROVE Kept
  BY <1>29 DEF RolesFind, FindUser, Comes
<1>30. ASSUME NEW r \in Requests, RolesWrite(r) PROVE Kept
  BY <1>30 DEF RolesWrite, SetRoles, At
<1>31. ASSUME NEW r \in Requests, MyPasswordFind(r) PROVE Kept
  BY <1>31 DEF MyPasswordFind, FindUser, Comes
<1>32. ASSUME NEW r \in Requests, MyPasswordWrite(r) PROVE Kept
  BY <1>32 DEF MyPasswordWrite, SetPassword, At
<1>33. ASSUME NEW r \in Requests, NEW g \in Requests \cup {Before}, Login(r, g) PROVE Kept
  BY <1>33 DEF Login, Comes
<1>34. ASSUME NEW k \in Types, CodeExpires(k) PROVE Kept
  BY <1>34 DEF CodeExpires
<1>35. ASSUME NEW k \in Types, AttemptsExpire(k) PROVE Kept
  BY <1>35 DEF AttemptsExpire, SetAttempts
<1>36. ASSUME ACrash PROVE Kept
  BY <1>36 DEF ACrash, Busy
<1>37. ASSUME UNCHANGED avars PROVE Kept
  BY <1>37 DEF avars
<1> HIDE DEF Kept
<1>38. ASSUME ANext PROVE Kept
  BY <1>38, <1>1, <1>2, <1>3, <1>4, <1>5, <1>6, <1>7, <1>8, <1>9, <1>10, <1>11, <1>12,
     <1>13, <1>14, <1>15, <1>16, <1>17, <1>18, <1>19, <1>20, <1>21, <1>22, <1>23, <1>24,
     <1>25, <1>26, <1>27, <1>28, <1>29, <1>30, <1>31, <1>32, <1>33, <1>34, <1>35, <1>36,
     <1>37
     DEF ANext
<1> QED
  BY <1>37, <1>38 DEF Kept

LEMMA CodesPlacedFirst == AInit => CodesPlaced
  BY AccountAssumption DEF AInit, CodesPlaced, OfType, Presented, Validating, Guessing, Types

LEMMA CodesPlacedKept ==
  ASSUME ATypeOK, ATypeOK', PlacesFit, PlacesFit', CodesPlaced, [ANext]_avars
  PROVE  CodesPlaced'
<1>1. CodesMove /\ \A q \in Requests : RequestMoves(q)
  BY RequestsMove
<1>2. \A c, k : c # NoCode /\ OfType(c, k) => OfType(c, k)'
  BY <1>1 DEF OfType, RequestMoves, Generated, CodeType
<1>3. ASSUME NEW k \in Types, code'[k] # NoCode PROVE OfType(code[k], k)'
  <2>1. CASE code'[k] = code[k]
    BY <1>2, <1>3, <2>1 DEF CodesPlaced
  <2>2. ASSUME NEW r \in Requests, apc[r] = "code", Generated(r)', code' = [code EXCEPT ![CodeType(does[r])] = r],
               k = CodeType(does[r])
        PROVE  OfType(code[k], k)'
    <3>1. does'[r] = does[r] /\ code'[k] = r
      BY <1>1, <2>2, <1>3 DEF RequestMoves, ATypeOK
    <3> QED
      BY <2>2, <3>1 DEF OfType, CodeType
  <2> QED
    BY <1>1, <1>3, <2>1, <2>2 DEF CodesMove, ATypeOK
<1>4. ASSUME NEW r \in Requests, Presented(r)' PROVE OfType(given[r], CodeType(does[r]))'
  <2>1. CodeType(does'[r]) \in Types
    BY DEF CodeType, Types
  <2>2. CASE Presented(r)
    <3>1. does'[r] = does[r] /\ given'[r] = given[r]
      BY <1>1, <2>2 DEF RequestMoves, PlacesFit, Presented, Guessing
    <3> QED
      BY <1>2, <2>2, <3>1, AccountAssumption DEF CodesPlaced, OfType, CodeType
  <2>3. CASE ~Presented(r)
    BY <1>1, <1>2, <1>4, <2>1, <2>3 DEF RequestMoves, CodesPlaced
  <2> QED
    BY <2>2, <2>3
<1>5. ASSUME NEW r \in Requests, Presented(r)', apc'[r] \in {"forget", "done"}
      PROVE  code'[CodeType(does'[r])] # given'[r]
  <2>1. Presented(r)
    BY <1>1, <1>5 DEF RequestMoves
  <2>2. does'[r] = does[r] /\ given'[r] = given[r] /\ CodeType(does[r]) \in Types
    BY <1>1, <2>1 DEF RequestMoves, PlacesFit, Presented, Guessing, CodeType, Types
  <2>3. OfType(given[r], CodeType(does[r])) /\ given[r] # NoCode
    BY <2>1, AccountAssumption DEF CodesPlaced, OfType
  <2>4. CASE apc[r] \notin {"forget", "done"}
    BY <1>1, <1>5, <2>2, <2>3, <2>4 DEF RequestMoves, ATypeOK
  <2>5. CASE apc[r] \in {"forget", "done"}
    <3>1. code[CodeType(does[r])] # given[r]
      BY <2>1, <2>5 DEF CodesPlaced
    <3>2. \A q \in Requests : apc[q] = "code" => given[r] # q
      BY <2>3, AccountAssumption DEF OfType, Generated
    <3> QED
      BY <1>1, <2>2, <2>3, <3>1, <3>2 DEF CodesMove, ATypeOK
  <2> QED
    BY <2>4, <2>5
<1> QED
  BY <1>3, <1>4, <1>5 DEF CodesPlaced

\* Every variable of Accounts keeps its type.
THEOREM AccountsTypeCorrect == ASpec => []ATypeOK
<1>1. ATypeOK /\ PlacesFit /\ [ANext]_avars => (ATypeOK /\ PlacesFit)'
  BY PlacesFitKept
<1>2. AInit => ATypeOK /\ PlacesFit
  BY PlacesFitFirst
<1> QED
  BY <1>1, <1>2, PTL DEF ASpec

\* However guesses, resends and new codes overlap, whatever fails, and wherever the process
\* stops, a code that has worked is not stored any more.
THEOREM UsedCodesAreGone == ASpec => []CodesWorkOnce
<1> DEFINE Inv == ATypeOK /\ PlacesFit /\ CodesPlaced
<1>1. AInit => Inv
  BY PlacesFitFirst, CodesPlacedFirst
<1>2. Inv /\ [ANext]_avars => Inv'
  BY PlacesFitKept, CodesPlacedKept
<1>3. Inv => CodesWorkOnce
  <2> SUFFICES ASSUME Inv, NEW r \in Requests, does[r] \in Guessing, aanswer[r] = "200", NEW k \in Types
               PROVE  code[k] # given[r]
    BY DEF CodesWorkOnce
  <2>1. Presented(r) /\ apc[r] = "done"
    BY DEF Presented, PlacesFit
  <2>2. OfType(given[r], CodeType(does[r])) /\ code[CodeType(does[r])] # given[r]
    BY <2>1 DEF CodesPlaced
  <2>3. code[k] # NoCode => OfType(code[k], k)
    BY DEF CodesPlaced
  <2> QED
    BY <2>2, <2>3, AccountAssumption DEF OfType, Types, CodeType
<1> QED
  BY <1>1, <1>2, <1>3, PTL DEF ASpec

-----------------------------------------------------------------------------
(* A disabled user.                                                        *)

StaysClosed ==
  /\ Closed' /\ UNCHANGED merchant
  /\ \A r \in Requests : apc[r] = "idle" => apc'[r] # "verify"

LEMMA ClosedStays ==
  ASSUME ATypeOK, Closed, [ANext]_avars
  PROVE  StaysClosed
<1> DEFINE Kept == StaysClosed
<1> USE DEF ATypeOK, StaysClosed, Closed, Found, At, auser, acodes, areq, AGoto, AAnswer
<1>1. ASSUME NEW r \in Requests, Register(r) PROVE Kept
  BY <1>1 DEF Register, Comes
<1>2. ASSUME NEW r \in Requests, RegisterAgain(r) PROVE Kept
  BY <1>2 DEF RegisterAgain
<1>3. ASSUME NEW r \in Requests, RegisterMerchant(r) PROVE Kept
  BY <1>3 DEF RegisterMerchant, Comes
<1>4. ASSUME NEW r \in Requests, RaiseToMerchant(r) PROVE Kept
  BY <1>4 DEF RaiseToMerchant, SetRoles
<1>5. ASSUME NEW r \in Requests, CreateUser(r) PROVE Kept
  BY <1>5 DEF CreateUser
<1>6. ASSUME NEW r \in Requests, GenerateAndStore(r) PROVE Kept
  BY <1>6 DEF GenerateAndStore, StoreCode, CodeType
<1>7. ASSUME NEW r \in Requests, TellCode(r) PROVE Kept
  BY <1>7 DEF TellCode
<1>8. ASSUME NEW r \in Requests, ConfirmPhone(r) PROVE Kept
  BY <1>8 DEF ConfirmPhone, ValidateCode, Comes, CodeType
<1>9. ASSUME NEW r \in Requests, ResetPassword(r) PROVE Kept
  BY <1>9 DEF ResetPassword, ValidateCode, Comes, CodeType
<1>10. ASSUME NEW r \in Requests, ValidateAttempts(r) PROVE Kept
  BY <1>10 DEF ValidateAttempts, MayTry, CodeType
<1>11. ASSUME NEW r \in Requests, CountAttempt(r) PROVE Kept
  BY <1>11 DEF CountAttempt, SetAttempts, CodeType
<1>12. ASSUME NEW r \in Requests, FindAccount(r) PROVE Kept
  BY <1>12 DEF FindAccount
<1>13. ASSUME NEW r \in Requests, MarkAccount(r) PROVE Kept
  BY <1>13 DEF MarkAccount
<1>14. ASSUME NEW r \in Requests, ClearCode(r) PROVE Kept
  BY <1>14 DEF ClearCode, CodeType
<1>15. ASSUME NEW r \in Requests, ForgetAttempts(r) PROVE Kept
  BY <1>15 DEF ForgetAttempts, SetAttempts, CodeType
<1>16. ASSUME NEW r \in Requests, ResendCode(r) PROVE Kept
  BY <1>16 DEF ResendCode, Comes
<1>17. ASSUME NEW r \in Requests, CanResend(r) PROVE Kept
  BY <1>17 DEF CanResend
<1>18. ASSUME NEW r \in Requests, WipeAttempts(r) PROVE Kept
  BY <1>18 DEF WipeAttempts, SetAttempts
<1>19. ASSUME NEW r \in Requests, ReadResends(r) PROVE Kept
  BY <1>19 DEF ReadResends
<1>20. ASSUME NEW r \in Requests, IncrementResends(r) PROVE Kept
  BY <1>20 DEF IncrementResends
<1>21. ASSUME NEW r \in Requests, ForgotPassword(r) PROVE Kept
  BY <1>21 DEF ForgotPassword, Comes
<1>22. ASSUME NEW r \in Requests, LoginVerify(r) PROVE Kept
  BY <1>22 DEF LoginVerify
<1>23. ASSUME NEW r \in Requests, AdminCreate(r) PROVE Kept
  BY <1>23 DEF AdminCreate, Comes
<1>24. ASSUME NEW r \in Requests, AdminPassword(r) PROVE Kept
  BY <1>24 DEF AdminPassword, Comes, SetPassword
<1>25. ASSUME NEW r \in Requests, DisableUser(r) PROVE Kept
  BY <1>25 DEF DisableUser, Comes
<1>26. ASSUME NEW r \in Requests, TransitionFind(r) PROVE Kept
  BY <1>26 DEF TransitionFind, FindUser, Comes
<1>27. ASSUME NEW r \in Requests, TransitionWrite(r) PROVE Kept
  BY <1>27 DEF TransitionWrite, IsValidTransition
<1>28. ASSUME NEW r \in Requests, TransitionRecord(r) PROVE Kept
  BY <1>28 DEF TransitionRecord
<1>29. ASSUME NEW r \in Requests, RolesFind(r) PROVE Kept
  BY <1>29 DEF RolesFind, FindUser, Comes
<1>30. ASSUME NEW r \in Requests, RolesWrite(r) PROVE Kept
  BY <1>30 DEF RolesWrite, SetRoles, At
<1>31. ASSUME NEW r \in Requests, MyPasswordFind(r) PROVE Kept
  BY <1>31 DEF MyPasswordFind, FindUser, Comes
<1>32. ASSUME NEW r \in Requests, MyPasswordWrite(r) PROVE Kept
  BY <1>32 DEF MyPasswordWrite, SetPassword, At
<1>33. ASSUME NEW r \in Requests, NEW g \in Requests \cup {Before}, Login(r, g) PROVE Kept
  BY <1>33 DEF Login, Comes
<1>34. ASSUME NEW k \in Types, CodeExpires(k) PROVE Kept
  BY <1>34 DEF CodeExpires
<1>35. ASSUME NEW k \in Types, AttemptsExpire(k) PROVE Kept
  BY <1>35 DEF AttemptsExpire, SetAttempts
<1>36. ASSUME ACrash PROVE Kept
  BY <1>36 DEF ACrash, Busy
<1>37. ASSUME UNCHANGED avars PROVE Kept
  BY <1>37 DEF avars
<1> HIDE DEF Kept
<1>38. ASSUME ANext PROVE Kept
  BY <1>38, <1>1, <1>2, <1>3, <1>4, <1>5, <1>6, <1>7, <1>8, <1>9, <1>10, <1>11, <1>12,
     <1>13, <1>14, <1>15, <1>16, <1>17, <1>18, <1>19, <1>20, <1>21, <1>22, <1>23, <1>24,
     <1>25, <1>26, <1>27, <1>28, <1>29, <1>30, <1>31, <1>32, <1>33, <1>34, <1>35, <1>36,
     <1>37
     DEF ANext
<1> QED
  BY <1>37, <1>38 DEF Kept

\* Whatever registrations, resets, transitions and logins are under way or still come, a
\* user that has been disabled stays so, keeps its roles and gets no session.
THEOREM DisabledStaysDisabled == ASpec => DisabledForGood
<1>1. ATypeOK /\ PlacesFit /\ [ANext]_avars => (ATypeOK /\ PlacesFit)'
  BY PlacesFitKept
<1>2. AInit => ATypeOK /\ PlacesFit
  BY PlacesFitFirst
<1>3. ATypeOK /\ [ANext]_avars =>
        [Closed => /\ Closed' /\ UNCHANGED merchant
                   /\ \A r \in Requests : apc[r] = "idle" => apc'[r] # "verify"]_avars
  BY ClosedStays DEF StaysClosed
<1> QED
  BY <1>1, <1>2, <1>3, PTL DEF ASpec, DisabledForGood

-----------------------------------------------------------------------------
(* The limits.                                                             *)

CountsNow(r) == does[r] \in Counting /\ Busy(r)

\* One request counts at a time.
OneCounts == \A q, r \in Requests : CountsNow(q) /\ CountsNow(r) => q = r

\* The wrong guesses at a code have been counted, but for the one that is about to be,
\* and those counted before the code may be forgotten while it is there.
GuessesCounted ==
  \A k \in Types :
    /\ tried[k] <= MaxAttempts
    /\ code[k] # NoCode /\ (\A r \in Requests : apc[r] = "count" => CodeType(does[r]) # k) =>
         tried[k] <= attempts[k] /\ (~later[k] => tried[k] = 0)

\* Who counts a guess has seen the count, and who forgets the count has left no code that
\* was guessed at.
GuessesSeen ==
  \A r \in Requests :
    LET k == CodeType(does[r]) IN
    /\ apc[r] = "count" => seen[r] < MaxAttempts /\ (code[k] # NoCode => tried[k] <= seen[r] + 1)
    /\ apc[r] = "forget" => code[k] = NoCode \/ tried[k] = 0
    /\ apc[r] = "wipe" => tried["confirmation"] = 0

\* A resend is counted before it is answered, and there is room for the one under way.
ResendsCounted ==
  /\ resent <= resends /\ resends <= MaxResends
  /\ \A r \in Requests : does[r] = "resend" =>
       /\ apc[r] \in {"code", "wipe", "resends", "bump"} => resends < MaxResends
       /\ apc[r] = "bump" => seen[r] = resends
       /\ apc[r] = "tell" => resent < resends

CountsKept == OneCounts /\ GuessesCounted /\ GuessesSeen /\ ResendsCounted

Calm == ~mixed /\ ~AFails("redis") /\ ~AFails("crash")

LEMMA CountsKeptFirst == AInit => CountsKept
  BY AccountAssumption DEF AInit, CountsKept, OneCounts, GuessesCounted, GuessesSeen, ResendsCounted,
     CountsNow, Busy, Types, Counting, Guessing

LEMMA CalmBefore == ASSUME ATypeOK, [ANext]_avars, Calm' PROVE Calm
<1> DEFINE Kept == Calm
<1> USE DEF ATypeOK, Calm, AFails, auser, acodes, areq, AGoto, AAnswer
<1>1. ASSUME NEW r \in Requests, Register(r) PROVE Kept
  BY <1>1 DEF Register, Comes
<1>2. ASSUME NEW r \in Requests, RegisterAgain(r) PROVE Kept
  BY <1>2 DEF RegisterAgain
<1>3. ASSUME NEW r \in Requests, RegisterMerchant(r) PROVE Kept
  BY <1>3 DEF RegisterMerchant, Comes
<1>4. ASSUME NEW r \in Requests, RaiseToMerchant(r) PROVE Kept
  BY <1>4 DEF RaiseToMerchant, SetRoles
<1>5. ASSUME NEW r \in Requests, CreateUser(r) PROVE Kept
  BY <1>5 DEF CreateUser
<1>6. ASSUME NEW r \in Requests, GenerateAndStore(r) PROVE Kept
  BY <1>6 DEF GenerateAndStore, StoreCode, CodeType
<1>7. ASSUME NEW r \in Requests, TellCode(r) PROVE Kept
  BY <1>7 DEF TellCode
<1>8. ASSUME NEW r \in Requests, ConfirmPhone(r) PROVE Kept
  BY <1>8 DEF ConfirmPhone, ValidateCode, Comes, CodeType
<1>9. ASSUME NEW r \in Requests, ResetPassword(r) PROVE Kept
  BY <1>9 DEF ResetPassword, ValidateCode, Comes, CodeType
<1>10. ASSUME NEW r \in Requests, ValidateAttempts(r) PROVE Kept
  BY <1>10 DEF ValidateAttempts, MayTry, CodeType
<1>11. ASSUME NEW r \in Requests, CountAttempt(r) PROVE Kept
  BY <1>11 DEF CountAttempt, SetAttempts, CodeType
<1>12. ASSUME NEW r \in Requests, FindAccount(r) PROVE Kept
  BY <1>12 DEF FindAccount
<1>13. ASSUME NEW r \in Requests, MarkAccount(r) PROVE Kept
  BY <1>13 DEF MarkAccount
<1>14. ASSUME NEW r \in Requests, ClearCode(r) PROVE Kept
  BY <1>14 DEF ClearCode, CodeType
<1>15. ASSUME NEW r \in Requests, ForgetAttempts(r) PROVE Kept
  BY <1>15 DEF ForgetAttempts, SetAttempts, CodeType
<1>16. ASSUME NEW r \in Requests, ResendCode(r) PROVE Kept
  BY <1>16 DEF ResendCode, Comes
<1>17. ASSUME NEW r \in Requests, CanResend(r) PROVE Kept
  BY <1>17 DEF CanResend
<1>18. ASSUME NEW r \in Requests, WipeAttempts(r) PROVE Kept
  BY <1>18 DEF WipeAttempts, SetAttempts
<1>19. ASSUME NEW r \in Requests, ReadResends(r) PROVE Kept
  BY <1>19 DEF ReadResends
<1>20. ASSUME NEW r \in Requests, IncrementResends(r) PROVE Kept
  BY <1>20 DEF IncrementResends
<1>21. ASSUME NEW r \in Requests, ForgotPassword(r) PROVE Kept
  BY <1>21 DEF ForgotPassword, Comes
<1>22. ASSUME NEW r \in Requests, LoginVerify(r) PROVE Kept
  BY <1>22 DEF LoginVerify
<1>23. ASSUME NEW r \in Requests, AdminCreate(r) PROVE Kept
  BY <1>23 DEF AdminCreate, Comes
<1>24. ASSUME NEW r \in Requests, AdminPassword(r) PROVE Kept
  BY <1>24 DEF AdminPassword, Comes, SetPassword
<1>25. ASSUME NEW r \in Requests, DisableUser(r) PROVE Kept
  BY <1>25 DEF DisableUser, Comes
<1>26. ASSUME NEW r \in Requests, TransitionFind(r) PROVE Kept
  BY <1>26 DEF TransitionFind, FindUser, Comes
<1>27. ASSUME NEW r \in Requests, TransitionWrite(r) PROVE Kept
  BY <1>27 DEF TransitionWrite, At
<1>28. ASSUME NEW r \in Requests, TransitionRecord(r) PROVE Kept
  BY <1>28 DEF TransitionRecord
<1>29. ASSUME NEW r \in Requests, RolesFind(r) PROVE Kept
  BY <1>29 DEF RolesFind, FindUser, Comes
<1>30. ASSUME NEW r \in Requests, RolesWrite(r) PROVE Kept
  BY <1>30 DEF RolesWrite, SetRoles, At
<1>31. ASSUME NEW r \in Requests, MyPasswordFind(r) PROVE Kept
  BY <1>31 DEF MyPasswordFind, FindUser, Comes
<1>32. ASSUME NEW r \in Requests, MyPasswordWrite(r) PROVE Kept
  BY <1>32 DEF MyPasswordWrite, SetPassword, At
<1>33. ASSUME NEW r \in Requests, NEW g \in Requests \cup {Before}, Login(r, g) PROVE Kept
  BY <1>33 DEF Login, Comes
<1>34. ASSUME NEW k \in Types, CodeExpires(k) PROVE Kept
  BY <1>34 DEF CodeExpires
<1>35. ASSUME NEW k \in Types, AttemptsExpire(k) PROVE Kept
  BY <1>35 DEF AttemptsExpire, SetAttempts
<1>36. ASSUME ACrash PROVE Kept
  BY <1>36 DEF ACrash, Busy
<1>37. ASSUME UNCHANGED avars PROVE Kept
  BY <1>37 DEF avars
<1> HIDE DEF Kept
<1>38. ASSUME ANext PROVE Kept
  BY <1>38, <1>1, <1>2, <1>3, <1>4, <1>5, <1>6, <1>7, <1>8, <1>9, <1>10, <1>11, <1>12,
     <1>13, <1>14, <1>15, <1>16, <1>17, <1>18, <1>19, <1>20, <1>21, <1>22, <1>23, <1>24,
     <1>25, <1>26, <1>27, <1>28, <1>29, <1>30, <1>31, <1>32, <1>33, <1>34, <1>35, <1>36,
     <1>37
     DEF ANext
<1> QED
  BY <1>37, <1>38 DEF Kept

LEMMA CountsStayKept ==
  ASSUME ATypeOK, ATypeOK', PlacesFit, CodesPlaced, CountsKept, Calm, Calm', [ANext]_avars
  PROVE  CountsKept'
<1> DEFINE Kept == CountsKept'
<1> USE AccountAssumption DEF ATypeOK, PlacesFit, Validating, Guessing, Counting, Types, CountsKept, OneCounts,
        GuessesCounted, GuessesSeen, ResendsCounted, CountsNow, Busy, Calm,
        auser, acodes, areq, AGoto, AAnswer, CodeType
<1>1. ASSUME NEW r \in Requests, Register(r) PROVE Kept
  BY <1>1 DEF Register, Comes
<1>2. ASSUME NEW r \in Requests, RegisterAgain(r) PROVE Kept
  BY <1>2 DEF RegisterAgain
<1>3. ASSUME NEW r \in Requests, RegisterMerchant(r) PROVE Kept
  BY <1>3 DEF RegisterMerchant, Comes
<1>4. ASSUME NEW r \in Requests, RaiseToMerchant(r) PROVE Kept
  BY <1>4 DEF RaiseToMerchant, SetRoles
<1>5. ASSUME NEW r \in Requests, CreateUser(r) PROVE Kept
  <2>1. OneCounts'
    BY <1>5 DEF CreateUser, Sees
  <2>2. GuessesCounted'
    BY <1>5 DEF CreateUser, Sees
  <2>3. GuessesSeen'
    BY <1>5 DEF CreateUser, Sees
  <2>4. ResendsCounted'
    BY <1>5 DEF CreateUser, Sees
  <2> QED
    BY <2>1, <2>2, <2>3, <2>4
<1>6. ASSUME NEW r \in Requests, GenerateAndStore(r) PROVE Kept
  BY <1>6, SMTT(30) DEF GenerateAndStore, StoreCode, CodeType
<1>7. ASSUME NEW r \in Requests, TellCode(r) PROVE Kept
  BY <1>7 DEF TellCode
<1>8. ASSUME NEW r \in Requests, ConfirmPhone(r) PROVE Kept
  <2>1. \A q \in Requests : ~CountsNow(q)
    BY <1>8 DEF ConfirmPhone, ValidateCode, Comes, CodeType
  <2>2. OneCounts'
    BY <1>8, <2>1 DEF ConfirmPhone, ValidateCode, Comes, CodeType
  <2>3. GuessesCounted'
    BY <1>8, <2>1 DEF ConfirmPhone, ValidateCode, Comes, CodeType
  <2>4. GuessesSeen'
    BY <1>8, <2>1 DEF ConfirmPhone, ValidateCode, Comes, CodeType
  <2>5. ResendsCounted'
    BY <1>8, <2>1 DEF ConfirmPhone, ValidateCode, Comes, CodeType
  <2> QED
    BY <2>2, <2>3, <2>4, <2>5
<1>9. ASSUME NEW r \in Requests, ResetPassword(r) PROVE Kept
  <2>1. \A q \in Requests : ~CountsNow(q)
    BY <1>9 DEF ResetPassword, ValidateCode, Comes, CodeType
  <2>2. OneCounts'
    BY <1>9, <2>1 DEF ResetPassword, ValidateCode, Comes, CodeType
  <2>3. GuessesCounted'
    BY <1>9, <2>1 DEF ResetPassword, ValidateCode, Comes, CodeType
  <2>4. GuessesSeen'
    BY <1>9, <2>1 DEF ResetPassword, ValidateCode, Comes, CodeType
  <2>5. ResendsCounted'
    BY <1>9, <2>1 DEF ResetPassword, ValidateCode, Comes, CodeType
  <2> QED
    BY <2>2, <2>3, <2>4, <2>5
<1>10. ASSUME NEW r \in Requests, ValidateAttempts(r) PROVE Kept
  <2>1. \A q \in Requests \ {r} : apc[q] # "count" /\ ~CountsNow(q)
    BY <1>10 DEF ValidateAttempts, MayTry, CodeType, Sees
  <2>2. given[r] # NoCode
    BY <1>10 DEF ValidateAttempts, MayTry, CodeType, Sees, CodesPlaced, Presented, OfType
  <2>3. OneCounts'
    BY <1>10, <2>1, <2>2 DEF ValidateAttempts, MayTry, CodeType, Sees
  <2>4. GuessesCounted'
    BY <1>10, <2>1, <2>2 DEF ValidateAttempts, MayTry, CodeType, Sees
  <2>5. GuessesSeen'
    BY <1>10, <2>1, <2>2 DEF ValidateAttempts, MayTry, CodeType, Sees
  <2>6. ResendsCounted'
    BY <1>10, <2>1, <2>2 DEF ValidateAttempts, MayTry, CodeType, Sees
  <2> QED
    BY <2>3, <2>4, <2>5, <2>6
<1>11. ASSUME NEW r \in Requests, CountAttempt(r) PROVE Kept
  BY <1>11 DEF CountAttempt, SetAttempts, CodeType
<1>12. ASSUME NEW r \in Requests, FindAccount(r) PROVE Kept
  BY <1>12 DEF FindAccount
<1>13. ASSUME NEW r \in Requests, MarkAccount(r) PROVE Kept
  BY <1>13 DEF MarkAccount
<1>14. ASSUME NEW r \in Requests, ClearCode(r) PROVE Kept
  BY <1>14 DEF ClearCode, CodeType
<1>15. ASSUME NEW r \in Requests, ForgetAttempts(r) PROVE Kept
  BY <1>15 DEF ForgetAttempts, SetAttempts, CodeType
<1>16. ASSUME NEW r \in Requests, ResendCode(r) PROVE Kept
  <2>1. \A q \in Requests : ~CountsNow(q)
    BY <1>16 DEF ResendCode, Comes
  <2>2. OneCounts'
    BY <1>16, <2>1 DEF ResendCode, Comes
  <2>3. GuessesCounted'
    BY <1>16, <2>1 DEF ResendCode, Comes
  <2>4. GuessesSeen'
    BY <1>16, <2>1 DEF ResendCode, Comes
  <2>5. ResendsCounted'
    BY <1>16, <2>1 DEF ResendCode, Comes
  <2> QED
    BY <2>2, <2>3, <2>4, <2>5
<1>17. ASSUME NEW r \in Requests, CanResend(r) PROVE Kept
  BY <1>17 DEF CanResend
<1>18. ASSUME NEW r \in Requests, WipeAttempts(r) PROVE Kept
  BY <1>18 DEF WipeAttempts, SetAttempts
<1>19. ASSUME NEW r \in Requests, ReadResends(r) PROVE Kept
  <2>1. OneCounts'
    BY <1>19 DEF ReadResends, Sees
  <2>2. GuessesCounted'
    BY <1>19 DEF ReadResends, Sees
  <2>3. GuessesSeen'
    BY <1>19 DEF ReadResends, Sees
  <2>4. ResendsCounted'
    BY <1>19 DEF ReadResends, Sees
  <2> QED
    BY <2>1, <2>2, <2>3, <2>4
<1>20. ASSUME NEW r \in Requests, IncrementResends(r) PROVE Kept
  BY <1>20 DEF IncrementResends
<1>21. ASSUME NEW r \in Requests, ForgotPassword(r) PROVE Kept
  BY <1>21 DEF ForgotPassword, Comes
<1>22. ASSUME NEW r \in Requests, LoginVerify(r) PROVE Kept
  BY <1>22 DEF LoginVerify
<1>23. ASSUME NEW r \in Requests, AdminCreate(r) PROVE Kept
  BY <1>23 DEF AdminCreate, Comes
<1>24. ASSUME NEW r \in Requests, AdminPassword(r) PROVE Kept
  BY <1>24 DEF AdminPassword, Comes, SetPassword
<1>25. ASSUME NEW r \in Requests, DisableUser(r) PROVE Kept
  BY <1>25 DEF DisableUser, Comes
<1>26. ASSUME NEW r \in Requests, TransitionFind(r) PROVE Kept
  BY <1>26 DEF TransitionFind, FindUser, Comes
<1>27. ASSUME NEW r \in Requests, TransitionWrite(r) PROVE Kept
  BY <1>27 DEF TransitionWrite, At
<1>28. ASSUME NEW r \in Requests, TransitionRecord(r) PROVE Kept
  BY <1>28 DEF TransitionRecord
<1>29. ASSUME NEW r \in Requests, RolesFind(r) PROVE Kept
  BY <1>29 DEF RolesFind, FindUser, Comes
<1>30. ASSUME NEW r \in Requests, RolesWrite(r) PROVE Kept
  BY <1>30 DEF RolesWrite, SetRoles, At
<1>31. ASSUME NEW r \in Requests, MyPasswordFind(r) PROVE Kept
  <2>1. does'[r] \notin Counting /\ \A q \in Requests \ {r} : UNCHANGED <<does[q], apc[q], seen[q]>>
    BY <1>31 DEF MyPasswordFind, FindUser, Comes
  <2>2. UNCHANGED <<acodes, seen>> /\ apc[r] = "idle" /\ apc'[r] \in {"write", "done"}
    BY <1>31 DEF MyPasswordFind, FindUser, Comes
  <2>3. OneCounts'
    BY <1>31, <2>1, <2>2 DEF MyPasswordFind, FindUser, Comes
  <2>4. GuessesCounted'
    BY <1>31, <2>1, <2>2 DEF MyPasswordFind, FindUser, Comes
  <2>5. GuessesSeen'
    BY <1>31, <2>1, <2>2 DEF MyPasswordFind, FindUser, Comes
  <2>6. ResendsCounted'
    BY <1>31, <2>1, <2>2 DEF MyPasswordFind, FindUser, Comes
  <2> QED
    BY <2>3, <2>4, <2>5, <2>6
<1>32. ASSUME NEW r \in Requests, MyPasswordWrite(r) PROVE Kept
  BY <1>32 DEF MyPasswordWrite, SetPassword, At
<1>33. ASSUME NEW r \in Requests, NEW g \in Requests \cup {Before}, Login(r, g) PROVE Kept
  BY <1>33 DEF Login, Comes
<1>34. ASSUME NEW k \in Types, CodeExpires(k) PROVE Kept
  BY <1>34 DEF CodeExpires
<1>35. ASSUME NEW k \in Types, AttemptsExpire(k) PROVE Kept
  BY <1>35 DEF AttemptsExpire, SetAttempts
<1>36. ASSUME ACrash PROVE Kept
  BY <1>36 DEF ACrash, Busy
<1>37. ASSUME UNCHANGED avars PROVE Kept
  BY <1>37 DEF avars
<1> HIDE DEF Kept
<1>38. ASSUME ANext PROVE Kept
  BY <1>38, <1>1, <1>2, <1>3, <1>4, <1>5, <1>6, <1>7, <1>8, <1>9, <1>10, <1>11, <1>12,
     <1>13, <1>14, <1>15, <1>16, <1>17, <1>18, <1>19, <1>20, <1>21, <1>22, <1>23, <1>24,
     <1>25, <1>26, <1>27, <1>28, <1>29, <1>30, <1>31, <1>32, <1>33, <1>34, <1>35, <1>36,
     <1>37
     DEF ANext
<1> QED
  BY <1>37, <1>38 DEF Kept

\* For every MAX_ATTEMPTS and MAX_RESENDS, and whatever is registered, resent, forgotten or
\* expires in between: a code is compared with no more wrong guesses, and no more resends are
\* answered, than the limits allow, while one request counts at a time.
THEOREM LimitsAreKept == ASpec => []LimitsHold
<1> DEFINE Inv == ATypeOK /\ PlacesFit /\ CodesPlaced /\ (Calm => CountsKept)
<1>1. AInit => Inv
  BY PlacesFitFirst, CodesPlacedFirst, CountsKeptFirst
<1>2. Inv /\ [ANext]_avars => Inv'
  <2> SUFFICES ASSUME Inv, [ANext]_avars PROVE Inv'
    OBVIOUS
  <2>1. ATypeOK' /\ PlacesFit' /\ CodesPlaced'
    BY PlacesFitKept, CodesPlacedKept
  <2>2. Calm' => CountsKept'
    BY <2>1, CalmBefore, CountsStayKept
  <2> QED
    BY <2>1, <2>2
<1>3. Inv => LimitsHold
  <2> SUFFICES ASSUME Inv, ~mixed, afaults \cap {"redis", "crash"} = {}
               PROVE  (\A k \in Types : tried[k] <= MaxAttempts) /\ resent <= MaxResends
    BY DEF LimitsHold
  <2>1. Calm
    BY DEF Calm, AFails
  <2> QED
    BY <2>1, AccountAssumption DEF CountsKept, GuessesCounted, ResendsCounted, ATypeOK
<1> QED
  BY <1>1, <1>2, <1>3, PTL DEF ASpec

-----------------------------------------------------------------------------
(* The composition.                                                        *)

\* A behaviour of the composition is one of each of its parts.
LEMMA PartsBehave ==
  Spec => ASpec /\ OSpec /\ KSpec /\ SSpec /\ GSpec /\ MSpec
<1>1. Init => AInit /\ OInit /\ KInit /\ SInit /\ GInit /\ MInit
  BY DEF Init
<1>2. ASSUME [Next]_<<avars, ovars, kvars, svars, gvars, mvars, part>>
      PROVE  /\ [ANext]_avars /\ [ONext]_ovars /\ [KNext]_kvars
             /\ [SNext]_svars /\ [GNext]_gvars /\ [MNext]_mvars
  BY <1>2 DEF Next
<1> QED
  BY <1>1, <1>2, PTL DEF Spec, ASpec, OSpec, KSpec, SSpec, GSpec, MSpec

\* Whichever part moves, the variables of all of them keep their types.
THEOREM PartsTypeCorrect == Spec => []TypeOK
<1>1. ATypeOK /\ OTypeOK /\ KTypeOK /\ STypeOK /\ GTypeOK /\ MTypeOK /\ part \in Parts => TypeOK
  BY DEF TypeOK, Parts
<1>2. Spec => [](part \in Parts)
  <2>1. Init => part \in Parts
    BY DEF Init
  <2>2. part \in Parts /\ [Next]_<<avars, ovars, kvars, svars, gvars, mvars, part>> => (part \in Parts)'
    BY DEF Next
  <2> QED
    BY <2>1, <2>2, PTL DEF Spec
<1> QED
  BY <1>1, <1>2, PartsBehave, AccountsTypeCorrect, TerminalsTypeCorrect, KeysTypeCorrect,
     SessionsTypeCorrect, PermissionsTypeCorrect, MenuTypeCorrect, PTL
=============================================================================
