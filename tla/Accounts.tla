------------------------------- MODULE Accounts -------------------------------
(***************************************************************************)
(* An account and the codes sent to its phone: registration, confirmation, *)
(* password reset and login (auth.service.ts), the code service            *)
(* (confirmation-code.service.ts) and the administration of users          *)
(* (users.service.ts).                                                     *)
(*                                                                         *)
(* Every document and every Redis key here belongs to one phone number, so *)
(* the module follows one phone.  A code is named by the request that      *)
(* generated it, a password by the request that chose it.                  *)
(***************************************************************************)
EXTENDS Naturals

CONSTANTS
  Requests,
  Before,      \* the request that made the account a behaviour starts with
  NoCode,      \* Redis has no such key
  MaxAttempts, \* MAX_ATTEMPTS
  MaxResends,  \* MAX_RESENDS
  AccountFaults

ASSUME AccountAssumption ==
  /\ Before \notin Requests /\ NoCode \notin Requests \cup {Before}
  /\ MaxAttempts \in Nat \ {0} /\ MaxResends \in Nat \ {0}
  /\ AccountFaults \subseteq SUBSET {"db", "redis", "crash"}

VARIABLES
  status,    \* of the user's document, or "none" without one
  confirmed, \* phoneConfirmed
  merchant,  \* additionalRoleKeys has 'merchant'
  password,  \* whose password passwordHash is
  plain,     \* it was stored as it came, without a hash
  code,      \* Redis: the code of each type
  attempts,  \* Redis: the wrong guesses counted
  resends,   \* Redis: the resends counted
  tried,     \* the wrong guesses the present code was compared with
  later,     \* the attempts were written after the code
  resent,    \* the resends answered
  apc, aanswer,
  does,      \* what each request does
  given,     \* the password it presents, or the code its guess is compared with
  seen,      \* a count it read; 1 if its guess is right, or its user created
  from,      \* the status it read
  mixed,     \* two requests that count were under way at once, now or before
  afaults    \* the failures of this behaviour; never changes

auser == <<status, confirmed, merchant, password, plain>>
acodes == <<code, attempts, resends, tried, later, resent>>
areq == <<does, given, seen, from, mixed>>
avars == <<auser, acodes, apc, aanswer, areq, afaults>>

Types == {"confirmation", "reset"}
UserStates == {"INACTIVE", "ACTIVE", "SUSPENDED", "DISABLED"}
Guessing == {"confirm", "reset"}
Counting == Guessing \cup {"resend"}
Doings == Counting \cup {"register", "merchant", "create", "forgot", "login", "transition",
                         "disable", "roles", "password", "mine"}

ATypeOK ==
  /\ status \in UserStates \cup {"none"}
  /\ confirmed \in BOOLEAN /\ merchant \in BOOLEAN /\ plain \in BOOLEAN
  /\ password \in Requests \cup {Before}
  /\ code \in [Types -> Requests \cup {Before, NoCode}]
  /\ attempts \in [Types -> Nat] /\ resends \in Nat
  /\ tried \in [Types -> Nat] /\ later \in [Types -> BOOLEAN] /\ resent \in Nat
  /\ apc \in [Requests -> {"idle", "done", "again", "raise", "create", "code", "tell", "attempts", "count",
                           "find", "mark", "clear", "forget", "may", "wipe", "resends", "bump",
                           "verify", "write", "record"}]
  /\ aanswer \in [Requests -> {"none", "200", "201", "204", "400", "401", "404", "409", "429", "500", "lost"}]
  /\ does \in [Requests -> Doings \cup {"none"}]
  /\ given \in [Requests -> Requests \cup {Before, NoCode}]
  /\ seen \in [Requests -> Nat]
  /\ from \in [Requests -> UserStates \cup {"none"}]
  /\ mixed \in BOOLEAN
  /\ afaults \in AccountFaults

\* There is no account yet, or one that has been sent its code, or a confirmed one.
AInit ==
  /\ status \in {"none", "ACTIVE"} /\ confirmed \in BOOLEAN /\ (confirmed => status = "ACTIVE")
  /\ merchant = FALSE /\ plain = FALSE /\ password = Before
  /\ code = [k \in Types |-> IF k = "confirmation" /\ status = "ACTIVE" /\ ~confirmed THEN Before ELSE NoCode]
  /\ attempts = [k \in Types |-> 0] /\ resends = 0
  /\ tried = [k \in Types |-> 0] /\ later = [k \in Types |-> FALSE] /\ resent = 0
  /\ apc = [r \in Requests |-> "idle"] /\ aanswer = [r \in Requests |-> "none"]
  /\ does = [r \in Requests |-> "none"] /\ given = [r \in Requests |-> Before]
  /\ seen = [r \in Requests |-> 0] /\ from = [r \in Requests |-> "none"]
  /\ mixed = FALSE
  /\ afaults \in AccountFaults

AFails(service) == service \in afaults
Busy(r) == apc[r] \notin {"idle", "done"}
AGoto(r, l) == apc' = [apc EXCEPT ![r] = l] /\ UNCHANGED aanswer
AAnswer(r, a) == apc' = [apc EXCEPT ![r] = "done"] /\ aanswer' = [aanswer EXCEPT ![r] = a]
At(r, d, l) == does[r] = d /\ apc[r] = l

\* Request r comes in to do d, with a password or a code.
Comes(r, d, g) ==
  /\ apc[r] = "idle"
  /\ does' = [does EXCEPT ![r] = d] /\ given' = [given EXCEPT ![r] = g]
  /\ mixed' = (mixed \/ (d \in Counting /\ \E q \in Requests : Busy(q) /\ does[q] \in Counting))

Sees(r, n) == seen' = [seen EXCEPT ![r] = n]
CodeType(d) == IF d \in {"reset", "forgot"} THEN "reset" ELSE "confirmation"

\* findByPhone and findByEmail see ACTIVE users only; when they fail they answer
\* without data, as when there is none.
Found == status = "ACTIVE"

-----------------------------------------------------------------------------
(* ConfirmationCodeService.                                                *)

\* generateAndStore: a new code; the attempts stay as they are.
StoreCode(r) ==
  LET k == CodeType(does[r]) IN
  /\ code' = [code EXCEPT ![k] = r]
  /\ tried' = [tried EXCEPT ![k] = 0] /\ later' = [later EXCEPT ![k] = FALSE]
  /\ UNCHANGED <<attempts, resends, resent>>

GenerateAndStore(r) ==
  /\ apc[r] = "code"
  /\ \/ StoreCode(r) /\ AGoto(r, IF does[r] = "resend" THEN "wipe" ELSE "tell")
     \/ AFails("redis") /\ AAnswer(r, "500") /\ (StoreCode(r) \/ UNCHANGED acodes)
  /\ UNCHANGED <<auser, areq, afaults>>

\* validate: the code...
ValidateCode(r, d) ==
  LET stored == code[CodeType(d)] IN
  /\ Comes(r, d, stored)
  /\ \/ stored # NoCode /\ AGoto(r, "attempts") /\ \E right \in {0, 1} : Sees(r, right)
     \/ stored = NoCode /\ AAnswer(r, "400") /\ UNCHANGED seen
     \/ AFails("redis") /\ AAnswer(r, "500") /\ UNCHANGED seen
  /\ UNCHANGED <<auser, acodes, from, afaults>>

\* Mutant: one guess too many.
MayTryAgain(k) == attempts[k] <= MaxAttempts
MayTry(k) == attempts[k] < MaxAttempts

\* ... then the attempts, and the comparison with the code it had read.
ValidateAttempts(r) ==
  LET k == CodeType(does[r]) IN
  /\ apc[r] = "attempts"
  /\ \/ MayTry(k) /\ seen[r] = 1 /\ AGoto(r, "find") /\ UNCHANGED <<seen, tried>>
     \/ /\ MayTry(k) /\ seen[r] = 0 /\ AGoto(r, "count") /\ Sees(r, attempts[k])
        /\ tried' = IF code[k] = given[r] THEN [tried EXCEPT ![k] = @ + 1] ELSE tried
     \/ ~MayTry(k) /\ AAnswer(r, "400") /\ UNCHANGED <<seen, tried>>
     \/ AFails("redis") /\ AAnswer(r, "500") /\ UNCHANGED <<seen, tried>>
  /\ UNCHANGED <<auser, code, attempts, resends, later, resent, does, given, from, mixed, afaults>>

SetAttempts(k, n) == attempts' = [attempts EXCEPT ![k] = n]

CountAttempt(r) ==
  LET k == CodeType(does[r])
      Counted == SetAttempts(k, seen[r] + 1) /\ later' = [later EXCEPT ![k] = TRUE]
  IN
  /\ apc[r] = "count"
  /\ \/ Counted /\ AAnswer(r, "400")
     \/ AFails("redis") /\ AAnswer(r, "500") /\ (Counted \/ UNCHANGED <<attempts, later>>)
  /\ UNCHANGED <<auser, code, resends, tried, resent, areq, afaults>>

\* Mutant: clear leaves the code.
ClearNoCode(r) == apc[r] = "clear" /\ AGoto(r, "forget") /\ UNCHANGED <<auser, acodes, areq, afaults>>

\* clear: deletes the code that is there by now, and then the attempts.
ClearCode(r) ==
  LET Cleared == code' = [code EXCEPT ![CodeType(does[r])] = NoCode] IN
  /\ apc[r] = "clear"
  /\ \/ Cleared /\ AGoto(r, "forget")
     \/ AFails("redis") /\ AAnswer(r, "500") /\ (Cleared \/ UNCHANGED code)
  /\ UNCHANGED <<auser, attempts, resends, tried, later, resent, areq, afaults>>

ForgetAttempts(r) ==
  LET Forgotten == SetAttempts(CodeType(does[r]), 0) IN
  /\ apc[r] = "forget"
  /\ \/ Forgotten /\ AAnswer(r, "200")
     \/ AFails("redis") /\ AAnswer(r, "500") /\ (Forgotten \/ UNCHANGED attempts)
  /\ UNCHANGED <<auser, code, resends, tried, later, resent, areq, afaults>>

\* Codes and attempts live 600 s from when they are written, so attempts written
\* after the code outlive it.  The resends live a day, longer than a behaviour.
CodeExpires(k) ==
  /\ code[k] # NoCode /\ code' = [code EXCEPT ![k] = NoCode]
  /\ UNCHANGED <<auser, attempts, resends, tried, later, resent, apc, aanswer, areq, afaults>>

AttemptsExpire(k) ==
  /\ attempts[k] # 0 /\ (later[k] => code[k] = NoCode) /\ SetAttempts(k, 0)
  /\ UNCHANGED <<auser, code, resends, tried, later, resent, apc, aanswer, areq, afaults>>

-----------------------------------------------------------------------------
(* register and registerMerchant.                                          *)

\* findByPhone.  An ACTIVE user whose phone is not confirmed gets the new
\* password, and no code.
Register(r) ==
  /\ Comes(r, "register", Before)
  /\ \/ Found /\ confirmed /\ AAnswer(r, "400")
     \/ Found /\ ~confirmed /\ AGoto(r, "again")
     \/ (~Found \/ AFails("db")) /\ AGoto(r, "create")
  /\ UNCHANGED <<auser, acodes, seen, from, afaults>>

\* updatePasswordByPhone, with the password as it came.
RegisterAgain(r) ==
  LET Stored == password' = r /\ plain' = TRUE IN
  /\ apc[r] = "again"
  /\ \/ Stored /\ AAnswer(r, "201")
     \/ AFails("db") /\ AAnswer(r, "500") /\ (Stored \/ UNCHANGED <<password, plain>>)
  /\ UNCHANGED <<status, confirmed, merchant, acodes, areq, afaults>>

\* findByEmail and findByPhone.  The email may be another user's and the user an
\* administrator (409), or have roles that do not go together (400).
RegisterMerchant(r) ==
  /\ Comes(r, "merchant", Before)
  /\ \/ AAnswer(r, "409")
     \/ Found /\ merchant /\ AAnswer(r, "201")
     \/ Found /\ ~merchant /\ (AGoto(r, "raise") \/ AAnswer(r, "400"))
     \/ (~Found \/ AFails("db")) /\ AGoto(r, "create")
  /\ UNCHANGED <<auser, acodes, seen, from, afaults>>

\* Writes the roles of an ACTIVE user only; a user it does not find makes
\* mapToDTO throw.
SetRoles(r, to, ok) ==
  /\ \/ Found /\ merchant' = to /\ AAnswer(r, ok)
     \/ ~Found /\ AAnswer(r, "500") /\ UNCHANGED merchant
     \/ AFails("db") /\ AAnswer(r, "500") /\ ((Found /\ merchant' = to) \/ UNCHANGED merchant)
  /\ UNCHANGED <<status, confirmed, password, plain, acodes, areq, afaults>>

RaiseToMerchant(r) == apc[r] = "raise" /\ SetRoles(r, TRUE, "201")

\* usersService.create: the phone is unique, also among users that are not ACTIVE.
\* A registration does not look at whether it failed.
CreateUser(r) ==
  LET Created == /\ status = "none" /\ status' = "ACTIVE" /\ password' = r
                 /\ merchant' = (does[r] = "merchant") /\ UNCHANGED <<confirmed, plain>>
      Then(n, a) == Sees(r, n) /\ (IF does[r] = "create" THEN AAnswer(r, a) ELSE AGoto(r, "code"))
  IN
  /\ apc[r] = "create"
  /\ \/ Created /\ Then(1, "201")
     \/ status # "none" /\ Then(0, "500") /\ UNCHANGED auser
     \/ AFails("db") /\ Then(0, "500") /\ (Created \/ UNCHANGED auser)
  /\ UNCHANGED <<acodes, does, given, from, mixed, afaults>>

\* emitAsync: the event takes its name from the user that was created, and throws
\* when it was not.
TellCode(r) ==
  /\ apc[r] = "tell"
  /\ AAnswer(r, IF does[r] \notin {"register", "merchant"} THEN "200"
                ELSE IF seen[r] = 1 THEN "201" ELSE "500")
  /\ resent' = IF does[r] = "resend" THEN resent + 1 ELSE resent
  /\ UNCHANGED <<auser, code, attempts, resends, tried, later, areq, afaults>>

-----------------------------------------------------------------------------
(* confirmPhone, resetPassword, resendCode, forgotPassword.                *)

ConfirmPhone(r) == ValidateCode(r, "confirm")
ResetPassword(r) == ValidateCode(r, "reset")

\* findByPhone.  resetPassword only looks at whether there is an answer, and
\* there always is.
FindAccount(r) ==
  /\ apc[r] = "find"
  /\ \/ (Found \/ does[r] = "reset") /\ AGoto(r, "mark")
     \/ (~Found \/ AFails("db")) /\ does[r] = "confirm" /\ AAnswer(r, "400")
  /\ UNCHANGED <<auser, acodes, areq, afaults>>

\* markPhoneConfirmed, or updatePasswordByPhone with a hash: whatever the status
\* is by now.
MarkAccount(r) ==
  LET Marked == IF does[r] = "confirm" THEN confirmed' = TRUE /\ UNCHANGED <<password, plain>>
                ELSE IF status = "none" THEN UNCHANGED <<confirmed, password, plain>>
                ELSE password' = r /\ plain' = FALSE /\ UNCHANGED confirmed
  IN
  /\ apc[r] = "mark"
  /\ \/ Marked /\ AGoto(r, "clear")
     \/ AFails("db") /\ AAnswer(r, "500") /\ (Marked \/ UNCHANGED <<confirmed, password, plain>>)
  /\ UNCHANGED <<status, merchant, acodes, areq, afaults>>

ResendCode(r) ==
  /\ Comes(r, "resend", Before)
  /\ \/ Found /\ ~confirmed /\ AGoto(r, "may")
     \/ (~Found \/ confirmed \/ AFails("db")) /\ AAnswer(r, "400")
  /\ UNCHANGED <<auser, acodes, seen, from, afaults>>

CanResend(r) ==
  /\ apc[r] = "may"
  /\ \/ resends < MaxResends /\ AGoto(r, "code")
     \/ resends >= MaxResends /\ AAnswer(r, "429")
     \/ AFails("redis") /\ AAnswer(r, "500")
  /\ UNCHANGED <<auser, acodes, areq, afaults>>

\* resetAttempts.
WipeAttempts(r) ==
  /\ apc[r] = "wipe"
  /\ \/ SetAttempts("confirmation", 0) /\ AGoto(r, "resends")
     \/ AFails("redis") /\ AAnswer(r, "500") /\ (SetAttempts("confirmation", 0) \/ UNCHANGED attempts)
  /\ UNCHANGED <<auser, code, resends, tried, later, resent, areq, afaults>>

\* incrementResendCount reads the count, and then writes one more.
ReadResends(r) ==
  /\ apc[r] = "resends"
  /\ \/ Sees(r, resends) /\ AGoto(r, "bump")
     \/ AFails("redis") /\ AAnswer(r, "500") /\ UNCHANGED seen
  /\ UNCHANGED <<auser, acodes, does, given, from, mixed, afaults>>

IncrementResends(r) ==
  /\ apc[r] = "bump"
  /\ \/ resends' = seen[r] + 1 /\ AGoto(r, "tell")
     \/ AFails("redis") /\ AAnswer(r, "500") /\ (resends' = seen[r] + 1 \/ UNCHANGED resends)
  /\ UNCHANGED <<auser, code, attempts, tried, later, resent, areq, afaults>>

\* 200, whether there is such an account or not.
ForgotPassword(r) ==
  /\ Comes(r, "forgot", Before)
  /\ \/ Found /\ confirmed /\ AGoto(r, "code")
     \/ (~Found \/ ~confirmed \/ AFails("db")) /\ AAnswer(r, "200")
  /\ UNCHANGED <<auser, acodes, seen, from, afaults>>

-----------------------------------------------------------------------------
(* validateCredentials: findByPhone, then the document whatever its status,*)
(* and argon2, which refuses what is not a hash.                           *)

Login(r, g) ==
  /\ Comes(r, "login", g)
  /\ \/ Found /\ AGoto(r, "verify")
     \/ (~Found \/ AFails("db")) /\ AAnswer(r, "400")
  /\ UNCHANGED <<auser, acodes, seen, from, afaults>>

LoginVerify(r) ==
  /\ apc[r] = "verify"
  /\ \/ AAnswer(r, IF ~confirmed THEN "401"
                   ELSE IF password = given[r] /\ ~plain THEN "200" ELSE "400")
     \/ AFails("db") /\ AAnswer(r, "400")
  /\ UNCHANGED <<auser, acodes, areq, afaults>>

-----------------------------------------------------------------------------
(* users.service.ts.                                                       *)

IsValidTransition(old, new) ==
  \/ old = "INACTIVE" /\ new \in {"ACTIVE", "DISABLED"}
  \/ old = "ACTIVE" /\ new \in {"SUSPENDED", "DISABLED"}
  \/ old = "SUSPENDED" /\ new \in {"ACTIVE", "DISABLED"}

\* POST /users.
AdminCreate(r) ==
  /\ Comes(r, "create", Before) /\ AGoto(r, "create")
  /\ UNCHANGED <<auser, acodes, seen, from, afaults>>

\* findById, findByIdRaw: whatever the status.
FindUser(r, d) ==
  /\ Comes(r, d, Before) /\ from' = [from EXCEPT ![r] = status]
  /\ \/ status # "none" /\ AGoto(r, "write")
     \/ status = "none" /\ AAnswer(r, "404")
     \/ AFails("db") /\ AAnswer(r, "500")
  /\ UNCHANGED <<auser, acodes, seen, afaults>>

TransitionFind(r) == FindUser(r, "transition")
RolesFind(r) == FindUser(r, "roles")

\* updateMyPassword also verifies the present password here.
MyPasswordFind(r) ==
  \/ FindUser(r, "mine") /\ (apc'[r] = "write" => ~plain)
  \/ /\ Comes(r, "mine", Before) /\ status # "none" /\ AAnswer(r, "401")
     /\ UNCHANGED <<auser, acodes, seen, from, afaults>>

\* Mutant: a disabled user may be made active like a suspended one.
TransitionAny(r) ==
  /\ At(r, "transition", "write")
  /\ \E new \in UserStates \ {from[r]} : status' = new
  /\ AGoto(r, "record")
  /\ UNCHANGED <<confirmed, merchant, password, plain, acodes, areq, afaults>>

\* isValidTransition of what was read, and updateStatus by id alone.
TransitionWrite(r) ==
  /\ At(r, "transition", "write")
  /\ \/ \E new \in UserStates :
          /\ IsValidTransition(from[r], new) /\ status' = new
          /\ AGoto(r, "record") \/ (AFails("db") /\ AAnswer(r, "500"))
     \/ AAnswer(r, "400") /\ UNCHANGED status
     \/ AFails("db") /\ AAnswer(r, "500") /\ UNCHANGED status
  /\ UNCHANGED <<confirmed, merchant, password, plain, acodes, areq, afaults>>

\* The lifecycle document, which nothing here reads back.
TransitionRecord(r) ==
  /\ apc[r] = "record"
  /\ AAnswer(r, "200") \/ (AFails("db") /\ AAnswer(r, "500"))
  /\ UNCHANGED <<auser, acodes, areq, afaults>>

RolesWrite(r) == At(r, "roles", "write") /\ \E to \in BOOLEAN : SetRoles(r, to, "200")

\* updatePassword: of an ACTIVE user only.
SetPassword(r) ==
  LET Stored == Found /\ password' = r /\ plain' = FALSE IN
  /\ \/ Stored /\ AAnswer(r, "200")
     \/ ~Found /\ AAnswer(r, "404") /\ UNCHANGED <<password, plain>>
     \/ AFails("db") /\ AAnswer(r, "500") /\ (Stored \/ UNCHANGED <<password, plain>>)
  /\ UNCHANGED <<status, confirmed, merchant, acodes, seen, from, afaults>>

MyPasswordWrite(r) == At(r, "mine", "write") /\ SetPassword(r) /\ UNCHANGED <<does, given, mixed>>
AdminPassword(r) == Comes(r, "password", Before) /\ SetPassword(r)

\* disable: one conditional write.
DisableUser(r) ==
  /\ Comes(r, "disable", Before)
  /\ \/ Found /\ status' = "DISABLED" /\ (AAnswer(r, "204") \/ (AFails("db") /\ AAnswer(r, "500")))
     \/ ~Found /\ AAnswer(r, "404") /\ UNCHANGED status
     \/ AFails("db") /\ AAnswer(r, "500") /\ UNCHANGED status
  /\ UNCHANGED <<confirmed, merchant, password, plain, acodes, seen, from, afaults>>

\* The process stops.
ACrash ==
  /\ AFails("crash")
  /\ apc' = [r \in Requests |-> IF Busy(r) THEN "done" ELSE apc[r]]
  /\ aanswer' = [r \in Requests |-> IF Busy(r) THEN "lost" ELSE aanswer[r]]
  /\ UNCHANGED <<auser, acodes, areq, afaults>>

ANext ==
  \/ \E r \in Requests :
       \/ Register(r) \/ RegisterAgain(r) \/ RegisterMerchant(r) \/ RaiseToMerchant(r)
       \/ CreateUser(r) \/ GenerateAndStore(r) \/ TellCode(r)
       \/ ConfirmPhone(r) \/ ResetPassword(r) \/ ValidateAttempts(r) \/ CountAttempt(r)
       \/ FindAccount(r) \/ MarkAccount(r) \/ ClearCode(r) \/ ForgetAttempts(r)
       \/ ResendCode(r) \/ CanResend(r) \/ WipeAttempts(r) \/ ReadResends(r) \/ IncrementResends(r)
       \/ ForgotPassword(r)
       \/ (\E g \in Requests \cup {Before} : Login(r, g)) \/ LoginVerify(r)
       \/ AdminCreate(r) \/ AdminPassword(r) \/ DisableUser(r)
       \/ TransitionFind(r) \/ TransitionWrite(r) \/ TransitionRecord(r)
       \/ RolesFind(r) \/ RolesWrite(r) \/ MyPasswordFind(r) \/ MyPasswordWrite(r)
  \/ \E k \in Types : CodeExpires(k) \/ AttemptsExpire(k)
  \/ ACrash

ASpec == AInit /\ [][ANext]_avars

-----------------------------------------------------------------------------
(* Properties.                                                             *)

\* Whatever is registered, resent and forgotten in between, a code is compared
\* with at most MAX_ATTEMPTS wrong guesses and at most MAX_RESENDS resends are
\* answered, as long as Redis answers, the process does not stop, and two guesses
\* or resends never overlap: the counts are read and then set.
LimitsHold ==
  ~mixed /\ afaults \cap {"redis", "crash"} = {} =>
    /\ \A k \in Types : tried[k] <= MaxAttempts
    /\ resent <= MaxResends

\* A code that confirmed a phone or reset a password is gone for good: no guess that
\* comes later is compared with it, whatever overlaps, fails or stops.
CodesWorkOnce ==
  \A r \in Requests : does[r] \in Guessing /\ aanswer[r] = "200" =>
    \A k \in Types : code[k] # given[r]

\* No transition that saw another state is under way.
Closed == status = "DISABLED" /\ \A r \in Requests : At(r, "transition", "write") => from[r] = "DISABLED"

\* A disabled user stays disabled, keeps its roles, and whoever logs in after that
\* gets no session, whatever registrations, resets and transitions still come.
DisabledForGood ==
  [][Closed => /\ Closed' /\ UNCHANGED merchant
               /\ \A r \in Requests : apc[r] = "idle" => apc'[r] # "verify"]_avars

\* For a run that is to be violated: with the phone confirmed, whose password is the
\* one stored logs in with it, also who registered again before confirming.
NewPasswordLogsIn ==
  [][\A r \in Requests :
       apc[r] = "verify" /\ confirmed /\ password = given[r] /\ afaults = {} => aanswer'[r] # "400"]_avars
=============================================================================
