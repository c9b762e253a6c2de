------------------------------ MODULE Sessions ------------------------------
(***************************************************************************)
(* The sessions of one user: login once the password is right, and the     *)
(* refresh of the access token (auth.service.ts), the entry in Redis       *)
(* (session.service.ts), the documents in Mongo                            *)
(* (session-persistence.service.ts, session.repository.ts) and the         *)
(* scheduler that marks them EXPIRED.                                      *)
(*                                                                         *)
(* A document is named by the login that made it.  A tick is longer than   *)
(* the tolerance verify allows for clocks that differ.                     *)
(***************************************************************************)
EXTENDS Naturals, SequencesExt

CONSTANTS
  Logins,
  Refreshes,
  NoLogin,
  SessionLife, \* 7 days: of a refresh token, of the entry and of the document
  LastDay,     \* bounds a behaviour
  SessionFaults

ASSUME SessionAssumption ==
  /\ NoLogin \notin Logins
  /\ SessionLife \in Nat \ {0} /\ LastDay \in Nat
  /\ SessionFaults \subseteq SUBSET {"redis", "db", "vault"}

VARIABLES
  day,
  stored,        \* the logins whose document is in Mongo, in the order of insertion
  expired,       \* those marked EXPIRED; the others are ACTIVE
  expiresAt,     \* of the document of each login
  tokenUntil,    \* of the refresh token of each login, 0 if it has none
  entry,         \* whose tokens session:<user> holds in Redis
  lpc, fpc,      \* where each login is, and each refresh
  uses, merged,  \* the token a refresh brings, and the entry it read
  noted,         \* the document a refresh was recorded in
  toExpire,      \* how many documents the scheduler has still to mark
  together,      \* two logins were under way at once, now or before
  sfaults        \* the failures of this behaviour; never changes

slogin == <<tokenUntil, lpc, together>>
srefresh == <<fpc, uses, merged, noted>>
sdocs == <<stored, expired, expiresAt>>
svars == <<day, sdocs, entry, slogin, srefresh, toExpire, sfaults>>

STypeOK ==
  /\ day \in 0..LastDay
  /\ stored \in Seq(Logins) /\ expired \in SUBSET Logins
  /\ expiresAt \in [Logins -> Nat] /\ tokenUntil \in [Logins -> Nat]
  /\ entry \in Logins \cup {NoLogin}
  /\ lpc \in [Logins -> {"idle", "save", "create", "insert", "ok", "failed"}]
  /\ fpc \in [Refreshes -> {"idle", "sign", "read", "write", "record", "ok", "failed"}]
  /\ uses \in [Refreshes -> Logins \cup {NoLogin}] /\ merged \in [Refreshes -> Logins \cup {NoLogin}]
  /\ noted \in [Refreshes -> Logins \cup {NoLogin}]
  /\ toExpire \in Nat
  /\ together \in BOOLEAN
  /\ sfaults \in SessionFaults

SInit ==
  /\ day = 0
  /\ stored = <<>> /\ expired = {}
  /\ expiresAt = [l \in Logins |-> 0] /\ tokenUntil = [l \in Logins |-> 0]
  /\ entry = NoLogin
  /\ lpc = [l \in Logins |-> "idle"] /\ fpc = [r \in Refreshes |-> "idle"]
  /\ uses = [r \in Refreshes |-> NoLogin] /\ merged = [r \in Refreshes |-> NoLogin]
  /\ noted = [r \in Refreshes |-> NoLogin]
  /\ toExpire = 0 /\ together = FALSE
  /\ sfaults \in SessionFaults

SFails(what) == what \in sfaults
ActiveSessions == ToSet(stored) \ expired

STick == day < LastDay /\ day' = day + 1 /\ UNCHANGED <<sdocs, entry, slogin, srefresh, toExpire, sfaults>>

\* Redis drops the entry some time after its life.
EntryLapses ==
  /\ entry # NoLogin /\ day > SessionLife /\ entry' = NoLogin
  /\ UNCHANGED <<day, sdocs, slogin, srefresh, toExpire, sfaults>>

-----------------------------------------------------------------------------
(* login, after validateCredentials.                                       *)

LGoto(l, place) == lpc' = [lpc EXCEPT ![l] = place]

\* Both tokens are signed; without the second the login goes on.
SignTokens(l) ==
  /\ lpc[l] = "idle"
  /\ together' = (together \/ \E m \in Logins : lpc[m] \in {"save", "create", "insert"})
  /\ \/ LGoto(l, "save") /\ tokenUntil' = [tokenUntil EXCEPT ![l] = day + SessionLife]
     \/ SFails("vault") /\ lpc' \in {[lpc EXCEPT ![l] = p] : p \in {"save", "failed"}} /\ UNCHANGED tokenUntil
  /\ UNCHANGED <<day, sdocs, entry, srefresh, toExpire, sfaults>>

SaveSession(l) ==
  /\ lpc[l] = "save"
  /\ \/ LGoto(l, "create") /\ entry' = l
     \/ SFails("redis") /\ LGoto(l, "failed") /\ UNCHANGED entry
  /\ UNCHANGED <<day, sdocs, tokenUntil, together, srefresh, toExpire, sfaults>>

\* createSession computes expiresAt, and then the document is inserted.
CreateSession(l) ==
  /\ lpc[l] = "create" /\ LGoto(l, "insert")
  /\ expiresAt' = [expiresAt EXCEPT ![l] = day + SessionLife]
  /\ UNCHANGED <<day, stored, expired, entry, tokenUntil, together, srefresh, toExpire, sfaults>>

\* Whatever comes of it, the login is answered; a user without it has no document.
InsertSession(l) ==
  /\ lpc[l] = "insert" /\ LGoto(l, "ok")
  /\ stored' = Append(stored, l) \/ (SFails("db") /\ UNCHANGED stored)
  /\ UNCHANGED <<day, expired, expiresAt, entry, tokenUntil, together, srefresh, toExpire, sfaults>>

-----------------------------------------------------------------------------
(* refreshToken.                                                           *)

FGoto(r, place) == fpc' = [fpc EXCEPT ![r] = place]

\* verify: a token that has not expired, if the key that signed it has not either
\* (SigningKeys, whose keys live as they are configured to).
Refresh(r, l) ==
  /\ fpc[r] = "idle" /\ lpc[l] = "ok" /\ tokenUntil[l] > 0
  /\ uses' = [uses EXCEPT ![r] = l]
  /\ \/ day <= tokenUntil[l] /\ FGoto(r, "sign")
     \/ FGoto(r, "failed")
  /\ UNCHANGED <<day, sdocs, entry, slogin, merged, noted, toExpire, sfaults>>

SignAccess(r) ==
  /\ fpc[r] = "sign"
  /\ FGoto(r, "read") \/ (SFails("vault") /\ FGoto(r, "failed"))
  /\ UNCHANGED <<day, sdocs, entry, slogin, uses, merged, noted, toExpire, sfaults>>

\* updateSession: reads the entry, and writes it back with the new access token.
ReadSession(r) ==
  /\ fpc[r] = "read"
  /\ \/ entry # NoLogin /\ FGoto(r, "write") /\ merged' = [merged EXCEPT ![r] = entry]
     \/ entry = NoLogin /\ FGoto(r, "record") /\ UNCHANGED merged
     \/ SFails("redis") /\ FGoto(r, "failed") /\ UNCHANGED merged
  /\ UNCHANGED <<day, sdocs, entry, slogin, uses, noted, toExpire, sfaults>>

UpdateSession(r) ==
  /\ fpc[r] = "write"
  /\ \/ FGoto(r, "record") /\ entry' = merged[r]
     \/ SFails("redis") /\ FGoto(r, "failed") /\ UNCHANGED entry
  /\ UNCHANGED <<day, sdocs, slogin, uses, merged, noted, toExpire, sfaults>>

\* In some ACTIVE document of the user.
RecordAccessTokenRefresh(r) ==
  /\ fpc[r] = "record" /\ FGoto(r, "ok")
  /\ \/ \E l \in ActiveSessions : noted' = [noted EXCEPT ![r] = l]
     \/ (ActiveSessions = {} \/ SFails("db")) /\ UNCHANGED noted
  /\ UNCHANGED <<day, sdocs, entry, slogin, uses, merged, toExpire, sfaults>>

-----------------------------------------------------------------------------
(* SessionExpirationScheduler.                                             *)

\* Mutant: the condition on expiresAt is missing.
FindActiveSessions ==
  /\ toExpire = 0 /\ ActiveSessions # {} /\ toExpire' = Cardinality(ActiveSessions)
  /\ UNCHANGED <<day, sdocs, entry, slogin, srefresh, sfaults>>

FindExpiredSessions ==
  /\ toExpire = 0
  /\ LET Due == {l \in ActiveSessions : expiresAt[l] < day} IN Due # {} /\ toExpire' = Cardinality(Due)
  /\ UNCHANGED <<day, sdocs, entry, slogin, srefresh, sfaults>>

\* updateStatus by the user's id alone: it marks the user's first document or, where
\* Mongo reads the index that has the status too, the first ACTIVE one.
ExpireSession ==
  /\ toExpire > 0 /\ toExpire' = toExpire - 1
  /\ \/ \E i \in DOMAIN stored :
          /\ i = 1 \/ (stored[i] \notin expired /\ \A j \in 1..(i - 1) : stored[j] \in expired)
          /\ expired' = expired \cup {stored[i]}
     \/ SFails("db") /\ UNCHANGED expired
  /\ UNCHANGED <<day, stored, expiresAt, entry, slogin, srefresh, sfaults>>

SNext ==
  \/ STick \/ EntryLapses
  \/ \E l \in Logins : SignTokens(l) \/ SaveSession(l) \/ CreateSession(l) \/ InsertSession(l)
  \/ \E r \in Refreshes :
       \/ \E l \in Logins : Refresh(r, l)
       \/ SignAccess(r) \/ ReadSession(r) \/ UpdateSession(r) \/ RecordAccessTokenRefresh(r)
  \/ FindExpiredSessions \/ ExpireSession

SSpec == SInit /\ [][SNext]_svars

-----------------------------------------------------------------------------
(* Properties.                                                             *)

\* Though the scheduler does not say which document it marks, it never marks one whose
\* refresh token still works, as long as one login has ended before the next begins.
ExpiredCannotRefresh ==
  [][~together => \A r \in Refreshes : fpc[r] = "idle" /\ fpc'[r] = "sign" => uses'[r] \notin expired]_svars
=============================================================================
