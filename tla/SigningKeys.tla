----------------------------- MODULE SigningKeys -----------------------------
(***************************************************************************)
(* The keys that sign tokens (jwks.adapter.ts), the tokens                 *)
(* (jwt-token.adapter.ts) and the registry of those used up                *)
(* (replay-protection.adapter.ts).  The process keeps the public keys and  *)
(* the kid of the active one in memory, and writes them all to one         *)
(* document in Vault whenever it adds one; each private key has a path of  *)
(* its own.  A key lives as long as the interval at which it is replaced.  *)
(* The registry is in memory only.                                         *)
(*                                                                         *)
(* A key is named by the rotation that generated it, and a jti by its      *)
(* token.  The issuer and the audience are those of the configuration,     *)
(* which a behaviour does not change.                                      *)
(***************************************************************************)
EXTENDS Naturals

CONSTANTS
  Rotations,
  Tokens,   \* calls of sign
  Verifications, \* calls of verify
  FirstKey, \* the key of the process that runs at the start
  NoKey,
  KeyLife,  \* keyRotationIntervalMs, in ticks
  AccessLife, RefreshLife, \* expiresIn, in ticks
  ClockSkew, \* clockSkewSec, in ticks
  LastTick, \* bounds a behaviour
  KeyFaults

ASSUME KeyAssumption ==
  /\ FirstKey \notin Rotations /\ NoKey \notin Rotations \cup {FirstKey} \cup Tokens
  /\ Rotations \cap Tokens = {}
  /\ KeyLife \in Nat \ {0} /\ LastTick \in Nat
  /\ {AccessLife, RefreshLife, ClockSkew} \subseteq Nat
  /\ KeyFaults \subseteq SUBSET {"vault", "crash"}

Keys == Rotations \cup {FirstKey}

VARIABLES
  clock,
  keysCache, activeKid, \* what the process has in memory
  keyExpiresAt,            \* of each key
  jwks, jwksActive,     \* the document in Vault: its keys, and the active one
  privateKeys,          \* keys whose private key is in Vault
  kpc,                  \* where each rotation is
  snapshot,             \* the keys it is going to write; itself is the active one
  spc,                  \* where each call of sign is
  rotates,              \* the rotation a sign waits for
  kid, signer,          \* the kid of a token, and the key it is signed with
  type, exp,            \* two of its claims
  quiet,                \* tokens for whose signing no rotation was under way
  jtiRegistry,          \* the tokens whose jti is in the registry, in memory
  vpc,                  \* where each call of verify is, and in an earlier process was
  presented,            \* the token it is given
  lapped,               \* two rotations were under way at once, now or before
  kfaults               \* the failures of this behaviour; never changes

kmem == <<keysCache, activeKid>>
kvault == <<jwks, jwksActive, privateKeys>>
krot == <<keyExpiresAt, kpc, snapshot, lapped>>
ktok == <<spc, rotates, kid, signer, type, exp, quiet>>
kver == <<jtiRegistry, vpc, presented>>
kvars == <<clock, kmem, kvault, krot, ktok, kver, kfaults>>

KTypeOK ==
  /\ clock \in 0..LastTick
  /\ keysCache \in SUBSET Keys /\ activeKid \in Keys \cup {NoKey}
  /\ keyExpiresAt \in [Keys -> Nat]
  /\ jwks \in SUBSET Keys /\ jwksActive \in Keys \cup {NoKey} /\ privateKeys \in SUBSET Keys
  /\ kpc \in [Rotations -> {"idle", "generate", "save", "done", "failed"}]
  /\ snapshot \in [Rotations -> SUBSET Keys]
  /\ spc \in [Tokens -> {"idle", "key", "private", "rotating", "sign", "signed", "carried", "failed"}]
  /\ rotates \in [Tokens -> Rotations \cup {NoKey}]
  /\ kid \in [Tokens -> Keys \cup {NoKey}] /\ signer \in [Tokens -> Keys \cup {NoKey}]
  /\ type \in [Tokens -> {"access", "refresh"}] /\ exp \in [Tokens -> Nat]
  /\ quiet \in SUBSET Tokens
  /\ jtiRegistry \in SUBSET Tokens
  /\ vpc \in [Verifications -> {"idle", "register", "accepted", "late", "refused", "before", "lost"}]
  /\ presented \in [Verifications -> Tokens \cup {NoKey}]
  /\ lapped \in BOOLEAN
  /\ kfaults \in KeyFaults

KInit ==
  /\ clock = 0
  /\ keysCache = {FirstKey} /\ activeKid = FirstKey
  /\ keyExpiresAt = [k \in Keys |-> KeyLife]
  /\ jwks = {FirstKey} /\ jwksActive = FirstKey /\ privateKeys = {FirstKey}
  /\ kpc = [k \in Rotations |-> "idle"] /\ snapshot = [k \in Rotations |-> {}]
  /\ spc = [t \in Tokens |-> "idle"] /\ rotates = [t \in Tokens |-> NoKey]
  /\ kid = [t \in Tokens |-> NoKey] /\ signer = [t \in Tokens |-> NoKey]
  /\ type = [t \in Tokens |-> "access"] /\ exp = [t \in Tokens |-> 0]
  /\ quiet = Tokens /\ lapped = FALSE
  /\ jtiRegistry = {} /\ vpc = [v \in Verifications |-> "idle"]
  /\ presented = [v \in Verifications |-> NoKey]
  /\ kfaults \in KeyFaults

KFails(what) == what \in kfaults
Rotating == {k \in Rotations : kpc[k] \in {"generate", "save"}}
Signing == {t \in Tokens : spc[t] \in {"key", "private", "rotating", "sign"}}

\* getKey: a key that has expired is as good as none.
Live(k) == k \in keysCache /\ clock <= keyExpiresAt[k]

\* Timers do not come between the check and the registration of a verify: what it awaits
\* there is in memory.
TimersRun == \A v \in Verifications : vpc[v] # "register"

KTick ==
  /\ clock < LastTick /\ TimersRun /\ clock' = clock + 1
  /\ UNCHANGED <<kmem, kvault, krot, ktok, kver, kfaults>>

-----------------------------------------------------------------------------
(* rotateKey.                                                              *)

\* Rotation k begins: it writes its private key.
Begins(k) ==
  /\ kpc[k] = "idle" /\ kpc' = [kpc EXCEPT ![k] = "generate"]
  /\ lapped' = (lapped \/ Rotating # {})
  /\ UNCHANGED <<keyExpiresAt, snapshot>>

\* Every interval, by the timer.
TimerRotates(k) ==
  /\ clock >= KeyLife /\ TimersRun /\ Begins(k) /\ quiet' = quiet \ Signing
  /\ UNCHANGED <<clock, kmem, kvault, spc, rotates, kid, signer, type, exp, kver, kfaults>>

\* The private key is in Vault: the new key becomes the active one, and what is in
\* memory now is what saveKeysToVault is going to write.
Activates(k) ==
  /\ keysCache' = keysCache \cup {k} /\ activeKid' = k
  /\ keyExpiresAt' = [keyExpiresAt EXCEPT ![k] = clock + KeyLife]
  /\ snapshot' = [snapshot EXCEPT ![k] = keysCache \cup {k}]
  /\ kpc' = [kpc EXCEPT ![k] = "save"]

\* Mutant: what is written was collected before the new key was added.
ActivateLate(k) ==
  /\ kpc[k] = "generate"
  /\ keysCache' = keysCache \cup {k} /\ activeKid' = k
  /\ keyExpiresAt' = [keyExpiresAt EXCEPT ![k] = clock + KeyLife]
  /\ snapshot' = [snapshot EXCEPT ![k] = keysCache] /\ kpc' = [kpc EXCEPT ![k] = "save"]
  /\ privateKeys' = privateKeys \cup {k}
  /\ UNCHANGED <<clock, jwks, jwksActive, lapped, ktok, kver, kfaults>>

GenerateNewKeyPair(k) ==
  /\ kpc[k] = "generate"
  /\ \/ Activates(k) /\ privateKeys' = privateKeys \cup {k}
     \/ /\ KFails("vault") /\ kpc' = [kpc EXCEPT ![k] = "failed"]
        /\ privateKeys' \in {privateKeys, privateKeys \cup {k}}
        /\ UNCHANGED <<kmem, keyExpiresAt, snapshot>>
  /\ UNCHANGED <<clock, jwks, jwksActive, lapped, ktok, kver, kfaults>>

Written(k) == jwks' = snapshot[k] /\ jwksActive' = k

SaveKeysToVault(k) ==
  /\ kpc[k] = "save"
  /\ \/ Written(k) /\ kpc' = [kpc EXCEPT ![k] = "done"]
     \/ /\ KFails("vault") /\ kpc' = [kpc EXCEPT ![k] = "failed"]
        /\ Written(k) \/ UNCHANGED <<jwks, jwksActive>>
  /\ UNCHANGED <<clock, kmem, privateKeys, keyExpiresAt, snapshot, lapped, ktok, kver, kfaults>>

-----------------------------------------------------------------------------
(* sign.                                                                   *)

SGoto(t, l) == spc' = [spc EXCEPT ![t] = l]

\* Waits for a rotation of its own, in getActiveKey or getActivePrivateKey.
WaitsFor(t, k) ==
  /\ Begins(k) /\ SGoto(t, "rotating") /\ rotates' = [rotates EXCEPT ![t] = k]
  /\ quiet' = quiet \ (Signing \cup {t})

\* getActiveKey.
GetActiveKey(t) ==
  /\ spc[t] = "idle"
  /\ \/ /\ Live(activeKid) /\ kid' = [kid EXCEPT ![t] = activeKid] /\ SGoto(t, "private")
        /\ quiet' = IF Rotating # {} THEN quiet \ {t} ELSE quiet
        /\ UNCHANGED <<krot, rotates>>
     \/ ~Live(activeKid) /\ (\E k \in Rotations : WaitsFor(t, k)) /\ UNCHANGED kid
  /\ UNCHANGED <<clock, kmem, kvault, signer, type, exp, kver, kfaults>>

\* getActivePrivateKey, of the key that is active by now.
GetActivePrivateKey(t) ==
  /\ spc[t] = "private"
  /\ \/ /\ Live(activeKid) /\ signer' = [signer EXCEPT ![t] = activeKid] /\ SGoto(t, "sign")
        /\ UNCHANGED <<krot, rotates, quiet>>
     \/ ~Live(activeKid) /\ (\E k \in Rotations : WaitsFor(t, k)) /\ UNCHANGED signer
  /\ UNCHANGED <<clock, kmem, kvault, kid, type, exp, kver, kfaults>>

\* The rotation it waited for is over: its key is the kid, or the one to sign with.
RotationEnds(t) ==
  LET k == rotates[t] IN
  /\ spc[t] = "rotating" /\ k \in Rotations
  /\ \/ /\ kpc[k] = "done" /\ kid[t] = NoKey
        /\ kid' = [kid EXCEPT ![t] = k] /\ SGoto(t, "private") /\ UNCHANGED signer
     \/ /\ kpc[k] = "done" /\ kid[t] # NoKey
        /\ signer' = [signer EXCEPT ![t] = k] /\ SGoto(t, "sign") /\ UNCHANGED kid
     \/ kpc[k] = "failed" /\ SGoto(t, "failed") /\ UNCHANGED <<kid, signer>>
  /\ UNCHANGED <<clock, kmem, kvault, krot, rotates, type, exp, quiet, kver, kfaults>>

\* The lives its callers give a token.
LifeOf(kind) == IF kind = "access" THEN AccessLife ELSE RefreshLife

\* getPrivateKey reads it from Vault, the token is signed, and its jti, a new one, goes into
\* the registry.
Sign(t) ==
  /\ spc[t] = "sign"
  /\ \/ /\ signer[t] \in privateKeys /\ SGoto(t, "signed")
        /\ \E kind \in {"access", "refresh"} :
             type' = [type EXCEPT ![t] = kind] /\ exp' = [exp EXCEPT ![t] = clock + LifeOf(kind)]
        /\ jtiRegistry' = jtiRegistry \cup {t}
     \/ /\ signer[t] \notin privateKeys \/ KFails("vault")
        /\ SGoto(t, "failed") /\ UNCHANGED <<type, exp, jtiRegistry>>
  /\ UNCHANGED <<clock, kmem, kvault, krot, rotates, kid, signer, quiet, vpc, presented, kfaults>>

-----------------------------------------------------------------------------
(* verify.                                                                 *)

Issued(t) == spc[t] \in {"signed", "carried"}

\* The public key that has the token's kid is the one it is signed with, and the token has
\* not expired for longer than that.
Holds(t, skew) == Live(kid[t]) /\ signer[t] = kid[t] /\ clock <= exp[t] + skew

\* What the guards of the requests look at (JwtStrategy, OAuthScopeGuard).
GuardAccepts(t) == Holds(t, 0)

\* isJtiConsumed: an entry of a token that has expired is taken away.
Consumed(t) == t \in jtiRegistry /\ clock <= exp[t]

VerifyToken(v, t) ==
  /\ vpc[v] = "idle" /\ Issued(t) /\ presented' = [presented EXCEPT ![v] = t]
  /\ \/ /\ Holds(t, ClockSkew) /\ type[t] = "refresh"
        /\ vpc' = [vpc EXCEPT ![v] = "accepted"] /\ UNCHANGED jtiRegistry
     \/ /\ Holds(t, ClockSkew) /\ type[t] = "access" /\ ~Consumed(t)
        /\ vpc' = [vpc EXCEPT ![v] = "register"] /\ jtiRegistry' = jtiRegistry \ {t}
     \/ /\ Holds(t, ClockSkew) => type[t] = "access" /\ Consumed(t)
        /\ vpc' = [vpc EXCEPT ![v] = "refused"] /\ UNCHANGED jtiRegistry
  /\ UNCHANGED <<clock, kmem, kvault, krot, ktok, kfaults>>

\* registerJti; "late" is accepted after the token expired, within the skew.
RegisterJti(v) ==
  LET t == presented[v] IN
  /\ vpc[v] = "register" /\ jtiRegistry' = jtiRegistry \cup {t}
  /\ vpc' = [vpc EXCEPT ![v] =
       IF t \in jtiRegistry THEN "refused" ELSE IF clock <= exp[t] THEN "accepted" ELSE "late"]
  /\ UNCHANGED <<clock, kmem, kvault, krot, ktok, presented, kfaults>>

\* The timer of registerJti, when the token has expired.
ForgetJti(t) ==
  /\ t \in jtiRegistry /\ clock > exp[t] /\ TimersRun /\ jtiRegistry' = jtiRegistry \ {t}
  /\ UNCHANGED <<clock, kmem, kvault, krot, ktok, vpc, presented, kfaults>>

-----------------------------------------------------------------------------
(* The process stops and starts again: onModuleInit loads the document, or *)
(* takes it for empty when it cannot read it, and rotates if the active    *)
(* key has expired or makes the first key.                                 *)

Stops ==
  /\ spc' = [t \in Tokens |-> IF t \in Signing THEN "failed" ELSE IF spc[t] = "signed" THEN "carried" ELSE spc[t]]
  /\ quiet' = quiet \ Signing
  /\ jtiRegistry' = {}
  /\ vpc' = [v \in Verifications |->
       IF vpc[v] = "accepted" THEN "before" ELSE IF vpc[v] = "register" THEN "lost" ELSE vpc[v]]

Restart ==
  /\ KFails("crash")
  /\ keysCache' = jwks /\ activeKid' = jwksActive /\ Stops
  /\ LET Ended == [k \in Rotations |-> IF k \in Rotating THEN "failed" ELSE kpc[k]] IN
     \/ jwksActive \in jwks /\ clock <= keyExpiresAt[jwksActive] /\ kpc' = Ended
     \/ /\ ~(jwksActive \in jwks /\ clock <= keyExpiresAt[jwksActive])
        /\ \E k \in Rotations : kpc[k] = "idle" /\ kpc' = [Ended EXCEPT ![k] = "generate"]
  /\ UNCHANGED <<clock, kvault, keyExpiresAt, snapshot, lapped, rotates, kid, signer, type, exp, presented, kfaults>>

RestartEmpty ==
  /\ KFails("crash") /\ KFails("vault")
  /\ keysCache' = {} /\ activeKid' = NoKey /\ Stops
  /\ \E k \in Rotations :
       /\ kpc[k] = "idle"
       /\ kpc' = [l \in Rotations |-> IF l = k THEN "generate" ELSE IF l \in Rotating THEN "failed" ELSE kpc[l]]
  /\ UNCHANGED <<clock, kvault, keyExpiresAt, snapshot, lapped, rotates, kid, signer, type, exp, presented, kfaults>>

KNext ==
  \/ KTick
  \/ \E k \in Rotations : TimerRotates(k) \/ GenerateNewKeyPair(k) \/ SaveKeysToVault(k)
  \/ \E t \in Tokens : GetActiveKey(t) \/ GetActivePrivateKey(t) \/ RotationEnds(t) \/ Sign(t) \/ ForgetJti(t)
  \/ \E v \in Verifications : (\E t \in Tokens : VerifyToken(v, t)) \/ RegisterJti(v)
  \/ Restart \/ RestartEmpty

KSpec == KInit /\ [][KNext]_kvars

-----------------------------------------------------------------------------
(* Properties.                                                             *)

\* As long as Vault answers and two rotations never overlap, a token signed while no
\* rotation was under way is accepted by the guards, and, to refresh, by verify, until it or
\* its key expires, also after restarts.
QuietTokensHold ==
  ~lapped /\ ~KFails("vault") =>
    \A t \in quiet : Issued(t) /\ clock <= exp[t] /\ clock <= keyExpiresAt[kid[t]] =>
      /\ GuardAccepts(t)
      /\ type[t] = "refresh" => \A v \in Verifications : presented[v] = t => vpc[v] # "refused"

\* Before it expires verify accepts an access token once in the life of a process, and never
\* in the process that signed it, whose registry has had its jti since.
AccessTokensPassOnce ==
  \A v, w \in Verifications :
    /\ {vpc[v], vpc[w]} = {"accepted"} /\ presented[v] = presented[w]
    /\ type[presented[v]] = "access"
    => v = w /\ spc[presented[v]] = "carried"

\* What a token is good for, under every failure, restart and rotation.
TokensVerify == QuietTokensHold /\ AccessTokensPassOnce
=============================================================================
