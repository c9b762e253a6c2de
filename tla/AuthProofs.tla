----------------------------- MODULE AuthProofs -----------------------------
(***************************************************************************)
(* What is proved of SigningKeys for any number of rotations and tokens;   *)
(* of Sessions for any number of logins and refreshes; of Permissions for  *)
(* any number of roles, requests and operations on roles; for any lives of *)
(* keys, sessions and entries, and under every combination of failures.    *)
(***************************************************************************)
EXTENDS SigningKeys, Sessions, Permissions, FiniteSetTheorems, TLAPS

-----------------------------------------------------------------------------
(* SigningKeys.                                                            *)

\* The document in Vault has what the process has in memory, up to the key of the one
\* rotation that is about to write it.
DocumentInStep ==
  /\ \A k, l \in Rotating : k = l
  /\ jwks \subseteq keysCache /\ keysCache \subseteq jwks \cup {k \in Rotations : kpc[k] = "save"}
  /\ \A k \in Rotations : kpc[k] = "save" => snapshot[k] = keysCache
  /\ \A k \in Rotations : kpc[k] \in {"idle", "generate"} => k \notin keysCache

\* A token no rotation came in the way of has one key for its kid and its signature,
\* and that key is in the document.
QuietTokensInStep ==
  \A t \in quiet :
    /\ spc[t] # "rotating"
    /\ spc[t] = "private" => Rotating = {} /\ kid[t] = activeKid
    /\ spc[t] \in {"private", "sign", "signed", "carried"} => kid[t] \in jwks
    /\ spc[t] \in {"sign", "signed", "carried"} => signer[t] = kid[t]

\* A token refused to refresh with has expired, or its key has.
RefusalsInStep ==
  \A v \in Verifications : \A t \in quiet :
    vpc[v] = "refused" /\ presented[v] = t /\ type[t] = "refresh" => clock > exp[t] \/ clock > keyExpiresAt[kid[t]]

KeysInStep == ~lapped /\ ~KFails("vault") => DocumentInStep /\ QuietTokensInStep /\ RefusalsInStep

\* Until it expires, an access token is in the registry of the process that signed it, and
\* of one that has accepted it.
RegistryInStep ==
  /\ \A v \in Verifications : vpc[v] # "idle" => presented[v] \in Tokens /\ Issued(presented[v])
  /\ \A t \in Tokens : type[t] = "access" /\ spc[t] = "signed" /\ clock <= exp[t] => t \in jtiRegistry
  /\ \A v \in Verifications : \A t \in Tokens : presented[v] = t =>
       /\ vpc[v] = "register" => type[t] = "access" /\ (clock <= exp[t] => spc[t] = "carried")
       /\ vpc[v] = "accepted" /\ type[t] = "access" =>
            spc[t] = "carried" /\ (clock <= exp[t] => t \in jtiRegistry)
  /\ \A v, w \in Verifications :
       /\ vpc[v] = "accepted" /\ vpc[w] = "accepted" /\ presented[v] = presented[w]
       /\ type[presented[v]] = "access"
       => v = w

KInv == KTypeOK /\ RegistryInStep /\ KeysInStep

LEMMA KeyNames == Rotations \subseteq Keys /\ FirstKey \in Keys /\ NoKey \notin Keys
  BY KeyAssumption DEF Keys

LEMMA KInvHolds == KInit => KInv
<1> SUFFICES ASSUME KInit PROVE KInv
  OBVIOUS
<1> USE KeyAssumption, KeyNames DEF KInit
<1>1. KTypeOK
  <2>1. keyExpiresAt \in [Keys -> Nat] /\ snapshot \in [Rotations -> SUBSET Keys]
    OBVIOUS
  <2>2. /\ rotates \in [Tokens -> Rotations \cup {NoKey}]
        /\ kid \in [Tokens -> Keys \cup {NoKey}] /\ signer \in [Tokens -> Keys \cup {NoKey}]
    OBVIOUS
  <2>3. kfaults \in KeyFaults /\ clock \in 0..LastTick
    OBVIOUS
  <2>4. /\ type \in [Tokens -> {"access", "refresh"}] /\ exp \in [Tokens -> Nat]
        /\ presented \in [Verifications -> Tokens \cup {NoKey}]
    OBVIOUS
  <2> QED
    BY <2>1, <2>2, <2>3, <2>4 DEF KTypeOK
<1>2. KeysInStep
  BY DEF KeysInStep, DocumentInStep, QuietTokensInStep, RefusalsInStep, Rotating
<1>3. RegistryInStep
  BY DEF RegistryInStep
<1> QED
  BY <1>1, <1>2, <1>3 DEF KInv

\* What begins a rotation does to the rotations.
LEMMA BeginsDoes ==
  ASSUME KTypeOK, NEW k \in Rotations, Begins(k)
  PROVE  /\ kpc' \in [Rotations -> {"idle", "generate", "save", "done", "failed"}]
         /\ kpc'[k] = "generate" /\ \A l \in Rotations \ {k} : kpc'[l] = kpc[l]
         /\ lapped' = (lapped \/ Rotating # {}) /\ lapped' \in BOOLEAN
         /\ UNCHANGED <<keyExpiresAt, snapshot>>
  BY DEF Begins, KTypeOK

LEMMA KTypesKept == KTypeOK /\ RegistryInStep /\ [KNext]_kvars => KTypeOK'
<1> SUFFICES ASSUME KTypeOK, RegistryInStep, [KNext]_kvars PROVE KTypeOK'
  OBVIOUS
<1> USE KeyAssumption, KeyNames DEF KTypeOK, kmem, kvault, krot, ktok, kver, SGoto, Rotating, Signing
<1>1. ASSUME KTick PROVE KTypeOK'
  BY <1>1 DEF KTick
<1>2. ASSUME NEW k \in Rotations, TimerRotates(k) PROVE KTypeOK'
  BY <1>2 DEF TimerRotates, Begins
<1>3. ASSUME NEW k \in Rotations, GenerateNewKeyPair(k) PROVE KTypeOK'
  BY <1>3 DEF GenerateNewKeyPair, Activates
<1>4. ASSUME NEW k \in Rotations, SaveKeysToVault(k) PROVE KTypeOK'
  BY <1>4 DEF SaveKeysToVault, Written
<1>5. ASSUME NEW t \in Tokens, GetActiveKey(t) PROVE KTypeOK'
  <2>1. CASE Live(activeKid)
    BY <1>5, <2>1 DEF GetActiveKey
  <2>2. ASSUME ~Live(activeKid), NEW k \in Rotations, WaitsFor(t, k) PROVE KTypeOK'
    BY <1>5, <2>2, BeginsDoes DEF GetActiveKey, WaitsFor
  <2> QED
    BY <1>5, <2>1, <2>2 DEF GetActiveKey
<1>6. ASSUME NEW t \in Tokens, GetActivePrivateKey(t) PROVE KTypeOK'
  <2>1. CASE Live(activeKid)
    BY <1>6, <2>1 DEF GetActivePrivateKey
  <2>2. ASSUME ~Live(activeKid), NEW k \in Rotations, WaitsFor(t, k) PROVE KTypeOK'
    BY <1>6, <2>2, BeginsDoes DEF GetActivePrivateKey, WaitsFor
  <2> QED
    BY <1>6, <2>1, <2>2 DEF GetActivePrivateKey
<1>7. ASSUME NEW t \in Tokens, RotationEnds(t) PROVE KTypeOK'
  BY <1>7 DEF RotationEnds
<1>8. ASSUME NEW t \in Tokens, Sign(t) PROVE KTypeOK'
  BY <1>8 DEF Sign, LifeOf
<1>9. ASSUME Restart PROVE KTypeOK'
  <2>1. kpc' \in [Rotations -> {"idle", "generate", "save", "done", "failed"}]
    <3> DEFINE Ended == [k \in Rotations |-> IF k \in Rotating THEN "failed" ELSE kpc[k]]
    <3>1. Ended \in [Rotations -> {"idle", "generate", "save", "done", "failed"}]
      OBVIOUS
    <3>2. kpc' = Ended \/ \E k \in Rotations : kpc' = [Ended EXCEPT ![k] = "generate"]
      BY <1>9, Zenon DEF Restart
    <3> HIDE DEF Ended
    <3> QED
      BY <3>1, <3>2
  <2> QED
    BY <1>9, <2>1 DEF Restart, Stops
<1>10. ASSUME RestartEmpty PROVE KTypeOK'
  BY <1>10 DEF RestartEmpty, Stops
<1>11. ASSUME UNCHANGED kvars PROVE KTypeOK'
  BY <1>11 DEF kvars
<1>12. ASSUME NEW v \in Verifications, NEW t \in Tokens, VerifyToken(v, t) PROVE KTypeOK'
  BY <1>12 DEF VerifyToken
<1>13. ASSUME NEW v \in Verifications, RegisterJti(v) PROVE KTypeOK'
  <2>1. presented[v] \in Tokens
    BY <1>13 DEF RegisterJti, RegistryInStep
  <2> QED
    BY <1>13, <2>1 DEF RegisterJti
<1>14. ASSUME NEW t \in Tokens, ForgetJti(t) PROVE KTypeOK'
  BY <1>14 DEF ForgetJti
<1> QED
  BY <1>1, <1>2, <1>3, <1>4, <1>5, <1>6, <1>7, <1>8, <1>9, <1>10, <1>11, <1>12, <1>13, <1>14 DEF KNext

\* A step of the keys that is none of verify's leaves its state alone.
OfKeys ==
  \/ KTick
  \/ \E k \in Rotations : TimerRotates(k) \/ GenerateNewKeyPair(k) \/ SaveKeysToVault(k)
  \/ \E t \in Tokens : GetActiveKey(t) \/ GetActivePrivateKey(t) \/ RotationEnds(t)

OfVerify ==
  \/ \E v \in Verifications : (\E t \in Tokens : VerifyToken(v, t)) \/ RegisterJti(v)
  \/ \E t \in Tokens : ForgetJti(t)

LEMMA StepsAre == [KNext]_kvars =>
  OfKeys \/ OfVerify \/ (\E t \in Tokens : Sign(t)) \/ Restart \/ RestartEmpty \/ UNCHANGED kvars
  BY DEF KNext, OfKeys, OfVerify

LEMMA OfVerifyLeaves == OfVerify => UNCHANGED <<clock, kmem, kvault, krot, ktok, kfaults>>
  BY DEF OfVerify, VerifyToken, RegisterJti, ForgetJti

LEMMA OfKeysLeaves == OfKeys => UNCHANGED <<type, exp, kver, kfaults>>
  BY DEF OfKeys, KTick, TimerRotates, GenerateNewKeyPair, SaveKeysToVault, GetActiveKey, GetActivePrivateKey,
     RotationEnds, krot, ktok, kver

\* Rotations that overlapped have done so for good.
LEMMA LapsStay == KTypeOK /\ [KNext]_kvars => (lapped => lapped') /\ kfaults' = kfaults
<1> SUFFICES ASSUME KTypeOK, [KNext]_kvars PROVE (lapped => lapped') /\ kfaults' = kfaults
  OBVIOUS
<1> USE DEF KTypeOK, krot, ktok, kmem, kvault
<1>1. CASE KTick \/ Restart \/ RestartEmpty \/ UNCHANGED kvars
  BY <1>1 DEF KTick, Restart, RestartEmpty, kvars
<1>2. ASSUME NEW k \in Rotations, TimerRotates(k) \/ GenerateNewKeyPair(k) \/ SaveKeysToVault(k)
      PROVE  (lapped => lapped') /\ kfaults' = kfaults
  BY <1>2 DEF TimerRotates, Begins, GenerateNewKeyPair, SaveKeysToVault
<1>3. ASSUME NEW t \in Tokens, GetActiveKey(t) \/ GetActivePrivateKey(t) \/ RotationEnds(t) \/ Sign(t)
      PROVE  (lapped => lapped') /\ kfaults' = kfaults
  BY <1>3 DEF GetActiveKey, GetActivePrivateKey, WaitsFor, Begins, RotationEnds, Sign
<1>4. CASE OfVerify
  BY <1>4, OfVerifyLeaves
<1> QED
  BY <1>1, <1>2, <1>3, <1>4 DEF KNext, OfVerify

\* Time goes on, and what has come in the way of a token has come in its way for good.
LEMMA ClockGoesOn == KTypeOK /\ [KNext]_kvars =>
  clock' \in {clock, clock + 1} /\ quiet' \subseteq quiet
<1> SUFFICES ASSUME KTypeOK, [KNext]_kvars PROVE clock' \in {clock, clock + 1} /\ quiet' \subseteq quiet
  OBVIOUS
<1> USE DEF KTypeOK, ktok
<1>1. CASE OfKeys
  BY <1>1 DEF OfKeys, KTick, TimerRotates, GenerateNewKeyPair, SaveKeysToVault, GetActiveKey, GetActivePrivateKey,
     RotationEnds, WaitsFor
<1>2. CASE OfVerify
  BY <1>2, OfVerifyLeaves
<1>3. CASE (\E t \in Tokens : Sign(t)) \/ Restart \/ RestartEmpty \/ UNCHANGED kvars
  BY <1>3 DEF Sign, Restart, RestartEmpty, Stops, kvars
<1> QED
  BY <1>1, <1>2, <1>3, StepsAre

\* A token stays as it was issued.
LEMMA IssuedStays ==
  ASSUME KTypeOK, [KNext]_kvars, NEW t \in Tokens, Issued(t)
  PROVE  /\ Issued(t)' /\ (spc[t] = "carried" => spc'[t] = "carried")
         /\ UNCHANGED <<kid[t], type[t], exp[t]>>
<1> USE DEF KTypeOK, ktok, SGoto, Issued, Signing
<1>1. CASE KTick \/ OfVerify \/ UNCHANGED kvars
  BY <1>1, OfVerifyLeaves DEF KTick, kvars
<1>2. ASSUME NEW k \in Rotations, TimerRotates(k) \/ GenerateNewKeyPair(k) \/ SaveKeysToVault(k)
      PROVE  UNCHANGED <<spc, kid, type, exp>>
  BY <1>2 DEF TimerRotates, GenerateNewKeyPair, SaveKeysToVault
<1>3. ASSUME NEW u \in Tokens, GetActiveKey(u) \/ GetActivePrivateKey(u)
      PROVE  /\ Issued(t)' /\ (spc[t] = "carried" => spc'[t] = "carried")
             /\ UNCHANGED <<kid[t], type[t], exp[t]>>
  BY <1>3 DEF GetActiveKey, GetActivePrivateKey, WaitsFor
<1>4. ASSUME NEW u \in Tokens, RotationEnds(u) \/ Sign(u)
      PROVE  /\ Issued(t)' /\ (spc[t] = "carried" => spc'[t] = "carried")
             /\ UNCHANGED <<kid[t], type[t], exp[t]>>
  BY <1>4 DEF RotationEnds, Sign
<1>5. CASE Restart \/ RestartEmpty
  BY <1>5 DEF Restart, RestartEmpty, Stops
<1> QED
  BY <1>1, <1>2, <1>3, <1>4, <1>5, StepsAre DEF OfKeys

LEMMA RegistryKept == KTypeOK /\ RegistryInStep /\ [KNext]_kvars => RegistryInStep'
<1> SUFFICES ASSUME KTypeOK, RegistryInStep, [KNext]_kvars PROVE RegistryInStep'
  OBVIOUS
<1>1. clock \in Nat /\ clock' \in Nat /\ clock <= clock' /\ exp \in [Tokens -> Nat]
  BY ClockGoesOn, KeyAssumption DEF KTypeOK
<1>2. \A t \in Tokens : Issued(t) =>
        /\ Issued(t)' /\ (spc[t] = "carried" => spc'[t] = "carried")
        /\ UNCHANGED <<type[t], exp[t]>>
  BY IssuedStays
<1>3. OfKeys \/ OfVerify \/ (\E t \in Tokens : Sign(t)) \/ Restart \/ RestartEmpty \/ UNCHANGED kvars
  BY StepsAre
<1> USE <1>1, <1>2 DEF KTypeOK, RegistryInStep, Issued, kver, ktok
<1>4. CASE OfKeys
  <2>1. \A t \in Tokens : spc'[t] = "signed" => spc[t] = "signed"
    BY <1>4 DEF OfKeys, KTick, TimerRotates, GenerateNewKeyPair, SaveKeysToVault, GetActiveKey,
       GetActivePrivateKey, RotationEnds, WaitsFor, SGoto
  <2> QED
    BY <1>4, <2>1, OfKeysLeaves
<1>5. ASSUME NEW v \in Verifications, NEW t \in Tokens, VerifyToken(v, t) PROVE RegistryInStep'
  BY <1>5 DEF VerifyToken, Consumed
<1>6. ASSUME NEW v \in Verifications, RegisterJti(v) PROVE RegistryInStep'
  BY <1>6 DEF RegisterJti
<1>7. ASSUME NEW t \in Tokens, ForgetJti(t) PROVE RegistryInStep'
  BY <1>7 DEF ForgetJti
<1>8. ASSUME NEW t \in Tokens, Sign(t) PROVE RegistryInStep'
  BY <1>8 DEF Sign, SGoto
<1>9. CASE Restart \/ RestartEmpty
  BY <1>9 DEF Restart, RestartEmpty, Stops
<1>10. CASE UNCHANGED kvars
  BY <1>10 DEF kvars
<1> QED
  BY <1>3, <1>4, <1>5, <1>6, <1>7, <1>8, <1>9, <1>10 DEF OfVerify

\* The expiry of a key in the document does not move: no rotation generates it again.
LEMMA ExpiriesStay ==
  ASSUME KTypeOK, DocumentInStep, [KNext]_kvars, NEW k \in jwks
  PROVE  keyExpiresAt'[k] = keyExpiresAt[k]
<1>1. k \in Keys /\ k \in keysCache /\ keyExpiresAt \in [Keys -> Nat]
  BY DEF KTypeOK, DocumentInStep
<1>2. ASSUME NEW l \in Rotations, GenerateNewKeyPair(l) PROVE keyExpiresAt'[k] = keyExpiresAt[k]
  <2>1. l # k
    BY <1>1, <1>2 DEF GenerateNewKeyPair, DocumentInStep
  <2> QED
    BY <1>1, <1>2, <2>1 DEF GenerateNewKeyPair, Activates
<1>3. CASE UNCHANGED keyExpiresAt
  BY <1>3
<1> QED
  BY <1>2, <1>3, StepsAre, OfVerifyLeaves DEF OfKeys, KTick, TimerRotates, SaveKeysToVault, GetActiveKey,
     GetActivePrivateKey, RotationEnds, WaitsFor, Begins, Sign, Restart, RestartEmpty, krot, kvars

LEMMA RefusalsKept ==
  ASSUME KTypeOK, RegistryInStep, DocumentInStep, QuietTokensInStep, RefusalsInStep, [KNext]_kvars
  PROVE  RefusalsInStep'
<1> SUFFICES ASSUME NEW v \in Verifications, NEW t \in quiet',
                    vpc'[v] = "refused", presented'[v] = t, type'[t] = "refresh"
             PROVE  clock' > exp'[t] \/ clock' > keyExpiresAt'[kid'[t]]
  BY DEF RefusalsInStep
<1>1. t \in quiet /\ t \in Tokens /\ clock' \in {clock, clock + 1}
  BY ClockGoesOn DEF KTypeOK
<1>2. clock \in Nat /\ exp \in [Tokens -> Nat] /\ keyExpiresAt \in [Keys -> Nat] /\ ClockSkew \in Nat
  BY KeyAssumption DEF KTypeOK
<1>3. ASSUME Issued(t), clock > exp[t] \/ clock > keyExpiresAt[kid[t]]
      PROVE  clock' > exp'[t] \/ clock' > keyExpiresAt'[kid'[t]]
  <2>1. UNCHANGED <<kid[t], exp[t]>> /\ kid[t] \in jwks
    BY <1>1, <1>3, IssuedStays DEF QuietTokensInStep, Issued
  <2>2. keyExpiresAt'[kid[t]] = keyExpiresAt[kid[t]] /\ kid[t] \in Keys
    BY <2>1, ExpiriesStay DEF KTypeOK
  <2> QED
    BY <1>1, <1>2, <1>3, <2>1, <2>2
<1>4. CASE UNCHANGED <<vpc[v], presented[v]>>
  <2>1. Issued(t) /\ UNCHANGED type[t]
    BY <1>1, <1>4, IssuedStays DEF RegistryInStep
  <2> QED
    BY <1>1, <1>3, <1>4, <2>1 DEF RefusalsInStep
<1>5. ASSUME NEW u \in Tokens, VerifyToken(v, u), ~UNCHANGED <<vpc[v], presented[v]>>
      PROVE  clock' > exp'[t] \/ clock' > keyExpiresAt'[kid'[t]]
  <2>1. Issued(t) /\ type[t] = "refresh" /\ ~Holds(t, ClockSkew)
    BY <1>1, <1>5 DEF VerifyToken, KTypeOK, ktok
  <2>2. kid[t] \in jwks /\ signer[t] = kid[t] /\ kid[t] \in keysCache /\ kid[t] \in Keys
    BY <1>1, <2>1 DEF QuietTokensInStep, DocumentInStep, Issued, KTypeOK
  <2> QED
    BY <1>1, <1>2, <1>3, <2>1, <2>2 DEF Holds, Live
<1>6. ASSUME RegisterJti(v) PROVE FALSE
  <2>1. presented[v] = t /\ type[t] = "refresh" /\ vpc[v] = "register"
    BY <1>6 DEF RegisterJti, ktok
  <2> QED
    BY <1>1, <2>1 DEF RegistryInStep
<1>7. UNCHANGED <<vpc[v], presented[v]>> \/ (\E u \in Tokens : VerifyToken(v, u)) \/ RegisterJti(v)
  <2>1. CASE OfKeys \/ (\E u \in Tokens : Sign(u)) \/ UNCHANGED kvars
    BY <2>1, OfKeysLeaves DEF Sign, kvars, kver
  <2>2. CASE OfVerify
    BY <2>2 DEF OfVerify, VerifyToken, RegisterJti, ForgetJti, KTypeOK
  <2>3. CASE Restart \/ RestartEmpty
    <3>1. vpc[v] = "refused" /\ UNCHANGED presented
      BY <2>3 DEF Restart, RestartEmpty, Stops, KTypeOK
    <3> QED
      BY <3>1
  <2> QED
    BY <2>1, <2>2, <2>3, StepsAre
<1> QED
  BY <1>4, <1>5, <1>6, <1>7

LEMMA KInvKept == KInv /\ [KNext]_kvars => KInv'
<1> SUFFICES ASSUME KInv, [KNext]_kvars, (~lapped /\ ~KFails("vault"))'
             PROVE  (DocumentInStep /\ QuietTokensInStep /\ RefusalsInStep)'
  BY KTypesKept, RegistryKept DEF KInv, KeysInStep
<1> DEFINE Kept == (DocumentInStep /\ QuietTokensInStep)'
<1>a. ~lapped /\ ~KFails("vault") /\ DocumentInStep /\ QuietTokensInStep /\ RefusalsInStep
  BY LapsStay DEF KInv, KTypeOK, KeysInStep, KFails
<1>b. RefusalsInStep'
  BY <1>a, RefusalsKept DEF KInv
<1>0. ~lapped /\ ~KFails("vault") /\ DocumentInStep /\ QuietTokensInStep
  BY <1>a
<1> USE <1>0, KeyAssumption, KeyNames DEF KInv, KTypeOK, kmem, kvault, krot, ktok, KFails, SGoto,
        DocumentInStep, QuietTokensInStep, Rotating, Signing
<1>1. ASSUME KTick PROVE Kept
  BY <1>1 DEF KTick
<1>2. ASSUME NEW k \in Rotations, Begins(k), UNCHANGED <<kmem, jwks>>,
             quiet' \cap Signing = {}, \A t \in quiet' : UNCHANGED <<spc[t], kid[t], signer[t]>>,
             quiet' \subseteq quiet
      PROVE  Kept
  <2>1. /\ kpc[k] = "idle" /\ kpc'[k] = "generate" /\ \A l \in Rotations \ {k} : kpc'[l] = kpc[l]
        /\ Rotating = {} /\ UNCHANGED snapshot
    BY <1>2, BeginsDoes DEF Begins
  <2>2. DocumentInStep'
    BY <1>2, <2>1
  <2>3. QuietTokensInStep'
    BY <1>2, <2>1
  <2> QED
    BY <2>2, <2>3
<1>3. ASSUME NEW k \in Rotations, TimerRotates(k) PROVE Kept
  BY <1>2, <1>3 DEF TimerRotates
<1>4. ASSUME NEW k \in Rotations, GenerateNewKeyPair(k) PROVE Kept
  <2>1. Rotating = {k} /\ Activates(k)
    BY <1>4 DEF GenerateNewKeyPair
  <2>2. kpc'[k] = "save" /\ (\A l \in Rotations \ {k} : kpc'[l] = kpc[l])
    BY <2>1 DEF Activates
  <2>3. DocumentInStep'
    BY <1>4, <2>1, <2>2 DEF GenerateNewKeyPair, Activates
  <2>4. QuietTokensInStep'
    BY <1>4, <2>1, <2>2 DEF GenerateNewKeyPair
  <2> QED
    BY <2>3, <2>4
<1>5. ASSUME NEW k \in Rotations, SaveKeysToVault(k) PROVE Kept
  BY <1>5 DEF SaveKeysToVault, Written
<1>6. ASSUME NEW t \in Tokens, GetActiveKey(t) PROVE Kept
  <2>1. CASE Live(activeKid) /\ UNCHANGED krot
    BY <1>6, <2>1 DEF GetActiveKey, Live
  <2>2. ASSUME NEW k \in Rotations, WaitsFor(t, k), UNCHANGED kid PROVE Kept
    BY <1>2, <1>6, <2>2 DEF GetActiveKey, WaitsFor
  <2> QED
    BY <1>6, <2>1, <2>2 DEF GetActiveKey
<1>7. ASSUME NEW t \in Tokens, GetActivePrivateKey(t) PROVE Kept
  <2>1. CASE Live(activeKid) /\ UNCHANGED krot
    BY <1>7, <2>1 DEF GetActivePrivateKey
  <2>2. ASSUME NEW k \in Rotations, WaitsFor(t, k), UNCHANGED signer PROVE Kept
    BY <1>2, <1>7, <2>2 DEF GetActivePrivateKey, WaitsFor
  <2> QED
    BY <1>7, <2>1, <2>2 DEF GetActivePrivateKey
<1>8. ASSUME NEW t \in Tokens, RotationEnds(t) PROVE Kept
  BY <1>8 DEF RotationEnds
<1>9. ASSUME NEW t \in Tokens, Sign(t) PROVE Kept
  BY <1>9 DEF Sign
<1>10. ASSUME Restart PROVE Kept
  <2> DEFINE Ended == [k \in Rotations |-> IF k \in Rotating THEN "failed" ELSE kpc[k]]
  <2>1. /\ \A k \in Rotations : kpc'[k] # "save" /\ (kpc'[k] \in {"idle", "generate"} => kpc[k] = "idle")
        /\ \A k, l \in Rotating' : k = l
    <3>1. \A k \in Rotations : Ended[k] \notin {"generate", "save"} /\ (Ended[k] = "idle" => kpc[k] = "idle")
      OBVIOUS
    <3>2. kpc' = Ended \/ \E k \in Rotations : kpc[k] = "idle" /\ kpc' = [Ended EXCEPT ![k] = "generate"]
      BY <1>10 DEF Restart
    <3> HIDE DEF Ended
    <3>3. Ended \in [Rotations -> {"idle", "generate", "save", "done", "failed"}]
      BY DEF Ended
    <3> QED
      BY <3>1, <3>2, <3>3
  <2>2. DocumentInStep'
    BY <1>10, <2>1 DEF Restart
  <2>3. \A t \in quiet' :
          /\ t \in quiet /\ UNCHANGED <<kid[t], signer[t]>> /\ spc'[t] \notin {"private", "sign", "rotating"}
          /\ spc'[t] \in {"signed", "carried"} => spc[t] \in {"signed", "carried"}
    BY <1>10 DEF Restart, Stops
  <2>4. QuietTokensInStep'
    BY <1>10, <2>3 DEF Restart
  <2> QED
    BY <2>2, <2>4
<1>11. ASSUME RestartEmpty PROVE Kept
  BY <1>11 DEF RestartEmpty
<1>12. ASSUME UNCHANGED kvars PROVE Kept
  BY <1>12 DEF kvars
<1>13. ASSUME OfVerify PROVE Kept
  BY <1>13, OfVerifyLeaves
<1> QED
  BY <1>b, <1>1, <1>3, <1>4, <1>5, <1>6, <1>7, <1>8, <1>9, <1>10, <1>11, <1>12, <1>13 DEF KNext, OfVerify

LEMMA KInvAlways == KSpec => []KInv
  BY KInvHolds, KInvKept, PTL DEF KSpec

\* Every variable of SigningKeys keeps its type.
THEOREM KeysTypeCorrect == KSpec => []KTypeOK
<1>1. KInv => KTypeOK
  BY DEF KInv
<1> QED
  BY <1>1, KInvAlways, PTL

\* However calls of sign, calls of verify and the timer overlap, and wherever the process
\* stops, a token signed while no rotation was under way is good until it or its key expires;
\* and under every failure too verify accepts an access token, before it expires, once in a
\* process and never in the one that signed it.
THEOREM QuietTokensVerify == KSpec => []TokensVerify
<1>1. ASSUME KInv PROVE QuietTokensHold
  <2> SUFFICES ASSUME ~lapped, ~KFails("vault"), NEW t \in quiet,
                      Issued(t), clock <= exp[t], clock <= keyExpiresAt[kid[t]]
               PROVE  /\ GuardAccepts(t)
                      /\ type[t] = "refresh" => \A v \in Verifications : presented[v] = t => vpc[v] # "refused"
    BY DEF QuietTokensHold
  <2>1. t \in Tokens /\ clock \in Nat /\ exp[t] \in Nat /\ kid[t] \in jwks /\ jwks \subseteq keysCache
        /\ kid[t] \in Keys /\ keyExpiresAt[kid[t]] \in Nat /\ signer[t] = kid[t] /\ RefusalsInStep
    BY <1>1 DEF KInv, KTypeOK, KeysInStep, DocumentInStep, QuietTokensInStep, Issued
  <2>2. GuardAccepts(t)
    BY <2>1 DEF GuardAccepts, Holds, Live
  <2> QED
    BY <2>1, <2>2 DEF RefusalsInStep
<1>2. ASSUME KInv PROVE AccessTokensPassOnce
  BY <1>2 DEF KInv, RegistryInStep, AccessTokensPassOnce
<1>3. KInv => TokensVerify
  BY <1>1, <1>2 DEF TokensVerify
<1> QED
  BY <1>3, KInvAlways, PTL

-----------------------------------------------------------------------------
(* Sessions.                                                               *)

Due == {l \in ActiveSessions : expiresAt[l] < day}

\* As long as one login ends before the next begins, the documents are in the order they
\* expire in, and no document expires before its refresh token.
InOrderOfExpiry ==
  /\ \A l, m \in Logins : {lpc[l], lpc[m]} \subseteq {"save", "create", "insert"} => l = m
  /\ \A l \in Logins : tokenUntil[l] <= day + SessionLife /\ expiresAt[l] <= day + SessionLife
  /\ \A l \in ToSet(stored) : lpc[l] = "ok" /\ tokenUntil[l] <= expiresAt[l]
  /\ \A l \in Logins : lpc[l] = "insert" =>
       tokenUntil[l] <= expiresAt[l] /\ \A m \in ToSet(stored) : expiresAt[m] <= expiresAt[l]
  /\ \A i, j \in DOMAIN stored : i <= j => expiresAt[stored[i]] <= expiresAt[stored[j]]

\* The scheduler has no more documents to mark than there are that have expired, and those
\* it has marked are such documents too.
MarksTheExpired ==
  /\ expired \subseteq ToSet(stored) /\ \A l \in expired : expiresAt[l] < day
  /\ toExpire <= Cardinality(Due)

SInv == STypeOK /\ (~together => InOrderOfExpiry /\ MarksTheExpired)

\* The elements of a sequence are finitely many.
LEMMA FinitelyMany ==
  ASSUME NEW S, NEW s \in Seq(S)
  PROVE  IsFiniteSet(ToSet(s)) /\ ToSet(s) \subseteq S
<1>1. s \in Surjection(1..Len(s), ToSet(s))
  BY DEF Surjection, ToSet
<1>2. IsFiniteSet(1..Len(s))
  BY FS_Interval
<1> QED
  BY <1>1, <1>2, FS_Surjection DEF ToSet

LEMMA CountedIn ==
  ASSUME NEW S, NEW s \in Seq(S), NEW D \in SUBSET ToSet(s)
  PROVE  IsFiniteSet(D) /\ Cardinality(D) \in Nat
<1>1. IsFiniteSet(ToSet(s))
  BY FinitelyMany
<1> QED
  BY <1>1, FS_Subset, FS_CardinalityType

LEMMA OneFewer ==
  ASSUME NEW S, IsFiniteSet(S), NEW x \in S
  PROVE  Cardinality(S \ {x}) = Cardinality(S) - 1
  BY FS_RemoveElement

LEMMA Places ==
  ASSUME NEW S, NEW s \in Seq(S)
  PROVE  /\ Len(s) \in Nat /\ DOMAIN s = 1..Len(s)
         /\ \A i \in DOMAIN s : i \in Nat /\ i >= 1 /\ i <= Len(s) /\ s[i] \in S
  OBVIOUS

\* What an element at the end adds to a sequence.
LEMMA Appended ==
  ASSUME NEW S, NEW s \in Seq(S), NEW x \in S
  PROVE  /\ DOMAIN Append(s, x) = DOMAIN s \cup {Len(s) + 1} /\ Append(s, x)[Len(s) + 1] = x
         /\ \A i \in DOMAIN s : Append(s, x)[i] = s[i] /\ i < Len(s) + 1
         /\ ToSet(Append(s, x)) = ToSet(s) \cup {x}
<1> DEFINE t == Append(s, x)
<1>1. DOMAIN t = DOMAIN s \cup {Len(s) + 1} /\ t[Len(s) + 1] = x
  OBVIOUS
<1>2. \A i \in DOMAIN s : t[i] = s[i] /\ i < Len(s) + 1
  OBVIOUS
<1>3. \A y : y \in ToSet(t) <=> y \in ToSet(s) \/ y = x
  <2>1. \A y : y \in ToSet(t) <=> \E i \in DOMAIN s \cup {Len(s) + 1} : t[i] = y
    BY <1>1 DEF ToSet
  <2> QED
    BY <1>1, <1>2, <2>1 DEF ToSet
<1> QED
  BY <1>1, <1>2, <1>3

\* A document that expires last goes to the end of those in order of expiry.
LEMMA AppendedInOrder ==
  ASSUME NEW S, NEW s \in Seq(S), NEW x \in S, NEW f \in [S -> Nat],
         \A m \in ToSet(s) : f[m] <= f[x],
         \A i, j \in DOMAIN s : i <= j => f[s[i]] <= f[s[j]]
  PROVE  /\ ToSet(Append(s, x)) = ToSet(s) \cup {x}
         /\ \A i, j \in DOMAIN Append(s, x) : i <= j => f[Append(s, x)[i]] <= f[Append(s, x)[j]]
<1> DEFINE t == Append(s, x)
<1>1. /\ DOMAIN t = DOMAIN s \cup {Len(s) + 1} /\ t[Len(s) + 1] = x
      /\ \A i \in DOMAIN s : t[i] = s[i] /\ i < Len(s) + 1
      /\ ToSet(t) = ToSet(s) \cup {x}
  BY Appended
<1>2. DOMAIN s \subseteq Nat /\ Len(s) \in Nat /\ \A i \in DOMAIN s : s[i] \in ToSet(s) /\ s[i] \in S
  BY DEF ToSet
<1> HIDE DEF t
<1>3. ASSUME NEW i \in DOMAIN t, NEW j \in DOMAIN t, i <= j PROVE f[t[i]] <= f[t[j]]
  <2>1. CASE i \in DOMAIN s /\ j \in DOMAIN s
    BY <1>1, <1>3, <2>1
  <2>2. CASE i \in DOMAIN s /\ j = Len(s) + 1
    BY <1>1, <1>2, <2>2
  <2>3. CASE i = Len(s) + 1
    <3>1. j = Len(s) + 1
      BY <1>1, <1>2, <1>3, <2>3
    <3> QED
      BY <1>1, <2>3, <3>1
  <2> QED
    BY <1>1, <2>1, <2>2, <2>3
<1> QED
  BY <1>1, <1>3 DEF t

LEMMA DueCounted ==
  ASSUME STypeOK
  PROVE  IsFiniteSet(Due) /\ Cardinality(Due) \in Nat
<1>1. stored \in Seq(Logins) /\ Due \in SUBSET ToSet(stored)
  BY DEF STypeOK, Due, ActiveSessions
<1> QED
  BY <1>1, CountedIn

LEMMA SInvHolds == SInit => SInv
<1> SUFFICES ASSUME SInit PROVE SInv
  OBVIOUS
<1> USE SessionAssumption DEF SInit
<1>1. STypeOK
  <2>1. stored \in Seq(Logins) /\ expiresAt \in [Logins -> Nat] /\ tokenUntil \in [Logins -> Nat]
    OBVIOUS
  <2>2. /\ uses \in [Refreshes -> Logins \cup {NoLogin}] /\ merged \in [Refreshes -> Logins \cup {NoLogin}]
        /\ noted \in [Refreshes -> Logins \cup {NoLogin}]
    OBVIOUS
  <2>3. day \in 0..LastDay /\ sfaults \in SessionFaults
    OBVIOUS
  <2> QED
    BY <2>1, <2>2, <2>3 DEF STypeOK
<1>2. ToSet(stored) = {} /\ DOMAIN stored = {}
  BY DEF ToSet
<1>3. InOrderOfExpiry
  BY <1>2 DEF InOrderOfExpiry
<1>4. MarksTheExpired
  BY <1>1, <1>2, DueCounted DEF MarksTheExpired
<1> QED
  BY <1>1, <1>3, <1>4 DEF SInv

\* Of the types, all but that of the sequence.
SValuesOK ==
  /\ day \in Nat /\ expired \in SUBSET Logins
  /\ expiresAt \in [Logins -> Nat] /\ tokenUntil \in [Logins -> Nat]
  /\ entry \in Logins \cup {NoLogin}
  /\ lpc \in [Logins -> {"idle", "save", "create", "insert", "ok", "failed"}]
  /\ fpc \in [Refreshes -> {"idle", "sign", "read", "write", "record", "ok", "failed"}]
  /\ uses \in [Refreshes -> Logins \cup {NoLogin}] /\ merged \in [Refreshes -> Logins \cup {NoLogin}]
  /\ noted \in [Refreshes -> Logins \cup {NoLogin}]
  /\ toExpire \in Nat /\ together \in BOOLEAN

LEMMA STypesKept == STypeOK /\ [SNext]_svars => STypeOK'
<1> SUFFICES ASSUME STypeOK, [SNext]_svars PROVE STypeOK'
  OBVIOUS
<1>1. SValuesOK /\ ActiveSessions \subseteq Logins /\ Cardinality(Due) \in Nat
      /\ \A i \in DOMAIN stored : stored[i] \in Logins
  BY SessionAssumption, FinitelyMany, DueCounted DEF STypeOK, SValuesOK, ActiveSessions
<1>2. SValuesOK'
  <2> USE <1>1, SessionAssumption DEF SValuesOK, slogin, srefresh, sdocs, LGoto, FGoto
  <2>1. CASE STick \/ EntryLapses \/ UNCHANGED svars
    BY <2>1 DEF STick, EntryLapses, svars
  <2>2. ASSUME NEW l \in Logins, SignTokens(l) PROVE SValuesOK'
    BY <2>2 DEF SignTokens
  <2>3. ASSUME NEW l \in Logins, SaveSession(l) PROVE SValuesOK'
    BY <2>3 DEF SaveSession
  <2>10. ASSUME NEW l \in Logins, InsertSession(l) PROVE SValuesOK'
    BY <2>10 DEF InsertSession
  <2>9. ASSUME NEW l \in Logins, CreateSession(l) PROVE SValuesOK'
    BY <2>9 DEF CreateSession
  <2>4. ASSUME NEW r \in Refreshes, NEW l \in Logins, Refresh(r, l) PROVE SValuesOK'
    BY <2>4 DEF Refresh
  <2>5. ASSUME NEW r \in Refreshes, SignAccess(r) \/ ReadSession(r) \/ UpdateSession(r) PROVE SValuesOK'
    BY <2>5 DEF SignAccess, ReadSession, UpdateSession
  <2>6. ASSUME NEW r \in Refreshes, RecordAccessTokenRefresh(r) PROVE SValuesOK'
    BY <2>6 DEF RecordAccessTokenRefresh
  <2>7. CASE FindExpiredSessions
    BY <2>7 DEF FindExpiredSessions, Due
  <2>8. CASE ExpireSession
    BY <2>8 DEF ExpireSession
  <2> QED
    BY <2>1, <2>2, <2>3, <2>4, <2>5, <2>6, <2>7, <2>8, <2>9, <2>10 DEF SNext
<1>3. stored' \in Seq(Logins)
  <2>1. ASSUME NEW l \in Logins, InsertSession(l) PROVE stored' \in Seq(Logins)
    <3>1. stored \in Seq(Logins) /\ Append(stored, l) \in Seq(Logins)
      BY DEF STypeOK
    <3> QED
      BY <2>1, <3>1 DEF InsertSession
  <2>2. CASE UNCHANGED stored
    BY <2>2 DEF STypeOK
  <2> QED
    BY <2>1, <2>2 DEF SNext, svars, slogin, srefresh, sdocs, STick, EntryLapses, SignTokens, SaveSession,
       CreateSession, Refresh, SignAccess, ReadSession, UpdateSession, RecordAccessTokenRefresh,
       FindExpiredSessions, ExpireSession
<1>4. day' \in 0..LastDay /\ sfaults' \in SessionFaults
  <2> USE SessionAssumption DEF STypeOK, svars, slogin, srefresh, sdocs
  <2>1. CASE STick
    BY <2>1 DEF STick
  <2>2. CASE UNCHANGED <<day, sfaults>>
    BY <2>2
  <2>3. STick \/ UNCHANGED <<day, sfaults>>
    BY DEF SNext, EntryLapses, SignTokens, SaveSession, CreateSession, InsertSession, Refresh, SignAccess,
       ReadSession, UpdateSession, RecordAccessTokenRefresh, FindExpiredSessions, ExpireSession
  <2> QED
    BY <2>1, <2>2, <2>3
<1> QED
  BY <1>2, <1>3, <1>4 DEF STypeOK, SValuesOK

LEMMA TogetherStays == STypeOK /\ [SNext]_svars => (together => together')
<1> SUFFICES ASSUME STypeOK, [SNext]_svars, together PROVE together'
  OBVIOUS
<1> QED
  BY DEF SNext, svars, slogin, srefresh, sdocs, STick, EntryLapses, SignTokens, SaveSession,
     CreateSession, InsertSession, Refresh, SignAccess, ReadSession, UpdateSession,
     RecordAccessTokenRefresh, FindExpiredSessions, ExpireSession

\* What the scheduler has to mark stays within the documents that have expired.
LEMMA MarksFew ==
  ASSUME STypeOK, STypeOK', MarksTheExpired, Due \subseteq Due', toExpire' <= toExpire
  PROVE  toExpire' <= Cardinality(Due')
<1>1. IsFiniteSet(Due') /\ Cardinality(Due') \in Nat
  <2>1. stored' \in Seq(Logins) /\ Due' \in SUBSET ToSet(stored')
    BY DEF STypeOK, Due, ActiveSessions
  <2> QED
    BY <2>1, CountedIn
<1>2. Cardinality(Due) <= Cardinality(Due')
  BY <1>1, FS_Subset
<1>3. toExpire \in Nat /\ toExpire' \in Nat /\ Cardinality(Due) \in Nat
  BY DueCounted DEF STypeOK
<1> QED
  BY <1>1, <1>2, <1>3 DEF MarksTheExpired

LEMMA SInvKept == SInv /\ [SNext]_svars => SInv'
<1> SUFFICES ASSUME SInv, [SNext]_svars, ~together' PROVE (InOrderOfExpiry /\ MarksTheExpired)'
  BY STypesKept DEF SInv
<1>1. STypeOK /\ STypeOK'
  BY STypesKept DEF SInv
<1>2. ~together /\ InOrderOfExpiry /\ MarksTheExpired
  BY <1>1, TogetherStays DEF SInv
<1>3. /\ SValuesOK /\ SValuesOK' /\ day' \in Nat
      /\ ToSet(stored) \subseteq Logins /\ \A i \in DOMAIN stored : stored[i] \in ToSet(stored)
  <2>1. SValuesOK
    BY <1>1, SessionAssumption, SMTT(30) DEF STypeOK, SValuesOK
  <2>2. SValuesOK' /\ day' \in Nat
    BY <1>1, SessionAssumption DEF STypeOK, SValuesOK
  <2>3. stored \in Seq(Logins)
    BY <1>1 DEF STypeOK
  <2>4. ToSet(stored) \subseteq Logins
    BY <2>3, FinitelyMany
  <2>5. \A i \in DOMAIN stored : stored[i] \in ToSet(stored)
    BY DEF ToSet
  <2> QED
    BY <2>1, <2>2, <2>4, <2>5
<1> DEFINE Kept == (InOrderOfExpiry /\ MarksTheExpired)'
<1> USE <1>2, <1>3, SessionAssumption DEF SValuesOK, slogin, srefresh, sdocs, LGoto, FGoto
<1>4. ASSUME UNCHANGED sdocs, day <= day', toExpire' <= toExpire PROVE MarksTheExpired'
  <2>1. Due \subseteq Due'
    BY <1>4 DEF Due, ActiveSessions
  <2> QED
    BY <1>1, <1>4, <2>1, MarksFew DEF MarksTheExpired
<1>5. CASE STick
  BY <1>4, <1>5 DEF STick, InOrderOfExpiry
<1>6. CASE EntryLapses \/ UNCHANGED svars
  BY <1>4, <1>6 DEF EntryLapses, svars, InOrderOfExpiry
<1>7. ASSUME NEW l \in Logins, SignTokens(l) PROVE Kept
  <2>1. \A m \in Logins : lpc[m] \notin {"save", "create", "insert"}
    BY <1>7 DEF SignTokens
  <2>2. \A m \in ToSet(stored) : m # l
    BY <1>7 DEF SignTokens, InOrderOfExpiry
  <2>3. InOrderOfExpiry'
    BY <1>7, <2>1, <2>2 DEF SignTokens, InOrderOfExpiry
  <2> QED
    BY <1>4, <1>7, <2>3 DEF SignTokens
<1>8. ASSUME NEW l \in Logins, SaveSession(l) PROVE Kept
  BY <1>4, <1>8 DEF SaveSession, InOrderOfExpiry
<1>9. ASSUME NEW l \in Logins, CreateSession(l) PROVE Kept
  <2>1. \A m \in ToSet(stored) : m # l
    BY <1>9 DEF CreateSession, InOrderOfExpiry
  <2>2. InOrderOfExpiry'
    BY <1>9, <2>1 DEF CreateSession, InOrderOfExpiry
  <2>3. Due \subseteq Due'
    BY <1>9, <2>1 DEF CreateSession, Due, ActiveSessions
  <2> QED
    BY <1>1, <1>9, <2>1, <2>2, <2>3, MarksFew DEF CreateSession, MarksTheExpired
<1>10. ASSUME NEW l \in Logins, InsertSession(l) PROVE Kept
  <2>1. CASE UNCHANGED stored
    BY <1>4, <1>10, <2>1 DEF InsertSession, InOrderOfExpiry
  <2>2. CASE stored' = Append(stored, l)
    <3>4. /\ lpc[l] = "insert" /\ lpc' = [lpc EXCEPT ![l] = "ok"]
          /\ UNCHANGED <<day, tokenUntil, expiresAt>>
      BY <1>10, <2>2 DEF InsertSession
    <3>5. /\ stored \in Seq(Logins) /\ expiresAt \in [Logins -> Nat]
          /\ \A m \in ToSet(stored) : expiresAt[m] <= expiresAt[l]
          /\ \A i, j \in DOMAIN stored : i <= j => expiresAt[stored[i]] <= expiresAt[stored[j]]
      BY <1>1, <3>4 DEF STypeOK, InOrderOfExpiry
    <3>1. /\ ToSet(stored') = ToSet(stored) \cup {l}
          /\ \A i, j \in DOMAIN stored' : i <= j => expiresAt'[stored'[i]] <= expiresAt'[stored'[j]]
      <4> HIDE <1>2, <1>3
      <4> QED
        BY <2>2, <3>4, <3>5, AppendedInOrder
    <3>2. InOrderOfExpiry'
      BY <3>1, <3>4 DEF InOrderOfExpiry
    <3>3. Due \subseteq Due'
      BY <1>10, <3>1 DEF InsertSession, Due, ActiveSessions
    <3> QED
      BY <1>1, <1>10, <3>1, <3>2, <3>3, MarksFew DEF InsertSession, MarksTheExpired
  <2> QED
    BY <1>10, <2>1, <2>2 DEF InsertSession
<1>11. ASSUME NEW r \in Refreshes, NEW l \in Logins, Refresh(r, l) PROVE Kept
  BY <1>4, <1>11 DEF Refresh, InOrderOfExpiry
<1>12. ASSUME NEW r \in Refreshes, SignAccess(r) \/ ReadSession(r) \/ UpdateSession(r) \/ RecordAccessTokenRefresh(r)
       PROVE  Kept
  BY <1>4, <1>12 DEF SignAccess, ReadSession, UpdateSession, RecordAccessTokenRefresh, InOrderOfExpiry
<1>13. CASE FindExpiredSessions
  BY <1>13 DEF FindExpiredSessions, Due, ActiveSessions, InOrderOfExpiry, MarksTheExpired
<1>14. CASE ExpireSession
  <2>1. InOrderOfExpiry'
    BY <1>14 DEF ExpireSession, InOrderOfExpiry
  <2>2. CASE UNCHANGED expired
    BY <1>4, <1>14, <2>1, <2>2 DEF ExpireSession
  <2>3. ASSUME NEW i \in DOMAIN stored,
               i = 1 \/ (stored[i] \notin expired /\ \A j \in 1..(i - 1) : stored[j] \in expired),
               expired' = expired \cup {stored[i]}
        PROVE  MarksTheExpired'
    <3>1. PICK due \in Due : TRUE
      BY <1>1, <1>14, DueCounted, FS_EmptySet DEF ExpireSession, MarksTheExpired
    <3>2. PICK j \in DOMAIN stored : stored[j] = due
      BY <3>1 DEF Due, ActiveSessions, ToSet
    <3>3. i \in Nat /\ j \in Nat /\ i >= 1 /\ j >= 1
      <4>1. stored \in Seq(Logins)
        BY <1>1 DEF STypeOK
      <4> QED
        BY <4>1, Places
    <3>4. i <= j
      BY <2>3, <3>1, <3>2, <3>3 DEF Due, ActiveSessions
    <3>5. stored[i] \in Logins /\ expiresAt[stored[i]] < day
      BY <3>1, <3>2, <3>3, <3>4 DEF Due, InOrderOfExpiry
    <3>6. CASE stored[i] \in expired
      BY <1>4, <1>14, <2>3, <3>6 DEF ExpireSession
    <3>7. CASE stored[i] \notin expired
      <4>1. Due' = Due \ {stored[i]} /\ stored[i] \in Due
        BY <1>14, <2>3, <3>5, <3>7 DEF ExpireSession, Due, ActiveSessions
      <4>2. Cardinality(Due') = Cardinality(Due) - 1
        <5>1. IsFiniteSet(Due)
          BY <1>1, DueCounted
        <5>2. Cardinality(Due \ {stored[i]}) = Cardinality(Due) - 1
          BY <4>1, <5>1, OneFewer
        <5> QED
          BY <4>1, <5>2
      <4> QED
        BY <1>1, <1>14, <2>3, <3>5, <4>2, DueCounted DEF ExpireSession, MarksTheExpired
    <3> QED
      BY <3>6, <3>7
  <2> QED
    BY <1>14, <2>1, <2>2, <2>3 DEF ExpireSession
<1> QED
  BY <1>5, <1>6, <1>7, <1>8, <1>9, <1>10, <1>11, <1>12, <1>13, <1>14 DEF SNext

\* Every variable of Sessions keeps its type.
THEOREM SessionsTypeCorrect == SSpec => []STypeOK
<1>1. SInv => STypeOK
  BY DEF SInv
<1> QED
  BY <1>1, SInvHolds, SInvKept, PTL DEF SSpec

\* However documents, ticks and the scheduler interleave, and though the scheduler marks
\* another document than the one it found, a session it has marked cannot be refreshed.
THEOREM MarkedCannotRefresh == SSpec => ExpiredCannotRefresh
<1>1. ASSUME SInv, [SNext]_svars, ~together, NEW r \in Refreshes, fpc[r] = "idle", fpc'[r] = "sign"
      PROVE  uses'[r] \notin expired
  <2>1. PICK l \in Logins : Refresh(r, l)
    BY <1>1 DEF SInv, STypeOK, SNext, svars, slogin, srefresh, sdocs, FGoto, STick, EntryLapses, SignTokens,
       SaveSession, CreateSession, InsertSession, Refresh, SignAccess, ReadSession, UpdateSession,
       RecordAccessTokenRefresh, FindExpiredSessions, ExpireSession
  <2>2. uses'[r] = l /\ day <= tokenUntil[l]
    BY <1>1, <2>1 DEF SInv, STypeOK, Refresh, FGoto
  <2>3. day \in Nat /\ tokenUntil[l] \in Nat /\ expiresAt[l] \in Nat
    BY SessionAssumption, <1>1 DEF SInv, STypeOK
  <2>4. l \in expired => l \in ToSet(stored) /\ expiresAt[l] < day /\ tokenUntil[l] <= expiresAt[l]
    BY <1>1 DEF SInv, InOrderOfExpiry, MarksTheExpired
  <2> QED
    BY <2>2, <2>3, <2>4
<1>2. SInv /\ [SNext]_svars =>
        [~together => \A r \in Refreshes : fpc[r] = "idle" /\ fpc'[r] = "sign" => uses'[r] \notin expired]_svars
  BY <1>1
<1> QED
  BY <1>2, SInvHolds, SInvKept, PTL DEF SSpec, ExpiredCannotRefresh

-----------------------------------------------------------------------------
(* Permissions.                                                            *)

\* heldAt is the last minute in which the user had the permission.
HeldAtIsLast == heldAt <= minute /\ (Entitled => heldAt = minute)

\* Only a request about to store what it found has found anything.
FoundWhenStored == \A c \in Checks : gpc[c] # "store" => found[c] = "nothing"

\* What requests have read they have read in this minute, and an entry is no younger than
\* the grant it was made of.
ReadsAreOfNow ==
  /\ \A c \in Checks : gpc[c] = "roles" => keys[c] = holds
  /\ \A c \in Checks : gpc[c] = "store" /\ found[c] # "nothing" => heldAt = minute
  /\ cache = "all" => cachedAt <= heldAt

WritesToRoles == \A o \in RoleChanges : changes[o] = "write" => target[o] \in Roles

GInv == GTypeOK /\ WritesToRoles /\ HeldAtIsLast /\ FoundWhenStored /\ (~torn => ReadsAreOfNow)

LEMMA AddUpGives == \A roles : AddUp(roles) \in Gives
  BY DEF AddUp, Gives

LEMMA GInvHolds == GInit => GInv
<1> SUFFICES ASSUME GInit PROVE GInv
  OBVIOUS
<1> USE RightAssumption DEF GInit, Gives
<1>1. PICK k \in Roles, others \in SUBSET Roles :
        gives \in [{k} \cup others -> {"some", "all"}] /\ enabled = {k} /\ holds = {k}
  OBVIOUS
<1>2. Existing = {k} \cup others
  BY <1>1 DEF Existing
<1>3. GTypeOK
  <2>1. gives \in [Existing -> Gives] /\ Existing \in SUBSET Roles /\ enabled \in SUBSET Existing
    BY <1>1, <1>2
  <2>2. keys \in [Checks -> SUBSET Roles] /\ found \in [Checks -> Gives] /\ target \in [RoleChanges -> Roles \cup {NoRole}]
    OBVIOUS
  <2>3. minute \in 0..LastMinute /\ cache \in {"none"} \cup Gives
    OBVIOUS
  <2> QED
    BY <1>1, <2>1, <2>2, <2>3 DEF GTypeOK
<1> QED
  BY <1>3 DEF GInv, HeldAtIsLast, FoundWhenStored, ReadsAreOfNow, WritesToRoles

\* Whatever an operation writes, the roles are roles and give what a role can give.
LEMMA RolesStayRoles ==
  ASSUME GTypeOK, NEW k \in Roles, NEW what, RoleWritten(what, k)
  PROVE  Existing' \in SUBSET Roles /\ gives' \in [Existing' -> Gives] /\ enabled' \in SUBSET Existing'
<1>1. CASE RoleCreated(k)
  <2>1. PICK g \in Gives : gives' = [r \in Existing \cup {k} |-> IF r = k THEN g ELSE gives[r]]
    BY <1>1 DEF RoleCreated
  <2> QED
    BY <1>1, <2>1 DEF RoleCreated, GTypeOK, Existing
<1>2. CASE k \in Existing /\ PermissionsUpdated(k)
  BY <1>2 DEF PermissionsUpdated, GTypeOK, Existing
<1>3. CASE k \in Existing /\ (RoleUpdated(k) \/ RoleDisabled(k))
  BY <1>3 DEF RoleUpdated, RoleDisabled, GTypeOK, Existing
<1>4. CASE k \in Existing /\ RoleDeleted(k)
  BY <1>4 DEF RoleDeleted, GTypeOK, Existing
<1> QED
  BY <1>1, <1>2, <1>3, <1>4 DEF RoleWritten

\* Of the types, all but those of the roles that exist and of heldAt.
GValuesOK ==
  /\ minute \in 0..LastMinute
  /\ holds \in SUBSET Roles
  /\ cache \in {"none"} \cup Gives /\ cachedAt \in Nat
  /\ gpc \in [Checks -> {"idle", "user", "roles", "store", "allowed", "denied"}]
  /\ keys \in [Checks -> SUBSET Roles] /\ found \in [Checks -> Gives]
  /\ changes \in [RoleChanges -> {"idle", "write", "done", "failed"}]
  /\ change \in [RoleChanges -> {"none", "create", "grant", "disable", "enable", "delete"}]
  /\ target \in [RoleChanges -> Roles \cup {NoRole}]
  /\ torn \in BOOLEAN /\ granted \in BOOLEAN
  /\ gfaults \in RightFaults

LEMMA GTypesKept == GTypeOK /\ WritesToRoles /\ [GNext]_gvars => GTypeOK' /\ WritesToRoles'
<1> SUFFICES ASSUME GTypeOK, WritesToRoles, [GNext]_gvars PROVE GTypeOK' /\ WritesToRoles'
  OBVIOUS
<1> DEFINE RolesOK == Existing \in SUBSET Roles /\ gives \in [Existing -> Gives] /\ enabled \in SUBSET Existing
<1> DEFINE Kept == GValuesOK' /\ RolesOK' /\ WritesToRoles'
<1>1. GValuesOK /\ RolesOK /\ heldAt \in Nat
  BY DEF GTypeOK, GValuesOK
<1> USE <1>1, RightAssumption DEF GValuesOK, WritesToRoles, groles, gcache, gguard, gchange, GGoto, Goes, Existing
<1>2. ASSUME GTick PROVE Kept
  BY <1>2 DEF GTick
<1>3. ASSUME NEW c \in Checks, ReadEntry(c) PROVE Kept
  BY <1>3 DEF ReadEntry
<1>4. ASSUME NEW c \in Checks, FindUserRoles(c) PROVE Kept
  BY <1>4 DEF FindUserRoles
<1>5. ASSUME NEW c \in Checks, FindActiveByKeys(c) PROVE Kept
  BY <1>5, AddUpGives DEF FindActiveByKeys
<1>6. ASSUME NEW c \in Checks, StoreEntry(c) PROVE Kept
  <2>1. GValuesOK'
    <3>1. granted' \in BOOLEAN
      BY <1>6, Zenon DEF StoreEntry
    <3>3. cache' \in {"none"} \cup Gives /\ cachedAt' \in Nat
      BY <1>6 DEF StoreEntry, Gives
    <3>2. keys' \in [Checks -> SUBSET Roles] /\ found' \in [Checks -> Gives]
      BY <1>6 DEF StoreEntry, Gives
    <3> QED
      BY <1>6, <3>1, <3>2, <3>3 DEF StoreEntry
  <2> QED
    BY <1>6, <2>1 DEF StoreEntry, WritesToRoles
<1>7. ASSUME NEW o \in RoleChanges, NEW what \in Changes, NEW k \in Roles, FindRole(o, what, k) PROVE Kept
  BY <1>7 DEF FindRole, Changes
<1>8. ASSUME NEW o \in RoleChanges, WriteRole(o) PROVE Kept
  <2>1. GValuesOK'
    BY <1>8 DEF WriteRole
  <2>4. WritesToRoles'
    BY <1>8 DEF WriteRole, WritesToRoles
  <2>2. CASE RoleWritten(change[o], target[o])
    <3>1. target[o] \in Roles
      BY <1>8 DEF WriteRole, WritesToRoles
    <3>2. RolesOK'
      BY <2>2, <3>1, RolesStayRoles
    <3> QED
      BY <2>1, <2>4, <3>2
  <2>3. CASE UNCHANGED <<gives, enabled>>
    BY <2>1, <2>3, <2>4
  <2> QED
    BY <1>8, <2>2, <2>3 DEF WriteRole
<1>9. ASSUME ChangeUserRoles PROVE Kept
  BY <1>9 DEF ChangeUserRoles
<1>10. ASSUME UNCHANGED gvars PROVE Kept
  BY <1>10 DEF gvars
<1>11. Kept
  BY <1>2, <1>3, <1>4, <1>5, <1>6, <1>7, <1>8, <1>9, <1>10 DEF GNext
<1>12. heldAt' \in Nat
  <2>1. heldAt' \in {heldAt, minute'}
    BY DEF GNext, gvars
  <2>2. minute' \in Nat
    BY <1>11
  <2> QED
    BY <2>1, <2>2
<1> QED
  BY <1>11, <1>12 DEF GTypeOK

LEMMA GInvKept == GInv /\ [GNext]_gvars => GInv'
<1> SUFFICES ASSUME GInv, [GNext]_gvars PROVE GInv'
  OBVIOUS
<1>1. GTypeOK /\ GTypeOK' /\ WritesToRoles' /\ minute \in Nat /\ minute' \in Nat /\ minute <= minute'
  <2>1. GTypeOK /\ GTypeOK' /\ WritesToRoles'
    BY GTypesKept DEF GInv
  <2>2. minute' \in {minute, minute + 1}
    BY <2>1 DEF GTypeOK, GNext, GTick, ReadEntry, FindUserRoles, FindActiveByKeys, StoreEntry, FindRole, WriteRole,
       ChangeUserRoles, gvars
  <2> QED
    BY <2>1, <2>2, RightAssumption DEF GTypeOK
<1>2. HeldAtIsLast'
  <2>1. CASE UNCHANGED gvars
    BY <2>1 DEF GInv, HeldAtIsLast, gvars, groles, Entitled, AddUp
  <2>2. CASE heldAt' = IF Entitled' THEN minute' ELSE heldAt
    BY <1>1, <2>2 DEF GInv, HeldAtIsLast, GTypeOK
  <2> QED
    BY <2>1, <2>2 DEF GNext
<1>3. FoundWhenStored'
  <2> USE <1>1 DEF GInv, GTypeOK, FoundWhenStored, GGoto, gguard, gcache, Gives
  <2>1. ASSUME NEW c \in Checks, ReadEntry(c) \/ FindUserRoles(c) PROVE FoundWhenStored'
    BY <2>1 DEF ReadEntry, FindUserRoles
  <2>2. ASSUME NEW c \in Checks, FindActiveByKeys(c) \/ StoreEntry(c) PROVE FoundWhenStored'
    BY <2>2 DEF FindActiveByKeys, StoreEntry
  <2>3. CASE UNCHANGED <<gpc, found>>
    BY <2>3
  <2> QED
    BY <2>1, <2>2, <2>3 DEF GNext, GTick, FindRole, WriteRole, ChangeUserRoles, gvars
<1>4. ASSUME ~torn' PROVE ReadsAreOfNow'
  <2>1. ~torn /\ ReadsAreOfNow
    BY <1>1, <1>4 DEF GInv, GTypeOK, GNext, GTick, ReadEntry, FindUserRoles, FindActiveByKeys, StoreEntry, FindRole,
       WriteRole, ChangeUserRoles, gvars
  <2>2. (heldAt = minute /\ minute' = minute => heldAt' = minute') /\ heldAt' \in {heldAt, minute'}
    BY DEF GNext, gvars
  <2>3. heldAt \in Nat /\ cachedAt \in Nat /\ heldAt <= heldAt'
    BY <1>1, <2>2 DEF GInv, GTypeOK, HeldAtIsLast
  <2> USE <1>1, <1>4, <2>1, <2>2, <2>3 DEF GInv, GValuesOK, ReadsAreOfNow, GGoto, groles, gguard, gcache, gchange
  <2>4. GValuesOK
    BY DEF GTypeOK
  <2> USE <2>4
  <2>5. CASE GTick
    <3>1. \A c \in Checks : gpc[c] \notin {"roles", "store"}
      BY <2>5, Zenon DEF GTick
    <3> QED
      BY <2>5, <3>1 DEF GTick
  <2>6. ASSUME NEW c \in Checks, ReadEntry(c) PROVE ReadsAreOfNow'
    BY <2>6 DEF ReadEntry, FoundWhenStored
  <2>7. ASSUME NEW c \in Checks, FindUserRoles(c) PROVE ReadsAreOfNow'
    BY <2>7 DEF FindUserRoles
  <2>8. ASSUME NEW c \in Checks, FindActiveByKeys(c) PROVE ReadsAreOfNow'
    <3>1. found'[c] # "nothing" => Entitled
      BY <2>8 DEF FindActiveByKeys, FoundWhenStored, Entitled
    <3> QED
      BY <2>8, <3>1 DEF FindActiveByKeys, HeldAtIsLast
  <2>9. ASSUME NEW c \in Checks, StoreEntry(c) PROVE ReadsAreOfNow'
    BY <2>9 DEF StoreEntry
  <2>10. CASE ChangeUserRoles
    <3>1. \A c \in Checks : gpc[c] # "roles"
      BY <2>10, Zenon DEF ChangeUserRoles
    <3> QED
      BY <2>10, <3>1 DEF ChangeUserRoles
  <2>11. CASE UNCHANGED <<minute, gguard, gcache, holds>>
    BY <2>11
  <2> QED
    BY <2>5, <2>6, <2>7, <2>8, <2>9, <2>10, <2>11 DEF GNext, FindRole, WriteRole, gvars
<1> QED
  BY <1>1, <1>2, <1>3, <1>4 DEF GInv

\* Every variable of Permissions keeps its type.
THEOREM PermissionsTypeCorrect == GSpec => []GTypeOK
<1>1. GInv => GTypeOK
  BY DEF GInv
<1> QED
  BY <1>1, GInvHolds, GInvKept, PTL DEF GSpec

\* Whatever roles are changed while requests are under way, and however many, a permission
\* the user has lost is granted for less than the life of an entry.
THEOREM LostGrantsEnd == GSpec => GrantsEnd
<1>1. ASSUME GInv, [GNext]_gvars, ~torn, NEW c \in Checks, gpc[c] # "allowed", gpc'[c] = "allowed"
      PROVE  minute < heldAt + EntryLife
  <2>1. ReadEntry(c) \/ StoreEntry(c)
    BY <1>1 DEF GInv, GTypeOK, GNext, GTick, ReadEntry, FindUserRoles, FindActiveByKeys, StoreEntry, FindRole,
       WriteRole, ChangeUserRoles, gvars, gguard, GGoto
  <2>2. minute \in Nat /\ heldAt \in Nat /\ cachedAt \in Nat /\ gpc \in [Checks -> {"idle", "user", "roles", "store", "allowed", "denied"}]
    BY <1>1, RightAssumption DEF GInv, GTypeOK
  <2>3. CASE ReadEntry(c)
    BY <1>1, <2>2, <2>3, RightAssumption DEF ReadEntry, Lives, GInv, ReadsAreOfNow, GGoto
  <2>4. CASE StoreEntry(c)
    BY <1>1, <2>2, <2>4, RightAssumption DEF StoreEntry, GInv, ReadsAreOfNow, GGoto
  <2> QED
    BY <2>1, <2>3, <2>4
<1>2. GInv /\ [GNext]_gvars =>
        [~torn => \A c \in Checks :
           gpc[c] # "allowed" /\ gpc'[c] = "allowed" => minute < heldAt + EntryLife]_gvars
  BY <1>1
<1> QED
  BY <1>2, GInvHolds, GInvKept, PTL DEF GSpec, GrantsEnd
=============================================================================
