----------------------------- MODULE VaultClient -----------------------------
(***************************************************************************)
(* The token of the Vault client (vault-http.adapter.ts): every KV call    *)
(* first asks getToken, which returns the token it has, renews it, or logs *)
(* in again; with a wrapped secret a login unwraps it first.  An HTTP call *)
(* is sent, handled by Vault, and answered, in that order and within       *)
(* Timeout; other calls go on in between.                                  *)
(*                                                                         *)
(* A token is named by the KV call that logged in for it.  Time is in the  *)
(* unit of Timeout.  The lease Vault grants is taken to be the one the     *)
(* answer names, as the code does.                                         *)
(***************************************************************************)
EXTENDS Integers

CONSTANTS
  Calls,        \* readKV, writeKV and deleteKV calls
  Configured,   \* the token of VAULT_TOKEN
  Timeout,      \* of the HTTP client
  Window,       \* VAULT_TOKEN_RENEW_SAFETY_WINDOW_SEC
  Lease,        \* the duration of a login or renewal
  Day,          \* what the code takes the configured token to last
  Horizon,      \* bound on the time
  VaultFaults   \* the sets of failures a behaviour may be exposed to

ASSUME VaultAssumption ==
  /\ Configured \notin Calls
  /\ Timeout \in Nat /\ Lease \in Nat /\ Day \in Nat /\ Horizon \in Nat
  /\ Window \in Nat /\ Window >= 3 * Timeout /\ Lease > 3 * Timeout
  /\ VaultFaults \subseteq SUBSET {"lost"}

VARIABLES
  token,       \* the token of the default header
  tokenExpire, \* when the code takes it to expire
  isRenewable,
  leaseEnd,    \* when Vault will forget a token, 0 if it never issued it
  sealed,      \* the wrapped secret has not been unwrapped
  vpc,         \* the HTTP call a KV call waits for
  used,        \* the token it was sent with
  reply,       \* its answer, once Vault has handled it
  deadline,    \* when it times out
  now,
  wrapped,     \* VAULT_SECRET_ID_WRAPPED is set; never changes
  renewable,   \* what a login says of its token; never changes
  vfaults      \* the failures of this behaviour; never changes

client == <<token, tokenExpire, isRenewable>>
server == <<leaseEnd, sealed>>
http == <<vpc, used, reply, deadline>>
config == <<wrapped, renewable, vfaults>>
vvars == <<client, server, http, now, config>>

Tokens == Calls \cup {Configured}
Waiting == {"renew", "unwrap", "login", "kv"}

VTypeOK ==
  /\ token \in Tokens /\ tokenExpire \in Nat /\ isRenewable \in BOOLEAN
  /\ leaseEnd \in [Tokens -> Nat]
  /\ sealed \in BOOLEAN
  /\ vpc \in [Calls -> Waiting \cup {"idle", "ok", "failed"}]
  /\ used \in [Calls -> Tokens]
  /\ reply \in [Calls -> {"none", "yes", "no"}]
  /\ deadline \in [Calls -> Nat]
  /\ now \in Nat
  /\ wrapped \in BOOLEAN /\ renewable \in BOOLEAN
  /\ vfaults \in VaultFaults

\* The constructor: the configured token is used for a day, and not renewed.
\* It is a root token, which Vault keeps.
VInit ==
  /\ token = Configured /\ tokenExpire = Day /\ isRenewable = FALSE
  /\ leaseEnd = [t \in Tokens |-> IF t = Configured THEN Day + Window + Timeout ELSE 0]
  /\ sealed = TRUE
  /\ vpc = [c \in Calls |-> "idle"]
  /\ used = [c \in Calls |-> Configured]
  /\ reply = [c \in Calls |-> "none"]
  /\ deadline = [c \in Calls |-> 0]
  /\ now = 0
  /\ wrapped \in BOOLEAN /\ renewable \in BOOLEAN
  /\ vfaults \in VaultFaults

-----------------------------------------------------------------------------
(* The client.                                                             *)

Send(c, request, with) ==
  /\ vpc' = [vpc EXCEPT ![c] = request]
  /\ used' = [used EXCEPT ![c] = with]
  /\ reply' = [reply EXCEPT ![c] = "none"]
  /\ deadline' = [deadline EXCEPT ![c] = now + Timeout]

Finish(c, outcome) ==
  /\ vpc' = [vpc EXCEPT ![c] = outcome]
  /\ used' = [used EXCEPT ![c] = Configured]
  /\ reply' = [reply EXCEPT ![c] = "none"]
  /\ deadline' = [deadline EXCEPT ![c] = 0]

Login(c) == Send(c, IF wrapped THEN "unwrap" ELSE "login", token)

\* Mutant: the safety window is left out.
ValidTillTheEnd == now < tokenExpire

Valid == now < tokenExpire - Window

\* getToken, up to its first call to Vault, and the KV call if it has none.
GetToken(c) ==
  /\ vpc[c] = "idle"
  /\ \/ Valid /\ Send(c, "kv", token)
     \/ ~Valid /\ isRenewable /\ Send(c, "renew", token)
     \/ ~Valid /\ ~isRenewable /\ Login(c)
  /\ UNCHANGED <<client, server, now, config>>

\* renewToken's answer: the expiry is moved, whatever the token is by now; a
\* failure falls through to a login.
Renewed(c) ==
  /\ vpc[c] = "renew"
  /\ \/ reply[c] = "yes" /\ tokenExpire' = now + Lease /\ Send(c, "kv", token)
     \/ reply[c] = "no" /\ UNCHANGED tokenExpire /\ Login(c)
  /\ UNCHANGED <<token, isRenewable, server, now, config>>

Unwrapped(c) ==
  /\ vpc[c] = "unwrap"
  /\ \/ reply[c] = "yes" /\ Send(c, "login", token)
     \/ reply[c] = "no" /\ Finish(c, "failed")
  /\ UNCHANGED <<client, server, now, config>>

LoggedIn(c) ==
  /\ vpc[c] = "login"
  /\ \/ /\ reply[c] = "yes"
        /\ token' = c /\ tokenExpire' = now + Lease /\ isRenewable' = renewable
        /\ Send(c, "kv", c)
     \/ reply[c] = "no" /\ Finish(c, "failed") /\ UNCHANGED client
  /\ UNCHANGED <<server, now, config>>

Served(c) ==
  /\ vpc[c] = "kv"
  /\ \/ reply[c] = "yes" /\ Finish(c, "ok")
     \/ reply[c] = "no" /\ Finish(c, "failed")
  /\ UNCHANGED <<client, server, now, config>>

-----------------------------------------------------------------------------
(* Vault, the network and the clock.                                       *)

Live(t) == now < leaseEnd[t]
Answers(c, a) == reply' = [reply EXCEPT ![c] = a]

\* renew-self of a live token; Vault may refuse, at its maximum lifetime.
VaultRenews(c) ==
  /\ vpc[c] = "renew" /\ reply[c] = "none"
  /\ \/ Live(used[c]) /\ Answers(c, "yes") /\ leaseEnd' = [leaseEnd EXCEPT ![used[c]] = now + Lease]
     \/ Answers(c, "no") /\ UNCHANGED leaseEnd
  /\ UNCHANGED sealed

\* A wrapping token can be unwrapped once.
VaultUnwraps(c) ==
  /\ vpc[c] = "unwrap" /\ reply[c] = "none"
  /\ Answers(c, IF sealed THEN "yes" ELSE "no")
  /\ sealed' = FALSE
  /\ UNCHANGED leaseEnd

VaultLogsIn(c) ==
  /\ vpc[c] = "login" /\ reply[c] = "none"
  /\ Answers(c, "yes")
  /\ leaseEnd' = [leaseEnd EXCEPT ![c] = now + Lease]
  /\ UNCHANGED sealed

VaultServes(c) ==
  /\ vpc[c] = "kv" /\ reply[c] = "none"
  /\ Answers(c, IF Live(used[c]) THEN "yes" ELSE "no")
  /\ UNCHANGED server

\* The call or its answer is lost.
Lose(c) ==
  /\ "lost" \in vfaults /\ vpc[c] \in Waiting
  /\ Answers(c, "no")
  /\ UNCHANGED server

External(c) ==
  /\ VaultRenews(c) \/ VaultUnwraps(c) \/ VaultLogsIn(c) \/ VaultServes(c) \/ Lose(c)
  /\ UNCHANGED <<client, vpc, used, deadline, now, config>>

\* Time passes, but no call outlives its timeout.
Tick ==
  /\ now < Horizon
  /\ \A c \in Calls : vpc[c] \in Waiting => now < deadline[c]
  /\ now' = now + 1
  /\ UNCHANGED <<client, server, http, config>>

VNext ==
  \/ \E c \in Calls : GetToken(c) \/ Renewed(c) \/ Unwrapped(c) \/ LoggedIn(c) \/ Served(c)
                        \/ External(c)
  \/ Tick

VSpec == VInit /\ [][VNext]_vvars

-----------------------------------------------------------------------------
(* Properties.                                                             *)

\* No KV call reaches Vault with a token that has expired there: the safety
\* window makes up for the time answers take, also when renewals and logins
\* of several calls overtake each other.
TokenIsLive ==
  \A c \in Calls : vpc[c] = "kv" /\ reply[c] = "none" => Live(used[c])

\* While Vault answers every call, a KV call fails only for want of a secret
\* that an earlier login had to unwrap.
FailsOnlyUnwrapping ==
  \A c \in Calls : vfaults = {} /\ vpc[c] = "failed" => wrapped /\ ~sealed
=============================================================================
