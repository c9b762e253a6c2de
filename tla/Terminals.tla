------------------------------- MODULE Terminals -------------------------------
(***************************************************************************)
(* Terminals (terminal.service.ts) and their OAuth clients                 *)
(* (oauth.service.ts).  A terminal's document says whether it may be used, *)
(* its credential's document whether it gets tokens; every operation reads the *)
(* terminal, changes the client and then the terminal, without a condition *)
(* on either and without a way back.                                       *)
(*                                                                         *)
(* A terminal is named by the request that creates it.  A client is named  *)
(* by the request that makes it: a creation or a rotation.                 *)
(***************************************************************************)

CONSTANTS
  NewTerminals, \* POST /terminals requests
  Operations,   \* requests about a terminal, or to revoke a client
  Grants,       \* POST /oauth/token requests
  NoClient,
  TerminalFaults

ASSUME TerminalAssumption ==
  /\ NewTerminals \cap Operations = {}
  /\ Grants \cap (NewTerminals \cup Operations) = {}
  /\ NoClient \notin NewTerminals \cup Operations
  /\ TerminalFaults \subseteq SUBSET {"db", "crash"}

Callers == NewTerminals \cup Operations \cup Grants
Clients == NewTerminals \cup Operations

VARIABLES
  condition,  \* status of each terminal's document, or "none" without one
  credential, \* its oauthClientId
  clients,    \* the oauth_clients collection
  usable,     \* clients with isActive
  revoked,    \* clients with revokedAt
  opc,        \* where each request is
  oanswer,
  op,         \* what an operation does
  terminal,   \* to which terminal
  chosen,     \* the client an operation or a grant found
  crossed,    \* terminals with two operations under way at once, now or before
  ofaults     \* the failures of this behaviour; never changes

odocs == <<condition, credential, clients, usable, revoked>>
oreq == <<op, terminal, chosen, crossed>>
ovars == <<odocs, opc, oanswer, oreq, ofaults>>

Conditions == {"ACTIVE", "SUSPENDED", "REVOKED"}
Ops == {"suspend", "reactivate", "revoke", "rotate", "delete"}

OTypeOK ==
  /\ condition \in [NewTerminals -> Conditions \cup {"none"}]
  /\ credential \in [NewTerminals -> Clients \cup {NoClient}]
  /\ clients \in SUBSET Clients
  /\ usable \in SUBSET clients
  /\ revoked \in SUBSET clients
  /\ opc \in [Callers -> {"idle", "client", "change", "create", "terminal", "sign", "done"}]
  /\ oanswer \in [Callers -> {"none", "200", "201", "401", "404", "409", "500", "lost"}]
  /\ op \in [Operations -> Ops \cup {"none"}]
  /\ terminal \in [Operations -> NewTerminals \cup {NoClient}]
  /\ chosen \in [Operations \cup Grants -> Clients \cup {NoClient}]
  /\ crossed \in SUBSET NewTerminals
  /\ ofaults \in TerminalFaults

OInit ==
  /\ condition = [t \in NewTerminals |-> "none"]
  /\ credential = [t \in NewTerminals |-> NoClient]
  /\ clients = {} /\ usable = {} /\ revoked = {}
  /\ opc = [r \in Callers |-> "idle"]
  /\ oanswer = [r \in Callers |-> "none"]
  /\ op = [q \in Operations |-> "none"] /\ terminal = [q \in Operations |-> NoClient]
  /\ chosen = [r \in Operations \cup Grants |-> NoClient]
  /\ crossed = {}
  /\ ofaults \in TerminalFaults

OFails(service) == service \in ofaults
OGoto(r, l) == opc' = [opc EXCEPT ![r] = l] /\ UNCHANGED oanswer
OAnswer(r, a) == opc' = [opc EXCEPT ![r] = "done"] /\ oanswer' = [oanswer EXCEPT ![r] = a]

UnderWay(q) == opc[q] \notin {"idle", "done"}

-----------------------------------------------------------------------------
(* createTerminal.                                                         *)

InsertClient(k) == clients' = clients \cup {k} /\ usable' = usable \cup {k}

\* createClient.  A failure of what follows leaves an active client behind.
CreateFirstClient(t) ==
  /\ opc[t] = "idle"
  /\ \/ InsertClient(t) /\ OGoto(t, "terminal")
     \/ OFails("db") /\ OAnswer(t, "500") /\ (InsertClient(t) \/ UNCHANGED <<clients, usable>>)
  /\ UNCHANGED <<condition, credential, revoked, oreq, ofaults>>

StoreTerminal(t) ==
  /\ condition' = [condition EXCEPT ![t] = "ACTIVE"]
  /\ credential' = [credential EXCEPT ![t] = t]

CreateTerminal(t) ==
  /\ t \in NewTerminals /\ opc[t] = "terminal"
  /\ \/ StoreTerminal(t) /\ OAnswer(t, "201")
     \/ OFails("db") /\ OAnswer(t, "500") /\ (StoreTerminal(t) \/ UNCHANGED <<condition, credential>>)
  /\ UNCHANGED <<clients, usable, revoked, oreq, ofaults>>

-----------------------------------------------------------------------------
(* The operations up to their look at the terminal.  Those of a merchant   *)
(* find its own terminals only.                                            *)

Starts(q, o, t, k) ==
  /\ op' = [op EXCEPT ![q] = o] /\ terminal' = [terminal EXCEPT ![q] = t]
  /\ chosen' = [chosen EXCEPT ![q] = k]
  /\ crossed' = IF \E r \in Operations \ {q} : terminal[r] = t /\ UnderWay(r)
                THEN crossed \cup {t} ELSE crossed
  /\ OGoto(q, "client")

\* Reads the terminal, and goes on from the given states.
Resolve(q, o, states) ==
  /\ opc[q] = "idle"
  /\ \/ \E t \in NewTerminals : condition[t] \in states /\ Starts(q, o, t, credential[t])
     \/ \E t \in NewTerminals :
          /\ condition[t] \notin states
          /\ OAnswer(q, IF condition[t] = "none" THEN "404" ELSE "409") /\ UNCHANGED oreq
     \/ OFails("db") /\ OAnswer(q, "500") /\ UNCHANGED oreq
  /\ UNCHANGED <<odocs, ofaults>>

SuspendTerminal(q) == Resolve(q, "suspend", {"ACTIVE"})
AdminSuspendTerminal(q) == Resolve(q, "suspend", {"ACTIVE"})
\* Mutant: a terminal that was not found goes through.
ReactivateMissing(q) == Resolve(q, "reactivate", {"SUSPENDED", "none"})
ReactivateTerminal(q) == Resolve(q, "reactivate", {"SUSPENDED"})
RevokeTerminal(q) == Resolve(q, "revoke", {"ACTIVE", "SUSPENDED"})
AdminRevokeTerminal(q) == Resolve(q, "revoke", {"ACTIVE", "SUSPENDED"})
\* rotateCredentials also lists the clients, for the scopes.
RotateCredentials(q) == Resolve(q, "rotate", {"ACTIVE"})

\* The clients made for a terminal.
ClientsOf(t) ==
  {k \in clients : IF k \in Operations THEN terminal[k] = t ELSE k = t}

\* DELETE /oauth/clients/:id names a client, and no terminal is looked at.
DeleteClient(q) ==
  /\ opc[q] = "idle"
  /\ \E t \in NewTerminals : \E k \in ClientsOf(t) : Starts(q, "delete", t, k)
  /\ UNCHANGED <<odocs, ofaults>>

-----------------------------------------------------------------------------
(* What they do to the client, in oauth.service.ts: find it, change it. A   *)
(* merchant may name a client that is not its own.                         *)

Suspends(q) == op[q] = "suspend"
Revokes(q) == op[q] \in {"revoke", "rotate", "delete"}

\* findByClientId in deactivateClient and revokeClient.  Clients stay in the
\* collection for good, so it is found.
FindClient(q) ==
  /\ opc[q] = "client" /\ (Suspends(q) \/ Revokes(q))
  /\ \/ OGoto(q, "change")
     \/ op[q] = "delete" /\ OAnswer(q, "401")
     \/ OFails("db") /\ OAnswer(q, "500")
  /\ UNCHANGED <<odocs, oreq, ofaults>>

\* findByClientId in reactivateClient, which refuses a revoked client.
FindRevocable(q) ==
  /\ opc[q] = "client" /\ op[q] = "reactivate"
  /\ \/ chosen[q] \notin revoked /\ OGoto(q, "change")
     \/ (chosen[q] \in revoked \/ OFails("db")) /\ OAnswer(q, "500")
  /\ UNCHANGED <<odocs, oreq, ofaults>>

After(q) == IF op[q] = "rotate" THEN "create" ELSE "terminal"

Deactivated(q) == usable' = usable \ {chosen[q]} /\ UNCHANGED revoked
Deactivate(q) ==
  /\ opc[q] = "change" /\ Suspends(q)
  /\ \/ Deactivated(q) /\ OGoto(q, "terminal")
     \/ OFails("db") /\ OAnswer(q, "500") /\ (Deactivated(q) \/ UNCHANGED <<usable, revoked>>)
  /\ UNCHANGED <<condition, credential, clients, oreq, ofaults>>

Reactivated(q) == usable' = usable \cup {chosen[q]} /\ UNCHANGED revoked
Reactivate(q) ==
  /\ opc[q] = "change" /\ op[q] = "reactivate"
  /\ \/ Reactivated(q) /\ OGoto(q, "terminal")
     \/ OFails("db") /\ OAnswer(q, "500") /\ (Reactivated(q) \/ UNCHANGED <<usable, revoked>>)
  /\ UNCHANGED <<condition, credential, clients, oreq, ofaults>>

\* Mutant: revokedAt is set, and isActive stays.
RevokedActive(q) == revoked' = revoked \cup {chosen[q]} /\ UNCHANGED usable
Revoked(q) == usable' = usable \ {chosen[q]} /\ revoked' = revoked \cup {chosen[q]}
Revoke(q) ==
  /\ opc[q] = "change" /\ Revokes(q)
  /\ \/ Revoked(q) /\ (IF op[q] = "delete" THEN OAnswer(q, "200") ELSE OGoto(q, After(q)))
     \/ OFails("db") /\ OAnswer(q, "500") /\ (Revoked(q) \/ UNCHANGED <<usable, revoked>>)
  /\ UNCHANGED <<condition, credential, clients, oreq, ofaults>>

\* createClient, in rotateCredentials.
CreateNextClient(q) ==
  /\ opc[q] = "create"
  /\ \/ InsertClient(q) /\ OGoto(q, "terminal")
     \/ OFails("db") /\ OAnswer(q, "500") /\ (InsertClient(q) \/ UNCHANGED <<clients, usable>>)
  /\ UNCHANGED <<condition, credential, revoked, oreq, ofaults>>

-----------------------------------------------------------------------------
(* What they do to the terminal last, whatever state it has by now.        *)

Set(q) ==
  IF op[q] = "rotate"
  THEN credential' = [credential EXCEPT ![terminal[q]] = q] /\ UNCHANGED condition
  ELSE /\ condition' = [condition EXCEPT ![terminal[q]] =
                          IF Suspends(q) THEN "SUSPENDED"
                          ELSE IF op[q] = "reactivate" THEN "ACTIVE" ELSE "REVOKED"]
       /\ UNCHANGED credential

UpdateTerminal(q) ==
  /\ q \in Operations /\ opc[q] = "terminal"
  /\ \/ Set(q) /\ OAnswer(q, "200")
     \/ OFails("db") /\ OAnswer(q, "500") /\ (Set(q) \/ UNCHANGED <<condition, credential>>)
  /\ UNCHANGED <<clients, usable, revoked, oreq, ofaults>>

-----------------------------------------------------------------------------
(* issueToken: what it read of the client holds while the secret is        *)
(* verified and the token signed.                                          *)

\* Mutant: isActive is not looked at.
MayAlwaysGet(k) == k \in clients
MayGet(k) == k \in usable

GrantFind(g) ==
  /\ g \in Grants /\ opc[g] = "idle"
  /\ \/ \E k \in clients :
          /\ chosen' = [chosen EXCEPT ![g] = k]
          /\ MayGet(k) /\ OGoto(g, "sign")
     \/ OAnswer(g, "401") /\ UNCHANGED chosen
     \/ OFails("db") /\ OAnswer(g, "500") /\ UNCHANGED chosen
  /\ UNCHANGED <<odocs, op, terminal, crossed, ofaults>>

GrantSign(g) ==
  /\ opc[g] = "sign"
  /\ OAnswer(g, "200") \/ OAnswer(g, "401")
  /\ UNCHANGED <<odocs, oreq, ofaults>>

\* The process stops.
OCrash ==
  /\ OFails("crash")
  /\ opc' = [r \in Callers |-> IF UnderWay(r) THEN "done" ELSE opc[r]]
  /\ oanswer' = [r \in Callers |-> IF UnderWay(r) THEN "lost" ELSE oanswer[r]]
  /\ UNCHANGED <<odocs, oreq, ofaults>>

ONext ==
  \/ \E t \in NewTerminals : CreateFirstClient(t) \/ CreateTerminal(t)
  \/ \E q \in Operations :
       \/ SuspendTerminal(q) \/ AdminSuspendTerminal(q) \/ ReactivateTerminal(q)
       \/ RevokeTerminal(q) \/ AdminRevokeTerminal(q) \/ RotateCredentials(q) \/ DeleteClient(q)
       \/ FindClient(q) \/ FindRevocable(q)
       \/ Deactivate(q) \/ Reactivate(q) \/ Revoke(q) \/ CreateNextClient(q)
       \/ UpdateTerminal(q)
  \/ \E g \in Grants : GrantFind(g) \/ GrantSign(g)
  \/ OCrash

OSpec == OInit /\ [][ONext]_ovars

-----------------------------------------------------------------------------
(* Properties.                                                             *)

Silent(k) ==
  /\ k \in revoked \ usable
  /\ \A q \in Operations : ~(op[q] = "reactivate" /\ opc[q] = "change" /\ chosen[q] = k)
  /\ \A g \in Grants : ~(opc[g] = "sign" /\ chosen[g] = k)

\* Once a client is revoked, and no reactivation or token that had looked at it
\* before is under way, it is never active again and gets no token.
RevokedForever ==
  [][\A k \in Clients : Silent(k) =>
       Silent(k)' /\ \A g \in Grants : chosen'[g] = k => oanswer'[g] = oanswer[g]]_ovars

\* A terminal at rest whose operations never overlapped, with no failure, has an
\* active client if it is ACTIVE (unless that one was deleted by name) and else
\* has none, of all the clients it ever had; and when it is REVOKED they all are.
ClientFollowsTerminal ==
  \A t \in NewTerminals :
    ofaults = {} /\ t \notin crossed
    /\ (\A q \in Operations : terminal[q] = t => ~UnderWay(q)) =>
      /\ condition[t] = "ACTIVE" => credential[t] \in usable \cup revoked
                                    /\ ClientsOf(t) \ revoked \subseteq {credential[t]}
      /\ condition[t] = "SUSPENDED" => ClientsOf(t) \cap usable = {}
      /\ condition[t] = "REVOKED" => ClientsOf(t) \subseteq revoked \ usable
=============================================================================
