------------------------ MODULE AdministrationProofs ------------------------
(***************************************************************************)
(* What is proved of Terminals for any number of terminals, operations and *)
(* token requests, and of Menu for any number of modules, changes,         *)
(* reorders and readers; under every combination of failures.              *)
(***************************************************************************)
EXTENDS Terminals, Menu, FiniteSetTheorems, SequenceTheorems, TLAPS

-----------------------------------------------------------------------------
(* Terminals.                                                              *)

OperationPlaces == {"idle", "client", "change", "create", "terminal", "done"}

\* A client is made once, and what an operation or a grant goes on with is a client.
RequestsPlaced ==
  /\ \A t \in NewTerminals :
       /\ opc[t] \in {"idle", "terminal", "done"}
       /\ opc[t] = "idle" => t \notin clients
       /\ opc[t] = "terminal" => t \in clients
       /\ opc[t] # "done" => condition[t] = "none"
       /\ condition[t] # "none" => credential[t] \in ClientsOf(t)
  /\ \A q \in Operations :
       /\ opc[q] \in OperationPlaces
       /\ opc[q] \in {"idle", "client", "change", "create"} => q \notin clients
       /\ UnderWay(q) => op[q] \in Ops /\ terminal[q] \in NewTerminals /\ chosen[q] \in ClientsOf(terminal[q])
       /\ UnderWay(q) /\ op[q] # "delete" => condition[terminal[q]] # "none"
       /\ opc[q] = "create" => op[q] = "rotate"
       /\ opc[q] = "terminal" => op[q] # "delete" /\ (op[q] = "rotate" => q \in clients)
  /\ \A g \in Grants :
       /\ opc[g] \in {"idle", "sign", "done"}
       /\ opc[g] = "idle" => chosen[g] = NoClient
       /\ opc[g] = "sign" => chosen[g] \in clients

Apart(t) == ofaults = {} /\ t \notin crossed
About(q, t) == terminal[q] = t /\ UnderWay(q)

\* The clients of a terminal whose operations never overlapped: all but the one its
\* document names, and the one that a rotation is about to put there, are revoked.
ClientsOrdered(t) ==
  /\ ClientsOf(t) \cap usable \cap revoked = {}
  /\ \A k \in ClientsOf(t) \ revoked :
       \/ k = credential[t] \/ (k = t /\ condition[t] = "none")
       \/ k \in Operations /\ opc[k] = "terminal" /\ op[k] = "rotate"
  /\ condition[t] = "none" => ClientsOf(t) \subseteq {t} /\ (opc[t] = "terminal" => t \in usable \cup revoked)
  /\ condition[t] = "ACTIVE" => \/ credential[t] \in usable \cup revoked
                                \/ \E q \in Operations : About(q, t) /\ opc[q] = "terminal" /\ op[q] = "suspend"
  /\ condition[t] = "SUSPENDED" => \/ ClientsOf(t) \cap usable = {}
                                   \/ \E q \in Operations : About(q, t) /\ opc[q] = "terminal" /\ op[q] = "reactivate"
  /\ condition[t] = "REVOKED" => ClientsOf(t) \subseteq revoked \ usable

\* The one operation under way for it found it as it is, and has done to the client what
\* it is about to do to the terminal.
OperationFits(q, t) ==
  /\ op[q] \in {"suspend", "rotate"} => condition[t] = "ACTIVE"
  /\ op[q] = "reactivate" => condition[t] = "SUSPENDED"
  /\ op[q] = "revoke" => condition[t] \in {"ACTIVE", "SUSPENDED"}
  /\ op[q] # "delete" => chosen[q] = credential[t]
  /\ op[q] = "reactivate" /\ opc[q] = "change" => credential[t] \notin revoked
  /\ opc[q] = "terminal" =>
       /\ op[q] = "suspend" => credential[t] \notin usable
       /\ op[q] = "reactivate" => credential[t] \in usable
       /\ op[q] = "rotate" => q \in usable
  /\ op[q] \in {"revoke", "rotate"} /\ opc[q] \in {"create", "terminal"} => credential[t] \in revoked

TerminalsOrdered ==
  \A t \in NewTerminals : Apart(t) =>
    /\ ClientsOrdered(t)
    /\ \A q \in Operations : About(q, t) => OperationFits(q, t)
    /\ \A q, r \in Operations : About(q, t) /\ About(r, t) => q = r

OInv == OTypeOK /\ RequestsPlaced /\ TerminalsOrdered

LEMMA OInvHolds == OInit => OInv
<1> SUFFICES ASSUME OInit PROVE OInv
  OBVIOUS
<1> USE TerminalAssumption DEF OInit
<1>1. OTypeOK
  BY DEF OTypeOK, Conditions, Callers, Clients
<1>2. RequestsPlaced
  BY DEF RequestsPlaced, OperationPlaces, UnderWay, Callers
<1>3. TerminalsOrdered
  BY DEF TerminalsOrdered, ClientsOrdered, About, UnderWay, ClientsOf, Callers
<1> QED
  BY <1>1, <1>2, <1>3 DEF OInv

\* The look of an operation at its terminal.
LEMMA ResolveKeeps ==
  ASSUME OInv, NEW q \in Operations, NEW o \in Ops \ {"delete"}, NEW states,
         Resolve(q, o, states), "none" \notin states,
         o \in {"suspend", "rotate"} => states = {"ACTIVE"},
         o = "reactivate" => states = {"SUSPENDED"},
         o = "revoke" => states = {"ACTIVE", "SUSPENDED"}
  PROVE  OInv'
<1> USE TerminalAssumption DEF OGoto, OAnswer, odocs, oreq, Callers, Clients, Resolve, Starts
<1>1. OTypeOK'
  BY DEF OInv, OTypeOK, RequestsPlaced, ClientsOf
<1>2. RequestsPlaced'
  BY DEF OInv, OTypeOK, RequestsPlaced, OperationPlaces, UnderWay, ClientsOf
<1>3. TerminalsOrdered'
  BY SMTT(30) DEF OInv, OTypeOK, RequestsPlaced, TerminalsOrdered, Apart, About, UnderWay, ClientsOf, ClientsOrdered, OperationFits
<1> QED
  BY <1>1, <1>2, <1>3 DEF OInv

LEMMA OInvKept == OInv /\ [ONext]_ovars => OInv'
<1> SUFFICES ASSUME OInv, [ONext]_ovars PROVE OInv'
  OBVIOUS
<1> USE TerminalAssumption DEF OFails, OGoto, OAnswer, odocs, oreq, Callers, Clients
<1>1. ASSUME NEW t \in NewTerminals, CreateFirstClient(t) PROVE OInv'
  <2>1. OTypeOK'
    BY <1>1 DEF CreateFirstClient, InsertClient, OInv, OTypeOK, RequestsPlaced, UnderWay, ClientsOf
  <2>2. RequestsPlaced'
    BY <1>1 DEF CreateFirstClient, InsertClient, OInv, OTypeOK, RequestsPlaced, OperationPlaces, UnderWay, ClientsOf
  <2>3. TerminalsOrdered'
    BY <1>1, SMTT(30) DEF CreateFirstClient, InsertClient, OInv, OTypeOK, RequestsPlaced, TerminalsOrdered, Apart, About, UnderWay, ClientsOf, ClientsOrdered, OperationFits
  <2> QED
    BY <2>1, <2>2, <2>3 DEF OInv
<1>2. ASSUME NEW t \in NewTerminals, CreateTerminal(t) PROVE OInv'
  <2>1. OTypeOK'
    <3>1. condition' \in [NewTerminals -> Conditions \cup {"none"}] /\ credential' \in [NewTerminals -> Clients \cup {NoClient}]
      BY <1>2 DEF CreateTerminal, StoreTerminal, OInv, OTypeOK, Conditions
    <3>2. opc' \in [Callers -> {"idle", "client", "change", "create", "terminal", "sign", "done"}]
          /\ oanswer' \in [Callers -> {"none", "200", "201", "401", "404", "409", "500", "lost"}]
      BY <1>2 DEF CreateTerminal, OInv, OTypeOK
    <3> QED
      BY <1>2, <3>1, <3>2 DEF CreateTerminal, OInv, OTypeOK
  <2>2. RequestsPlaced'
    BY <1>2 DEF CreateTerminal, StoreTerminal, OInv, OTypeOK, RequestsPlaced, OperationPlaces, UnderWay, ClientsOf
  <2>3. TerminalsOrdered'
    BY <1>2, SMTT(30) DEF CreateTerminal, StoreTerminal, OInv, OTypeOK, RequestsPlaced, TerminalsOrdered, Apart, About, UnderWay, ClientsOf, ClientsOrdered, OperationFits
  <2> QED
    BY <2>1, <2>2, <2>3 DEF OInv
<1>3. ASSUME NEW q \in Operations, SuspendTerminal(q) PROVE OInv'
  BY <1>3, ResolveKeeps DEF SuspendTerminal, Ops
<1>4. ASSUME NEW q \in Operations, AdminSuspendTerminal(q) PROVE OInv'
  BY <1>4, ResolveKeeps DEF AdminSuspendTerminal, Ops
<1>5. ASSUME NEW q \in Operations, ReactivateTerminal(q) PROVE OInv'
  BY <1>5, ResolveKeeps DEF ReactivateTerminal, Ops
<1>6. ASSUME NEW q \in Operations, RevokeTerminal(q) PROVE OInv'
  BY <1>6, ResolveKeeps DEF RevokeTerminal, Ops
<1>7. ASSUME NEW q \in Operations, AdminRevokeTerminal(q) PROVE OInv'
  BY <1>7, ResolveKeeps DEF AdminRevokeTerminal, Ops
<1>8. ASSUME NEW q \in Operations, RotateCredentials(q) PROVE OInv'
  BY <1>8, ResolveKeeps DEF RotateCredentials, Ops
<1>9. ASSUME NEW q \in Operations, DeleteClient(q) PROVE OInv'
  <2>1. PICK t \in NewTerminals : \E k \in ClientsOf(t) : Starts(q, "delete", t, k)
    BY <1>9 DEF DeleteClient
  <2>2. PICK k \in ClientsOf(t) : Starts(q, "delete", t, k)
    BY <2>1
  <2>3. opc[q] = "idle" /\ UNCHANGED <<odocs, ofaults>> /\ k \in clients
    BY <1>9 DEF DeleteClient, ClientsOf
  <2>4. OTypeOK'
    BY <2>2, <2>3 DEF Starts, OInv, OTypeOK, Ops
  <2>5. RequestsPlaced'
    BY <2>2, <2>3, <2>4 DEF Starts, OInv, OTypeOK, RequestsPlaced, OperationPlaces, UnderWay, ClientsOf, Ops
  <2>6. TerminalsOrdered'
    BY <2>2, <2>3, SMTT(30) DEF Starts, OInv, OTypeOK, RequestsPlaced, TerminalsOrdered, Apart, About,
                               UnderWay, ClientsOf, ClientsOrdered, OperationFits
  <2> QED
    BY <2>4, <2>5, <2>6 DEF OInv
<1>10. ASSUME NEW q \in Operations, FindClient(q) PROVE OInv'
  <2>1. OTypeOK'
    BY <1>10 DEF FindClient, Suspends, Revokes, OInv, OTypeOK, RequestsPlaced, UnderWay, ClientsOf
  <2>2. RequestsPlaced'
    BY <1>10 DEF FindClient, Suspends, Revokes, OInv, OTypeOK, RequestsPlaced, OperationPlaces, UnderWay, ClientsOf
  <2>3. TerminalsOrdered'
    BY <1>10, SMTT(30) DEF FindClient, Suspends, Revokes, OInv, OTypeOK, RequestsPlaced, TerminalsOrdered, Apart, About, UnderWay, ClientsOf, ClientsOrdered, OperationFits
  <2> QED
    BY <2>1, <2>2, <2>3 DEF OInv
<1>11. ASSUME NEW q \in Operations, FindRevocable(q) PROVE OInv'
  <2>1. OTypeOK'
    BY <1>11 DEF FindRevocable, OInv, OTypeOK, RequestsPlaced, UnderWay, ClientsOf
  <2>2. RequestsPlaced'
    BY <1>11 DEF FindRevocable, OInv, OTypeOK, RequestsPlaced, OperationPlaces, UnderWay, ClientsOf
  <2>3. TerminalsOrdered'
    BY <1>11, SMTT(30) DEF FindRevocable, OInv, OTypeOK, RequestsPlaced, TerminalsOrdered, Apart, About, UnderWay, ClientsOf, ClientsOrdered, OperationFits
  <2> QED
    BY <2>1, <2>2, <2>3 DEF OInv
<1>12. ASSUME NEW q \in Operations, Deactivate(q) PROVE OInv'
  <2>1. OTypeOK'
    BY <1>12 DEF Deactivate, Deactivated, After, Suspends, OInv, OTypeOK, RequestsPlaced, UnderWay, ClientsOf
  <2>2. RequestsPlaced'
    BY <1>12 DEF Deactivate, Deactivated, After, Suspends, OInv, OTypeOK, RequestsPlaced, OperationPlaces, UnderWay, ClientsOf
  <2>3. TerminalsOrdered'
    BY <1>12, SMTT(30) DEF Deactivate, Deactivated, After, Suspends, OInv, OTypeOK, RequestsPlaced, TerminalsOrdered, Apart, About, UnderWay, ClientsOf, ClientsOrdered, OperationFits
  <2> QED
    BY <2>1, <2>2, <2>3 DEF OInv
<1>13. ASSUME NEW q \in Operations, Reactivate(q) PROVE OInv'
  <2>1. OTypeOK'
    BY <1>13 DEF Reactivate, Reactivated, OInv, OTypeOK, RequestsPlaced, UnderWay, ClientsOf
  <2>2. RequestsPlaced'
    BY <1>13 DEF Reactivate, Reactivated, OInv, OTypeOK, RequestsPlaced, OperationPlaces, UnderWay, ClientsOf
  <2>3. TerminalsOrdered'
    BY <1>13, SMTT(30) DEF Reactivate, Reactivated, OInv, OTypeOK, RequestsPlaced, TerminalsOrdered, Apart, About, UnderWay, ClientsOf, ClientsOrdered, OperationFits
  <2> QED
    BY <2>1, <2>2, <2>3 DEF OInv
<1>14. ASSUME NEW q \in Operations, Revoke(q) PROVE OInv'
  <2>1. OTypeOK'
    BY <1>14 DEF Revoke, Revoked, After, Revokes, OInv, OTypeOK, RequestsPlaced, UnderWay, ClientsOf
  <2>2. RequestsPlaced'
    BY <1>14 DEF Revoke, Revoked, After, Revokes, OInv, OTypeOK, RequestsPlaced, OperationPlaces, UnderWay, ClientsOf
  <2>3. TerminalsOrdered'
    BY <1>14, SMTT(30) DEF Revoke, Revoked, After, Revokes, OInv, OTypeOK, RequestsPlaced, TerminalsOrdered, Apart, About, UnderWay, ClientsOf, ClientsOrdered, OperationFits
  <2> QED
    BY <2>1, <2>2, <2>3 DEF OInv
<1>15. ASSUME NEW q \in Operations, CreateNextClient(q) PROVE OInv'
  <2>1. OTypeOK'
    BY <1>15 DEF CreateNextClient, InsertClient, OInv, OTypeOK, RequestsPlaced, UnderWay, ClientsOf
  <2>2. RequestsPlaced'
    BY <1>15 DEF CreateNextClient, InsertClient, OInv, OTypeOK, RequestsPlaced, OperationPlaces, UnderWay, ClientsOf
  <2>3. TerminalsOrdered'
    BY <1>15, SMTT(30) DEF CreateNextClient, InsertClient, OInv, OTypeOK, RequestsPlaced, TerminalsOrdered, Apart, About, UnderWay, ClientsOf, ClientsOrdered, OperationFits
  <2> QED
    BY <2>1, <2>2, <2>3 DEF OInv
<1>16. ASSUME NEW q \in Operations, UpdateTerminal(q) PROVE OInv'
  <2>1. OTypeOK'
    <3>1. condition' \in [NewTerminals -> Conditions \cup {"none"}]
      BY <1>16 DEF UpdateTerminal, Set, Suspends, OInv, OTypeOK, Conditions
    <3>2. credential' \in [NewTerminals -> Clients \cup {NoClient}]
      BY <1>16 DEF UpdateTerminal, Set, OInv, OTypeOK
    <3>3. opc' \in [Callers -> {"idle", "client", "change", "create", "terminal", "sign", "done"}]
          /\ oanswer' \in [Callers -> {"none", "200", "201", "401", "404", "409", "500", "lost"}]
      BY <1>16 DEF UpdateTerminal, OInv, OTypeOK
    <3> QED
      BY <1>16, <3>1, <3>2, <3>3 DEF UpdateTerminal, OInv, OTypeOK
  <2>2. RequestsPlaced'
    BY <1>16 DEF UpdateTerminal, Set, Suspends, OInv, OTypeOK, RequestsPlaced, OperationPlaces, UnderWay, ClientsOf
  <2>3. TerminalsOrdered'
    <3> DEFINE t == terminal[q]
    <3> SUFFICES ASSUME NEW b \in NewTerminals, Apart(b)'
                 PROVE  /\ ClientsOrdered(b)'
                        /\ \A r \in Operations : About(r, b)' => OperationFits(r, b)'
                        /\ \A r, x \in Operations : About(r, b)' /\ About(x, b)' => r = x
      BY DEF TerminalsOrdered
    <3>1. /\ opc[q] = "terminal" /\ opc' = [opc EXCEPT ![q] = "done"] /\ Set(q)
          /\ UNCHANGED <<clients, usable, revoked, op, terminal, chosen, crossed, ofaults>>
      BY <1>16 DEF UpdateTerminal, Apart
    <3>2. /\ t \in NewTerminals /\ Apart(b) /\ op[q] \in {"suspend", "reactivate", "revoke", "rotate"}
          /\ condition[t] # "none" /\ About(q, t)
      BY <3>1 DEF OInv, RequestsPlaced, About, UnderWay, Apart, Ops
    <3>3. \A r \in Operations : About(r, b)' => About(r, b) /\ r # q
      BY <3>1, <3>2 DEF About, UnderWay, OInv, OTypeOK
    <3>4. ClientsOf(b)' = ClientsOf(b)
      BY <3>1 DEF ClientsOf
    <3>5. CASE b # t
      <4>1. condition'[b] = condition[b] /\ credential'[b] = credential[b] /\ opc'[b] = opc[b]
        BY <3>1, <3>5 DEF Set, OInv, OTypeOK
      <4>2. \A r \in Operations : opc'[r] # opc[r] => r = q /\ ~About(r, b) /\ r \notin ClientsOf(b)
        BY <3>1, <3>5 DEF About, ClientsOf, OInv, OTypeOK
      <4> QED
        BY <3>1, <3>2, <3>3, <3>4, <4>1, <4>2
        DEF OInv, TerminalsOrdered, ClientsOrdered, OperationFits, About, UnderWay
    <3>6. CASE b = t
      <4>1. \A r \in Operations : ~About(r, b)'
        BY <3>2, <3>3, <3>6 DEF OInv, TerminalsOrdered
      <4>2. ClientsOrdered(t) /\ OperationFits(q, t)
        BY <3>2, <3>6 DEF OInv, TerminalsOrdered
      <4>3. \A k \in ClientsOf(t) \ revoked :
              k = IF op[q] = "rotate" THEN q ELSE credential[t]
        <5>1. \A k \in ClientsOf(t) \ revoked :
                k = credential[t] \/ (k \in Operations /\ opc[k] = "terminal" /\ op[k] = "rotate" /\ terminal[k] = t)
          BY <3>2, <4>2 DEF ClientsOrdered, ClientsOf
        <5>2. \A k \in Operations : opc[k] = "terminal" /\ terminal[k] = t => k = q
          BY <3>2, <3>6 DEF OInv, TerminalsOrdered, About, UnderWay
        <5>3. op[q] = "rotate" => credential[t] \in revoked
          BY <3>1, <4>2 DEF OperationFits
        <5> QED
          BY <5>1, <5>2, <5>3
      <4>4. ClientsOrdered(b)'
        <5>1. CASE op[q] = "suspend"
          BY <3>1, <3>2, <3>4, <3>6, <4>2, <4>3, <5>1 DEF Set, Suspends, ClientsOrdered, OperationFits, OInv, OTypeOK
        <5>2. CASE op[q] = "reactivate"
          BY <3>1, <3>2, <3>4, <3>6, <4>2, <4>3, <5>2 DEF Set, Suspends, ClientsOrdered, OperationFits, OInv, OTypeOK
        <5>3. CASE op[q] = "revoke"
          BY <3>1, <3>2, <3>4, <3>6, <4>2, <4>3, <5>3 DEF Set, Suspends, ClientsOrdered, OperationFits, OInv, OTypeOK
        <5>4. CASE op[q] = "rotate"
          BY <3>1, <3>2, <3>4, <3>6, <4>2, <4>3, <5>4 DEF Set, Suspends, ClientsOrdered, OperationFits, OInv, OTypeOK
        <5> QED
          BY <3>2, <5>1, <5>2, <5>3, <5>4
      <4> QED
        BY <3>6, <4>1, <4>4
    <3> QED
      BY <3>5, <3>6
  <2> QED
    BY <2>1, <2>2, <2>3 DEF OInv
<1>17. ASSUME NEW g \in Grants, GrantFind(g) PROVE OInv'
  <2>1. OTypeOK'
    BY <1>17 DEF GrantFind, MayGet, OInv, OTypeOK, RequestsPlaced, UnderWay, ClientsOf
  <2>2. RequestsPlaced'
    BY <1>17 DEF GrantFind, MayGet, OInv, OTypeOK, RequestsPlaced, OperationPlaces, UnderWay, ClientsOf
  <2>3. TerminalsOrdered'
    BY <1>17, SMTT(30) DEF GrantFind, MayGet, OInv, OTypeOK, RequestsPlaced, TerminalsOrdered, Apart, About, UnderWay, ClientsOf, ClientsOrdered, OperationFits
  <2> QED
    BY <2>1, <2>2, <2>3 DEF OInv
<1>18. ASSUME NEW g \in Grants, GrantSign(g) PROVE OInv'
  <2>1. OTypeOK'
    BY <1>18 DEF GrantSign, OInv, OTypeOK, RequestsPlaced, UnderWay, ClientsOf
  <2>2. RequestsPlaced'
    BY <1>18 DEF GrantSign, OInv, OTypeOK, RequestsPlaced, OperationPlaces, UnderWay, ClientsOf
  <2>3. TerminalsOrdered'
    BY <1>18, SMTT(30) DEF GrantSign, OInv, OTypeOK, RequestsPlaced, TerminalsOrdered, Apart, About, UnderWay, ClientsOf, ClientsOrdered, OperationFits
  <2> QED
    BY <2>1, <2>2, <2>3 DEF OInv
<1>19. ASSUME OCrash PROVE OInv'
  <2>1. OTypeOK'
    BY <1>19 DEF OCrash, OInv, OTypeOK, RequestsPlaced, UnderWay, ClientsOf
  <2>2. RequestsPlaced'
    BY <1>19 DEF OCrash, OInv, OTypeOK, RequestsPlaced, OperationPlaces, UnderWay, ClientsOf
  <2>3. TerminalsOrdered'
    BY <1>19, SMTT(30) DEF OCrash, OInv, OTypeOK, RequestsPlaced, TerminalsOrdered, Apart, About, UnderWay, ClientsOf, ClientsOrdered, OperationFits
  <2> QED
    BY <2>1, <2>2, <2>3 DEF OInv
<1>20. ASSUME UNCHANGED ovars PROVE OInv'
  <2>1. OTypeOK'
    BY <1>20 DEF ovars, OInv, OTypeOK, RequestsPlaced, UnderWay, ClientsOf
  <2>2. RequestsPlaced'
    BY <1>20 DEF ovars, OInv, OTypeOK, RequestsPlaced, OperationPlaces, UnderWay, ClientsOf
  <2>3. TerminalsOrdered'
    BY <1>20, SMTT(30) DEF ovars, OInv, OTypeOK, RequestsPlaced, TerminalsOrdered, Apart, About, UnderWay, ClientsOf, ClientsOrdered, OperationFits
  <2> QED
    BY <2>1, <2>2, <2>3 DEF OInv
<1> QED
  BY <1>1, <1>2, <1>3, <1>4, <1>5, <1>6, <1>7, <1>8, <1>9, <1>10, <1>11, <1>12, <1>13, <1>14, <1>15, <1>16, <1>17, <1>18, <1>19, <1>20 DEF ONext

LEMMA OInvAlways == OSpec => []OInv
  BY OInvHolds, OInvKept, PTL DEF OSpec

\* Every variable keeps its type.
THEOREM TerminalsTypeCorrect == OSpec => []OTypeOK
<1>1. OInv => OTypeOK
  BY DEF OInv
<1> QED
  BY <1>1, OInvAlways, PTL

\* A terminal whose operations did not overlap and none of whose steps failed has an active
\* client when its document says ACTIVE, and none when it says SUSPENDED or REVOKED.
THEOREM ClientsFollowTerminals == OSpec => []ClientFollowsTerminal
<1>1. OInv => ClientFollowsTerminal
  <2> SUFFICES ASSUME OInv, NEW t \in NewTerminals, ofaults = {}, t \notin crossed,
                      \A q \in Operations : terminal[q] = t => ~UnderWay(q)
               PROVE  /\ condition[t] = "ACTIVE" => credential[t] \in usable \cup revoked
                                                     /\ ClientsOf(t) \ revoked \subseteq {credential[t]}
                      /\ condition[t] = "SUSPENDED" => ClientsOf(t) \cap usable = {}
                      /\ condition[t] = "REVOKED" => ClientsOf(t) \subseteq revoked \ usable
    BY DEF ClientFollowsTerminal
  <2>1. ClientsOrdered(t)
    BY DEF OInv, TerminalsOrdered, Apart
  <2>2. \A k \in ClientsOf(t) : k \in Operations => opc[k] # "terminal"
    BY DEF ClientsOf, UnderWay
  <2> QED
    BY <2>1, <2>2 DEF ClientsOrdered, About
<1> QED
  BY <1>1, OInvAlways, PTL

\* Once no reactivation and no token request that had looked at it before is under way, a
\* revoked client stays revoked, inactive and without tokens.
THEOREM RevokedStaysRevoked == OSpec => RevokedForever
<1> USE TerminalAssumption DEF OFails, OGoto, OAnswer, odocs, oreq, Callers, Clients
<1>1. ASSUME OInv, [ONext]_ovars, NEW k \in Clients, Silent(k)
      PROVE  Silent(k)' /\ \A g \in Grants : chosen'[g] = k => oanswer'[g] = oanswer[g]
  <2>1. k \in clients
    BY <1>1 DEF Silent, OInv, OTypeOK
  <2>2. ASSUME NEW t \in NewTerminals, CreateFirstClient(t) \/ CreateTerminal(t)
        PROVE  Silent(k)' /\ \A g \in Grants : chosen'[g] = k => oanswer'[g] = oanswer[g]
    BY <1>1, <2>1, <2>2 DEF CreateFirstClient, CreateTerminal, InsertClient, Silent, OInv, OTypeOK, RequestsPlaced
  <2>3. ASSUME NEW q \in Operations, NEW o \in Ops, NEW states, Resolve(q, o, states)
        PROVE  Silent(k)' /\ \A g \in Grants : chosen'[g] = k => oanswer'[g] = oanswer[g]
    BY <1>1, <2>3 DEF Resolve, Starts, Silent, OInv, OTypeOK
  <2>4. ASSUME NEW q \in Operations, DeleteClient(q)
        PROVE  Silent(k)' /\ \A g \in Grants : chosen'[g] = k => oanswer'[g] = oanswer[g]
    BY <1>1, <2>4 DEF DeleteClient, Starts, Silent, OInv, OTypeOK
  <2>5. ASSUME NEW q \in Operations, FindClient(q) \/ FindRevocable(q)
        PROVE  Silent(k)' /\ \A g \in Grants : chosen'[g] = k => oanswer'[g] = oanswer[g]
    BY <1>1, <2>5 DEF FindClient, FindRevocable, Suspends, Revokes, Silent, OInv, OTypeOK
  <2>6. ASSUME NEW q \in Operations, Deactivate(q) \/ Reactivate(q) \/ Revoke(q)
        PROVE  Silent(k)' /\ \A g \in Grants : chosen'[g] = k => oanswer'[g] = oanswer[g]
    BY <1>1, <2>6 DEF Deactivate, Deactivated, Reactivate, Reactivated, Revoke, Revoked, After, Silent, OInv, OTypeOK
  <2>7. ASSUME NEW q \in Operations, CreateNextClient(q) \/ UpdateTerminal(q)
        PROVE  Silent(k)' /\ \A g \in Grants : chosen'[g] = k => oanswer'[g] = oanswer[g]
    BY <1>1, <2>1, <2>7 DEF CreateNextClient, UpdateTerminal, InsertClient, Silent, OInv, OTypeOK, RequestsPlaced
  <2>8. ASSUME NEW g \in Grants, GrantFind(g) \/ GrantSign(g)
        PROVE  Silent(k)' /\ \A x \in Grants : chosen'[x] = k => oanswer'[x] = oanswer[x]
    BY <1>1, <2>8 DEF GrantFind, GrantSign, MayGet, Silent, OInv, OTypeOK, RequestsPlaced
  <2>9. ASSUME OCrash
        PROVE  Silent(k)' /\ \A g \in Grants : chosen'[g] = k => oanswer'[g] = oanswer[g]
    BY <1>1, <2>9 DEF OCrash, Silent, UnderWay, OInv, OTypeOK, RequestsPlaced
  <2>10. ASSUME UNCHANGED ovars
         PROVE  Silent(k)' /\ \A g \in Grants : chosen'[g] = k => oanswer'[g] = oanswer[g]
    BY <1>1, <2>10 DEF ovars, Silent
  <2> QED
    BY <1>1, <2>2, <2>3, <2>4, <2>5, <2>6, <2>7, <2>8, <2>9, <2>10
    DEF ONext, SuspendTerminal, AdminSuspendTerminal, ReactivateTerminal, RevokeTerminal,
        AdminRevokeTerminal, RotateCredentials, Ops
<1>2. OInv /\ [ONext]_ovars =>
        [\A k \in Clients : Silent(k) =>
           Silent(k)' /\ \A g \in Grants : chosen'[g] = k => oanswer'[g] = oanswer[g]]_ovars
  BY <1>1
<1> QED
  BY <1>2, OInvAlways, PTL DEF OSpec, RevokedForever

-----------------------------------------------------------------------------
(* Menu.                                                                   *)

\* What a change and a reorder go on with is a module.
ChangesPlaced ==
  /\ \A w \in ModuleChanges : wpc[w] # "idle" => to[w] \in Modules
  /\ \A q \in Reorders : /\ qpc[q] # "idle" => moved[q] \in Modules
                         /\ updates[q] # {} => qpc[q] # "idle"
  /\ DOMAIN got = Readers

\* Until something is written while a list is being read, or a write fails, every list
\* that was read is the one in Mongo, and so is the one in memory while nothing is written.
ListsCurrent ==
  ~overlapped /\ ~MFails("db") =>
    /\ \A n \in Readers : npc[n] = "store" => got[n] = Listed
    /\ \A q \in Reorders : updates[q] # {} => qpc[q] = "updates"
    /\ ~Writing => modulesCache \in {NoList, Listed}

MInv == MTypeOK /\ ChangesPlaced /\ ListsCurrent

\* A sequence with an element more is a sequence still.
LEMMA InsertAtTyped ==
  ASSUME NEW S, NEW n \in Nat, NEW s \in [1..n -> S], NEW k \in 0..n, NEW x \in S
  PROVE  InsertAt(s, k + 1, x) \in Seq(S)
<1>0. s \in Seq(S) /\ Len(s) = n
  BY SMT
<1>1. SubSeq(s, 1, k) \in Seq(S)
  BY SubSeqProperties
<1>2. SubSeq(s, k + 1, n) \in Seq(S)
  BY SubSeqProperties
<1>3. <<x>> \in Seq(S)
  OBVIOUS
<1>4. SubSeq(s, 1, k) \o <<x>> \in Seq(S)
  BY <1>1, <1>3, ConcatProperties
<1>5. (SubSeq(s, 1, k) \o <<x>>) \o SubSeq(s, k + 1, n) \in Seq(S)
  BY <1>2, <1>4, ConcatProperties
<1>6. k + 1 - 1 = k
  OBVIOUS
<1> QED
  BY <1>0, <1>5, <1>6 DEF InsertAt

\* What a reorder sends are modules and the places they are to have.
LEMMA UpdatesTyped ==
  ASSUME MTypeOK, NEW m \in Modules, NEW k \in Nat, k < Cardinality(Siblings(m)),
         NEW others \in SetToSeqs(Siblings(m) \ {m})
  PROVE  InsertAt(others, k + 1, m) \in Seq(Modules)
<1> DEFINE S == Siblings(m)
           n == Cardinality(S \ {m})
<1>1. S \in SUBSET Modules
  BY DEF Siblings, MTypeOK
<1>2. IsFiniteSet(S)
  BY <1>1, ModuleAssumption, FS_Subset
<1>3. IsFiniteSet(S \ {m}) /\ n = IF m \in S THEN Cardinality(S) - 1 ELSE Cardinality(S)
  BY <1>2, FS_RemoveElement
<1>4. n \in Nat /\ Cardinality(S) \in Nat
  BY <1>2, <1>3, FS_CardinalityType
<1>5. k \in 0..n
  BY <1>3, <1>4
<1>6. others \in [1..n -> S \ {m}]
  BY DEF SetToSeqs
<1>7. others \in [1..n -> Modules]
  BY <1>1, <1>6
<1> HIDE DEF n
<1> QED
  BY <1>4, <1>5, <1>7, InsertAtTyped

LEMMA MInvHolds == MInit => MInv
<1> SUFFICES ASSUME MInit PROVE MInv
  OBVIOUS
<1> USE ModuleAssumption DEF MInit
<1>1. MTypeOK
  <2>1. IsList(NoList)
    BY DEF IsList
  <2>2. Stored \in SUBSET Modules /\ order \in [Stored -> Nat] /\ active \in SUBSET Stored
    BY DEF Stored
  <2> QED
    BY <2>1, <2>2 DEF MTypeOK
<1>2. ChangesPlaced
  BY DEF ChangesPlaced
<1>3. ListsCurrent
  BY DEF ListsCurrent
<1> QED
  BY <1>1, <1>2, <1>3 DEF MInv

\* A list that is read has the modules and their orders.
LEMMA ListedTyped == ASSUME MTypeOK PROVE IsList(Listed)
  BY DEF MTypeOK, IsList, Listed, Stored

\* What a write to the collection leaves.
LEMMA StoresTyped ==
  ASSUME MTypeOK, NEW ms \in SUBSET Modules, NEW o \in [ms -> Nat], NEW a \in SUBSET ms, Stores(o, a)
  PROVE  /\ (Stored \in SUBSET Modules /\ order \in [Stored -> Nat] /\ active \in SUBSET Stored)'
         /\ overlapped' \in BOOLEAN
  BY DEF Stores, Stored, MTypeOK

\* Every variable but the documents and the lists keeps its type whatever the module does.
LEMMA MTypeKept == MTypeOK /\ ChangesPlaced /\ [MNext]_mvars => MTypeOK' /\ ChangesPlaced'
<1> SUFFICES ASSUME MTypeOK, ChangesPlaced, [MNext]_mvars PROVE MTypeOK' /\ ChangesPlaced'
  OBVIOUS
<1> USE ModuleAssumption DEF MFails, WGoto, QGoto, mdocs, mchange, mreorder, mread
<1>1. ASSUME NEW w \in ModuleChanges, NEW what \in {"create", "update", "disable"}, NEW m \in Modules,
             FindForChange(w, what, m)
      PROVE  MTypeOK' /\ ChangesPlaced'
  BY <1>1 DEF FindForChange, MTypeOK, ChangesPlaced, Stored
<1>2. ASSUME NEW w \in ModuleChanges, WriteChange(w) PROVE MTypeOK' /\ ChangesPlaced'
  <2> DEFINE m == to[w]
  <2>1. m \in Modules
    BY <1>2 DEF WriteChange, ChangesPlaced
  <2>2. /\ Stored' \in SUBSET Modules /\ order' \in [Stored' -> Nat] /\ active' \in SUBSET Stored'
        /\ overlapped' \in BOOLEAN
    <3>1. ASSUME Created(m), m \notin Stored
          PROVE  /\ Stored' \in SUBSET Modules /\ order' \in [Stored' -> Nat] /\ active' \in SUBSET Stored'
                 /\ overlapped' \in BOOLEAN
      <4>1. PICK k \in 0..MaxOrder :
              Stores([s \in Stored \cup {m} |-> IF s = m THEN k ELSE order[s]], active \cup {m})
        BY <3>1 DEF Created
      <4>2. Stored \cup {m} \in SUBSET Modules /\ active \cup {m} \in SUBSET (Stored \cup {m})
            /\ [s \in Stored \cup {m} |-> IF s = m THEN k ELSE order[s]] \in [Stored \cup {m} -> Nat]
        BY <2>1 DEF MTypeOK
      <4> QED
        BY <4>1, <4>2, StoresTyped
    <3>2. ASSUME Updated(m), m \in Stored
          PROVE  /\ Stored' \in SUBSET Modules /\ order' \in [Stored' -> Nat] /\ active' \in SUBSET Stored'
                 /\ overlapped' \in BOOLEAN
      <4>1. PICK k \in 0..MaxOrder : Stores([order EXCEPT ![m] = k], active)
        BY <3>2 DEF Updated
      <4>2. [order EXCEPT ![m] = k] \in [Stored -> Nat]
        BY <3>2 DEF MTypeOK
      <4> QED
        BY <4>1, <4>2, StoresTyped DEF MTypeOK
    <3>3. ASSUME Disabled(m)
          PROVE  /\ Stored' \in SUBSET Modules /\ order' \in [Stored' -> Nat] /\ active' \in SUBSET Stored'
                 /\ overlapped' \in BOOLEAN
      <4>1. active \ {m} \in SUBSET Stored
        BY DEF MTypeOK
      <4> QED
        BY <3>3, <4>1, StoresTyped DEF Disabled, MTypeOK
    <3>4. ASSUME UNCHANGED <<mdocs, overlapped>>
          PROVE  /\ Stored' \in SUBSET Modules /\ order' \in [Stored' -> Nat] /\ active' \in SUBSET Stored'
                 /\ overlapped' \in BOOLEAN
      BY <3>4 DEF MTypeOK, Stored
    <3> HIDE DEF m
    <3> QED
      BY <1>2, <3>1, <3>2, <3>3, <3>4 DEF WriteChange, Changed, m
  <2>3. wpc' \in [ModuleChanges -> {"idle", "write", "end", "ok", "failed"}]
        /\ \A x \in ModuleChanges : wpc'[x] # "idle" => wpc[x] # "idle"
    BY <1>2 DEF WriteChange, MTypeOK
  <2> QED
    BY <1>2, <2>2, <2>3 DEF WriteChange, MTypeOK, ChangesPlaced, IsList
<1>3. ASSUME NEW w \in ModuleChanges, EndChange(w) PROVE MTypeOK' /\ ChangesPlaced'
  BY <1>3 DEF EndChange, MTypeOK, ChangesPlaced, Stored, IsList
<1>4. ASSUME NEW q \in Reorders, NEW m \in Modules, NEW k \in 0..MaxOrder, FindModule(q, m, k)
      PROVE  MTypeOK' /\ ChangesPlaced'
  BY <1>4 DEF FindModule, MTypeOK, ChangesPlaced, Stored
<1>5. ASSUME NEW q \in Reorders, SendUpdates(q) PROVE MTypeOK' /\ ChangesPlaced'
  <2>1. updates' \in [Reorders -> SUBSET (Modules \X Nat)]
    <3> DEFINE m == moved[q]
    <3>1. CASE UNCHANGED updates
      BY <3>1 DEF MTypeOK
    <3>2. CASE ~UNCHANGED updates
      <4>1. PICK others \in SetToSeqs(Siblings(m) \ {m}) :
              LET Final == InsertAt(others, place[q] + 1, m)
                  Was(s) == IF s = m THEN wasAt[q] ELSE order[s] IN
              updates' = [updates EXCEPT ![q] =
                {<<Final[i], i - 1>> : i \in {j \in DOMAIN Final : Was(Final[j]) # j - 1}}]
        BY <1>5, <3>2 DEF SendUpdates
      <4> DEFINE Final == InsertAt(others, place[q] + 1, m)
      <4>2. m \in Modules /\ place[q] \in Nat /\ place[q] < Cardinality(Siblings(m))
        BY <1>5, <3>2 DEF SendUpdates, ChangesPlaced, MTypeOK
      <4>3. Final \in Seq(Modules)
        BY <4>2, UpdatesTyped
      <4>4. DOMAIN Final = 1..Len(Final) /\ Len(Final) \in Nat /\ \A i \in DOMAIN Final : Final[i] \in Modules
        BY <4>3
      <4> HIDE DEF Final
      <4>5. \A i \in DOMAIN Final : <<Final[i], i - 1>> \in Modules \X Nat
        BY <4>4
      <4>6. \A B \in SUBSET DOMAIN Final : {<<Final[i], i - 1>> : i \in B} \in SUBSET (Modules \X Nat)
        BY <4>5
      <4> QED
        BY <4>1, <4>6 DEF MTypeOK, Final
    <3> QED
      BY <3>1, <3>2
  <2> QED
    BY <1>5, <2>1 DEF SendUpdates, MTypeOK, ChangesPlaced, Stored
<1>6. ASSUME NEW q \in Reorders, NEW u, UpdateArrives(q, u) PROVE MTypeOK' /\ ChangesPlaced'
  <2>1. u[1] \in Modules /\ u[2] \in Nat
    BY <1>6 DEF UpdateArrives, MTypeOK
  <2>2. [order EXCEPT ![u[1]] = u[2]] \in [Stored -> Nat]
    BY <2>1 DEF MTypeOK
  <2>3. /\ Stored' \in SUBSET Modules /\ order' \in [Stored' -> Nat] /\ active' \in SUBSET Stored'
        /\ overlapped' \in BOOLEAN
    <3>1. CASE Stores([order EXCEPT ![u[1]] = u[2]], active)
      <4>1. Stored \in SUBSET Modules /\ active \in SUBSET Stored
        BY DEF MTypeOK
      <4> DEFINE o == [order EXCEPT ![u[1]] = u[2]]
      <4>2. o \in [Stored -> Nat] /\ Stores(o, active)
        BY <2>2, <3>1
      <4> HIDE DEF o
      <4> QED
        BY <4>1, <4>2, StoresTyped
    <3>2. CASE UNCHANGED <<mdocs, overlapped>>
      BY <3>2 DEF MTypeOK, Stored
    <3> QED
      BY <1>6, <3>1, <3>2 DEF UpdateArrives
  <2>4. updates' \in [Reorders -> SUBSET (Modules \X Nat)]
    BY <1>6 DEF UpdateArrives, MTypeOK
  <2>5. qpc' \in [Reorders -> {"idle", "siblings", "updates", "end", "ok", "failed"}]
    BY <1>6 DEF UpdateArrives, MTypeOK
  <2>6. \A x \in Reorders : /\ qpc'[x] # "idle" => moved[x] \in Modules
                            /\ updates'[x] # {} => qpc'[x] # "idle"
    BY <1>6 DEF UpdateArrives, MTypeOK, ChangesPlaced
  <2>7. UNCHANGED <<modulesCache, mchange, moved, place, wasAt, mread, mfaults>>
    BY <1>6 DEF UpdateArrives
  <2>8. MTypeOK'
    BY <2>3, <2>4, <2>5, <2>7 DEF MTypeOK, IsList
  <2>9. ChangesPlaced'
    <3>1. DOMAIN got' = Readers /\ wpc' = wpc /\ to' = to /\ moved' = moved
      BY <2>7 DEF ChangesPlaced
    <3> QED
      BY <2>6, <3>1 DEF ChangesPlaced
  <2> QED
    BY <2>8, <2>9
<1>7. ASSUME NEW q \in Reorders, AllArrived(q) \/ DeleteKey(q) PROVE MTypeOK' /\ ChangesPlaced'
  <2>1. qpc' \in [Reorders -> {"idle", "siblings", "updates", "end", "ok", "failed"}] /\ qpc[q] # "idle" /\ qpc'[q] # "idle"
    BY <1>7 DEF AllArrived, DeleteKey, MTypeOK
  <2>2. IsList(modulesCache')
    BY <1>7 DEF AllArrived, DeleteKey, MTypeOK, IsList
  <2>3. UNCHANGED <<mdocs, mchange, moved, place, wasAt, updates, mread, overlapped, mfaults>>
        /\ \A x \in Reorders : x # q => qpc'[x] = qpc[x]
    BY <1>7 DEF AllArrived, DeleteKey, MTypeOK
  <2>4. MTypeOK'
    BY <2>1, <2>2, <2>3 DEF MTypeOK, Stored, IsList
  <2>5. ChangesPlaced'
    BY <2>1, <2>3 DEF ChangesPlaced
  <2> QED
    BY <2>4, <2>5
<1>8. ASSUME NEW n \in Readers, FindAll(n) PROVE MTypeOK' /\ ChangesPlaced'
  <2>1. npc' \in [Readers -> {"idle", "store", "ok", "failed"}]
    BY <1>8 DEF FindAll, Answered, MTypeOK
  <2>2. DOMAIN got' = Readers /\ \A x \in Readers : got'[x] \in {got[x], Listed}
    BY <1>8 DEF FindAll, MTypeOK, ChangesPlaced
  <2>3. \A x \in Readers : IsList(got'[x])
    BY <2>2, ListedTyped DEF MTypeOK
  <2> QED
    BY <1>8, <2>1, <2>2, <2>3 DEF FindAll, MTypeOK, ChangesPlaced, Stored, IsList
<1>9. ASSUME NEW n \in Readers, KeepList(n) PROVE MTypeOK' /\ ChangesPlaced'
  <2>1. npc' \in [Readers -> {"idle", "store", "ok", "failed"}]
    BY <1>9 DEF KeepList, Answered, MTypeOK
  <2>2. DOMAIN got' = Readers /\ \A x \in Readers : got'[x] \in {got[x], NoList}
    BY <1>9 DEF KeepList, MTypeOK, ChangesPlaced
  <2>3. IsList(modulesCache') /\ \A x \in Readers : IsList(got'[x])
    BY <1>9, <2>2 DEF KeepList, MTypeOK, IsList
  <2> QED
    BY <1>9, <2>1, <2>2, <2>3 DEF KeepList, MTypeOK, ChangesPlaced, Stored, IsList
<1>10. ASSUME ListLapses \/ MCrash PROVE MTypeOK' /\ ChangesPlaced'
  <2>1. IsList(NoList)
    BY DEF IsList
  <2>2. CASE ListLapses
    BY <2>1, <2>2 DEF ListLapses, MTypeOK, ChangesPlaced, Stored, IsList
  <2>3. CASE MCrash
    <3>1. /\ wpc' \in [ModuleChanges -> {"idle", "write", "end", "ok", "failed"}]
          /\ qpc' \in [Reorders -> {"idle", "siblings", "updates", "end", "ok", "failed"}]
          /\ npc' \in [Readers -> {"idle", "store", "ok", "failed"}]
      BY <2>3 DEF MCrash, MTypeOK
    <3>2. /\ \A w \in ModuleChanges : wpc'[w] # "idle" => wpc[w] # "idle"
          /\ \A q \in Reorders : qpc'[q] # "idle" => qpc[q] # "idle"
      BY <2>3 DEF MCrash
    <3>3. /\ updates' = [q \in Reorders |-> {}] /\ got' = [n \in Readers |-> NoList]
          /\ modulesCache' = NoList
          /\ UNCHANGED <<mdocs, doing, to, moved, place, wasAt, overlapped, mfaults>>
      BY <2>3 DEF MCrash
    <3> QED
      BY <2>1, <3>1, <3>2, <3>3 DEF MTypeOK, ChangesPlaced, Stored
  <2> QED
    BY <1>10, <2>2, <2>3
<1>11. ASSUME UNCHANGED mvars PROVE MTypeOK' /\ ChangesPlaced'
  BY <1>11 DEF mvars, MTypeOK, ChangesPlaced, Stored, IsList
<1> QED
  BY <1>1, <1>2, <1>3, <1>4, <1>5, <1>6, <1>7, <1>8, <1>9, <1>10, <1>11 DEF MNext

\* A write finds no reader with a list, or is counted as one that did.
LEMMA NobodyReads ==
  ASSUME NEW o, NEW a, Stores(o, a), ~overlapped'
  PROVE  ~overlapped /\ \A n \in Readers : npc[n] # "store"
  BY DEF Stores

LEMMA ListsStayCurrent == MInv /\ [MNext]_mvars => ListsCurrent'
<1> SUFFICES ASSUME MInv, [MNext]_mvars, ~overlapped', ~MFails("db")'
             PROVE  /\ \A n \in Readers : npc'[n] = "store" => got'[n] = Listed'
                    /\ \A q \in Reorders : updates'[q] # {} => qpc'[q] = "updates"
                    /\ ~Writing' => modulesCache' \in {NoList, Listed'}
  BY DEF ListsCurrent
<1> USE DEF MFails, WGoto, QGoto, mdocs, mchange, mreorder, mread
<1>1. ASSUME ~overlapped, "db" \notin mfaults
      PROVE  /\ \A n \in Readers : npc[n] = "store" => got[n] = Listed
             /\ \A q \in Reorders : updates[q] # {} => qpc[q] = "updates"
             /\ ~Writing => modulesCache \in {NoList, Listed}
  BY <1>1 DEF MInv, ListsCurrent
<1>2. ASSUME UNCHANGED mdocs PROVE Listed' = Listed
  BY <1>2 DEF Listed
<1>3. ASSUME NEW w \in ModuleChanges, NEW what \in {"create", "update", "disable"}, NEW m \in Modules,
             FindForChange(w, what, m)
      PROVE  Writing' = Writing /\ UNCHANGED <<mdocs, modulesCache, qpc, updates, mread, overlapped, mfaults>>
  <2>1. \A x \in ModuleChanges : wpc'[x] = "end" <=> wpc[x] = "end"
    BY <1>3 DEF FindForChange, MInv, MTypeOK
  <2> QED
    BY <1>3, <2>1 DEF FindForChange, Writing
<1>4. ASSUME NEW w \in ModuleChanges, WriteChange(w)
      PROVE  /\ UNCHANGED <<modulesCache, qpc, updates, mread, mfaults>>
             /\ \/ Writing' /\ ~overlapped /\ \A n \in Readers : npc[n] # "store"
                \/ Writing' = Writing /\ UNCHANGED <<mdocs, overlapped>>
  <2>1. UNCHANGED <<modulesCache, qpc, updates, mread, mfaults>> /\ wpc[w] = "write"
    BY <1>4 DEF WriteChange
  <2>2. CASE Changed(doing[w], to[w]) /\ WGoto(w, "end")
    <3>1. Writing'
      BY <2>2 DEF Writing, MInv, MTypeOK
    <3>2. \E o, a : Stores(o, a)
      BY <2>2 DEF Changed, Created, Updated, Disabled
    <3> QED
      BY <2>1, <3>1, <3>2, NobodyReads
  <2>3. CASE WGoto(w, "failed") /\ UNCHANGED <<mdocs, overlapped>>
    <3>1. \A x \in ModuleChanges : wpc'[x] = "end" <=> wpc[x] = "end"
      BY <2>1, <2>3 DEF MInv, MTypeOK
    <3> QED
      BY <2>1, <2>3, <3>1 DEF Writing
  <2> QED
    BY <1>4, <2>1, <2>2, <2>3 DEF WriteChange
<1>5. ASSUME NEW w \in ModuleChanges, EndChange(w)
      PROVE  modulesCache' = NoList /\ UNCHANGED <<mdocs, qpc, updates, mread, overlapped, mfaults>>
  BY <1>5 DEF EndChange
<1>6. ASSUME NEW q \in Reorders, NEW m \in Modules, NEW k \in 0..MaxOrder, FindModule(q, m, k)
      PROVE  /\ Writing' = Writing /\ UNCHANGED <<mdocs, modulesCache, updates, mread, overlapped, mfaults>>
             /\ \A r \in Reorders : qpc'[r] = "updates" <=> qpc[r] = "updates"
  <2>1. \A r \in Reorders : qpc'[r] = "updates" <=> qpc[r] = "updates"
    BY <1>6 DEF FindModule, MInv, MTypeOK
  <2> QED
    BY <1>6, <2>1 DEF FindModule, Writing
<1>7. ASSUME NEW q \in Reorders, SendUpdates(q)
      PROVE  /\ UNCHANGED <<mdocs, wpc, modulesCache, mread, overlapped, mfaults>>
             /\ \/ qpc' = [qpc EXCEPT ![q] = "updates"] /\ \A r \in Reorders : r # q => updates'[r] = updates[r]
                \/ qpc' = [qpc EXCEPT ![q] = "failed"] /\ UNCHANGED updates
             /\ qpc[q] = "siblings"
  BY <1>7 DEF SendUpdates, MInv, MTypeOK
<1>8. ASSUME NEW q \in Reorders, NEW u, UpdateArrives(q, u)
      PROVE  /\ UNCHANGED <<modulesCache, wpc, mread, mfaults>> /\ u \in updates[q]
             /\ \A r \in Reorders : updates'[r] # {} => updates[r] # {}
             /\ \/ UNCHANGED qpc /\ ~overlapped /\ \A n \in Readers : npc[n] # "store"
                \/ "db" \in mfaults
  <2>1. Stores([order EXCEPT ![u[1]] = u[2]], active) => ~overlapped /\ \A n \in Readers : npc[n] # "store"
    BY NobodyReads
  <2> QED
    BY <1>8, <2>1 DEF UpdateArrives, MInv, MTypeOK
<1>9. ASSUME NEW q \in Reorders, AllArrived(q)
      PROVE  /\ modulesCache' = NoList /\ UNCHANGED <<mdocs, updates, mread, overlapped, mfaults>>
             /\ \A r \in Reorders : updates[r] # {} => qpc'[r] = qpc[r]
  BY <1>9 DEF AllArrived, MInv, MTypeOK
<1>10. ASSUME NEW q \in Reorders, DeleteKey(q)
       PROVE  /\ Writing' = Writing /\ UNCHANGED <<mdocs, modulesCache, updates, mread, overlapped, mfaults>>
              /\ \A r \in Reorders : qpc'[r] = "updates" <=> qpc[r] = "updates"
  <2>1. \A r \in Reorders : qpc'[r] = "updates" <=> qpc[r] = "updates"
    BY <1>10 DEF DeleteKey, MInv, MTypeOK
  <2> QED
    BY <1>10, <2>1 DEF DeleteKey, Writing
<1>11. ASSUME NEW n \in Readers, FindAll(n)
       PROVE  /\ UNCHANGED <<mdocs, modulesCache, mchange, mreorder, overlapped, mfaults>>
              /\ \A x \in Readers : npc'[x] = "store" => got'[x] = Listed \/ (npc[x] = "store" /\ got'[x] = got[x])
  BY <1>11 DEF FindAll, Answered, MInv, MTypeOK, ChangesPlaced
<1>12. ASSUME NEW n \in Readers, KeepList(n)
       PROVE  /\ UNCHANGED <<mdocs, mchange, mreorder, overlapped, mfaults>>
              /\ npc[n] = "store" /\ modulesCache' = got[n]
              /\ \A x \in Readers : npc'[x] = "store" => npc[x] = "store" /\ got'[x] = got[x]
  BY <1>12 DEF KeepList, Answered, MInv, MTypeOK, ChangesPlaced
<1>13. ASSUME MCrash
       PROVE  /\ modulesCache' = NoList /\ UNCHANGED <<mdocs, overlapped, mfaults>>
              /\ \A n \in Readers : npc'[n] # "store"
              /\ \A q \in Reorders : updates'[q] = {}
  BY <1>13 DEF MCrash
<1> HIDE DEF MFails, WGoto, QGoto
<1>14. ASSUME NEW w \in ModuleChanges,
              \/ \E what \in {"create", "update", "disable"}, m \in Modules : FindForChange(w, what, m)
              \/ WriteChange(w) \/ EndChange(w)
       PROVE  /\ \A n \in Readers : npc'[n] = "store" => got'[n] = Listed'
              /\ \A q \in Reorders : updates'[q] # {} => qpc'[q] = "updates"
              /\ ~Writing' => modulesCache' \in {NoList, Listed'}
  BY <1>1, <1>2, <1>3, <1>4, <1>5, <1>14 DEF MFails
<1>15. ASSUME NEW q \in Reorders,
              \/ \E m \in Modules, k \in 0..MaxOrder : FindModule(q, m, k)
              \/ SendUpdates(q) \/ (\E u \in updates[q] : UpdateArrives(q, u)) \/ AllArrived(q) \/ DeleteKey(q)
       PROVE  /\ \A n \in Readers : npc'[n] = "store" => got'[n] = Listed'
              /\ \A r \in Reorders : updates'[r] # {} => qpc'[r] = "updates"
              /\ ~Writing' => modulesCache' \in {NoList, Listed'}
  <2>1. CASE SendUpdates(q)
    <3>1. \A r \in Reorders : updates'[r] # {} => qpc'[r] = "updates"
      BY <1>1, <1>7, <2>1 DEF MFails, MInv, MTypeOK
    <3>2. ~Writing' => ~Writing
      BY <1>7, <2>1 DEF Writing, MInv, MTypeOK
    <3> QED
      BY <1>1, <1>2, <1>7, <2>1, <3>1, <3>2 DEF MFails
  <2>2. ASSUME NEW u \in updates[q], UpdateArrives(q, u)
        PROVE  /\ \A n \in Readers : npc'[n] = "store" => got'[n] = Listed'
               /\ \A r \in Reorders : updates'[r] # {} => qpc'[r] = "updates"
               /\ ~Writing' => modulesCache' \in {NoList, Listed'}
    <3>1. Writing'
      BY <1>1, <1>8, <2>2 DEF MFails, Writing
    <3> QED
      BY <1>1, <1>8, <2>2, <3>1 DEF MFails
  <2>3. CASE \/ \E m \in Modules, k \in 0..MaxOrder : FindModule(q, m, k)
             \/ AllArrived(q) \/ DeleteKey(q)
    BY <1>1, <1>2, <1>6, <1>9, <1>10, <2>3 DEF MFails
  <2> QED
    BY <1>15, <2>1, <2>2, <2>3
<1>16. ASSUME NEW n \in Readers, FindAll(n) \/ KeepList(n)
       PROVE  /\ \A x \in Readers : npc'[x] = "store" => got'[x] = Listed'
              /\ \A q \in Reorders : updates'[q] # {} => qpc'[q] = "updates"
              /\ ~Writing' => modulesCache' \in {NoList, Listed'}
  <2>1. Writing' = Writing
    BY <1>11, <1>12, <1>16 DEF Writing
  <2> QED
    BY <1>1, <1>2, <1>11, <1>12, <1>16, <2>1 DEF MFails
<1>17. CASE ListLapses \/ MCrash \/ UNCHANGED mvars
  BY <1>1, <1>2, <1>13, <1>17 DEF ListLapses, mvars, MFails, Writing
<1> QED
  BY <1>14, <1>15, <1>16, <1>17 DEF MNext

LEMMA MInvAlways == MSpec => []MInv
<1>1. MInv /\ [MNext]_mvars => MInv'
  BY MTypeKept, ListsStayCurrent DEF MInv
<1> QED
  BY <1>1, MInvHolds, PTL DEF MSpec

\* Every variable of the menu keeps its type.
THEOREM MenuTypeCorrect == MSpec => []MTypeOK
<1>1. MInv => MTypeOK
  BY DEF MInv
<1> QED
  BY <1>1, MInvAlways, PTL

\* Whichever changes, reorders and readings overlap, while none of them is writing the list
\* in memory is the one in Mongo, or there is none.
THEOREM MenuIsCurrent == MSpec => []ListIsCurrent
<1>1. MInv => ListIsCurrent
  BY DEF MInv, ListsCurrent, ListIsCurrent
<1> QED
  BY <1>1, MInvAlways, PTL
=============================================================================
