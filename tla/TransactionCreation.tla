------------------------- MODULE TransactionCreation -------------------------
(***************************************************************************)
(* POST /transactions (create of transaction.service.ts): the look-up that *)
(* makes it idempotent, the sequence number, the insert under two unique   *)
(* indexes, the event and the two shapes of the 201; and the amounts that  *)
(* the processor later sends to the SGT for the stored document.  A step   *)
(* is what runs between two awaits.                                        *)
(*                                                                         *)
(* A document is named by the request that inserted it.                    *)
(***************************************************************************)
EXTENDS Commissions, FiniteSets

CONSTANTS
  Requests,     \* POST /transactions requests, client retries included
  Tenants,      \* authenticated tenants
  Intents,      \* intentIds the clients use
  Amounts,      \* amounts in centavos
  None,
  Environments  \* the sets of failures a behaviour may be exposed to

Asked == [tenant : Tenants, intent : Intents, amount : Amounts]
Doc == [tenant : Tenants, intent : Intents, amount : Amounts, no : Nat]
\* The amount of a 201 is in hundredths of a centavo.
Created == [code : {"201"}, id : Requests, amount : Nat]
Refused == [code : {"404", "500", "lost"}]

ASSUME CreationAssumption ==
  /\ Amounts \subseteq Nat \ {0}
  /\ None \notin Asked \cup Doc \cup Created \cup Refused
  /\ Environments \subseteq SUBSET {"db", "crash"}

VARIABLES
  docs,     \* the transactions collection: document name -> record, or None
  nextNo,   \* the counter of the sequence document
  pc,       \* where each request is
  asked,    \* tenant, intentId and amount of each request, or None
  no,       \* the number a request has drawn, 0 before
  answer,   \* what a request was answered
  created,  \* documents whose 'transaction.created' was emitted
  wire,     \* what was sent to the SGT for a document, or None
  faults    \* the failures this behaviour is exposed to; never changes

req == <<pc, asked, no, answer>>
vars == <<docs, nextNo, req, created, wire, faults>>

TypeOK ==
  /\ docs \in [Requests -> Doc \cup {None}]
  /\ nextNo \in Nat
  /\ pc \in [Requests -> {"idle", "tenant", "number", "insert", "tell", "done"}]
  /\ asked \in [Requests -> Asked \cup {None}]
  /\ no \in [Requests -> Nat]
  /\ answer \in [Requests -> Created \cup Refused \cup {None}]
  /\ created \in SUBSET Requests
  /\ wire \in [Requests -> [amount : Nat, settlement : Int, commission : Nat] \cup {None}]
  /\ faults \in Environments

Init ==
  /\ docs = [d \in Requests |-> None]
  /\ nextNo = 0
  /\ pc = [r \in Requests |-> "idle"]
  /\ asked = [r \in Requests |-> None]
  /\ no = [r \in Requests |-> 0]
  /\ answer = [r \in Requests |-> None]
  /\ created = {}
  /\ wire = [d \in Requests |-> None]
  /\ faults \in Environments

-----------------------------------------------------------------------------

Goto(r, l) == pc' = [pc EXCEPT ![r] = l]
Respond(r, a) == Goto(r, "done") /\ answer' = [answer EXCEPT ![r] = a]
Fail(r, c) == Respond(r, [code |-> c])
DbThrows == "db" \in faults

Inserted == {d \in Requests : docs[d] # None}
ByIntent(t, i) == {d \in Inserted : docs[d].tenant = t /\ docs[d].intent = i}

\* What the 201 says of the amount: create multiplies the domain amount by
\* 100, the answer to a retry gives the domain amount, which mapToDomain has
\* multiplied by 0.01.
AmountInAnswer(a, retry) == IF retry THEN a ELSE 100 * a

\* findByIntentId(tenantId, intentId): a known intent is answered at once.
Look(r, q) ==
  /\ pc[r] = "idle"
  /\ asked' = [asked EXCEPT ![r] = q]
  /\ \/ \E d \in ByIntent(q.tenant, q.intent) :
          Respond(r, [code |-> "201", id |-> d,
                      amount |-> AmountInAnswer(docs[d].amount, TRUE)])
     \/ /\ ByIntent(q.tenant, q.intent) = {}
        /\ Goto(r, "tenant") /\ UNCHANGED answer
     \/ DbThrows /\ Fail(r, "500")
  /\ UNCHANGED <<docs, nextNo, no, created, wire, faults>>

\* tenantsRepository.findById.
ReadTenant(r) ==
  /\ pc[r] = "tenant"
  /\ \/ Goto(r, "number") /\ UNCHANGED answer
     \/ Fail(r, "404")
     \/ DbThrows /\ Fail(r, "500")
  /\ UNCHANGED <<docs, nextNo, asked, no, created, wire, faults>>

\* getNextTransactionNo: one $inc.
TakeNo(r) ==
  /\ pc[r] = "number"
  /\ \/ /\ nextNo' = nextNo + 1
        /\ no' = [no EXCEPT ![r] = nextNo'] /\ Goto(r, "insert") /\ UNCHANGED answer
     \/ DbThrows /\ nextNo' \in {nextNo, nextNo + 1} /\ Fail(r, "500") /\ UNCHANGED no
  /\ UNCHANGED <<docs, asked, created, wire, faults>>

\* Mutant: intentId is indexed, not unique.
BlockersByNo(r) == {d \in Inserted : docs[d].no = no[r]}

\* The unique indexes of the collection: intentId, for all tenants, and no.
Blockers(r) ==
  {d \in Inserted : docs[d].intent = asked[r].intent \/ docs[d].no = no[r]}

\* transactionModel.create; a duplicate key throws and is answered 500.
Insert(r) ==
  LET doc == [tenant |-> asked[r].tenant, intent |-> asked[r].intent,
              amount |-> asked[r].amount, no |-> no[r]]
      Write == docs' = [docs EXCEPT ![r] = doc]
  IN
  /\ pc[r] = "insert"
  /\ \/ Blockers(r) = {} /\ Write /\ Goto(r, "tell") /\ UNCHANGED answer
     \/ Blockers(r) # {} /\ UNCHANGED docs /\ Fail(r, "500")
     \/ Blockers(r) = {} /\ DbThrows /\ (Write \/ UNCHANGED docs) /\ Fail(r, "500")
  /\ UNCHANGED <<nextNo, asked, no, created, wire, faults>>

\* 'transaction.created' and the 201.
Tell(r) ==
  /\ pc[r] = "tell"
  /\ created' = created \cup {r}
  /\ Respond(r, [code |-> "201", id |-> r,
                 amount |-> AmountInAnswer(docs[r].amount, FALSE)])
  /\ UNCHANGED <<docs, nextNo, asked, no, wire, faults>>

\* Step 5 and 6 of processPayment for a stored transaction.  Math.round turns
\* the domain amount back into the centavos that were stored.
SendTransfer(d) ==
  /\ d \in Inserted /\ wire[d] = None
  /\ wire' = [wire EXCEPT ![d] = [amount |-> docs[d].amount,
                                  settlement |-> Settlement(docs[d].amount),
                                  commission |-> Commission(docs[d].amount)]]
  /\ UNCHANGED <<docs, nextNo, req, created, faults>>

\* The process stops: the clients of the requests in flight get no answer.
Crash ==
  LET lost == {r \in Requests : pc[r] \notin {"idle", "done"}} IN
  /\ "crash" \in faults
  /\ pc' = [r \in Requests |-> IF r \in lost THEN "done" ELSE pc[r]]
  /\ answer' = [r \in Requests |-> IF r \in lost THEN [code |-> "lost"] ELSE answer[r]]
  /\ UNCHANGED <<docs, nextNo, asked, no, created, wire, faults>>

Next ==
  \/ \E r \in Requests :
       \/ \E q \in Asked : Look(r, q)
       \/ ReadTenant(r) \/ TakeNo(r) \/ Insert(r) \/ Tell(r) \/ SendTransfer(r)
  \/ Crash

Spec == Init /\ [][Next]_vars

-----------------------------------------------------------------------------
(* Properties.                                                             *)

IsCreated(r) == answer[r] # None /\ answer[r].code = "201"

\* Whatever retries run side by side, fail half way or are lost, all 201
\* answers for one intent of a tenant name one stored transaction, the one of
\* that tenant and intent.
OneTransactionPerIntent ==
  \A r \in Requests : IsCreated(r) =>
    LET d == answer[r].id IN
    /\ docs[d] # None
    /\ docs[d].tenant = asked[r].tenant /\ docs[d].intent = asked[r].intent
    /\ \A q \in Requests :
         IsCreated(q) /\ asked[q].tenant = asked[r].tenant
                      /\ asked[q].intent = asked[r].intent => answer[q].id = d

\* No two requests draw the same number, even when draws throw after the
\* increment: the unique index on no never refuses an insert.
NumbersNeverClash ==
  \A r, q \in Requests : r # q /\ no[r] # 0 => no[r] # no[q]

\* In a behaviour without faults a stored transaction has been announced or
\* its creator is about to; with faults, nothing is announced that is not stored.
CreationIsAnnounced ==
  /\ created \subseteq Inserted
  /\ faults = {} => \A d \in Inserted : d \in created \/ pc[d] = "tell"

\* What the SGT is told adds up to what the creating request asked for, with
\* the commission the nearest centavo to 2.5%.
WireAddsUp ==
  \A d \in Requests : wire[d] # None =>
    /\ wire[d].amount = asked[d].amount
    /\ wire[d].commission + wire[d].settlement = wire[d].amount
    /\ IsNearest(wire[d].commission, wire[d].amount)
=============================================================================
