--------------------------- MODULE RecordsProofs ---------------------------
(***************************************************************************)
(* What is proved of what the system keeps and shows: of                   *)
(* TransactionCreation for every set of requests, tenants, intents and     *)
(* amounts; of Listings and Dashboard for any documents, pages and         *)
(* changes while a list is read; of Audit for any calls and events; of     *)
(* Bootstrap for any number of processes that start and stop; under every  *)
(* combination of failures.                                                *)
(***************************************************************************)
EXTENDS TransactionCreation, Dashboard, Bootstrap, Audit, FiniteSetTheorems, TLAPS

-----------------------------------------------------------------------------
(* TransactionCreation.                                                    *)

\* The split of an amount adds up, rounds to the nearest centavo and never
\* charges more commission than there is money: for every amount.
THEOREM SplitIsRight == \A a \in Nat : SplitsWell(a)
<1> SUFFICES ASSUME NEW a \in Nat PROVE SplitsWell(a)
  OBVIOUS
<1>1. Commission(a) \in Int /\ 1000 * Commission(a) =< 25 * a + 500
                            /\ 25 * a + 500 < 1000 * Commission(a) + 1000
  BY DEF Commission
<1> QED
  BY <1>1 DEF SplitsWell, IsNearest, Settlement

-----------------------------------------------------------------------------
(* The inductive invariant.                                                *)

\* A request that has started has been heard out.
Heard == \A r \in Requests : pc[r] # "idle" => asked[r] \in Asked
\* Numbers come from the counter, each is drawn once.
Drawn ==
  /\ \A r \in Requests :
       /\ no[r] =< nextNo
       /\ pc[r] \in {"idle", "tenant", "number"} => no[r] = 0
  /\ NumbersNeverClash
\* A stored document is what its creator asked for, and no two share an intent.
DocsFit ==
  \A d \in Requests :
    /\ pc[d] = "tell" => docs[d] # None
    /\ docs[d] # None =>
         /\ pc[d] \in {"tell", "done"}
         /\ docs[d].tenant = asked[d].tenant /\ docs[d].intent = asked[d].intent
         /\ docs[d].amount = asked[d].amount
         /\ \A e \in Requests :
              docs[e] # None /\ docs[e].intent = docs[d].intent => e = d
\* A 201 names a stored document of the tenant and the intent asked for.
Told ==
  \A r \in Requests : IsCreated(r) =>
    /\ pc[r] = "done" /\ answer[r].id \in Requests /\ docs[answer[r].id] # None
    /\ docs[answer[r].id].tenant = asked[r].tenant
    /\ docs[answer[r].id].intent = asked[r].intent

IInv == TypeOK /\ Heard /\ Drawn /\ DocsFit /\ Told

LEMMA AnswerIsNatural ==
  ASSUME NEW a \in Nat, NEW b \in BOOLEAN PROVE AmountInAnswer(a, b) \in Nat
  BY DEF AmountInAnswer

LEMMA IInvInitially == Init => IInv
  BY CreationAssumption
  DEF Init, IInv, TypeOK, Heard, Drawn, NumbersNeverClash, DocsFit, Told, IsCreated

LEMMA IInvStep == ASSUME IInv, [Next]_vars PROVE IInv'
<1> USE CreationAssumption
    DEF IInv, TypeOK, Heard, Drawn, NumbersNeverClash, DocsFit, Told, IsCreated,
        Asked, Doc, Created, Refused, Inserted, req, Goto, Respond, Fail
<1>1. ASSUME NEW r \in Requests, NEW q \in Asked, Look(r, q) PROVE IInv'
  <2>0. \A d \in Requests : docs[d] # None =>
          [code |-> "201", id |-> d, amount |-> AmountInAnswer(docs[d].amount, TRUE)]
            \in Created
    BY DEF AmountInAnswer
  <2>a. [code |-> "500"] \in Refused
    OBVIOUS
  <2>1. TypeOK'
    <3> HIDE DEF Created, Refused, Asked, Doc
    <3>1. asked' \in [Requests -> Asked \cup {None}]
      BY <1>1 DEF Look
    <3>2. CASE Goto(r, "tenant") /\ UNCHANGED answer
      BY <1>1, <3>1, <3>2 DEF Look
    <3>3. CASE Fail(r, "500")
      BY <1>1, <2>a, <3>1, <3>3 DEF Look
    <3>4. CASE \E d \in ByIntent(q.tenant, q.intent) :
                 Respond(r, [code |-> "201", id |-> d,
                             amount |-> AmountInAnswer(docs[d].amount, TRUE)])
      <4>1. PICK d \in ByIntent(q.tenant, q.intent) :
                   Respond(r, [code |-> "201", id |-> d,
                               amount |-> AmountInAnswer(docs[d].amount, TRUE)])
        BY <3>4
      <4>2. d \in Requests /\ docs[d] # None
        BY DEF ByIntent
      <4> QED
        BY <1>1, <2>0, <3>1, <4>1, <4>2 DEF Look
    <3> QED
      BY <1>1, <3>2, <3>3, <3>4 DEF Look
  <2>2. Heard'
    BY <1>1 DEF Look, ByIntent, AmountInAnswer
  <2>3. Drawn'
    BY <1>1 DEF Look, ByIntent, AmountInAnswer
  <2>4. DocsFit'
    BY <1>1 DEF Look, ByIntent, AmountInAnswer
  <2>5. Told'
    BY <1>1 DEF Look, ByIntent, AmountInAnswer
  <2> QED
    BY <2>1, <2>2, <2>3, <2>4, <2>5 DEF IInv
<1>2. ASSUME NEW r \in Requests, ReadTenant(r) PROVE IInv'
  <2>0. [code |-> "404"] \in Refused /\ [code |-> "500"] \in Refused
    OBVIOUS
  <2>1. TypeOK'
    <3> HIDE DEF Created, Refused, Asked, Doc
    <3> QED
      BY <1>2, <2>0 DEF ReadTenant
  <2>2. Heard'
    BY <1>2 DEF ReadTenant
  <2>3. Drawn'
    BY <1>2 DEF ReadTenant
  <2>4. DocsFit'
    BY <1>2 DEF ReadTenant
  <2>5. Told'
    BY <1>2 DEF ReadTenant
  <2> QED
    BY <2>1, <2>2, <2>3, <2>4, <2>5 DEF IInv
<1>3. ASSUME NEW r \in Requests, TakeNo(r) PROVE IInv'
  <2>1. TypeOK'
    BY <1>3, SMTT(30) DEF TakeNo
  <2>2. Heard'
    BY <1>3 DEF TakeNo
  <2>3. Drawn'
    BY <1>3 DEF TakeNo
  <2>4. DocsFit'
    BY <1>3 DEF TakeNo
  <2>5. Told'
    BY <1>3 DEF TakeNo
  <2> QED
    BY <2>1, <2>2, <2>3, <2>4, <2>5 DEF IInv
<1>4. ASSUME NEW r \in Requests, Insert(r) PROVE IInv'
  <2>1. TypeOK'
    BY <1>4 DEF Insert, Blockers
  <2>2. Heard'
    BY <1>4 DEF Insert, Blockers
  <2>3. Drawn'
    BY <1>4 DEF Insert, Blockers
  <2>4. DocsFit'
    BY <1>4, SMTT(30) DEF Insert, Blockers
  <2>5. Told'
    BY <1>4 DEF Insert, Blockers
  <2> QED
    BY <2>1, <2>2, <2>3, <2>4, <2>5 DEF IInv
<1>5. ASSUME NEW r \in Requests, Tell(r) PROVE IInv'
  <2>0. [code |-> "201", id |-> r, amount |-> AmountInAnswer(docs[r].amount, FALSE)]
          \in Created
    <3>1. docs[r] \in Doc
      BY <1>5 DEF Tell
    <3>2. docs[r].amount \in Nat
      BY <3>1
    <3>3. AmountInAnswer(docs[r].amount, FALSE) \in Nat
      BY <3>2, AnswerIsNatural
    <3> QED
      BY <3>3
  <2>1. TypeOK'
    <3> HIDE DEF Created
    <3> QED
      BY <1>5, <2>0 DEF Tell
  <2>2. Heard'
    BY <1>5 DEF Tell, AmountInAnswer
  <2>3. Drawn'
    BY <1>5 DEF Tell, AmountInAnswer
  <2>4. DocsFit'
    BY <1>5 DEF Tell, AmountInAnswer
  <2>5. Told'
    BY <1>5 DEF Tell, AmountInAnswer
  <2> QED
    BY <2>1, <2>2, <2>3, <2>4, <2>5 DEF IInv
<1>6. ASSUME NEW d \in Requests, SendTransfer(d) PROVE IInv'
  <2>0. docs[d].amount \in Nat
    BY <1>6 DEF SendTransfer
  <2>1. Commission(docs[d].amount) \in Nat /\ Settlement(docs[d].amount) \in Int
    BY <2>0 DEF Commission, Settlement
  <2>2. TypeOK'
    BY <1>6, <2>0, <2>1 DEF SendTransfer
  <2>3. Heard'
    BY <1>6 DEF SendTransfer
  <2>4. Drawn'
    BY <1>6 DEF SendTransfer
  <2>5. DocsFit'
    BY <1>6 DEF SendTransfer
  <2>6. Told'
    BY <1>6 DEF SendTransfer
  <2> QED
    BY <2>2, <2>3, <2>4, <2>5, <2>6 DEF IInv
<1>7. CASE Crash
  BY <1>7 DEF Crash
<1>8. CASE UNCHANGED vars
  BY <1>8 DEF vars
<1> HIDE DEF IInv
<1> QED
  BY <1>1, <1>2, <1>3, <1>4, <1>5, <1>6, <1>7, <1>8 DEF Next

LEMMA IInvAlways == Spec => []IInv
  BY IInvInitially, IInvStep, PTL DEF Spec

-----------------------------------------------------------------------------

\* Requests, documents, answers and the counter stay well formed.
THEOREM TypeCorrect == Spec => []TypeOK
<1>1. IInv => TypeOK
  BY DEF IInv
<1> QED
  BY <1>1, IInvAlways, PTL

\* However many retries of an intent run side by side, fail or are lost, every
\* 201 for it names the same stored transaction.
THEOREM OnePerIntent == Spec => []OneTransactionPerIntent
<1>1. IInv => OneTransactionPerIntent
  BY DEF IInv, DocsFit, Told, OneTransactionPerIntent
<1> QED
  BY <1>1, IInvAlways, PTL

\* No number is drawn twice.
THEOREM NumbersUnique == Spec => []NumbersNeverClash
<1>1. IInv => NumbersNeverClash
  BY DEF IInv, Drawn
<1> QED
  BY <1>1, IInvAlways, PTL

LEMMA AnnouncedStep ==
  ASSUME IInv, CreationIsAnnounced, [Next]_vars PROVE CreationIsAnnounced'
<1> USE CreationAssumption
    DEF CreationIsAnnounced, IInv, TypeOK, DocsFit, Inserted, Doc, Asked, req,
        Goto, Respond, Fail, DbThrows
<1>1. ASSUME NEW r \in Requests, NEW q \in Asked, Look(r, q) PROVE CreationIsAnnounced'
  <2>1. docs[r] = None
    BY <1>1 DEF Look
  <2>2. docs' = docs /\ created' = created /\ faults' = faults
    BY <1>1 DEF Look
  <2>3. \A d \in Requests : d # r => pc'[d] = pc[d]
    <3>1. \E l : pc' = [pc EXCEPT ![r] = l]
      <4> HIDE DEF Asked, Doc, Inserted, TypeOK, DocsFit
      <4> QED
        BY <1>1 DEF Look
    <3> QED
      BY <3>1
  <2> QED
    BY <2>1, <2>2, <2>3
<1>2. ASSUME NEW r \in Requests, ReadTenant(r) PROVE CreationIsAnnounced'
  BY <1>2 DEF ReadTenant
<1>3. ASSUME NEW r \in Requests, TakeNo(r) PROVE CreationIsAnnounced'
  BY <1>3 DEF TakeNo
<1>4. ASSUME NEW r \in Requests, Insert(r) PROVE CreationIsAnnounced'
  BY <1>4 DEF Insert
<1>5. ASSUME NEW r \in Requests, Tell(r) PROVE CreationIsAnnounced'
  BY <1>5 DEF Tell
<1>6. ASSUME NEW d \in Requests, SendTransfer(d) PROVE CreationIsAnnounced'
  BY <1>6 DEF SendTransfer
<1>7. CASE Crash
  BY <1>7 DEF Crash
<1>8. CASE UNCHANGED vars
  BY <1>8 DEF vars
<1> HIDE DEF CreationIsAnnounced
<1> QED
  BY <1>1, <1>2, <1>3, <1>4, <1>5, <1>6, <1>7, <1>8 DEF Next

\* Nothing is announced that is not stored, and without faults nothing stored
\* stays unannounced once its creator has answered.
THEOREM AnnouncedWhenStored == Spec => []CreationIsAnnounced
<1>1. Init => CreationIsAnnounced
  BY DEF Init, CreationIsAnnounced, Inserted
<1> QED
  BY <1>1, AnnouncedStep, IInvAlways, PTL DEF Spec

\* What was sent for a document was computed from its stored amount.
Sent ==
  \A d \in Requests : wire[d] # None =>
    /\ docs[d] # None /\ wire[d].amount = docs[d].amount
    /\ wire[d].settlement = Settlement(docs[d].amount)
    /\ wire[d].commission = Commission(docs[d].amount)

LEMMA SentStep == ASSUME IInv, Sent, [Next]_vars PROVE Sent'
<1> USE CreationAssumption
    DEF Sent, IInv, TypeOK, DocsFit, Inserted, Doc, Asked, req, Goto, Respond, Fail
<1>1. ASSUME NEW r \in Requests, NEW q \in Asked, Look(r, q) PROVE Sent'
  BY <1>1 DEF Look
<1>2. ASSUME NEW r \in Requests, ReadTenant(r) PROVE Sent'
  BY <1>2 DEF ReadTenant
<1>3. ASSUME NEW r \in Requests, TakeNo(r) PROVE Sent'
  BY <1>3 DEF TakeNo
<1>4. ASSUME NEW r \in Requests, Insert(r) PROVE Sent'
  BY <1>4 DEF Insert
<1>5. ASSUME NEW r \in Requests, Tell(r) PROVE Sent'
  BY <1>5 DEF Tell
<1>6. ASSUME NEW d \in Requests, SendTransfer(d) PROVE Sent'
  BY <1>6 DEF SendTransfer
<1>7. CASE Crash
  BY <1>7 DEF Crash
<1>8. CASE UNCHANGED vars
  BY <1>8 DEF vars
<1> HIDE DEF Sent
<1> QED
  BY <1>1, <1>2, <1>3, <1>4, <1>5, <1>6, <1>7, <1>8 DEF Next

\* The three amounts of every transfer add up to what its creator asked for.
THEOREM WireIsRight == Spec => []WireAddsUp
<1>1. Init => Sent
  BY DEF Init, Sent
<1>2. IInv /\ Sent => WireAddsUp
  <2> SUFFICES ASSUME IInv, Sent, NEW d \in Requests, wire[d] # None
               PROVE  /\ wire[d].amount = asked[d].amount
                      /\ wire[d].commission + wire[d].settlement = wire[d].amount
                      /\ IsNearest(wire[d].commission, wire[d].amount)
    BY DEF WireAddsUp
  <2>1. docs[d].amount \in Nat /\ docs[d].amount = asked[d].amount
    BY CreationAssumption DEF IInv, Sent, DocsFit, TypeOK, Doc
  <2>2. SplitsWell(docs[d].amount)
    BY <2>1, SplitIsRight
  <2> QED
    BY <2>1, <2>2 DEF Sent, SplitsWell
<1> QED
  BY <1>1, <1>2, SentStep, IInvAlways, PTL DEF Spec

-----------------------------------------------------------------------------
(* Listings and Dashboard.                                                 *)

ListNames ==
  {"transactions", "users", "tenants", "cards", "audit", "terminals", "allTerminals", "userCards"}
LEMMA WalksNamed == DOMAIN Walks = ListNames
  BY DEF Walks, ListNames

Marks == {"tenant", "customer", "super_admin"}

\* Every list reads pages with a count, or all at once.
LEMMA WalksTyped ==
  ASSUME list \in DOMAIN Walks
  PROVE  /\ ThisWalk.of \in SUBSET Marks /\ ThisWalk.drops \in SUBSET Marks
         /\ ThisWalk.reads \in {ByPage, Whole} /\ ThisWalk.filters \in SUBSET AnyFilter
         /\ list = "terminals" => "tenant" \in ThisWalk.of
<1> DEFINE Names == {"transactions", "users", "tenants", "cards", "audit", "terminals", "allTerminals", "userCards"}
<1>1. list \in Names
  BY DEF Walks
<1> QED
  BY <1>1 DEF ThisWalk, Walks, Walk, TransactionsByPage, UsersByPage, TenantsByPage, CardsByPage,
              EventsByPage, TerminalsOfTenant, EveryTerminal, CardsOfUser, Marks, AnyFilter

\* What was read was stored and of the list, and so can be opened.
ListsPlaced ==
  /\ pending \subseteq ThisWalk.reads
  /\ found \cup seen \subseteq {d \in Stored : Listed(d)}
  /\ missing = {}
  /\ due \subseteq Stored
  /\ lpc = "idle" => page = 1

Position(d) == Cardinality(Before(d))

\* How far a client is through its pages: a document that it still waits for is not before
\* its page, and the count is of a list that is long enough for it.
ToCome(d) ==
  /\ Position(d) >= (page - 1) * Limit
  /\ "find" \notin pending => d \in found \/ Position(d) >= page * Limit
  /\ pending = {} /\ ~raced => d \in found \/ total > page * Limit
OnItsWay ==
  ~left /\ lpc = "reading" =>
    /\ due \subseteq Matching
    /\ ThisWalk.reads = Whole /\ pending = {} => due \subseteq found
    /\ ThisWalk.reads = ByPage =>
         /\ \A d \in Shown(due) \ seen : ToCome(d)
         /\ pending = {"find"} /\ ~raced => total = Cardinality(Matching)
Through == lpc = "done" /\ ~left /\ ~raced => Shown(due) \subseteq seen

ListInv == LTypeOK /\ ListsPlaced /\ OnItsWay /\ Through

LEMMA DocumentsCounted == Cardinality(Documents) \in Nat
  BY ListAssumption, FS_CardinalityType

\* A document has fewer before it in its list than the list is long.
LEMMA PositionsFit ==
  ASSUME LTypeOK
  PROVE  /\ IsFiniteSet(Matching) /\ Cardinality(Matching) \in Nat
         /\ \A d \in Matching : Position(d) \in Nat /\ Position(d) < Cardinality(Matching)
<1>1. IsFiniteSet(Matching)
  <2>1. Matching \in SUBSET Documents
    BY DEF Matching, Stored
  <2> QED
    BY <2>1, ListAssumption, FS_Subset
<1>2. Cardinality(Matching) \in Nat
  BY <1>1, FS_CardinalityType
<1>3. ASSUME NEW d \in Matching PROVE Position(d) \in Nat /\ Position(d) < Cardinality(Matching)
  <2>1. Before(d) \in SUBSET Matching /\ d \notin Before(d)
    <3>1. stored[d].at \in Nat
      BY DocumentsCounted DEF LTypeOK, Matching, Stored, Document, Moments
    <3> QED
      BY <3>1 DEF Before
  <2>2. IsFiniteSet(Before(d)) /\ Cardinality(Before(d)) <= Cardinality(Matching)
        /\ Cardinality(Before(d)) # Cardinality(Matching)
    BY <1>1, <2>1, FS_Subset
  <2>3. Cardinality(Before(d)) \in Nat
    BY <2>2, FS_CardinalityType
  <2> QED
    BY <1>2, <2>2, <2>3 DEF Position
<1> QED
  BY <1>1, <1>2, <1>3

\* hasMore says so as long as the count is past the page.
LEMMA MoreIsSaid ==
  ASSUME NEW p \in Nat \ {0}, NEW n \in Nat, n > p * Limit
  PROVE  HasMore(p, n)
<1> DEFINE q == (n + Limit - 1) \div Limit
<1>1. Limit \in Nat \ {0}
  BY ListAssumption
<1>2. p < q
  <2>1. \A a, b \in Int : b > 0 => (a \div b) \in Int /\ b * (a \div b) <= a /\ a < b * (a \div b) + b
    OBVIOUS
  <2>2. q \in Int /\ n + Limit - 1 < Limit * q + Limit
    BY <1>1, <2>1
  <2> HIDE DEF q
  <2>3. p * Limit + Limit <= n + Limit - 1
    BY <1>1
  <2>4. p * Limit < Limit * q
    BY <1>1, <2>2, <2>3
  <2> QED
    BY <1>1, <2>2, <2>4
<1>3. (p - 1) * Limit + Limit = p * Limit
  BY <1>1
<1> QED
  BY <1>2, <1>3 DEF HasMore

LEMMA ListInvHolds == LInit => ListInv
<1> SUFFICES ASSUME LInit PROVE ListInv
  OBVIOUS
<1> USE ListAssumption DEF LInit
<1>1. LTypeOK
  <2>1. stored \in [Documents -> Document \cup {NoDocument}]
    OBVIOUS
  <2>2. list \in DOMAIN Walks /\ viewer \in Viewers /\ lfaults \in ListFaults
    OBVIOUS
  <2>3. lpc \in {"idle", "reading", "done", "failed"} /\ query \in Queries /\ page \in Nat \ {0}
    BY DEF Queries
  <2>4. pending \in SUBSET {"find", "count"} /\ found \in SUBSET Documents /\ total \in Nat
        /\ seen \in SUBSET Documents /\ missing \in SUBSET Documents /\ due \in SUBSET Documents
        /\ left \in BOOLEAN /\ raced \in BOOLEAN
    OBVIOUS
  <2> QED
    BY <2>1, <2>2, <2>3, <2>4 DEF LTypeOK
<1>2. ListsPlaced
  BY WalksTyped DEF ListsPlaced
<1>3. OnItsWay /\ Through
  BY DEF OnItsWay, Through
<1> QED
  BY <1>1, <1>2, <1>3 DEF ListInv

\* What a write to the collection leaves of what it found.
Grows ==
  /\ UNCHANGED <<lfixed, lwalk>> /\ Disturbs
  /\ stored' \in [Documents -> Document \cup {NoDocument}]
  /\ \A d \in Stored : d \in Stored' /\ stored'[d].marks = stored[d].marks /\ stored'[d].at = stored[d].at

LEMMA WritesGrow ==
  ASSUME LTypeOK, NEW d \in Documents, Store(d) \/ ChangeState(d)
  PROVE  Grows
<1> USE ListAssumption
<1>1. CASE Store(d)
  <2>1. ThisWalk.of \in SUBSET Marks /\ ThisWalk.drops \in SUBSET Marks
    BY WalksTyped DEF LTypeOK
  <2>2. PICK m \in SUBSET (ThisWalk.of \cup ThisWalk.drops), s \in States, t \in Moments :
          stored' = [stored EXCEPT ![d] = [marks |-> m, state |-> s, at |-> t]]
    BY <1>1 DEF Store
  <2>3. [marks |-> m, state |-> s, at |-> t] \in Document
    BY <2>1 DEF Document, Marks
  <2> DEFINE doc == [marks |-> m, state |-> s, at |-> t]
  <2>4. stored' = [stored EXCEPT ![d] = doc] /\ doc \in Document /\ doc # NoDocument
    BY <2>2, <2>3
  <2> HIDE DEF doc
  <2> QED
    BY <1>1, <2>4 DEF Store, Grows, LTypeOK, Stored
<1>2. CASE ChangeState(d)
  <2>1. stored[d] \in Document
    BY <1>2 DEF ChangeState, Stored, LTypeOK
  <2>2. PICK s \in States : stored' = [stored EXCEPT ![d].state = s]
    BY <1>2 DEF ChangeState
  <2> DEFINE doc == [stored[d] EXCEPT !.state = s]
  <2>3. doc \in Document /\ doc.marks = stored[d].marks /\ doc.at = stored[d].at
    BY <2>1 DEF Document
  <2>4. stored' = [stored EXCEPT ![d] = doc] /\ doc # NoDocument
    BY <2>2, <2>3
  <2> HIDE DEF doc
  <2> QED
    BY <1>2, <2>3, <2>4 DEF ChangeState, Grows, LTypeOK, Stored
<1> QED
  BY <1>1, <1>2

\* The list a client goes through stays the same.
LEMMA WalkStays == ASSUME UNCHANGED lfixed PROVE Walks' = Walks /\ ThisWalk' = ThisWalk /\ list' = list
  BY DEF ThisWalk, Walks, TransactionsByPage, UsersByPage, TenantsByPage, CardsByPage,
         EventsByPage, TerminalsOfTenant, EveryTerminal, CardsOfUser, lfixed

LEMMA GrowsTyped == ASSUME LTypeOK, Grows PROVE LTypeOK'
<1>1. UNCHANGED <<lfixed, lwalk>> /\ left' \in BOOLEAN /\ raced' \in BOOLEAN
  BY DEF Grows, Disturbs
<1>2. list' \in DOMAIN Walks'
  BY <1>1, WalkStays DEF LTypeOK
<1> QED
  BY <1>1, <1>2 DEF Grows, LTypeOK, lfixed, lwalk

\* Under a write nothing leaves the list unless it is noted, and nobody gets further forward.
LEMMA ListsGrow ==
  ASSUME LTypeOK, Grows, lpc = "reading", ~left'
  PROVE  /\ LTypeOK' /\ Matching \subseteq Matching' /\ ~left
         /\ Cardinality(Matching) <= Cardinality(Matching')
         /\ \A d \in Matching : Position(d) \in Nat /\ Position(d)' \in Nat /\ Position(d) <= Position(d)'
         /\ pending = {"find"} /\ ~raced' => Matching' = Matching /\ ~raced
         /\ ~raced' => ~raced
<1>1. LTypeOK'
  BY GrowsTyped
<1>2. ~left /\ Matching \subseteq Matching' /\ (~raced' => ~raced)
      /\ (pending = {"find"} /\ ~raced' => Matching' \subseteq Matching)
  BY DEF Grows, Disturbs
<1>3. /\ IsFiniteSet(Matching) /\ Cardinality(Matching) \in Nat
      /\ \A d \in Matching : Position(d) \in Nat /\ Position(d) < Cardinality(Matching)
  BY PositionsFit
<1>4. /\ IsFiniteSet(Matching') /\ Cardinality(Matching') \in Nat
      /\ \A d \in Matching' : Position(d)' \in Nat
  <2>1. LTypeOK' => (/\ IsFiniteSet(Matching) /\ Cardinality(Matching) \in Nat
                     /\ \A d \in Matching : Position(d) \in Nat /\ Position(d) < Cardinality(Matching))'
    BY PositionsFit, PTL
  <2> QED
    BY <1>1, <2>1
<1>5. Cardinality(Matching) <= Cardinality(Matching')
  BY <1>2, <1>4, FS_Subset
<1>6. ASSUME NEW d \in Matching PROVE Position(d) <= Position(d)'
  <2>1. Before(d) \subseteq Before(d)'
    BY <1>2 DEF Before, Matching, Grows
  <2>2. Before(d)' \subseteq Matching'
    BY DEF Before
  <2>3. IsFiniteSet(Before(d)')
    BY <1>4, <2>2, FS_Subset
  <2> QED
    BY <2>1, <2>3, FS_Subset DEF Position
<1> QED
  BY <1>1, <1>2, <1>3, <1>4, <1>5, <1>6

LEMMA WritesKeep == ASSUME ListInv, Grows PROVE ListInv'
<1>0. LTypeOK /\ ListsPlaced /\ OnItsWay /\ Through /\ UNCHANGED <<lfixed, lwalk>>
  BY DEF ListInv, Grows
<1>1. LTypeOK' /\ ThisWalk' = ThisWalk
  BY <1>0, GrowsTyped, WalkStays
<1>2. \A d \in Stored : d \in Stored' /\ (Listed(d) => Listed(d)')
  BY <1>1 DEF Grows, Listed
<1>3. ListsPlaced'
  BY <1>0, <1>1, <1>2 DEF ListsPlaced, lwalk
<1>4. Shown(due)' = Shown(due)
  BY <1>0, <1>1 DEF Shown, ListsPlaced, Grows, lwalk
<1>5. OnItsWay'
  <2> SUFFICES ASSUME ~left', lpc' = "reading" PROVE OnItsWay'
    BY DEF OnItsWay
  <2>1. lpc = "reading" /\ UNCHANGED lwalk
    BY <1>0 DEF lwalk
  <2>2. /\ ~left /\ Matching \subseteq Matching'
        /\ \A d \in Matching : Position(d) \in Nat /\ Position(d)' \in Nat /\ Position(d) <= Position(d)'
        /\ pending = {"find"} /\ ~raced' => Matching' = Matching /\ ~raced
        /\ ~raced' => ~raced
    BY <1>0, <2>1, ListsGrow
  <2>3. due' \subseteq Matching' /\ (ThisWalk'.reads = Whole /\ pending' = {} => due' \subseteq found')
    BY <1>0, <1>1, <2>1, <2>2 DEF OnItsWay, lwalk
  <2>4. ASSUME ThisWalk.reads = ByPage, NEW d \in Shown(due) \ seen PROVE ToCome(d)'
    <3>1. ToCome(d) /\ d \in Matching
      BY <1>0, <2>1, <2>2, <2>4 DEF OnItsWay, Shown
    <3>2. page \in Nat /\ Limit \in Nat
      BY <1>0, ListAssumption DEF LTypeOK
    <3>3. page' = page /\ pending' = pending /\ found' = found /\ total' = total
      BY <2>1 DEF lwalk
    <3> DEFINE a == (page - 1) * Limit
               b == page * Limit
    <3>4. a \in Int /\ b \in Int
      BY <3>2
    <3>5. Position(d)' >= a /\ ("find" \notin pending => d \in found \/ Position(d)' >= b)
          /\ (pending = {} /\ ~raced' => d \in found \/ total > b)
      <4> HIDE DEF a, b
      <4>1. Position(d) >= a /\ ("find" \notin pending => d \in found \/ Position(d) >= b)
            /\ (pending = {} /\ ~raced => d \in found \/ total > b)
        BY <3>1 DEF ToCome, a, b
      <4>2. Position(d) \in Nat /\ Position(d)' \in Nat /\ Position(d) <= Position(d)' /\ (~raced' => ~raced)
        BY <2>2, <3>1
      <4> QED
        BY <3>4, <4>1, <4>2
    <3> QED
      BY <3>3, <3>5 DEF ToCome
  <2>5. ThisWalk.reads = ByPage /\ pending = {"find"} /\ ~raced' => total = Cardinality(Matching')
    BY <1>0, <2>1, <2>2 DEF OnItsWay
  <2> QED
    BY <1>1, <1>4, <2>1, <2>3, <2>4, <2>5 DEF OnItsWay, lwalk
<1>6. Through'
  BY <1>0, <1>4 DEF Through, Grows, Disturbs, lwalk
<1> QED
  BY <1>1, <1>3, <1>5, <1>6 DEF ListInv

\* The steps of the client write nothing.
ClientStep ==
  Find \/ Count \/ Answer \/ ReadFails \/ (\E q \in Queries : Ask(q)) \/ (\E d \in Documents : Open(d))

LEMMA ClientTyped == ASSUME LTypeOK, ListsPlaced, ClientStep PROVE LTypeOK' /\ ListsPlaced'
<1> USE ListAssumption
<1>0. LTypeOK /\ ListsPlaced
  OBVIOUS
<1>1. UNCHANGED <<lfixed, stored>> /\ list' \in DOMAIN Walks' /\ ThisWalk' = ThisWalk
  BY WalkStays DEF ClientStep, Find, Count, Answer, ReadFails, Ask, Open, LTypeOK
<1>2. ThisWalk.reads \in {ByPage, Whole} /\ ThisWalk.reads \subseteq {"find", "count"}
      /\ (list = "terminals" => "tenant" \in ThisWalk.of)
  BY WalksTyped DEF LTypeOK, ByPage, Whole
<1>3. Matching \subseteq {d \in Stored : Listed(d)} /\ Page(page) \subseteq Matching
      /\ Cardinality(Matching) \in Nat
  BY PositionsFit DEF Matching, Page, First
<1>4. \A d \in Documents : Listed(d)' = Listed(d)
  BY <1>1 DEF Listed
<1>5. ASSUME Find PROVE LTypeOK' /\ ListsPlaced'
  BY <1>1, <1>2, <1>3, <1>4, <1>5 DEF Find, LTypeOK, ListsPlaced, Stored, lfixed
<1>6. ASSUME Count PROVE LTypeOK' /\ ListsPlaced'
  BY <1>1, <1>2, <1>3, <1>4, <1>6 DEF Count, LTypeOK, ListsPlaced, Stored, lfixed
<1>7. ASSUME Answer PROVE LTypeOK' /\ ListsPlaced'
  <2>1. Shown(found) \subseteq found
    BY DEF Shown
  <2>2. page' \in {page, page + 1} /\ pending' \in {pending, ThisWalk.reads} /\ raced' \in {raced, FALSE}
        /\ lpc' \in {"reading", "done"}
    BY <1>7 DEF Answer
  <2>3. page' \in Nat \ {0} /\ pending' \subseteq ThisWalk.reads /\ raced' \in BOOLEAN
    <3>1. page \in Nat \ {0} /\ pending \subseteq ThisWalk.reads /\ raced \in BOOLEAN
      BY <1>0 DEF LTypeOK, ListsPlaced
    <3>2. page + 1 \in Nat \ {0}
      BY <3>1
    <3> QED
      BY <2>2, <3>1, <3>2
  <2> QED
    BY <1>1, <1>2, <1>4, <1>7, <2>1, <2>2, <2>3 DEF Answer, LTypeOK, ListsPlaced, Stored, lfixed
<1>8. ASSUME ReadFails PROVE LTypeOK' /\ ListsPlaced'
  BY <1>1, <1>4, <1>8 DEF ReadFails, LTypeOK, ListsPlaced, Stored, lfixed
<1>9. ASSUME NEW q \in Queries, Ask(q) PROVE LTypeOK' /\ ListsPlaced'
  <2>1. query' \in Queries
    BY <1>9 DEF Ask, Filter, Queries
  <2>2. due' \subseteq Stored
    BY <1>1, <1>9 DEF Ask, Matching, Stored
  <2> QED
    BY <1>1, <1>2, <1>4, <1>9, <2>1, <2>2 DEF Ask, LTypeOK, ListsPlaced, Stored, lfixed
<1>10. ASSUME NEW d \in Documents, Open(d) PROVE LTypeOK' /\ ListsPlaced'
  <2>1. CanOpen(d)
    BY <1>2, <1>10 DEF Open, CanOpen, ListsPlaced, Listed
  <2>2. missing' = {}
    BY <1>10, <2>1 DEF Open, ListsPlaced, CanOpen
  <2> QED
    BY <1>1, <1>4, <1>10, <2>2 DEF Open, LTypeOK, ListsPlaced, Stored, lfixed
<1> QED
  BY <1>5, <1>6, <1>7, <1>8, <1>9, <1>10 DEF ClientStep

LEMMA ClientKeeps == ASSUME ListInv, ClientStep PROVE ListInv'
<1> USE ListAssumption
<1>0. LTypeOK /\ ListsPlaced /\ OnItsWay /\ Through
  BY DEF ListInv
<1>1. LTypeOK' /\ ListsPlaced'
  BY <1>0, ClientTyped
<1>2. UNCHANGED <<lfixed, stored>> /\ ThisWalk' = ThisWalk
  BY WalkStays DEF ClientStep, Find, Count, Answer, ReadFails, Ask, Open
<1>3. \A d : Listed(d)' = Listed(d)
  BY <1>2 DEF Listed
<1>4. query' = query => Matching' = Matching /\ \A d : Position(d)' = Position(d) /\ Before(d)' = Before(d)
  BY <1>2, <1>3 DEF Matching, Stored, Position, Before
<1>5. page \in Nat \ {0} /\ Limit \in Nat \ {0} /\ ThisWalk.reads \in {ByPage, Whole}
      /\ ByPage # Whole /\ ~(ByPage \subseteq {"find"})
  BY <1>0, WalksTyped DEF LTypeOK, ByPage, Whole
<1>6. /\ Cardinality(Matching) \in Nat
      /\ \A d \in Matching : Position(d) \in Nat /\ Position(d) < Cardinality(Matching)
  BY <1>0, PositionsFit
<1>7. /\ page * Limit \in Nat /\ (page - 1) * Limit \in Nat
  BY <1>5
<1>8. ASSUME Find PROVE OnItsWay' /\ Through'
  <2>1. /\ lpc = "reading" /\ "find" \in pending /\ pending' = pending \ {"find"}
        /\ UNCHANGED <<lpc, query, page, total, seen, due, left, raced>>
        /\ found' = IF ThisWalk.reads = Whole THEN Matching ELSE Page(page)
    BY <1>8 DEF Find
  <2>2. Shown(due)' = Shown(due) /\ Shown(due) \subseteq due /\ Matching' = Matching
    BY <1>2, <1>4, <2>1 DEF Shown
  <2>3. ASSUME ~left, ThisWalk.reads = ByPage, NEW d \in Shown(due) \ seen PROVE ToCome(d)'
    <3>1. ToCome(d) /\ d \in Matching /\ (pending = {"find"} /\ ~raced => total = Cardinality(Matching))
      BY <1>0, <2>1, <2>2, <2>3 DEF OnItsWay
    <3>2. Position(d) < page * Limit => d \in found'
      BY <1>5, <1>6, <1>7, <2>1, <2>3, <3>1 DEF ToCome, Page, First, Position
    <3>3. pending' = {} => pending = {"find"}
      BY <2>1
    <3>4. Position(d) >= (page - 1) * Limit /\ Position(d) \in Nat /\ Position(d) < Cardinality(Matching)
      BY <1>6, <3>1 DEF ToCome
    <3>5. Position(d)' = Position(d)
      BY <1>4, <2>1
    <3> HIDE DEF Position
    <3> QED
      BY <1>6, <1>7, <2>1, <3>1, <3>2, <3>3, <3>4, <3>5 DEF ToCome
  <2>4. OnItsWay'
    BY <1>0, <1>2, <1>5, <2>1, <2>2, <2>3 DEF OnItsWay
  <2> QED
    BY <2>1, <2>4 DEF Through
<1>9. ASSUME Count PROVE OnItsWay' /\ Through'
  <2>1. /\ lpc = "reading" /\ "count" \in pending /\ pending' = pending \ {"count"}
        /\ UNCHANGED <<lpc, query, page, found, seen, due, left, raced>>
        /\ total' = Cardinality(Matching)
    BY <1>9 DEF Count
  <2>2. Shown(due)' = Shown(due) /\ Shown(due) \subseteq due /\ Matching' = Matching
    BY <1>2, <1>4, <2>1 DEF Shown
  <2>3. ThisWalk.reads = ByPage
    BY <1>0, <1>5, <2>1 DEF ListsPlaced, Whole
  <2>4. ASSUME ~left, NEW d \in Shown(due) \ seen PROVE ToCome(d)'
    <3>1. ToCome(d) /\ d \in Matching
      BY <1>0, <2>1, <2>2, <2>3, <2>4 DEF OnItsWay
    <3>2. Position(d) \in Nat /\ Position(d) < Cardinality(Matching) /\ Position(d)' = Position(d)
      BY <1>4, <1>6, <2>1, <3>1
    <3> HIDE DEF Position
    <3> QED
      BY <1>6, <1>7, <2>1, <3>1, <3>2 DEF ToCome
  <2>5. OnItsWay'
    BY <1>0, <1>2, <1>5, <2>1, <2>2, <2>3, <2>4 DEF OnItsWay
  <2> QED
    BY <2>1, <2>5 DEF Through
<1>10. ASSUME Answer PROVE OnItsWay' /\ Through'
  <2>1. /\ lpc = "reading" /\ pending = {} /\ seen' = seen \cup Shown(found)
        /\ UNCHANGED <<query, due, left>>
    BY <1>10 DEF Answer
  <2>2. Shown(due)' = Shown(due) /\ Matching' = Matching /\ due \cap found \cap Shown(due) \subseteq Shown(found)
        /\ Shown(due) \subseteq due
    BY <1>2, <1>4, <2>1 DEF Shown
  <2>3. CASE ThisWalk.reads = ByPage /\ HasMore(page, total)
    <3>1. page' = page + 1 /\ pending' = ThisWalk.reads /\ lpc' = "reading"
      BY <1>10, <2>1, <2>3 DEF Answer
    <3>2. ASSUME ~left, NEW d \in Shown(due) \ seen' PROVE ToCome(d)'
      <4>1. ToCome(d) /\ d \notin found
        BY <1>0, <2>1, <2>2, <2>3, <3>2 DEF OnItsWay
      <4>2. Position(d) >= page * Limit /\ Position(d)' = Position(d)
        BY <1>4, <2>1, <4>1 DEF ToCome
      <4>3. (page' - 1) * Limit = page * Limit
        BY <1>5, <3>1
      <4>4. "find" \in pending'
        BY <2>3, <3>1 DEF ByPage
      <4> HIDE DEF Position
      <4> QED
        BY <4>2, <4>3, <4>4 DEF ToCome
    <3> QED
      BY <1>0, <1>2, <1>5, <2>1, <2>2, <2>3, <3>1, <3>2 DEF OnItsWay, Through
  <2>4. CASE ~(ThisWalk.reads = ByPage /\ HasMore(page, total))
    <3>1. lpc' = "done" /\ raced' = raced
      BY <1>10, <2>4 DEF Answer
    <3>2. ASSUME ~left, ~raced, NEW d \in Shown(due), d \notin seen PROVE d \in found
      <4>1. CASE ThisWalk.reads = Whole
        BY <1>0, <2>1, <2>2, <3>2, <4>1 DEF OnItsWay
      <4>2. CASE ThisWalk.reads = ByPage
        <5>1. d \in found \/ total > page * Limit
          BY <1>0, <2>1, <2>2, <3>2, <4>2 DEF OnItsWay, ToCome
        <5>2. ~(total > page * Limit)
          BY <1>0, <1>5, <2>4, <4>2, MoreIsSaid DEF LTypeOK
        <5> QED
          BY <5>1, <5>2
      <4> QED
        BY <1>5, <4>1, <4>2
    <3> QED
      BY <2>1, <2>2, <3>1, <3>2 DEF OnItsWay, Through
  <2> QED
    BY <2>3, <2>4
<1>11. ASSUME NEW q \in Queries, Ask(q) PROVE OnItsWay' /\ Through'
  <2>1. lpc' = "reading" /\ pending' = ThisWalk.reads /\ due' = Matching' /\ page' = 1
    BY <1>0, <1>11 DEF Ask, ListsPlaced
  <2>2. LTypeOK' => (/\ IsFiniteSet(Matching) /\ Cardinality(Matching) \in Nat
                     /\ \A d \in Matching : Position(d) \in Nat /\ Position(d) < Cardinality(Matching))'
    BY PositionsFit, PTL
  <2>3. ASSUME NEW d \in Shown(due)', ThisWalk.reads = ByPage PROVE ToCome(d)'
    <3>1. Position(d)' \in Nat
      BY <1>1, <2>1, <2>2 DEF Shown
    <3>2. (page' - 1) * Limit = 0 /\ "find" \in pending'
      BY <1>5, <2>1, <2>3 DEF ByPage
    <3> HIDE DEF Position
    <3> QED
      BY <3>1, <3>2 DEF ToCome
  <2> QED
    BY <1>2, <1>5, <2>1, <2>3 DEF OnItsWay, Through, Whole
<1>12. ASSUME ReadFails \/ (\E d \in Documents : Open(d)) PROVE OnItsWay' /\ Through'
  BY <1>0, <1>2, <1>12 DEF ReadFails, Open, OnItsWay, Through, Shown
<1> QED
  BY <1>1, <1>8, <1>9, <1>10, <1>11, <1>12 DEF ClientStep, ListInv

LEMMA ListInvKept == ListInv /\ [LNext]_lvars => ListInv'
<1> SUFFICES ASSUME ListInv, [LNext]_lvars PROVE ListInv'
  OBVIOUS
<1>1. ASSUME NEW d \in Documents, Store(d) \/ ChangeState(d) PROVE ListInv'
  BY <1>1, WritesGrow, WritesKeep DEF ListInv
<1>2. CASE ClientStep
  BY <1>2, ClientKeeps
<1>3. CASE UNCHANGED lvars
  <2>1. UNCHANGED <<lfixed, lwalk, stored, left, raced>> /\ ThisWalk' = ThisWalk
    BY <1>3, WalkStays DEF lvars
  <2>2. Stored' = Stored /\ Matching' = Matching
    BY <2>1 DEF Matching, Stored, Listed, lwalk
  <2>3. left \in BOOLEAN /\ raced \in BOOLEAN /\ stored \in [Documents -> Document \cup {NoDocument}]
    BY DEF ListInv, LTypeOK
  <2>4. Disturbs
    BY <2>1, <2>2, <2>3 DEF Disturbs
  <2> QED
    BY <2>1, <2>2, <2>3, <2>4, WritesKeep DEF Grows
<1> QED
  BY <1>1, <1>2, <1>3 DEF LNext, ClientStep

LEMMA ListInvAlways == LSpec => []ListInv
  BY ListInvHolds, ListInvKept, PTL DEF LSpec

\* Every variable of a list and of its client keeps its type.
THEOREM ListsTypeCorrect == LSpec => []LTypeOK
<1>1. ListInv => LTypeOK
  BY DEF ListInv
<1> QED
  BY <1>1, ListInvAlways, PTL

\* However many documents there are and however long a page is: a client that goes through
\* a list sees every document that stays in it, though the pages move while it reads, and
\* can open what it saw.
THEOREM NothingIsMissed == LSpec => []WalksMissNothing
<1>1. ListInv => WalksMissNothing
  BY DEF ListInv, Through, ListsPlaced, WalksMissNothing
<1> QED
  BY <1>1, ListInvAlways, PTL

-----------------------------------------------------------------------------
(* Dashboard: the figures of an answer.                                    *)

\* Until a transaction of the two periods is stored between two reads, what was read is
\* what would be read now; once all are read they stay as they are.
FiguresCurrent ==
  bpc = "reading" /\ ~stirred /\ unread # {} => \A f \in Figures \ unread : figures[f] = Counts(f)
FiguresAgree ==
  bpc \in {"reading", "200"} /\ ~stirred =>
    /\ \A f, g \in Figures \ (unread \cup {"before"}) : figures[f] = figures[g]
    /\ "trend" \notin unread => failed \subseteq figures["trend"]
    /\ {"count", "before"} \cap unread = {} => figures["count"] \cap figures["before"] = {}

BInv == BTypeOK /\ LTypeOK /\ FiguresCurrent /\ FiguresAgree /\ (bpc = "200" => unread = {})

LEMMA BInvHolds == BInit => BInv
<1> SUFFICES ASSUME BInit PROVE BInv
  OBVIOUS
<1>1. LTypeOK
  BY ListInvHolds DEF BInit, ListInv
<1>2. period \in Period
  <2>1. 1 \in Moments
    BY DocumentsCounted, ListAssumption, DashboardAssumption, FS_EmptySet DEF Moments
  <2> QED
    BY <2>1 DEF BInit, FiguresStart, Period
<1>3. BTypeOK
  BY <1>2 DEF BInit, FiguresStart, BTypeOK
<1>4. FiguresCurrent /\ FiguresAgree /\ bpc # "200"
  BY DEF BInit, FiguresStart, FiguresCurrent, FiguresAgree
<1> QED
  BY <1>1, <1>3, <1>4 DEF BInv

\* Neither a change of state nor a transaction of another time moves one in or out of the
\* periods.
LEMMA PeriodsStay ==
  ASSUME BTypeOK, LTypeOK, Grows, UNCHANGED period,
         InPeriod' \cup InPeriodBefore' \subseteq InPeriod \cup InPeriodBefore
  PROVE  \A f : Counts(f)' = Counts(f)
<1>1. \A d \in Counted : d \in Counted' /\ stored'[d].at = stored[d].at
  BY DEF Grows, Counted
<1>2. \A d \in Counted' : d \in Stored => d \in Counted
  BY DEF Grows, Counted
<1>3. InPeriod' = InPeriod /\ InPeriodBefore' = InPeriodBefore
  <2>1. InPeriod \subseteq InPeriod' /\ InPeriodBefore \subseteq InPeriodBefore'
    BY <1>1 DEF InPeriod, InPeriodBefore
  <2>2. \A d \in InPeriod' \cup InPeriodBefore' : d \in Counted
    BY DEF InPeriod, InPeriodBefore
  <2> QED
    BY <1>1, <2>1, <2>2 DEF InPeriod, InPeriodBefore
<1> QED
  BY <1>3 DEF Counts

\* The period and the one before it have no moment in common.
LEMMA PeriodsApart == ASSUME BTypeOK, LTypeOK PROVE InPeriod \cap InPeriodBefore = {}
<1>1. ASSUME NEW d \in InPeriod \cap InPeriodBefore PROVE FALSE
  <2>1. stored[d].at \in Int /\ period.from \in Int
    BY DocumentsCounted DEF InPeriod, Counted, Stored, LTypeOK, Document, Moments, BTypeOK, Period
  <2> QED
    BY <2>1 DEF InPeriod, InPeriodBefore
<1> QED
  BY <1>1

LEMMA BInvKept == BInv /\ [BNext]_<<lvars, bvars>> => BInv'
<1> SUFFICES ASSUME BInv, [BNext]_<<lvars, bvars>> PROVE BInv'
  OBVIOUS
<1> USE ListAssumption, DashboardAssumption
<1>0. BTypeOK /\ LTypeOK /\ FiguresCurrent /\ FiguresAgree /\ (bpc = "200" => unread = {})
  BY DEF BInv
<1>1. UNCHANGED lvars => LTypeOK' /\ (period' = period => \A f : Counts(f)' = Counts(f))
  <2> SUFFICES ASSUME UNCHANGED lvars PROVE LTypeOK' /\ (period' = period => \A f : Counts(f)' = Counts(f))
    OBVIOUS
  <2>1. list' \in DOMAIN Walks'
    BY <1>0, WalkStays DEF lvars, LTypeOK
  <2>2. LTypeOK'
    BY <1>0, <2>1 DEF lvars, lfixed, lwalk, LTypeOK
  <2>3. stored' = stored
    BY DEF lvars
  <2>4. ASSUME period' = period PROVE InPeriod' = InPeriod /\ InPeriodBefore' = InPeriodBefore
    BY <2>3, <2>4 DEF InPeriod, InPeriodBefore, Counted, Stored
  <2> QED
    BY <2>2, <2>4 DEF Counts
<1>2. \A f : Counts(f) \subseteq Documents
  BY DEF Counts, InPeriod, InPeriodBefore, Counted, Stored
<1>3. ASSUME NEW p \in Period, AskFigures(p) PROVE BInv'
  <2>1. LTypeOK' /\ UNCHANGED <<figures, failed, stirred>> /\ bpc = "idle"
    BY <1>1, <1>3 DEF AskFigures
  <2>2. \/ bpc' \in {"400", "403", "500"} /\ UNCHANGED <<period, unread>>
        \/ bpc' = "reading" /\ period' = p /\ unread' = Figures
    BY <1>3 DEF AskFigures
  <2> QED
    BY <1>0, <2>1, <2>2 DEF BInv, BTypeOK, FiguresCurrent, FiguresAgree, Figures
<1>4. ASSUME NEW f \in Figures, ReadFigure(f) PROVE BInv'
  <2>1. /\ LTypeOK' /\ \A g : Counts(g)' = Counts(g)
        /\ bpc = "reading" /\ f \in unread /\ unread' = unread \ {f} /\ UNCHANGED <<bpc, period, stirred>>
        /\ figures' = [figures EXCEPT ![f] = Counts(f)]
        /\ failed' = IF f = "trend" THEN {d \in Counts(f) : stored[d].state \in Failing} ELSE failed
    BY <1>1, <1>4 DEF ReadFigure
  <2>2. BTypeOK'
    BY <1>0, <1>2, <2>1 DEF BTypeOK
  <2>3. ASSUME ~stirred, NEW g \in Figures \ unread' PROVE figures'[g] = Counts(g)
    BY <1>0, <2>1, <2>3 DEF FiguresCurrent, BTypeOK
  <2>4. FiguresCurrent'
    BY <2>1, <2>3 DEF FiguresCurrent
  <2>5. FiguresAgree'
    <3>1. \A g \in Figures \ {"before"} : Counts(g) = InPeriod
      BY DEF Counts
    <3>2. InPeriod \cap Counts("before") = {}
      BY <1>0, PeriodsApart DEF Counts
    <3>3. ~stirred /\ "trend" \notin unread' => failed' \subseteq figures'["trend"]
      BY <1>0, <2>1 DEF FiguresAgree, BTypeOK
    <3> QED
      BY <2>1, <2>3, <3>1, <3>2, <3>3 DEF FiguresAgree, Figures
  <2> QED
    BY <2>1, <2>2, <2>4, <2>5 DEF BInv
<1>5. ASSUME FiguresFail PROVE BInv'
  BY <1>0, <1>1, <1>5 DEF FiguresFail, BInv, BTypeOK, FiguresCurrent, FiguresAgree
<1>6. ASSUME AnswerFigures PROVE BInv'
  BY <1>0, <1>1, <1>6 DEF AnswerFigures, BInv, BTypeOK, FiguresCurrent, FiguresAgree
<1>7. ASSUME NEW d \in Documents, StoreTransaction(d) PROVE BInv'
  <2>1. Grows /\ UNCHANGED <<bpc, period, unread, figures, failed>>
    BY <1>0, <1>7, WritesGrow DEF StoreTransaction
  <2>2. LTypeOK' /\ stirred' \in BOOLEAN
    BY <1>0, <1>7, <2>1, GrowsTyped DEF StoreTransaction
  <2>3. ~stirred' => ~stirred /\ (bpc = "reading" /\ unread \notin {Figures, {}} => \A f : Counts(f)' = Counts(f))
    BY <1>0, <1>7, <2>1, PeriodsStay DEF StoreTransaction
  <2>4. FiguresCurrent'
    BY <1>0, <2>1, <2>3 DEF FiguresCurrent
  <2> QED
    BY <1>0, <2>1, <2>2, <2>3, <2>4 DEF BInv, BTypeOK, FiguresAgree
<1>8. ASSUME NEW d \in Documents, ChangeState(d), UNCHANGED bvars PROVE BInv'
  <2>1. Grows /\ LTypeOK' /\ UNCHANGED bvars
    BY <1>0, <1>8, WritesGrow, GrowsTyped
  <2>2. InPeriod' \cup InPeriodBefore' \subseteq InPeriod \cup InPeriodBefore
    <3>1. Stored' = Stored /\ \A e \in Stored : stored'[e].at = stored[e].at /\ stored'[e].marks = stored[e].marks
      BY <1>0, <1>8, <2>1 DEF ChangeState, Grows, Stored, LTypeOK
    <3> QED
      BY <2>1, <3>1 DEF InPeriod, InPeriodBefore, Counted, bvars
  <2>3. \A f : Counts(f)' = Counts(f)
    BY <1>0, <2>1, <2>2, PeriodsStay DEF bvars
  <2> QED
    BY <1>0, <2>1, <2>3 DEF bvars, BInv, BTypeOK, FiguresCurrent, FiguresAgree
<1>9. ASSUME UNCHANGED <<lvars, bvars>> PROVE BInv'
  BY <1>0, <1>1, <1>9 DEF bvars, BInv, BTypeOK, FiguresCurrent, FiguresAgree
<1> QED
  BY <1>3, <1>4, <1>5, <1>6, <1>7, <1>8, <1>9 DEF BNext

LEMMA BInvAlways == BSpec => []BInv
  BY BInvHolds, BInvKept, PTL DEF BSpec

\* Every variable of the dashboard keeps its type.
THEOREM FiguresTypeCorrect == BSpec => []BTypeOK
<1>1. BInv => BTypeOK
  BY DEF BInv
<1> QED
  BY <1>1, BInvAlways, PTL

\* Unless one of its transactions is stored between the reads, an answer counts the same
\* transactions in each of its figures, and none both in the period and in the one before.
THEOREM FiguresOfOneMoment == BSpec => []FiguresAddUp
<1>1. BInv => FiguresAddUp
  BY DEF BInv, FiguresAgree, FiguresAddUp, Figures
<1> QED
  BY <1>1, BInvAlways, PTL

-----------------------------------------------------------------------------
(* Audit.                                                                  *)

\* What is saved or being saved was logged, and an update goes through events of its
\* request that were young enough when it looked.
EventsPlaced ==
  /\ saving \cap saved = {}
  /\ \A e \in saving \cup saved : e[2] <= logged[e[1]]
  /\ \A c \in Calls :
       /\ apc[c] = "idle" => logged[c] = 0
       /\ todo[c] # {} => apc[c] = "updating"
       /\ \A e \in todo[c] :
            e \in saved /\ id[e[1]] = id[c] /\ searched[c] <= at[e] + Window
AnswersPlaced ==
  \A e \in Events : shows[e] # NoCall =>
    /\ e \in saved /\ apc[shows[e]] \in {"updating", "updated", "over"}
    /\ id[e[1]] = id[shows[e]] /\ searched[shows[e]] <= at[e] + Window
\* An update that found all the events of its request still has those to come to that have
\* no answer.
PromptUpdates ==
  \A c \in Calls : prompt[c] /\ apc[c] \in {"updating", "updated"} =>
    \A i \in 1..logged[c] : shows[<<c, i>>] = NoCall => <<c, i>> \in todo[c]

AuditInv == AuditTypeOK /\ EventsPlaced /\ AnswersPlaced /\ PromptUpdates

LEMMA AuditInvHolds == AuditInit => AuditInv
<1> SUFFICES ASSUME AuditInit PROVE AuditInv
  OBVIOUS
<1> USE AuditAssumption DEF AuditInit
<1>1. AuditTypeOK
  BY DEF AuditTypeOK
<1>2. EventsPlaced
  BY DEF EventsPlaced
<1>3. AnswersPlaced
  BY DEF AnswersPlaced
<1>4. PromptUpdates
  BY DEF PromptUpdates
<1> QED
  BY <1>1, <1>2, <1>3, <1>4 DEF AuditInv

LEMMA AuditInvKept == AuditInv /\ [AuditNext]_auditVars => AuditInv'
<1> SUFFICES ASSUME AuditInv, [AuditNext]_auditVars PROVE AuditInv'
  OBVIOUS
<1> USE AuditAssumption DEF AuditFails, AGoto
<1>0. AuditTypeOK /\ EventsPlaced /\ AnswersPlaced /\ PromptUpdates
  BY DEF AuditInv
<1>1. ASSUME NEW c \in Calls, StartCall(c) PROVE AuditInv'
  <2>1. AuditTypeOK'
    BY <1>0, <1>1 DEF StartCall, AuditTypeOK
  <2>2. \A e \in saving \cup saved : e[1] # c
    BY <1>0, <1>1 DEF StartCall, AuditTypeOK, EventsPlaced, Events
  <2>3. EventsPlaced'
    BY <1>0, <1>1, <2>2 DEF StartCall, AuditTypeOK, EventsPlaced, Events
  <2>4. AnswersPlaced'
    BY <1>0, <1>1, <2>2 DEF StartCall, AuditTypeOK, AnswersPlaced
  <2>5. PromptUpdates'
    BY <1>0, <1>1 DEF StartCall, AuditTypeOK, PromptUpdates
  <2> QED
    BY <2>1, <2>3, <2>4, <2>5 DEF AuditInv
<1>2. ASSUME NEW c \in Calls, LogEvent(c) PROVE AuditInv'
  <2>1. logged'[c] \in 1..MaxEvents /\ logged'[c] = logged[c] + 1 /\ <<c, logged'[c]>> \in Events
    BY <1>0, <1>2 DEF LogEvent, AuditTypeOK, Events
  <2>2. AuditTypeOK'
    BY <1>0, <1>2, <2>1 DEF LogEvent, AuditTypeOK
  <2>3. <<c, logged'[c]>> \notin saving \cup saved
    BY <1>0, <2>1 DEF EventsPlaced, AuditTypeOK
  <2>4. EventsPlaced'
    BY <1>0, <1>2, <2>1, <2>3 DEF LogEvent, AuditTypeOK, EventsPlaced, Events
  <2>5. AnswersPlaced'
    BY <1>0, <1>2, <2>1, <2>3 DEF LogEvent, AuditTypeOK, AnswersPlaced
  <2>6. PromptUpdates'
    BY <1>0, <1>2 DEF LogEvent, AuditTypeOK, PromptUpdates
  <2> QED
    BY <2>2, <2>4, <2>5, <2>6 DEF AuditInv
<1>3. ASSUME NEW c \in Calls, Return(c) \/ Capture(c) PROVE AuditInv'
  <2>1. AuditTypeOK'
    BY <1>0, <1>3 DEF Return, Capture, AuditTypeOK
  <2>2. EventsPlaced'
    BY <1>0, <1>3 DEF Return, Capture, AuditTypeOK, EventsPlaced
  <2>3. AnswersPlaced'
    BY <1>0, <1>3 DEF Return, Capture, AuditTypeOK, AnswersPlaced
  <2>4. PromptUpdates'
    BY <1>0, <1>3 DEF Return, Capture, AuditTypeOK, PromptUpdates
  <2> QED
    BY <2>1, <2>2, <2>3, <2>4 DEF AuditInv
<1>4. ASSUME NEW c \in Calls, FindEvents(c) PROVE AuditInv'
  <2>1. AuditTypeOK'
    <3>1. prompt' \in [Calls -> BOOLEAN]
      <4>1. CASE UNCHANGED prompt
        BY <1>0, <4>1 DEF AuditTypeOK
      <4>2. ASSUME NEW es, prompt' = [prompt EXCEPT ![c] = \A i \in 1..logged[c] : <<c, i>> \in es]
            PROVE  prompt' \in [Calls -> BOOLEAN]
        <5>1. (\A i \in 1..logged[c] : <<c, i>> \in es) \in BOOLEAN
          OBVIOUS
        <5>2. prompt \in [Calls -> BOOLEAN]
          BY <1>0 DEF AuditTypeOK
        <5> DEFINE complete == \A i \in 1..logged[c] : <<c, i>> \in es
        <5> HIDE DEF complete
        <5>3. prompt' = [prompt EXCEPT ![c] = complete] /\ complete \in BOOLEAN
          BY <4>2, <5>1 DEF complete
        <5> QED
          BY <5>2, <5>3
      <4> QED
        BY <1>4, <4>1, <4>2 DEF FindEvents
    <3>2. /\ apc' \in [Calls -> {"idle", "running", "answered", "waiting", "updating", "updated", "over"}]
          /\ since' \in [Calls -> 0..Horizon] /\ todo' \in [Calls -> SUBSET Events]
          /\ searched' \in [Calls -> 0..Horizon]
      BY <1>0, <1>4 DEF FindEvents, OfRequest, AuditTypeOK
    <3> QED
      BY <1>0, <1>4, <3>1, <3>2 DEF FindEvents, AuditTypeOK
  <2>2. EventsPlaced'
    BY <1>0, <1>4 DEF FindEvents, OfRequest, AuditTypeOK, EventsPlaced
  <2>3. AnswersPlaced'
    BY <1>0, <1>4 DEF FindEvents, AuditTypeOK, AnswersPlaced
  <2>4. PromptUpdates'
    BY <1>0, <1>4 DEF FindEvents, AuditTypeOK, PromptUpdates
  <2> QED
    BY <2>1, <2>2, <2>3, <2>4 DEF AuditInv
<1>5. ASSUME NEW c \in Calls, UpdateEvent(c) PROVE AuditInv'
  <2>1. AuditTypeOK'
    BY <1>0, <1>5 DEF UpdateEvent, AuditTypeOK
  <2>2. EventsPlaced'
    BY <1>0, <1>5 DEF UpdateEvent, AuditTypeOK, EventsPlaced
  <2>3. AnswersPlaced'
    BY <1>0, <1>5 DEF UpdateEvent, AuditTypeOK, EventsPlaced, AnswersPlaced
  <2>4. PromptUpdates'
    BY <1>0, <1>5 DEF UpdateEvent, AuditTypeOK, PromptUpdates, Events
  <2> QED
    BY <2>1, <2>2, <2>3, <2>4 DEF AuditInv
<1>6. ASSUME NEW e \in Events, Save(e) PROVE AuditInv'
  <2>1. AuditTypeOK'
    BY <1>0, <1>6 DEF Save, AuditTypeOK
  <2>2. EventsPlaced'
    BY <1>0, <1>6 DEF Save, AuditTypeOK, EventsPlaced
  <2>3. AnswersPlaced'
    BY <1>0, <1>6 DEF Save, AuditTypeOK, EventsPlaced, AnswersPlaced
  <2>4. PromptUpdates'
    BY <1>0, <1>6 DEF Save, PromptUpdates
  <2> QED
    BY <2>1, <2>2, <2>3, <2>4 DEF AuditInv
<1>7. ASSUME Tick \/ UNCHANGED auditVars PROVE AuditInv'
  <2>1. AuditTypeOK'
    BY <1>0, <1>7 DEF Tick, auditVars, AuditTypeOK
  <2> QED
    BY <1>0, <1>7, <2>1 DEF Tick, auditVars, AuditInv, EventsPlaced, AnswersPlaced, PromptUpdates
<1>8. ASSUME StopAudit PROVE AuditInv'
  <2>1. AuditTypeOK'
    BY <1>0, <1>8 DEF StopAudit, AuditTypeOK
  <2>2. EventsPlaced'
    BY <1>0, <1>8 DEF StopAudit, AuditTypeOK, EventsPlaced
  <2>3. AnswersPlaced'
    BY <1>0, <1>8 DEF StopAudit, AuditTypeOK, AnswersPlaced
  <2>4. PromptUpdates'
    <3> SUFFICES ASSUME NEW c \in Calls, prompt'[c], apc'[c] \in {"updating", "updated"},
                        NEW i \in 1..logged'[c], shows'[<<c, i>>] = NoCall
                 PROVE  FALSE
      BY DEF PromptUpdates
    <3>1. prompt[c] /\ apc[c] = "updated" /\ UNCHANGED <<logged, shows>>
      BY <1>8 DEF StopAudit
    <3> QED
      BY <1>0, <3>1 DEF PromptUpdates, EventsPlaced
  <2> QED
    BY <2>1, <2>2, <2>3, <2>4 DEF AuditInv
<1> QED
  BY <1>1, <1>2, <1>3, <1>4, <1>5, <1>6, <1>7, <1>8 DEF AuditNext

LEMMA AuditInvAlways == AuditSpec => []AuditInv
  BY AuditInvHolds, AuditInvKept, PTL DEF AuditSpec

\* Every variable of the audit trail keeps its type.
THEOREM AuditTypeCorrect == AuditSpec => []AuditTypeOK
<1>1. AuditInv => AuditTypeOK
  BY DEF AuditInv
<1> QED
  BY <1>1, AuditInvAlways, PTL

\* An event shows the answer of its own request or of one with the same requestId that
\* looked for it while it was young; an update that found all the events of its request and
\* has ended has left none without an answer.
THEOREM AnswersAreShown == AuditSpec => []EventsShowAnswers
<1>1. AuditInv => EventsShowAnswers
  <2> SUFFICES ASSUME AuditInv PROVE EventsShowAnswers
    OBVIOUS
  <2>1. ASSUME NEW e \in saved, shows[e] \notin {NoCall, e[1]}
        PROVE  id[shows[e]] = id[e[1]] /\ searched[shows[e]] <= at[e] + Window
    BY <2>1 DEF AuditInv, AuditTypeOK, AnswersPlaced
  <2>2. ASSUME NEW c \in Calls, apc[c] = "updated", prompt[c], NEW i \in 1..logged[c]
        PROVE  shows[<<c, i>>] # NoCall
    BY <2>2 DEF AuditInv, EventsPlaced, PromptUpdates
  <2> QED
    BY <2>1, <2>2 DEF EventsShowAnswers
<1> QED
  BY <1>1, AuditInvAlways, PTL

-----------------------------------------------------------------------------
(* Bootstrap: what the processes store, entry by entry.                    *)

\* The tables, entry by entry.
LEMMA ModulesListed ==
  /\ Len(SystemModules) = 15 /\ DOMAIN SystemModules = 1..15
  /\ SystemModules[1] = Entry("dashboard", "none", {"read"})
  /\ SystemModules[2] = Entry("my-tenant", "none", {"read", "update"})
  /\ SystemModules[3] = Entry("cards", "none", {"view", "create", "edit", "delete"})
  /\ SystemModules[4] = Entry("transactions", "none", {"view", "create", "export"})
  /\ SystemModules[5] = Entry("terminals", "none", {"view", "create", "edit", "delete"})
  /\ SystemModules[6] = Entry("system", "none", {})
  /\ SystemModules[7] = Entry("analytics", "system", {})
  /\ SystemModules[8] = Entry("api-credentials", "system", {"read", "update"})
  /\ SystemModules[9] = Entry("audit", "system", {"view"})
  /\ SystemModules[10] = Entry("modules", "system", {"view"})
  /\ SystemModules[11] = Entry("roles", "system", {"view"})
  /\ SystemModules[12] = Entry("tenants", "system", {"view"})
  /\ SystemModules[13] = Entry("users", "system", {"view"})
  /\ SystemModules[14] = Entry("changelog", "system", {"read"})
  /\ SystemModules[15] = Entry("contact", "system", {"read"})
  BY DEF SystemModules, MainModules, BusinessModules, SystemGroup, AdministrationModules, DirectoryModules

LEMMA ModulesNamed ==
  /\ SystemModules[6].name = "system" /\ SystemModules[1].name = "dashboard"
  /\ \A i \in 1..15 : i <= 6 => SystemModules[i].parent = "none"
  /\ \A i \in 1..15 : SystemModules[i].parent \in {"none", "system"}
  BY ModulesListed DEF Entry
LEMMA NamesDiffer == \A i, j \in 1..15 : SystemModules[i].name = SystemModules[j].name => i = j
  BY ModulesListed DEF Entry
LEMMA RolesListed ==
  /\ Len(SystemRoles) = 8 /\ DOMAIN SystemRoles = 1..8 /\ SystemRoles[1].key = "super_admin"
  BY DEF SystemRoles, Role

\* The first k entries of each table.
FirstModules(k) == {SystemModules[i].name : i \in 1..k}
FirstRoles(k) == {SystemRoles[i].key : i \in 1..k}

\* As the group is stored before what belongs to it, the menu opens at every point.
LEMMA MenusOpenOnTheWay ==
  ASSUME NEW k \in 0..15, NEW role PROVE MenuOpens(role, FirstModules(k))
<1> SUFFICES ASSUME NEW m \in FirstModules(k) PROVE EntryOf(m).parent \in FirstModules(k) \cup {"none"}
  BY DEF MenuOpens, Offered
<1>1. PICK i \in 1..k : m = SystemModules[i].name
  BY DEF FirstModules
<1>2. i \in 1..15
  OBVIOUS
<1>3. EntryOf(m) = SystemModules[i]
  <2> DEFINE P(j) == j \in DOMAIN SystemModules /\ SystemModules[j].name = m
  <2>1. \A j : P(j) <=> j = i
    BY <1>1, <1>2, NamesDiffer, ModulesListed
  <2>2. (CHOOSE j : P(j)) = i
    BY <2>1
  <2> QED
    BY <2>2 DEF EntryOf
<1>4. CASE i <= 6
  BY <1>2, <1>3, <1>4, ModulesNamed
<1>5. CASE i > 6
  <2>1. 6 \in 1..k
    BY <1>5
  <2>2. "system" \in FirstModules(k)
    BY <2>1, ModulesNamed DEF FirstModules
  <2> QED
    BY <1>2, <1>3, <2>2, ModulesNamed
<1> QED
  BY <1>4, <1>5, <1>2

\* Every role sees the dashboard.
LEMMA DashboardOffered == \A i \in 1..8 : "dashboard" \in Offered(SystemRoles[i], FirstModules(15))
<1>1. EntryOf("dashboard") = SystemModules[1]
  <2> DEFINE P(j) == j \in DOMAIN SystemModules /\ SystemModules[j].name = "dashboard"
  <2>1. \A j : P(j) <=> j = 1
    BY NamesDiffer, ModulesListed, ModulesNamed
  <2>2. (CHOOSE j : P(j)) = 1
    BY <2>1
  <2> QED
    BY <2>2 DEF EntryOf
<1>2. EntryOf("dashboard").enabled = {"read"}
  BY <1>1, ModulesListed DEF Entry
<1>3. "dashboard" \in FirstModules(15)
  BY ModulesNamed DEF FirstModules
<1>4. \A i \in 1..8 : SystemRoles[i].grants \cap {<<"dashboard", "read">>, <<"*", "*">>} # {}
  <2>1. <<"*", "*">> \in Everything
    BY DEF Everything
  <2>2. /\ <<"dashboard", "read">> \in SecurityOfficer /\ <<"dashboard", "read">> \in Operator
        /\ <<"dashboard", "read">> \in Auditor /\ <<"dashboard", "read">> \in User
        /\ <<"dashboard", "read">> \in Merchant /\ <<"dashboard", "read">> \in Developer
    BY DEF SecurityOfficer, Operator, Auditor, User, Merchant, Developer, Read, Public
  <2>3. \A i \in 1..8 : SystemRoles[i].grants \in {Everything, SecurityOfficer, Operator, Auditor, User, Merchant, Developer}
    BY DEF SystemRoles, Role
  <2> QED
    BY <2>1, <2>2, <2>3
<1> QED
  BY <1>2, <1>3, <1>4 DEF Offered, MayOpen, Matches

\* While no upsert fails a collection holds the first entries of its table, however many
\* processes store them; and while none stops half way one of them goes on until it has all.
Filled(there, firsts, ph, n) ==
  ~BootFails("db") => \E k \in 0..n :
    /\ there = firsts[k]
    /\ \A p \in Processes : phase[p] = ph => upto[p] <= k + 1
    /\ bootFaults = {} => k \in {0, n} \/ \E p \in Processes : phase[p] = ph /\ upto[p] = k + 1
ModulesFilled == Filled(modules, [k \in 0..15 |-> FirstModules(k)], "seedModules", 15)
RolesFilled == Filled(roles, [k \in 0..8 |-> FirstRoles(k)], "seedRoles", 8)
\* The collections before the one a process has come to are not empty.
PhasesFollow ==
  \A p \in Processes :
    /\ phase[p] = "seedModules" => upto[p] <= 15
    /\ phase[p] = "seedRoles" => upto[p] <= 8
    /\ ~BootFails("db") =>
         /\ phase[p] \in {"roles", "seedRoles", "users", "admin", "up"} => modules # {}
         /\ phase[p] \in {"users", "admin", "up"} => roles # {}
AdminsFollow ==
  /\ ~BootFails("db") /\ "super_admin" \in users => roles # {}
  /\ bootFaults = {} /\ configured /\ (users # {} \/ \E p \in Processes : phase[p] = "up") =>
       "super_admin" \in users

BootInv == BootTypeOK /\ ModulesFilled /\ RolesFilled /\ PhasesFollow /\ AdminsFollow

LEMMA BootInvHolds == BootInit => BootInv
<1> SUFFICES ASSUME BootInit PROVE BootInv
  OBVIOUS
<1> USE BootAssumption DEF BootInit
<1>1. BootTypeOK
  BY ModulesListed DEF BootTypeOK, Phases
<1>2. ModulesFilled
  <2>1. FirstModules(0) = {}
    BY DEF FirstModules
  <2> QED
    BY <2>1 DEF ModulesFilled, Filled
<1>3. RolesFilled
  <2>1. FirstRoles(0) = {}
    BY DEF FirstRoles
  <2> QED
    BY <2>1 DEF RolesFilled, Filled
<1>4. PhasesFollow /\ AdminsFollow
  BY DEF PhasesFollow, AdminsFollow
<1> QED
  BY <1>1, <1>2, <1>3, <1>4 DEF BootInv

\* A process that stores the entry it has come to, of n, and goes on to the next one.
Stores(p, ph, n, firsts, next) ==
  /\ phase \in [Processes -> Phases] /\ upto \in [Processes -> Nat \ {0}]
  /\ phase[p] = ph /\ \A q \in Processes : phase[q] = ph => upto[q] <= n
  /\ \A q \in Processes : q # p => phase'[q] = phase[q] /\ upto'[q] = upto[q]
  /\ upto[p] < n => phase'[p] = ph /\ upto'[p] = upto[p] + 1
  /\ upto[p] >= n => phase'[p] # ph
  /\ UNCHANGED bootFaults
  /\ \A k \in 0..n : upto[p] = k + 1 /\ k + 1 <= n => firsts[k + 1] = firsts[k] \cup {next}
  /\ \A k \in 0..n : upto[p] <= k => next \in firsts[k]
StillFilled(after, firsts, ph, n) ==
  ~BootFails("db") => \E k \in 0..n :
    /\ after = firsts[k]
    /\ \A q \in Processes : phase'[q] = ph => upto'[q] <= k + 1
    /\ bootFaults = {} => k \in {0, n} \/ \E q \in Processes : phase'[q] = ph /\ upto'[q] = k + 1

\* It stores the next one that is missing, or one that is there.
LEMMA SeedingFills ==
  ASSUME NEW p \in Processes, NEW ph, NEW n \in Nat, NEW firsts, NEW next, NEW there,
         Stores(p, ph, n, firsts, next), Filled(there, firsts, ph, n)
  PROVE  StillFilled(there \cup {next}, firsts, ph, n)
<1> DEFINE after == there \cup {next}
<1> SUFFICES ASSUME ~BootFails("db")
             PROVE  \E k \in 0..n :
               /\ after = firsts[k]
               /\ \A q \in Processes : phase'[q] = ph => upto'[q] <= k + 1
               /\ bootFaults = {} => k \in {0, n} \/ \E q \in Processes : phase'[q] = ph /\ upto'[q] = k + 1
  BY DEF StillFilled
<1>1. PICK k \in 0..n :
        /\ there = firsts[k]
        /\ \A q \in Processes : phase[q] = ph => upto[q] <= k + 1
        /\ bootFaults = {} => k \in {0, n} \/ \E q \in Processes : phase[q] = ph /\ upto[q] = k + 1
  BY DEF Filled
<1>2. /\ \A q \in Processes : q # p => phase'[q] = phase[q] /\ upto'[q] = upto[q]
      /\ upto[p] < n => phase'[p] = ph /\ upto'[p] = upto[p] + 1
      /\ upto[p] >= n => phase'[p] # ph
      /\ upto \in [Processes -> Nat \ {0}] /\ upto[p] <= n /\ upto[p] <= k + 1
  BY <1>1 DEF Stores
<1>3. CASE upto[p] = k + 1
  <2>1. k + 1 \in 0..n /\ after = firsts[k + 1]
    BY <1>1, <1>2, <1>3 DEF Stores
  <2>2. \A q \in Processes : phase'[q] = ph => upto'[q] <= k + 1 + 1
    BY <1>1, <1>2, <1>3
  <2>3. k + 1 = n \/ (phase'[p] = ph /\ upto'[p] = k + 1 + 1)
    BY <1>2, <1>3
  <2> QED
    BY <2>1, <2>2, <2>3
<1>4. CASE upto[p] <= k
  <2>1. after = firsts[k]
    BY <1>1, <1>4 DEF Stores
  <2>2. \A q \in Processes : phase'[q] = ph => upto'[q] <= k + 1
    BY <1>1, <1>2, <1>4
  <2>3. \A q \in Processes : phase[q] = ph /\ upto[q] = k + 1 => phase'[q] = ph /\ upto'[q] = k + 1
    BY <1>2, <1>4
  <2> QED
    BY <1>1, <1>4, <2>1, <2>2, <2>3
<1>5. upto[p] = k + 1 \/ upto[p] <= k
  BY <1>2
<1> QED
  BY <1>3, <1>4, <1>5

LEMMA BootInvKept == BootInv /\ [BootNext]_bootVars => BootInv'
<1> SUFFICES ASSUME BootInv, [BootNext]_bootVars PROVE BootInv'
  OBVIOUS
<1> USE DEF Enter
<1>0. BootTypeOK /\ ModulesFilled /\ RolesFilled /\ PhasesFollow /\ AdminsFollow
  BY DEF BootInv
<1>1. /\ phase \in [Processes -> Phases] /\ upto \in [Processes -> Nat \ {0}]
      /\ upto \in [Processes -> 1..16] /\ Len(SystemModules) = 15 /\ Len(SystemRoles) = 8
  BY <1>0, ModulesListed, RolesListed DEF BootTypeOK
\* A step by which nobody begins or ends to store entries of a kind, but from the first.
<1>2. ASSUME NEW p \in Processes, NEW ph, Enter(p, ph), UNCHANGED <<modules, bootFaults>>,
             phase[p] # "seedModules" \/ (phase[p] = "seedModules" /\ bootFaults # {})
      PROVE  ModulesFilled'
  <2> SUFFICES ASSUME ~BootFails("db")
               PROVE  \E k \in 0..15 :
                 /\ modules = FirstModules(k)
                 /\ \A q \in Processes : phase'[q] = "seedModules" => upto'[q] <= k + 1
                 /\ bootFaults = {} => k \in {0, 15} \/ \E q \in Processes : phase'[q] = "seedModules" /\ upto'[q] = k + 1
    BY <1>2 DEF ModulesFilled, Filled, BootFails
  <2>1. PICK k \in 0..15 :
          /\ modules = FirstModules(k)
          /\ \A q \in Processes : phase[q] = "seedModules" => upto[q] <= k + 1
          /\ bootFaults = {} => k \in {0, 15} \/ \E q \in Processes : phase[q] = "seedModules" /\ upto[q] = k + 1
    BY <1>0 DEF ModulesFilled, Filled
  <2>3. /\ \A q \in Processes : q # p => phase'[q] = phase[q] /\ upto'[q] = upto[q]
        /\ upto'[p] = 1
    BY <1>1, <1>2
  <2>2. \A q \in Processes : phase'[q] = "seedModules" => upto'[q] <= k + 1
    BY <2>1, <2>3
  <2>4. bootFaults = {} /\ k \notin {0, 15} => \E q \in Processes : phase'[q] = "seedModules" /\ upto'[q] = k + 1
    BY <1>2, <2>1, <2>3
  <2> QED
    BY <2>1, <2>2, <2>4
<1>3. ASSUME NEW p \in Processes, NEW ph, Enter(p, ph), UNCHANGED <<roles, bootFaults>>,
             phase[p] # "seedRoles" \/ (phase[p] = "seedRoles" /\ bootFaults # {})
      PROVE  RolesFilled'
  <2> SUFFICES ASSUME ~BootFails("db")
               PROVE  \E k \in 0..8 :
                 /\ roles = FirstRoles(k)
                 /\ \A q \in Processes : phase'[q] = "seedRoles" => upto'[q] <= k + 1
                 /\ bootFaults = {} => k \in {0, 8} \/ \E q \in Processes : phase'[q] = "seedRoles" /\ upto'[q] = k + 1
    BY <1>3 DEF RolesFilled, Filled, BootFails
  <2>1. PICK k \in 0..8 :
          /\ roles = FirstRoles(k)
          /\ \A q \in Processes : phase[q] = "seedRoles" => upto[q] <= k + 1
          /\ bootFaults = {} => k \in {0, 8} \/ \E q \in Processes : phase[q] = "seedRoles" /\ upto[q] = k + 1
    BY <1>0 DEF RolesFilled, Filled
  <2>3. /\ \A q \in Processes : q # p => phase'[q] = phase[q] /\ upto'[q] = upto[q]
        /\ upto'[p] = 1
    BY <1>1, <1>3
  <2>2. \A q \in Processes : phase'[q] = "seedRoles" => upto'[q] <= k + 1
    BY <2>1, <2>3
  <2>4. bootFaults = {} /\ k \notin {0, 8} => \E q \in Processes : phase'[q] = "seedRoles" /\ upto'[q] = k + 1
    BY <1>3, <2>1, <2>3
  <2> QED
    BY <2>1, <2>2, <2>4
\* A process that enters a phase, and what must be there before it does.
<1>4. ASSUME NEW p \in Processes, NEW ph \in Phases, Enter(p, ph), UNCHANGED <<modules, roles, bootFaults>>,
             ~BootFails("db") /\ ph \in {"roles", "seedRoles", "users", "admin", "up"} => modules # {},
             ~BootFails("db") /\ ph \in {"users", "admin", "up"} => roles # {}
      PROVE  PhasesFollow'
  <2>1. \A q \in Processes : q # p => phase'[q] = phase[q] /\ upto'[q] = upto[q]
    BY <1>1, <1>4
  <2>2. phase'[p] = ph /\ upto'[p] = 1
    BY <1>1, <1>4
  <2> DEFINE Follows(q, where, from, ms, rs) ==
               /\ where = "seedModules" => from <= 15
               /\ where = "seedRoles" => from <= 8
               /\ ~BootFails("db") =>
                    /\ where \in {"roles", "seedRoles", "users", "admin", "up"} => ms # {}
                    /\ where \in {"users", "admin", "up"} => rs # {}
  <2>3. \A q \in Processes : Follows(q, phase[q], upto[q], modules, roles)
    BY <1>0 DEF PhasesFollow
  <2>4. Follows(p, ph, 1, modules, roles)
    BY <1>4, 1 <= 15, 1 <= 8, Zenon
  <2> HIDE DEF Follows
  <2>5. \A q \in Processes : Follows(q, phase'[q], upto'[q], modules, roles)
    BY <2>1, <2>2, <2>3, <2>4
  <2> USE DEF Follows
  <2>6. UNCHANGED <<modules, roles, bootFaults>>
    BY <1>4
  <2> QED
    BY <2>5, <2>6 DEF PhasesFollow, BootFails
<1>5. ASSUME NEW p \in Processes, NEW ph \in Phases, Enter(p, ph),
             UNCHANGED <<modules, roles, lost, configured, bootFaults>>,
             users' \in SUBSET {"super_admin", "someone"}, starts' \in 0..MaxStarts
      PROVE  BootTypeOK'
  <2>1. upto' \in [Processes -> 1..Len(SystemModules) + 1]
    BY <1>0, <1>1, <1>5 DEF BootTypeOK
  <2>2. phase' \in [Processes -> Phases]
    BY <1>0, <1>5 DEF BootTypeOK
  <2> QED
    BY <1>0, <1>5, <2>1, <2>2 DEF BootTypeOK
<1>6. \A p \in Processes : /\ phase[p] = "seedModules" => upto[p] <= 15
                           /\ phase[p] = "seedRoles" => upto[p] <= 8
  BY <1>0 DEF PhasesFollow
\* The steps that enter a phase and store no entry.
<1>7. ASSUME NEW p \in Processes, NEW ph \in Phases, Enter(p, ph),
             UNCHANGED <<modules, roles, lost, configured, bootFaults>>,
             users' \in SUBSET {"super_admin", "someone"}, starts' \in 0..MaxStarts,
             phase[p] \in {"seedModules", "seedRoles"} => bootFaults # {},
             ~BootFails("db") /\ ph \in {"roles", "seedRoles", "users", "admin", "up"} => modules # {},
             ~BootFails("db") /\ ph \in {"users", "admin", "up"} => roles # {}
      PROVE  BootTypeOK' /\ ModulesFilled' /\ RolesFilled' /\ PhasesFollow'
  <2>1. ModulesFilled'
    BY <1>2, <1>7
  <2>2. RolesFilled'
    BY <1>3, <1>7
  <2> QED
    BY <1>4, <1>5, <1>7, <2>1, <2>2
<1>8. ASSUME NEW p \in Processes, Start(p) PROVE BootInv'
  <2>0. /\ Enter(p, "modules") /\ UNCHANGED <<modules, roles, lost, configured, bootFaults>>
        /\ phase[p] = "down" /\ "modules" \in Phases
    BY <1>8 DEF Start, Phases
  <2>3. users' \in SUBSET {"super_admin", "someone"} /\ starts' \in 0..MaxStarts
    BY <1>0, <1>8, BootAssumption DEF Start, BootTypeOK
  <2>1. BootTypeOK' /\ ModulesFilled' /\ RolesFilled' /\ PhasesFollow'
    BY <1>7, <2>0, <2>3
  <2>2. AdminsFollow'
    BY <1>0, <1>1, <1>8 DEF Start, AdminsFollow, BootFails
  <2> QED
    BY <2>1, <2>2 DEF BootInv
<1>9. ASSUME NEW p \in Processes, CountModules(p) PROVE BootInv'
  <2>1. PICK ph \in {"seedModules", "roles", "up"} :
          /\ Enter(p, ph) /\ phase[p] = "modules"
          /\ ~BootFails("db") => ph = IF modules = {} THEN "seedModules" ELSE "roles"
    BY <1>9 DEF CountModules
  <2>2. BootTypeOK' /\ ModulesFilled' /\ RolesFilled' /\ PhasesFollow'
    BY <1>0, <1>7, <1>9, <2>1 DEF CountModules, Phases, BootTypeOK
  <2>3. AdminsFollow'
    BY <1>0, <1>1, <1>9, <2>1 DEF CountModules, AdminsFollow, BootFails
  <2> QED
    BY <2>2, <2>3 DEF BootInv
<1>10. ASSUME NEW p \in Processes, CountRoles(p) PROVE BootInv'
  <2>1. PICK ph \in {"seedRoles", "users", "up"} :
          /\ Enter(p, ph) /\ phase[p] = "roles"
          /\ ~BootFails("db") => ph = IF roles = {} THEN "seedRoles" ELSE "users"
    BY <1>10 DEF CountRoles
  <2>2. ~BootFails("db") => modules # {}
    BY <1>0, <2>1 DEF PhasesFollow
  <2>3. BootTypeOK' /\ ModulesFilled' /\ RolesFilled' /\ PhasesFollow'
    BY <1>0, <1>7, <1>10, <2>1, <2>2 DEF CountRoles, Phases, BootTypeOK
  <2>4. AdminsFollow'
    BY <1>0, <1>1, <1>10, <2>1 DEF CountRoles, AdminsFollow, BootFails
  <2> QED
    BY <2>3, <2>4 DEF BootInv
<1>11. ASSUME NEW p \in Processes, CountUsers(p) PROVE BootInv'
  <2>1. PICK ph \in {"admin", "up"} :
          /\ Enter(p, ph) /\ phase[p] = "users"
          /\ ~BootFails("db") => ph = IF users = {} /\ configured THEN "admin" ELSE "up"
    BY <1>11 DEF CountUsers
  <2>2. ~BootFails("db") => modules # {} /\ roles # {}
    BY <1>0, <2>1 DEF PhasesFollow
  <2>3. BootTypeOK' /\ ModulesFilled' /\ RolesFilled' /\ PhasesFollow'
    BY <1>0, <1>7, <1>11, <2>1, <2>2 DEF CountUsers, Phases, BootTypeOK
  <2>4. AdminsFollow'
    BY <1>0, <1>1, <1>11, <2>1 DEF CountUsers, AdminsFollow, BootFails
  <2> QED
    BY <2>3, <2>4 DEF BootInv
<1>12. ASSUME NEW p \in Processes, CreateAdmin(p) PROVE BootInv'
  <2>1. ~BootFails("db") => modules # {} /\ roles # {} /\ users' = users \cup {"super_admin"}
    BY <1>0, <1>12 DEF CreateAdmin, PhasesFollow
  <2>2. Enter(p, "up") /\ phase[p] = "admin" /\ users' \in SUBSET {"super_admin", "someone"}
        /\ UNCHANGED <<modules, roles, starts, lost, configured, bootFaults>>
    BY <1>0, <1>12 DEF CreateAdmin, BootTypeOK
  <2>3. BootTypeOK' /\ ModulesFilled' /\ RolesFilled' /\ PhasesFollow'
    BY <1>0, <1>7, <2>1, <2>2 DEF Phases, BootTypeOK
  <2>4. AdminsFollow'
    BY <1>0, <1>1, <2>1, <2>2 DEF AdminsFollow, BootFails
  <2> QED
    BY <2>3, <2>4 DEF BootInv
<1>13. ASSUME NEW p \in Processes, StopProcess(p) PROVE BootInv'
  <2>1. BootTypeOK' /\ ModulesFilled' /\ RolesFilled' /\ PhasesFollow'
    BY <1>0, <1>7, <1>13 DEF StopProcess, Phases, BootTypeOK, BootFails
  <2>2. AdminsFollow'
    BY <1>0, <1>1, <1>13 DEF StopProcess, AdminsFollow, BootFails
  <2> QED
    BY <2>1, <2>2 DEF BootInv
<1>14. ASSUME Register PROVE BootInv'
  <2>1. PICK p \in Processes : phase[p] = "up"
    BY <1>14 DEF Register
  <2>2. ~BootFails("db") => roles # {}
    BY <1>0, <2>1 DEF PhasesFollow
  <2>3. BootTypeOK' /\ ModulesFilled' /\ RolesFilled' /\ PhasesFollow'
    BY <1>0, <1>14 DEF Register, BootTypeOK, ModulesFilled, RolesFilled, Filled, PhasesFollow, BootFails
  <2>4. AdminsFollow'
    BY <1>0, <1>14, <2>1, <2>2 DEF Register, AdminsFollow, BootFails
  <2> QED
    BY <2>3, <2>4 DEF BootInv
<1>15. ASSUME UNCHANGED bootVars PROVE BootInv'
  <2>1. BootTypeOK' /\ PhasesFollow' /\ AdminsFollow'
    BY <1>0, <1>15 DEF bootVars, BootTypeOK, PhasesFollow, AdminsFollow, BootFails
  <2>2. ModulesFilled' /\ RolesFilled'
    BY <1>0, <1>15 DEF bootVars, ModulesFilled, RolesFilled, Filled, BootFails
  <2> QED
    BY <2>1, <2>2 DEF BootInv
\* What an entry adds to the first ones.
<1>16. \A k \in Nat : FirstModules(k + 1) = FirstModules(k) \cup {SystemModules[k + 1].name}
  <2> SUFFICES ASSUME NEW k \in Nat PROVE FirstModules(k + 1) = FirstModules(k) \cup {SystemModules[k + 1].name}
    OBVIOUS
  <2>1. 1..k + 1 = (1..k) \cup {k + 1}
    OBVIOUS
  <2> QED
    BY <2>1 DEF FirstModules
<1>17. \A k \in Nat : FirstRoles(k + 1) = FirstRoles(k) \cup {SystemRoles[k + 1].key}
  <2> SUFFICES ASSUME NEW k \in Nat PROVE FirstRoles(k + 1) = FirstRoles(k) \cup {SystemRoles[k + 1].key}
    OBVIOUS
  <2>1. 1..k + 1 = (1..k) \cup {k + 1}
    OBVIOUS
  <2> QED
    BY <2>1 DEF FirstRoles
<1>18. ASSUME NEW p \in Processes, SeedModule(p) PROVE BootInv'
  <2>0. phase[p] = "seedModules" /\ Following(p, SystemModules, "roles") /\ upto[p] \in 1..15
        /\ UNCHANGED <<roles, users, starts, configured, bootFaults>>
    <3>1. phase[p] = "seedModules" /\ Following(p, SystemModules, "roles")
          /\ UNCHANGED <<roles, users, starts, configured, bootFaults>>
      BY <1>18 DEF SeedModule
    <3>2. upto[p] \in 1..16 /\ upto[p] <= 15
      BY <1>1, <1>6, <3>1
    <3> QED
      BY <3>1, <3>2
  <2>1. \/ modules' = modules \cup {SystemModules[upto[p]].name} /\ lost' = lost
        \/ BootFails("db") /\ modules' = modules /\ lost' \in 0..MaxLost
    BY <1>0, <1>18, BootAssumption DEF SeedModule, Lose, BootTypeOK
  <2>2. /\ \A q \in Processes : q # p => phase'[q] = phase[q] /\ upto'[q] = upto[q]
        /\ phase' \in [Processes -> Phases] /\ upto' \in [Processes -> 1..16]
        /\ \/ phase'[p] = "seedModules" /\ upto'[p] <= 15
           \/ phase'[p] = "roles"
    BY <1>1, <2>0 DEF Following, Phases
  <2>3. SystemModules[upto[p]].name \in ModuleNames
    BY <2>0, ModulesListed DEF ModuleNames
  <2>4. BootTypeOK'
    BY <1>0, <1>1, <2>0, <2>1, <2>2, <2>3 DEF BootTypeOK
  <2>5. ModulesFilled'
    <3>1. ASSUME ~BootFails("db")
          PROVE  \E k \in 0..15 :
                   /\ modules' = FirstModules(k)
                   /\ \A q \in Processes : phase'[q] = "seedModules" => upto'[q] <= k + 1
                   /\ bootFaults' = {} => k \in {0, 15} \/ \E q \in Processes : phase'[q] = "seedModules" /\ upto'[q] = k + 1
      <4> DEFINE firsts == [k \in 0..15 |-> FirstModules(k)]
                 next == SystemModules[upto[p]].name
      <4>1. modules' = modules \cup {next}
        BY <2>1, <3>1
      <4>2. \A k \in 0..15 : upto[p] = k + 1 /\ k + 1 <= 15 => firsts[k + 1] = firsts[k] \cup {next}
        BY <1>16
      <4>3. \A k \in 0..15 : upto[p] <= k => next \in firsts[k]
        BY <2>0 DEF FirstModules
      <4>4. Filled(modules, firsts, "seedModules", 15)
        BY <1>0 DEF ModulesFilled
      <4> HIDE DEF firsts, next
      <4>5. /\ upto[p] < 15 => phase'[p] = "seedModules" /\ upto'[p] = upto[p] + 1
            /\ upto[p] >= 15 => phase'[p] # "seedModules"
        BY <1>1, <2>0 DEF Following
      <4>6. Stores(p, "seedModules", 15, firsts, next)
        BY <1>1, <1>6, <2>0, <2>2, <4>2, <4>3, <4>5 DEF Stores
      <4>7. StillFilled(modules \cup {next}, firsts, "seedModules", 15)
        BY <4>4, <4>6, SeedingFills
      <4> QED
        BY <2>0, <3>1, <4>1, <4>7 DEF StillFilled, firsts
    <3> QED
      BY <2>0, <3>1 DEF ModulesFilled, Filled, BootFails
  <2>6. RolesFilled'
    BY <1>0, <1>1, <2>0, <2>2 DEF RolesFilled, Filled, BootFails
  <2>7. PhasesFollow'
    <3>1. ~BootFails("db") => modules \subseteq modules' /\ modules' # {}
      BY <2>1
    <3> QED
      BY <1>0, <2>0, <2>2, <3>1 DEF PhasesFollow, BootFails
  <2>8. AdminsFollow'
    BY <1>0, <1>1, <2>0, <2>2 DEF AdminsFollow, BootFails
  <2> QED
    BY <2>4, <2>5, <2>6, <2>7, <2>8 DEF BootInv
<1>19. ASSUME NEW p \in Processes, SeedRole(p) PROVE BootInv'
  <2>0. phase[p] = "seedRoles" /\ Following(p, SystemRoles, "users") /\ upto[p] \in 1..8
        /\ UNCHANGED <<modules, users, starts, configured, bootFaults>>
    <3>1. phase[p] = "seedRoles" /\ Following(p, SystemRoles, "users")
          /\ UNCHANGED <<modules, users, starts, configured, bootFaults>>
      BY <1>19 DEF SeedRole
    <3>2. upto[p] \in 1..16 /\ upto[p] <= 8
      BY <1>1, <1>6, <3>1
    <3> QED
      BY <3>1, <3>2
  <2>1. \/ roles' = roles \cup {SystemRoles[upto[p]].key} /\ lost' = lost
        \/ BootFails("db") /\ roles' = roles /\ lost' \in 0..MaxLost
    BY <1>0, <1>19, BootAssumption DEF SeedRole, Lose, BootTypeOK
  <2>2. /\ \A q \in Processes : q # p => phase'[q] = phase[q] /\ upto'[q] = upto[q]
        /\ phase' \in [Processes -> Phases] /\ upto' \in [Processes -> 1..16]
        /\ \/ phase'[p] = "seedRoles" /\ upto'[p] <= 8
           \/ phase'[p] = "users"
    BY <1>1, <2>0 DEF Following, Phases
  <2>3. SystemRoles[upto[p]].key \in RoleKeys
    BY <2>0, RolesListed DEF RoleKeys
  <2>4. BootTypeOK'
    BY <1>0, <1>1, <2>0, <2>1, <2>2, <2>3 DEF BootTypeOK
  <2>5. RolesFilled'
    <3>1. ASSUME ~BootFails("db")
          PROVE  \E k \in 0..8 :
                   /\ roles' = FirstRoles(k)
                   /\ \A q \in Processes : phase'[q] = "seedRoles" => upto'[q] <= k + 1
                   /\ bootFaults' = {} => k \in {0, 8} \/ \E q \in Processes : phase'[q] = "seedRoles" /\ upto'[q] = k + 1
      <4> DEFINE firsts == [k \in 0..8 |-> FirstRoles(k)]
                 next == SystemRoles[upto[p]].key
      <4>1. roles' = roles \cup {next}
        BY <2>1, <3>1
      <4>2. \A k \in 0..8 : upto[p] = k + 1 /\ k + 1 <= 8 => firsts[k + 1] = firsts[k] \cup {next}
        BY <1>17
      <4>3. \A k \in 0..8 : upto[p] <= k => next \in firsts[k]
        BY <2>0 DEF FirstRoles
      <4>4. Filled(roles, firsts, "seedRoles", 8)
        BY <1>0 DEF RolesFilled
      <4> HIDE DEF firsts, next
      <4>5. /\ upto[p] < 8 => phase'[p] = "seedRoles" /\ upto'[p] = upto[p] + 1
            /\ upto[p] >= 8 => phase'[p] # "seedRoles"
        BY <1>1, <2>0 DEF Following
      <4>6. Stores(p, "seedRoles", 8, firsts, next)
        BY <1>1, <1>6, <2>0, <2>2, <4>2, <4>3, <4>5 DEF Stores
      <4>7. StillFilled(roles \cup {next}, firsts, "seedRoles", 8)
        BY <4>4, <4>6, SeedingFills
      <4> QED
        BY <2>0, <3>1, <4>1, <4>7 DEF StillFilled, firsts
    <3> QED
      BY <2>0, <3>1 DEF RolesFilled, Filled, BootFails
  <2>6. ModulesFilled'
    BY <1>0, <1>1, <2>0, <2>2 DEF ModulesFilled, Filled, BootFails
  <2>7. PhasesFollow'
    <3>1. ~BootFails("db") => roles \subseteq roles' /\ roles' # {}
      BY <2>1
    <3> QED
      BY <1>0, <2>0, <2>2, <3>1 DEF PhasesFollow, BootFails
  <2>8. AdminsFollow'
    <3>1. ~BootFails("db") => (roles # {} => roles' # {})
      BY <2>1
    <3> QED
      BY <1>0, <1>1, <2>0, <2>2, <3>1 DEF AdminsFollow, BootFails
  <2> QED
    BY <2>4, <2>5, <2>6, <2>7, <2>8 DEF BootInv
<1> QED
  BY <1>8, <1>9, <1>10, <1>11, <1>12, <1>13, <1>14, <1>15, <1>18, <1>19 DEF BootNext

LEMMA BootInvAlways == BootSpec => []BootInv
  BY BootInvHolds, BootInvKept, PTL DEF BootSpec

\* Every variable of the start keeps its type.
THEOREM StartTypeCorrect == BootSpec => []BootTypeOK
<1>1. BootInv => BootTypeOK
  BY DEF BootInv
<1> QED
  BY <1>1, BootInvAlways, PTL

\* However many processes start, stop and start again side by side, as long as no upsert
\* fails the menu of every role that is stored opens and a super administrator has its role;
\* and when none stopped half way, all is there once one of them is up.
THEOREM SeedsGoTogether == BootSpec => [](MenusOpen /\ AllIsStored)
<1>1. ModuleNames = FirstModules(15) /\ RoleKeys = FirstRoles(8)
  BY ModulesListed, RolesListed DEF ModuleNames, RoleKeys, FirstModules, FirstRoles
<1>2. ASSUME BootInv PROVE MenusOpen
  <2> SUFFICES ASSUME ~BootFails("db")
               PROVE  /\ \A i \in DOMAIN SystemRoles : MenuOpens(SystemRoles[i], modules)
                      /\ "super_admin" \in users => "super_admin" \in roles
    BY DEF MenusOpen
  <2>1. PICK k \in 0..15 : modules = FirstModules(k)
    BY <1>2 DEF BootInv, ModulesFilled, Filled
  <2>2. PICK n \in 0..8 : roles = FirstRoles(n)
    BY <1>2 DEF BootInv, RolesFilled, Filled
  <2>3. "super_admin" \in users => roles # {}
    BY <1>2 DEF BootInv, AdminsFollow
  <2>4. roles # {} => 1 \in 1..n
    BY <2>2 DEF FirstRoles
  <2>5. 1 \in 1..n => "super_admin" \in roles
    BY <2>2, RolesListed DEF FirstRoles
  <2> QED
    BY <2>1, <2>3, <2>4, <2>5, MenusOpenOnTheWay
<1>3. ASSUME BootInv PROVE AllIsStored
  <2> SUFFICES ASSUME bootFaults = {}, NEW p \in Processes, phase[p] = "up",
                      \A q \in Processes : phase[q] \in {"up", "down"}
               PROVE  /\ modules = ModuleNames /\ roles = RoleKeys /\ (configured => "super_admin" \in users)
                      /\ \A i \in DOMAIN SystemRoles : "dashboard" \in Offered(SystemRoles[i], modules)
    BY DEF AllIsStored
  <2>1. ~BootFails("db") /\ modules # {} /\ roles # {}
    BY <1>3 DEF BootFails, BootInv, PhasesFollow
  <2>2. modules = FirstModules(15)
    <3>1. PICK k \in {0, 15} : modules = FirstModules(k)
      BY <1>3, <2>1 DEF BootInv, ModulesFilled, Filled
    <3>2. FirstModules(0) = {}
      BY DEF FirstModules
    <3> QED
      BY <2>1, <3>1, <3>2
  <2>3. roles = FirstRoles(8)
    <3>1. PICK k \in {0, 8} : roles = FirstRoles(k)
      BY <1>3, <2>1 DEF BootInv, RolesFilled, Filled
    <3>2. FirstRoles(0) = {}
      BY DEF FirstRoles
    <3> QED
      BY <2>1, <3>1, <3>2
  <2>4. configured => "super_admin" \in users
    BY <1>3 DEF BootInv, AdminsFollow
  <2> QED
    BY <1>1, <2>2, <2>3, <2>4, DashboardOffered, RolesListed
<1> QED
  BY <1>2, <1>3, BootInvAlways, PTL

\* With the tables of the routes, whose two facts about constants TLC evaluates (no route hides
\* a later one, and the whole menu leads each role on), the seeds fit together whatever is stored.
THEOREM SeedsFitTogether ==
  ASSUME NoneIsHidden, \A i \in DOMAIN SystemRoles : LeadsOn(SystemRoles[i], ModuleNames)
  PROVE  BootSpec => []SeedsFit
<1>1. ASSUME BootTypeOK PROVE \A i \in DOMAIN SystemRoles : LeadsOn(SystemRoles[i], modules)
  <2>1. \A i \in DOMAIN SystemRoles : Offered(SystemRoles[i], modules) \subseteq Offered(SystemRoles[i], ModuleNames)
    BY <1>1 DEF BootTypeOK, Offered
  <2> QED
    BY <2>1 DEF LeadsOn
<1>2. ASSUME BootTypeOK, MenusOpen /\ AllIsStored PROVE SeedsFit
  BY <1>1, <1>2 DEF SeedsFit
<1> QED
  BY <1>2, StartTypeCorrect, SeedsGoTogether, PTL
=============================================================================
