------------------------------ MODULE Listings ------------------------------
(***************************************************************************)
(* The lists of the API: transactions, users, tenants, cards and audit     *)
(* events page by page (build-mongo-query.ts), terminals and the cards of  *)
(* one user whole; and the reads of one listed document.  A page is a find *)
(* and a count that run side by side, while other requests store documents *)
(* and change their states.  A client asks for page after page for as long *)
(* as the answer says hasMore.  Clients do not disturb each other, so there*)
(* is one, with one list; nothing deletes what these lists show.           *)
(***************************************************************************)
EXTENDS Naturals, FiniteSets

CONSTANTS
  Documents,
  NoDocument,
  States,      \* the states of a document, by which lists are filtered
  AnyState,    \* no such filter
  OtherState,  \* a filter that is no state
  Limit,       \* documents on a page
  ListFaults

Moments == 1..Cardinality(Documents)
Document == [marks : SUBSET {"tenant", "customer", "super_admin"}, state : States, at : Moments]

ASSUME ListAssumption ==
  /\ NoDocument \notin Document /\ IsFiniteSet(Documents)
  /\ AnyState \notin States /\ OtherState \notin States /\ AnyState # OtherState
  /\ Limit \in Nat \ {0}
  /\ ListFaults \subseteq SUBSET {"db"}

VARIABLES
  list,     \* the list the client goes through
  viewer,   \* whether its user is a merchant, and whether the app is the user app
  stored,   \* the collection: whose a document is, its state and createdAt
  lpc,      \* where the client is
  query,    \* the state by which it is filtered, AnyState if by none
  page,     \* the page it is at
  pending,  \* the reads of that page that have not returned
  found,    \* what find returned
  total,    \* what count returned
  seen,     \* the documents the client has been shown
  missing,  \* those it was told, when it opened them, that do not exist
  due,      \* history: the documents to be listed when it asked for the first page
  left,     \* history: one has left the list since
  raced,    \* history: one came into it after this page's count and before its find
  lfaults   \* the failures of this behaviour

\* What never changes.
lfixed == <<list, viewer, lfaults>>
lwalk == <<lpc, query, page, pending, found, total, seen, missing, due>>
lvars == <<lfixed, stored, lwalk, left, raced>>

Viewers == [merchant : BOOLEAN, userApp : BOOLEAN]
Queries == States \cup {AnyState, OtherState}
Stored == {d \in Documents : stored[d] # NoDocument}

-----------------------------------------------------------------------------
(* The lists: the reads that run side by side (one that is not counted is  *)
(* returned whole), the marks of the documents it is of and of those that  *)
(* it drops from what it has read, and the states it can be asked for.     *)

Walk(reads, of, drops, filters) == [reads |-> reads, of |-> of, drops |-> drops, filters |-> filters]
ByPage == {"find", "count"}
Whole == {"find"}
AnyFilter == States \cup {OtherState}

\* By the roles of the user and the x-context-app header.
TransactionsByPage ==
  Walk(ByPage, IF viewer.userApp THEN {"customer"} ELSE IF viewer.merchant THEN {"tenant"} ELSE {},
       {}, AnyFilter)

UsersByPage == Walk(ByPage, {}, {"super_admin"}, AnyFilter)
TenantsByPage == Walk(ByPage, {}, {}, AnyFilter)
CardsByPage == Walk(ByPage, {}, {}, AnyFilter)

\* A value that is none of the known ones is left out of the filter.
EventsByPage == Walk(ByPage, {}, {}, States)

TerminalsOfTenant == Walk(Whole, {"tenant"}, {}, AnyFilter)
EveryTerminal == Walk(Whole, {}, {}, AnyFilter)
CardsOfUser == Walk(Whole, {"customer"}, {}, {})

Walks == [transactions |-> TransactionsByPage, users |-> UsersByPage, tenants |-> TenantsByPage,
          cards |-> CardsByPage, audit |-> EventsByPage, terminals |-> TerminalsOfTenant,
          allTerminals |-> EveryTerminal, userCards |-> CardsOfUser]
ThisWalk == Walks[list]

LTypeOK ==
  /\ list \in DOMAIN Walks /\ viewer \in Viewers
  /\ stored \in [Documents -> Document \cup {NoDocument}]
  /\ lpc \in {"idle", "reading", "done", "failed"}
  /\ query \in Queries
  /\ page \in Nat \ {0} /\ pending \in SUBSET {"find", "count"}
  /\ found \in SUBSET Documents /\ total \in Nat
  /\ seen \in SUBSET Documents /\ missing \in SUBSET Documents
  /\ due \in SUBSET Documents /\ left \in BOOLEAN /\ raced \in BOOLEAN
  /\ lfaults \in ListFaults

LInit ==
  /\ viewer \in Viewers /\ list \in DOMAIN Walks
  /\ list # "transactions" => viewer = [merchant |-> FALSE, userApp |-> FALSE]
  /\ stored = [d \in Documents |-> NoDocument]
  /\ lpc = "idle" /\ page = 1 /\ pending = {} /\ found = {} /\ total = 0
  /\ query = AnyState
  /\ seen = {} /\ missing = {} /\ due = {} /\ left = FALSE /\ raced = FALSE
  /\ lfaults \in ListFaults

LFails == "db" \in lfaults

-----------------------------------------------------------------------------
(* Which documents are on a page.                                          *)

Listed(d) == ThisWalk.of \subseteq stored[d].marks

Matching == {d \in Stored : Listed(d) /\ query \in {AnyState, stored[d].state}}

Shown(ds) == {d \in ds : stored[d].marks \cap ThisWalk.drops = {}}

\* The n first documents, or all of them: the newest ones.  Oldest first is the same, the
\* other way round, as documents are stored with any date.
Before(d) == {e \in Matching : stored[e].at > stored[d].at}
First(n) == {d \in Matching : Cardinality(Before(d)) < n}

\* Mutant: the page is used as the distance from the first one.
PageFromZero(p) == First((p + 1) * Limit) \ First(p * Limit)

\* sort, skip and limit.
Page(p) == First(p * Limit) \ First((p - 1) * Limit)

\* skip + limit < total; page < pages for the audit list, which is the same.
HasMore(p, n) ==
  IF list = "audit" THEN p < (n + Limit - 1) \div Limit ELSE (p - 1) * Limit + Limit < n

-----------------------------------------------------------------------------
(* The collection.                                                         *)

\* What a write does to the list that is being read.
Disturbs ==
  /\ left' = (left \/ (lpc = "reading" /\ ~(Matching \subseteq Matching')))
  /\ raced' = (raced \/ (lpc = "reading" /\ pending = {"find"} /\ ~(Matching' \subseteq Matching)))

\* A document is dated by the handler that makes it, and stored some time later: it may be
\* older than some that are stored.  No two are made in the same millisecond.
Store(d) ==
  /\ stored[d] = NoDocument
  /\ \E m \in SUBSET (ThisWalk.of \cup ThisWalk.drops), s \in States, t \in Moments \ {stored[e].at : e \in Stored} :
       stored' = [stored EXCEPT ![d] = [marks |-> m, state |-> s, at |-> t]]
  /\ UNCHANGED <<lfixed, lwalk>> /\ Disturbs

ChangeState(d) ==
  /\ d \in Stored
  /\ \E s \in States \ {stored[d].state} : stored' = [stored EXCEPT ![d].state = s]
  /\ UNCHANGED <<lfixed, lwalk>> /\ Disturbs

-----------------------------------------------------------------------------
(* The client.                                                             *)

\* The filters of the query as they are given, but for those the list drops.
Filter(q) == IF q \in ThisWalk.filters THEN q ELSE AnyState

Ask(q) ==
  /\ lpc = "idle" /\ lpc' = "reading" /\ query' = Filter(q) /\ pending' = ThisWalk.reads
  /\ UNCHANGED <<lfixed, stored, page, found, total, seen, missing, left, raced>>
  /\ due' = Matching'

Find ==
  /\ lpc = "reading" /\ "find" \in pending /\ pending' = pending \ {"find"}
  /\ found' = IF ThisWalk.reads = Whole THEN Matching ELSE Page(page)
  /\ UNCHANGED <<lfixed, stored, lpc, query, page, total, seen, missing, due, left, raced>>

Count ==
  /\ lpc = "reading" /\ "count" \in pending /\ pending' = pending \ {"count"}
  /\ total' = Cardinality(Matching)
  /\ UNCHANGED <<lfixed, stored, lpc, query, page, found, seen, missing, due, left, raced>>

\* The answer; the client asks for the next page if there is more.
Answer ==
  /\ lpc = "reading" /\ pending = {}
  /\ seen' = seen \cup Shown(found)
  /\ IF ThisWalk.reads = ByPage /\ HasMore(page, total)
     THEN page' = page + 1 /\ pending' = ThisWalk.reads /\ raced' = FALSE /\ UNCHANGED lpc
     ELSE lpc' = "done" /\ UNCHANGED <<page, pending, raced>>
  /\ found' = {} /\ total' = 0
  /\ UNCHANGED <<lfixed, stored, query, missing, due, left>>

ReadFails ==
  /\ lpc = "reading" /\ pending # {} /\ LFails
  /\ lpc' = "failed" /\ pending' = {} /\ found' = {} /\ total' = 0
  /\ UNCHANGED <<lfixed, stored, query, page, seen, missing, due, left, raced>>

\* The reads of one document: a terminal of the tenant is looked up with its tenant, the
\* others by id alone.
CanOpen(d) == d \in Stored /\ (list = "terminals" => "tenant" \in stored[d].marks)

Open(d) ==
  /\ lpc = "done" /\ d \in seen /\ missing' = missing \cup ({d} \ {e \in Stored : CanOpen(e)})
  /\ UNCHANGED <<lfixed, stored, lpc, query, page, pending, found, total, seen, due, left, raced>>

LNext ==
  \/ \E d \in Documents : Store(d) \/ ChangeState(d) \/ Open(d)
  \/ \E q \in Queries : Ask(q)
  \/ Find \/ Count \/ Answer \/ ReadFails

LSpec == LInit /\ [][LNext]_lvars

-----------------------------------------------------------------------------
(* Properties.                                                             *)

\* A client that goes through a list is shown every document that was in it when it began,
\* unless one leaves the list: those that are stored or come in meanwhile, wherever they
\* sort, only push others to later pages.  (Not so when one comes in between the count and
\* the find of the last page: it pushes the last one out of a list that says it has no
\* more.)  And what it was shown can be opened.
WalksMissNothing ==
  /\ lpc = "done" /\ ~left /\ ~raced => Shown(due) \subseteq seen
  /\ missing = {}
=============================================================================
