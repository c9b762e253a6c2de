------------------------------ MODULE Dashboard ------------------------------
(***************************************************************************)
(* GET /transactions/statistics (dashboard.service.ts): the figures of a   *)
(* period and of the one before it, read side by side from the collection  *)
(* of Listings, while transactions are stored and change state.  A figure  *)
(* is the set of the transactions it counts or adds up.  The figures of    *)
(* users, tenants and cards, which are of other collections, and the ten   *)
(* last transactions are left out.                                         *)
(***************************************************************************)
EXTENDS Listings, Integers

CONSTANT
  Failing   \* the states that the trend counts as failed: cancelled and expired

ASSUME DashboardAssumption == Failing \subseteq States /\ Documents # {}

VARIABLES
  bpc,      \* where the request is
  period,   \* its from and to, and whether its figures are of one tenant alone
  unread,   \* the reads that have not returned
  figures,  \* what each read returned
  failed,   \* those of the trend that it counts as failed
  stirred   \* history: a transaction of the period was stored between two reads

bvars == <<bpc, period, unread, figures, failed, stirred>>

\* The volume, which adds up the amounts, is read like the count, and so is the volume of
\* the period before like its count: one of the two is here.
Figures == {"count", "before", "trend", "distribution"}
Period == [from : Moments, to : Moments, tenant : BOOLEAN]

BTypeOK ==
  /\ bpc \in {"idle", "reading", "200", "400", "403", "500"}
  /\ period \in Period
  /\ unread \in SUBSET Figures
  /\ figures \in [Figures -> SUBSET Documents]
  /\ failed \in SUBSET Documents
  /\ stirred \in BOOLEAN

FiguresStart ==
  /\ bpc = "idle" /\ period = [from |-> 1, to |-> 1, tenant |-> FALSE]
  /\ unread = {} /\ figures = [f \in Figures |-> {}] /\ failed = {} /\ stirred = FALSE

\* The collection is of transactions, all of them.
BInit ==
  /\ LInit /\ list = "transactions" /\ viewer = [merchant |-> TRUE, userApp |-> FALSE]
  /\ FiguresStart

-----------------------------------------------------------------------------

\* The transactions the figures are of: those of the tenant, or all.
Counted == {d \in Stored : period.tenant => "tenant" \in stored[d].marks}

InPeriod == {d \in Counted : period.from <= stored[d].at /\ stored[d].at <= period.to}

\* The period before is as long, and ends where this one begins.
InPeriodBefore ==
  {d \in Counted : /\ 2 * period.from - period.to <= stored[d].at
                   /\ stored[d].at < period.from}

\* Mutant: both ends belong to the period before, too.
CountsAt(f) ==
  IF f = "before"
  THEN {d \in Counted : /\ 2 * period.from - period.to <= stored[d].at
                        /\ stored[d].at <= period.from}
  ELSE InPeriod

Counts(f) == IF f = "before" THEN InPeriodBefore ELSE InPeriod

\* The roles: an administrator sees all tenants, or the one it names; an administrator of
\* a tenant sees its own, or all if it has none; others see nothing.
Scopes(role, named, has) ==
  CASE role = "admin" -> {named # "none"}
    [] role = "tenant-admin" /\ named \in {"none", "own"} -> {has}
    [] OTHER -> {}

AskFigures(p) ==
  /\ bpc = "idle"
  /\ \/ p.from >= p.to /\ bpc' = "400" /\ UNCHANGED <<period, unread>>
     \/ /\ p.from < p.to /\ bpc' \in {"403", "500"} /\ (bpc' = "500" => LFails)
        /\ UNCHANGED <<period, unread>>
     \/ /\ p.from < p.to /\ bpc' = "reading" /\ period' = p /\ unread' = Figures
        /\ \E role \in {"admin", "tenant-admin"}, named \in {"none", "own", "other"}, has \in BOOLEAN :
             p.tenant \in Scopes(role, named, has)
  /\ UNCHANGED <<lvars, figures, failed, stirred>>

ReadFigure(f) ==
  /\ bpc = "reading" /\ f \in unread /\ unread' = unread \ {f}
  /\ figures' = [figures EXCEPT ![f] = Counts(f)]
  /\ failed' = IF f = "trend" THEN {d \in Counts(f) : stored[d].state \in Failing} ELSE failed
  /\ UNCHANGED <<lvars, bpc, period, stirred>>

\* One read that fails is enough.
FiguresFail ==
  /\ bpc = "reading" /\ unread # {} /\ LFails /\ bpc' = "500" /\ unread' = {}
  /\ figures' = [f \in Figures |-> {}] /\ failed' = {}
  /\ UNCHANGED <<lvars, period, stirred>>

AnswerFigures ==
  /\ bpc = "reading" /\ unread = {} /\ bpc' = "200"
  /\ UNCHANGED <<lvars, period, unread, figures, failed, stirred>>

StoreTransaction(d) ==
  /\ Store(d) /\ UNCHANGED <<bpc, period, unread, figures, failed>>
  /\ stirred' = (stirred \/ (bpc = "reading" /\ unread \notin {Figures, {}}
                             /\ ~(InPeriod' \cup InPeriodBefore' \subseteq InPeriod \cup InPeriodBefore)))

BNext ==
  \/ \E p \in Period : AskFigures(p)
  \/ \E f \in Figures : ReadFigure(f)
  \/ FiguresFail \/ AnswerFigures
  \/ \E d \in Documents : StoreTransaction(d) \/ (ChangeState(d) /\ UNCHANGED bvars)

BSpec == BInit /\ [][BNext]_<<lvars, bvars>>

-----------------------------------------------------------------------------
(* Properties.                                                             *)

\* Whatever changes state between the reads, the figures of one answer add up,
\* unless a transaction of the two periods is stored between them: the count, the trend
\* and the distribution are of the same transactions, and none is both in this period and
\* in the one before.
FiguresAddUp ==
  bpc = "200" /\ ~stirred =>
    /\ \A f \in {"trend", "distribution"} : figures[f] = figures["count"]
    /\ failed \subseteq figures["trend"]
    /\ figures["count"] \cap figures["before"] = {}
=============================================================================
