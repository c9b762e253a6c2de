-------------------------------- MODULE Menu --------------------------------
(***************************************************************************)
(* The modules of the application (modules.service.ts), the list of them   *)
(* the process keeps in memory, and the navigation built from it           *)
(* (navigation.service.ts).  Each operation of an administrator writes to  *)
(* Mongo, and then forgets the list.  Whether a module is of the system,   *)
(* its actions and its texts are left out.                                 *)
(***************************************************************************)
EXTENDS Naturals, SequencesExt

CONSTANTS
  Modules,
  Group,       \* the module that is the parent of others
  Children,    \* those others
  NoModule, NoList,
  ModuleChanges, \* calls of create, update and disable
  Reorders,
  Readers,     \* calls of findAll, by the list of modules and by the navigation
  MaxOrder,    \* bounds the orders that create and update are given
  ModuleFaults

ASSUME ModuleAssumption ==
  /\ NoModule \notin Modules /\ Group \in Modules /\ Children \subseteq Modules \ {Group}
  /\ IsFiniteSet(Modules) /\ MaxOrder \in Nat
  /\ ModuleFaults \subseteq SUBSET {"redis", "db", "crash"}

VARIABLES
  order, active,     \* of the modules in Mongo
  modulesCache,      \* the list in memory: the orders of the active modules, or NoList
  wpc, doing, to,     \* where each change is, what it is doing and to which module
  qpc, moved, place, \* where each reorder is, the module it moves and where to
  wasAt,             \* the order of that module when it was found
  updates,           \* the updates of a reorder that are on their way
  npc, got,          \* where each reader is, and the list it has
  overlapped,           \* something was written while a list was being read, now or before
  mfaults            \* the failures of this behaviour; never changes

mdocs == <<order, active>>
mchange == <<wpc, doing, to>>
mreorder == <<qpc, moved, place, wasAt, updates>>
mread == <<npc, got>>
mvars == <<mdocs, modulesCache, mchange, mreorder, mread, overlapped, mfaults>>

Parent(m) == IF m \in Children THEN Group ELSE NoModule
Stored == DOMAIN order
Listed == [m \in active |-> order[m]]
Siblings(m) == {s \in Stored : Parent(s) = Parent(m)}
IsList(list) == list = NoList \/ \E ms \in SUBSET Modules : list \in [ms -> Nat]

MTypeOK ==
  /\ Stored \in SUBSET Modules /\ order \in [Stored -> Nat] /\ active \in SUBSET Stored
  /\ IsList(modulesCache)
  /\ wpc \in [ModuleChanges -> {"idle", "write", "end", "ok", "failed"}]
  /\ doing \in [ModuleChanges -> {"none", "create", "update", "disable"}]
  /\ to \in [ModuleChanges -> Modules \cup {NoModule}]
  /\ qpc \in [Reorders -> {"idle", "siblings", "updates", "end", "ok", "failed"}]
  /\ moved \in [Reorders -> Modules \cup {NoModule}] /\ place \in [Reorders -> Nat]
  /\ wasAt \in [Reorders -> Nat]
  /\ updates \in [Reorders -> SUBSET (Modules \X Nat)]
  /\ npc \in [Readers -> {"idle", "store", "ok", "failed"}] /\ \A n \in Readers : IsList(got[n])
  /\ overlapped \in BOOLEAN
  /\ mfaults \in ModuleFaults

MInit ==
  /\ \E m \in Modules : order = [s \in Modules \ {m} |-> 0]
  /\ active = Stored
  /\ modulesCache = NoList
  /\ wpc = [w \in ModuleChanges |-> "idle"] /\ doing = [w \in ModuleChanges |-> "none"]
  /\ to = [w \in ModuleChanges |-> NoModule]
  /\ qpc = [q \in Reorders |-> "idle"] /\ moved = [q \in Reorders |-> NoModule]
  /\ place = [q \in Reorders |-> 0] /\ wasAt = [q \in Reorders |-> 0]
  /\ updates = [q \in Reorders |-> {}]
  /\ npc = [n \in Readers |-> "idle"] /\ got = [n \in Readers |-> NoList]
  /\ overlapped = FALSE
  /\ mfaults \in ModuleFaults

MFails(what) == what \in mfaults

\* Every write to the collection; a list that is being read by then is not of one moment.
Stores(newOrder, newActive) ==
  /\ order' = newOrder /\ active' = newActive
  /\ overlapped' = (overlapped \/ \E n \in Readers : npc[n] = "store")

-----------------------------------------------------------------------------
(* create, update and disable.                                             *)

WGoto(w, at) == wpc' = [wpc EXCEPT ![w] = at]

FindForChange(w, what, m) ==
  /\ wpc[w] = "idle"
  /\ doing' = [doing EXCEPT ![w] = what] /\ to' = [to EXCEPT ![w] = m]
  /\ LET Right == (what = "create") # (m \in Stored) IN
     \/ Right /\ WGoto(w, "write")
     \/ (~Right \/ MFails("db")) /\ WGoto(w, "failed")
  /\ UNCHANGED <<mdocs, modulesCache, mreorder, mread, overlapped, mfaults>>

Created(m) ==
  \E k \in 0..MaxOrder :
    Stores([s \in Stored \cup {m} |-> IF s = m THEN k ELSE order[s]], active \cup {m})
\* Also when the order stays as it is.
Updated(m) == \E k \in 0..MaxOrder : Stores([order EXCEPT ![m] = k], active)
Disabled(m) == Stores(order, active \ {m})

Changed(what, m) ==
  \/ what = "create" /\ Created(m)
  \/ what = "update" /\ Updated(m)
  \/ what = "disable" /\ Disabled(m)

\* A call that fails may have written, and the list is not forgotten then.
WriteChange(w) ==
  LET what == doing[w] m == to[w] Fits == (what = "create") # (m \in Stored) IN
  /\ wpc[w] = "write"
  /\ \/ Fits /\ Changed(what, m) /\ WGoto(w, "end")
     \/ Fits /\ MFails("db") /\ Changed(what, m) /\ WGoto(w, "failed")
     \/ (~Fits \/ MFails("db")) /\ WGoto(w, "failed") /\ UNCHANGED <<mdocs, overlapped>>
  /\ UNCHANGED <<modulesCache, doing, to, mreorder, mread, mfaults>>

\* Mutant: disable forgets to invalidate.
EndChangeUnlessDisabled(w) ==
  /\ wpc[w] = "end" /\ WGoto(w, "ok")
  /\ modulesCache' = IF doing[w] = "disable" THEN modulesCache ELSE NoList
  /\ UNCHANGED <<mdocs, doing, to, mreorder, mread, overlapped, mfaults>>

\* invalidateCache, and the answer.
EndChange(w) ==
  /\ wpc[w] = "end" /\ modulesCache' = NoList /\ WGoto(w, "ok")
  /\ UNCHANGED <<mdocs, doing, to, mreorder, mread, overlapped, mfaults>>

-----------------------------------------------------------------------------
(* reorderModules.                                                         *)

QGoto(q, at) == qpc' = [qpc EXCEPT ![q] = at]

FindModule(q, m, k) ==
  /\ qpc[q] = "idle"
  /\ moved' = [moved EXCEPT ![q] = m] /\ place' = [place EXCEPT ![q] = k]
  /\ \/ m \in Stored /\ QGoto(q, "siblings") /\ wasAt' = [wasAt EXCEPT ![q] = order[m]]
     \/ (m \notin Stored \/ MFails("db")) /\ QGoto(q, "failed") /\ UNCHANGED wasAt
  /\ UNCHANGED <<mdocs, modulesCache, mchange, updates, mread, overlapped, mfaults>>

\* The siblings, those disabled too, by their order, ties as Mongo returned them.
InOrder(seq) == \A i, j \in DOMAIN seq : i < j => order[seq[i]] <= order[seq[j]]

\* The siblings are read, and all the updates are sent at once; the moved module's own is
\* sent if its place is not where it was when it was found.
SendUpdates(q) ==
  LET m == moved[q] IN
  /\ qpc[q] = "siblings"
  /\ \/ /\ place[q] < Cardinality(Siblings(m))
        /\ \E others \in SetToSeqs(Siblings(m) \ {m}) :
             /\ InOrder(others)
             /\ LET Final == InsertAt(others, place[q] + 1, m)
                    Was(s) == IF s = m THEN wasAt[q] ELSE order[s] IN
                updates' = [updates EXCEPT ![q] =
                  {<<Final[i], i - 1>> : i \in {j \in DOMAIN Final : Was(Final[j]) # j - 1}}]
        /\ QGoto(q, "updates")
     \/ /\ place[q] >= Cardinality(Siblings(m)) \/ MFails("db")
        /\ QGoto(q, "failed") /\ UNCHANGED updates
  /\ UNCHANGED <<mdocs, modulesCache, mchange, moved, place, wasAt, mread, overlapped, mfaults>>

\* The updates arrive in any order.  When one fails the answer is sent, and those that
\* are still on their way arrive all the same.
UpdateArrives(q, u) ==
  /\ u \in updates[q] /\ updates' = [updates EXCEPT ![q] = @ \ {u}]
  /\ \/ Stores([order EXCEPT ![u[1]] = u[2]], active) /\ UNCHANGED qpc
     \/ MFails("db") /\ QGoto(q, "failed") /\ UNCHANGED <<mdocs, overlapped>>
  /\ UNCHANGED <<modulesCache, mchange, moved, place, wasAt, mread, mfaults>>

AllArrived(q) ==
  /\ qpc[q] = "updates" /\ updates[q] = {} /\ QGoto(q, "end")
  /\ modulesCache' = NoList
  /\ UNCHANGED <<mdocs, mchange, moved, place, wasAt, updates, mread, overlapped, mfaults>>

\* The key of the navigation, which nothing writes, is deleted.
DeleteKey(q) ==
  /\ qpc[q] = "end" /\ (QGoto(q, "ok") \/ (MFails("redis") /\ QGoto(q, "failed")))
  /\ UNCHANGED <<mdocs, modulesCache, mchange, moved, place, wasAt, updates, mread, overlapped, mfaults>>

-----------------------------------------------------------------------------
(* findAll and buildNavigation.                                            *)

\* The answer, for the modules the user may see: one whose parent is not in the list ends
\* in a TypeError.
Answered(n, list) ==
  \E permitted \in SUBSET DOMAIN list :
    npc' = [npc EXCEPT ![n] =
      IF \A m \in permitted : Parent(m) \in DOMAIN list \cup {NoModule} THEN "ok" ELSE "failed"]

FindAll(n) ==
  /\ npc[n] = "idle"
  /\ \/ modulesCache # NoList /\ Answered(n, modulesCache) /\ UNCHANGED got
     \/ modulesCache = NoList /\ npc' = [npc EXCEPT ![n] = "store"] /\ got' = [got EXCEPT ![n] = Listed]
     \/ modulesCache = NoList /\ MFails("db") /\ npc' = [npc EXCEPT ![n] = "failed"] /\ UNCHANGED got
  /\ UNCHANGED <<mdocs, modulesCache, mchange, mreorder, overlapped, mfaults>>

KeepList(n) ==
  /\ npc[n] = "store" /\ modulesCache' = got[n] /\ Answered(n, got[n])
  /\ got' = [got EXCEPT ![n] = NoList]
  /\ UNCHANGED <<mdocs, mchange, mreorder, overlapped, mfaults>>

\* After 60 seconds the list is read again.
ListLapses ==
  /\ modulesCache # NoList /\ modulesCache' = NoList
  /\ UNCHANGED <<mdocs, mchange, mreorder, mread, overlapped, mfaults>>

\* The process stops and starts again, without a list.
MCrash ==
  /\ MFails("crash") /\ modulesCache' = NoList
  /\ wpc' = [w \in ModuleChanges |-> IF wpc[w] \in {"write", "end"} THEN "failed" ELSE wpc[w]]
  /\ qpc' = [q \in Reorders |-> IF qpc[q] \in {"siblings", "updates", "end"} THEN "failed" ELSE qpc[q]]
  /\ npc' = [n \in Readers |-> IF npc[n] = "store" THEN "failed" ELSE npc[n]]
  /\ updates' = [q \in Reorders |-> {}] /\ got' = [n \in Readers |-> NoList]
  /\ UNCHANGED <<mdocs, doing, to, moved, place, wasAt, overlapped, mfaults>>

MNext ==
  \/ \E w \in ModuleChanges :
       \/ \E what \in {"create", "update", "disable"}, m \in Modules : FindForChange(w, what, m)
       \/ WriteChange(w) \/ EndChange(w)
  \/ \E q \in Reorders :
       \/ \E m \in Modules, k \in 0..MaxOrder : FindModule(q, m, k)
       \/ SendUpdates(q) \/ (\E u \in updates[q] : UpdateArrives(q, u)) \/ AllArrived(q) \/ DeleteKey(q)
  \/ \E n \in Readers : FindAll(n) \/ KeepList(n)
  \/ ListLapses \/ MCrash

MSpec == MInit /\ [][MNext]_mvars

-----------------------------------------------------------------------------
(* Properties.                                                             *)

Writing ==
  \/ \E w \in ModuleChanges : wpc[w] = "end"
  \/ \E q \in Reorders : qpc[q] = "updates"

\* While no change is on its way, the list in memory is the one in Mongo: whichever
\* operations overlap, the last of them forgets the list after the last write.  (Not so
\* when a write fails, or when a list is being read while something is written.)
ListIsCurrent ==
  ~overlapped /\ ~MFails("db") /\ ~Writing => modulesCache \in {NoList, Listed}
=============================================================================
