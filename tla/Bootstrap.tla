------------------------------ MODULE Bootstrap ------------------------------
(***************************************************************************)
(* The start of the application (system-bootstrap.service.ts): each        *)
(* collection that is empty is filled, document by document, before the    *)
(* process listens; and the processes of one installation share the        *)
(* collections.  A user is the super administrator or someone who          *)
(* registered with a process that is up.                                   *)
(***************************************************************************)
EXTENDS Routes

CONSTANTS
  Processes,
  MaxStarts,   \* bounds how often they start
  MaxLost,     \* bounds how many upserts fail
  BootFaults

ASSUME BootAssumption ==
  /\ MaxStarts \in Nat /\ MaxLost \in Nat
  /\ BootFaults \subseteq SUBSET {"db", "crash"}

VARIABLES
  modules,     \* indicators in the modules collection
  roles,       \* keys in the roles collection
  users,       \* the users collection
  phase,       \* where each process is
  upto,        \* the entry it is to store next
  starts,      \* how often a process has started
  lost,        \* how many upserts have failed
  configured,  \* SA_EMAIL and SA_PWD are set; never changes
  bootFaults   \* the failures of this behaviour; never changes

bootVars == <<modules, roles, users, phase, upto, starts, lost, configured, bootFaults>>

ModuleNames == {SystemModules[i].name : i \in DOMAIN SystemModules}
RoleKeys == {SystemRoles[i].key : i \in DOMAIN SystemRoles}
Phases == {"down", "modules", "seedModules", "roles", "seedRoles", "users", "admin", "up"}

BootTypeOK ==
  /\ modules \in SUBSET ModuleNames /\ roles \in SUBSET RoleKeys
  /\ users \in SUBSET {"super_admin", "someone"}
  /\ phase \in [Processes -> Phases]
  /\ upto \in [Processes -> 1..Len(SystemModules) + 1]
  /\ starts \in 0..MaxStarts /\ lost \in 0..MaxLost
  /\ configured \in BOOLEAN /\ bootFaults \in BootFaults

BootInit ==
  /\ modules = {} /\ roles = {} /\ users = {}
  /\ phase = [p \in Processes |-> "down"] /\ upto = [p \in Processes |-> 1]
  /\ starts = 0 /\ lost = 0
  /\ configured \in BOOLEAN /\ bootFaults \in BootFaults

BootFails(what) == what \in bootFaults

\* Also where it begins the next list of entries.
Enter(p, ph) == phase' = [phase EXCEPT ![p] = ph] /\ upto' = [upto EXCEPT ![p] = 1]

Start(p) ==
  /\ phase[p] = "down" /\ starts < MaxStarts /\ starts' = starts + 1
  /\ Enter(p, "modules")
  /\ UNCHANGED <<modules, roles, users, lost, configured, bootFaults>>

\* A collection with any document is left as it is.  When the count fails the other phases
\* are skipped, and the process starts to listen all the same.
CountModules(p) ==
  /\ phase[p] = "modules"
  /\ \/ Enter(p, IF modules = {} THEN "seedModules" ELSE "roles")
     \/ BootFails("db") /\ Enter(p, "up")
  /\ UNCHANGED <<modules, roles, users, starts, lost, configured, bootFaults>>

CountRoles(p) ==
  /\ phase[p] = "roles"
  /\ \/ Enter(p, IF roles = {} THEN "seedRoles" ELSE "users")
     \/ BootFails("db") /\ Enter(p, "up")
  /\ UNCHANGED <<modules, roles, users, starts, lost, configured, bootFaults>>

Following(p, entries, ph) ==
  IF upto[p] < Len(entries) THEN upto' = [upto EXCEPT ![p] = @ + 1] /\ UNCHANGED phase
  ELSE Enter(p, ph)

\* An upsert that fails is logged, and the next one follows.
Lose == BootFails("db") /\ lost < MaxLost /\ lost' = lost + 1

SeedModule(p) ==
  /\ phase[p] = "seedModules" /\ Following(p, SystemModules, "roles")
  /\ \/ modules' = modules \cup {SystemModules[upto[p]].name} /\ UNCHANGED lost
     \/ Lose /\ UNCHANGED modules
  /\ UNCHANGED <<roles, users, starts, configured, bootFaults>>

SeedRole(p) ==
  /\ phase[p] = "seedRoles" /\ Following(p, SystemRoles, "users")
  /\ \/ roles' = roles \cup {SystemRoles[upto[p]].key} /\ UNCHANGED lost
     \/ Lose /\ UNCHANGED roles
  /\ UNCHANGED <<modules, users, starts, configured, bootFaults>>

CountUsers(p) ==
  /\ phase[p] = "users"
  /\ Enter(p, IF users = {} /\ configured THEN "admin" ELSE "up") \/ (BootFails("db") /\ Enter(p, "up"))
  /\ UNCHANGED <<modules, roles, users, starts, lost, configured, bootFaults>>

\* The phone is unique: a second super administrator is refused.
CreateAdmin(p) ==
  /\ phase[p] = "admin" /\ Enter(p, "up")
  /\ users' = users \cup {"super_admin"} \/ (BootFails("db") /\ UNCHANGED users)
  /\ UNCHANGED <<modules, roles, starts, lost, configured, bootFaults>>

Register ==
  /\ \E p \in Processes : phase[p] = "up"
  /\ users' = users \cup {"someone"}
  /\ UNCHANGED <<modules, roles, phase, upto, starts, lost, configured, bootFaults>>

StopProcess(p) ==
  /\ phase[p] # "down" /\ (BootFails("crash") \/ phase[p] = "up") /\ Enter(p, "down")
  /\ UNCHANGED <<modules, roles, users, starts, lost, configured, bootFaults>>

BootNext ==
  \/ \E p \in Processes :
       \/ Start(p) \/ CountModules(p) \/ SeedModule(p) \/ CountRoles(p) \/ SeedRole(p)
       \/ CountUsers(p) \/ CreateAdmin(p) \/ StopProcess(p)
  \/ Register

BootSpec == BootInit /\ [][BootNext]_bootVars

-----------------------------------------------------------------------------
(* Properties.                                                             *)

\* As long as no upsert fails the menu of every role that is stored opens, and a super
\* administrator has its role.
MenusOpen ==
  ~BootFails("db") =>
    /\ \A i \in DOMAIN SystemRoles : SystemRoles[i].key \in roles => MenuOpens(SystemRoles[i], modules)
    /\ "super_admin" \in users => "super_admin" \in roles

\* If no process stopped half way all is stored once one of them is up and none is starting:
\* each role sees the dashboard, and there is a super administrator.
AllIsStored ==
  bootFaults = {} /\ (\E p \in Processes : phase[p] = "up")
    /\ (\A p \in Processes : phase[p] \in {"up", "down"}) =>
    /\ modules = ModuleNames /\ roles = RoleKeys /\ (configured => "super_admin" \in users)
    /\ \A i \in DOMAIN SystemRoles : "dashboard" \in Offered(SystemRoles[i], modules)

\* Processes that start side by side, and stop at any point and start again, never leave
\* collections that do not fit together; and whatever is stored, the menu leads to lists
\* that its reader may see.
SeedsFit ==
  /\ MenusOpen
  /\ AllIsStored
  /\ NoneIsHidden /\ \A i \in DOMAIN SystemRoles : LeadsOn(SystemRoles[i], modules)
=============================================================================
