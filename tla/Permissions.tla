----------------------------- MODULE Permissions -----------------------------
(***************************************************************************)
(* What one user may do: the roles (roles.service.ts), the permissions     *)
(* they add up to and their entry in Redis (permissions.service.ts), and   *)
(* the guard that asks for one permission (permissions.guard.ts).          *)
(*                                                                         *)
(* Of that permission a role gives nothing, the permission itself or its   *)
(* module's wildcard ("some"), or the global wildcard ("all").  The sets   *)
(* of permissions do not survive JSON.stringify: an entry keeps only       *)
(* whether the user has the global wildcard.                               *)
(***************************************************************************)
EXTENDS Naturals

CONSTANTS
  Roles,      \* keys of roles
  Checks,     \* requests that come to the guard
  RoleChanges,
  NoRole,
  EntryLife,  \* 60 s, in ticks
  LastMinute, \* bounds a behaviour
  RightFaults

ASSUME RightAssumption ==
  /\ NoRole \notin Roles
  /\ EntryLife \in Nat \ {0} /\ LastMinute \in Nat
  /\ RightFaults \subseteq SUBSET {"redis", "db"}

Gives == {"nothing", "some", "all"}

VARIABLES
  minute,
  gives, enabled, \* of the roles that exist: what each gives, and those that are active
  holds,          \* roleKey and additionalRoleKeys of the user
  cache,          \* permissions:user:<id>: what it grants, "none" if there is no entry
  cachedAt,
  gpc,            \* where each request is
  keys, found,    \* the user's roles as a request read them, and what they give
  changes, change, target, \* where each operation on a role is, which it is and of what role
  heldAt,         \* the last minute in which the user had the permission
  torn,           \* what a request read or stored was of two moments, now or before
  granted,        \* a request got through and left an entry, and no role has changed since
  gfaults         \* the failures of this behaviour; never changes

groles == <<gives, enabled, holds>>
gcache == <<cache, cachedAt>>
gguard == <<gpc, keys, found>>
gchange == <<changes, change, target>>
gvars == <<minute, groles, gcache, gguard, gchange, heldAt, torn, granted, gfaults>>

Existing == DOMAIN gives
GTypeOK ==
  /\ minute \in 0..LastMinute
  /\ Existing \in SUBSET Roles /\ gives \in [Existing -> Gives] /\ enabled \in SUBSET Existing
  /\ holds \in SUBSET Roles
  /\ cache \in {"none"} \cup Gives /\ cachedAt \in Nat
  /\ gpc \in [Checks -> {"idle", "user", "roles", "store", "allowed", "denied"}]
  /\ keys \in [Checks -> SUBSET Roles] /\ found \in [Checks -> Gives]
  /\ changes \in [RoleChanges -> {"idle", "write", "done", "failed"}]
  /\ change \in [RoleChanges -> {"none", "create", "grant", "disable", "enable", "delete"}]
  /\ target \in [RoleChanges -> Roles \cup {NoRole}]
  /\ heldAt \in Nat /\ torn \in BOOLEAN /\ granted \in BOOLEAN
  /\ gfaults \in RightFaults

\* What the roles in a set add up to.
AddUp(roles) ==
  LET Given == {gives[k] : k \in roles \cap enabled} IN
  IF "all" \in Given THEN "all" ELSE IF "some" \in Given THEN "some" ELSE "nothing"

Entitled == AddUp(holds) # "nothing"

\* The user has an active role, and the others there are have been disabled.
GInit ==
  /\ minute = 0
  /\ \E k \in Roles, others \in SUBSET Roles :
       /\ gives \in [{k} \cup others -> {"some", "all"}]
       /\ enabled = {k} /\ holds = {k}
  /\ cache = "none" /\ cachedAt = 0
  /\ gpc = [c \in Checks |-> "idle"]
  /\ keys = [c \in Checks |-> {}] /\ found = [c \in Checks |-> "nothing"]
  /\ changes = [o \in RoleChanges |-> "idle"] /\ change = [o \in RoleChanges |-> "none"]
  /\ target = [o \in RoleChanges |-> NoRole]
  /\ heldAt = 0 /\ torn = FALSE /\ granted = FALSE
  /\ gfaults \in RightFaults

GFails(what) == what \in gfaults

-----------------------------------------------------------------------------
(* The guard.                                                              *)

GGoto(c, place) == gpc' = [gpc EXCEPT ![c] = place]

\* Mutant: entries are written without a life.
LivesForEver == cache # "none"

\* Redis has the entry, and has not dropped it yet.
Lives == cache # "none" /\ minute < cachedAt + EntryLife

\* resolvePermissions: an entry decides, and of what it grants only "all" is left.
ReadEntry(c) ==
  /\ gpc[c] = "idle"
  /\ \/ Lives /\ GGoto(c, IF cache = "all" THEN "allowed" ELSE "denied")
     \/ ~Lives /\ GGoto(c, "user")
     \/ GFails("redis") /\ GGoto(c, "denied")
  /\ UNCHANGED <<minute, groles, gcache, keys, found, gchange, torn, granted, gfaults>>

\* The user's document is read whatever its status.
FindUserRoles(c) ==
  /\ gpc[c] = "user"
  /\ \/ GGoto(c, "roles") /\ keys' = [keys EXCEPT ![c] = holds]
     \/ GFails("db") /\ GGoto(c, "denied") /\ UNCHANGED keys
  /\ UNCHANGED <<minute, groles, gcache, found, gchange, torn, granted, gfaults>>

\* findActiveByKeys: when it fails, there are no roles.
FindActiveByKeys(c) ==
  /\ gpc[c] = "roles" /\ GGoto(c, "store")
  /\ \/ found' = [found EXCEPT ![c] = AddUp(keys[c])]
     \/ GFails("db") /\ UNCHANGED found
  /\ UNCHANGED <<minute, groles, gcache, keys, gchange, torn, granted, gfaults>>

\* What is written is what the request found; what is read back from it is less.
StoreEntry(c) ==
  /\ gpc[c] = "store"
  /\ \/ /\ cache' = (IF found[c] = "all" THEN "all" ELSE "nothing") /\ cachedAt' = minute
        /\ GGoto(c, IF found[c] = "nothing" THEN "denied" ELSE "allowed")
        /\ granted' = (Entitled /\ found[c] # "nothing" /\ gfaults = {})
     \/ GFails("redis") /\ GGoto(c, "denied") /\ UNCHANGED <<gcache, granted>>
  /\ keys' = [keys EXCEPT ![c] = {}] /\ found' = [found EXCEPT ![c] = "nothing"]
  /\ UNCHANGED <<minute, groles, gchange, torn, gfaults>>

\* A tick while a request is between its reads and its write makes the entry older
\* than it looks.
GTick ==
  /\ minute < LastMinute /\ minute' = minute + 1
  /\ torn' = (torn \/ \E c \in Checks : gpc[c] \in {"user", "roles", "store"})
  /\ UNCHANGED <<groles, gcache, gguard, gchange, granted, gfaults>>

-----------------------------------------------------------------------------
(* Roles.                                                                  *)

Goes(o, place) == changes' = [changes EXCEPT ![o] = place]

\* What each operation requires of the role it reads: create a key that is free, the
\* others a role, and hardDelete one that is disabled.
Accepts(what, k) ==
  CASE what = "create" -> k \notin Existing
    [] what = "delete" -> k \in Existing \ enabled
    [] OTHER -> k \in Existing

FindRole(o, what, k) ==
  /\ changes[o] = "idle"
  /\ \/ /\ Accepts(what, k) /\ Goes(o, "write")
        /\ change' = [change EXCEPT ![o] = what] /\ target' = [target EXCEPT ![o] = k]
     \/ (~Accepts(what, k) \/ GFails("db")) /\ Goes(o, "failed") /\ UNCHANGED <<change, target>>
  /\ UNCHANGED <<minute, groles, gcache, gguard, torn, granted, gfaults>>

RoleCreated(k) ==
  /\ k \notin Existing /\ enabled' = enabled \cup {k}
  /\ \E g \in Gives : gives' = [r \in Existing \cup {k} |-> IF r = k THEN g ELSE gives[r]]

\* The other writes go to the document, if it is still there, whatever it has become since
\* it was read.
PermissionsUpdated(k) == (\E g \in Gives : gives' = [gives EXCEPT ![k] = g]) /\ UNCHANGED enabled
RoleUpdated(k) == enabled' = enabled \cup {k} /\ UNCHANGED gives
RoleDisabled(k) == enabled' = enabled \ {k} /\ UNCHANGED gives
RoleDeleted(k) == gives' = [r \in Existing \ {k} |-> gives[r]] /\ enabled' = enabled \ {k}

RoleWritten(what, k) ==
  \/ what = "create" /\ RoleCreated(k)
  \/ k \in Existing /\ \/ what = "grant" /\ PermissionsUpdated(k)
                       \/ what = "enable" /\ RoleUpdated(k)
                       \/ what = "disable" /\ RoleDisabled(k)
                       \/ what = "delete" /\ RoleDeleted(k)

\* create, update, disable, updatePermissions and hardDelete.  None of them touches the
\* entry in Redis.
WriteRole(o) ==
  LET k == target[o] IN
  /\ changes[o] = "write"
  /\ \/ RoleWritten(change[o], k) /\ Goes(o, "done") /\ granted' = FALSE
     \/ /\ GFails("db") \/ (change[o] = "create") = (k \in Existing)
        /\ Goes(o, "failed") /\ UNCHANGED <<gives, enabled, granted>>
  /\ change' = [change EXCEPT ![o] = "none"] /\ target' = [target EXCEPT ![o] = NoRole]
  /\ UNCHANGED <<minute, holds, gcache, gguard, torn, gfaults>>

\* updateRoles of the users' service.  A request that has read the user's roles and not
\* yet what they give adds up old roles with new permissions.
ChangeUserRoles ==
  /\ holds' \in SUBSET Roles \ {{}, holds} /\ granted' = FALSE
  /\ torn' = (torn \/ \E c \in Checks : gpc[c] = "roles")
  /\ UNCHANGED <<minute, gives, enabled, gcache, gguard, gchange, gfaults>>

Changes == {"create", "grant", "disable", "enable", "delete"}

\* heldAt is of the state a step ends in.
GNext ==
  /\ \/ GTick
     \/ \E c \in Checks : ReadEntry(c) \/ FindUserRoles(c) \/ FindActiveByKeys(c) \/ StoreEntry(c)
     \/ \E o \in RoleChanges : (\E what \in Changes, k \in Roles : FindRole(o, what, k)) \/ WriteRole(o)
     \/ ChangeUserRoles
  /\ heldAt' = IF Entitled' THEN minute' ELSE heldAt

GSpec == GInit /\ [][GNext]_gvars

-----------------------------------------------------------------------------
(* Properties.                                                             *)

\* Nothing invalidates the entry, and yet a user who has lost a permission gets through
\* for no longer than its life, as long as each request reads and stores of one moment.
GrantsEnd ==
  [][~torn => \A c \in Checks :
       gpc[c] # "allowed" /\ gpc'[c] = "allowed" => minute < heldAt + EntryLife]_gvars

\* "Reconstruir Sets desde arrays" (permissions.service.ts:54): what an entry grants is
\* what was stored, so a user who got through does so again while nothing changes.
EntryKeepsGrant ==
  [][\A c \in Checks : gpc[c] = "idle" /\ gpc'[c] = "denied" => ~granted]_gvars
=============================================================================
