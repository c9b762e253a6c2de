----------------------------- MODULE MCAccounts -----------------------------
(***************************************************************************)
(* Who may use the system, and what for, on small sets: one account, one   *)
(* terminal and its clients, the keys that sign tokens, the sessions and   *)
(* the permissions of one user, the modules of the menu.  The modules      *)
(* share no variable, so a behaviour follows one of them, and the others   *)
(* stay as they started.                                                   *)
(***************************************************************************)
EXTENDS Accounts, Terminals, SigningKeys, Sessions, Permissions, Menu, TLC

VARIABLE part

Parts == {"accounts", "terminals", "keys", "sessions", "permissions", "menu"}

\* A part that does not move starts in one state; so does every part up to the names of
\* the roles.
Init ==
  /\ part \in Parts
  /\ AInit /\ (part # "accounts" => afaults = {"db"} /\ status = "none")
  /\ OInit /\ (part # "terminals" => ofaults = {})
  /\ KInit /\ (part # "keys" => kfaults = {"crash"})
  /\ SInit /\ (part # "sessions" => sfaults = {"vault"})
  /\ GInit /\ holds = {CHOOSE k \in Roles : TRUE}
  /\ \A k \in Existing \ enabled : gives[k] = "all"
  /\ part # "permissions" => Existing = enabled /\ \A k \in enabled : gives[k] = "all"
  /\ MInit /\ (part # "menu" => mfaults = {} /\ Group \notin active)

Next ==
  \/ part = "accounts" /\ ANext /\ UNCHANGED <<ovars, kvars, svars, gvars, mvars, part>>
  \/ part = "terminals" /\ ONext /\ UNCHANGED <<avars, kvars, svars, gvars, mvars, part>>
  \/ part = "keys" /\ KNext /\ UNCHANGED <<avars, ovars, svars, gvars, mvars, part>>
  \/ part = "sessions" /\ SNext /\ UNCHANGED <<avars, ovars, kvars, gvars, mvars, part>>
  \/ part = "permissions" /\ GNext /\ UNCHANGED <<avars, ovars, kvars, svars, mvars, part>>
  \/ part = "menu" /\ MNext /\ UNCHANGED <<avars, ovars, kvars, svars, gvars, part>>

Spec == Init /\ [][Next]_<<avars, ovars, kvars, svars, gvars, mvars, part>>

\* Every variable of the module that moves keeps its type.
TypeOK ==
  CASE part = "accounts" -> ATypeOK
    [] part = "terminals" -> OTypeOK
    [] part = "keys" -> KTypeOK
    [] part = "sessions" -> STypeOK
    [] part = "permissions" -> GTypeOK
    [] part = "menu" -> MTypeOK

\* The parts use the same values, and so one symmetry.
Symmetry == Permutations(Requests)
=============================================================================
