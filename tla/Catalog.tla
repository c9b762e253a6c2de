------------------------------ MODULE Catalog ------------------------------
(***************************************************************************)
(* The modules and the roles that a new installation is given, in the      *)
(* order they are stored (system-modules.ts, system-roles.ts), and the     *)
(* menu that follows from them (navigation.service.ts).  A permission is a *)
(* pair of a module and an action; texts and icons are left out.           *)
(***************************************************************************)
EXTENDS Naturals, Sequences

\* An entry of SYSTEM_MODULES: its name, its parent and its actions that are enabled.
Entry(name, parent, enabled) == [name |-> name, parent |-> parent, enabled |-> enabled]

MainModules == <<
  Entry("dashboard", "none", {"read"}),
  Entry("my-tenant", "none", {"read", "update"}),
  Entry("cards", "none", {"view", "create", "edit", "delete"}) >>

BusinessModules == <<
  Entry("transactions", "none", {"view", "create", "export"}),
  Entry("terminals", "none", {"view", "create", "edit", "delete"}) >>

SystemGroup == << Entry("system", "none", {}) >>

AdministrationModules == <<
  Entry("analytics", "system", {}),
  Entry("api-credentials", "system", {"read", "update"}),
  Entry("audit", "system", {"view"}),
  Entry("modules", "system", {"view"}),
  Entry("roles", "system", {"view"}) >>

DirectoryModules == <<
  Entry("tenants", "system", {"view"}),
  Entry("users", "system", {"view"}),
  Entry("changelog", "system", {"read"}),
  Entry("contact", "system", {"read"}) >>

\* Mutant: some modules of the group before it.
ModulesChildFirst ==
  AdministrationModules \o MainModules \o BusinessModules \o SystemGroup \o DirectoryModules

SystemModules ==
  MainModules \o BusinessModules \o SystemGroup \o AdministrationModules \o DirectoryModules

EntryOf(name) == SystemModules[CHOOSE i \in DOMAIN SystemModules : SystemModules[i].name = name]

-----------------------------------------------------------------------------
(* The permissions of each role.                                           *)

Everything == { <<"*", "*">> }
All(modules) == modules \X {"*"}
Read(modules) == modules \X {"read"}
ReadExport(modules) == modules \X {"read", "export"}
Public == {"changelog", "documentation", "support", "contact", "dashboard"}

SecurityOfficer ==
  Read(Public \cup {"cards", "users", "transactions", "terminals", "vault", "keys"})
    \cup All({"roles", "permissions", "tenants"})
    \cup ReadExport({"audit"}) \cup {"external_service"} \X {"export", "rotate"}

Operator ==
  Read(Public \cup {"cards", "audit"})
    \cup {"terminals"} \X {"read", "create", "update", "disable", "enable"}
    \cup {"transactions"} \X {"create", "read", "update", "export"}
    \cup {"tenants"} \X {"read", "create", "update"}
    \cup {"external_service"} \X {"export", "rotate"}

Auditor ==
  Read(Public \cup {"tenants"})
    \cup ReadExport({"audit", "keys", "users", "terminals", "transactions", "cards",
                     "services", "roles", "permissions", "modules", "vault"})
    \cup {"external_service"} \X {"export", "rotate"}

User ==
  Read(Public) \cup {"my-tenant", "users"} \X {"read", "update"}
    \cup {"cards"} \X {"create", "read", "update", "delete"}
    \cup {"terminals"} \X {"create", "read", "update", "delete", "enable", "disable"}
    \cup {"transactions"} \X {"create", "read", "export"}
    \cup {"external_service"} \X {"invoke", "read_status"}

Merchant ==
  Read({"changelog", "contact", "dashboard"})
    \cup {"my-tenant", "api-credentials"} \X {"read", "update"} \cup {<<"users", "view">>}
    \cup {"terminals"} \X {"create", "read", "update", "delete", "enable", "disable"}
    \cup {"transactions"} \X {"create", "view", "export"}

Developer == Read(Public \cup {"api-credentials", "transactions"})

Role(key, grants) == [key |-> key, grants |-> grants]
SystemRoles == <<
  Role("super_admin", Everything), Role("admin", Everything),
  Role("security_officer", SecurityOfficer), Role("ops", Operator),
  Role("auditor", Auditor), Role("user", User), Role("merchant", Merchant),
  Role("developer", Developer) >>

-----------------------------------------------------------------------------
(* The menu.                                                               *)

\* permissionMatches: the permission itself, all of the module's or all.
Matches(grants, module, action) == {<<module, action>>, <<module, "*">>, <<"*", "*">>} \cap grants # {}

\* userHasModulePermission: one of the module's enabled permissions.
MayOpen(grants, module) == \E a \in EntryOf(module).enabled : Matches(grants, module, a)

\* The modules of the menu: a merchant has no cards.
Offered(role, modules) ==
  {m \in modules : MayOpen(role.grants, m) /\ ~(role.key = "merchant" /\ m = "cards")}

\* A group is looked up when one of its modules is shown, and its id is read.
MenuOpens(role, modules) ==
  \A m \in Offered(role, modules) : EntryOf(m).parent \in modules \cup {"none"}
=============================================================================
