------------------------------- MODULE Routes -------------------------------
(***************************************************************************)
(* The routes of the API in the order the controllers declare them, which  *)
(* is the order they are tried in, and the guards before each handler.  A  *)
(* path is a sequence of segments, "*" for a parameter; the prefix and the *)
(* x-api-key, which all have, are left out, and so are the descriptions.   *)
(***************************************************************************)
EXTENDS Catalog

\* A route: its guards, and the permission that PermissionsGuard asks for, or <<>>.
To(method, path, guards, needs) ==
  [method |-> method, path |-> path, guards |-> guards, needs |-> needs]

Token == {"jwt"}
Permitted == {"jwt", "permissions"}
Owned == {"jwt", "owner"}

AuditRoutes == <<
  To("GET", <<"audit", "logs">>, Permitted, <<"audit", "read">>) >>
AuditReports == <<
  To("GET", <<"audit", "logs", "*">>, Permitted, <<"audit", "read">>),
  To("GET", <<"audit", "summary">>, Permitted, <<"audit", "read">>) >>

LoginRoutes == <<
  To("POST", <<"auth", "login">>, {}, <<>>),
  To("POST", <<"auth", "refresh">>, {}, <<>>) >>
RegistrationRoutes == <<
  To("POST", <<"auth", "register">>, {}, <<>>),
  To("POST", <<"auth", "register-merchant">>, {}, <<>>),
  To("POST", <<"auth", "confirm-phone">>, {}, <<>>),
  To("POST", <<"auth", "resend-code">>, {}, <<>>) >>
RecoveryRoutes == <<
  To("POST", <<"auth", "forgot-password">>, {}, <<>>),
  To("POST", <<"auth", "reset-password">>, {}, <<>>),
  To("POST", <<"auth", "service-login">>, {}, <<>>),
  To("POST", <<"auth", "logout">>, {}, <<>>) >>

CardLists == <<
  To("POST", <<"cards">>, Token, <<>>),
  To("GET", <<"cards">>, Token, <<>>) >>
CardRoutes == <<
  To("POST", <<"cards", "*", "retry-activation">>, Token, <<>>),
  To("GET", <<"cards", "details", "*">>, Token, <<>>),
  To("GET", <<"cards", "mine">>, Token, <<>>) >>

CsrfRoutes == << To("GET", <<"csrf-token">>, {}, <<>>) >>

DeviceKeyRoutes == <<
  To("POST", <<"devices", "key-exchange">>, Token, <<>>),
  To("GET", <<"devices", "list">>, Token, <<>>),
  To("GET", <<"devices", "*">>, Owned, <<>>) >>
DeviceRoutes == <<
  To("POST", <<"devices", "*", "rotate-key">>, Owned, <<>>),
  To("DELETE", <<"devices", "*">>, Owned, <<>>),
  To("GET", <<"devices", "*", "key-history">>, Owned, <<>>) >>

ModuleLists == <<
  To("GET", <<"modules">>, Permitted, <<"modules", "read">>),
  To("GET", <<"modules", "navigation">>, Permitted, <<>>),
  To("PATCH", <<"modules", "reorder">>, Permitted, <<"modules", "update">>),
  To("GET", <<"modules", "system">>, Permitted, <<"modules", "read">>) >>
ModuleRoutes == <<
  To("GET", <<"modules", "*">>, Permitted, <<"modules", "read">>),
  To("POST", <<"modules">>, Permitted, <<"modules", "create">>),
  To("PUT", <<"modules", "*">>, Permitted, <<"modules", "update">>),
  To("PATCH", <<"modules", "*", "disable">>, Permitted, <<"modules", "disable">>) >>
ModuleDeletion == << To("DELETE", <<"modules", "*">>, Permitted, <<"modules", "delete">>) >>

PrepareRoutes == << To("POST", <<"payment-tokens", "prepare">>, Token, <<>>) >>
NfcCardRoutes == <<
  To("POST", <<"cards", "*", "nfc-enrollment">>, Token, <<>>),
  To("DELETE", <<"cards", "*", "nfc-enrollment">>, Token, <<>>),
  To("GET", <<"cards", "*", "nfc-enrollment", "status">>, Token, <<>>) >>
AuthorizeRoutes == << To("POST", <<"nfc-payments", "authorize">>, {"scope"}, <<>>) >>

RoleLists == <<
  To("POST", <<"roles">>, Permitted, <<"roles", "create">>),
  To("GET", <<"roles">>, Permitted, <<"roles", "read">>),
  To("GET", <<"roles", "system">>, Permitted, <<"roles", "read">>),
  To("GET", <<"roles", "by-key", "*">>, Permitted, <<"roles", "read">>) >>
RoleRoutes == <<
  To("GET", <<"roles", "*">>, Permitted, <<"roles", "read">>),
  To("PUT", <<"roles", "*">>, Permitted, <<"roles", "update">>),
  To("PATCH", <<"roles", "*", "disable">>, Permitted, <<"roles", "disable">>) >>
RoleChanges == <<
  To("DELETE", <<"roles", "*">>, Permitted, <<"roles", "hardDelete">>),
  To("PATCH", <<"roles", "*", "permissions">>, Permitted, <<"roles", "update">>) >>

TenantLists == <<
  To("POST", <<"tenants">>, Permitted, <<"tenants", "create">>),
  To("GET", <<"tenants">>, Permitted, <<"tenants", "read">>) >>
OwnTenantRoutes == <<
  To("GET", <<"tenants", "my-tenant">>, Permitted, <<>>),
  To("GET", <<"tenants", "credentials">>, Permitted, <<>>),
  To("PATCH", <<"tenants", "credentials">>, Permitted, <<>>) >>
TenantRoutes == <<
  To("GET", <<"tenants", "*">>, Permitted, <<"tenants", "read">>),
  To("PATCH", <<"tenants", "*">>, Permitted, <<"tenants", "write">>),
  To("POST", <<"tenants", "*", "transition">>, Permitted, <<"tenants", "approve">>) >>
TenantHistory == <<
  To("GET", <<"tenants", "*", "lifecycle">>, Permitted, <<"tenants", "read">>),
  To("POST", <<"tenants", "credentials", "regenerate-oauth2-secret">>, Permitted, <<>>) >>

AllTerminals == <<
  To("GET", <<"admin", "terminals">>, Token, <<>>),
  To("GET", <<"admin", "terminals", "*">>, Token, <<>>) >>
AllTerminalChanges == <<
  To("POST", <<"admin", "terminals", "*", "suspend">>, Token, <<>>),
  To("POST", <<"admin", "terminals", "*", "revoke">>, Token, <<>>) >>
TerminalLists == <<
  To("POST", <<"terminals">>, Token, <<>>),
  To("GET", <<"terminals">>, Token, <<>>) >>
TerminalRoutes == <<
  To("GET", <<"terminals", "*">>, Token, <<>>),
  To("POST", <<"terminals", "*", "suspend">>, Token, <<>>),
  To("POST", <<"terminals", "*", "reactivate">>, Token, <<>>) >>
TerminalChanges == <<
  To("POST", <<"terminals", "*", "rotate-credentials">>, Token, <<>>),
  To("POST", <<"terminals", "*", "revoke">>, Token, <<>>),
  To("PATCH", <<"terminals", "*">>, Token, <<>>) >>
ClientRoutes == <<
  To("POST", <<"oauth", "clients">>, {}, <<>>),
  To("POST", <<"oauth", "token">>, {}, <<>>),
  To("DELETE", <<"oauth", "clients", "*">>, {}, <<>>),
  To("GET", <<"oauth", "clients">>, {}, <<>>) >>

TransactionChanges == <<
  To("POST", <<"transactions">>, Token, <<>>),
  To("POST", <<"transactions", "confirm">>, Token, <<>>),
  To("GET", <<"transactions", "dashboard", "statistics">>, Token, <<>>) >>
TransactionLists == <<
  To("POST", <<"transactions", "*", "cancel">>, Token, <<>>),
  To("GET", <<"transactions">>, Token, <<>>),
  To("GET", <<"transactions", "*">>, Token, <<>>) >>
TestRoutes == << To("GET", <<"transactions-test">>, {}, <<>>) >>

UserRoutes == <<
  To("POST", <<"users">>, Permitted, <<"users", "create">>),
  To("GET", <<"users", "*">>, Permitted, <<"users", "edit">>) >>
UserLists == << To("GET", <<"users">>, Permitted, <<"users", "edit">>) >>
UserCredentials == <<
  To("POST", <<"users", "*", "roles">>, Permitted, <<"users", "assign-roles">>),
  To("POST", <<"users", "*", "password">>, Permitted, <<"users", "edit">>) >>
UserChanges == <<
  To("PATCH", <<"users", "*">>, Permitted, <<"users", "edit">>),
  To("DELETE", <<"users", "*">>, Permitted, <<"users", "delete">>) >>
UserHistory == <<
  To("POST", <<"users", "*", "transition">>, Permitted, <<"users", "edit">>),
  To("GET", <<"users", "*", "lifecycle">>, Permitted, <<"users", "edit">>) >>
ProfileRoutes == <<
  To("PATCH", <<"profile">>, Token, <<>>),
  To("POST", <<"profile", "password">>, Token, <<>>) >>

\* The controllers, in the order of AppModule and of their own modules.
Routes ==
  AuditRoutes \o AuditReports \o LoginRoutes \o RegistrationRoutes \o RecoveryRoutes
    \o CardLists \o CardRoutes \o CsrfRoutes \o DeviceKeyRoutes \o DeviceRoutes
    \o ModuleLists \o ModuleRoutes \o ModuleDeletion
    \o NfcCardRoutes \o PrepareRoutes \o AuthorizeRoutes
    \o RoleLists \o RoleRoutes \o RoleChanges
    \o TenantLists \o OwnTenantRoutes \o TenantRoutes \o TenantHistory
    \o TerminalLists \o TerminalRoutes \o TerminalChanges \o AllTerminals \o AllTerminalChanges
    \o ClientRoutes \o TransactionChanges \o TransactionLists \o TestRoutes
    \o UserRoutes \o UserLists \o UserCredentials \o UserChanges \o UserHistory \o ProfileRoutes

-----------------------------------------------------------------------------
(* Dispatch and guards.                                                    *)

Fits(route, method, path) ==
  /\ route.method = method /\ Len(route.path) = Len(path)
  /\ \A i \in DOMAIN path : route.path[i] \in {path[i], "*"}

\* The first route that fits, if one does.
Dispatch(method, path) ==
  LET Fitting == {i \in DOMAIN Routes : Fits(Routes[i], method, path)}
  IN  {i \in Fitting : \A j \in Fitting : i <= j}

\* hasPermission: the permission itself, its module's wildcard, or the global one.
HasPermission(grants, needs) ==
  {needs, <<needs[1], "*">>, <<"*", "*">>} \cap grants # {}

\* What a user with a valid token gets through.  DeviceOwnershipGuard looks for an id that
\* the token's actor does not have; a user's token has no scopes.
Admits(grants, route) ==
  /\ route.guards \cap {"owner", "scope"} = {}
  /\ "permissions" \in route.guards /\ route.needs # <<>> => HasPermission(grants, route.needs)

\* The list behind a module of the menu, and the routes it is dispatched to.
Lists == {
  <<"cards", <<"cards">> >>, <<"transactions", <<"transactions">> >>,
  <<"terminals", <<"terminals">> >>, <<"audit", <<"audit", "logs">> >>,
  <<"modules", <<"modules">> >>, <<"roles", <<"roles">> >>, <<"tenants", <<"tenants">> >>,
  <<"users", <<"users">> >>, <<"my-tenant", <<"tenants", "my-tenant">> >>,
  <<"api-credentials", <<"tenants", "credentials">> >> }

Behind == [m \in {l[1] : l \in Lists} |->
             {Routes[i] : i \in UNION {Dispatch("GET", l[2]) : l \in {k \in Lists : k[1] = m}}}]

-----------------------------------------------------------------------------
(* Properties.                                                             *)

\* No route hides one that is declared after it: each is what its own path, with parameters
\* that are no literal of another route, is dispatched to.
NoneIsHidden == \A i \in DOMAIN Routes : Dispatch(Routes[i].method, Routes[i].path) = {i}

\* Who is shown a module of the menu gets through the guards of the list behind it.  (Not so
\* a merchant's list of users: the menu asks for users.view, the route for users.edit.)
LeadsOn(role, modules) ==
  \A m \in Offered(role, modules) \cap DOMAIN Behind :
    <<role.key, m>> # <<"merchant", "users">> =>
      Behind[m] # {} /\ \A route \in Behind[m] : Admits(role.grants, route)
=============================================================================
