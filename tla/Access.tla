-------------------------------- MODULE Access --------------------------------
(***************************************************************************)
(* Who may call what: the handlers of the API, a set per controller        *)
(* (src/backend/src/modules), the guards in front of them, and the calls   *)
(* the two clients of the web site make (src/frontend/src/lib/hooks.ts,    *)
(* admin-hooks.ts, auth.tsx, admin.ts).  A route is named by its method, a *)
(* colon, and its path without the prefix of the API.                      *)
(***************************************************************************)
EXTENDS SequencesExt

AdminRole == {"SUPER_ADMIN", "ADMIN", "SUPPORT", "COMPLIANCE"}

(* What the guards see of the caller: the valid JWT of the header, if any.  *)
Nobody == [type |-> "none", role |-> "none"]
Customer == [type |-> "user", role |-> "USER"]
Staff(role) == [type |-> "admin", role |-> role]

-----------------------------------------------------------------------------
(* The routes: the decorators of each handler and of its class, the tables  *)
(* it reads to answer, and the tables it writes.                            *)

Handler(route, guard, reads, writes) ==
  [route |-> route, guard |-> guard, reads |-> reads, writes |-> writes]
Public(route, reads, writes) == Handler(route, "public", reads, writes)
Private(route, reads, writes) == Handler(route, "jwt", reads, writes)
Panel(route, reads, writes) == Handler(route, "admin", reads, writes)
Restricted(route, writes) == Handler(route, "role", {}, writes)   \* SUPER_ADMIN and ADMIN

AuthController ==
  {Public(r, {}, {"users"}) :
     r \in {"POST:auth/register", "POST:auth/login", "POST:auth/refresh",
            "POST:auth/verify-email", "POST:auth/forgot-password",
            "POST:auth/reset-password"}} \cup
  {Private(r, {}, {"users"}) :
     r \in {"POST:auth/logout", "POST:auth/phone/request", "POST:auth/phone/verify",
            "POST:auth/change-password"}} \cup
  {Private("GET:auth/me", {}, {})}

UsersController ==
  {Private("GET:users/me", {"users"}, {}), Private("PATCH:users/me", {}, {"users"})}

BeneficiariesController ==
  {Private(r, {"beneficiaries"}, {}) : r \in {"GET:beneficiaries", "GET:beneficiaries/:id"}} \cup
  {Private(r, {}, {"beneficiaries"}) :
     r \in {"POST:beneficiaries", "PATCH:beneficiaries/:id", "DELETE:beneficiaries/:id"}}

CountriesController ==
  {Public(r, {"countries", "operators"}, {}) :
     r \in {"GET:countries", "GET:countries/currencies", "GET:countries/detect",
            "GET:countries/:iso2/operators"}}

TransactionsController ==
  {Private("POST:transactions/quote", {}, {}),
   Private("POST:transactions", {}, {"transactions", "beneficiaries"})} \cup
  {Private(r, {"transactions"}, {}) :
     r \in {"GET:transactions", "GET:transactions/:reference",
            "GET:transactions/:reference/receipt"}} \cup
  {Private(r, {}, {"transactions"}) :
     r \in {"POST:transactions/:reference/cancel", "POST:transactions/:reference/sync"}}

AdminController == {Public("POST:admin/auth/login", {}, {})}

AdminDashboardController ==
  {Panel("GET:admin/stats", {"users", "transactions"}, {}),
   Panel("GET:admin/users", {"users"}, {}),
   Panel("GET:admin/users/:id", {"users", "transactions", "beneficiaries"}, {}),
   Panel("PATCH:admin/users/:id/status", {}, {"users"}),
   Panel("GET:admin/transactions", {"transactions"}, {}),
   Panel("GET:admin/transactions/export", {"transactions"}, {}),
   Panel("GET:admin/transactions/:reference", {"transactions"}, {}),
   Panel("GET:admin/countries", {"countries", "operators"}, {}),
   Restricted("PATCH:admin/countries/:iso2/active", {"countries"}),
   Restricted("POST:admin/operators/sync", {"countries", "operators"}),
   Panel("GET:admin/settings", {"settings"}, {}),
   Restricted("PUT:admin/settings/:key", {"settings"}),
   Panel("GET:admin/geniuspay/balance", {}, {}),
   Panel("GET:admin/geniuspay/account", {}, {}),
   Panel("GET:admin/webhooks", {"webhook_events"}, {})}

WebhooksController ==
  {Public("POST:webhooks/geniuspay", {}, {"webhook_events", "transactions"})}

HealthController == {Public("GET:health", {}, {})}

API ==
  AuthController \cup UsersController \cup BeneficiariesController \cup CountriesController
  \cup TransactionsController \cup AdminController \cup AdminDashboardController
  \cup WebhooksController \cup HealthController

Route == [r \in {h.route : h \in API} |-> CHOOSE h \in API : h.route = r]

-----------------------------------------------------------------------------
(* The guards, in the order they run. *)

(* JwtAuthGuard, for every route that is not public. *)
Identified(r, caller) == Route[r].guard = "public" \/ caller # Nobody

(* AdminGuard, on the class of the dashboard. *)
ActsAsAdmin(r, caller) == Route[r].guard \in {"admin", "role"} => caller.type = "admin"

(* A slip: the roles are asked for on the class of the dashboard. *)
HoldsRole_onClass(r, caller) ==
  Route[r].guard \in {"admin", "role"} => caller.role \in {"SUPER_ADMIN", "ADMIN"}

(* RolesGuard, on three of its routes. *)
HoldsRole(r, caller) == Route[r].guard = "role" => caller.role \in {"SUPER_ADMIN", "ADMIN"}

(* The status a call is answered with before its handler runs, or 200. *)
Guarded(r, caller) ==
  CASE r \notin DOMAIN Route -> 404
    [] r \in DOMAIN Route /\ ~ Identified(r, caller) -> 401
    [] r \in DOMAIN Route /\ Identified(r, caller) /\
       ~ (ActsAsAdmin(r, caller) /\ HoldsRole(r, caller)) -> 403
    [] OTHER -> 200

-----------------------------------------------------------------------------
(* The calls of the web site: a query with its key in the cache, or a       *)
(* mutation with the keys it declares stale when it succeeds (refreshUser   *)
(* and logout of auth.tsx set the user of the page themselves).             *)

Query(route, key) == [route |-> route, key |-> key, stale |-> {}]
Mutation(route, keys) == [route |-> route, key |-> <<>>, stale |-> keys]

hooks ==
  [useCountries |-> Query("GET:countries", <<"countries">>),
   useOperators |-> Query("GET:countries/:iso2/operators", <<"operators", "iso2">>),
   useDetectPhone |-> Query("GET:countries/detect", <<"detect", "phone">>),
   useQuote |-> Mutation("POST:transactions/quote", {}),
   useSendMoney |-> Mutation("POST:transactions", {<<"transactions">>}),
   useTransactions |-> Query("GET:transactions", <<"transactions", "page">>),
   useTransaction |-> Query("GET:transactions/:reference", <<"transaction", "reference">>),
   useBeneficiaries |-> Query("GET:beneficiaries", <<"beneficiaries">>),
   useCreateBeneficiary |-> Mutation("POST:beneficiaries", {<<"beneficiaries">>}),
   useDeleteBeneficiary |-> Mutation("DELETE:beneficiaries/:id", {<<"beneficiaries">>}),
   refreshUser |-> Query("GET:users/me", <<"user">>),
   logout |-> Mutation("POST:auth/logout", {<<"user">>})]

(* A slip: the list of the operators is declared stale, which no page reads. *)
useSyncOperators_operators ==
  Mutation("POST:admin/operators/sync", {<<"admin", "operators">>})

useSyncOperators == Mutation("POST:admin/operators/sync", {<<"admin", "countries">>})

adminHooks ==
  [useAdminStats |-> Query("GET:admin/stats", <<"admin", "stats">>),
   useAdminUsers |-> Query("GET:admin/users", <<"admin", "users", "params">>),
   useUpdateUserStatus |-> Mutation("PATCH:admin/users/:id/status", {<<"admin", "users">>}),
   useAdminTransactions |-> Query("GET:admin/transactions", <<"admin", "transactions", "params">>),
   exportCsv |-> Mutation("GET:admin/transactions/export", {}),
   useAdminCountries |-> Query("GET:admin/countries", <<"admin", "countries">>),
   useToggleCountry |-> Mutation("PATCH:admin/countries/:iso2/active", {<<"admin", "countries">>}),
   useSyncOperators |-> useSyncOperators,
   useAdminSettings |-> Query("GET:admin/settings", <<"admin", "settings">>),
   useUpdateSetting |-> Mutation("PUT:admin/settings/:key", {<<"admin", "settings">>}),
   useAdminWebhooks |-> Query("GET:admin/webhooks", <<"admin", "webhooks", "page">>),
   useAdminBalance |-> Query("GET:admin/geniuspay/balance", <<"admin", "balance">>)]

Hook ==
  [h \in DOMAIN hooks \cup DOMAIN adminHooks |->
     IF h \in DOMAIN hooks THEN hooks[h] ELSE adminHooks[h]]

(* The pages of the dashboard and of the panel: the hooks each uses. *)
HistoryPage == {"useTransactions"}   \* and the home of the dashboard
SendMoneyPage == {"useCountries", "useDetectPhone", "useQuote", "useSendMoney"}
BeneficiariesPage ==
  {"useBeneficiaries", "useCountries", "useCreateBeneficiary", "useDeleteBeneficiary"}
DashboardLayout == {"refreshUser", "logout"}

AdminOverview == {"useAdminStats", "useAdminBalance"}
AdminUsersPage == {"useAdminUsers", "useUpdateUserStatus"}
AdminTransactionsPage == {"useAdminTransactions", "exportCsv"}
AdminCountriesPage == {"useAdminCountries", "useToggleCountry", "useSyncOperators"}
AdminSettingsPage == {"useAdminSettings", "useUpdateSetting"}
AdminWebhooksPage == {"useAdminWebhooks"}

Dashboard == {HistoryPage, SendMoneyPage, BeneficiariesPage, DashboardLayout}
AdminPanel == {AdminOverview, AdminUsersPage, AdminTransactionsPage, AdminCountriesPage,
               AdminSettingsPage, AdminWebhooksPage}

(* What the reader of a page can call is served, but for the controls the   *)
(* panel shows to every role and the API leaves to two.                     *)
Served(h, caller) ==
  Guarded(Hook[h].route, caller) =
    IF h \in {"useToggleCountry", "useSyncOperators", "useUpdateSetting"}
       /\ caller.role \in {"SUPPORT", "COMPLIANCE"} THEN 403 ELSE 200

(* The mutation m declares the query q stale when it writes what q reads. *)
Refetches(m, q) ==
  Route[Hook[m].route].writes \cap Route[Hook[q].route].reads # {} =>
    \E k \in Hook[m].stale : IsPrefix(k, Hook[q].key)
=============================================================================
