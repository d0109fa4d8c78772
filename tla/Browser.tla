-------------------------------- MODULE Browser --------------------------------
(***************************************************************************)
(* The tabs of one browser, of one customer and one administrator: what    *)
(* they keep in localStorage, which all tabs share, the calls they make,   *)
(* the exchange of an expired pair of tokens and the repeated call          *)
(* (src/frontend/src/lib/api.ts, auth.tsx, admin.ts and the layouts), and  *)
(* what the API makes of the calls: the guards of Access, and the sessions *)
(* of Accounts, each request now a step of its own.                        *)
(*                                                                         *)
(* A callback of a page is a step: JavaScript runs it, and the promises it *)
(* resolves, to the end.                                                   *)
(***************************************************************************)
EXTENDS Integers, Access

CONSTANTS
  Tab,        \* the tabs
  NoTab,      \* not one of them
  Start,      \* the page each tab shows at first
  MaxEvents,  \* bound: clicks, loads and expiries of a behaviour
  NetFaults   \* whether answers may be lost

VARIABLES
  store,    \* localStorage: the customer's pair and the administrator's token
  tab,      \* what each tab shows
  call,     \* the calls each tab has under way
  refresh,  \* the exchanges of the pair each tab has under way
  cred,     \* the pairs and tokens signed so far, and the sessions behind them
  fresh,    \* a pair was signed in the current second
  events    \* how many events are left

pageVars == <<store, tab, call, refresh>>
serverVars == <<cred, fresh>>
vars == <<pageVars, serverVars, events>>

Slot == {1, 2}     \* bound: calls of one tab at one time
Path == {"/", "/login", "/dashboard", "/admin/login", "/admin"}

(* An element of cred; 0 stands for none.  by and lost are history: the     *)
(* tab that exchanged the pair, and whether the answer never reached it.    *)
Pair(who) == [who |-> who, valid |-> TRUE, session |-> "live", by |-> NoTab, lost |-> FALSE]

NoCall == [pc |-> "idle", route |-> "none", right |-> FALSE, cred |-> 0,
           retried |-> FALSE, on |-> 0, status |-> 0, new |-> 0, runs |-> 0]
NoRefresh == [pc |-> "none", cred |-> 0, new |-> 0]

(* A customer and a member of the support staff have signed in before. *)
Init ==
  /\ store = [user |-> 1, admin |-> 2]
  /\ tab = [t \in Tab |-> [path |-> Start[t], user |-> TRUE, loading |-> FALSE]]
  /\ call = [t \in Tab |-> [s \in Slot |-> NoCall]]
  /\ refresh = [t \in Tab |-> [s \in Slot |-> NoRefresh]]
  /\ cred = <<Pair(Customer), Pair(Staff("SUPPORT"))>>
  /\ fresh = FALSE
  /\ events = MaxEvents

-----------------------------------------------------------------------------
(* Loading a page. *)

Event == events > 0 /\ events' = events - 1
Quietly == UNCHANGED events

AdminRoutes == {adminHooks[h].route : h \in DOMAIN adminHooks} \cup {"POST:admin/auth/login"}
IsAdmin(route) == route \in AdminRoutes

(* The request interceptors put the stored token on the call. *)
Sent(route, st) ==
  [NoCall EXCEPT !.pc = "sent", !.route = route,
                 !.cred = IF IsAdmin(route) THEN st.admin ELSE st.user]

(* The page of t is replaced, its calls and exchanges forgotten, whether    *)
(* they have reached the API or not, and st is the storage it finds.  Every *)
(* page asks who is signed in, unless no token is stored; the panel sends   *)
(* to its login whoever has none.                                           *)
Loaded(t, path, st) ==
  /\ store' = st
  /\ tab' = [tab EXCEPT ![t] =
       [path |-> IF path = "/admin" /\ st.admin = 0 THEN "/admin/login" ELSE path,
        user |-> FALSE, loading |-> st.user # 0]]
  /\ call' = [call EXCEPT ![t] =
       [s \in Slot |-> IF s = 1 /\ st.user # 0 THEN Sent("GET:users/me", st) ELSE NoCall]]
  /\ refresh' = [refresh EXCEPT ![t] = [s \in Slot |-> NoRefresh]]
  /\ cred' = [n \in DOMAIN cred |->
       IF \E s \in Slot : refresh[t][s].new # 0 /\ refresh[t][s].cred = n
         THEN [cred[n] EXCEPT !.lost = TRUE] ELSE cred[n]]
  /\ UNCHANGED fresh

Load(t, path) == Event /\ Loaded(t, path, store)

(* The layout of the dashboard sends away whoever is not signed in. *)
LeaveDashboard(t) ==
  /\ tab[t].path = "/dashboard" /\ ~ tab[t].loading /\ ~ tab[t].user
  /\ tab' = [tab EXCEPT ![t].path = "/login"]
  /\ Quietly /\ UNCHANGED <<store, call, refresh, serverVars>>

-----------------------------------------------------------------------------
(* What the reader of a page does. *)

(* The calls a page offers: two stand for all of the dashboard's, and two   *)
(* for all of the panel's.                                                  *)
Offered(path) ==
  CASE path = "/dashboard" -> {"GET:beneficiaries", "POST:transactions"}
    [] path = "/login" -> {"POST:auth/login"}
    [] path = "/admin/login" -> {"POST:admin/auth/login"}
    [] path = "/admin" -> {"GET:admin/geniuspay/balance", "PUT:admin/settings/:key"}
    [] OTHER -> {}

(* right: whether a password typed in is right.  A form is not sent again   *)
(* while it is pending.                                                     *)
Click(t, s, route, right) ==
  /\ route \in Offered(tab[t].path)
  /\ tab[t].path = "/dashboard" => tab[t].user
  /\ call[t][s].pc = "idle" /\ \A z \in Slot : call[t][z].route # route
  /\ Event
  /\ call' = [call EXCEPT ![t][s] = [Sent(route, store) EXCEPT !.right = right]]
  /\ UNCHANGED <<store, tab, refresh, serverVars>>

(* The storage is cleared before the interceptor, a microtask later, looks  *)
(* for the token of the call.                                               *)
Logout(t, s) ==
  /\ tab[t].path = "/dashboard" /\ tab[t].user
  /\ call[t][s].pc = "idle"
  /\ Event
  /\ store' = [store EXCEPT !.user = 0]
  /\ tab' = [tab EXCEPT ![t].user = FALSE]
  /\ call' = [call EXCEPT ![t][s] = Sent("POST:auth/logout", store')]
  /\ UNCHANGED <<refresh, serverVars>>

AdminLogout(t) ==
  /\ tab[t].path = "/admin"
  /\ Event
  /\ Loaded(t, "/admin/login", [store EXCEPT !.admin = 0])

-----------------------------------------------------------------------------
(* The API. *)

Answered(t, s, status, new) ==
  LET runs == call[t][s].runs IN
  call' = [call EXCEPT ![t][s] =
    [@ EXCEPT !.pc = "answered", !.status = status, !.new = new,
              !.runs = IF status = 200 THEN runs + 1 ELSE runs]]

(* The JWT alone: the session behind it is not asked for. *)
Caller(n) == IF n # 0 /\ cred[n].valid THEN cred[n].who ELSE Nobody

(* A slip: GeniusPay's refusal is passed on as it is. *)
Upstream_same(status) == status

(* GeniusPay's refusal of the key of the platform is a bad gateway.         *)
Upstream(status) == IF status \in {401, 403} THEN 502 ELSE status

(* A pair signed in the second of the last one is the same pair, and the    *)
(* unique hash refuses it.                                                  *)
Signs == ~ fresh /\ fresh' = TRUE /\ cred' = Append(cred, Pair(Customer))

Respond(t, s) ==
  LET c == call[t][s]
      early == Guarded(c.route, Caller(c.cred))
  IN
  /\ c.pc = "sent"
  /\ \/ early # 200 /\ Answered(t, s, early, 0) /\ UNCHANGED serverVars
     \/ /\ early = 200
        /\ CASE c.route \in {"POST:auth/login", "POST:admin/auth/login"} /\ ~ c.right ->
                  Answered(t, s, 401, 0) /\ UNCHANGED serverVars
             [] c.route = "POST:auth/login" /\ c.right ->
                  \/ Signs /\ Answered(t, s, 200, Len(cred'))
                  \/ fresh /\ Answered(t, s, 500, 0) /\ UNCHANGED serverVars
             [] c.route = "POST:admin/auth/login" /\ c.right ->
                  /\ cred' = Append(cred, Pair(Staff("SUPPORT")))
                  /\ Answered(t, s, 200, Len(cred')) /\ UNCHANGED fresh
             [] c.route = "POST:auth/logout" ->
                  /\ cred' = [n \in DOMAIN cred |->
                       IF cred[n].who = Customer /\ cred[n].session = "live"
                         THEN [cred[n] EXCEPT !.session = "revoked"] ELSE cred[n]]
                  /\ Answered(t, s, 200, 0) /\ UNCHANGED fresh
             [] c.route = "GET:admin/geniuspay/balance" ->
                  /\ \E theirs \in {200, 401, 500} : Answered(t, s, Upstream(theirs), 0)
                  /\ UNCHANGED serverVars
             [] OTHER -> Answered(t, s, 200, 0) /\ UNCHANGED serverVars
  /\ Quietly /\ UNCHANGED <<store, tab, refresh>>

(* The call or its answer is lost. *)
Lose(t, s) ==
  /\ NetFaults
  /\ call[t][s].pc = "sent" \/ (call[t][s].pc = "answered" /\ call[t][s].status # 0)
  /\ call' = [call EXCEPT ![t][s] = [@ EXCEPT !.pc = "answered", !.status = 0]]
  /\ Quietly /\ UNCHANGED <<store, tab, refresh, serverVars>>

(* POST /auth/refresh: the session is found and revoked, then another pair  *)
(* signed, unless it is the same pair.                                      *)
Exchange(t, s) ==
  LET n == refresh[t][s].cred
      end(state) == [cred EXCEPT ![n] = [@ EXCEPT !.session = state, !.by = t]]
      answer(new) == refresh' = [refresh EXCEPT ![t][s] = [@ EXCEPT !.pc = "answered", !.new = new]]
  IN
  /\ refresh[t][s].pc = "sent"
  /\ \/ cred[n].session # "live" /\ answer(0) /\ UNCHANGED serverVars
     \/ cred[n].session = "live" /\ fresh /\ answer(0)
        /\ cred' = end("conflict") /\ UNCHANGED fresh
     \/ /\ cred[n].session = "live" /\ ~ fresh /\ fresh' = TRUE
        /\ cred' = Append(end("rotated"), Pair(Customer))
        /\ answer(Len(cred'))
  /\ Quietly /\ UNCHANGED <<store, tab, call>>

LoseExchange(t, s) ==
  LET r == refresh[t][s] IN
  /\ NetFaults
  /\ r.pc = "sent" \/ (r.pc = "answered" /\ r.new # 0)
  /\ refresh' = [refresh EXCEPT ![t][s] = [@ EXCEPT !.pc = "answered", !.new = 0]]
  /\ cred' = [cred EXCEPT ![r.cred].lost = TRUE]
  /\ Quietly /\ UNCHANGED <<store, tab, call, fresh>>

(* A second goes by; an access token expires. *)
Tick == fresh /\ fresh' = FALSE /\ UNCHANGED <<pageVars, cred, events>>

Expire(n) ==
  /\ cred[n].valid /\ ~ fresh
  /\ Event
  /\ cred' = [cred EXCEPT ![n].valid = FALSE]
  /\ UNCHANGED <<pageVars, fresh>>

-----------------------------------------------------------------------------
(* The answers, back in the page. *)

(* The call of slot s succeeds. *)
Succeed(t, s) ==
  LET c == call[t][s] IN
  /\ c.pc = "answered" /\ c.status = 200
  /\ call' = [call EXCEPT ![t][s] = NoCall]
  /\ CASE c.route = "POST:auth/login" ->
            /\ store' = [store EXCEPT !.user = c.new]
            /\ tab' = [tab EXCEPT ![t].user = TRUE, ![t].path = "/dashboard"]
       [] c.route = "POST:admin/auth/login" ->
            /\ store' = [store EXCEPT !.admin = c.new]
            /\ tab' = [tab EXCEPT ![t].path = "/admin"]
       [] c.route = "GET:users/me" ->
            tab' = [tab EXCEPT ![t].user = TRUE, ![t].loading = FALSE] /\ UNCHANGED store
       [] OTHER -> UNCHANGED <<store, tab>>
  /\ Quietly /\ UNCHANGED <<refresh, serverVars>>

(* The calls of Z fail for good; refreshUser then shows nobody. *)
Rejected(t, Z) ==
  /\ call' = [call EXCEPT ![t] = [z \in Slot |-> IF z \in Z THEN NoCall ELSE @[z]]]
  /\ tab' = IF \E z \in Z : call[t][z].route = "GET:users/me"
              THEN [tab EXCEPT ![t].user = FALSE, ![t].loading = FALSE] ELSE tab

(* No new token for the calls of Z: to the login page, or back to it. *)
GiveUp(t, Z, st) ==
  IF tab[t].path = "/login"
    THEN store' = st /\ Rejected(t, Z) /\ UNCHANGED serverVars
    ELSE Loaded(t, "/login", st)

(* A slip: whatever fails is tried again. *)
Retries_anyError(c) == ~ IsAdmin(c.route) /\ ~ c.retried

Retries(c) == ~ IsAdmin(c.route) /\ c.status = 401 /\ ~ c.retried

(* A slip: each call makes its own exchange. *)
Shared_own(t, s) == s

(* The exchange a refused call waits for: the one under way, or its own.    *)
Shared(t, s) ==
  IF \E z \in Slot : refresh[t][z].pc # "none"
    THEN CHOOSE z \in Slot : refresh[t][z].pc # "none" ELSE s

(* The response interceptor of api: a first 401 waits for another pair, or, *)
(* with no pair stored and no exchange under way, gives up at once.         *)
Retry(t, s) ==
  LET z == Shared(t, s) IN
  /\ call[t][s].pc = "answered" /\ call[t][s].status # 200 /\ Retries(call[t][s])
  /\ IF refresh[t][z].pc = "none" /\ store.user = 0
       THEN GiveUp(t, {s}, store) /\ (tab[t].path = "/login" => UNCHANGED refresh)
       ELSE /\ call' = [call EXCEPT ![t][s] = [@ EXCEPT !.pc = "waiting", !.retried = TRUE, !.on = z]]
            /\ refresh' = IF refresh[t][z].pc # "none" THEN refresh
                          ELSE [refresh EXCEPT ![t][z] = [pc |-> "sent", cred |-> store.user, new |-> 0]]
            /\ UNCHANGED <<store, tab, serverVars>>
  /\ Quietly

(* Any other failure; a 401 signs the administrator out. *)
Fail(t, s) ==
  LET c == call[t][s] IN
  /\ c.pc = "answered" /\ c.status # 200 /\ ~ Retries(c)
  /\ IF IsAdmin(c.route) /\ c.status = 401
       THEN IF tab[t].path = "/admin/login"
              THEN /\ store' = [store EXCEPT !.admin = 0]
                   /\ Rejected(t, {s}) /\ UNCHANGED <<refresh, serverVars>>
              ELSE Loaded(t, "/admin/login", [store EXCEPT !.admin = 0])
       ELSE Rejected(t, {s}) /\ UNCHANGED <<store, refresh, serverVars>>
  /\ Quietly

(* A slip: only the call that began the exchange goes on. *)
Waiting_first(t, s) == {z \in {s} : call[t][z].pc = "waiting" /\ call[t][z].on = s}

Waiting(t, s) == {z \in Slot : call[t][z].pc = "waiting" /\ call[t][z].on = s}

(* The end of refreshAccessToken: the new pair is stored, and every call    *)
(* that waited is made again; or the stored pair, whatever it is by now, is *)
(* thrown away.                                                             *)
Refreshed(t, s) ==
  LET r == refresh[t][s]
      Z == Waiting(t, s)
      st == [store EXCEPT !.user = r.new]
      over == [refresh EXCEPT ![t][s] = NoRefresh]
  IN
  /\ r.pc = "answered"
  /\ IF r.new # 0
       THEN /\ store' = st /\ refresh' = over
            /\ call' = [call EXCEPT ![t] = [z \in Slot |->
                 IF z \in Z THEN [@[z] EXCEPT !.pc = "sent", !.cred = r.new] ELSE @[z]]]
            /\ UNCHANGED <<tab, serverVars>>
       ELSE GiveUp(t, Z, st) /\ (tab[t].path = "/login" => refresh' = over)
  /\ Quietly

-----------------------------------------------------------------------------
Next ==
  \/ Tick
  \/ \E n \in DOMAIN cred : Expire(n)
  \/ \E t \in Tab :
       \/ \E p \in Path : Load(t, p)
       \/ LeaveDashboard(t) \/ AdminLogout(t)
       \/ \E s \in Slot :
            \/ \E p \in Path : \E route \in Offered(p), right \in BOOLEAN : Click(t, s, route, right)
            \/ Logout(t, s)
            \/ Respond(t, s) \/ Lose(t, s) \/ Exchange(t, s) \/ LoseExchange(t, s)
            \/ Succeed(t, s) \/ Retry(t, s) \/ Fail(t, s) \/ Refreshed(t, s)

Spec == Init /\ [][Next]_vars

Proceed(t, s) ==
  \/ Respond(t, s) \/ Exchange(t, s)
  \/ Succeed(t, s) \/ Retry(t, s) \/ Fail(t, s) \/ Refreshed(t, s)

(* As long as a call is under way, one is answered, or fails, and a page    *)
(* runs its callbacks, and the clock goes on; nobody has to click.          *)
Fairness == WF_vars(Tick \/ \E t \in Tab, s \in Slot : Proceed(t, s))

FairSpec == Spec /\ Fairness

-----------------------------------------------------------------------------
(* A call is carried out once, though the interceptor of api makes it again *)
(* when it is refused: what was carried out is never tried again, be its    *)
(* answer lost or its session gone (api.ts:59-79).                          *)
ExecutedOnce == \A t \in Tab, s \in Slot : call[t][s].runs <= 1

(* The pair stored is thrown away only when the exchange of a pair fails    *)
(* for a reason that is not the doing of this page: the session was revoked,*)
(* the pair was exchanged by another tab, or in the second it was signed    *)
(* in, or the answer to its exchange was lost.  The calls of one page never *)
(* spoil one another's exchange, since they share the promise               *)
(* (api.ts:40-57 and 65-67).                                                *)
OneTabKeepsItsSession ==
  [][\A t \in Tab, s \in Slot :
       refresh[t][s].pc = "answered" /\ store.user # 0 /\ store'.user = 0
         /\ refresh'[t][s].pc = "none" /\ refresh[t][s].new = 0 =>
       LET c == cred[refresh[t][s].cred] IN
       c.session \in {"revoked", "conflict"} \/ c.by # t \/ c.lost]_vars

(* The panel signs its reader out by the button, for a token that is absent *)
(* or expired, or after a wrong password typed in another tab: never for a  *)
(* control the role does not allow nor for what GeniusPay answers           *)
(* (admin.ts:47-57, geniuspay.service.ts:131-149, roles.guard.ts).          *)
AdminSignedOutByTokenOnly ==
  [][store.admin # 0 /\ store'.admin = 0 =>
       \E t \in Tab :
         \/ AdminLogout(t)
         \/ \E s \in Slot : LET c == call[t][s] IN
              /\ c.pc = "answered" /\ c.status # 200 /\ IsAdmin(c.route) /\ call'[t][s] # c
              /\ IF c.route = "POST:admin/auth/login" THEN ~ c.right
                 ELSE c.cred = 0 \/ ~ cred[c.cred].valid]_vars

Busy == \E t \in Tab : tab[t].loading \/ \E s \in Slot : call[t][s].pc # "idle"

(* Left alone, the pages come to rest: every call is settled, with an       *)
(* answer, a failure or another page, none waits for ever for an exchange,  *)
(* and no page shows its spinner for ever (api.ts:59-79, auth.tsx:31-45).   *)
CallsSettle == Busy ~> ~ Busy

(* The pages and the API agree: every call of the page a tab shows exists,  *)
(* and no guard refuses it to whom the page is for, but the three controls  *)
(* shown to support and compliance staff all the same (hooks.ts,            *)
(* admin-hooks.ts, admin.controller.ts:54-167, roles.guard.ts).             *)
CallsAreServed ==
  \A t \in Tab :
    /\ tab[t].path = "/dashboard" => \A h \in UNION Dashboard : Served(h, Customer)
    /\ tab[t].path = "/admin" =>
         \A h \in UNION AdminPanel, role \in AdminRole : Served(h, Staff(role))

(* A page a tab shows follows what its own controls write: each query that  *)
(* reads a table one of the page's mutations writes is declared stale by    *)
(* that mutation (the onSuccess of hooks.ts and admin-hooks.ts).            *)
PagesFollowOwnWrites ==
  \A t \in Tab : \A page \in Dashboard \cup AdminPanel : \A m, q \in page :
    tab[t].path \in {"/dashboard", "/admin"} => Refetches(m, q)

(* Signing out revokes the customer's sessions, as POST /auth/logout says   *)
(* of itself (auth.controller.ts:54): when the call the button makes is     *)
(* over, no session is left.                                                *)
LogoutRevokes ==
  [][\A t \in Tab, s \in Slot :
       call[t][s].route = "POST:auth/logout" /\ call'[t][s].route # "POST:auth/logout" =>
       \A n \in DOMAIN cred' : cred'[n].who = Customer => cred'[n].session # "live"]_vars

-----------------------------------------------------------------------------
(* The inductive invariant of ExecutedOnce and OneTabKeepsItsSession.       *)

Cred == [who : {Customer} \cup {Staff(role) : role \in AdminRole}, valid : BOOLEAN,
         session : {"live", "revoked", "rotated", "conflict"}, by : Tab \cup {NoTab},
         lost : BOOLEAN]

Routes == (UNION {Offered(p) : p \in Path}) \cup {"none", "GET:users/me", "POST:auth/logout"}

Shape ==
  LET Known == 0..Len(cred) IN
  /\ cred \in Seq(Cred)
  /\ store \in [user : Known, admin : Known]
  /\ call \in [Tab -> [Slot ->
       [pc : {"idle", "sent", "answered", "waiting"}, route : Routes, right : BOOLEAN,
        cred : Known, retried : BOOLEAN, on : {0} \cup Slot, status : Nat, new : Known, runs : Nat]]]
  /\ refresh \in [Tab -> [Slot ->
       [pc : {"none", "sent", "answered"}, cred : Known, new : Known]]]

(* A page has one exchange under way, of a pair; its answer is a new pair.  *)
OneExchange ==
  \A t \in Tab, s \in Slot :
    /\ refresh[t][s].pc # "none" => refresh[t][s].cred # 0
    /\ refresh[t][s].pc # "answered" => refresh[t][s].new = 0
    /\ \A z \in Slot : refresh[t][s].pc # "none" /\ refresh[t][z].pc # "none" => s = z

(* The answers under way, and the pair each brings. *)
Way == {"refresh", "call"} \X Tab \X Slot
NewOf(w) == IF w[1] = "refresh" THEN refresh[w[2]][w[3]].new ELSE call[w[2]][w[3]].new
Brought(n) == \E w \in Way : NewOf(w) = n

(* A pair is brought to one page, once, and is exchanged only afterwards.   *)
BroughtOnce ==
  /\ \A v, w \in Way : NewOf(v) # 0 /\ NewOf(v) = NewOf(w) => v = w
  /\ store.user # 0 => ~ Brought(store.user)
  /\ \A t \in Tab, s \in Slot : refresh[t][s].pc # "none" => ~ Brought(refresh[t][s].cred)

(* A pair exchanged by t, with an answer that was not lost, is stored only  *)
(* until that answer arrives; no exchange of it is begun again.             *)
ExchangedForGood ==
  \A n \in DOMAIN cred, t \in Tab :
    cred[n].session = "rotated" /\ cred[n].by = t /\ ~ cred[n].lost =>
      /\ ~ Brought(n)
      /\ store.user = n => \E z \in Slot : refresh[t][z].cred = n /\ refresh[t][z].new # 0
      /\ \A z \in Slot : refresh[t][z].pc # "none" /\ refresh[t][z].cred = n => refresh[t][z].new # 0

(* What a failed exchange says of the pair. *)
FailureHasCause ==
  \A t \in Tab, s \in Slot :
    refresh[t][s].pc = "answered" /\ refresh[t][s].new = 0 =>
      LET c == cred[refresh[t][s].cred] IN
      c.session \in {"revoked", "conflict"} \/ c.by # t \/ c.lost

(* What is refused, or sent again, was not carried out. *)
NotYetRun ==
  \A t \in Tab, s \in Slot : LET c == call[t][s] IN
    /\ c.runs <= 1
    /\ c.pc \in {"sent", "waiting"} \/ (c.pc = "answered" /\ c.status = 401) => c.runs = 0

IInv ==
  Shape /\ OneExchange /\ BroughtOnce /\ ExchangedForGood /\ FailureHasCause /\ NotYetRun
=============================================================================
