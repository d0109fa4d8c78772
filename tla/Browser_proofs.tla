---------------------------- MODULE Browser_proofs ----------------------------
(***************************************************************************)
(* IInv of Browser is inductive: for any number of tabs, of clicks and of  *)
(* lost answers, no call of a page is carried out twice, and the calls of  *)
(* one page do not spoil one another's exchange of the pair.  Then the     *)
(* tables of Access, page by page, and the panel, whose reader is signed   *)
(* out by their own token only.                                            *)
(***************************************************************************)
EXTENDS Browser, SequenceTheorems, TLAPS

Known == 0..Len(cred)
CallType ==
  [pc : {"idle", "sent", "answered", "waiting"}, route : Routes, right : BOOLEAN,
   cred : Known, retried : BOOLEAN, on : {0} \cup Slot, status : Nat, new : Known, runs : Nat]
RefreshType == [pc : {"none", "sent", "answered"}, cred : Known, new : Known]

ShapeOf ==
  /\ cred \in Seq(Cred)
  /\ store \in [user : Known, admin : Known]
  /\ call \in [Tab -> [Slot -> CallType]]
  /\ refresh \in [Tab -> [Slot -> RefreshType]]

LEMMA ShapeLemma == Shape <=> ShapeOf
  BY DEF Shape, ShapeOf, Known, CallType, RefreshType

LEMMA ShapeLemmaPrimed == Shape' <=> ShapeOf'
  BY ShapeLemma, PTL

-----------------------------------------------------------------------------
(* The pairs and tokens signed. *)

(* The list of the pairs goes on, but keeps those there are. *)
LEMMA CredLemma ==
  ASSUME cred \in Seq(Cred)
  PROVE  /\ Len(cred) \in Nat /\ DOMAIN cred = 1..Len(cred)
         /\ \A n \in DOMAIN cred : cred[n] \in Cred
         /\ Known \subseteq Nat /\ DOMAIN cred = Known \ {0}
  <1>1. Len(cred) \in Nat /\ DOMAIN cred = 1..Len(cred)
        /\ \A n \in DOMAIN cred : cred[n] \in Cred
    BY LenProperties
  <1> QED BY <1>1 DEF Known

LEMMA AppendLemma ==
  ASSUME cred \in Seq(Cred), NEW p \in Cred, cred' = Append(cred, p)
  PROVE  /\ cred' \in Seq(Cred) /\ Len(cred') = Len(cred) + 1
         /\ Known' = Known \cup {Len(cred')}
         /\ \A n \in DOMAIN cred : cred'[n] = cred[n]
         /\ cred'[Len(cred')] = p
  <1>1. /\ cred' \in Seq(Cred) /\ Len(cred') = Len(cred) + 1
        /\ \A n \in 1..Len(cred) : cred'[n] = cred[n]
        /\ cred'[Len(cred) + 1] = p
    BY AppendProperties
  <1>2. Len(cred) \in Nat /\ DOMAIN cred = 1..Len(cred)
    BY CredLemma
  <1>3. Known' = Known \cup {Len(cred')}
    BY <1>1, <1>2 DEF Known
  <1> QED BY <1>1, <1>2, <1>3

LEMMA SameLength ==
  ASSUME cred \in Seq(Cred), cred' \in [DOMAIN cred -> Cred]
  PROVE  cred' \in Seq(Cred) /\ Len(cred') = Len(cred) /\ Known' = Known
  <1>1. Len(cred) \in Nat /\ DOMAIN cred = 1..Len(cred)
    BY CredLemma
  <1>2. cred' \in Seq(Cred)
    BY <1>1, SeqDef
  <1>3. Len(cred') \in Nat /\ DOMAIN cred' = 1..Len(cred')
    BY <1>2, LenProperties
  <1>4. 1..Len(cred') = 1..Len(cred)
    BY <1>1, <1>3
  <1>5. Len(cred') = Len(cred)
    BY <1>1, <1>3, <1>4
  <1> QED BY <1>2, <1>5 DEF Known

LEMMA PairLemma ==
  /\ Pair(Customer) \in Cred /\ Pair(Staff("SUPPORT")) \in Cred
  BY DEF Pair, Cred, AdminRole

-----------------------------------------------------------------------------
(* The shape of the calls a page makes and drops. *)

LEMMA NothingLemma ==
  ASSUME Len(cred) \in Nat
  PROVE  NoCall \in CallType /\ NoRefresh \in RefreshType
  <1>1. 0 \in Known /\ "none" \in Routes
    BY DEF Known, Routes
  <1> QED BY <1>1 DEF NoCall, NoRefresh, CallType, RefreshType

LEMMA SentLemma ==
  ASSUME Len(cred) \in Nat, NEW st \in [user : Known, admin : Known], NEW route \in Routes
  PROVE  /\ Sent(route, st) \in CallType
         /\ Sent(route, st).new = 0 /\ Sent(route, st).runs = 0 /\ Sent(route, st).pc = "sent"
  BY NothingLemma DEF Sent, CallType, NoCall

(* A page replaced. *)
LEMMA LoadedShape ==
  ASSUME ShapeOf, NEW t \in Tab, NEW path, NEW st \in [user : Known, admin : Known],
         Loaded(t, path, st)
  PROVE  ShapeOf' /\ Known' = Known
  <1>1. Len(cred) \in Nat /\ \A n \in DOMAIN cred : cred[n] \in Cred
    BY CredLemma DEF ShapeOf
  <1>2. cred' \in [DOMAIN cred -> Cred]
    <2>1. \A n \in DOMAIN cred : [cred[n] EXCEPT !.lost = TRUE] \in Cred
      BY <1>1 DEF Cred
    <2> QED BY <1>1, <2>1 DEF Loaded
  <1>3. cred' \in Seq(Cred) /\ Known' = Known
    BY <1>2, SameLength DEF ShapeOf
  <1>4. call' \in [Tab -> [Slot -> CallType]]
    <2>1. "GET:users/me" \in Routes
      BY DEF Routes
    <2>2. [s \in Slot |-> IF s = 1 /\ st.user # 0 THEN Sent("GET:users/me", st) ELSE NoCall]
            \in [Slot -> CallType]
      BY <1>1, <2>1, SentLemma, NothingLemma
    <2> QED BY <2>2 DEF Loaded, ShapeOf
  <1>5. refresh' \in [Tab -> [Slot -> RefreshType]]
    BY <1>1, NothingLemma DEF Loaded, ShapeOf
  <1>6. store' \in [user : Known, admin : Known]
    BY DEF Loaded
  <1> QED BY <1>3, <1>4, <1>5, <1>6 DEF ShapeOf, CallType, RefreshType

-----------------------------------------------------------------------------
(* What each action does to the calls, the exchanges and the pairs. *)

(* The API's answers: to a login with a new pair, to a logout by ending the *)
(* sessions, to the rest with a status.                                     *)
LogoutEnds ==
  cred' = [n \in DOMAIN cred |->
    IF cred[n].who = Customer /\ cred[n].session = "live"
      THEN [cred[n] EXCEPT !.session = "revoked"] ELSE cred[n]]

LEMMA RespondCases ==
  ASSUME NEW t \in Tab, NEW s \in Slot, Respond(t, s)
  PROVE  /\ UNCHANGED <<store, refresh>> /\ call[t][s].pc = "sent"
         /\ \E status \in Nat :
              \/ Answered(t, s, status, 0) /\ (cred' = cred \/ LogoutEnds)
              \/ \E p \in Cred : p.session = "live" /\ cred' = Append(cred, p)
                                 /\ Answered(t, s, status, Len(cred'))
  <1> DEFINE c == call[t][s]
             early == Guarded(c.route, Caller(c.cred))
  <1>1. early \in Nat
    BY DEF Guarded
  <1>2. UNCHANGED <<store, refresh>> /\ c.pc = "sent"
    BY DEF Respond
  <1>3. CASE early # 200
    <2>1. Answered(t, s, early, 0) /\ cred' = cred
      BY <1>3 DEF Respond, serverVars
    <2> QED BY <1>1, <1>2, <2>1
  <1>4. CASE early = 200
    <2> HIDE DEF early
    <2>1. CASE c.route \in {"POST:auth/login", "POST:admin/auth/login"} /\ ~ c.right
      <3>1. Answered(t, s, 401, 0) /\ cred' = cred
        BY <1>4, <2>1 DEF Respond, serverVars, early
      <3> QED BY <1>2, <3>1
    <2>2. CASE c.route = "POST:auth/login" /\ c.right
      <3>1. \/ cred' = Append(cred, Pair(Customer)) /\ Answered(t, s, 200, Len(cred'))
            \/ Answered(t, s, 500, 0) /\ cred' = cred
        BY <1>4, <2>2 DEF Respond, Signs, serverVars, early
      <3>2. Pair(Customer).session = "live"
        BY DEF Pair
      <3> QED BY <1>2, <3>1, <3>2, PairLemma
    <2>3. CASE c.route = "POST:admin/auth/login" /\ c.right
      <3>1. cred' = Append(cred, Pair(Staff("SUPPORT"))) /\ Answered(t, s, 200, Len(cred'))
        BY <1>4, <2>3 DEF Respond, early
      <3>2. Pair(Staff("SUPPORT")).session = "live"
        BY DEF Pair
      <3> QED BY <1>2, <3>1, <3>2, PairLemma
    <2>4. CASE c.route = "POST:auth/logout"
      <3>1. LogoutEnds /\ Answered(t, s, 200, 0)
        BY <1>4, <2>4 DEF Respond, LogoutEnds, early
      <3> QED BY <1>2, <3>1
    <2>5. CASE c.route = "GET:admin/geniuspay/balance"
      <3>1. PICK theirs \in {200, 401, 500} : Answered(t, s, Upstream(theirs), 0) /\ cred' = cred
        <4>1. /\ \E theirs \in {200, 401, 500} : Answered(t, s, Upstream(theirs), 0)
              /\ UNCHANGED serverVars
          <5> HIDE DEF c
          <5> QED BY <1>4, <2>5 DEF Respond, early, c
        <4> QED BY <4>1 DEF serverVars
      <3>2. Upstream(theirs) \in Nat
        BY DEF Upstream
      <3> QED BY <1>2, <3>1, <3>2
    <2>6. CASE c.route \notin {"POST:auth/login", "POST:admin/auth/login", "POST:auth/logout",
                               "GET:admin/geniuspay/balance"}
      <3>1. Answered(t, s, 200, 0) /\ cred' = cred
        BY <1>4, <2>6 DEF Respond, serverVars, early
      <3> QED BY <1>2, <3>1
    <2> QED BY <2>1, <2>2, <2>3, <2>4, <2>5, <2>6
  <1> QED BY <1>3, <1>4

(* The shape is kept when the list of the pairs grows or stays as long, and *)
(* one call of one page changes. *)
LEMMA CallShape ==
  ASSUME ShapeOf, cred' \in Seq(Cred), Known \subseteq Known', UNCHANGED refresh,
         store' \in [user : Known', admin : Known'],
         NEW t \in Tab, NEW s \in Slot, NEW c \in CallType',
         call' = [call EXCEPT ![t][s] = c]
  PROVE  ShapeOf'
  <1>1. \A x \in CallType : x \in CallType'
    BY DEF CallType
  <1>2. \A x \in RefreshType : x \in RefreshType'
    BY DEF RefreshType
  <1>3. call' \in [Tab -> [Slot -> CallType']]
    BY <1>1 DEF ShapeOf
  <1>4. refresh' \in [Tab -> [Slot -> RefreshType']]
    BY <1>2 DEF ShapeOf
  <1> QED BY <1>3, <1>4 DEF ShapeOf

(* The call that changed, and the others. *)
LEMMA CallChanged ==
  ASSUME ShapeOf, NEW t \in Tab, NEW s \in Slot, NEW c, call' = [call EXCEPT ![t][s] = c]
  PROVE  /\ call'[t][s] = c
         /\ \A u \in Tab, z \in Slot : u # t \/ z # s => call'[u][z] = call[u][z]
  BY DEF ShapeOf

LEMMA ExchangeShape ==
  ASSUME ShapeOf, cred' \in Seq(Cred), Known \subseteq Known', UNCHANGED <<call, store>>,
         NEW t \in Tab, NEW s \in Slot, NEW r \in RefreshType',
         refresh' = [refresh EXCEPT ![t][s] = r]
  PROVE  ShapeOf'
  <1>1. \A x \in CallType : x \in CallType'
    BY DEF CallType
  <1>2. \A x \in RefreshType : x \in RefreshType'
    BY DEF RefreshType
  <1>3. call' \in [Tab -> [Slot -> CallType']]
    BY <1>1 DEF ShapeOf
  <1>4. refresh' \in [Tab -> [Slot -> RefreshType']]
    BY <1>2 DEF ShapeOf
  <1>5. store' \in [user : Known', admin : Known']
    BY DEF ShapeOf
  <1> QED BY <1>3, <1>4, <1>5 DEF ShapeOf

(* An answer on its way back. *)
LEMMA AnsweredShape ==
  ASSUME ShapeOf, cred' \in Seq(Cred), Known \subseteq Known', UNCHANGED <<store, refresh>>,
         NEW t \in Tab, NEW s \in Slot, NEW status \in Nat, NEW new \in Known',
         Answered(t, s, status, new)
  PROVE  /\ ShapeOf'
         /\ call'[t][s].pc = "answered" /\ call'[t][s].status = status /\ call'[t][s].new = new
         /\ call'[t][s].runs = IF status = 200 THEN call[t][s].runs + 1 ELSE call[t][s].runs
         /\ \A u \in Tab, z \in Slot : u # t \/ z # s => call'[u][z] = call[u][z]
  <1> DEFINE old == call[t][s]
             c == [old EXCEPT !.pc = "answered", !.status = status, !.new = new,
                              !.runs = IF status = 200 THEN old.runs + 1 ELSE old.runs]
  <1>1. old \in CallType
    BY DEF ShapeOf
  <1>2. old \in CallType' /\ old.runs \in Nat
    BY <1>1 DEF CallType
  <1>3. call' = [call EXCEPT ![t][s] = c]
    BY DEF Answered, ShapeOf
  <1>4. /\ c \in CallType' /\ c.pc = "answered" /\ c.status = status /\ c.new = new
        /\ c.runs = IF status = 200 THEN old.runs + 1 ELSE old.runs
    <2> DEFINE runs == IF status = 200 THEN old.runs + 1 ELSE old.runs
    <2>1. runs \in Nat
      BY <1>2
    <2> HIDE DEF old, runs
    <2>2. [old EXCEPT !.pc = "answered", !.status = status, !.new = new, !.runs = runs] \in CallType'
      BY <1>2, <2>1 DEF CallType
    <2>3. /\ c.pc = "answered" /\ c.status = status /\ c.new = new /\ c.runs = runs
      BY <1>2 DEF CallType, runs
    <2> QED BY <2>2, <2>3 DEF runs
  <1>5. store' \in [user : Known', admin : Known']
    BY DEF ShapeOf
  <1> HIDE DEF c
  <1>6. UNCHANGED refresh /\ c \in CallType'
    BY <1>4
  <1>7. ShapeOf'
    BY <1>3, <1>5, <1>6, CallShape
  <1>8. call'[t][s] = c /\ \A u \in Tab, z \in Slot : u # t \/ z # s => call'[u][z] = call[u][z]
    BY <1>3 DEF ShapeOf
  <1> QED BY <1>4, <1>7, <1>8 DEF old

-----------------------------------------------------------------------------
(* Steps that only lose something: answers, exchanges, the stored pair.     *)

Receding(n) ==
  /\ cred'[n].by = cred[n].by /\ (cred[n].lost => cred'[n].lost)
  /\ \/ cred'[n].session = cred[n].session
     \/ cred[n].session = "live" /\ cred'[n].session = "revoked"

Recedes ==
  /\ DOMAIN cred' = DOMAIN cred /\ \A n \in DOMAIN cred : Receding(n)
  /\ \A t \in Tab, s \in Slot :
       \/ refresh'[t][s] = refresh[t][s]
       \/ /\ refresh'[t][s] = NoRefresh
          /\ refresh[t][s].new # 0 => cred'[refresh[t][s].cred].lost
  /\ \A t \in Tab, s \in Slot : call'[t][s].new \in {0, call[t][s].new}
  /\ store'.user \in {0, store.user}

(* What BroughtOnce says, answer by answer. *)
LEMMA NewLemma ==
  \A t \in Tab, s \in Slot :
    /\ <<"refresh", t, s>> \in Way /\ NewOf(<<"refresh", t, s>>) = refresh[t][s].new
    /\ <<"call", t, s>> \in Way /\ NewOf(<<"call", t, s>>) = call[t][s].new
  BY DEF Way, NewOf

LEMMA WayLemma ==
  ASSUME NEW w \in Way
  PROVE  \E t \in Tab, s \in Slot :
           \/ w = <<"refresh", t, s>> /\ NewOf(w) = refresh[t][s].new
           \/ w = <<"call", t, s>> /\ NewOf(w) = call[t][s].new
  BY DEF Way, NewOf

LEMMA ExchangedPair ==
  ASSUME ShapeOf, OneExchange, NEW t \in Tab, NEW s \in Slot, refresh[t][s].pc # "none"
  PROVE  refresh[t][s].cred \in DOMAIN cred
  <1>1. refresh[t][s] \in RefreshType
    BY DEF ShapeOf
  <1>2. refresh[t][s].cred \in Known
    BY <1>1 DEF RefreshType
  <1>3. refresh[t][s].cred # 0
    BY DEF OneExchange
  <1>4. DOMAIN cred = Known \ {0}
    BY CredLemma DEF ShapeOf
  <1> QED BY <1>2, <1>3, <1>4

LEMMA RecedesLemma ==
  ASSUME ShapeOf, Recedes, OneExchange, BroughtOnce, ExchangedForGood, FailureHasCause
  PROVE  OneExchange' /\ BroughtOnce' /\ ExchangedForGood' /\ FailureHasCause'
  <1>1. \A t \in Tab, s \in Slot : refresh'[t][s].pc # "none" => refresh'[t][s] = refresh[t][s]
    BY DEF Recedes, NoRefresh
  <1>2. OneExchange'
    BY <1>1 DEF Recedes, OneExchange, NoRefresh
  <1>3. \A w \in Way : NewOf(w)' \in {0, NewOf(w)}
    BY DEF Way, NewOf, Recedes, NoRefresh
  <1>4. \A n : n # 0 /\ Brought(n)' => Brought(n)
    BY <1>3 DEF Brought, Way
  <1>5. BroughtOnce'
    <2>1. \A v, w \in Way : NewOf(v)' # 0 /\ NewOf(v)' = NewOf(w)' => v = w
      BY <1>3 DEF BroughtOnce
    <2>2. store'.user # 0 => ~ Brought(store.user)'
      BY <1>4 DEF BroughtOnce, Recedes
    <2>3. \A t \in Tab, s \in Slot : refresh'[t][s].pc # "none" => ~ Brought(refresh[t][s].cred)'
      BY <1>1, <1>4 DEF BroughtOnce, OneExchange
    <2> QED BY <2>1, <2>2, <2>3 DEF BroughtOnce, Way
  <1>6. ExchangedForGood'
    <2> SUFFICES ASSUME NEW n \in DOMAIN cred, NEW t \in Tab,
                        cred'[n].session = "rotated", cred'[n].by = t, ~ cred'[n].lost
                 PROVE  /\ ~ Brought(n)'
                        /\ store'.user = n =>
                             \E z \in Slot : refresh'[t][z].cred = n /\ refresh'[t][z].new # 0
                        /\ \A z \in Slot : refresh'[t][z].pc # "none" /\ refresh'[t][z].cred = n =>
                             refresh'[t][z].new # 0
      BY DEF ExchangedForGood, Recedes
    <2>1. cred[n].session = "rotated" /\ cred[n].by = t /\ ~ cred[n].lost
      BY DEF Recedes, Receding
    <2>2. n # 0
      BY CredLemma DEF ShapeOf, Known
    <2>3. ~ Brought(n)'
      BY <1>4, <2>1, <2>2 DEF ExchangedForGood
    <2>4. ASSUME store'.user = n
          PROVE  \E z \in Slot : refresh'[t][z].cred = n /\ refresh'[t][z].new # 0
      <3>1. PICK z \in Slot : refresh[t][z].cred = n /\ refresh[t][z].new # 0
        BY <2>1, <2>2, <2>4 DEF ExchangedForGood, Recedes
      <3>2. refresh'[t][z] = refresh[t][z]
        BY <3>1 DEF Recedes
      <3> QED BY <3>1, <3>2
    <2> QED BY <1>1, <2>1, <2>3, <2>4 DEF ExchangedForGood
  <1>7. FailureHasCause'
    <2> SUFFICES ASSUME NEW t \in Tab, NEW s \in Slot,
                        refresh'[t][s].pc = "answered", refresh'[t][s].new = 0
                 PROVE  LET c == cred'[refresh'[t][s].cred] IN
                        c.session \in {"revoked", "conflict"} \/ c.by # t \/ c.lost
      BY DEF FailureHasCause
    <2>1. refresh'[t][s] = refresh[t][s]
      BY <1>1
    <2>2. refresh[t][s].cred \in DOMAIN cred
      BY <2>1, ExchangedPair
    <2> QED BY <2>1, <2>2 DEF FailureHasCause, Recedes, Receding
  <1> QED BY <1>2, <1>5, <1>6, <1>7

(* What happens to a call, as far as carrying it out is concerned. *)
CallGoes(c, d) ==
  \/ d = c \/ d.runs = 0
  \/ d.pc = "answered" /\ d.status = 0 /\ d.runs = c.runs
  \/ c.pc = "sent" /\ d.pc = "answered" /\ d.runs = IF d.status = 200 THEN c.runs + 1 ELSE c.runs
  \/ (c.pc = "waiting" \/ (c.pc = "answered" /\ c.status = 401)) /\ d.runs = c.runs

CallsGo == \A t \in Tab, s \in Slot : CallGoes(call[t][s], call'[t][s])

LEMMA RunLemma ==
  ASSUME NotYetRun, CallsGo
  PROVE  NotYetRun'
  <1> SUFFICES ASSUME NEW t \in Tab, NEW s \in Slot
               PROVE  LET c == call'[t][s] IN
                 /\ c.runs <= 1
                 /\ c.pc \in {"sent", "waiting"} \/ (c.pc = "answered" /\ c.status = 401) => c.runs = 0
    BY DEF NotYetRun
  <1> DEFINE c == call[t][s]
             d == call'[t][s]
  <1>1. /\ c.runs <= 1
        /\ c.pc \in {"sent", "waiting"} \/ (c.pc = "answered" /\ c.status = 401) => c.runs = 0
    BY DEF NotYetRun
  <1>2. CallGoes(c, d)
    BY DEF CallsGo
  <1> HIDE DEF c, d
  <1> SUFFICES /\ d.runs <= 1
               /\ d.pc \in {"sent", "waiting"} \/ (d.pc = "answered" /\ d.status = 401) => d.runs = 0
    BY DEF d
  <1> QED BY <1>1, <1>2 DEF CallGoes

-----------------------------------------------------------------------------
(* The receding steps. *)

Goes == ShapeOf' /\ CallsGo /\ Recedes

LEMMA StillLemma ==
  ASSUME ShapeOf, UNCHANGED <<store, call, refresh, cred>>
  PROVE  Goes
  <1>1. ShapeOf'
    BY DEF ShapeOf, CallType, RefreshType, Known
  <1> QED BY <1>1 DEF Goes, CallsGo, CallGoes, Recedes, Receding

(* One call of one page changes. *)
LEMMA OneCall ==
  ASSUME ShapeOf, UNCHANGED <<refresh, cred>>,
         store' \in [user : Known, admin : Known], store'.user \in {0, store.user},
         NEW t \in Tab, NEW s \in Slot, NEW c \in CallType,
         call' = [call EXCEPT ![t][s] = c],
         c.new \in {0, call[t][s].new}, CallGoes(call[t][s], c)
  PROVE  Goes
  <1>1. Known' = Known /\ CallType' = CallType
    BY DEF Known, CallType
  <1>2. cred' \in Seq(Cred)
    BY DEF ShapeOf
  <1>3. c \in CallType' /\ store' \in [user : Known', admin : Known'] /\ UNCHANGED refresh
    BY <1>1
  <1>4. ShapeOf'
    BY <1>1, <1>2, <1>3, CallShape
  <1>5. call'[t][s] = c /\ \A u \in Tab, z \in Slot : u # t \/ z # s => call'[u][z] = call[u][z]
    BY CallChanged
  <1>6. CallsGo
    BY <1>5 DEF CallsGo, CallGoes
  <1>7. Recedes
    BY <1>5 DEF Recedes, Receding
  <1> QED BY <1>4, <1>6, <1>7 DEF Goes

LEMMA LoadedStep ==
  ASSUME ShapeOf, OneExchange, NEW t \in Tab, NEW path,
         NEW st \in [user : Known, admin : Known], st.user \in {0, store.user},
         Loaded(t, path, st)
  PROVE  Goes
  <1>1. ShapeOf'
    BY LoadedShape
  <1>2. Len(cred) \in Nat /\ \A n \in DOMAIN cred : cred[n] \in Cred
    BY CredLemma DEF ShapeOf
  <1>3. "GET:users/me" \in Routes
    BY DEF Routes
  <1>4. /\ \A z \in Slot : call'[t][z].new = 0 /\ call'[t][z].runs = 0
        /\ \A u \in Tab \ {t}, z \in Slot : call'[u][z] = call[u][z]
    <2>1. NoCall.new = 0 /\ NoCall.runs = 0
      BY DEF NoCall
    <2>2. Sent("GET:users/me", st).new = 0 /\ Sent("GET:users/me", st).runs = 0
      BY <1>2, <1>3, SentLemma
    <2>3. \A z \in Slot : call'[t][z] \in {NoCall, Sent("GET:users/me", st)}
      BY DEF Loaded, ShapeOf
    <2>4. \A u \in Tab \ {t}, z \in Slot : call'[u][z] = call[u][z]
      BY DEF Loaded, ShapeOf
    <2> QED BY <2>1, <2>2, <2>3, <2>4
  <1>5. CallsGo
    BY <1>4 DEF CallsGo, CallGoes
  <1>6. Recedes
    <2>1. /\ DOMAIN cred' = DOMAIN cred
          /\ \A n \in DOMAIN cred :
               cred'[n] = IF \E s \in Slot : refresh[t][s].new # 0 /\ refresh[t][s].cred = n
                 THEN [cred[n] EXCEPT !.lost = TRUE] ELSE cred[n]
      BY DEF Loaded
    <2>2. \A n \in DOMAIN cred : Receding(n)
      BY <1>2, <2>1 DEF Cred, Receding
    <2>3. /\ \A s \in Slot : refresh'[t][s] = NoRefresh
          /\ \A u \in Tab \ {t}, s \in Slot : refresh'[u][s] = refresh[u][s]
      BY DEF Loaded, ShapeOf
    <2>4. ASSUME NEW s \in Slot, refresh[t][s].new # 0
          PROVE  cred'[refresh[t][s].cred].lost
      <3>1. refresh[t][s].cred \in DOMAIN cred
        BY <2>4, ExchangedPair DEF OneExchange
      <3>2. cred'[refresh[t][s].cred] = [cred[refresh[t][s].cred] EXCEPT !.lost = TRUE]
        BY <2>1, <2>4, <3>1
      <3> QED BY <1>2, <3>1, <3>2 DEF Cred
    <2>5. store'.user \in {0, store.user}
      BY DEF Loaded
    <2> QED BY <1>4, <2>1, <2>2, <2>3, <2>4, <2>5 DEF Recedes
  <1> QED BY <1>1, <1>5, <1>6 DEF Goes

(* Calls that fail for good. *)
LEMMA RejectedStep ==
  ASSUME ShapeOf, NEW t \in Tab, NEW Z \in SUBSET Slot, Rejected(t, Z), UNCHANGED cred,
         store' \in [user : Known, admin : Known], store'.user \in {0, store.user},
         \/ UNCHANGED refresh
         \/ \E s \in Slot : refresh' = [refresh EXCEPT ![t][s] = NoRefresh] /\ refresh[t][s].new = 0
  PROVE  Goes
  <1>1. Len(cred) \in Nat /\ Known' = Known /\ CallType' = CallType /\ RefreshType' = RefreshType
    BY CredLemma DEF ShapeOf, Known, CallType, RefreshType
  <1>2. NoCall \in CallType /\ NoRefresh \in RefreshType
    BY <1>1, NothingLemma
  <1>3. \A u \in Tab, z \in Slot : call'[u][z] \in {NoCall, call[u][z]}
    BY DEF Rejected, ShapeOf
  <1>4. call' \in [Tab -> [Slot -> CallType]]
    <2> DEFINE page == [z \in Slot |-> IF z \in Z THEN NoCall ELSE call[t][z]]
    <2>1. page \in [Slot -> CallType]
      BY <1>2 DEF ShapeOf
    <2>2. call' = [call EXCEPT ![t] = page]
      BY DEF Rejected, ShapeOf
    <2> HIDE DEF page
    <2> QED BY <2>1, <2>2 DEF ShapeOf
  <1>5. refresh' \in [Tab -> [Slot -> RefreshType]]
    <2>1. CASE UNCHANGED refresh
      BY <2>1 DEF ShapeOf
    <2>2. ASSUME NEW s \in Slot, refresh' = [refresh EXCEPT ![t][s] = NoRefresh]
          PROVE  refresh' \in [Tab -> [Slot -> RefreshType]]
      BY <1>2, <2>2 DEF ShapeOf
    <2> QED BY <2>1, <2>2
  <1>6. ShapeOf'
    BY <1>1, <1>4, <1>5 DEF ShapeOf
  <1>7. CallsGo
    BY <1>3 DEF CallsGo, CallGoes, NoCall
  <1>8. \A u \in Tab, z \in Slot :
          \/ refresh'[u][z] = refresh[u][z]
          \/ refresh'[u][z] = NoRefresh /\ refresh[u][z].new = 0
    <2>1. ASSUME NEW s \in Slot, refresh' = [refresh EXCEPT ![t][s] = NoRefresh],
                 NEW u \in Tab, NEW z \in Slot
          PROVE  refresh'[u][z] = IF u = t /\ z = s THEN NoRefresh ELSE refresh[u][z]
      BY <2>1 DEF ShapeOf
    <2> QED BY <2>1
  <1>9. Recedes
    BY <1>3, <1>8 DEF Recedes, Receding, NoCall
  <1> QED BY <1>6, <1>7, <1>9 DEF Goes

LEMMA CallIs ==
  ASSUME ShapeOf, NEW t \in Tab, NEW s \in Slot
  PROVE  call[t][s] \in CallType /\ refresh[t][s] \in RefreshType /\ Len(cred) \in Nat
         /\ store \in [user : Known, admin : Known] /\ 0 \in Known
  <1>1. Len(cred) \in Nat
    BY CredLemma DEF ShapeOf
  <1> QED BY <1>1 DEF ShapeOf, Known

LEMMA ClickStep ==
  ASSUME ShapeOf, NEW t \in Tab, NEW s \in Slot, NEW p \in Path, NEW route \in Offered(p),
         NEW right \in BOOLEAN, Click(t, s, route, right)
  PROVE  Goes
  <1> DEFINE c == [Sent(route, store) EXCEPT !.right = right]
  <1>1. route \in Routes
    BY DEF Routes
  <1>2. Sent(route, store) \in CallType /\ Sent(route, store).new = 0 /\ Sent(route, store).runs = 0
    BY <1>1, CallIs, SentLemma
  <1>3. c \in CallType /\ c.new = 0 /\ c.runs = 0
    BY <1>2 DEF CallType
  <1>4. call' = [call EXCEPT ![t][s] = c] /\ UNCHANGED <<store, refresh, cred>>
    BY DEF Click, serverVars
  <1> HIDE DEF c
  <1>5. CallGoes(call[t][s], c)
    BY <1>3 DEF CallGoes
  <1>6. store' \in [user : Known, admin : Known] /\ store'.user \in {0, store.user}
    BY <1>4, CallIs
  <1>7. UNCHANGED <<refresh, cred>> /\ c.new \in {0, call[t][s].new}
    BY <1>3, <1>4
  <1> QED BY <1>3, <1>4, <1>5, <1>6, <1>7, OneCall

LEMMA LogoutStep ==
  ASSUME ShapeOf, NEW t \in Tab, NEW s \in Slot, Logout(t, s)
  PROVE  Goes
  <1> DEFINE c == Sent("POST:auth/logout", store')
  <1>1. /\ store' = [store EXCEPT !.user = 0] /\ call' = [call EXCEPT ![t][s] = c]
        /\ UNCHANGED <<refresh, cred>>
    BY DEF Logout, serverVars
  <1>2. store' \in [user : Known, admin : Known] /\ store'.user \in {0, store.user}
    BY <1>1, CallIs
  <1>3. "POST:auth/logout" \in Routes
    BY DEF Routes
  <1>4. c \in CallType /\ c.new = 0 /\ c.runs = 0
    BY <1>2, <1>3, CallIs, SentLemma
  <1> HIDE DEF c
  <1>5. CallGoes(call[t][s], c) /\ c.new \in {0, call[t][s].new}
    BY <1>4 DEF CallGoes
  <1> QED BY <1>1, <1>2, <1>4, <1>5, OneCall

LEMMA PagesStep ==
  ASSUME ShapeOf, OneExchange, NEW t \in Tab,
         AdminLogout(t) \/ LeaveDashboard(t) \/ \E p \in Path : Load(t, p)
  PROVE  Goes
  <1>1. CASE AdminLogout(t)
    <2> DEFINE st == [store EXCEPT !.admin = 0]
    <2>1. st \in [user : Known, admin : Known] /\ st.user \in {0, store.user}
      BY CredLemma DEF ShapeOf, Known
    <2>2. Loaded(t, "/admin/login", st)
      BY <1>1 DEF AdminLogout
    <2> HIDE DEF st
    <2> QED BY <2>1, <2>2, LoadedStep
  <1>2. CASE LeaveDashboard(t)
    <2>1. UNCHANGED <<store, call, refresh, cred>>
      BY <1>2 DEF LeaveDashboard, serverVars
    <2> QED BY <2>1, StillLemma
  <1>3. ASSUME NEW p \in Path, Load(t, p)
        PROVE  Goes
    <2>1. Loaded(t, p, store)
      BY <1>3 DEF Load
    <2>2. store \in [user : Known, admin : Known]
      BY DEF ShapeOf
    <2> QED BY <2>1, <2>2, LoadedStep
  <1> QED BY <1>1, <1>2, <1>3

LEMMA GiveUpStep ==
  ASSUME ShapeOf, OneExchange, NEW t \in Tab, NEW Z \in SUBSET Slot,
         NEW st \in [user : Known, admin : Known], st.user \in {0, store.user},
         GiveUp(t, Z, st),
         tab[t].path = "/login" =>
           \/ UNCHANGED refresh
           \/ \E s \in Slot : refresh' = [refresh EXCEPT ![t][s] = NoRefresh] /\ refresh[t][s].new = 0
  PROVE  Goes
  <1>1. CASE tab[t].path = "/login"
    <2>1. store' = st /\ Rejected(t, Z) /\ UNCHANGED cred
      BY <1>1 DEF GiveUp, serverVars
    <2> QED BY <1>1, <2>1, RejectedStep
  <1>2. CASE tab[t].path # "/login"
    BY <1>2, LoadedStep DEF GiveUp
  <1> QED BY <1>1, <1>2

LEMMA FailStep ==
  ASSUME ShapeOf, OneExchange, NEW t \in Tab, NEW s \in Slot, Fail(t, s)
  PROVE  Goes
  <1> DEFINE st == [store EXCEPT !.admin = 0]
  <1>1. st \in [user : Known, admin : Known] /\ st.user = store.user
        /\ store \in [user : Known, admin : Known]
    BY CallIs
  <1>2. CASE store' \in {st, store} /\ Rejected(t, {s}) /\ UNCHANGED <<refresh, cred>>
    <2>1. store' \in [user : Known, admin : Known] /\ store'.user \in {0, store.user}
          /\ UNCHANGED cred /\ UNCHANGED refresh /\ {s} \in SUBSET Slot
      BY <1>1, <1>2
    <2> QED BY <1>2, <2>1, RejectedStep
  <1>3. CASE Loaded(t, "/admin/login", st)
    BY <1>1, <1>3, LoadedStep
  <1> QED BY <1>2, <1>3 DEF Fail, serverVars

LEMMA LoseStep ==
  ASSUME ShapeOf, NEW t \in Tab, NEW s \in Slot, Lose(t, s)
  PROVE  Goes
  <1> DEFINE old == call[t][s]
             c == [old EXCEPT !.pc = "answered", !.status = 0]
  <1>1. call' = [call EXCEPT ![t][s] = c] /\ UNCHANGED <<store, refresh, cred>>
    BY DEF Lose, serverVars, ShapeOf
  <1>2. old \in CallType
    BY CallIs
  <1> HIDE DEF old
  <1>3. c \in CallType /\ c.new = old.new /\ c.runs = old.runs /\ c.status = 0 /\ c.pc = "answered"
    BY <1>2 DEF CallType
  <1> HIDE DEF c
  <1>4. CallGoes(old, c) /\ c.new \in {0, old.new}
    BY <1>3 DEF CallGoes
  <1>5. store' \in [user : Known, admin : Known] /\ store'.user \in {0, store.user}
        /\ UNCHANGED <<refresh, cred>>
    BY <1>1, CallIs
  <1> QED BY <1>1, <1>3, <1>4, <1>5, OneCall DEF old

LEMMA ExpireStep ==
  ASSUME ShapeOf, NEW n \in DOMAIN cred, Expire(n)
  PROVE  Goes
  <1>1. cred' = [cred EXCEPT ![n].valid = FALSE] /\ UNCHANGED <<store, call, refresh>>
    BY DEF Expire, pageVars
  <1>2. \A m \in DOMAIN cred : cred[m] \in Cred
    BY CredLemma DEF ShapeOf
  <1>3. cred' \in [DOMAIN cred -> Cred]
    <2>1. Len(cred) \in Nat /\ DOMAIN cred = 1..Len(cred)
      BY CredLemma DEF ShapeOf
    <2>2. cred \in [DOMAIN cred -> Cred]
      BY <2>1, SeqDef DEF ShapeOf
    <2>3. [cred[n] EXCEPT !.valid = FALSE] \in Cred
      BY <1>2 DEF Cred
    <2> QED BY <1>1, <2>2, <2>3
  <1>4. cred' \in Seq(Cred) /\ Known' = Known
    BY <1>3, SameLength DEF ShapeOf
  <1>5. ShapeOf'
    BY <1>1, <1>4 DEF ShapeOf, CallType, RefreshType
  <1>6. DOMAIN cred' = DOMAIN cred /\ \A m \in DOMAIN cred : Receding(m)
    BY <1>1, <1>2 DEF Receding, Cred
  <1> QED BY <1>1, <1>5, <1>6 DEF Goes, CallsGo, CallGoes, Recedes

-----------------------------------------------------------------------------
(* The other steps: an answer with a new pair, its arrival, an exchange.    *)

Kept == OneExchange /\ BroughtOnce /\ ExchangedForGood /\ FailureHasCause

LEMMA KnownWay ==
  ASSUME ShapeOf, NEW w \in Way
  PROVE  NewOf(w) \in Known
  <1>1. PICK t \in Tab, s \in Slot :
           \/ w = <<"refresh", t, s>> /\ NewOf(w) = refresh[t][s].new
           \/ w = <<"call", t, s>> /\ NewOf(w) = call[t][s].new
    BY WayLemma
  <1>2. call[t][s] \in CallType /\ refresh[t][s] \in RefreshType
    BY CallIs
  <1>3. call[t][s].new \in Known
    BY <1>2 DEF CallType
  <1>4. refresh[t][s].new \in Known
    BY <1>2 DEF RefreshType
  <1> QED BY <1>1, <1>3, <1>4

(* The answer a brings the pair that has just been signed, when, for n, the *)
(* pairs there were, at most the one being exchanged has ended.             *)
LEMMA SignedLemma ==
  ASSUME ShapeOf, Kept, NEW p \in Cred, p.session = "live",
         DOMAIN cred' = 1..(Len(cred) + 1), cred'[Len(cred) + 1] = p,
         NEW a \in Way, NewOf(a)' = Len(cred) + 1,
         \A w \in Way : w # a => NewOf(w)' = NewOf(w)
  PROVE  /\ \A v, w \in Way : NewOf(v)' # 0 /\ NewOf(v)' = NewOf(w)' => v = w
         /\ \A n \in Known \ {0} : Brought(n)' => Brought(n)
  <1>1. Len(cred) \in Nat /\ \A w \in Way : NewOf(w) \in Known
    BY CredLemma, KnownWay DEF ShapeOf
  <1>2. \A w \in Way : w # a => NewOf(w)' # Len(cred) + 1
    BY <1>1 DEF Known
  <1>3. \A v, w \in Way : NewOf(v)' # 0 /\ NewOf(v)' = NewOf(w)' => v = w
    BY <1>2 DEF Kept, BroughtOnce
  <1>4. ASSUME NEW n \in Known \ {0}, Brought(n)'
        PROVE  Brought(n)
    <2>1. PICK w \in Way : NewOf(w)' = n
      BY <1>4 DEF Brought, Way
    <2>2. w # a
      BY <1>1, <2>1 DEF Known
    <2> QED BY <2>1, <2>2 DEF Brought
  <1> QED BY <1>3, <1>4

LEMMA RespondStep ==
  ASSUME ShapeOf, Kept, NEW t \in Tab, NEW s \in Slot, Respond(t, s)
  PROVE  ShapeOf' /\ CallsGo /\ Kept'
  <1>1. UNCHANGED <<store, refresh>> /\ call[t][s].pc = "sent"
    BY RespondCases
  <1>2. PICK status \in Nat :
              \/ Answered(t, s, status, 0) /\ (cred' = cred \/ LogoutEnds)
              \/ \E p \in Cred : p.session = "live" /\ cred' = Append(cred, p)
                                 /\ Answered(t, s, status, Len(cred'))
    BY RespondCases
  <1>3. Len(cred) \in Nat /\ DOMAIN cred = Known \ {0} /\ \A n \in DOMAIN cred : cred[n] \in Cred
    BY CredLemma DEF ShapeOf
  <1>4. CASE Answered(t, s, status, 0) /\ (cred' = cred \/ LogoutEnds)
    <2>1. /\ cred' \in [DOMAIN cred -> Cred]
          /\ DOMAIN cred' = DOMAIN cred /\ \A n \in DOMAIN cred : Receding(n)
      <3>1. CASE cred' = cred
        <4>1. DOMAIN cred = 1..Len(cred)
          BY CredLemma DEF ShapeOf
        <4>2. cred \in [DOMAIN cred -> Cred]
          BY <1>3, <4>1, SeqDef DEF ShapeOf
        <4> QED BY <3>1, <4>2 DEF Receding
      <3>2. CASE LogoutEnds
        <4>1. \A n \in DOMAIN cred : [cred[n] EXCEPT !.session = "revoked"] \in Cred
          BY <1>3 DEF Cred
        <4>2. cred' \in [DOMAIN cred -> Cred] /\ DOMAIN cred' = DOMAIN cred
          BY <1>3, <3>2, <4>1 DEF LogoutEnds
        <4>3. \A n \in DOMAIN cred : Receding(n)
          BY <1>3, <3>2 DEF LogoutEnds, Receding, Cred
        <4> QED BY <4>2, <4>3
      <3> QED BY <1>4, <3>1, <3>2
    <2>2. cred' \in Seq(Cred) /\ Known' = Known
      BY <2>1, SameLength DEF ShapeOf
    <2>3. Known \subseteq Known' /\ 0 \in Known'
      BY <1>3, <2>2 DEF Known
    <2>4. /\ ShapeOf'
          /\ call'[t][s].pc = "answered" /\ call'[t][s].status = status /\ call'[t][s].new = 0
          /\ call'[t][s].runs = IF status = 200 THEN call[t][s].runs + 1 ELSE call[t][s].runs
          /\ \A u \in Tab, z \in Slot : u # t \/ z # s => call'[u][z] = call[u][z]
      BY <1>1, <1>4, <2>2, <2>3, AnsweredShape
    <2>5. CallsGo
      BY <1>1, <2>4 DEF CallsGo, CallGoes
    <2>6. Recedes
      BY <1>1, <2>1, <2>4 DEF Recedes
    <2>7. Kept'
      BY <2>6, RecedesLemma DEF Kept
    <2> QED BY <2>4, <2>5, <2>7
  <1>5. ASSUME NEW p \in Cred, p.session = "live", cred' = Append(cred, p),
               Answered(t, s, status, Len(cred'))
        PROVE  ShapeOf' /\ CallsGo /\ Kept'
    <2>1. /\ cred' \in Seq(Cred) /\ Len(cred') = Len(cred) + 1 /\ Known' = Known \cup {Len(cred')}
          /\ \A n \in DOMAIN cred : cred'[n] = cred[n]
          /\ cred'[Len(cred')] = p
      BY <1>5, AppendLemma DEF ShapeOf
    <2>2. Known \subseteq Known' /\ Len(cred') \in Known'
      BY <2>1
    <2>3. /\ ShapeOf'
          /\ call'[t][s].pc = "answered" /\ call'[t][s].status = status /\ call'[t][s].new = Len(cred')
          /\ call'[t][s].runs = IF status = 200 THEN call[t][s].runs + 1 ELSE call[t][s].runs
          /\ \A u \in Tab, z \in Slot : u # t \/ z # s => call'[u][z] = call[u][z]
      BY <1>1, <1>5, <2>1, <2>2, AnsweredShape
    <2>4. CallsGo
      BY <1>1, <2>3 DEF CallsGo, CallGoes
    <2>5. DOMAIN cred' = 1..(Len(cred) + 1)
      BY <2>1, LenProperties
    <2>6. /\ NewOf(<<"call", t, s>>)' = Len(cred) + 1 /\ <<"call", t, s>> \in Way
          /\ \A w \in Way : w # <<"call", t, s>> => NewOf(w)' = NewOf(w)
      BY <1>1, <2>1, <2>3 DEF Way, NewOf
    <2>7. /\ \A v, w \in Way : NewOf(v)' # 0 /\ NewOf(v)' = NewOf(w)' => v = w
          /\ \A n \in Known \ {0} : Brought(n)' => Brought(n)
      BY <1>5, <2>1, <2>5, <2>6, SignedLemma
    <2>8. OneExchange'
      BY <1>1 DEF Kept, OneExchange
    <2>9. BroughtOnce'
      <3>1. store.user \in Known
        BY CallIs
      <3>2. \A u \in Tab, z \in Slot : refresh[u][z].pc # "none" => refresh[u][z].cred \in Known \ {0}
        BY <1>3, ExchangedPair DEF Kept
      <3>3. store'.user # 0 => ~ Brought(store.user)'
        BY <1>1, <2>7, <3>1 DEF Kept, BroughtOnce
      <3>4. \A u \in Tab, z \in Slot : refresh'[u][z].pc # "none" => ~ Brought(refresh[u][z].cred)'
        BY <1>1, <2>7, <3>2 DEF Kept, BroughtOnce
      <3> QED BY <1>1, <2>7, <3>3, <3>4 DEF BroughtOnce, Way
    <2>10. ExchangedForGood'
      <3> SUFFICES ASSUME NEW n \in DOMAIN cred', NEW u \in Tab,
                          cred'[n].session = "rotated", cred'[n].by = u, ~ cred'[n].lost
                   PROVE  /\ ~ Brought(n)'
                          /\ store'.user = n =>
                               \E z \in Slot : refresh'[u][z].cred = n /\ refresh'[u][z].new # 0
                          /\ \A z \in Slot : refresh'[u][z].pc # "none" /\ refresh'[u][z].cred = n =>
                               refresh'[u][z].new # 0
        BY DEF ExchangedForGood
      <3>1. n # Len(cred')
        BY <1>5, <2>1
      <3>2. n \in DOMAIN cred
        BY <2>1, <2>5, <3>1, CredLemma DEF ShapeOf
      <3>3. cred[n].session = "rotated" /\ cred[n].by = u /\ ~ cred[n].lost
        BY <2>1, <3>2
      <3> QED BY <1>1, <1>3, <2>7, <3>2, <3>3 DEF Kept, ExchangedForGood
    <2>11. FailureHasCause'
      <3>1. \A u \in Tab, z \in Slot : refresh[u][z].pc # "none" =>
              cred'[refresh[u][z].cred] = cred[refresh[u][z].cred]
        BY <2>1, ExchangedPair DEF Kept
      <3> QED BY <1>1, <3>1 DEF Kept, FailureHasCause
    <2> QED BY <2>3, <2>4, <2>8, <2>9, <2>10, <2>11 DEF Kept
  <1> QED BY <1>2, <1>4, <1>5

(* The pair that the answer a brings is stored. *)
LEMMA ArrivalLemma ==
  ASSUME ShapeOf, Kept, NEW a \in Way, store'.user = NewOf(a), NewOf(a)' = 0, UNCHANGED cred,
         \A w \in Way : NewOf(w)' \in {0, NewOf(w)},
         \A t \in Tab, s \in Slot :
           \/ refresh'[t][s] = refresh[t][s]
           \/ refresh'[t][s] = NoRefresh /\ a = <<"refresh", t, s>>
  PROVE  Kept'
  <1>1. \A t \in Tab, s \in Slot : refresh'[t][s].pc # "none" => refresh'[t][s] = refresh[t][s]
    BY DEF NoRefresh
  <1>2. OneExchange'
    BY <1>1 DEF Kept, OneExchange, NoRefresh
  <1>3. \A n : n # 0 /\ Brought(n)' => Brought(n)
    BY DEF Brought, Way
  <1>4. \A n : n # 0 /\ n = NewOf(a) => ~ Brought(n)'
    <2> SUFFICES ASSUME NEW w \in Way, NewOf(a) # 0, NewOf(w)' = NewOf(a)
                 PROVE  FALSE
      BY DEF Brought, Way
    <2>1. NewOf(w) = NewOf(a)
      OBVIOUS
    <2>2. w = a
      BY <2>1 DEF Kept, BroughtOnce
    <2> QED BY <2>2
  <1>5. BroughtOnce'
    <2>1. \A v, w \in Way : NewOf(v)' # 0 /\ NewOf(v)' = NewOf(w)' => v = w
      BY DEF Kept, BroughtOnce
    <2>2. store'.user # 0 => ~ Brought(store.user)'
      BY <1>4
    <2>3. \A t \in Tab, s \in Slot : refresh'[t][s].pc # "none" => ~ Brought(refresh[t][s].cred)'
      BY <1>1, <1>3 DEF Kept, BroughtOnce, OneExchange
    <2> QED BY <2>1, <2>2, <2>3 DEF BroughtOnce, Way
  <1>6. ExchangedForGood'
    <2> SUFFICES ASSUME NEW n \in DOMAIN cred, NEW t \in Tab,
                        cred[n].session = "rotated", cred[n].by = t, ~ cred[n].lost
                 PROVE  /\ ~ Brought(n)' /\ store'.user # n
                        /\ \A z \in Slot : refresh'[t][z].pc # "none" /\ refresh'[t][z].cred = n =>
                             refresh'[t][z].new # 0
      BY DEF ExchangedForGood
    <2>1. n # 0
      BY CredLemma DEF ShapeOf, Known
    <2>2. ~ Brought(n)
      BY DEF Kept, ExchangedForGood
    <2>3. store'.user # n
      BY <2>1, <2>2 DEF Brought
    <2>4. ~ Brought(n)'
      BY <1>3, <2>1, <2>2
    <2> QED BY <1>1, <2>3, <2>4 DEF Kept, ExchangedForGood
  <1>7. FailureHasCause'
    BY <1>1 DEF Kept, FailureHasCause
  <1> QED BY <1>2, <1>5, <1>6, <1>7 DEF Kept

LEMMA GoesLemma ==
  ASSUME ShapeOf, Kept, Goes
  PROVE  ShapeOf' /\ CallsGo /\ Kept'
  BY RecedesLemma DEF Goes, Kept

LEMMA SucceedStep ==
  ASSUME ShapeOf, Kept, NEW t \in Tab, NEW s \in Slot, Succeed(t, s)
  PROVE  ShapeOf' /\ CallsGo /\ Kept'
  <1> DEFINE c == call[t][s]
  <1>1. c \in CallType /\ NoCall \in CallType /\ NoCall.new = 0 /\ NoCall.runs = 0
    BY CallIs, NothingLemma DEF NoCall
  <1>2. c.new \in Known
    BY <1>1 DEF CallType
  <1>3. call' = [call EXCEPT ![t][s] = NoCall] /\ UNCHANGED <<refresh, cred>>
    BY DEF Succeed, serverVars
  <1>4. CallGoes(c, NoCall) /\ NoCall.new \in {0, c.new} /\ UNCHANGED <<refresh, cred>>
    BY <1>1, <1>3 DEF CallGoes
  <1>5. store \in [user : Known, admin : Known]
    BY CallIs
  <1>6. CASE c.route = "POST:auth/login"
    <2>1. store' = [store EXCEPT !.user = c.new]
      BY <1>6 DEF Succeed
    <2>2. store' \in [user : Known, admin : Known] /\ store'.user = c.new
      BY <1>2, <1>5, <2>1
    <2>3. Known' = Known /\ CallType' = CallType
      BY <1>3 DEF Known, CallType
    <2>4. cred' \in Seq(Cred) /\ NoCall \in CallType' /\ Known \subseteq Known' /\ UNCHANGED refresh
          /\ store' \in [user : Known', admin : Known']
      BY <1>1, <1>3, <2>2, <2>3 DEF ShapeOf
    <2>5. ShapeOf'
      BY <1>3, <2>4, CallShape
    <2>6. call'[t][s] = NoCall /\ \A u \in Tab, z \in Slot : u # t \/ z # s => call'[u][z] = call[u][z]
      BY <1>3 DEF ShapeOf
    <2>7. CallsGo
      BY <1>1, <2>6 DEF CallsGo, CallGoes
    <2>8. /\ <<"call", t, s>> \in Way /\ NewOf(<<"call", t, s>>) = c.new
          /\ NewOf(<<"call", t, s>>)' = 0
          /\ \A w \in Way : NewOf(w)' \in {0, NewOf(w)}
      BY <1>1, <1>3, <2>6 DEF Way, NewOf
    <2>9. Kept'
      <3>1. \A u \in Tab, z \in Slot : refresh'[u][z] = refresh[u][z]
        BY <1>3
      <3>2. UNCHANGED cred
        BY <1>3
      <3> DEFINE a == <<"call", t, s>>
      <3>3. a \in Way /\ store'.user = NewOf(a) /\ NewOf(a)' = 0
        BY <2>2, <2>8
      <3> HIDE DEF a
      <3> QED BY <2>8, <3>1, <3>2, <3>3, ArrivalLemma
    <2> QED BY <2>5, <2>7, <2>9
  <1>7. CASE c.route # "POST:auth/login"
    <2>1. store' \in {store, [store EXCEPT !.admin = c.new]}
      BY <1>7 DEF Succeed
    <2>2. store' \in [user : Known, admin : Known] /\ store'.user \in {0, store.user}
      BY <1>2, <1>5, <2>1
    <2>3. Goes
      BY <1>1, <1>3, <1>4, <2>2, OneCall
    <2> QED BY <2>3, GoesLemma
  <1> QED BY <1>6, <1>7

LEMMA RefreshedStep ==
  ASSUME ShapeOf, Kept, NEW t \in Tab, NEW s \in Slot, Refreshed(t, s)
  PROVE  ShapeOf' /\ CallsGo /\ Kept'
  <1> DEFINE r == refresh[t][s]
             Z == Waiting(t, s)
             st == [store EXCEPT !.user = r.new]
             over == [refresh EXCEPT ![t][s] = NoRefresh]
  <1>1. r \in RefreshType /\ NoRefresh \in RefreshType /\ store \in [user : Known, admin : Known]
    BY CallIs, NothingLemma
  <1>2. r.new \in Known
    BY <1>1 DEF RefreshType
  <1>3. st \in [user : Known, admin : Known] /\ st.user = r.new
    BY <1>1, <1>2
  <1>4. CASE r.new = 0
    <2>1. GiveUp(t, Z, st) /\ (tab[t].path = "/login" => refresh' = over)
      BY <1>4 DEF Refreshed
    <2>2. Z \in SUBSET Slot /\ st.user \in {0, store.user} /\ OneExchange
      BY <1>3, <1>4 DEF Waiting, Kept
    <2>3. tab[t].path = "/login" =>
           \/ UNCHANGED refresh
           \/ \E z \in Slot : refresh' = [refresh EXCEPT ![t][z] = NoRefresh] /\ refresh[t][z].new = 0
      BY <1>4, <2>1
    <2> HIDE DEF st, Z, over
    <2>4. Goes
      BY <1>3, <2>1, <2>2, <2>3, GiveUpStep
    <2> QED BY <2>4, GoesLemma
  <1>5. CASE r.new # 0
    <2> DEFINE again(z) == [call[t][z] EXCEPT !.pc = "sent", !.cred = r.new]
               page == [z \in Slot |-> IF z \in Z THEN again(z) ELSE call[t][z]]
    <2>1. /\ store' = st /\ refresh' = over /\ UNCHANGED cred
          /\ call' = [call EXCEPT ![t] = page]
      BY <1>5 DEF Refreshed, serverVars
    <2>2. Known' = Known /\ CallType' = CallType /\ RefreshType' = RefreshType
      BY <2>1 DEF Known, CallType, RefreshType
    <2>3. \A z \in Slot : /\ again(z) \in CallType /\ again(z).new = call[t][z].new
                          /\ again(z).runs = call[t][z].runs
      <3> SUFFICES ASSUME NEW z \in Slot
                   PROVE  /\ again(z) \in CallType /\ again(z).new = call[t][z].new
                          /\ again(z).runs = call[t][z].runs
        OBVIOUS
      <3>1. call[t][z] \in CallType
        BY CallIs
      <3> HIDE DEF r
      <3> QED BY <1>2, <3>1 DEF CallType
    <2>4. page \in [Slot -> CallType]
      BY <2>3, CallIs
    <2>5. call' \in [Tab -> [Slot -> CallType]]
      <3> HIDE DEF page
      <3> QED BY <2>1, <2>4 DEF ShapeOf
    <2>6. refresh' \in [Tab -> [Slot -> RefreshType]]
      BY <1>1, <2>1 DEF ShapeOf
    <2>7. ShapeOf'
      BY <1>3, <2>1, <2>2, <2>5, <2>6 DEF ShapeOf
    <2>8. \A u \in Tab, z \in Slot :
            call'[u][z] = IF u = t /\ z \in Z THEN again(z) ELSE call[u][z]
      <3> HIDE DEF again, Z
      <3> QED BY <2>1 DEF ShapeOf
    <2>9. CallsGo
      <3>1. \A z \in Z : call[t][z].pc = "waiting"
        BY DEF Waiting
      <3> HIDE DEF again, Z
      <3> QED BY <2>3, <2>8, <3>1 DEF CallsGo, CallGoes, Waiting
    <2>10. /\ \A u \in Tab, z \in Slot :
                refresh'[u][z] = IF u = t /\ z = s THEN NoRefresh ELSE refresh[u][z]
           /\ \A u \in Tab, z \in Slot : call'[u][z].new = call[u][z].new
      <3>1. \A u \in Tab, z \in Slot :
                refresh'[u][z] = IF u = t /\ z = s THEN NoRefresh ELSE refresh[u][z]
        BY <2>1 DEF ShapeOf
      <3>2. \A u \in Tab, z \in Slot : call'[u][z].new = call[u][z].new
        <4> HIDE DEF again, Z
        <4> QED BY <2>3, <2>8
      <3> QED BY <3>1, <3>2
    <2>11. Kept'
      <3> DEFINE a == <<"refresh", t, s>>
      <3>1. /\ a \in Way /\ NewOf(a) = r.new /\ NewOf(a)' = 0
            /\ \A w \in Way : NewOf(w)' \in {0, NewOf(w)}
        BY <2>10 DEF Way, NewOf, NoRefresh
      <3>2. \A u \in Tab, z \in Slot :
             \/ refresh'[u][z] = refresh[u][z]
             \/ refresh'[u][z] = NoRefresh /\ a = <<"refresh", u, z>>
        BY <2>10
      <3>3. store'.user = NewOf(a) /\ UNCHANGED cred
        BY <1>3, <2>1, <3>1
      <3> HIDE DEF a
      <3> QED BY <3>1, <3>2, <3>3, ArrivalLemma
    <2> QED BY <2>7, <2>9, <2>11
  <1> QED BY <1>4, <1>5

(* A refused call waits for an exchange, and may begin it. *)
LEMMA SharedLemma ==
  ASSUME NEW t \in Tab, NEW s \in Slot
  PROVE  /\ Shared(t, s) \in Slot
         /\ refresh[t][Shared(t, s)].pc = "none" => \A z \in Slot : refresh[t][z].pc = "none"
  BY DEF Shared

LEMMA RetryStep ==
  ASSUME ShapeOf, Kept, NEW t \in Tab, NEW s \in Slot, Retry(t, s)
  PROVE  ShapeOf' /\ CallsGo /\ Kept'
  <1> DEFINE z == Shared(t, s)
             old == call[t][s]
             c == [old EXCEPT !.pc = "waiting", !.retried = TRUE, !.on = z]
             r == [pc |-> "sent", cred |-> store.user, new |-> 0]
  <1>1. /\ z \in Slot
        /\ refresh[t][z].pc = "none" => \A y \in Slot : refresh[t][y].pc = "none"
    BY SharedLemma
  <1>2. old.pc = "answered" /\ old.status = 401
    BY DEF Retry, Retries
  <1>3. old \in CallType /\ store \in [user : Known, admin : Known] /\ 0 \in Known
    BY CallIs
  <1>4. /\ c \in CallType /\ c.new = old.new /\ c.runs = old.runs
    <2> HIDE DEF old, z
    <2> QED BY <1>1, <1>3 DEF CallType
  <1>5. CASE refresh[t][z].pc = "none" /\ store.user = 0
    <2>1. GiveUp(t, {s}, store) /\ (tab[t].path = "/login" => UNCHANGED refresh)
      BY <1>5 DEF Retry
    <2>2. {s} \in SUBSET Slot /\ OneExchange
      BY DEF Kept
    <2>3. Goes
      BY <1>3, <2>1, <2>2, GiveUpStep
    <2> QED BY <2>3, GoesLemma
  <1>6. CASE ~ (refresh[t][z].pc = "none" /\ store.user = 0)
    <2>1. /\ call' = [call EXCEPT ![t][s] = c] /\ UNCHANGED <<store, cred>>
          /\ refresh' = IF refresh[t][z].pc # "none" THEN refresh ELSE [refresh EXCEPT ![t][z] = r]
      <3>1. /\ call' = [call EXCEPT ![t][s] = [@ EXCEPT !.pc = "waiting", !.retried = TRUE, !.on = z]]
            /\ UNCHANGED <<store, cred>>
            /\ refresh' = IF refresh[t][z].pc # "none" THEN refresh ELSE [refresh EXCEPT ![t][z] = r]
        BY <1>6 DEF Retry, serverVars
      <3> QED BY <3>1 DEF ShapeOf
    <2> HIDE DEF c
    <2>2. CallGoes(old, c)
      BY <1>2, <1>4 DEF CallGoes
    <2>3. CASE refresh[t][z].pc # "none"
      <3>1. UNCHANGED <<refresh, cred>> /\ store' = store
        BY <2>1, <2>3
      <3>2. store' \in [user : Known, admin : Known] /\ store'.user \in {0, store.user}
        BY <1>3, <3>1
      <3>3. Goes
        BY <1>4, <2>1, <2>2, <3>1, <3>2, OneCall
      <3> QED BY <3>3, GoesLemma
    <2>4. CASE refresh[t][z].pc = "none"
      <3>1. refresh' = [refresh EXCEPT ![t][z] = r] /\ store.user # 0
            /\ \A y \in Slot : refresh[t][y].pc = "none"
        BY <1>1, <1>6, <2>1, <2>4
      <3>2. r \in RefreshType
        BY <1>3 DEF RefreshType
      <3>3. Known' = Known /\ CallType' = CallType /\ RefreshType' = RefreshType
        BY <2>1 DEF Known, CallType, RefreshType
      <3>4. ShapeOf'
        <4>1. call' \in [Tab -> [Slot -> CallType]]
          BY <1>4, <2>1 DEF ShapeOf
        <4>2. refresh' \in [Tab -> [Slot -> RefreshType]]
          <5> HIDE DEF r, z
          <5> QED BY <1>1, <3>1, <3>2 DEF ShapeOf
        <4> QED BY <1>3, <2>1, <3>3, <4>1, <4>2 DEF ShapeOf
      <3>5. call'[t][s] = c /\ \A u \in Tab, y \in Slot : u # t \/ y # s => call'[u][y] = call[u][y]
        BY <2>1 DEF ShapeOf
      <3>6. CallsGo
        BY <2>2, <3>5 DEF CallsGo, CallGoes
      <3>7. \A u \in Tab, y \in Slot : refresh'[u][y] = IF u = t /\ y = z THEN r ELSE refresh[u][y]
        <4> HIDE DEF r, z
        <4> QED BY <1>1, <3>1 DEF ShapeOf
      <3>8. \A y \in Slot : refresh[t][y].new = 0
        BY <3>1 DEF Kept, OneExchange
      <3> HIDE DEF z
      <3>9. OneExchange'
        BY <3>1, <3>7 DEF Kept, OneExchange
      <3>10. \A w \in Way : NewOf(w)' = NewOf(w)
        BY <1>4, <3>5, <3>7, <3>8 DEF Way, NewOf
      <3>11. \A n : Brought(n)' => Brought(n)
        BY <3>10 DEF Brought, Way
      <3>12. BroughtOnce'
        <4>1. \A v, w \in Way : NewOf(v)' # 0 /\ NewOf(v)' = NewOf(w)' => v = w
          BY <3>10 DEF Kept, BroughtOnce
        <4>2. store'.user # 0 => ~ Brought(store.user)'
          BY <2>1, <3>11 DEF Kept, BroughtOnce
        <4>3. \A u \in Tab, y \in Slot : refresh'[u][y].pc # "none" => ~ Brought(refresh[u][y].cred)'
          BY <2>1, <3>1, <3>7, <3>11 DEF Kept, BroughtOnce
        <4> QED BY <4>1, <4>2, <4>3 DEF BroughtOnce, Way
      <3>13. \A n \in DOMAIN cred :
               cred[n].session = "rotated" /\ cred[n].by = t /\ ~ cred[n].lost => store.user # n
        BY <3>8 DEF Kept, ExchangedForGood
      <3>14. ExchangedForGood'
        <4> SUFFICES ASSUME NEW n \in DOMAIN cred, NEW u \in Tab,
                            cred[n].session = "rotated", cred[n].by = u, ~ cred[n].lost
                     PROVE  /\ ~ Brought(n)'
                            /\ store'.user = n =>
                                 \E y \in Slot : refresh'[u][y].cred = n /\ refresh'[u][y].new # 0
                            /\ \A y \in Slot : refresh'[u][y].pc # "none" /\ refresh'[u][y].cred = n =>
                                 refresh'[u][y].new # 0
          BY <2>1 DEF ExchangedForGood
        <4>1. CASE u = t
          BY <2>1, <3>1, <3>7, <3>11, <3>13, <4>1 DEF Kept, ExchangedForGood
        <4>2. CASE u # t
          BY <2>1, <3>7, <3>11, <4>2 DEF Kept, ExchangedForGood
        <4> QED BY <4>1, <4>2
      <3>15. FailureHasCause'
        BY <2>1, <3>7 DEF Kept, FailureHasCause
      <3> QED BY <3>4, <3>6, <3>9, <3>12, <3>14, <3>15 DEF Kept
    <2> QED BY <2>3, <2>4
  <1> QED BY <1>5, <1>6

(* An exchange fails, with a cause. *)
LEMMA FailedLemma ==
  ASSUME ShapeOf, Kept, NEW t \in Tab, NEW s \in Slot, refresh[t][s].pc # "none",
         NEW r, r.pc = "answered", r.new = 0, r.cred = refresh[t][s].cred,
         refresh' = [refresh EXCEPT ![t][s] = r], UNCHANGED <<store, call>>,
         DOMAIN cred' = DOMAIN cred, \A n \in DOMAIN cred : n # r.cred => cred'[n] = cred[n],
         \/ cred'[r.cred].session \in {"revoked", "conflict"} \/ cred'[r.cred].lost
         \/ cred'[r.cred] = cred[r.cred] /\ cred[r.cred].by # t
  PROVE  Kept'
  <1>1. \A u \in Tab, z \in Slot : refresh'[u][z] = IF u = t /\ z = s THEN r ELSE refresh[u][z]
    BY DEF ShapeOf
  <1>2. refresh[t][s].cred # 0
    BY DEF Kept, OneExchange
  <1>3. OneExchange'
    BY <1>1, <1>2 DEF Kept, OneExchange
  <1>4. \A w \in Way : NewOf(w)' \in {0, NewOf(w)}
    BY <1>1 DEF Way, NewOf
  <1>5. \A n : n # 0 /\ Brought(n)' => Brought(n)
    BY <1>4 DEF Brought, Way
  <1>6. BroughtOnce'
    <2>1. \A v, w \in Way : NewOf(v)' # 0 /\ NewOf(v)' = NewOf(w)' => v = w
      BY <1>4 DEF Kept, BroughtOnce
    <2>2. store'.user # 0 => ~ Brought(store.user)'
      BY <1>5 DEF Kept, BroughtOnce
    <2>3. \A u \in Tab, z \in Slot : refresh'[u][z].pc # "none" => ~ Brought(refresh[u][z].cred)'
      BY <1>1, <1>5 DEF Kept, BroughtOnce, OneExchange
    <2>4. \A u \in Tab, z \in Slot : refresh'[u][z].cred = refresh[u][z].cred
      BY <1>1
    <2> QED BY <2>1, <2>2, <2>3, <2>4 DEF BroughtOnce, Way
  <1>7. ExchangedForGood'
    <2> SUFFICES ASSUME NEW n \in DOMAIN cred, NEW u \in Tab,
                        cred'[n].session = "rotated", cred'[n].by = u, ~ cred'[n].lost
                 PROVE  /\ ~ Brought(n)'
                        /\ store'.user = n =>
                             \E z \in Slot : refresh'[u][z].cred = n /\ refresh'[u][z].new # 0
                        /\ \A z \in Slot : refresh'[u][z].pc # "none" /\ refresh'[u][z].cred = n =>
                             refresh'[u][z].new # 0
      BY DEF ExchangedForGood
    <2>1. n # 0
      BY CredLemma DEF ShapeOf, Known
    <2>2. cred'[n] = cred[n] /\ (u = t => n # r.cred)
      <3>1. CASE n = r.cred
        BY <3>1
      <3>2. CASE n # r.cred
        BY <3>2
      <3> QED BY <3>1, <3>2
    <2>3. /\ ~ Brought(n)
          /\ store.user = n => \E z \in Slot : refresh[u][z].cred = n /\ refresh[u][z].new # 0
          /\ \A z \in Slot : refresh[u][z].pc # "none" /\ refresh[u][z].cred = n => refresh[u][z].new # 0
      BY <2>2 DEF Kept, ExchangedForGood
    <2>4. \A z \in Slot : refresh'[u][z].cred = n \/ refresh[u][z].cred = n =>
            refresh'[u][z] = refresh[u][z]
      BY <1>1, <2>2
    <2> QED BY <1>5, <2>1, <2>3, <2>4
  <1>8. FailureHasCause'
    <2> SUFFICES ASSUME NEW u \in Tab, NEW z \in Slot,
                        refresh'[u][z].pc = "answered", refresh'[u][z].new = 0
                 PROVE  LET c == cred'[refresh'[u][z].cred] IN
                        c.session \in {"revoked", "conflict"} \/ c.by # u \/ c.lost
      BY DEF FailureHasCause
    <2>1. CASE u = t /\ z = s
      BY <1>1, <2>1
    <2>2. CASE ~ (u = t /\ z = s)
      <3>1. refresh'[u][z] = refresh[u][z]
        BY <1>1, <2>2
      <3>2. refresh[u][z].cred \in DOMAIN cred
        BY <3>1, ExchangedPair DEF Kept
      <3>3. LET c == cred[refresh[u][z].cred] IN
            c.session \in {"revoked", "conflict"} \/ c.by # u \/ c.lost
        BY <3>1 DEF Kept, FailureHasCause
      <3> QED BY <3>1, <3>2, <3>3
    <2> QED BY <2>1, <2>2
  <1> QED BY <1>3, <1>6, <1>7, <1>8 DEF Kept

(* The shape, when one exchange and one pair change. *)
LEMMA PairShape ==
  ASSUME ShapeOf, NEW t \in Tab, NEW s \in Slot, NEW r \in RefreshType,
         refresh' = [refresh EXCEPT ![t][s] = r], UNCHANGED <<store, call>>,
         NEW n \in DOMAIN cred, NEW c \in Cred, cred' = [cred EXCEPT ![n] = c]
  PROVE  /\ ShapeOf' /\ CallsGo /\ DOMAIN cred' = DOMAIN cred
         /\ cred'[n] = c /\ \A m \in DOMAIN cred : m # n => cred'[m] = cred[m]
  <1>1. Len(cred) \in Nat /\ DOMAIN cred = 1..Len(cred)
    BY CredLemma DEF ShapeOf
  <1>2. cred \in [DOMAIN cred -> Cred]
    BY <1>1, SeqDef DEF ShapeOf
  <1>3. cred' \in [DOMAIN cred -> Cred]
    BY <1>2
  <1>4. cred' \in Seq(Cred) /\ Known' = Known
    BY <1>3, SameLength DEF ShapeOf
  <1>5. r \in RefreshType' /\ Known \subseteq Known'
    BY <1>4 DEF RefreshType
  <1>6. ShapeOf'
    BY <1>4, <1>5, ExchangeShape
  <1>7. CallsGo
    BY DEF CallsGo, CallGoes
  <1> QED BY <1>2, <1>6, <1>7

LEMMA LoseExchangeStep ==
  ASSUME ShapeOf, Kept, NEW t \in Tab, NEW s \in Slot, LoseExchange(t, s)
  PROVE  ShapeOf' /\ CallsGo /\ Kept'
  <1> DEFINE old == refresh[t][s]
             r == [old EXCEPT !.pc = "answered", !.new = 0]
             n == old.cred
             c == [cred[n] EXCEPT !.lost = TRUE]
  <1>1. old.pc # "none" /\ UNCHANGED <<store, call>>
    BY DEF LoseExchange
  <1>2. refresh' = [refresh EXCEPT ![t][s] = r]
    BY DEF LoseExchange, ShapeOf
  <1>3. n \in DOMAIN cred
    BY <1>1, ExchangedPair DEF Kept
  <1>4. cred[n] \in Cred
    BY <1>3, CredLemma DEF ShapeOf
  <1>5. c \in Cred /\ c.lost
    BY <1>4 DEF Cred
  <1>6. cred' = [cred EXCEPT ![n] = c]
    BY <1>3 DEF LoseExchange
  <1>7. old \in RefreshType /\ 0 \in Known
    BY CallIs
  <1>8. r \in RefreshType /\ r.pc = "answered" /\ r.new = 0 /\ r.cred = n
    <2> HIDE DEF old
    <2> QED BY <1>7 DEF RefreshType
  <1> HIDE DEF c, r
  <1>9. /\ ShapeOf' /\ CallsGo /\ DOMAIN cred' = DOMAIN cred
        /\ cred'[n] = c /\ \A m \in DOMAIN cred : m # n => cred'[m] = cred[m]
    BY <1>1, <1>2, <1>3, <1>5, <1>6, <1>8, PairShape
  <1>10. Kept'
    BY <1>1, <1>2, <1>5, <1>8, <1>9, FailedLemma
  <1> QED BY <1>9, <1>10

(* The pair n, exchanged by t. *)
Ended(n, t, state) == [cred[n] EXCEPT !.session = state, !.by = t]

LEMMA ExchangeCases ==
  ASSUME ShapeOf, Kept, NEW t \in Tab, NEW s \in Slot, Exchange(t, s)
  PROVE  LET n == refresh[t][s].cred
             r(new) == [refresh[t][s] EXCEPT !.pc = "answered", !.new = new]
         IN
         /\ refresh[t][s].pc = "sent" /\ UNCHANGED <<store, call>>
         /\ n \in DOMAIN cred /\ cred[n] \in Cred
         /\ \/ cred[n].session # "live" /\ cred' = cred /\ refresh' = [refresh EXCEPT ![t][s] = r(0)]
            \/ /\ cred' = [cred EXCEPT ![n] = Ended(n, t, "conflict")]
               /\ refresh' = [refresh EXCEPT ![t][s] = r(0)]
            \/ /\ cred[n].session = "live"
               /\ cred' = Append([cred EXCEPT ![n] = Ended(n, t, "rotated")], Pair(Customer))
               /\ refresh' = [refresh EXCEPT ![t][s] = r(Len(cred'))]
  <1> DEFINE n == refresh[t][s].cred
             r(new) == [refresh[t][s] EXCEPT !.pc = "answered", !.new = new]
  <1>1. refresh[t][s].pc = "sent" /\ UNCHANGED <<store, call>>
    BY DEF Exchange
  <1>2. n \in DOMAIN cred
    BY <1>1, ExchangedPair DEF Kept
  <1>3. cred[n] \in Cred
    BY <1>2, CredLemma DEF ShapeOf
  <1>4. \A state : [cred EXCEPT ![n] = [@ EXCEPT !.session = state, !.by = t]]
                    = [cred EXCEPT ![n] = Ended(n, t, state)]
    BY <1>2 DEF Ended
  <1>5. \A new : [refresh EXCEPT ![t][s] = [@ EXCEPT !.pc = "answered", !.new = new]]
                  = [refresh EXCEPT ![t][s] = r(new)]
    BY DEF ShapeOf
  <1> HIDE DEF r
  <1>6. \/ cred[n].session # "live" /\ cred' = cred /\ refresh' = [refresh EXCEPT ![t][s] = r(0)]
        \/ /\ cred' = [cred EXCEPT ![n] = Ended(n, t, "conflict")]
           /\ refresh' = [refresh EXCEPT ![t][s] = r(0)]
        \/ /\ cred[n].session = "live"
           /\ cred' = Append([cred EXCEPT ![n] = Ended(n, t, "rotated")], Pair(Customer))
           /\ refresh' = [refresh EXCEPT ![t][s] = r(Len(cred'))]
    BY <1>4, <1>5 DEF Exchange, serverVars
  <1> QED BY <1>1, <1>2, <1>3, <1>6 DEF r

LEMMA ExchangeStep ==
  ASSUME ShapeOf, Kept, NEW t \in Tab, NEW s \in Slot, Exchange(t, s)
  PROVE  ShapeOf' /\ CallsGo /\ Kept'
  <1> DEFINE old == refresh[t][s]
             n == old.cred
             r(new) == [old EXCEPT !.pc = "answered", !.new = new]
             c(state) == Ended(n, t, state)
  <1>1. /\ old.pc = "sent" /\ UNCHANGED <<store, call>> /\ n \in DOMAIN cred /\ cred[n] \in Cred
        /\ \/ cred[n].session # "live" /\ cred' = cred /\ refresh' = [refresh EXCEPT ![t][s] = r(0)]
           \/ /\ cred' = [cred EXCEPT ![n] = c("conflict")]
              /\ refresh' = [refresh EXCEPT ![t][s] = r(0)]
           \/ /\ cred[n].session = "live"
              /\ cred' = Append([cred EXCEPT ![n] = c("rotated")], Pair(Customer))
              /\ refresh' = [refresh EXCEPT ![t][s] = r(Len(cred'))]
    BY ExchangeCases
  <1>2. old \in RefreshType /\ 0 \in Known /\ Len(cred) \in Nat /\ DOMAIN cred = 1..Len(cred)
        /\ DOMAIN cred = Known \ {0}
    BY CallIs, CredLemma DEF ShapeOf
  <1>3. \A new : r(new).pc = "answered" /\ r(new).new = new /\ r(new).cred = n
    <2> HIDE DEF old
    <2> QED BY <1>2 DEF RefreshType
  <1>4. r(0) \in RefreshType /\ r(0).pc = "answered" /\ r(0).new = 0 /\ r(0).cred = n
    <2> HIDE DEF old
    <2> QED BY <1>2 DEF RefreshType
  <1>5. refresh[t][s].pc # "none" /\ UNCHANGED <<store, call>> /\ n \in DOMAIN cred /\ n # 0
    BY <1>1, <1>2
  <1>6. \A state \in {"conflict", "rotated"} :
          c(state) \in Cred /\ c(state).session = state /\ c(state).by = t
    BY <1>1 DEF Ended, Cred
  <1>7. \A m \in DOMAIN cred : cred[m] \in Cred
    BY CredLemma DEF ShapeOf
  <1> HIDE DEF r, c
  <1>8. CASE cred[n].session # "live" /\ cred' = cred /\ refresh' = [refresh EXCEPT ![t][s] = r(0)]
    <2>1. /\ cred[n].session \in {"revoked", "conflict"} \/ cred[n].lost \/ cred[n].by # t
      <3>1. cred[n].session \in {"revoked", "rotated", "conflict"}
        BY <1>1, <1>8 DEF Cred
      <3>2. old.new = 0
        BY <1>1 DEF Kept, OneExchange
      <3> QED BY <1>1, <3>1, <3>2 DEF Kept, ExchangedForGood
    <2>2. Kept'
      BY <1>4, <1>8, <1>5, <2>1, FailedLemma
    <2>3. cred' \in Seq(Cred) /\ Known \subseteq Known' /\ r(0) \in RefreshType'
      BY <1>4, <1>8 DEF ShapeOf, Known, RefreshType
    <2>4. ShapeOf'
      BY <1>1, <1>8, <2>3, ExchangeShape
    <2>5. CallsGo
      BY <1>1 DEF CallsGo, CallGoes
    <2> QED BY <2>2, <2>4, <2>5
  <1>9. CASE /\ cred' = [cred EXCEPT ![n] = c("conflict")]
             /\ refresh' = [refresh EXCEPT ![t][s] = r(0)]
    <2>1. /\ ShapeOf' /\ CallsGo /\ DOMAIN cred' = DOMAIN cred
          /\ cred'[n] = c("conflict") /\ \A m \in DOMAIN cred : m # n => cred'[m] = cred[m]
      BY <1>1, <1>4, <1>6, <1>9, PairShape
    <2>2. cred'[n].session \in {"revoked", "conflict"}
      BY <1>6, <2>1
    <2>3. /\ r(0).cred = refresh[t][s].cred /\ refresh' = [refresh EXCEPT ![t][s] = r(0)]
          /\ DOMAIN cred' = DOMAIN cred /\ \A m \in DOMAIN cred : m # r(0).cred => cred'[m] = cred[m]
          /\ cred'[r(0).cred].session \in {"revoked", "conflict"}
      BY <1>4, <1>9, <2>1, <2>2
    <2>4. r(0).pc = "answered" /\ r(0).new = 0
      BY <1>4
    <2>5. Kept'
      BY <1>5, <2>3, <2>4, FailedLemma
    <2> QED BY <2>1, <2>5
  <1>10. CASE /\ cred[n].session = "live"
             /\ cred' = Append([cred EXCEPT ![n] = c("rotated")], Pair(Customer))
             /\ refresh' = [refresh EXCEPT ![t][s] = r(Len(cred'))]
    <2> DEFINE over == [cred EXCEPT ![n] = c("rotated")]
               new == Len(cred')
    <2>1. over \in Seq(Cred) /\ Len(over) = Len(cred)
      <3>1. over \in [1..Len(cred) -> Cred]
        BY <1>2, <1>6, <1>7, SeqDef DEF ShapeOf
      <3>2. over \in Seq(Cred)
        BY <1>2, <3>1, SeqDef
      <3>3. Len(over) \in Nat /\ DOMAIN over = 1..Len(over)
        BY <3>2, LenProperties
      <3>4. 1..Len(over) = 1..Len(cred)
        BY <3>1, <3>3
      <3> HIDE DEF over
      <3>5. Len(over) = Len(cred)
        <4> DEFINE k == Len(over)
                   l == Len(cred)
        <4>1. k \in Nat /\ l \in Nat /\ 1..k = 1..l
          BY <1>2, <3>3, <3>4
        <4> HIDE DEF k, l
        <4>2. k = l
          BY <4>1
        <4> QED BY <4>2 DEF k, l
      <3> QED BY <3>2, <3>5
    <2>2. over[n] = c("rotated") /\ \A m \in DOMAIN cred : m # n => over[m] = cred[m]
      BY <1>1
    <2>3. cred' = Append(over, Pair(Customer))
      BY <1>10
    <2> HIDE DEF over
    <2>4. /\ cred' \in Seq(Cred) /\ new = Len(cred) + 1
          /\ \A m \in 1..Len(cred) : cred'[m] = over[m]
          /\ cred'[Len(cred) + 1] = Pair(Customer)
      BY <2>1, <2>3, PairLemma, AppendProperties
    <2>5. DOMAIN cred' = 1..(Len(cred) + 1)
      BY <2>4, LenProperties
    <2>6. /\ cred'[n] = c("rotated") /\ \A m \in DOMAIN cred : m # n => cred'[m] = cred[m]
      BY <1>1, <1>2, <2>2, <2>4
    <2>7. Known \subseteq Known' /\ new \in Known' /\ n \in Known'
      <3>1. \A m \in Known : m \in Nat /\ m <= Len(cred)
        BY <1>2 DEF Known
      <3>2. n \in Known
        BY <1>2, <1>5
      <3> HIDE DEF n
      <3> QED BY <1>2, <2>4, <3>1, <3>2 DEF Known
    <2>8. r(new) \in RefreshType'
      <3> HIDE DEF old, new
      <3> QED BY <1>2, <2>7 DEF RefreshType, r
    <2>9. ShapeOf'
      BY <1>1, <1>10, <2>4, <2>7, <2>8, ExchangeShape
    <2>10. CallsGo
      BY <1>1 DEF CallsGo, CallGoes
    <2>11. \A u \in Tab, z \in Slot : refresh'[u][z] = IF u = t /\ z = s THEN r(new) ELSE refresh[u][z]
      BY <1>10 DEF ShapeOf
    <2>12. n # 0 /\ n \in Known /\ new # 0 /\ n \in DOMAIN cred
      <3>1. n # 0 /\ n \in Known /\ n \in DOMAIN cred
        BY <1>2, <1>5
      <3> QED BY <1>2, <2>4, <3>1
    <2> HIDE DEF n, new
    <2>13. OneExchange'
      BY <1>1, <1>3, <2>11, <2>12 DEF Kept, OneExchange
    <2>14. /\ \A v, w \in Way : NewOf(v)' # 0 /\ NewOf(v)' = NewOf(w)' => v = w
           /\ \A m \in Known \ {0} : Brought(m)' => Brought(m)
      <3>1. /\ NewOf(<<"refresh", t, s>>)' = Len(cred) + 1 /\ <<"refresh", t, s>> \in Way
            /\ \A w \in Way : w # <<"refresh", t, s>> => NewOf(w)' = NewOf(w)
        BY <1>1, <1>3, <2>4, <2>11 DEF Way, NewOf
      <3>2. Pair(Customer).session = "live"
        BY DEF Pair
      <3> QED BY <2>4, <2>5, <3>1, <3>2, PairLemma, SignedLemma
    <2>15. /\ \A u \in Tab, z \in Slot : refresh'[u][z].cred = refresh[u][z].cred
           /\ \A u \in Tab, z \in Slot : refresh[u][z].pc # "none" => refresh[u][z].cred \in Known \ {0}
           /\ \A u \in Tab, z \in Slot : refresh'[u][z].pc # "none" => refresh[u][z].pc # "none"
      <3>1. n = refresh[t][s].cred
        BY DEF n
      <3>2. \A u \in Tab, z \in Slot : refresh[u][z].pc # "none" => refresh[u][z].cred \in Known \ {0}
        BY <1>2, ExchangedPair DEF Kept
      <3>3. refresh[t][s].pc # "none" /\ r(new).cred = n
        BY <1>1, <1>3
      <3> HIDE DEF old
      <3> QED BY <2>11, <3>1, <3>2, <3>3
    <2>16. BroughtOnce'
      <3>1. store.user \in Known
        BY CallIs
      <3>2. store'.user # 0 => ~ Brought(store.user)'
        BY <1>1, <2>14, <3>1 DEF Kept, BroughtOnce
      <3>3. \A u \in Tab, z \in Slot : refresh'[u][z].pc # "none" => ~ Brought(refresh[u][z].cred)'
        BY <2>14, <2>15 DEF Kept, BroughtOnce
      <3> QED BY <2>14, <2>15, <3>2, <3>3 DEF BroughtOnce, Way
    <2>17. ExchangedForGood'
      <3> SUFFICES ASSUME NEW m \in DOMAIN cred', NEW u \in Tab,
                          cred'[m].session = "rotated", cred'[m].by = u, ~ cred'[m].lost
                   PROVE  /\ ~ Brought(m)'
                          /\ store'.user = m =>
                               \E z \in Slot : refresh'[u][z].cred = m /\ refresh'[u][z].new # 0
                          /\ \A z \in Slot : refresh'[u][z].pc # "none" /\ refresh'[u][z].cred = m =>
                               refresh'[u][z].new # 0
        BY DEF ExchangedForGood
      <3>1. m # Len(cred) + 1
        BY <2>4 DEF Pair
      <3>2. m \in DOMAIN cred /\ m \in Known \ {0}
        BY <1>2, <2>5, <3>1
      <3>3. CASE m = n
        <4>1. u = t
          BY <1>6, <2>6, <3>3
        <4>2. ~ Brought(n)
          BY <1>1 DEF Kept, BroughtOnce, n
        <4>3. ~ Brought(m)'
          BY <2>14, <3>2, <3>3, <4>2
        <4>4. refresh'[t][s].cred = n /\ refresh'[t][s].new # 0
          BY <1>3, <2>11, <2>12
        <4>5. \A z \in Slot : refresh'[t][z].pc # "none" => z = s
          BY <1>1, <2>15 DEF Kept, OneExchange
        <4> QED BY <3>3, <4>1, <4>3, <4>4, <4>5
      <3>4. CASE m # n
        <4>1. cred[m].session = "rotated" /\ cred[m].by = u /\ ~ cred[m].lost
          BY <2>6, <3>2, <3>4
        <4>2. /\ ~ Brought(m)
              /\ store.user = m => \E z \in Slot : refresh[u][z].cred = m /\ refresh[u][z].new # 0
              /\ \A z \in Slot : refresh[u][z].pc # "none" /\ refresh[u][z].cred = m => refresh[u][z].new # 0
          BY <3>2, <4>1 DEF Kept, ExchangedForGood
        <4>3. \A z \in Slot : refresh'[u][z].cred = m \/ refresh[u][z].cred = m =>
                refresh'[u][z] = refresh[u][z]
          BY <2>11, <2>15, <3>4 DEF n
        <4>4. store' = store
          BY <1>1
        <4> QED BY <2>14, <3>2, <4>2, <4>3, <4>4
      <3> QED BY <3>3, <3>4
    <2>18. FailureHasCause'
      <3> SUFFICES ASSUME NEW u \in Tab, NEW z \in Slot,
                          refresh'[u][z].pc = "answered", refresh'[u][z].new = 0
                   PROVE  LET d == cred'[refresh'[u][z].cred] IN
                          d.session \in {"revoked", "conflict"} \/ d.by # u \/ d.lost
        BY DEF FailureHasCause
      <3>1. ~ (u = t /\ z = s)
        BY <1>3, <2>11, <2>12
      <3>2. refresh'[u][z] = refresh[u][z]
        BY <2>11, <3>1
      <3>3. refresh[u][z].cred \in DOMAIN cred
        BY <1>2, <2>15, <3>2
      <3>4. CASE refresh[u][z].cred = n
        <4>1. u # t
          BY <1>1, <3>1, <3>2 DEF Kept, OneExchange
        <4> QED BY <1>6, <2>6, <3>2, <3>4, <4>1
      <3>5. CASE refresh[u][z].cred # n
        <4>1. LET d == cred[refresh[u][z].cred] IN
              d.session \in {"revoked", "conflict"} \/ d.by # u \/ d.lost
          BY <3>2 DEF Kept, FailureHasCause
        <4> QED BY <2>6, <3>2, <3>3, <3>5, <4>1
      <3> QED BY <3>4, <3>5
    <2> QED BY <2>9, <2>10, <2>13, <2>16, <2>17, <2>18 DEF Kept
  <1> QED BY <1>1, <1>8, <1>9, <1>10

-----------------------------------------------------------------------------
(* The theorems. *)

LEMMA InitLemma == Init => IInv
  <1> SUFFICES ASSUME Init
               PROVE  IInv
    OBVIOUS
  <1>1. /\ cred \in Seq(Cred) /\ Len(cred) = 2 /\ DOMAIN cred = 1..2
        /\ \A n \in DOMAIN cred : cred[n].session = "live"
    <2>1. /\ Pair(Customer) \in Cred /\ Pair(Customer).session = "live"
          /\ Pair(Staff("SUPPORT")) \in Cred /\ Pair(Staff("SUPPORT")).session = "live"
      BY PairLemma DEF Pair
    <2>2. cred = <<Pair(Customer), Pair(Staff("SUPPORT"))>>
      BY DEF Init
    <2> HIDE DEF Pair
    <2> QED BY <2>1, <2>2
  <1>2. 0 \in Known /\ 1 \in Known /\ 2 \in Known
    BY <1>1 DEF Known
  <1>3. NoCall \in CallType /\ NoRefresh \in RefreshType
    BY <1>1, NothingLemma
  <1>4. Shape
    BY <1>1, <1>2, <1>3, ShapeLemma DEF Init, ShapeOf
  <1>5. \A t \in Tab, s \in Slot : call[t][s] = NoCall /\ refresh[t][s] = NoRefresh
    BY DEF Init
  <1>6. \A w \in Way : NewOf(w) = 0
    BY <1>5 DEF Way, NewOf, NoCall, NoRefresh
  <1>7. store.user = 1 /\ ~ Brought(store.user)
    BY <1>6 DEF Brought, Init
  <1>8. OneExchange
    BY <1>5 DEF OneExchange, NoRefresh
  <1>9. BroughtOnce
    BY <1>5, <1>6, <1>7 DEF BroughtOnce, NoRefresh
  <1>10. ExchangedForGood
    BY <1>1 DEF ExchangedForGood
  <1>11. FailureHasCause
    BY <1>5 DEF FailureHasCause, NoRefresh
  <1>12. NotYetRun
    BY <1>5 DEF NotYetRun, NoCall
  <1> QED BY <1>4, <1>8, <1>9, <1>10, <1>11, <1>12 DEF IInv

LEMMA StepLemma ==
  ASSUME ShapeOf, Kept, [Next]_vars
  PROVE  ShapeOf' /\ CallsGo /\ Kept'
  <1>1. CASE Goes
    BY <1>1, GoesLemma
  <1>2. OneExchange
    BY DEF Kept
  <1>3. CASE Tick \/ UNCHANGED vars
    <2>1. UNCHANGED <<store, call, refresh, cred>>
      BY <1>3 DEF Tick, vars, pageVars, serverVars
    <2> QED BY <1>1, <2>1, StillLemma
  <1>4. ASSUME NEW n \in DOMAIN cred, Expire(n)
        PROVE  Goes
    BY <1>4, ExpireStep
  <1>5. ASSUME NEW t \in Tab, AdminLogout(t) \/ LeaveDashboard(t) \/ \E p \in Path : Load(t, p)
        PROVE  Goes
    BY <1>2, <1>5, PagesStep
  <1>6. ASSUME NEW t \in Tab, NEW s \in Slot,
               \/ \E p \in Path : \E route \in Offered(p), right \in BOOLEAN : Click(t, s, route, right)
               \/ Logout(t, s) \/ Lose(t, s) \/ Fail(t, s)
        PROVE  Goes
    <2>1. CASE \E p \in Path : \E route \in Offered(p), right \in BOOLEAN : Click(t, s, route, right)
      <3>1. PICK p \in Path : \E route \in Offered(p), right \in BOOLEAN : Click(t, s, route, right)
        BY <2>1
      <3>2. PICK route \in Offered(p), right \in BOOLEAN : Click(t, s, route, right)
        BY <3>1
      <3> QED BY <3>2, ClickStep
    <2>2. CASE Logout(t, s)
      BY <2>2, LogoutStep
    <2>3. CASE Lose(t, s)
      BY <2>3, LoseStep
    <2>4. CASE Fail(t, s)
      BY <1>2, <2>4, FailStep
    <2> QED BY <1>6, <2>1, <2>2, <2>3, <2>4
  <1>7. ASSUME NEW t \in Tab, NEW s \in Slot,
               \/ Respond(t, s) \/ Exchange(t, s) \/ LoseExchange(t, s)
               \/ Succeed(t, s) \/ Retry(t, s) \/ Refreshed(t, s)
        PROVE  ShapeOf' /\ CallsGo /\ Kept'
    <2>1. CASE Respond(t, s)
      BY <2>1, RespondStep
    <2>2. CASE Exchange(t, s)
      BY <2>2, ExchangeStep
    <2>3. CASE LoseExchange(t, s)
      BY <2>3, LoseExchangeStep
    <2>4. CASE Succeed(t, s)
      BY <2>4, SucceedStep
    <2>5. CASE Retry(t, s)
      BY <2>5, RetryStep
    <2>6. CASE Refreshed(t, s)
      BY <2>6, RefreshedStep
    <2> QED BY <1>7, <2>1, <2>2, <2>3, <2>4, <2>5, <2>6
  <1> QED BY <1>1, <1>3, <1>4, <1>5, <1>6, <1>7 DEF Next

LEMMA KeptLemma == IInv <=> ShapeOf /\ Kept /\ NotYetRun
  BY ShapeLemma DEF IInv, Kept

LEMMA NextLemma ==
  ASSUME IInv, [Next]_vars
  PROVE  IInv'
  <1>1. ShapeOf /\ Kept /\ NotYetRun
    BY KeptLemma
  <1>2. ShapeOf' /\ CallsGo /\ Kept'
    BY <1>1, StepLemma
  <1>3. NotYetRun'
    BY <1>1, <1>2, RunLemma
  <1>4. Shape'
    BY <1>2, ShapeLemmaPrimed
  <1> QED BY <1>2, <1>3, <1>4 DEF IInv, Kept

(* The browser keeps what it must of a pair of tokens: it is brought by one *)
(* answer, stored once, exchanged by one tab once, and a failed exchange    *)
(* has a cause that is not this tab's (refreshAccessToken, api.ts:40-57,    *)
(* and the interceptors, api.ts:59-79).                                     *)
THEOREM BrowserInvariant == Spec => []IInv
  <1>1. Init => IInv
    BY InitLemma
  <1>2. IInv /\ [Next]_vars => IInv'
    BY NextLemma
  <1> QED BY <1>1, <1>2, PTL DEF Spec

(* No call of a page is carried out twice, the one made again by the        *)
(* interceptor included (api.ts:59-79): only a refused call is made again.  *)
THEOREM ExecutedOnceTheorem == Spec => []ExecutedOnce
  <1>1. IInv => ExecutedOnce
    BY DEF IInv, NotYetRun, ExecutedOnce
  <1> QED BY <1>1, BrowserInvariant, PTL

(* The stored pair is thrown away for a cause outside the page only         *)
(* (api.ts:40-57): the calls of one page share one exchange.                *)
THEOREM OneTabTheorem == Spec => OneTabKeepsItsSession
  <1>1. IInv /\ [Next]_vars =>
          [\A t \in Tab, s \in Slot :
             refresh[t][s].pc = "answered" /\ store.user # 0 /\ store'.user = 0
               /\ refresh'[t][s].pc = "none" /\ refresh[t][s].new = 0 =>
             LET c == cred[refresh[t][s].cred] IN
             c.session \in {"revoked", "conflict"} \/ c.by # t \/ c.lost]_vars
    BY DEF IInv, FailureHasCause
  <1> QED BY <1>1, BrowserInvariant, PTL DEF Spec, OneTabKeepsItsSession
-----------------------------------------------------------------------------
(* The routes and the pages. *)

(* No two handlers have the same route. *)
LEMMA HandlerLemma ==
  ASSUME NEW h \in API, NEW other \in API, other.route = h.route
  PROVE  other = h
  BY DEF API, AuthController, UsersController, BeneficiariesController, CountriesController,
     TransactionsController, AdminController, AdminDashboardController, WebhooksController,
     HealthController, Public, Private, Panel, Restricted, Handler

LEMMA RouteLemma ==
  ASSUME NEW h \in API
  PROVE  h.route \in DOMAIN Route /\ Route[h.route] = h
  BY HandlerLemma DEF Route

(* The handler a call of a page reaches. *)
Answers(hook, handler) ==
  handler \in API /\ Hook[hook].route = handler.route

(* The calls of the pages, and what answers them. *)
LEMMA HookLemma ==
  /\ Hook["useCountries"].route = "GET:countries"
  /\ Hook["useDetectPhone"].route = "GET:countries/detect"
  /\ Hook["useQuote"].route = "POST:transactions/quote"
  /\ Hook["useSendMoney"].route = "POST:transactions"
  /\ Hook["useTransactions"].route = "GET:transactions"
  /\ Hook["useBeneficiaries"].route = "GET:beneficiaries"
  /\ Hook["useCreateBeneficiary"].route = "POST:beneficiaries"
  /\ Hook["useDeleteBeneficiary"].route = "DELETE:beneficiaries/:id"
  /\ Hook["refreshUser"].route = "GET:users/me"
  /\ Hook["logout"].route = "POST:auth/logout"
  /\ Hook["useAdminStats"].route = "GET:admin/stats"
  /\ Hook["useAdminBalance"].route = "GET:admin/geniuspay/balance"
  /\ Hook["useAdminUsers"].route = "GET:admin/users"
  /\ Hook["useUpdateUserStatus"].route = "PATCH:admin/users/:id/status"
  /\ Hook["useAdminTransactions"].route = "GET:admin/transactions"
  /\ Hook["exportCsv"].route = "GET:admin/transactions/export"
  /\ Hook["useAdminCountries"].route = "GET:admin/countries"
  /\ Hook["useToggleCountry"].route = "PATCH:admin/countries/:iso2/active"
  /\ Hook["useSyncOperators"].route = "POST:admin/operators/sync"
  /\ Hook["useAdminSettings"].route = "GET:admin/settings"
  /\ Hook["useUpdateSetting"].route = "PUT:admin/settings/:key"
  /\ Hook["useAdminWebhooks"].route = "GET:admin/webhooks"
  BY DEF Hook, hooks, adminHooks, Query, Mutation, useSyncOperators

LEMMA AnswerLemma ==
  /\ Answers("useCountries", Public("GET:countries", {"countries", "operators"}, {}))
  /\ Answers("useDetectPhone", Public("GET:countries/detect", {"countries", "operators"}, {}))
  /\ Answers("useQuote", Private("POST:transactions/quote", {}, {}))
  /\ Answers("useSendMoney", Private("POST:transactions", {}, {"transactions", "beneficiaries"}))
  /\ Answers("useTransactions", Private("GET:transactions", {"transactions"}, {}))
  /\ Answers("useBeneficiaries", Private("GET:beneficiaries", {"beneficiaries"}, {}))
  /\ Answers("useCreateBeneficiary", Private("POST:beneficiaries", {}, {"beneficiaries"}))
  /\ Answers("useDeleteBeneficiary", Private("DELETE:beneficiaries/:id", {}, {"beneficiaries"}))
  /\ Answers("refreshUser", Private("GET:users/me", {"users"}, {}))
  /\ Answers("logout", Private("POST:auth/logout", {}, {"users"}))
  /\ Answers("useAdminStats", Panel("GET:admin/stats", {"users", "transactions"}, {}))
  /\ Answers("useAdminBalance", Panel("GET:admin/geniuspay/balance", {}, {}))
  /\ Answers("useAdminUsers", Panel("GET:admin/users", {"users"}, {}))
  /\ Answers("useUpdateUserStatus", Panel("PATCH:admin/users/:id/status", {}, {"users"}))
  /\ Answers("useAdminTransactions", Panel("GET:admin/transactions", {"transactions"}, {}))
  /\ Answers("exportCsv", Panel("GET:admin/transactions/export", {"transactions"}, {}))
  /\ Answers("useAdminCountries", Panel("GET:admin/countries", {"countries", "operators"}, {}))
  /\ Answers("useToggleCountry", Restricted("PATCH:admin/countries/:iso2/active", {"countries"}))
  /\ Answers("useSyncOperators", Restricted("POST:admin/operators/sync", {"countries", "operators"}))
  /\ Answers("useAdminSettings", Panel("GET:admin/settings", {"settings"}, {}))
  /\ Answers("useUpdateSetting", Restricted("PUT:admin/settings/:key", {"settings"}))
  /\ Answers("useAdminWebhooks", Panel("GET:admin/webhooks", {"webhook_events"}, {}))
  BY HookLemma DEF Answers, API, AuthController, UsersController, BeneficiariesController,
     CountriesController, TransactionsController, AdminDashboardController, Public, Private,
     Panel, Restricted, Handler

(* What the guards make of a call. *)
LEMMA GuardLemma ==
  ASSUME NEW hook, NEW handler, Answers(hook, handler),
         NEW caller \in {Customer} \cup {Staff(role) : role \in AdminRole}
  PROVE  Guarded(Hook[hook].route, caller) =
           IF \/ handler.guard \in {"admin", "role"} /\ caller.type # "admin"
              \/ handler.guard = "role" /\ caller.role \notin {"SUPER_ADMIN", "ADMIN"}
             THEN 403 ELSE 200
  <1>1. Hook[hook].route \in DOMAIN Route /\ Route[Hook[hook].route] = handler
    BY RouteLemma DEF Answers
  <1>2. caller # Nobody
    BY DEF Customer, Staff, Nobody
  <1> QED
    BY <1>1, <1>2 DEF Guarded, Identified, ActsAsAdmin, HoldsRole

LEMMA ServedLemma ==
  /\ \A h \in UNION Dashboard : Served(h, Customer)
  /\ \A h \in UNION AdminPanel, role \in AdminRole : Served(h, Staff(role))
  <1>1. ASSUME NEW h \in UNION Dashboard PROVE Served(h, Customer)
    <2>1. /\ \E handler : Answers(h, handler) /\ handler.guard \in {"public", "jwt"}
          /\ h \notin {"useToggleCountry", "useSyncOperators", "useUpdateSetting"}
      BY AnswerLemma DEF Dashboard, HistoryPage, SendMoneyPage, BeneficiariesPage, DashboardLayout,
         Public, Private, Handler
    <2> QED
      BY <2>1, GuardLemma DEF Served, Customer
  <1>2. ASSUME NEW h \in UNION AdminPanel, NEW role \in AdminRole PROVE Served(h, Staff(role))
    <2>1. \E handler :
            /\ Answers(h, handler)
            /\ handler.guard = IF h \in {"useToggleCountry", "useSyncOperators", "useUpdateSetting"}
                                 THEN "role" ELSE "admin"
      BY AnswerLemma DEF AdminPanel, AdminOverview, AdminUsersPage, AdminTransactionsPage,
         AdminCountriesPage, AdminSettingsPage, AdminWebhooksPage, Panel, Restricted, Handler
    <2> QED
      BY <2>1, GuardLemma DEF Served, Staff, AdminRole
  <1> QED
    BY <1>1, <1>2

(* A mutation declares stale a key that begins the key of the query. *)
LEMMA KeyLemma ==
  /\ <<"user">> \in Hook["logout"].stale /\ Hook["refreshUser"].key = <<"user">>
  /\ <<"beneficiaries">> \in Hook["useCreateBeneficiary"].stale
  /\ <<"beneficiaries">> \in Hook["useDeleteBeneficiary"].stale
  /\ Hook["useBeneficiaries"].key = <<"beneficiaries">>
  /\ <<"admin", "users">> \in Hook["useUpdateUserStatus"].stale
  /\ Hook["useAdminUsers"].key = <<"admin", "users", "params">>
  /\ <<"admin", "countries">> \in Hook["useToggleCountry"].stale
  /\ <<"admin", "countries">> \in Hook["useSyncOperators"].stale
  /\ Hook["useAdminCountries"].key = <<"admin", "countries">>
  /\ <<"admin", "settings">> \in Hook["useUpdateSetting"].stale
  /\ Hook["useAdminSettings"].key = <<"admin", "settings">>
  BY DEF Hook, hooks, adminHooks, Query, Mutation, useSyncOperators

LEMMA PrefixLemma ==
  /\ IsPrefix(<<"user">>, Hook["refreshUser"].key)
  /\ IsPrefix(<<"beneficiaries">>, Hook["useBeneficiaries"].key)
  /\ IsPrefix(<<"admin", "users">>, Hook["useAdminUsers"].key)
  /\ IsPrefix(<<"admin", "countries">>, Hook["useAdminCountries"].key)
  /\ IsPrefix(<<"admin", "settings">>, Hook["useAdminSettings"].key)
  <1>1. ASSUME NEW x, NEW y, NEW z
        PROVE  /\ IsPrefix(<<x>>, <<x>>) /\ IsPrefix(<<x, y>>, <<x, y>>)
               /\ IsPrefix(<<x, y>>, <<x, y, z>>)
    BY DEF IsPrefix
  <1> QED
    BY <1>1, KeyLemma

LEMMA RefetchLemma ==
  ASSUME NEW page \in Dashboard \cup AdminPanel, NEW m \in page, NEW q \in page
  PROVE  Refetches(m, q)
  <1>1. ASSUME NEW a, NEW b, Answers(m, a), Answers(q, b), a.writes \cap b.reads = {}
        PROVE  Refetches(m, q)
    BY <1>1, RouteLemma DEF Answers, Refetches
  <1>2. ASSUME \E key \in Hook[m].stale : IsPrefix(key, Hook[q].key)
        PROVE  Refetches(m, q)
    BY <1>2 DEF Refetches
  <1>3. \/ m = "logout" /\ q = "refreshUser"
        \/ m \in {"useCreateBeneficiary", "useDeleteBeneficiary"} /\ q = "useBeneficiaries"
        \/ m = "useUpdateUserStatus" /\ q = "useAdminUsers"
        \/ m \in {"useToggleCountry", "useSyncOperators"} /\ q = "useAdminCountries"
        \/ m = "useUpdateSetting" /\ q = "useAdminSettings"
        => \E key \in Hook[m].stale : IsPrefix(key, Hook[q].key)
    BY KeyLemma, PrefixLemma
  <1>4. \/ m = "logout" /\ q = "refreshUser"
        \/ m \in {"useCreateBeneficiary", "useDeleteBeneficiary"} /\ q = "useBeneficiaries"
        \/ m = "useUpdateUserStatus" /\ q = "useAdminUsers"
        \/ m \in {"useToggleCountry", "useSyncOperators"} /\ q = "useAdminCountries"
        \/ m = "useUpdateSetting" /\ q = "useAdminSettings"
        \/ \E a, b : Answers(m, a) /\ Answers(q, b) /\ a.writes \cap b.reads = {}
    <2>1. CASE page \in Dashboard
      BY <2>1, AnswerLemma DEF Dashboard, HistoryPage, SendMoneyPage, BeneficiariesPage,
         DashboardLayout, Public, Private, Handler
    <2>2. CASE page \in AdminPanel
      BY <2>2, AnswerLemma DEF AdminPanel, AdminOverview, AdminUsersPage, AdminTransactionsPage,
         AdminCountriesPage, AdminSettingsPage, AdminWebhooksPage, Panel, Restricted, Handler
    <2> QED
      BY <2>1, <2>2
  <1> QED
    BY <1>1, <1>2, <1>3, <1>4

(* Whatever page a tab comes to show, the calls it makes exist, and no guard *)
(* refuses them to its reader, but for three controls (hooks.ts,             *)
(* admin-hooks.ts, roles.guard.ts).                                          *)
THEOREM PagesAreServed == Spec => []CallsAreServed
  <1>1. CallsAreServed
    BY ServedLemma DEF CallsAreServed
  <1> QED BY <1>1, PTL

(* Whatever page a tab comes to show, what its controls write is declared    *)
(* stale in what it reads (the onSuccess of hooks.ts and admin-hooks.ts).    *)
THEOREM PagesRefetch == Spec => []PagesFollowOwnWrites
  <1>1. PagesFollowOwnWrites
    BY RefetchLemma DEF PagesFollowOwnWrites
  <1> QED BY <1>1, PTL

-----------------------------------------------------------------------------
(* What signs the administrator out. *)

LEMMA SignInRoutes ==
  /\ "POST:admin/auth/login" \in DOMAIN Route
  /\ Route["POST:admin/auth/login"].guard = "public"
  /\ "POST:auth/login" \notin AdminRoutes
  <1>1. Public("POST:admin/auth/login", {}, {}) \in API
    BY DEF API, AdminController
  <1>2. /\ "POST:admin/auth/login" \in DOMAIN Route
        /\ Route["POST:admin/auth/login"].guard = "public"
    BY <1>1, RouteLemma DEF Public, Handler
  <1>3. "POST:auth/login" \notin AdminRoutes
    BY DEF AdminRoutes, adminHooks, Query, Mutation, useSyncOperators
  <1> QED BY <1>2, <1>3

(* An answer under way to a call of the panel: a refusal has its cause in   *)
(* the token sent or the password, and a login brings a token.              *)
Refused(c) ==
  IF c.route = "POST:admin/auth/login" THEN ~ c.right ELSE c.cred = 0 \/ ~ cred[c.cred].valid

AdminAnswers ==
  \A t \in Tab, s \in Slot : LET c == call[t][s] IN
    c.pc = "answered" /\ IsAdmin(c.route) =>
      /\ c.status = 401 => Refused(c)
      /\ c.route = "POST:admin/auth/login" /\ c.status = 200 => c.new # 0

(* An expired token stays expired. *)
ValidFalls ==
  \A n \in DOMAIN cred : n \in DOMAIN cred' /\ (cred'[n].valid => cred[n].valid)

(* No answer comes, unless it is lost. *)
Calm ==
  \A t \in Tab, s \in Slot : LET d == call'[t][s] IN
    d = call[t][s] \/ d.pc # "answered" \/ d.status = 0

LEMMA CalmLemma ==
  ASSUME ShapeOf, AdminAnswers, ValidFalls, Calm
  PROVE  AdminAnswers'
  <1> SUFFICES ASSUME NEW t \in Tab, NEW s \in Slot,
                      call'[t][s].pc = "answered", IsAdmin(call'[t][s].route)
               PROVE  /\ call'[t][s].status = 401 => Refused(call[t][s])'
                      /\ call'[t][s].route = "POST:admin/auth/login" /\ call'[t][s].status = 200 =>
                           call'[t][s].new # 0
    BY DEF AdminAnswers, IsAdmin, AdminRoutes
  <1>1. CASE call'[t][s].status = 0
    BY <1>1
  <1>2. CASE call'[t][s] = call[t][s]
    <2>1. call[t][s].cred \in Known /\ DOMAIN cred = Known \ {0}
      BY CallIs, CredLemma DEF CallType, ShapeOf
    <2>2. /\ call[t][s].status = 401 => Refused(call[t][s])
          /\ call[t][s].route = "POST:admin/auth/login" /\ call[t][s].status = 200 =>
               call[t][s].new # 0
      BY <1>2 DEF AdminAnswers
    <2> QED BY <1>2, <2>1, <2>2 DEF Refused, ValidFalls
  <1> QED BY <1>1, <1>2 DEF Calm

LEMMA SameValid ==
  ASSUME ShapeOf, cred' = cred \/ \E p \in Cred : cred' = Append(cred, p)
  PROVE  ValidFalls
  <1>1. CASE cred' = cred
    BY <1>1 DEF ValidFalls
  <1>2. ASSUME NEW p \in Cred, cred' = Append(cred, p)
        PROVE  ValidFalls
    <2>1. \A n \in 1..Len(cred) : n \in 1..Len(cred') /\ cred'[n] = cred[n]
      <3>1. Len(cred) \in Nat /\ DOMAIN cred = 1..Len(cred)
        BY CredLemma DEF ShapeOf
      <3>2. Len(cred') = Len(cred) + 1 /\ \A n \in DOMAIN cred : cred'[n] = cred[n]
        BY <1>2, AppendLemma DEF ShapeOf
      <3> QED BY <3>1, <3>2
    <2>2. DOMAIN cred = 1..Len(cred) /\ DOMAIN cred' = 1..Len(cred')
      BY <1>2, CredLemma, AppendLemma, LenProperties DEF ShapeOf
    <2> QED BY <2>1, <2>2 DEF ValidFalls
  <1> QED BY <1>1, <1>2

LEMMA LoadedCalm ==
  ASSUME ShapeOf, NEW t \in Tab, NEW path, NEW st, Loaded(t, path, st)
  PROVE  Calm /\ ValidFalls /\ store' = st /\ \A s \in Slot : call'[t][s].pc # "answered"
  <1>1. \A s \in Slot : call'[t][s].pc # "answered"
    <2>1. \A s \in Slot : call'[t][s] \in {NoCall, Sent("GET:users/me", st)}
      BY DEF Loaded, ShapeOf
    <2>2. Sent("GET:users/me", st).pc = "sent" /\ NoCall.pc = "idle"
      BY DEF Sent, NoCall
    <2> QED BY <2>1, <2>2
  <1>2. \A u \in Tab \ {t}, s \in Slot : call'[u][s] = call[u][s]
    BY DEF Loaded, ShapeOf
  <1>3. ValidFalls
    <2>1. \A n \in DOMAIN cred : cred[n] \in Cred
      BY CredLemma DEF ShapeOf
    <2>2. \A n \in DOMAIN cred : cred'[n] \in {[cred[n] EXCEPT !.lost = TRUE], cred[n]}
      BY DEF Loaded
    <2>3. \A n \in DOMAIN cred : [cred[n] EXCEPT !.lost = TRUE].valid = cred[n].valid
      BY <2>1 DEF Cred
    <2> QED BY <2>2, <2>3 DEF ValidFalls, Loaded
  <1> QED BY <1>1, <1>2, <1>3 DEF Calm, Loaded

LEMMA RejectedCalm ==
  ASSUME ShapeOf, NEW t \in Tab, NEW Z, Rejected(t, Z), UNCHANGED cred
  PROVE  Calm /\ ValidFalls /\ \A s \in Z \cap Slot : call'[t][s].pc # "answered"
  <1>1. /\ \A s \in Slot : call'[t][s] = IF s \in Z THEN NoCall ELSE call[t][s]
        /\ \A u \in Tab \ {t}, s \in Slot : call'[u][s] = call[u][s]
    BY DEF Rejected, ShapeOf
  <1> QED BY <1>1 DEF Calm, NoCall, ValidFalls

LEMMA GiveUpCalm ==
  ASSUME ShapeOf, NEW t \in Tab, NEW Z, NEW st, GiveUp(t, Z, st)
  PROVE  Calm /\ ValidFalls /\ store' = st
  BY LoadedCalm, RejectedCalm DEF GiveUp, serverVars

LEMMA FailCalm ==
  ASSUME ShapeOf, NEW t \in Tab, NEW s \in Slot, Fail(t, s)
  PROVE  /\ Calm /\ ValidFalls /\ call'[t][s].pc # "answered"
         /\ store' = store \/ (IsAdmin(call[t][s].route) /\ call[t][s].status = 401)
  <1>1. \/ Loaded(t, "/admin/login", [store EXCEPT !.admin = 0])
        \/ Rejected(t, {s}) /\ UNCHANGED cred
    BY DEF Fail, serverVars
  <1>2. store' = store \/ (IsAdmin(call[t][s].route) /\ call[t][s].status = 401)
    <2> HIDE DEF IsAdmin
    <2> QED BY DEF Fail
  <1>3. Calm /\ ValidFalls /\ call'[t][s].pc # "answered"
    BY <1>1, LoadedCalm, RejectedCalm
  <1> QED BY <1>2, <1>3

(* An answer of the API. *)
LEMMA RespondAdmin ==
  ASSUME ShapeOf, ShapeOf', AdminAnswers, NEW t \in Tab, NEW s \in Slot, Respond(t, s)
  PROVE  ValidFalls /\ AdminAnswers'
  <1> DEFINE c == call[t][s]
             d == call'[t][s]
             early == Guarded(c.route, Caller(c.cred))
  <1>1. c.pc = "sent" /\ UNCHANGED <<store, refresh>>
    BY DEF Respond
  <1>2. c \in CallType /\ Len(cred) \in Nat
    BY CallIs
  <1>3. \E status, new : Answered(t, s, status, new)
    <2>1. PICK status \in Nat :
              \/ Answered(t, s, status, 0) /\ (cred' = cred \/ LogoutEnds)
              \/ \E p \in Cred : p.session = "live" /\ cred' = Append(cred, p)
                                 /\ Answered(t, s, status, Len(cred'))
      BY RespondCases
    <2> QED BY <2>1
  <1>4. \A u \in Tab, z \in Slot : u # t \/ z # s => call'[u][z] = call[u][z]
    <2>1. PICK status, new : Answered(t, s, status, new)
      BY <1>3
    <2> QED BY <2>1 DEF Answered, ShapeOf
  <1>5. ASSUME NEW status, NEW new, Answered(t, s, status, new)
        PROVE  /\ d.status = status /\ d.new = new /\ d.route = c.route /\ d.cred = c.cred
               /\ d.right = c.right
    <2> DEFINE e == [c EXCEPT !.pc = "answered", !.status = status, !.new = new,
                              !.runs = IF status = 200 THEN c.runs + 1 ELSE c.runs]
    <2>1. d = e
      BY <1>5 DEF Answered, ShapeOf
    <2>2. e.status = status /\ e.new = new /\ e.route = c.route /\ e.cred = c.cred /\ e.right = c.right
      <3> HIDE DEF c
      <3> QED BY <1>2 DEF CallType
    <2> HIDE DEF e
    <2> QED BY <2>1, <2>2
  <1>6. d.route = c.route /\ d.cred = c.cred /\ d.right = c.right
    BY <1>3, <1>5
  <1>7. ValidFalls
    <2>1. CASE LogoutEnds
      <3>1. \A n \in DOMAIN cred : cred[n] \in Cred
        BY CredLemma DEF ShapeOf
      <3>2. \A n \in DOMAIN cred : cred'[n] \in {[cred[n] EXCEPT !.session = "revoked"], cred[n]}
        BY <2>1 DEF LogoutEnds
      <3>3. \A n \in DOMAIN cred : [cred[n] EXCEPT !.session = "revoked"].valid = cred[n].valid
        BY <3>1 DEF Cred
      <3> QED BY <2>1, <3>2, <3>3 DEF ValidFalls, LogoutEnds
    <2>2. cred' = cred \/ LogoutEnds \/ \E p \in Cred : cred' = Append(cred, p)
      <3>1. PICK status \in Nat :
                \/ Answered(t, s, status, 0) /\ (cred' = cred \/ LogoutEnds)
                \/ \E p \in Cred : p.session = "live" /\ cred' = Append(cred, p)
                                   /\ Answered(t, s, status, Len(cred'))
        BY RespondCases
      <3> QED BY <3>1
    <2> QED BY <2>1, <2>2, SameValid
  <1>8. ASSUME c.cred # 0, cred[c.cred].valid
        PROVE  Caller(c.cred) # Nobody
    <2>1. c.cred \in DOMAIN cred /\ cred[c.cred] \in Cred
      <3>1. c.cred \in Known
        BY <1>2 DEF CallType
      <3> QED BY <1>8, <3>1, CredLemma DEF ShapeOf
    <2> QED BY <1>8, <2>1 DEF Caller, Cred, Customer, Staff, Nobody
  <1>9. early = 401 => ~ Identified(c.route, Caller(c.cred))
    BY DEF Guarded
  <1>10. ASSUME IsAdmin(c.route), d.status = 401
         PROVE  IF c.route = "POST:admin/auth/login" THEN ~ c.right ELSE c.cred = 0 \/ ~ cred[c.cred].valid
    <2>1. CASE early # 200
      <3>1. d.status = early
        BY <1>5, <2>1 DEF Respond
      <3>2. ~ Identified(c.route, Caller(c.cred))
        BY <1>9, <1>10, <3>1
      <3>3. c.route # "POST:admin/auth/login" /\ Caller(c.cred) = Nobody
        BY <3>2, SignInRoutes DEF Identified
      <3> QED BY <1>8, <3>3
    <2>2. CASE early = 200
      <3> SUFFICES c.route = "POST:admin/auth/login" /\ ~ c.right
        OBVIOUS
      <3>1. c.route # "POST:auth/login"
        BY <1>10, SignInRoutes DEF IsAdmin
      <3>2. CASE c.route = "POST:admin/auth/login" /\ c.right
        <4>1. Answered(t, s, 200, Len(cred'))
          BY <2>2, <3>2 DEF Respond
        <4> QED BY <1>5, <1>10, <4>1
      <3>3. CASE c.route = "POST:auth/logout"
        <4>1. Answered(t, s, 200, 0)
          BY <2>2, <3>3 DEF Respond
        <4> QED BY <1>5, <1>10, <4>1
      <3>4. CASE c.route = "GET:admin/geniuspay/balance"
        <4>1. \E theirs \in {200, 401, 500} : Answered(t, s, Upstream(theirs), 0)
          <5> HIDE DEF c
          <5> QED BY <2>2, <3>4 DEF Respond, early, c
        <4>2. PICK theirs \in {200, 401, 500} : Answered(t, s, Upstream(theirs), 0)
          BY <4>1
        <4>3. d.status = Upstream(theirs)
          BY <1>5, <4>2
        <4> QED BY <1>10, <4>3 DEF Upstream
      <3>5. CASE c.route \notin {"POST:auth/login", "POST:admin/auth/login", "POST:auth/logout",
                                 "GET:admin/geniuspay/balance"}
        <4>1. Answered(t, s, 200, 0)
          BY <2>2, <3>5 DEF Respond
        <4> QED BY <1>5, <1>10, <4>1
      <3> QED BY <3>1, <3>2, <3>3, <3>4, <3>5
    <2> QED BY <2>1, <2>2
  <1>11. ASSUME c.route = "POST:admin/auth/login", d.status = 200
         PROVE  d.new # 0
    <2>1. CASE early # 200
      BY <1>5, <1>11, <2>1 DEF Respond
    <2>2. CASE early = 200 /\ ~ c.right
      <3>1. Answered(t, s, 401, 0)
        BY <1>11, <2>2 DEF Respond
      <3> QED BY <1>5, <1>11, <3>1
    <2>3. CASE early = 200 /\ c.right
      <3>1. cred' = Append(cred, Pair(Staff("SUPPORT"))) /\ Answered(t, s, 200, Len(cred'))
        BY <1>11, <2>3 DEF Respond
      <3>2. Len(cred') = Len(cred) + 1
        BY <3>1, PairLemma, AppendLemma DEF ShapeOf
      <3>3. d.new = Len(cred')
        BY <1>5, <3>1
      <3> QED BY <1>2, <3>2, <3>3
    <2> QED BY <2>1, <2>2, <2>3
  <1>12. ASSUME IsAdmin(d.route)
         PROVE  /\ d.status = 401 => Refused(call[t][s])'
                /\ d.route = "POST:admin/auth/login" /\ d.status = 200 => d.new # 0
    <2>1. c.cred \in DOMAIN cred \cup {0}
      BY <1>2, CredLemma DEF CallType, ShapeOf
    <2> QED BY <1>6, <1>7, <1>10, <1>11, <1>12, <2>1 DEF Refused, ValidFalls
  <1>13. ASSUME NEW u \in Tab, NEW z \in Slot, u # t \/ z # s,
                call'[u][z].pc = "answered", IsAdmin(call'[u][z].route)
         PROVE  /\ call'[u][z].status = 401 => Refused(call[u][z])'
                /\ call'[u][z].route = "POST:admin/auth/login" /\ call'[u][z].status = 200 =>
                     call'[u][z].new # 0
    <2>1. call'[u][z] = call[u][z]
      BY <1>4, <1>13
    <2>2. call[u][z].cred \in DOMAIN cred \cup {0}
      BY CallIs, CredLemma DEF CallType, ShapeOf
    <2>3. /\ call[u][z].status = 401 => Refused(call[u][z])
          /\ call[u][z].route = "POST:admin/auth/login" /\ call[u][z].status = 200 => call[u][z].new # 0
      BY <1>13, <2>1 DEF AdminAnswers
    <2> QED BY <1>7, <2>1, <2>2, <2>3 DEF Refused, ValidFalls
  <1>14. \A u \in Tab, z \in Slot :
           call'[u][z].pc = "answered" /\ IsAdmin(call'[u][z].route) =>
             /\ call'[u][z].status = 401 => Refused(call[u][z])'
             /\ call'[u][z].route = "POST:admin/auth/login" /\ call'[u][z].status = 200 =>
                  call'[u][z].new # 0
    <2> TAKE u \in Tab, z \in Slot
    <2>1. CASE u = t /\ z = s
      BY <1>12, <2>1
    <2>2. CASE u # t \/ z # s
      BY <1>13, <2>2
    <2> QED BY <2>1, <2>2
  <1> QED BY <1>7, <1>14 DEF AdminAnswers, IsAdmin, AdminRoutes

(* The other steps: what they do to the answers, the tokens and the token   *)
(* of the administrator.                                                    *)
StaysIn == store'.admin = store.admin \/ store'.admin # 0

LEMMA QuietCalm ==
  ASSUME ShapeOf, UNCHANGED <<store, call>>,
         cred' = cred \/ \E n \in DOMAIN cred : Expire(n)
  PROVE  Calm /\ ValidFalls /\ StaysIn
  <1>1. ValidFalls
    <2>1. \A n \in DOMAIN cred : cred[n] \in Cred
      BY CredLemma DEF ShapeOf
    <2>2. ASSUME NEW n \in DOMAIN cred, Expire(n)
          PROVE  ValidFalls
      <3>1. \A m \in DOMAIN cred : cred'[m] = IF m = n THEN [cred[n] EXCEPT !.valid = FALSE] ELSE cred[m]
        BY <2>2 DEF Expire
      <3>2. ~ [cred[n] EXCEPT !.valid = FALSE].valid /\ DOMAIN cred' = DOMAIN cred
        BY <2>1, <2>2 DEF Cred, Expire
      <3> QED BY <3>1, <3>2 DEF ValidFalls
    <2> QED BY <2>2, SameValid
  <1> QED BY <1>1 DEF Calm, StaysIn

LEMMA ClicksCalm ==
  ASSUME ShapeOf, NEW t \in Tab, NEW s \in Slot,
         \/ \E p \in Path : \E route \in Offered(p), right \in BOOLEAN : Click(t, s, route, right)
         \/ Logout(t, s) \/ Lose(t, s)
  PROVE  Calm /\ ValidFalls /\ StaysIn
  <1>1. ASSUME NEW d, call' = [call EXCEPT ![t][s] = d], d.pc # "answered" \/ d.status = 0
        PROVE  Calm
    BY <1>1 DEF Calm, ShapeOf
  <1>2. ValidFalls
    BY SameValid DEF Click, Logout, Lose, serverVars
  <1>3. StaysIn
    BY DEF Click, Logout, Lose, StaysIn, ShapeOf
  <1>4. ASSUME NEW route, NEW right, Click(t, s, route, right)
        PROVE  Calm
    <2> DEFINE d == [Sent(route, store) EXCEPT !.right = right]
    <2>1. d.pc = "sent"
      BY DEF Sent, NoCall
    <2>2. call' = [call EXCEPT ![t][s] = d]
      BY <1>4 DEF Click
    <2> HIDE DEF d
    <2> QED BY <1>1, <2>1, <2>2
  <1>5. CASE Logout(t, s)
    <2> DEFINE d == Sent("POST:auth/logout", store')
    <2>1. d.pc = "sent"
      BY DEF Sent, NoCall
    <2>2. call' = [call EXCEPT ![t][s] = d]
      BY <1>5 DEF Logout
    <2> HIDE DEF d
    <2> QED BY <1>1, <1>2, <1>3, <2>1, <2>2
  <1>6. CASE Lose(t, s)
    <2> DEFINE c == call[t][s]
               d == [c EXCEPT !.pc = "answered", !.status = 0]
    <2>1. c \in CallType
      BY CallIs
    <2>2. call' = [call EXCEPT ![t][s] = d]
      BY <1>6 DEF Lose, ShapeOf
    <2>3. d.status = 0
      <3> HIDE DEF c
      <3> QED BY <2>1 DEF CallType
    <2> HIDE DEF d
    <2> QED BY <1>1, <1>2, <1>3, <2>2, <2>3
  <1> QED BY <1>2, <1>3, <1>4, <1>5, <1>6

LEMMA ReplaceLemma ==
  ASSUME cred \in Seq(Cred), NEW n \in DOMAIN cred, NEW p \in Cred
  PROVE  LET list == [cred EXCEPT ![n] = p] IN
         list \in Seq(Cred) /\ DOMAIN list = DOMAIN cred /\ Len(list) = Len(cred)
  <1> DEFINE list == [cred EXCEPT ![n] = p]
  <1>1. Len(cred) \in Nat /\ DOMAIN cred = 1..Len(cred)
    BY CredLemma
  <1>2. cred \in [DOMAIN cred -> Cred]
    BY <1>1, SeqDef
  <1>3. list \in [1..Len(cred) -> Cred]
    BY <1>1, <1>2
  <1> HIDE DEF list
  <1>4. list \in Seq(Cred)
    BY <1>1, <1>3, SeqDef
  <1>5. Len(list) \in Nat /\ DOMAIN list = 1..Len(list)
    BY <1>4, LenProperties
  <1>6. Len(list) = Len(cred)
    BY <1>1, <1>3, <1>5
  <1> QED BY <1>1, <1>3, <1>4, <1>6 DEF list

LEMMA ExchangesCalm ==
  ASSUME ShapeOf, Kept, NEW t \in Tab, NEW s \in Slot, Exchange(t, s) \/ LoseExchange(t, s)
  PROVE  Calm /\ ValidFalls /\ StaysIn
  <1> DEFINE n == refresh[t][s].cred
  <1>1. UNCHANGED <<store, call>>
    BY DEF Exchange, LoseExchange
  <1>2. n \in DOMAIN cred /\ \A m \in DOMAIN cred : cred[m] \in Cred
    <2>1. refresh[t][s].pc # "none"
      BY DEF Exchange, LoseExchange
    <2> QED BY <2>1, ExchangedPair, CredLemma DEF ShapeOf, Kept
  <1>3. ASSUME NEW p \in Cred, p.valid = cred[n].valid,
               \/ cred' = [cred EXCEPT ![n] = p]
               \/ cred' = Append([cred EXCEPT ![n] = p], Pair(Customer))
        PROVE  ValidFalls
    <2> DEFINE list == [cred EXCEPT ![n] = p]
    <2>1. list \in Seq(Cred) /\ DOMAIN list = DOMAIN cred /\ Len(list) = Len(cred)
          /\ \A m \in DOMAIN cred : list[m].valid = cred[m].valid
      <3>1. list \in Seq(Cred) /\ DOMAIN list = DOMAIN cred /\ Len(list) = Len(cred)
        BY <1>2, ReplaceLemma DEF ShapeOf
      <3>2. \A m \in DOMAIN cred : list[m] = IF m = n THEN p ELSE cred[m]
        BY <1>2
      <3> QED BY <1>3, <3>1, <3>2
    <2> HIDE DEF list
    <2>2. CASE cred' = list
      BY <2>1, <2>2 DEF ValidFalls
    <2>3. CASE cred' = Append(list, Pair(Customer))
      <3>1. /\ Append(list, Pair(Customer)) \in Seq(Cred)
            /\ \A m \in 1..Len(list) : Append(list, Pair(Customer))[m] = list[m]
            /\ Len(Append(list, Pair(Customer))) = Len(list) + 1
        BY <2>1, PairLemma, AppendProperties
      <3>2. DOMAIN list = 1..Len(list) /\ Len(list) \in Nat
            /\ DOMAIN Append(list, Pair(Customer)) = 1..(Len(list) + 1)
        BY <2>1, <3>1, LenProperties
      <3> QED BY <2>1, <2>3, <3>1, <3>2 DEF ValidFalls
    <2> QED BY <1>3, <2>2, <2>3 DEF list
  <1>4. \/ cred' = cred
        \/ \E p \in Cred :
             /\ p.valid = cred[n].valid
             /\ \/ cred' = [cred EXCEPT ![n] = p]
                \/ cred' = Append([cred EXCEPT ![n] = p], Pair(Customer))
    <2> DEFINE l == [cred[n] EXCEPT !.lost = TRUE]
    <2>1. /\ \A state \in {"conflict", "rotated"} :
               Ended(n, t, state) \in Cred /\ Ended(n, t, state).valid = cred[n].valid
          /\ l \in Cred /\ l.valid = cred[n].valid
      <3> DEFINE old == cred[n]
      <3>1. old \in Cred
        BY <1>2
      <3> HIDE DEF old
      <3>2. /\ \A state \in {"conflict", "rotated"} :
                 /\ [old EXCEPT !.session = state, !.by = t] \in Cred
                 /\ [old EXCEPT !.session = state, !.by = t].valid = old.valid
            /\ [old EXCEPT !.lost = TRUE] \in Cred /\ [old EXCEPT !.lost = TRUE].valid = old.valid
        BY <3>1 DEF Cred
      <3> QED BY <3>2 DEF old, Ended
    <2>2. CASE Exchange(t, s)
      <3>1. \/ cred' = cred \/ cred' = [cred EXCEPT ![n] = Ended(n, t, "conflict")]
            \/ cred' = Append([cred EXCEPT ![n] = Ended(n, t, "rotated")], Pair(Customer))
        BY <2>2, ExchangeCases
      <3> HIDE DEF l, n
      <3> QED BY <2>1, <3>1
    <2>3. CASE LoseExchange(t, s)
      <3>1. cred' = [cred EXCEPT ![n] = l]
        BY <1>2, <2>3 DEF LoseExchange
      <3> HIDE DEF l, n
      <3> QED BY <2>1, <3>1
    <2> QED BY <2>2, <2>3
  <1>5. ValidFalls
    <2> HIDE DEF n
    <2> QED BY <1>3, <1>4, SameValid
  <1> QED BY <1>1, <1>5 DEF Calm, StaysIn

LEMMA AnswersCalm ==
  ASSUME ShapeOf, AdminAnswers, NEW t \in Tab, NEW s \in Slot,
         Succeed(t, s) \/ Retry(t, s) \/ Refreshed(t, s)
  PROVE  Calm /\ ValidFalls /\ StaysIn
  <1>1. CASE Succeed(t, s)
    <2>1. call' = [call EXCEPT ![t][s] = NoCall] /\ UNCHANGED cred
      BY <1>1 DEF Succeed, serverVars
    <2>2. Calm
      BY <2>1 DEF Calm, NoCall, ShapeOf
    <2>3. CASE call[t][s].route = "POST:admin/auth/login"
      <3>1. store' = [store EXCEPT !.admin = call[t][s].new]
        BY <1>1, <2>3 DEF Succeed
      <3>2. call[t][s].new # 0
        BY <1>1, <2>3 DEF AdminAnswers, Succeed, IsAdmin, AdminRoutes
      <3> QED BY <2>1, <2>2, <3>1, <3>2, SameValid DEF StaysIn, ShapeOf
    <2>4. CASE call[t][s].route # "POST:admin/auth/login"
      <3>1. store' \in {store, [store EXCEPT !.user = call[t][s].new]}
        BY <1>1, <2>4 DEF Succeed
      <3> QED BY <2>1, <2>2, <3>1, SameValid DEF StaysIn, ShapeOf
    <2> QED BY <2>3, <2>4
  <1>2. CASE Retry(t, s)
    <2> DEFINE c == call[t][s]
               z == Shared(t, s)
               d == [c EXCEPT !.pc = "waiting", !.retried = TRUE, !.on = z]
    <2>1. \/ \E Z : GiveUp(t, Z, store)
          \/ call' = [call EXCEPT ![t][s] = d] /\ UNCHANGED <<store, cred>>
      <3>1. CASE refresh[t][z].pc = "none" /\ store.user = 0
        BY <1>2, <3>1 DEF Retry
      <3>2. CASE ~ (refresh[t][z].pc = "none" /\ store.user = 0)
        BY <1>2, <3>2 DEF Retry, serverVars, ShapeOf
      <3> QED BY <3>1, <3>2
    <2>2. d.pc = "waiting"
      <3>1. c \in CallType
        BY CallIs
      <3> HIDE DEF c, z
      <3> QED BY <3>1 DEF CallType
    <2> HIDE DEF d
    <2>3. CASE call' = [call EXCEPT ![t][s] = d] /\ UNCHANGED <<store, cred>>
      BY <2>2, <2>3, SameValid DEF Calm, StaysIn, ShapeOf
    <2>4. CASE \E Z : GiveUp(t, Z, store)
      BY <2>4, GiveUpCalm DEF StaysIn
    <2> QED BY <2>1, <2>3, <2>4
  <1>3. CASE Refreshed(t, s)
    <2> DEFINE r == refresh[t][s]
               Z == Waiting(t, s)
               st == [store EXCEPT !.user = r.new]
    <2>1. st.admin = store.admin
      BY DEF ShapeOf
    <2>2. CASE r.new = 0
      <3>1. GiveUp(t, Z, st)
        BY <1>3, <2>2 DEF Refreshed
      <3> HIDE DEF Z, st
      <3> QED BY <2>1, <3>1, GiveUpCalm DEF StaysIn
    <2>3. CASE r.new # 0
      <3> DEFINE again(z) == [call[t][z] EXCEPT !.pc = "sent", !.cred = r.new]
      <3>1. /\ store' = st /\ UNCHANGED cred
            /\ call' = [call EXCEPT ![t] = [z \in Slot |-> IF z \in Z THEN again(z) ELSE call[t][z]]]
        BY <1>3, <2>3 DEF Refreshed, serverVars, ShapeOf
      <3>2. \A z \in Slot : again(z).pc = "sent"
        BY CallIs DEF CallType
      <3> HIDE DEF st, Z, again
      <3>3. Calm
        BY <3>1, <3>2 DEF Calm, ShapeOf
      <3> QED BY <2>1, <3>1, <3>3, SameValid DEF StaysIn
    <2> QED BY <2>2, <2>3
  <1> QED BY <1>1, <1>2, <1>3

(* What a step means to the administrator. *)
SignsOut ==
  \E t \in Tab :
    \/ AdminLogout(t)
    \/ \E s \in Slot :
         Fail(t, s) /\ IsAdmin(call[t][s].route) /\ call[t][s].status = 401

LEMMA AdminStep ==
  ASSUME IInv, IInv', AdminAnswers, [Next]_vars
  PROVE  AdminAnswers' /\ (StaysIn \/ SignsOut)
  <1>1. ShapeOf /\ Kept /\ ShapeOf'
    BY ShapeLemma, ShapeLemmaPrimed, KeptLemma DEF IInv
  <1>2. CASE Calm /\ ValidFalls /\ (StaysIn \/ SignsOut)
    BY <1>1, <1>2, CalmLemma
  <1>3. CASE Tick \/ UNCHANGED vars \/ \E n \in DOMAIN cred : Expire(n)
    <2>1. UNCHANGED <<store, call>> /\ (cred' = cred \/ \E n \in DOMAIN cred : Expire(n))
      BY <1>3 DEF Tick, Expire, vars, pageVars, serverVars
    <2> QED BY <1>1, <1>2, <2>1, QuietCalm
  <1>4. ASSUME NEW t \in Tab, AdminLogout(t) \/ LeaveDashboard(t) \/ \E p \in Path : Load(t, p)
        PROVE  Calm /\ ValidFalls /\ (StaysIn \/ SignsOut)
    <2>1. CASE AdminLogout(t)
      <3>1. Calm /\ ValidFalls
        BY <1>1, <2>1, LoadedCalm DEF AdminLogout
      <3> QED BY <2>1, <3>1 DEF SignsOut
    <2>2. CASE LeaveDashboard(t)
      <3>1. UNCHANGED <<store, call>> /\ cred' = cred
        BY <2>2 DEF LeaveDashboard, serverVars
      <3> QED BY <1>1, <3>1, QuietCalm
    <2>3. ASSUME NEW p \in Path, Load(t, p)
          PROVE  Calm /\ ValidFalls /\ StaysIn
      BY <1>1, <2>3, LoadedCalm DEF Load, StaysIn
    <2> QED BY <1>4, <2>1, <2>2, <2>3
  <1>5. ASSUME NEW t \in Tab, NEW s \in Slot,
               \/ \E p \in Path : \E route \in Offered(p), right \in BOOLEAN : Click(t, s, route, right)
               \/ Logout(t, s) \/ Lose(t, s) \/ Exchange(t, s) \/ LoseExchange(t, s)
               \/ Succeed(t, s) \/ Retry(t, s) \/ Refreshed(t, s)
        PROVE  Calm /\ ValidFalls /\ StaysIn
    BY <1>1, <1>5, ClicksCalm, ExchangesCalm, AnswersCalm
  <1>6. ASSUME NEW t \in Tab, NEW s \in Slot, Fail(t, s)
        PROVE  Calm /\ ValidFalls /\ (StaysIn \/ SignsOut)
    <2>1. /\ Calm /\ ValidFalls
          /\ store' = store \/ (IsAdmin(call[t][s].route) /\ call[t][s].status = 401)
      BY <1>1, <1>6, FailCalm
    <2> QED BY <1>6, <2>1 DEF StaysIn, SignsOut
  <1>7. ASSUME NEW t \in Tab, NEW s \in Slot, Respond(t, s)
        PROVE  AdminAnswers' /\ StaysIn
    BY <1>1, <1>7, RespondAdmin DEF Respond, StaysIn
  <1> QED BY <1>2, <1>3, <1>4, <1>5, <1>6, <1>7 DEF Next

(* The panel signs its reader out by the button, for a token that is absent *)
(* or expired, or after a wrong password typed in another tab: never for a  *)
(* control the role does not allow nor for what GeniusPay answers           *)
(* (admin.ts:47-57, geniuspay.service.ts:131-149, roles.guard.ts).          *)
THEOREM AdminStaysSignedIn == Spec => AdminSignedOutByTokenOnly
  <1>1. Init => AdminAnswers
    BY DEF Init, AdminAnswers, NoCall
  <1>2. IInv /\ IInv' /\ AdminAnswers /\ [Next]_vars => AdminAnswers'
    BY AdminStep
  <1>3. IInv /\ IInv' /\ AdminAnswers /\ [Next]_vars =>
          [store.admin # 0 /\ store'.admin = 0 =>
             \E t \in Tab :
               \/ AdminLogout(t)
               \/ \E s \in Slot : LET c == call[t][s] IN
                    /\ c.pc = "answered" /\ c.status # 200 /\ IsAdmin(c.route) /\ call'[t][s] # c
                    /\ IF c.route = "POST:admin/auth/login" THEN ~ c.right
                       ELSE c.cred = 0 \/ ~ cred[c.cred].valid]_vars
    <2> SUFFICES ASSUME IInv, IInv', AdminAnswers, [Next]_vars, store.admin # 0, store'.admin = 0
                 PROVE  \E t \in Tab :
                   \/ AdminLogout(t)
                   \/ \E s \in Slot : LET c == call[t][s] IN
                        /\ c.pc = "answered" /\ c.status # 200 /\ IsAdmin(c.route) /\ call'[t][s] # c
                        /\ IF c.route = "POST:admin/auth/login" THEN ~ c.right
                           ELSE c.cred = 0 \/ ~ cred[c.cred].valid
      OBVIOUS
    <2>1. SignsOut
      BY AdminStep DEF StaysIn
    <2>2. ASSUME NEW t \in Tab, NEW s \in Slot, Fail(t, s), IsAdmin(call[t][s].route),
                 call[t][s].status = 401
          PROVE  LET c == call[t][s] IN
                 /\ c.pc = "answered" /\ c.status # 200 /\ IsAdmin(c.route) /\ call'[t][s] # c
                 /\ IF c.route = "POST:admin/auth/login" THEN ~ c.right
                    ELSE c.cred = 0 \/ ~ cred[c.cred].valid
      <3>1. call[t][s].pc = "answered" /\ call[t][s].status # 200
        BY <2>2 DEF Fail
      <3>2. call'[t][s].pc # "answered"
        BY <2>2, FailCalm, ShapeLemma DEF IInv
      <3>3. Refused(call[t][s])
        BY <2>2, <3>1 DEF AdminAnswers
      <3> QED BY <2>2, <3>1, <3>2, <3>3 DEF Refused
    <2> QED BY <2>1, <2>2 DEF SignsOut
  <1> QED BY <1>1, <1>2, <1>3, BrowserInvariant, PTL DEF Spec, AdminSignedOutByTokenOnly
===============================================================================
