---------------------------- MODULE Webhooks_proofs ----------------------------
(***************************************************************************)
(* Proofs about Webhooks: what holds of the transfers holds with webhooks  *)
(* too, however late, out of order and often they arrive.                  *)
(***************************************************************************)
EXTENDS Webhooks, Transfers_proofs

(* The translation of events is truthful too: an event sent of a payment    *)
(* reads as a status GeniusPay may claim of it, or as none.                 *)
LEMMA EventTrue ==
  ASSUME NEW event \in Event, event # "webhook.test", NEW p \in SentOf(event), p # NoPayment
  PROVE  mapWebhookEventToStatus(event) \in Claims(p) \cup {NoStatus}
BY DEF mapWebhookEventToStatus, Event, SentOf, Claims, GatewayStatus, NoPayment

(* ... and always as a status of ours. *)
LEMMA EventType ==
  ASSUME NEW event
  PROVE  mapWebhookEventToStatus(event) \in Status \cup {NoStatus}
BY DEF mapWebhookEventToStatus, Status

(* Nothing the requests and GeniusPay do takes a claim back.                *)
LEMMA NextClaims ==
  ASSUME IInv, [Next]_vars, NEW t \in Transfer
  PROVE  Claims(pay[t]) \subseteq Claims(pay'[t])
<1>1. TypeOK
  BY DEF IInv
<1>2. CASE UNCHANGED pay
  BY <1>2
<1>3. ASSUME NEW u \in Transfer, GatewayProgress(u)
      PROVE  Claims(pay[t]) \subseteq Claims(pay'[t])
  BY <1>1, <1>3, ClaimsGrow DEF GatewayProgress, TypeOK
<1>4. ASSUME NEW h \in Handler, GatewayAccept(h)
      PROVE  Claims(pay[t]) \subseteq Claims(pay'[t])
  <2>1. pay[task[h].tx] = NoPayment
    BY <1>4 DEF GatewayAccept, At, IInv, InFlight
  <2> QED
    BY <1>1, <1>4, <2>1, ClaimsType DEF GatewayAccept, TypeOK
<1>5. UNCHANGED pay \/ (\E u \in Transfer : GatewayProgress(u)) \/ (\E h \in Handler : GatewayAccept(h))
  BY DEF Next, Step, Request, vars, AddLog, MarkFailed, CreatePersist, NotifyInitiated,
         CancelWrite, GatewayShow, ApplyFind, ApplyWrite, ApplyNotify, GatewayError,
         GatewayShowError, Crash, CreateInsert, CancelRead, SyncRead
<1> QED
  BY <1>2, <1>3, <1>4, <1>5

(* What a step of Transfers may do to the record of a handler: free it, or  *)
(* move it on without touching the delivery it carries, into a state where  *)
(* a webhook is in process only if it was before.                           *)
MovesOn(h) ==
  LET k == task[h]
      n == task'[h] IN
  \/ n = k
  \/ n.hook = NoDelivery /\ n.op # "webhook" /\ n.pc \notin {"store", "mark", "markError"}
  \/ /\ n.hook = k.hook /\ n.op = k.op
     /\ n.pc \notin {"store", "markError"} /\ (n.pc = "mark" => k.op = "webhook")
     /\ k.op = "webhook" => k.pc \in {"find", "write", "log", "tell", "mark", "markError"}

(* Every step of Transfers does no more than that to a handler.             *)
LEMMA NextMovesOn ==
  ASSUME IInv, \A g \in Handler : HookInFlight(g), Next, NEW g \in Handler
  PROVE  MovesOn(g)
<1>1. TypeOK /\ task[g] \in Task /\ InFlight(g) /\ HookInFlight(g)
  BY DEF IInv, TypeOK
<1> DEFINE Ended(h) == /\ task'[h] = Idle
                       /\ \A f \in Handler \ {h} : task'[f] = task[f]
<1>2. ASSUME NEW h \in Handler, Finish(h) PROVE MovesOn(g)
  BY <1>1, <1>2, FinishMoves DEF MovesOn, Idle
<1>3. ASSUME NEW h \in Handler, NEW pc \in Pc \ {"store", "mark", "markError"}, Goto(h, pc),
             task[h].op = "webhook" => task[h].pc \in {"find", "write", "log", "tell"}
      PROVE  MovesOn(g)
  <2>1. /\ task'[h] = [task[h] EXCEPT !.pc = pc]
        /\ \A f \in Handler \ {h} : task'[f] = task[f]
    BY <1>1, <1>3, GotoMoves
  <2>2. task[h] \in Task
    BY <1>1 DEF TypeOK
  <2> QED
    BY <1>3, <2>1, <2>2 DEF MovesOn, Task
<1>4. ASSUME NEW h \in Handler, NEW t \in Transfer, NEW op \in Op \ {"webhook"},
             NEW pc \in Pc \ {"store", "mark", "markError"}, NEW target,
             Begin(h, op, pc, t, target)
      PROVE  MovesOn(g)
  BY <1>1, <1>4 DEF Begin, MovesOn, TypeOK
<1>5. ASSUME NEW h \in Handler, NEW seen, ApplyReturn(h, seen),
             task[h].pc \in {"find", "tell"}
      PROVE  MovesOn(g)
  BY <1>1, <1>2, <1>5 DEF ApplyReturn, Finish, MovesOn, TypeOK, Task, Idle
<1>6. ASSUME NEW h \in Handler, Step(h) PROVE MovesOn(g)
  <2>1. task[h] \in Task /\ InFlight(h)
    BY <1>1 DEF IInv, TypeOK
  <2>2. CASE AddLog(h)
    BY <1>2, <1>3, <2>2 DEF AddLog, At, Pc
  <2>3. CASE GatewayAccept(h)
    BY <1>1, <2>1, <2>3 DEF GatewayAccept, At, MovesOn, InFlight, TypeOK, Task
  <2>4. CASE MarkFailed(h)
    BY <1>1, <2>1, <2>4 DEF MarkFailed, At, MovesOn, InFlight, TypeOK, Task
  <2>5. CASE CreatePersist(h)
    BY <1>3, <2>1, <2>5 DEF CreatePersist, At, InFlight, Pc
  <2>6. CASE NotifyInitiated(h)
    BY <1>2, <2>6 DEF NotifyInitiated
  <2>7. CASE CancelWrite(h)
    BY <1>3, <2>1, <2>7 DEF CancelWrite, At, InFlight, Pc
  <2>8. CASE GatewayShow(h)
    BY <1>1, <2>1, <2>8 DEF GatewayShow, At, MovesOn, InFlight, TypeOK, Task
  <2>9. CASE ApplyFind(h)
    <3>1. CASE task'[h].pc = "write" /\ task' = [task EXCEPT ![h].pc = "write",
                 ![h].seen = row[task[h].tx].status, ![h].completedAt = row[task[h].tx].completedAt]
      BY <1>1, <2>1, <2>9, <3>1 DEF ApplyFind, At, MovesOn, TypeOK, Task
    <3> QED
      BY <1>1, <1>5, <2>1, <2>9, <3>1 DEF ApplyFind, At, TypeOK, Task
  <2>10. CASE ApplyWrite(h)
    BY <1>3, <2>10 DEF ApplyWrite, At, Pc
  <2>11. CASE ApplyNotify(h)
    BY <1>5, <2>11 DEF ApplyNotify, At
  <2> QED
    BY <1>6, <2>2, <2>3, <2>4, <2>5, <2>6, <2>7, <2>8, <2>9, <2>10, <2>11 DEF Step
<1>7. ASSUME NEW h \in Handler, GatewayError(h) PROVE MovesOn(g)
  <2>1. Goto(h, "fail") /\ task[h].op = "create"
    BY <1>7 DEF GatewayError, At, IInv, InFlight
  <2> QED
    BY <1>3, <2>1 DEF Pc
<1>8. ASSUME NEW h \in Handler, GatewayShowError(h) \/ Crash(h) PROVE MovesOn(g)
  BY <1>2, <1>8 DEF GatewayShowError, Crash
<1>9. ASSUME NEW h \in Handler, NEW t \in Transfer, Request(h, t) PROVE MovesOn(g)
  BY <1>4, <1>9 DEF Request, CreateInsert, CancelRead, SyncRead, Op, Pc
<1>10. ASSUME NEW t \in Transfer, GatewayProgress(t) PROVE MovesOn(g)
  BY <1>10 DEF GatewayProgress, MovesOn
<1> QED
  BY <1>6, <1>7, <1>8, <1>9, <1>10 DEF Next

-----------------------------------------------------------------------------
(* The steps of Transfers keep the invariant of the webhooks.               *)
LEMMA NextHookInv ==
  ASSUME HookIInv, [Next]_vars, UNCHANGED hookVars
  PROVE  HookIInv'
<1>1. IInv /\ IInv' /\ TypeOK' /\ UNCHANGED <<wire, hooks, acked>>
  BY NextInv DEF HookIInv, IInv, hookVars
<1>2. HookTypeOK'
  BY <1>1 DEF HookIInv, HookTypeOK
<1>3. \A t \in Transfer : Claims(pay[t]) \subseteq Claims(pay'[t])
  BY <1>1, NextClaims
<1>4. WireTrue'
  BY <1>1, <1>3 DEF HookIInv, WireTrue
<1>5. \A g \in Handler : MovesOn(g) /\ HookInFlight(g)
  <2>1. CASE Next
    BY <1>1, <2>1, NextMovesOn DEF HookIInv
  <2>2. CASE UNCHANGED vars
    BY <2>2 DEF HookIInv, MovesOn, vars
  <2> QED
    BY <2>1, <2>2
<1>6. (\A g \in Handler : HookInFlight(g))'
  <2> SUFFICES ASSUME NEW g \in Handler
               PROVE  HookInFlight(g)'
    OBVIOUS
  <2> QED
    BY <1>3, <1>5 DEF MovesOn, HookInFlight
<1>7. \A g \in Handler, d \in Delivery : InProcess(g, d)' => InProcess(g, d)
  BY <1>5, NoDeliveryAssumption DEF MovesOn, HookInFlight, InProcess
<1>8. OneHandlerPerDelivery'
  BY <1>1, <1>7 DEF HookIInv, OneHandlerPerDelivery
<1> QED
  BY <1>1, <1>2, <1>4, <1>6, <1>8 DEF HookIInv

(* A step of one webhook, which writes at most its own row of webhooks:     *)
(* what it has to show.                                                     *)
LEMMA HookPreserve ==
  ASSUME HookIInv, UNCHANGED <<row, logs, notices, pay, wire>>, NEW h \in Handler,
         task' \in [Handler -> Task], \A g \in Handler \ {h} : task'[g] = task[g],
         InFlight(h)', ~ Creating(h)', HookInFlight(h)',
         hooks' \in [Delivery -> HookRow], acked' \subseteq Delivery,
         NEW d \in Delivery \cup {NoDelivery},
         \A x \in Delivery \ {d} : hooks'[x] = hooks[x],
         \A x \in Delivery : InProcess(h, x)' => x = d /\ hooks'[x].state = "stored",
         \A g \in Handler \ {h} : ~ (d \in Delivery /\ InProcess(g, d))
  PROVE  HookIInv'
<1>1. IInv /\ IInv' /\ TypeOK'
  <2>1. IInv
    BY DEF HookIInv
  <2>2. IInv'
    BY <2>1, QuietInv
  <2> QED
    BY <2>1, <2>2 DEF IInv
<1>2. HookTypeOK' /\ WireTrue'
  BY <1>1 DEF HookIInv, HookTypeOK, WireTrue
<1>3. (\A g \in Handler : HookInFlight(g))'
  BY DEF HookIInv, HookInFlight
<1>4. \A g \in Handler \ {h}, x \in Delivery : InProcess(g, x)' => InProcess(g, x) /\ x # d
  BY DEF InProcess
<1>5. OneHandlerPerDelivery'
  BY <1>4 DEF HookIInv, OneHandlerPerDelivery
<1> QED
  BY <1>1, <1>2, <1>3, <1>5 DEF HookIInv

(* The handler of a webhook ends. *)
LEMMA EndedHook ==
  ASSUME HookIInv, NEW h \in Handler, Finish(h)
  PROVE  /\ task' \in [Handler -> Task] /\ \A g \in Handler \ {h} : task'[g] = task[g]
         /\ InFlight(h)' /\ ~ Creating(h)' /\ HookInFlight(h)'
         /\ \A x \in Delivery : ~ InProcess(h, x)'
<1>1. TypeOK
  BY DEF HookIInv, IInv
<1>2. task' \in [Handler -> Task] /\ task'[h] = Idle
      /\ \A g \in Handler \ {h} : task'[g] = task[g]
  BY <1>1, FinishMoves
<1> QED
  BY <1>2, IdleInFlight DEF Idle, HookInFlight, InProcess

(* One row of webhooks is written, none for a webhook without delivery id.  *)
LEMMA SetHookType ==
  ASSUME HookTypeOK, NEW d \in Delivery \cup {NoDelivery}, NEW state \in HookState,
         NEW link \in Transfer \cup {NoTransfer}, SetHook(d, state, link)
  PROVE  /\ hooks' \in [Delivery -> HookRow]
         /\ \A x \in Delivery \ {d} : hooks'[x] = hooks[x]
         /\ d \in Delivery => hooks'[d].state = state
BY DEF HookTypeOK, SetHook, HookRow

(* GeniusPay sends an event of a payment it is true of. *)
LEMMA GatewaySendInv ==
  ASSUME HookIInv, NEW d \in SentIds, NEW t \in Transfer \cup {NoTransfer},
         NEW event \in SentEvents, GatewaySend(d, t, event)
  PROVE  HookIInv'
<1> DEFINE m == [id |-> d, tx |-> t, event |-> event]
<1>1. /\ UNCHANGED <<vars, hooks, acked>> /\ wire' = wire \cup {m}
      /\ m \in Message /\ event \in Event
  BY SentIdsAssumption, SentEventsAssumption DEF GatewaySend, Message
<1>2. IInv /\ IInv' /\ HookTypeOK'
  <2>1. IInv
    BY DEF HookIInv
  <2>2. IInv'
    BY <1>1, <2>1, NextInv
  <2> QED
    BY <1>1, <2>1, <2>2 DEF HookIInv, HookTypeOK, IInv
<1>3. t \in Transfer => mapWebhookEventToStatus(event) \in Claims(pay[t]) \cup {NoStatus}
  <2> SUFFICES ASSUME t \in Transfer
               PROVE  mapWebhookEventToStatus(event) \in Claims(pay[t]) \cup {NoStatus}
    OBVIOUS
  <2>1. event # "webhook.test" /\ pay[t] \in SentOf(event)
    BY NoTransferAssumption DEF GatewaySend
  <2>2. pay[t] # NoPayment
    BY <1>1, <2>1 DEF SentOf, Event, GatewayStatus, NoPayment
  <2> QED
    BY <1>1, <2>1, <2>2, EventTrue
<1>4. WireTrue'
  BY <1>1, <1>3 DEF HookIInv, WireTrue, vars
<1>5. (\A g \in Handler : HookInFlight(g))' /\ OneHandlerPerDelivery'
  <2>1. (\A g \in Handler : HookInFlight(g))'
    BY <1>1 DEF HookIInv, HookInFlight, vars
  <2>2. OneHandlerPerDelivery'
    BY <1>1 DEF HookIInv, OneHandlerPerDelivery, InProcess, vars
  <2> QED
    BY <2>1, <2>2
<1> QED
  BY <1>2, <1>4, <1>5 DEF HookIInv

(* A duplicate changes nothing but what is answered. *)
LEMMA HookDuplicateInv ==
  ASSUME HookIInv, NEW h \in Handler, NEW m \in wire, HookDuplicate(h, m)
  PROVE  HookIInv'
<1>1. UNCHANGED <<vars, wire, hooks>> /\ acked' = acked \cup ({m.id} \ {NoDelivery})
  BY DEF HookDuplicate, Ack
<1>2. IInv' /\ HookTypeOK'
  <2>1. IInv'
    BY <1>1, NextInv DEF HookIInv
  <2> QED
    BY <1>1, <2>1 DEF HookIInv, HookTypeOK, IInv, Message
<1>3. WireTrue' /\ OneHandlerPerDelivery'
  BY <1>1 DEF HookIInv, WireTrue, OneHandlerPerDelivery, InProcess, vars
<1>4. (\A g \in Handler : HookInFlight(g))'
  BY <1>1 DEF HookIInv, HookInFlight, vars
<1> QED
  BY <1>2, <1>3, <1>4 DEF HookIInv

(* A webhook comes in, and carries what is true of the payment.             *)
LEMMA HookReceiveInv ==
  ASSUME HookIInv, NEW h \in Handler, NEW m \in wire, HookReceive(h, m)
  PROVE  HookIInv'
<1> DEFINE n == [Idle EXCEPT !.op = "webhook", !.pc = "store", !.tx = m.tx, !.hook = m.id,
                             !.target = mapWebhookEventToStatus(m.event)]
<1>1. TypeOK /\ m \in Message /\ hooks \in [Delivery -> HookRow] /\ acked \subseteq Delivery
  BY DEF HookIInv, HookTypeOK
<1>2. /\ UNCHANGED <<row, logs, notices, pay, wire, hooks, acked>>
      /\ task' = [task EXCEPT ![h] = n]
  BY DEF HookReceive, hookVars
<1>3. n.op = "webhook" /\ n.pc = "store" /\ n.tx = m.tx /\ n.target = mapWebhookEventToStatus(m.event)
  BY DEF Idle
<1>4. n \in Task
  <2>1. mapWebhookEventToStatus(m.event) \in Status \cup {NoStatus}
    BY EventType
  <2> QED
    BY <1>1, <2>1 DEF Idle, Task, Op, Pc, Message, NoStatus
<1>5. task' \in [Handler -> Task] /\ task'[h] = n /\ \A g \in Handler \ {h} : task'[g] = task[g]
  BY <1>1, <1>2, <1>4, OneMoves
<1>6. InFlight(h)' /\ ~ Creating(h)' /\ \A x \in Delivery : ~ InProcess(h, x)'
  BY <1>3, <1>5 DEF InFlight, Creating, InProcess
<1>7. HookInFlight(h)'
  <2>1. m.tx \in Transfer => mapWebhookEventToStatus(m.event) \in Claims(pay[m.tx]) \cup {NoStatus}
    BY DEF HookIInv, WireTrue
  <2> QED
    BY <1>2, <1>3, <1>5, <2>1 DEF HookInFlight
<1> QED
  BY <1>1, <1>2, <1>5, <1>6, <1>7, NoDeliveryAssumption, HookPreserve

(* The copy that comes second at the insertion ends. *)
LEMMA HookStoreRefusedInv ==
  ASSUME HookIInv, NEW h \in Handler, HookStoreRefused(h)
  PROVE  HookIInv'
<1>1. UNCHANGED <<row, logs, notices, pay, wire, hooks, acked>> /\ Finish(h)
  BY DEF HookStoreRefused, hookVars
<1>2. hooks \in [Delivery -> HookRow] /\ acked \subseteq Delivery
  BY DEF HookIInv, HookTypeOK
<1> QED
  BY <1>1, <1>2, EndedHook, NoDeliveryAssumption, HookPreserve

(* The insertion decides: the one copy that makes it is the one in process. *)
LEMMA HookStoreInv ==
  ASSUME HookIInv, NEW h \in Handler, HookStore(h)
  PROVE  HookIInv'
<1> DEFINE k == task[h]
<1>1. /\ TypeOK /\ HookTypeOK /\ k \in Task /\ k.pc = "store" /\ ~ Known(k.hook)
      /\ k.op = "webhook" /\ HookInFlight(h) /\ k.hook \in Delivery \cup {NoDelivery}
  BY DEF HookStore, At, HookIInv, HookTypeOK, TypeOK, HookInFlight, Task
<1>2. /\ UNCHANGED <<row, logs, notices, pay, wire, acked>>
      /\ SetHook(k.hook, "stored", NoTransfer)
  BY DEF HookStore
<1>3. /\ hooks' \in [Delivery -> HookRow] /\ acked' \subseteq Delivery
      /\ \A x \in Delivery \ {k.hook} : hooks'[x] = hooks[x]
      /\ k.hook \in Delivery => hooks'[k.hook].state = "stored"
  BY <1>1, <1>2, SetHookType DEF HookTypeOK, HookState
<1>4. \A g \in Handler \ {h} : ~ (k.hook \in Delivery /\ InProcess(g, k.hook))
  BY <1>1, NoDeliveryAssumption DEF HookIInv, OneHandlerPerDelivery, Known
<1>5. CASE Finish(h)
  BY <1>1, <1>2, <1>3, <1>4, <1>5, EndedHook, HookPreserve
<1>6. ASSUME NEW pc \in {"find", "mark"}, Goto(h, pc), pc = "find" => k.tx # NoTransfer
      PROVE  HookIInv'
  <2>1. /\ task' \in [Handler -> Task] /\ task'[h] = [k EXCEPT !.pc = pc]
        /\ \A g \in Handler \ {h} : task'[g] = task[g]
    BY <1>1, <1>6, GotoMoves DEF Pc
  <2>2. /\ task'[h].op = "webhook" /\ task'[h].pc = pc /\ task'[h].tx = k.tx
        /\ task'[h].target = k.target /\ task'[h].hook = k.hook
    BY <1>1, <2>1 DEF Task
  <2>3. InFlight(h)' /\ ~ Creating(h)' /\ HookInFlight(h)'
    <3>1. pc = "find" => k.tx \in Transfer /\ k.target \in Claims(pay[k.tx]) \cup {NoStatus}
      BY <1>1, <1>6 DEF HookInFlight, Task
    <3> QED
      BY <1>2, <1>6, <2>2, <3>1 DEF InFlight, Creating, HookInFlight
  <2>4. \A x \in Delivery : InProcess(h, x)' => x = k.hook /\ hooks'[x].state = "stored"
    BY <1>3, <2>2 DEF InProcess
  <2> QED
    BY <1>1, <1>2, <1>3, <1>4, <2>1, <2>3, <2>4, HookPreserve
<1> QED
  BY <1>5, <1>6 DEF HookStore

(* applyGatewayUpdate throws: the handler is left with its row to close.    *)
LEMMA ApplyThrowsInv ==
  ASSUME HookIInv, NEW h \in Handler, ApplyThrows(h)
  PROVE  HookIInv'
<1> DEFINE k == task[h]
<1>1. /\ TypeOK /\ k \in Task /\ k.op = "webhook" /\ k.pc \in {"find", "write", "log", "tell"}
      /\ k.hook \in Delivery \cup {NoDelivery}
  BY DEF ApplyThrows, HookIInv, HookTypeOK, TypeOK, Task
<1>2. UNCHANGED <<row, logs, notices, pay, wire, hooks, acked>> /\ Goto(h, "markError")
  BY DEF ApplyThrows, hookVars
<1>3. /\ task' \in [Handler -> Task] /\ task'[h] = [k EXCEPT !.pc = "markError"]
      /\ \A g \in Handler \ {h} : task'[g] = task[g]
  BY <1>1, <1>2, GotoMoves DEF Pc
<1>4. task'[h].op = "webhook" /\ task'[h].pc = "markError" /\ task'[h].hook = k.hook
      /\ task'[h].target = k.target
  BY <1>1, <1>3 DEF Task
<1>5. InFlight(h)' /\ ~ Creating(h)' /\ HookInFlight(h)'
  BY <1>4 DEF InFlight, Creating, HookInFlight
<1>6. \A x \in Delivery : InProcess(h, x)' => InProcess(h, x) /\ x = k.hook
  BY <1>1, <1>4 DEF InProcess
<1>7. \A x \in Delivery : InProcess(h, x)' => x = k.hook /\ hooks'[x].state = "stored"
  BY <1>2, <1>6 DEF HookIInv, OneHandlerPerDelivery
<1>8. \A g \in Handler \ {h} : ~ (k.hook \in Delivery /\ InProcess(g, k.hook))
  BY <1>1 DEF HookIInv, OneHandlerPerDelivery, InProcess
<1>9. hooks \in [Delivery -> HookRow] /\ acked \subseteq Delivery
  BY DEF HookIInv, HookTypeOK
<1> QED
  BY <1>1, <1>2, <1>3, <1>5, <1>7, <1>8, <1>9, HookPreserve

(* The row of webhooks is closed by the handler that was in process.        *)
LEMMA HookCloseInv ==
  ASSUME HookIInv, NEW h \in Handler, HookMark(h) \/ HookMarkError(h)
  PROVE  HookIInv'
<1> DEFINE k == task[h]
<1>1. /\ TypeOK /\ HookTypeOK /\ k \in Task /\ k.pc \in {"mark", "markError"}
      /\ k.hook \in Delivery \cup {NoDelivery} /\ k.tx \in Transfer \cup {NoTransfer}
  BY DEF HookMark, HookMarkError, At, HookIInv, HookTypeOK, TypeOK, Task
<1>2. /\ UNCHANGED <<row, logs, notices, pay, wire>> /\ Finish(h)
      /\ acked' = acked \cup ({k.hook} \ {NoDelivery})
  BY DEF HookMark, HookMarkError, Ack
<1>3. PICK state \in HookState, link \in Transfer \cup {NoTransfer} :
        SetHook(k.hook, state, link)
  BY <1>1 DEF HookMark, HookMarkError, HookState
<1>4. /\ hooks' \in [Delivery -> HookRow] /\ acked' \subseteq Delivery
      /\ \A x \in Delivery \ {k.hook} : hooks'[x] = hooks[x]
  BY <1>1, <1>2, <1>3, SetHookType DEF HookTypeOK
<1>5. \A g \in Handler \ {h} : ~ (k.hook \in Delivery /\ InProcess(g, k.hook))
  BY <1>1 DEF HookIInv, OneHandlerPerDelivery, InProcess
<1> QED
  BY <1>1, <1>2, <1>4, <1>5, EndedHook, HookPreserve

-----------------------------------------------------------------------------
(* The invariant holds initially. *)
LEMMA HookInitInv == HookInit => HookIInv
<1> SUFFICES ASSUME HookInit PROVE HookIInv
  OBVIOUS
<1>1. IInv /\ TypeOK
  BY InitInv DEF HookInit, IInv
<1>2. HookTypeOK /\ WireTrue
  BY <1>1 DEF HookInit, HookTypeOK, WireTrue, HookRow, HookState
<1>3. OneHandlerPerDelivery /\ \A h \in Handler : HookInFlight(h)
  BY DEF HookInit, Init, OneHandlerPerDelivery, InProcess, HookInFlight, Idle
<1> QED
  BY <1>1, <1>2, <1>3 DEF HookIInv

(* Every step keeps it. *)
LEMMA HookNextInv == HookIInv /\ [HookNext]_allVars => HookIInv'
<1> SUFFICES ASSUME HookIInv, [HookNext]_allVars PROVE HookIInv'
  OBVIOUS
<1>1. CASE Next /\ UNCHANGED hookVars
  BY <1>1, NextHookInv
<1>2. CASE UNCHANGED allVars
  BY <1>2, NextHookInv DEF allVars
<1>3. ASSUME NEW h \in Handler, HookStep(h) \/ ApplyThrows(h) PROVE HookIInv'
  BY <1>3, HookStoreRefusedInv, HookStoreInv, HookCloseInv, ApplyThrowsInv DEF HookStep
<1>4. ASSUME NEW h \in Handler, NEW m \in wire, HookReceive(h, m) \/ HookDuplicate(h, m)
      PROVE  HookIInv'
  BY <1>4, HookReceiveInv, HookDuplicateInv
<1>5. ASSUME NEW d \in SentIds, NEW t \in Transfer \cup {NoTransfer}, NEW event \in SentEvents,
             GatewaySend(d, t, event)
      PROVE  HookIInv'
  BY <1>5, GatewaySendInv
<1> QED
  BY <1>1, <1>2, <1>3, <1>4, <1>5 DEF HookNext

(* With the webhooks too, every reachable state satisfies the inductive     *)
(* invariant of the transfers and that of the webhooks: a row shows only    *)
(* what GeniusPay gave its payment, and nothing false is told or logged,    *)
(* in whatever order and however often the messages arrive.                 *)
(* (handleIncoming, process, applyGatewayUpdate)                            *)
THEOREM HookInvariantHolds == HookSpec => []HookIInv
BY HookInitInv, HookNextInv, PTL DEF HookSpec

(* Two copies of a delivery never go through applyGatewayUpdate both, be    *)
(* they received at the same instant: the unique delivery_id decides.       *)
(* (handleIncoming, store)                                                  *)
THEOREM NoDeliveryTwice == HookSpec => []OneHandlerPerDelivery
<1>1. HookIInv => OneHandlerPerDelivery
  BY DEF HookIInv
<1> QED
  BY <1>1, HookInvariantHolds, PTL

(* Beside the webhooks too, a terminal status gives way only to a refund or *)
(* to a handler whose look at the row is older than that end: no webhook,   *)
(* however late, revives a transfer it found ended.                         *)
(* (process, cancel, applyGatewayUpdate)                                    *)
THEOREM OnlyLateWebhooksCanRevive == HookSpec => OnlyLateWritersRevive
<1> DEFINE A == \A t \in Transfer :
                  isTerminal(row[t].status) /\ row'[t].status # row[t].status =>
                    \/ row'[t].status = "REFUNDED"
                    \/ \E h \in Handler : task[h].tx = t /\ Late(h) /\ task'[h] # task[h]
<1>1. HookIInv /\ [HookNext]_allVars => A
  <2> SUFFICES ASSUME HookIInv, [HookNext]_allVars
               PROVE  A
    OBVIOUS
  <2>1. Next \/ UNCHANGED row
    BY DEF HookNext, allVars, vars, HookStep, HookStoreRefused, HookStore, HookMark,
           HookMarkError, ApplyThrows, HookReceive, HookDuplicate, GatewaySend
  <2>2. IInv
    BY DEF HookIInv
  <2>3. CASE Next
    BY <2>2, <2>3, LateSteps
  <2>4. CASE UNCHANGED row
    BY <2>4
  <2> QED
    BY <2>1, <2>3, <2>4
<1>2. [HookNext]_allVars /\ A => [A]_vars
  OBVIOUS
<1> QED
  BY <1>1, <1>2, HookInvariantHolds, PTL DEF HookSpec, OnlyLateWritersRevive
=============================================================================
