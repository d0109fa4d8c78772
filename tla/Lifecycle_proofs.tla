--------------------------- MODULE Lifecycle_proofs ---------------------------
(***************************************************************************)
(* What a transfer goes through, webhooks included: the journal explains   *)
(* every row when no request fails half-way, and as long as the requests   *)
(* on one transfer do not overlap the service implements the lifecycle of  *)
(* TransferLifecycle, tells each event once, keeps the completion date and *)
(* applies what it marks processed.  Requests on different transfers still *)
(* interleave at will, crashes included.                                   *)
(***************************************************************************)
EXTENDS Webhooks_proofs

-----------------------------------------------------------------------------
(* What a step does to the tables and to the record of the handler h that   *)
(* takes it, told by its effect: one operator per kind of step.             *)

(* Row t becomes r, and no other row changes. *)
Writes(t, r) == row'[t] = r /\ \A u \in Transfer \ {t} : row'[u] = row[u]

(* The sender of t is told of event once more. *)
Counts(t, event) ==
  /\ \A u \in Transfer, e \in NoticeEvent : notices'[u][e] = notices[u][e] \/ (u = t /\ e = event)
  /\ notices[t][event] = 0 => notices'[t][event] = 1

Goes(h, pc) == task'[h] = [task[h] EXCEPT !.pc = pc]

Returns(h, seen) ==
  task'[h] = IF task[h].op = "webhook" THEN [task[h] EXCEPT !.pc = "mark", !.seen = seen] ELSE Idle

(* A new request. *)
Inserts(h) ==
  \E t \in Transfer :
    /\ At(h, "idle")
    /\ row[t].status = NoStatus /\ Writes(t, [row[t] EXCEPT !.status = "PENDING"])
    /\ task'[h] = [op |-> "create", pc |-> "log", tx |-> t, seen |-> NoStatus,
                   completedAt |-> row[t].completedAt, target |-> "PENDING", hook |-> NoDelivery]
    /\ UNCHANGED <<logs, notices, pay>>

Reads(h) ==
  \E t \in Transfer, op \in {"cancel", "sync"}, pc \in {"cancel", "get"},
     target \in {"CANCELLED", NoStatus} :
    /\ At(h, "idle")
    /\ \/ op = "cancel" /\ pc = "cancel" /\ Exists(t) /\ ~ isTerminal(row[t].status)
       \/ op = "sync" /\ pc = "get"
    /\ task'[h] = [op |-> op, pc |-> pc, tx |-> t, seen |-> row[t].status,
                   completedAt |-> row[t].completedAt, target |-> target, hook |-> NoDelivery]
    /\ UNCHANGED <<row, logs, notices, pay>>

Receives(h) ==
  \E m \in wire :
    /\ At(h, "idle")
    /\ task'[h].op = "webhook" /\ task'[h].pc = "store" /\ task'[h].tx = m.tx
    /\ task'[h].seen = NoStatus /\ task'[h].hook = m.id
    /\ task'[h].target = mapWebhookEventToStatus(m.event)
    /\ UNCHANGED <<row, logs, notices, pay>>

(* The steps of a request under way. *)
Logs(h) ==
  LET k == task[h] IN
  /\ k.pc = "log"
  /\ logs' = [logs EXCEPT ![k.tx] = @ \cup {[from |-> k.seen, to |-> k.target, source |-> k.op]}]
  /\ \/ k.op = "create" /\ k.target = "PENDING" /\ Goes(h, "call")
     \/ k.op \in {"create", "cancel"} /\ task'[h] = Idle
     \/ k.op \in {"sync", "webhook"} /\ Goes(h, "tell")
  /\ UNCHANGED <<row, notices, pay>>

Accepts(h) ==
  LET k == task[h] IN
  /\ k.pc = "call"
  /\ \E s \in PostAnswers :
       /\ pay' = [pay EXCEPT ![k.tx] = s]
       /\ task'[h] = [k EXCEPT !.pc = "answer", !.target = mapGeniusPayStatus(s)]
  /\ UNCHANGED <<row, logs, notices>>

Errs(h) ==
  /\ task[h].pc \in {"call", "answer"} /\ Goes(h, "fail")
  /\ UNCHANGED <<row, logs, notices, pay>>

Fails(h) ==
  LET k == task[h] IN
  /\ k.pc = "fail" /\ Writes(k.tx, [row[k.tx] EXCEPT !.status = "FAILED"])
  /\ task'[h] = [k EXCEPT !.pc = "log", !.seen = "PENDING", !.target = "FAILED"]
  /\ UNCHANGED <<logs, notices, pay>>

Persists(h) ==
  LET k == task[h] IN
  /\ k.pc = "answer" /\ Goes(h, "tell")
  /\ Writes(k.tx, [row[k.tx] EXCEPT !.status = k.target, !.ref = TRUE])
  /\ UNCHANGED <<logs, notices, pay>>

Announces(h) ==
  /\ task[h].pc = "tell" /\ task[h].op = "create" /\ task'[h] = Idle
  /\ Counts(task[h].tx, "payment.initiated")
  /\ UNCHANGED <<row, logs, pay>>

Cancels(h) ==
  LET k == task[h] IN
  /\ k.pc = "cancel" /\ Goes(h, "log")
  /\ Writes(k.tx, [row[k.tx] EXCEPT !.status = "CANCELLED"])
  /\ UNCHANGED <<logs, notices, pay>>

Shows(h) ==
  /\ task[h].pc = "get"
  /\ task'[h] = [task[h] EXCEPT !.pc = "find", !.target = mapGeniusPayStatus(pay[task[h].tx])]
  /\ UNCHANGED <<row, logs, notices, pay>>

Finds(h) ==
  LET k == task[h]
      r == row[k.tx] IN
  /\ k.pc = "find" /\ r.ref /\ Applicable(r.status, k.target)
  /\ task'[h] = [k EXCEPT !.pc = "write", !.seen = r.status, !.completedAt = r.completedAt]
  /\ UNCHANGED <<row, logs, notices, pay>>

Declines(h) ==
  LET k == task[h]
      r == row[k.tx] IN
  /\ k.pc = "find"
  /\ \/ Returns(h, NoStatus)
     \/ ~ Applicable(r.status, k.target) /\ Returns(h, r.status)
  /\ UNCHANGED <<row, logs, notices, pay>>

Applies(h) ==
  LET k == task[h] IN
  /\ k.pc = "write" /\ Goes(h, "log")
  /\ Writes(k.tx, [row[k.tx] EXCEPT !.status = k.target,
                                    !.completedAt = (k.target = "COMPLETED") \/ k.completedAt])
  /\ UNCHANGED <<logs, notices, pay>>

Notifies(h) ==
  LET k == task[h] IN
  /\ k.pc = "tell" /\ k.op # "create" /\ Returns(h, k.seen)
  /\ \/ NoticeOf(k.target) = NoStatus /\ UNCHANGED notices
     \/ NoticeOf(k.target) # NoStatus /\ Counts(k.tx, NoticeOf(k.target))
  /\ UNCHANGED <<row, logs, pay>>

(* A request that ends with nothing to write, or is cut short.              *)
Ends(h) ==
  /\ task'[h] = Idle
  /\ "crash" \in Faults \/ task[h].pc \in {"get", "find", "store", "mark", "markError"}
  /\ UNCHANGED <<row, logs, notices, pay>>

Stores(h) ==
  /\ task[h].pc = "store"
  /\ \/ task[h].tx = NoTransfer /\ Goes(h, "mark")
     \/ task[h].tx # NoTransfer /\ Goes(h, "find")
  /\ UNCHANGED <<row, logs, notices, pay>>

Throws(h) ==
  /\ "crash" \in Faults
  /\ task[h].op = "webhook" /\ Goes(h, "markError")
  /\ UNCHANGED <<row, logs, notices, pay>>

Progresses ==
  /\ \E t \in Transfer, s \in GatewayStatus : s \in GatewayMoves(pay[t]) /\ pay' = [pay EXCEPT ![t] = s]
  /\ UNCHANGED <<row, logs, notices, task>>

(* The others stay where they are. *)
Acts(h) ==
  /\ task' \in [Handler -> Task]
  /\ \A g \in Handler \ {h} : task'[g] = task[g]
  /\ \/ Inserts(h) \/ Reads(h) \/ Receives(h) \/ Logs(h) \/ Accepts(h) \/ Errs(h) \/ Fails(h)
     \/ Persists(h) \/ Announces(h) \/ Cancels(h) \/ Shows(h) \/ Finds(h) \/ Declines(h)
     \/ Applies(h) \/ Notifies(h) \/ Ends(h) \/ Stores(h) \/ Throws(h)

-----------------------------------------------------------------------------
(* One counter up, by one unless it is at its cap. *)
LEMMA TellIsCounts ==
  ASSUME TypeOK, NEW t \in Transfer, NEW event \in NoticeEvent, Tell(t, event)
  PROVE  Counts(t, event)
<1>1. \A u \in Transfer, e \in NoticeEvent : notices'[u][e] = notices[u][e] \/ (u = t /\ e = event)
  BY TellCounts
<1>2. notices[t][event] = 0 => notices'[t][event] = 1
  BY DEF TypeOK, Tell, NoticeCap
<1> QED
  BY <1>1, <1>2 DEF Counts

(* One row written. *)
LEMMA RowWrites ==
  ASSUME TypeOK, NEW t \in Transfer, NEW r, row' = [row EXCEPT ![t] = r]
  PROVE  Writes(t, r)
BY DEF TypeOK, Writes

(* applyGatewayUpdate returns to the one that called it. *)
LEMMA ReturnMoves ==
  ASSUME TypeOK, NEW h \in Handler, NEW seen \in Status \cup {NoStatus}, ApplyReturn(h, seen)
  PROVE  /\ task' \in [Handler -> Task]
         /\ \A g \in Handler \ {h} : task'[g] = task[g]
         /\ Returns(h, seen)
<1> DEFINE k == task[h]
           n == IF k.op = "webhook" THEN [k EXCEPT !.pc = "mark", !.seen = seen] ELSE Idle
<1>1. n \in Task
  BY IdleType DEF TypeOK, Task, Pc
<1>2. task' = [task EXCEPT ![h] = n]
  BY DEF ApplyReturn
<1> QED
  BY <1>1, <1>2, OneMoves DEF Returns

(* Every step of a request, with its error paths, is one of the kinds.      *)
LEMMA StepEffects ==
  ASSUME IInv, NEW h \in Handler, Step(h) \/ GatewayError(h) \/ GatewayShowError(h) \/ Crash(h)
  PROVE  Acts(h)
<1> DEFINE k == task[h]
           t == k.tx
<1>1. TypeOK /\ k \in Task /\ InFlight(h)
  BY DEF IInv, TypeOK
<1>2. ASSUME NEW pc \in Pc, Goto(h, pc)
      PROVE  /\ task' \in [Handler -> Task] /\ Goes(h, pc)
             /\ \A g \in Handler \ {h} : task'[g] = task[g]
  BY <1>1, <1>2, GotoMoves DEF Goes
<1>3. ASSUME Finish(h)
      PROVE  /\ task' \in [Handler -> Task] /\ task'[h] = Idle
             /\ \A g \in Handler \ {h} : task'[g] = task[g]
  BY <1>1, <1>3, FinishMoves
<1>4. ASSUME NEW n \in Task, task' = [task EXCEPT ![h] = n]
      PROVE  /\ task' \in [Handler -> Task] /\ task'[h] = n
             /\ \A g \in Handler \ {h} : task'[g] = task[g]
  BY <1>1, <1>4, OneMoves
<1>5. CASE AddLog(h)
  <2>1. k.pc = "log" /\ UNCHANGED <<row, notices, pay>>
        /\ logs' = [logs EXCEPT ![t] = @ \cup {[from |-> k.seen, to |-> k.target, source |-> k.op]}]
    BY <1>5 DEF AddLog, At
  <2>2. CASE k.op = "create" /\ k.target = "PENDING" /\ Goto(h, "call")
    BY <1>2, <2>1, <2>2 DEF Acts, Logs, Pc
  <2>3. CASE k.op \in {"create", "cancel"} /\ Finish(h)
    BY <1>3, <2>1, <2>3 DEF Acts, Logs
  <2>4. CASE k.op \in {"sync", "webhook"} /\ Goto(h, "tell")
    BY <1>2, <2>1, <2>4 DEF Acts, Logs, Pc
  <2> QED
    BY <1>5, <2>2, <2>3, <2>4 DEF AddLog
<1>6. CASE GatewayAccept(h)
  <2>1. PICK s \in PostAnswers :
          /\ pay' = [pay EXCEPT ![t] = s]
          /\ task' = [task EXCEPT ![h].pc = "answer", ![h].target = mapGeniusPayStatus(s)]
    BY <1>6 DEF GatewayAccept
  <2> DEFINE n == [k EXCEPT !.pc = "answer", !.target = mapGeniusPayStatus(s)]
  <2>2. mapGeniusPayStatus(s) \in Status
    BY MapTrue, PostAnswersAssumption
  <2>3. n \in Task /\ task' = [task EXCEPT ![h] = n]
    BY <1>1, <2>1, <2>2 DEF Task, Pc
  <2> QED
    BY <1>4, <1>6, <2>1, <2>3 DEF Acts, Accepts, GatewayAccept, At
<1>7. CASE GatewayError(h)
  BY <1>2, <1>7 DEF GatewayError, At, Acts, Errs, Pc
<1>8. CASE MarkFailed(h)
  <2> DEFINE n == [k EXCEPT !.pc = "log", !.seen = "PENDING", !.target = "FAILED"]
             r == [row[t] EXCEPT !.status = "FAILED"]
  <2>1. k.pc = "fail" /\ t \in Transfer /\ UNCHANGED <<logs, notices, pay>>
        /\ row' = [row EXCEPT ![t] = r] /\ task' = [task EXCEPT ![h] = n]
    BY <1>1, <1>8 DEF MarkFailed, At, InFlight
  <2>2. n \in Task
    BY <1>1 DEF Task, Pc, Status
  <2>3. Writes(t, r)
    BY <1>1, <2>1, RowWrites
  <2> QED
    BY <1>4, <2>1, <2>2, <2>3 DEF Acts, Fails
<1>9. CASE CreatePersist(h)
  <2> DEFINE r == [row[t] EXCEPT !.status = k.target, !.ref = TRUE]
  <2>1. k.pc = "answer" /\ t \in Transfer /\ UNCHANGED <<logs, notices, pay>>
        /\ row' = [row EXCEPT ![t] = r] /\ Goto(h, "tell")
    BY <1>1, <1>9 DEF CreatePersist, At, InFlight
  <2>2. Writes(t, r)
    BY <1>1, <2>1, RowWrites
  <2> QED
    BY <1>2, <2>1, <2>2 DEF Acts, Persists, Pc
<1>10. CASE NotifyInitiated(h)
  <2>1. k.pc = "tell" /\ k.op = "create" /\ t \in Transfer /\ UNCHANGED <<row, logs, pay>>
        /\ Tell(t, "payment.initiated") /\ Finish(h)
    BY <1>1, <1>10 DEF NotifyInitiated, At, InFlight
  <2>2. Counts(t, "payment.initiated")
    BY <1>1, <2>1, TellIsCounts DEF NoticeEvent
  <2> QED
    BY <1>3, <2>1, <2>2 DEF Acts, Announces
<1>11. CASE CancelWrite(h)
  <2> DEFINE r == [row[t] EXCEPT !.status = "CANCELLED"]
  <2>1. k.pc = "cancel" /\ t \in Transfer /\ UNCHANGED <<logs, notices, pay>>
        /\ row' = [row EXCEPT ![t] = r] /\ Goto(h, "log")
    BY <1>1, <1>11 DEF CancelWrite, At, InFlight
  <2>2. Writes(t, r)
    BY <1>1, <2>1, RowWrites
  <2> QED
    BY <1>2, <2>1, <2>2 DEF Acts, Cancels, Pc
<1>12. CASE GatewayShow(h)
  <2> DEFINE n == [k EXCEPT !.pc = "find", !.target = mapGeniusPayStatus(pay[t])]
  <2>1. k.pc = "get" /\ UNCHANGED <<row, logs, notices, pay>> /\ task' = [task EXCEPT ![h] = n]
    BY <1>12 DEF GatewayShow, At
  <2>2. pay[t] \in GatewayStatus
    BY <1>1, <2>1 DEF InFlight, IInv, Bound, TypeOK
  <2>3. n \in Task
    BY <1>1, <2>2, MapTrue DEF Task, Pc
  <2> QED
    BY <1>4, <2>1, <2>3 DEF Acts, Shows
<1>13. CASE ApplyFind(h)
  <2> DEFINE r == row[t]
             n == [k EXCEPT !.pc = "write", !.seen = r.status, !.completedAt = r.completedAt]
  <2>1. k.pc = "find" /\ t \in Transfer /\ r \in Row /\ UNCHANGED <<row, logs, notices, pay>>
    BY <1>1, <1>13 DEF ApplyFind, At, InFlight, TypeOK
  <2>2. r.status \in Status \cup {NoStatus} /\ n \in Task
    BY <1>1, <2>1 DEF Row, Task, Pc
  <2>3. CASE ApplyReturn(h, NoStatus)
    BY <1>1, <2>1, <2>3, ReturnMoves DEF Acts, Declines
  <2>4. CASE ~ Applicable(r.status, k.target) /\ ApplyReturn(h, r.status)
    BY <1>1, <2>1, <2>2, <2>4, ReturnMoves DEF Acts, Declines
  <2>5. CASE r.ref /\ Applicable(r.status, k.target) /\ task' = [task EXCEPT ![h] = n]
    BY <1>4, <2>1, <2>2, <2>5 DEF Acts, Finds
  <2> QED
    BY <1>13, <2>3, <2>4, <2>5 DEF ApplyFind
<1>14. CASE ApplyWrite(h)
  <2> DEFINE r == [row[t] EXCEPT !.status = k.target,
                                 !.completedAt = (k.target = "COMPLETED") \/ k.completedAt]
  <2>1. k.pc = "write" /\ t \in Transfer /\ UNCHANGED <<logs, notices, pay>>
        /\ row' = [row EXCEPT ![t] = r] /\ Goto(h, "log")
    BY <1>1, <1>14 DEF ApplyWrite, At, InFlight
  <2>2. Writes(t, r)
    BY <1>1, <2>1, RowWrites
  <2> QED
    BY <1>2, <2>1, <2>2 DEF Acts, Applies, Pc
<1>15. CASE ApplyNotify(h)
  <2> DEFINE event == NoticeOf(k.target)
  <2>1. /\ k.pc = "tell" /\ k.op # "create" /\ t \in Transfer /\ UNCHANGED <<row, logs, pay>>
        /\ k.seen \in Status \cup {NoStatus} /\ ApplyReturn(h, k.seen)
    BY <1>1, <1>15 DEF ApplyNotify, At, InFlight, Task
  <2>2. /\ task' \in [Handler -> Task] /\ Returns(h, k.seen)
        /\ \A g \in Handler \ {h} : task'[g] = task[g]
    BY <1>1, <2>1, ReturnMoves
  <2>3. \/ event = NoStatus /\ UNCHANGED notices
        \/ event # NoStatus /\ Counts(t, event)
    <3>1. CASE event = NoStatus
      BY <1>15, <3>1 DEF ApplyNotify
    <3>2. CASE event # NoStatus
      <4>1. event \in NoticeEvent /\ Tell(t, event)
        BY <1>15, <3>2 DEF ApplyNotify, NoticeOf, NoticeEvent, NoStatus
      <4> QED
        BY <1>1, <2>1, <3>2, <4>1, TellIsCounts
    <3> QED
      BY <3>1, <3>2
  <2> QED
    BY <2>1, <2>2, <2>3 DEF Acts, Notifies
<1>16. CASE GatewayShowError(h) \/ Crash(h)
  BY <1>3, <1>16 DEF GatewayShowError, Crash, At, Acts, Ends
<1> QED
  BY <1>5, <1>6, <1>7, <1>8, <1>9, <1>10, <1>11, <1>12, <1>13, <1>14, <1>15, <1>16 DEF Step

(* So is the arrival of a request. *)
LEMMA RequestEffects ==
  ASSUME IInv, NEW h \in Handler, NEW t \in Transfer, Request(h, t)
  PROVE  Acts(h)
<1> DEFINE n(op, pc, target) == [op |-> op, pc |-> pc, tx |-> t, seen |-> row[t].status,
                                 completedAt |-> row[t].completedAt, target |-> target,
                                 hook |-> NoDelivery]
<1>1. TypeOK /\ row[t] \in Row
  BY DEF IInv, TypeOK
<1>2. ASSUME NEW op \in Op, NEW pc \in Pc, NEW target \in Status \cup {NoStatus},
             Begin(h, op, pc, t, target)
      PROVE  /\ task' \in [Handler -> Task] /\ task'[h] = n(op, pc, target)
             /\ \A g \in Handler \ {h} : task'[g] = task[g]
  <2>1. n(op, pc, target) \in Task /\ task' = [task EXCEPT ![h] = n(op, pc, target)]
    BY <1>1, <1>2 DEF Begin, Task, Row
  <2> QED
    BY <1>1, <2>1, OneMoves
<1>3. CASE CreateInsert(h, t)
  <2> DEFINE r == [row[t] EXCEPT !.status = "PENDING"]
  <2>1. At(h, "idle") /\ row[t].status = NoStatus /\ UNCHANGED <<logs, notices, pay>>
        /\ row' = [row EXCEPT ![t] = r] /\ Begin(h, "create", "log", t, "PENDING")
    BY <1>3 DEF CreateInsert, Exists, Begin
  <2>2. Writes(t, r)
    BY <1>1, <2>1, RowWrites
  <2>3. task'[h] = n("create", "log", "PENDING") /\ task' \in [Handler -> Task]
        /\ row[t].status = NoStatus /\ \A g \in Handler \ {h} : task'[g] = task[g]
    BY <1>2, <2>1 DEF Op, Pc, Status
  <2> QED
    BY <2>1, <2>2, <2>3 DEF Acts, Inserts
<1>4. CASE CancelRead(h, t)
  <2>1. /\ At(h, "idle") /\ Exists(t) /\ ~ isTerminal(row[t].status) /\ UNCHANGED <<row, logs, notices, pay>>
        /\ Begin(h, "cancel", "cancel", t, "CANCELLED")
    BY <1>4 DEF CancelRead, Begin
  <2>2. /\ task' \in [Handler -> Task] /\ task'[h] = n("cancel", "cancel", "CANCELLED")
        /\ \A g \in Handler \ {h} : task'[g] = task[g]
    BY <1>2, <2>1 DEF Op, Pc, Status
  <2>3. Reads(h)
    BY <2>1, <2>2 DEF Reads
  <2> QED
    BY <2>2, <2>3 DEF Acts
<1>5. CASE SyncRead(h, t)
  <2>1. At(h, "idle") /\ UNCHANGED <<row, logs, notices, pay>> /\ Begin(h, "sync", "get", t, NoStatus)
    BY <1>5 DEF SyncRead, Begin
  <2>2. /\ task' \in [Handler -> Task] /\ task'[h] = n("sync", "get", NoStatus)
        /\ \A g \in Handler \ {h} : task'[g] = task[g]
    BY <1>2, <2>1 DEF Op, Pc
  <2>3. Reads(h)
    BY <2>1, <2>2 DEF Reads
  <2> QED
    BY <2>2, <2>3 DEF Acts
<1> QED
  BY <1>3, <1>4, <1>5 DEF Request

(* So is the arrival of a webhook. *)
LEMMA ReceiveEffects ==
  ASSUME HookIInv, NEW h \in Handler, NEW m \in wire, HookReceive(h, m)
  PROVE  Acts(h)
<1> DEFINE n == [Idle EXCEPT !.op = "webhook", !.pc = "store", !.tx = m.tx, !.hook = m.id,
                             !.target = mapWebhookEventToStatus(m.event)]
<1>1. /\ n.op = "webhook" /\ n.pc = "store" /\ n.tx = m.tx /\ n.seen = NoStatus
      /\ n.hook = m.id /\ n.target = mapWebhookEventToStatus(m.event)
  BY DEF Idle
<1>2. TypeOK /\ m \in Message
  BY DEF HookIInv, HookTypeOK
<1>3. n \in Task
  BY <1>2, EventType DEF Idle, Task, Op, Pc, Message, NoStatus
<1>4. /\ At(h, "idle") /\ task' = [task EXCEPT ![h] = n]
      /\ UNCHANGED <<row, logs, notices, pay>>
  BY DEF HookReceive, hookVars
<1>5. /\ task' \in [Handler -> Task] /\ task'[h] = n
      /\ \A g \in Handler \ {h} : task'[g] = task[g]
  BY <1>2, <1>3, <1>4, OneMoves
<1> HIDE DEF n
<1> QED
  BY <1>1, <1>4, <1>5 DEF Acts, Receives

(* So are its other steps. *)
LEMMA HookEffects ==
  ASSUME HookIInv, NEW h \in Handler,
         HookStep(h) \/ ApplyThrows(h) \/ \E m \in wire : HookReceive(h, m)
  PROVE  Acts(h)
<1> DEFINE k == task[h]
<1>1. TypeOK /\ k \in Task /\ HookInFlight(h) /\ wire \subseteq Message
  BY DEF HookIInv, HookTypeOK, TypeOK
<1>2. ASSUME NEW pc \in Pc, Goto(h, pc)
      PROVE  /\ task' \in [Handler -> Task] /\ Goes(h, pc)
             /\ \A g \in Handler \ {h} : task'[g] = task[g]
  BY <1>1, <1>2, GotoMoves DEF Goes
<1>3. ASSUME Finish(h)
      PROVE  /\ task' \in [Handler -> Task] /\ task'[h] = Idle
             /\ \A g \in Handler \ {h} : task'[g] = task[g]
  BY <1>1, <1>3, FinishMoves
<1>4. CASE HookStoreRefused(h) \/ HookMark(h) \/ HookMarkError(h)
  BY <1>3, <1>4 DEF HookStoreRefused, HookMark, HookMarkError, At, Acts, Ends
<1>5. CASE HookStore(h)
  <2>1. k.pc = "store" /\ UNCHANGED <<row, logs, notices, pay>>
    BY <1>5 DEF HookStore, At
  <2>2. CASE Finish(h)
    BY <1>3, <2>1, <2>2 DEF Acts, Ends
  <2>3. CASE Goto(h, IF k.tx = NoTransfer THEN "mark" ELSE "find")
    <3>1. CASE k.tx = NoTransfer
      BY <1>2, <2>1, <2>3, <3>1 DEF Acts, Stores, Pc
    <3>2. CASE k.tx # NoTransfer
      BY <1>2, <2>1, <2>3, <3>2 DEF Acts, Stores, Pc
    <3> QED
      BY <3>1, <3>2
  <2> QED
    BY <1>5, <2>2, <2>3 DEF HookStore
<1>6. CASE ApplyThrows(h)
  BY <1>2, <1>6 DEF ApplyThrows, Acts, Throws, Pc
<1> QED
  BY <1>4, <1>5, <1>6, ReceiveEffects DEF HookStep

(* Every step of the service is one of these, a move of the payment inside  *)
(* GeniusPay, or one that leaves the transfers and the handlers alone.      *)
LEMMA Effects ==
  ASSUME HookIInv, [HookNext]_allVars
  PROVE  UNCHANGED vars \/ Progresses \/ \E h \in Handler : Acts(h)
<1>1. IInv
  BY DEF HookIInv
<1>2. CASE Next
  <2>1. ASSUME NEW t \in Transfer, GatewayProgress(t) PROVE Progresses
    <3>1. PICK s \in GatewayMoves(pay[t]) : pay' = [pay EXCEPT ![t] = s]
      BY <2>1 DEF GatewayProgress
    <3> QED
      BY <2>1, <3>1, ClaimsGrow DEF Progresses, GatewayProgress
  <2> QED
    BY <1>1, <1>2, <2>1, StepEffects, RequestEffects DEF Next
<1>3. CASE UNCHANGED allVars
  BY <1>3 DEF allVars
<1>4. ASSUME NEW h \in Handler, NEW m \in wire, HookDuplicate(h, m) PROVE UNCHANGED vars
  BY <1>4 DEF HookDuplicate
<1>5. ASSUME NEW d \in SentIds, NEW t \in Transfer \cup {NoTransfer}, NEW event \in SentEvents,
             GatewaySend(d, t, event)
      PROVE  UNCHANGED vars
  BY <1>5 DEF GatewaySend
<1> QED
  BY <1>2, <1>3, <1>4, <1>5, HookEffects DEF HookNext

-----------------------------------------------------------------------------
(* The journal.                                                             *)

(* An entry of the journal of t leads to s, or a handler is about to write  *)
(* one that does.                                                           *)
Led(t, s) == \E e \in logs[t] : e.to = s

Promised(t, s) ==
  Led(t, s) \/ \E h \in Handler : task[h].tx = t /\ task[h].pc = "log" /\ task[h].target = s

(* The status h has read, or knows of, is or will be explained by an entry. *)
Accounted(h) ==
  LET k == task[h] IN
  /\ k.pc \in {"cancel", "write", "log"} /\ k.seen # NoStatus => Promised(k.tx, k.seen)
  /\ k.pc \in {"call", "answer", "fail"} => Led(k.tx, "PENDING")
  /\ k.pc = "answer" => k.target = "PENDING"

(* So is whatever a row shows, and whatever an entry starts from.           *)
Journal ==
  /\ \A t \in Transfer : Exists(t) => Promised(t, row[t].status)
  /\ \A t \in Transfer : \A e \in logs[t] : e.from # NoStatus => Promised(t, e.from)
  /\ \A h \in Handler : Accounted(h)

(* An entry stays, and one that is due is written: no request is cut short. *)
LEMMA PromisesKept ==
  ASSUME HookIInv, "crash" \notin Faults, NEW h \in Handler, Acts(h),
         NEW t \in Transfer, NEW s
  PROVE  /\ Led(t, s) => Led(t, s)'
         /\ Promised(t, s) => Promised(t, s)'
<1> DEFINE k == task[h]
<1>1. TypeOK /\ \A g \in Handler \ {h} : task'[g] = task[g]
  BY DEF HookIInv, IInv, Acts
<1>2. CASE Logs(h)
  <2>1. k.tx \in Transfer => logs'[k.tx] = logs[k.tx] \cup {[from |-> k.seen, to |-> k.target, source |-> k.op]}
    BY <1>1, <1>2 DEF Logs, TypeOK
  <2>2. \A u \in Transfer : u # k.tx => logs'[u] = logs[u]
    BY <1>1, <1>2 DEF Logs, TypeOK
  <2>3. Led(t, s) => Led(t, s)'
    BY <2>1, <2>2 DEF Led
  <2>4. k.tx = t /\ k.target = s => Led(t, s)'
    <3> SUFFICES ASSUME k.tx = t, k.target = s
                 PROVE  Led(t, s)'
      OBVIOUS
    <3> DEFINE e == [from |-> k.seen, to |-> k.target, source |-> k.op]
    <3>1. e \in logs'[t] /\ e.to = s
      BY <2>1
    <3> QED
      BY <3>1 DEF Led
  <2> QED
    BY <1>1, <2>3, <2>4 DEF Promised
<1>3. CASE ~ Logs(h)
  <2>1. UNCHANGED logs /\ k.pc # "log"
    BY <1>3 DEF Acts, At, Inserts, Reads, Receives, Accepts, Errs, Fails, Persists, Announces,
           Cancels, Shows, Finds, Declines, Applies, Notifies, Ends, Stores, Throws
  <2> QED
    BY <1>1, <2>1 DEF Led, Promised
<1> QED
  BY <1>2, <1>3

(* A step of a request keeps the journal accountable, when POST /payments   *)
(* answers with statuses that read as PENDING.  L and P are Led and         *)
(* Promised after the step.                                                 *)
LEMMA ActJournal ==
  ASSUME HookIInv, "crash" \notin Faults, NEW h \in Handler, Acts(h), Journal,
         \A s \in PostAnswers : mapGeniusPayStatus(s) = "PENDING"
  PROVE  Journal'
<1> DEFINE k == task[h]
           n == task'[h]
           L(t, s) == \E e \in logs'[t] : e.to = s
           P(t, s) == L(t, s) \/ \E g \in Handler : task'[g].tx = t /\ task'[g].pc = "log"
                                                    /\ task'[g].target = s
           A(g) == /\ task'[g].pc \in {"cancel", "write", "log"} /\ task'[g].seen # NoStatus
                        => P(task'[g].tx, task'[g].seen)
                   /\ task'[g].pc \in {"call", "answer", "fail"} => L(task'[g].tx, "PENDING")
                   /\ task'[g].pc = "answer" => task'[g].target = "PENDING"
<1>1. /\ TypeOK /\ k \in Task /\ InFlight(h) /\ n \in Task
      /\ \A g \in Handler \ {h} : task'[g] = task[g]
  BY DEF HookIInv, IInv, TypeOK, Acts
<1>2. \A t \in Transfer, s \in Status \cup {NoStatus} :
        (Led(t, s) => L(t, s)) /\ (Promised(t, s) => P(t, s))
  BY PromisesKept DEF Led, Promised
<1>3. n.pc = "log" => P(n.tx, n.target)
  OBVIOUS
<1>4. \A t, s : L(t, s) => P(t, s)
  OBVIOUS
<1>5. Journal' <=> /\ \A t \in Transfer : row'[t].status # NoStatus => P(t, row'[t].status)
                   /\ \A t \in Transfer : \A e \in logs'[t] : e.from # NoStatus => P(t, e.from)
                   /\ \A g \in Handler : A(g)
  BY DEF Journal, Accounted, Promised, Led, Exists
<1> HIDE DEF L, P
<1>6. \A t \in Transfer : row'[t].status # NoStatus => P(t, row'[t].status)
  <2> SUFFICES ASSUME NEW t \in Transfer, row'[t].status # NoStatus
               PROVE  P(t, row'[t].status)
    OBVIOUS
  <2>1. CASE row'[t] = row[t]
    BY <1>1, <1>2, <2>1 DEF Journal, Exists, TypeOK, Row
  <2>2. CASE Inserts(h)
    BY <1>1, <1>2, <1>3, <2>1, <2>2 DEF Inserts, Writes, TypeOK, Row
  <2>3. CASE Fails(h) \/ Cancels(h) \/ Applies(h)
    <3>1. k.tx \in Transfer /\ row[k.tx] \in Row /\ (Cancels(h) => k.target = "CANCELLED")
      BY <1>1, <2>3 DEF Fails, Cancels, Applies, InFlight, TypeOK
    <3>2. \A u \in Transfer \ {k.tx} : row'[u] = row[u]
      BY <2>3 DEF Fails, Cancels, Applies, Writes
    <3>3. n.pc = "log" /\ n.tx = k.tx /\ row'[k.tx].status = n.target
      <4>1. CASE Fails(h)
        BY <1>1, <3>1, <4>1 DEF Fails, Writes, Row, Task
      <4>2. CASE Cancels(h)
        BY <1>1, <3>1, <4>2 DEF Cancels, Writes, Goes, Row, Task
      <4>3. CASE Applies(h)
        BY <1>1, <3>1, <4>3 DEF Applies, Writes, Goes, Row, Task
      <4> QED
        BY <2>3, <4>1, <4>2, <4>3
    <3> QED
      BY <1>3, <2>1, <3>2, <3>3
  <2>4. CASE Persists(h)
    <3>1. CASE t # k.tx
      BY <2>1, <2>4, <3>1 DEF Persists, Writes
    <3>2. CASE t = k.tx
      <4>1. k.target = "PENDING" /\ Led(t, "PENDING") /\ row[t] \in Row
        BY <1>1, <2>4, <3>2 DEF Persists, Journal, Accounted, TypeOK
      <4>2. row'[t].status = "PENDING"
        BY <2>4, <3>2, <4>1 DEF Persists, Writes, Row
      <4> QED
        BY <1>2, <1>4, <4>1, <4>2 DEF Status
    <3> QED
      BY <3>1, <3>2
  <2> QED
    BY <2>1, <2>2, <2>3, <2>4
    DEF Acts, Reads, Receives, Logs, Accepts, Errs, Announces, Shows, Finds, Declines,
        Notifies, Ends, Stores, Throws
<1>7. \A t \in Transfer : \A e \in logs'[t] : e.from # NoStatus => P(t, e.from)
  <2> SUFFICES ASSUME NEW t \in Transfer, NEW e \in logs'[t], e.from # NoStatus
               PROVE  P(t, e.from)
    OBVIOUS
  <2>1. CASE e \in logs[t]
    BY <1>1, <1>2, <2>1 DEF Journal, TypeOK, LogEntry
  <2>2. CASE Logs(h)
    BY <1>1, <1>2, <2>1, <2>2 DEF Logs, Journal, Accounted, TypeOK, Task
  <2> QED
    BY <2>1, <2>2
    DEF Acts, Inserts, Reads, Receives, Accepts, Errs, Fails, Persists, Announces, Cancels,
        Shows, Finds, Declines, Applies, Notifies, Ends, Stores, Throws
<1>8. \A g \in Handler \ {h} : A(g)
  <2> SUFFICES ASSUME NEW g \in Handler \ {h}
               PROVE  A(g)
    OBVIOUS
  <2>1. task'[g] = task[g] /\ task[g] \in Task /\ Accounted(g) /\ InFlight(g)
    BY <1>1 DEF Journal, HookIInv, IInv, TypeOK
  <2>2. task[g].pc \in {"cancel", "write", "log", "call", "answer", "fail"} => task[g].tx \in Transfer
    BY <2>1 DEF InFlight
  <2> QED
    BY <1>2, <2>1, <2>2 DEF Accounted, Task, Status
<1>9. A(h)
  <2>1. k.pc \in {"call", "answer", "fail"} => L(k.tx, "PENDING")
    BY <1>1, <1>2 DEF Journal, Accounted, InFlight, Status
  <2>2. k.pc \in {"cancel", "write", "log"} /\ k.seen # NoStatus => P(k.tx, k.seen)
    BY <1>1, <1>2 DEF Journal, Accounted, InFlight, Task
  <2>3. CASE Inserts(h)
    <3>1. n.pc = "log" /\ n.seen = NoStatus
      BY <2>3 DEF Inserts
    <3> QED
      BY <3>1
  <2>4. CASE Reads(h)
    <3>1. PICK t \in Transfer : n.tx = t /\ n.seen = row[t].status /\ n.pc \in {"cancel", "get"}
      BY <2>4 DEF Reads
    <3>2. n.seen # NoStatus => P(t, n.seen)
      BY <1>1, <1>2, <3>1 DEF Journal, Exists, TypeOK, Row
    <3> QED
      BY <3>1, <3>2
  <2>5. CASE Logs(h)
    <3>1. k.tx \in Transfer /\ k.pc = "log"
      BY <1>1, <2>5 DEF Logs, InFlight
    <3>2. k.target = "PENDING" => L(k.tx, "PENDING")
      <4> DEFINE e == [from |-> k.seen, to |-> k.target, source |-> k.op]
      <4>1. e \in logs'[k.tx] /\ e.to = k.target
        BY <1>1, <2>5, <3>1 DEF Logs, TypeOK
      <4> QED
        BY <4>1 DEF L
    <3> QED
      BY <1>1, <2>5, <3>2 DEF Logs, Goes, Task, Idle
  <2>6. CASE Accepts(h)
    BY <1>1, <2>1, <2>6 DEF Accepts, Task
  <2>7. CASE Errs(h)
    BY <1>1, <2>1, <2>7 DEF Errs, Goes, Task
  <2>8. CASE Fails(h)
    BY <1>1, <1>4, <2>1, <2>8 DEF Fails, Task
  <2>9. CASE Cancels(h) \/ Applies(h)
    <3>1. k.pc \in {"cancel", "write"} /\ n = [k EXCEPT !.pc = "log"]
      BY <2>9 DEF Cancels, Applies, Goes
    <3>2. n.pc = "log" /\ n.tx = k.tx /\ n.seen = k.seen
      BY <1>1, <3>1 DEF Task
    <3> QED
      BY <2>2, <3>1, <3>2
  <2>10. CASE Finds(h)
    <3>1. k.tx \in Transfer /\ n.tx = k.tx /\ n.pc = "write" /\ n.seen = row[k.tx].status
      BY <1>1, <2>10 DEF Finds, InFlight, Task
    <3>2. n.seen # NoStatus => P(k.tx, n.seen)
      BY <1>1, <1>2, <3>1 DEF Journal, Exists, TypeOK, Row
    <3> QED
      BY <3>1, <3>2
  <2>11. CASE n.pc \in {"idle", "store", "tell", "find", "mark", "markError"}
    BY <2>11
  <2>12. n.pc \in {"idle", "store", "tell", "find", "mark", "markError"} \/ Inserts(h) \/ Reads(h)
         \/ Logs(h) \/ Accepts(h) \/ Errs(h) \/ Fails(h) \/ Cancels(h) \/ Applies(h) \/ Finds(h)
    <3>1. CASE Persists(h) \/ Shows(h) \/ Stores(h) \/ Throws(h)
      BY <1>1, <3>1 DEF Persists, Shows, Stores, Throws, Goes, Task
    <3>2. CASE Announces(h) \/ Ends(h) \/ Receives(h)
      BY <3>2 DEF Announces, Ends, Receives, Idle
    <3>3. ASSUME NEW seen, Returns(h, seen) PROVE n.pc \in {"idle", "mark"}
      BY <1>1, <3>3 DEF Returns, Task, Idle
    <3> QED
      BY <3>1, <3>2, <3>3 DEF Acts, Declines, Notifies
  <2> QED
    BY <2>3, <2>4, <2>5, <2>6, <2>7, <2>8, <2>9, <2>10, <2>11, <2>12
<1> QED
  BY <1>5, <1>6, <1>7, <1>8, <1>9

(* Every step keeps it. *)
LEMMA NextJournal ==
  ASSUME HookIInv, [HookNext]_allVars, Journal, "crash" \notin Faults,
         \A s \in PostAnswers : mapGeniusPayStatus(s) = "PENDING"
  PROVE  Journal'
<1>1. CASE UNCHANGED vars \/ Progresses
  <2>1. UNCHANGED <<row, logs, task>>
    BY <1>1 DEF vars, Progresses
  <2> QED
    BY <2>1 DEF Journal, Exists, Promised, Led, Accounted
<1>2. CASE \E h \in Handler : Acts(h)
  BY <1>2, ActJournal
<1> QED
  BY <1>1, <1>2, Effects

(* As long as no statement fails half-way through a request, and POST       *)
(* /payments answers with a status that reads as PENDING, the journal       *)
(* explains the rows, however many requests and webhooks overlap: when no   *)
(* request on a transfer is in flight, an entry leads to the status its row *)
(* shows and every entry starts from where another one led.                 *)
(* (addLog and its callers)                                                 *)
THEOREM JournalExplainsRows ==
  ASSUME "crash" \notin Faults, \A s \in PostAnswers : mapGeniusPayStatus(s) = "PENDING"
  PROVE  HookSpec => []StatusLogged
<1>1. HookInit => Journal
  BY DEF HookInit, Init, Journal, Exists, Accounted, Idle
<1>2. HookIInv /\ Journal /\ [HookNext]_allVars => Journal'
  BY NextJournal
<1>3. Journal => StatusLogged
  BY DEF Journal, StatusLogged, Promised, Led, Busy
<1> QED
  BY <1>1, <1>2, <1>3, HookInvariantHolds, PTL DEF HookSpec

-----------------------------------------------------------------------------
(* Requests that do not overlap.                                            *)

(* No two requests on one transfer are in flight together; requests on      *)
(* different transfers still interleave at will.                            *)
OneAtATime ==
  \A g, h \in Handler : task[g].tx # NoTransfer /\ task[g].tx = task[h].tx => g = h

(* What h read of its row, or knows of it from having created it, is what   *)
(* the row still holds.                                                     *)
Fresh(h) ==
  LET k == task[h]
      r == row[k.tx] IN
  /\ k.op = "create" /\ k.pc \in {"log", "call", "answer", "fail"} /\ (k.pc = "log" => k.target = "PENDING")
       => r.status = "PENDING"
  /\ k.pc \in {"cancel", "write"} => r.status = k.seen
  /\ k.pc = "write" => r.completedAt = k.completedAt
  /\ k.op \in {"sync", "webhook"} /\ k.pc \in {"log", "tell"} => r.status = k.target

AllFresh == \A h \in Handler : Fresh(h)

(* The writers, which stay on the transfer whose row they write.            *)
Writers(h) == Inserts(h) \/ Fails(h) \/ Persists(h) \/ Cancels(h) \/ Applies(h)

LEMMA OnlyWritersWrite ==
  ASSUME HookIInv, NEW h \in Handler, Acts(h)
  PROVE  \/ UNCHANGED row
         \/ /\ Writers(h) /\ task'[h].tx \in Transfer
            /\ \A u \in Transfer \ {task'[h].tx} : row'[u] = row[u]
<1> DEFINE k == task[h]
<1>1. k \in Task /\ InFlight(h)
  BY DEF HookIInv, IInv, TypeOK
<1>2. CASE Inserts(h)
  <2>1. PICK t \in Transfer : (\A u \in Transfer \ {t} : row'[u] = row[u]) /\ task'[h].tx = t
    BY <1>2 DEF Inserts, Writes
  <2> QED
    BY <1>2, <2>1 DEF Writers
<1>3. CASE Fails(h) \/ Persists(h) \/ Cancels(h) \/ Applies(h)
  <2>1. k.tx \in Transfer
    BY <1>1, <1>3 DEF Fails, Persists, Cancels, Applies, InFlight
  <2>2. task'[h].tx = k.tx
    BY <1>1, <1>3 DEF Fails, Persists, Cancels, Applies, Goes, Task
  <2>3. \A u \in Transfer \ {k.tx} : row'[u] = row[u]
    BY <1>3 DEF Fails, Persists, Cancels, Applies, Writes
  <2> QED
    BY <1>3, <2>1, <2>2, <2>3 DEF Writers
<1> QED
  BY <1>2, <1>3
  DEF Acts, Reads, Receives, Logs, Accepts, Errs, Announces, Shows, Finds, Declines, Notifies,
      Ends, Stores, Throws

(* A handler that writes or reads the row holds what it wrote or read.      *)
LEMMA ActFresh ==
  ASSUME HookIInv, NEW h \in Handler, Acts(h), Fresh(h)
  PROVE  Fresh(h)'
<1> DEFINE k == task[h]
           n == task'[h]
<1>1. k \in Task /\ InFlight(h) /\ n \in Task /\ row \in [Transfer -> Row]
  BY DEF HookIInv, IInv, TypeOK, Acts
<1>2. CASE n.pc \in {"idle", "store", "find", "get", "mark", "markError"}
  BY <1>2 DEF Fresh
<1>3. CASE Inserts(h)
  <2>1. PICK t \in Transfer : /\ row'[t] = [row[t] EXCEPT !.status = "PENDING"]
                              /\ n.tx = t /\ n.pc = "log" /\ n.op = "create"
    BY <1>3 DEF Inserts, Writes
  <2>2. row[t] \in Row
    BY <1>1
  <2>3. row'[t].status = "PENDING"
    BY <2>1, <2>2 DEF Row
  <2> QED
    BY <2>1, <2>3 DEF Fresh
<1>4. CASE Reads(h)
  <2>1. PICK t \in Transfer : /\ UNCHANGED row /\ n.tx = t /\ n.op \in {"cancel", "sync"}
                              /\ n.pc \in {"cancel", "get"} /\ n.seen = row[t].status
    BY <1>4 DEF Reads
  <2> QED
    BY <2>1 DEF Fresh
<1>5. CASE Logs(h)
  <2>1. n = Idle \/ (n.op = k.op /\ n.tx = k.tx /\ n.target = k.target /\ n.pc \in {"call", "tell"}
                     /\ (n.pc = "call" => k.op = "create" /\ k.target = "PENDING"))
    BY <1>1, <1>5 DEF Logs, Goes, Task
  <2> QED
    BY <1>5, <2>1 DEF Logs, Fresh, Idle
<1>6. CASE Accepts(h) \/ Errs(h)
  <2>1. n.op = k.op /\ n.tx = k.tx /\ n.pc \in {"answer", "fail"} /\ k.op = "create"
        /\ k.pc \in {"call", "answer"} /\ UNCHANGED row
    BY <1>1, <1>6 DEF Accepts, Errs, Goes, Task, InFlight
  <2> QED
    BY <2>1 DEF Fresh
<1>7. CASE Fails(h) \/ Persists(h) \/ Cancels(h)
  <2>1. /\ n.op \in {"create", "cancel"} /\ n.pc \in {"log", "tell"}
        /\ ~ (n.op = "create" /\ n.pc = "log" /\ n.target = "PENDING")
    <3>1. CASE Fails(h)
      BY <1>1, <3>1 DEF Fails, Task, InFlight
    <3>2. CASE Persists(h)
      BY <1>1, <3>2 DEF Persists, Goes, Task, InFlight
    <3>3. CASE Cancels(h)
      BY <1>1, <3>3 DEF Cancels, Goes, Task, InFlight
    <3> QED
      BY <1>7, <3>1, <3>2, <3>3
  <2> QED
    BY <2>1 DEF Fresh
<1>8. CASE Finds(h)
  <2>1. /\ UNCHANGED row /\ n.tx = k.tx /\ n.pc = "write" /\ n.seen = row[k.tx].status
        /\ n.completedAt = row[k.tx].completedAt
    BY <1>1, <1>8 DEF Finds, Task
  <2> QED
    BY <2>1 DEF Fresh
<1>9. CASE Applies(h)
  <2>1. /\ k.tx \in Transfer /\ row[k.tx] \in Row /\ k.op \in {"sync", "webhook"}
        /\ n.op = k.op /\ n.pc = "log" /\ n.tx = k.tx /\ n.target = k.target
    BY <1>1, <1>9 DEF Applies, Goes, Task, InFlight
  <2>2. row'[k.tx].status = k.target
    BY <1>9, <2>1 DEF Applies, Writes, Row
  <2> QED
    BY <2>1, <2>2 DEF Fresh
<1>10. CASE Announces(h) \/ Ends(h) \/ Receives(h)
  BY <1>2, <1>10 DEF Announces, Ends, Receives, Idle
<1>11. CASE Shows(h) \/ Stores(h) \/ Throws(h)
  BY <1>1, <1>2, <1>11 DEF Shows, Stores, Throws, Goes, Task
<1>12. ASSUME NEW seen, Returns(h, seen) PROVE Fresh(h)'
  <2>1. n.pc \in {"idle", "mark"}
    BY <1>1, <1>12 DEF Returns, Task, Idle
  <2> QED
    BY <1>2, <2>1
<1> QED
  BY <1>3, <1>4, <1>5, <1>6, <1>7, <1>8, <1>9, <1>10, <1>11, <1>12 DEF Acts, Declines, Notifies

(* While the requests on one transfer do not overlap, none is out of date.  *)
LEMMA NextFresh ==
  ASSUME HookIInv, [HookNext]_allVars, AllFresh, OneAtATime'
  PROVE  AllFresh'
<1>1. CASE UNCHANGED vars \/ Progresses
  <2>1. UNCHANGED <<row, task>>
    BY <1>1 DEF vars, Progresses
  <2> QED
    BY <2>1 DEF AllFresh, Fresh
<1>2. ASSUME NEW h \in Handler, Acts(h)
      PROVE  AllFresh'
  <2>1. Fresh(h)'
    BY <1>2, ActFresh DEF AllFresh
  <2>2. ASSUME NEW g \in Handler \ {h}
        PROVE  Fresh(g)'
    <3>1. task'[g] = task[g] /\ Fresh(g) /\ InFlight(g) /\ task[g] \in Task
      BY <1>2, <2>2 DEF AllFresh, Acts, HookIInv, IInv, TypeOK
    <3>2. task[g].tx \in Transfer => row'[task[g].tx] = row[task[g].tx]
      BY <1>2, <2>2, <3>1, OnlyWritersWrite, NoTransferAssumption DEF OneAtATime
    <3>3. task[g].op = "create" /\ task[g].pc = "log" => task[g].tx \in Transfer
      BY <3>1 DEF InFlight
    <3> QED
      BY <3>1, <3>2, <3>3 DEF Fresh, InFlight
  <2> QED
    BY <2>1, <2>2 DEF AllFresh
<1> QED
  BY <1>1, <1>2, Effects

-----------------------------------------------------------------------------
(* The lifecycle.                                                           *)

(* The lifecycle speaks of the same statuses and payments.                  *)
LEMMA SameWords ==
  /\ Lifecycle!NoStatus = NoStatus /\ Lifecycle!NoPayment = NoPayment
  /\ \A p : Lifecycle!Claims(p) = Claims(p) /\ Lifecycle!GatewayMoves(p) = GatewayMoves(p)
BY DEF Lifecycle!NoStatus, NoStatus, Lifecycle!NoPayment, NoPayment, Lifecycle!Claims, Claims,
       Lifecycle!GatewayMoves, GatewayMoves

(* A row written is a status of the lifecycle written, and its link.        *)
LEMMA WritesBecome ==
  ASSUME TypeOK, NEW t \in Transfer, NEW r \in Row, Writes(t, r)
  PROVE  /\ Lifecycle!Become(t, r.status)
         /\ [u \in Transfer |-> row'[u].ref]
            = [[u \in Transfer |-> row[u].ref] EXCEPT ![t] = r.ref]
         /\ r.ref = row[t].ref
              => [u \in Transfer |-> row'[u].ref] = [u \in Transfer |-> row[u].ref]
BY DEF Writes, Lifecycle!Become

(* A step of a handler that knows what its row holds is a step of the       *)
(* lifecycle, or changes nothing of it.                                     *)
LEMMA ActImplements ==
  ASSUME HookIInv, TypeOK', NEW h \in Handler, Acts(h), Fresh(h)
  PROVE  [Lifecycle!LNext]_(Lifecycle!lifecycleVars)
<1> DEFINE k == task[h]
<1>1. TypeOK /\ k \in Task /\ InFlight(h) /\ \A t \in Transfer : row[t] \in Row
  BY DEF HookIInv, IInv, TypeOK
<1>a. ASSUME NEW t \in Transfer,
              \/ Lifecycle!Create(t) \/ Lifecycle!Accept(t) \/ Lifecycle!Link(t)
              \/ Lifecycle!Refuse(t) \/ Lifecycle!Cancel(t) \/ Lifecycle!Report(t)
       PROVE  [Lifecycle!LNext]_(Lifecycle!lifecycleVars)
  BY <1>a DEF Lifecycle!LNext
<1>b. Fails(h) \/ Persists(h) \/ Cancels(h) \/ Accepts(h) \/ Applies(h) => k.tx \in Transfer
  BY <1>1 DEF Fails, Persists, Cancels, Accepts, Applies, InFlight
<1>2. CASE Inserts(h)
  <2>1. PICK t \in Transfer : /\ row[t].status = NoStatus
                              /\ Writes(t, [row[t] EXCEPT !.status = "PENDING"])
                              /\ UNCHANGED pay
    BY <1>2 DEF Inserts
  <2> DEFINE r == [row[t] EXCEPT !.status = "PENDING"]
  <2>2. r \in Row /\ r.status = "PENDING" /\ r.ref = row[t].ref
    BY <1>1 DEF Row, Status
  <2>3. Writes(t, r)
    BY <2>1
  <2> HIDE DEF r
  <2>4. /\ Lifecycle!Become(t, "PENDING") /\ UNCHANGED pay
        /\ [u \in Transfer |-> row'[u].ref] = [u \in Transfer |-> row[u].ref]
    BY <1>1, <2>1, <2>2, <2>3, WritesBecome
  <2>5. Lifecycle!Create(t)
    BY <2>1, <2>4, SameWords DEF Lifecycle!Create
  <2> QED
    BY <1>a, <2>5
<1>3. CASE Accepts(h)
  <2>a. PICK t \in Transfer : k.tx = t
    BY <1>b, <1>3
  <2>1. /\ row[t].status = "PENDING" /\ pay[t] = NoPayment
        /\ UNCHANGED row /\ \E s \in PostAnswers : pay' = [pay EXCEPT ![t] = s]
    BY <1>1, <1>3, <2>a DEF Accepts, Fresh, InFlight
  <2>2. Lifecycle!Accept(t)
    BY <2>1, SameWords DEF Lifecycle!Accept
  <2> QED
    BY <1>a, <2>2
<1>4. ASSUME NEW s \in {"FAILED", "CANCELLED"}, NEW t \in Transfer, UNCHANGED pay,
             Writes(t, [row[t] EXCEPT !.status = s])
      PROVE  Lifecycle!Become(t, s)
             /\ UNCHANGED <<[u \in Transfer |-> row[u].ref], pay>>
  <2> DEFINE r == [row[t] EXCEPT !.status = s]
  <2>1. r \in Row /\ r.status = s /\ r.ref = row[t].ref
    BY <1>1, <1>4 DEF Row, Status
  <2>2. Writes(t, r)
    BY <1>4
  <2> HIDE DEF r
  <2> QED
    BY <1>1, <1>4, <2>1, <2>2, WritesBecome
<1>5. CASE Fails(h)
  <2>a. PICK t \in Transfer : k.tx = t
    BY <1>b, <1>5
  <2>1. /\ row[t].status = "PENDING" /\ ~ row[t].ref
        /\ UNCHANGED pay /\ Writes(t, [row[t] EXCEPT !.status = "FAILED"])
    BY <1>1, <1>5, <2>a DEF Fails, Fresh, InFlight, Creating
  <2>2. Lifecycle!Refuse(t)
    BY <1>4, <2>1 DEF Lifecycle!Refuse
  <2> QED
    BY <1>a, <2>2
<1>6. CASE Cancels(h)
  <2>a. PICK t \in Transfer : k.tx = t
    BY <1>b, <1>6
  <2>1. /\ row[t].status = k.seen
        /\ row[t].status # NoStatus /\ ~ isTerminal(k.seen)
        /\ UNCHANGED pay /\ Writes(t, [row[t] EXCEPT !.status = "CANCELLED"])
    BY <1>1, <1>6, <2>a DEF Cancels, Fresh, InFlight, Exists
  <2>2. row[t].status \in {"PENDING", "PROCESSING"}
    BY <1>1, <2>1 DEF Row, Status, isTerminal, Terminal
  <2>3. Lifecycle!Cancel(t)
    BY <1>4, <2>1, <2>2 DEF Lifecycle!Cancel, Lifecycle!Open
  <2> QED
    BY <1>a, <2>3
<1>7. CASE Persists(h)
  <2>1. PICK t \in Transfer : k.tx = t
    BY <1>7, <1>b
  <2>2. k.target \in Claims(pay[t]) /\ k.target \in Status
    BY <1>1, <1>7, <2>1, ClaimsType DEF Persists, InFlight
  <2>3. PICK s \in Status : k.target = s
    BY <2>2
  <2>4. row[t].status = "PENDING" /\ ~ row[t].ref /\ UNCHANGED pay
    BY <1>1, <1>7, <2>1 DEF Persists, Fresh, InFlight, Creating
  <2> DEFINE r == [row[t] EXCEPT !.status = s, !.ref = TRUE]
  <2>5. r \in Row /\ r.status = s /\ r.ref = TRUE
    BY <1>1 DEF Row
  <2>6. Writes(t, r)
    BY <1>7, <2>1, <2>3 DEF Persists
  <2> HIDE DEF r
  <2>7. /\ Lifecycle!Become(t, s)
        /\ [u \in Transfer |-> row'[u].ref] = [[u \in Transfer |-> row[u].ref] EXCEPT ![t] = TRUE]
    BY <1>1, <2>5, <2>6, WritesBecome
  <2>8. Lifecycle!Link(t)
    BY <2>2, <2>3, <2>4, <2>7, SameWords DEF Lifecycle!Link
  <2> QED
    BY <1>a, <2>8
<1>8. CASE Applies(h)
  <2>1. PICK t \in Transfer : k.tx = t
    BY <1>8, <1>b
  <2>2. k.target \in Claims(pay[t]) /\ k.target \in Status
    BY <1>1, <1>8, <2>1, ClaimsType DEF Applies, InFlight
  <2>3. PICK s \in Status : k.target = s
    BY <2>2
  <2>4. row[t].status = k.seen /\ row[t].ref /\ Applicable(k.seen, s) /\ UNCHANGED pay
    BY <1>1, <1>8, <2>1, <2>3 DEF Applies, Fresh, InFlight
  <2>5. k.seen \in Status
    <3>1. row[t].status \in Claims(pay[t]) \cup {"CANCELLED"}
      BY <2>4 DEF HookIInv, IInv, GatewayBacked
    <3> QED
      BY <2>4, <3>1, ClaimsType DEF Status
  <2> DEFINE c == (k.target = "COMPLETED") \/ k.completedAt
             r == [row[t] EXCEPT !.status = s, !.completedAt = c]
  <2>6. r \in Row /\ r.status = s /\ r.ref = row[t].ref
    BY <1>1 DEF Row, Task
  <2>7. Writes(t, r)
    BY <1>8, <2>1, <2>3 DEF Applies
  <2> HIDE DEF r
  <2>8. Lifecycle!Become(t, s) /\ UNCHANGED <<[u \in Transfer |-> row[u].ref], pay>>
    BY <1>1, <2>4, <2>6, <2>7, WritesBecome
  <2>9. \/ row[t].status \in {"PENDING", "PROCESSING"}
        \/ row[t].status # "REFUNDED" /\ s = "REFUNDED"
    BY <2>4, <2>5 DEF Applicable, isTerminal, Terminal, Status
  <2>10. Lifecycle!Report(t)
    BY <2>2, <2>3, <2>4, <2>8, <2>9, SameWords DEF Lifecycle!Report, Lifecycle!Open
  <2> QED
    BY <1>a, <2>10
<1>9. CASE UNCHANGED <<row, pay>>
  BY <1>9 DEF Lifecycle!lifecycleVars
<1> QED
  BY <1>2, <1>3, <1>5, <1>6, <1>7, <1>8, <1>9
  DEF Acts, Reads, Receives, Logs, Errs, Announces, Shows, Finds, Declines, Notifies,
      Ends, Stores, Throws

(* Every step of the service while no request in flight is out of date.     *)
LEMMA FreshNextImplements ==
  ASSUME HookIInv, TypeOK', [HookNext]_allVars, AllFresh
  PROVE  [Lifecycle!LNext]_(Lifecycle!lifecycleVars)
<1>1. CASE UNCHANGED vars
  BY <1>1 DEF vars, Lifecycle!lifecycleVars
<1>2. CASE Progresses
  <2>1. PICK t \in Transfer : (\E s \in GatewayMoves(pay[t]) : pay' = [pay EXCEPT ![t] = s])
                              /\ UNCHANGED row
    BY <1>2 DEF Progresses
  <2>2. Lifecycle!Settle(t)
    BY <2>1, SameWords DEF Lifecycle!Settle
  <2> QED
    BY <2>2 DEF Lifecycle!LNext
<1>3. CASE \E h \in Handler : Acts(h)
  BY <1>3, ActImplements DEF AllFresh
<1> QED
  BY <1>1, <1>2, <1>3, Effects

(* With no stale write the service is the lifecycle: whatever fails and     *)
(* however requests and webhooks overlap, as long as each handler in flight *)
(* still knows what its row holds, every step of the service is one step of *)
(* TransferLifecycle.  (all of TransactionsService)                         *)
THEOREM FreshRequestsImplementLifecycle == HookSpec /\ []AllFresh => ImplementsLifecycle
<1>1. HookInit => Lifecycle!LInit
  BY SameWords DEF HookInit, Init, Lifecycle!LInit
<1>2. HookIInv /\ HookIInv' /\ [HookNext]_allVars /\ AllFresh
      => [Lifecycle!LNext]_(Lifecycle!lifecycleVars)
  BY FreshNextImplements DEF HookIInv, IInv
<1> QED
  BY <1>1, <1>2, HookInvariantHolds, PTL DEF HookSpec, ImplementsLifecycle, Lifecycle!LSpec

(* Requests on one transfer that do not overlap are never out of date.      *)
LEMMA SerialIsFresh == HookSpec /\ []OneAtATime => []AllFresh
<1>1. HookInit => AllFresh
  <2>1. HookInit => \A h \in Handler : task[h].op = "none" /\ task[h].pc = "idle"
    BY DEF HookInit, Init, Idle
  <2> QED
    BY <2>1 DEF AllFresh, Fresh
<1>2. HookIInv /\ AllFresh /\ [HookNext]_allVars /\ OneAtATime' => AllFresh'
  BY NextFresh
<1> QED
  BY <1>1, <1>2, HookInvariantHolds, PTL DEF HookSpec

(* One request at a time on a transfer, the service implements the          *)
(* lifecycle, crashes, lost answers and late webhooks included: each        *)
(* operation acts as one step taken on the status of that instant.          *)
(* (create, cancel, syncStatus, applyGatewayUpdate)                         *)
THEOREM SerialRequestsImplementLifecycle == HookSpec /\ []OneAtATime => ImplementsLifecycle
BY SerialIsFresh, FreshRequestsImplementLifecycle, PTL

-----------------------------------------------------------------------------
(* What else holds while no handler in flight is out of date.               *)

(* The event h is going to tell the sender of, if it gets that far. *)
Tells(h) ==
  LET k == task[h] IN
  \/ k.op = "create" /\ k.pc \in {"log", "call", "answer", "fail", "tell"}
  \/ k.op \in {"sync", "webhook"} /\ k.pc \in {"log", "tell"} /\ NoticeOf(k.target) # NoStatus

EventOf(h) == IF task[h].op = "create" THEN "payment.initiated" ELSE NoticeOf(task[h].target)

(* The statuses of a row whose sender has been told of event. *)
ToldOf(event) ==
  CASE event = "payment.success"  -> {"COMPLETED", "REFUNDED"}
    [] event = "payment.failed"   -> {"FAILED", "REFUNDED"}
    [] event = "payment.refunded" -> {"REFUNDED"}
    [] OTHER                      -> Status

Untold(h) ==
  Tells(h) => Exists(task[h].tx) /\ notices[task[h].tx][EventOf(h)] = 0

(* What has been told shows in the row; what is about to be told was not    *)
(* told before, and nobody else is about to tell it.                        *)
Telling ==
  /\ ToldOnce
  /\ \A t \in Transfer, e \in NoticeEvent : notices[t][e] > 0 => row[t].status \in ToldOf(e)
  /\ \A h \in Handler : Untold(h)
  /\ \A g, h \in Handler :
       Tells(g) /\ Tells(h) /\ task[g].tx = task[h].tx /\ EventOf(g) = EventOf(h) => g = h

(* A row that status has been applied to, if it is terminal. *)
Applied(t, status) ==
  isTerminal(status) =>
    isTerminal(row[t].status) /\ (status = "REFUNDED" => row[t].status = status)

(* A webhook in process is about a message of the wire, and when it comes   *)
(* to close its row, what the message said has been applied.                *)
Carries(h) ==
  LET k == task[h] IN
  /\ k.op = "webhook" /\ k.hook # NoDelivery =>
       \E m \in wire : /\ m.id = k.hook /\ m.tx = k.tx
                       /\ mapWebhookEventToStatus(m.event) = k.target
  /\ k.pc = "store" => k.seen = NoStatus
  /\ k.pc = "mark" /\ k.seen # NoStatus => k.tx \in Transfer /\ Applied(k.tx, k.target)

Processing ==
  /\ \A m, n \in wire : m.id = n.id /\ m.id # NoDelivery => m = n
  /\ \A d \in Delivery : hooks[d].state # "absent" => \E m \in wire : m.id = d
  /\ \A h \in Handler : Carries(h)
  /\ ProcessedIsApplied

(* One step of a row that h knows: a terminal status gives way to REFUNDED  *)
(* alone, a row never goes, and its completion date stays.                  *)
LEMMA RowMoves ==
  ASSUME HookIInv, HookIInv', NEW h \in Handler, Acts(h), Fresh(h), NEW t \in Transfer
  PROVE  /\ \/ row'[t].status = row[t].status
            \/ row'[t].status = "REFUNDED"
            \/ row'[t].status \in Status /\ ~ isTerminal(row[t].status)
         /\ row[t].completedAt => row'[t].completedAt
<1> DEFINE k == task[h]
<1>1. k \in Task /\ InFlight(h) /\ row[t] \in Row /\ row'[t] \in Row
  BY DEF HookIInv, IInv, TypeOK
<1>2. CASE row'[t] = row[t]
  BY <1>2
<1>3. CASE Inserts(h)
  <2>1. CASE row'[t] # row[t]
    <3>1. row[t].status = NoStatus /\ row'[t] = [row[t] EXCEPT !.status = "PENDING"]
      BY <1>3, <2>1 DEF Inserts, Writes
    <3>2. row'[t].status = "PENDING" /\ row'[t].completedAt = row[t].completedAt
      BY <1>1, <3>1 DEF Row
    <3> QED
      BY <3>1, <3>2 DEF isTerminal, Terminal, NoStatus, Status
  <2> QED
    BY <1>2, <2>1
<1>4. CASE Fails(h) \/ Cancels(h)
  <2>1. CASE row'[t] # row[t]
    <3>1. /\ k.tx = t /\ ~ isTerminal(row[t].status)
          /\ \/ row'[t] = [row[t] EXCEPT !.status = "FAILED"]
             \/ row'[t] = [row[t] EXCEPT !.status = "CANCELLED"]
      BY <1>1, <1>4, <2>1
      DEF Fails, Cancels, Writes, Fresh, InFlight, isTerminal, Terminal
    <3>2. row'[t].status \in Status /\ row'[t].completedAt = row[t].completedAt
      BY <1>1, <3>1 DEF Row, Status
    <3> QED
      BY <3>1, <3>2
  <2> QED
    BY <1>2, <2>1
<1>5. CASE Persists(h)
  <2>1. CASE row'[t] # row[t]
    <3>1. /\ row[t].status = "PENDING" /\ k.target \in Status
          /\ row'[t] = [row[t] EXCEPT !.status = k.target, !.ref = TRUE]
      BY <1>1, <1>5, <2>1, ClaimsType DEF Persists, Writes, Fresh, InFlight
    <3>2. row'[t].status \in Status /\ row'[t].completedAt = row[t].completedAt
      BY <1>1, <3>1 DEF Row
    <3> QED
      BY <3>1, <3>2 DEF isTerminal, Terminal
  <2> QED
    BY <1>2, <2>1
<1>6. CASE Applies(h)
  <2>1. CASE row'[t] # row[t]
    <3> DEFINE c == (k.target = "COMPLETED") \/ k.completedAt
    <3>1. /\ row[t].status = k.seen /\ row[t].completedAt = k.completedAt /\ Applicable(k.seen, k.target)
          /\ k.target \in Status
      BY <1>1, <1>6, <2>1, ClaimsType DEF Applies, Writes, Fresh, InFlight
    <3>2. row'[t] = [row[t] EXCEPT !.status = k.target, !.completedAt = c]
      BY <1>6, <2>1 DEF Applies, Writes
    <3>3. row'[t].status = k.target /\ row'[t].completedAt = c
      BY <1>1, <3>2 DEF Row
    <3> QED
      BY <3>1, <3>3 DEF Applicable
  <2> QED
    BY <1>2, <2>1
<1>7. UNCHANGED row \/ Writers(h)
  BY OnlyWritersWrite
<1> QED
  BY <1>2, <1>3, <1>4, <1>5, <1>6, <1>7 DEF Writers

(* With no stale write, the completion date of a transfer stays once it is  *)
(* set, through its refund too.  (applyGatewayUpdate)                       *)
THEOREM CompletionDateStays == HookSpec /\ []AllFresh => CompletionDateKept
<1> DEFINE A == \A t \in Transfer : row[t].completedAt => row'[t].completedAt
<1>1. HookIInv /\ HookIInv' /\ [HookNext]_allVars /\ AllFresh => A
  <2> SUFFICES ASSUME HookIInv, HookIInv', [HookNext]_allVars, AllFresh
               PROVE  A
    OBVIOUS
  <2>1. CASE UNCHANGED vars \/ Progresses
    BY <2>1 DEF vars, Progresses
  <2>2. CASE \E h \in Handler : Acts(h)
    BY <2>2, RowMoves DEF AllFresh
  <2> QED
    BY <2>1, <2>2, Effects
<1>2. [HookNext]_allVars /\ A => [A]_vars
  OBVIOUS
<1> QED
  BY <1>1, <1>2, HookInvariantHolds, PTL DEF HookSpec, CompletionDateKept

(* The sender is told by a handler that was going to, of what its row shows. *)
LEMMA NoticeMoves ==
  ASSUME HookIInv, NEW h \in Handler, Acts(h), Fresh(h), Untold(h)
  PROVE  \/ UNCHANGED notices
         \/ /\ task[h].tx \in Transfer /\ EventOf(h) \in NoticeEvent
            /\ Counts(task[h].tx, EventOf(h)) /\ UNCHANGED row
            /\ row[task[h].tx].status \in ToldOf(EventOf(h))
            /\ Tells(h) /\ ~ Tells(h)'
<1> DEFINE k == task[h]
           n == task'[h]
<1>1. k \in Task /\ n \in Task /\ InFlight(h) /\ TypeOK
  BY DEF HookIInv, IInv, TypeOK, Acts
<1>2. CASE Announces(h)
  <2>1. k.tx \in Transfer /\ k.op = "create" /\ k.pc = "tell" /\ n = Idle /\ UNCHANGED row
        /\ Counts(k.tx, "payment.initiated")
    BY <1>1, <1>2 DEF Announces, InFlight
  <2>2. Tells(h) /\ EventOf(h) = "payment.initiated" /\ ~ Tells(h)'
    BY <2>1 DEF Tells, EventOf, Idle
  <2>3. row[k.tx].status \in Status
    BY <1>1, <2>1, <2>2 DEF Untold, Exists, TypeOK, Row
  <2> QED
    BY <2>1, <2>2, <2>3 DEF NoticeEvent, ToldOf
<1>3. CASE Notifies(h)
  <2>1. CASE UNCHANGED notices
    BY <2>1
  <2>2. CASE NoticeOf(k.target) # NoStatus /\ Counts(k.tx, NoticeOf(k.target))
    <3>1. /\ k.tx \in Transfer /\ k.op \in {"sync", "webhook"} /\ k.pc = "tell"
          /\ Returns(h, k.seen) /\ UNCHANGED row
      BY <1>1, <1>3 DEF Notifies, InFlight
    <3>2. Tells(h) /\ EventOf(h) = NoticeOf(k.target)
      BY <2>2, <3>1 DEF Tells, EventOf
    <3>3. n.pc \in {"idle", "mark"}
      BY <1>1, <3>1 DEF Returns, Task, Idle
    <3>4. ~ Tells(h)'
      BY <3>3 DEF Tells
    <3>5. row[k.tx].status = k.target
      BY <3>1 DEF Fresh
    <3>6. NoticeOf(k.target) \in NoticeEvent /\ k.target \in ToldOf(NoticeOf(k.target))
      BY <2>2 DEF NoticeOf, NoticeEvent, ToldOf
    <3> QED
      BY <2>2, <3>1, <3>2, <3>4, <3>5, <3>6
  <2> QED
    BY <1>3, <2>1, <2>2 DEF Notifies
<1> QED
  BY <1>2, <1>3
  DEF Acts, Inserts, Reads, Receives, Logs, Accepts, Errs, Fails, Persists, Cancels, Shows, Finds,
      Declines, Applies, Ends, Stores, Throws

(* A handler that is going to tell something was going to before, or has    *)
(* just inserted the row or written a status it may tell of.                *)
LEMMA TellsMoves ==
  ASSUME HookIInv, NEW h \in Handler, Acts(h), Fresh(h), Tells(h)'
  PROVE  /\ task'[h].tx \in Transfer
         /\ \/ Tells(h) /\ task'[h].tx = task[h].tx /\ EventOf(h)' = EventOf(h)
            \/ /\ row[task'[h].tx].status = NoStatus /\ row'[task'[h].tx].status = "PENDING"
               /\ EventOf(h)' = "payment.initiated"
            \/ \E s \in Status :
                 /\ Applicable(row[task'[h].tx].status, s) /\ row'[task'[h].tx].status = s
                 /\ EventOf(h)' = NoticeOf(s) /\ NoticeOf(s) # NoStatus
<1> DEFINE k == task[h]
           n == task'[h]
<1>1. k \in Task /\ n \in Task /\ InFlight(h) /\ TypeOK
  BY DEF HookIInv, IInv, TypeOK, Acts
<1>2. n.op \in {"create", "sync", "webhook"} /\ n.pc \in {"log", "call", "answer", "fail", "tell"}
  BY DEF Tells
<1>3. CASE Inserts(h)
  <2>1. PICK t \in Transfer : /\ row[t].status = NoStatus
                              /\ row'[t] = [row[t] EXCEPT !.status = "PENDING"]
                              /\ n.tx = t /\ n.op = "create"
    BY <1>3 DEF Inserts, Writes
  <2>2. row'[t].status = "PENDING"
    BY <1>1, <2>1 DEF TypeOK, Row
  <2>3. EventOf(h)' = "payment.initiated"
    BY <2>1 DEF EventOf
  <2> QED
    BY <2>1, <2>2, <2>3
<1>4. CASE Applies(h)
  <2>1. /\ k.tx \in Transfer /\ k.op \in {"sync", "webhook"} /\ k.target \in Status
        /\ Applicable(row[k.tx].status, k.target)
    BY <1>1, <1>4, ClaimsType DEF Applies, InFlight, Fresh
  <2>2. n.op = k.op /\ n.tx = k.tx /\ n.target = k.target
    BY <1>1, <1>4 DEF Applies, Goes, Task
  <2>3. row'[k.tx].status = k.target
    BY <1>1, <1>4, <2>1 DEF Applies, Writes, TypeOK, Row
  <2>4. EventOf(h)' = NoticeOf(k.target) /\ NoticeOf(k.target) # NoStatus
    BY <2>1, <2>2 DEF EventOf, Tells
  <2> QED
    BY <2>1, <2>2, <2>3, <2>4
<1>5. ASSUME k.tx \in Transfer, Tells(h), n.tx = k.tx, n.op = k.op,
             k.op = "create" \/ n.target = k.target
      PROVE  Tells(h) /\ n.tx \in Transfer /\ n.tx = k.tx /\ EventOf(h)' = EventOf(h)
  BY <1>5 DEF EventOf
<1>6. CASE Logs(h)
  <2>1. k.tx \in Transfer /\ k.pc = "log" /\ n.tx = k.tx /\ n.op = k.op /\ n.target = k.target
    BY <1>1, <1>2, <1>6 DEF Logs, Goes, InFlight, Task, Idle
  <2>2. Tells(h)
    BY <1>2, <2>1 DEF Tells
  <2> QED
    BY <1>5, <2>1, <2>2
<1>7. CASE Accepts(h) \/ Errs(h) \/ Fails(h) \/ Persists(h)
  <2>1. /\ k.tx \in Transfer /\ k.pc \in {"call", "answer", "fail"} /\ k.op = "create"
        /\ n.tx = k.tx /\ n.op = k.op
    BY <1>1, <1>7 DEF Accepts, Errs, Fails, Persists, Goes, InFlight, Task
  <2>2. Tells(h)
    BY <2>1 DEF Tells
  <2> QED
    BY <1>5, <2>1, <2>2
<1>8. CASE Cancels(h)
  BY <1>1, <1>2, <1>8 DEF Cancels, Goes, InFlight, Task
<1>9. CASE Reads(h) \/ Receives(h) \/ Announces(h) \/ Ends(h)
  <2>1. CASE Reads(h)
    <3>1. n.pc \in {"cancel", "get"}
      BY <2>1 DEF Reads
    <3> QED
      BY <1>2, <3>1
  <2>2. CASE Receives(h)
    BY <1>2, <2>2 DEF Receives
  <2>3. CASE Announces(h) \/ Ends(h)
    BY <1>2, <2>3 DEF Announces, Ends, Idle
  <2> QED
    BY <1>9, <2>1, <2>2, <2>3
<1>10. CASE Shows(h) \/ Finds(h) \/ Stores(h) \/ Throws(h)
  BY <1>1, <1>2, <1>10 DEF Shows, Finds, Stores, Throws, Goes, Task
<1>11. ASSUME NEW seen, Returns(h, seen) PROVE FALSE
  BY <1>1, <1>2, <1>11 DEF Returns, Task, Idle
<1> QED
  BY <1>3, <1>4, <1>6, <1>7, <1>8, <1>9, <1>10, <1>11 DEF Acts, Declines, Notifies

(* The told statuses are closed under the moves of a row. *)
LEMMA ToldStays ==
  ASSUME HookIInv, HookIInv', NEW h \in Handler, Acts(h), Fresh(h), NEW t \in Transfer
  PROVE  /\ \A e \in NoticeEvent : row[t].status \in ToldOf(e) => row'[t].status \in ToldOf(e)
         /\ Exists(t) => row'[t].status # NoStatus
<1>1. \/ row'[t].status = row[t].status
      \/ row'[t].status = "REFUNDED"
      \/ row'[t].status \in Status /\ ~ isTerminal(row[t].status)
  BY RowMoves
<1>2. "REFUNDED" \in Status /\ NoStatus \notin Status
  BY DEF Status, NoStatus
<1> QED
  BY <1>1, <1>2 DEF ToldOf, NoticeEvent, isTerminal, Terminal, Exists

(* What is applied had not been told of, nor is anybody else about to. *)
LEMMA NewsIsNew ==
  ASSUME NEW s \in Status, NEW r \in Status \cup {NoStatus}, Applicable(r, s), NoticeOf(s) # NoStatus
  PROVE  /\ NoticeOf(s) \in NoticeEvent /\ NoticeOf(s) # "payment.initiated"
         /\ r \notin ToldOf(NoticeOf(s))
         /\ \A u \in Status : NoticeOf(u) = NoticeOf(s) => u = s
         /\ r # s
<1>1. s \in {"COMPLETED", "FAILED", "REFUNDED"}
  BY DEF NoticeOf
<1> QED
  BY <1>1 DEF NoticeOf, NoticeEvent, ToldOf, Applicable, isTerminal, Terminal, NoStatus

(* A step of a request keeps Telling. *)
LEMMA ActTelling ==
  ASSUME HookIInv, HookIInv', NEW h \in Handler, Acts(h), AllFresh, Telling
  PROVE  Telling'
<1> DEFINE k == task[h]
           n == task'[h]
<1>1. /\ TypeOK /\ TypeOK' /\ Fresh(h) /\ Untold(h)
      /\ \A g \in Handler \ {h} : task'[g] = task[g]
  BY DEF HookIInv, IInv, AllFresh, Telling, Acts
<1>2. \A t \in Transfer, e \in NoticeEvent :
        /\ notices[t][e] \in 0 .. NoticeCap /\ notices'[t][e] \in 0 .. NoticeCap
        /\ notices'[t][e] # notices[t][e] =>
             /\ t = k.tx /\ e = EventOf(h) /\ notices'[t][e] = 1
             /\ UNCHANGED row /\ row[t].status \in ToldOf(e) /\ Tells(h) /\ ~ Tells(h)'
  <2>1. \A t \in Transfer, e \in NoticeEvent :
          notices[t][e] \in 0 .. NoticeCap /\ notices'[t][e] \in 0 .. NoticeCap
    BY <1>1 DEF TypeOK
  <2>2. CASE UNCHANGED notices
    BY <2>1, <2>2
  <2>3. CASE /\ k.tx \in Transfer /\ EventOf(h) \in NoticeEvent
             /\ Counts(k.tx, EventOf(h)) /\ UNCHANGED row
             /\ row[k.tx].status \in ToldOf(EventOf(h))
             /\ Tells(h) /\ ~ Tells(h)'
    <3>1. notices[k.tx][EventOf(h)] = 0
      BY <1>1, <2>3 DEF Untold
    <3> QED
      BY <2>1, <2>3, <3>1 DEF Counts
  <2> QED
    BY <1>1, <2>2, <2>3, NoticeMoves
<1>3. ToldOnce'
  <2>1. \A t \in Transfer, e \in NoticeEvent : notices'[t][e] <= 1
    BY <1>2 DEF Telling, ToldOnce
  <2> QED
    BY <2>1 DEF ToldOnce
<1>4. \A t \in Transfer, e \in NoticeEvent : notices'[t][e] > 0 => row'[t].status \in ToldOf(e)
  <2> SUFFICES ASSUME NEW t \in Transfer, NEW e \in NoticeEvent, notices'[t][e] > 0
               PROVE  row'[t].status \in ToldOf(e)
    OBVIOUS
  <2>1. CASE notices'[t][e] = notices[t][e]
    <3>1. row[t].status \in ToldOf(e)
      BY <2>1 DEF Telling
    <3> QED
      BY <1>1, <3>1, ToldStays
  <2>2. CASE notices'[t][e] # notices[t][e]
    BY <1>2, <2>2
  <2> QED
    BY <2>1, <2>2
<1>5. Tells(h)' =>
        /\ n.tx \in Transfer /\ UNCHANGED notices
        /\ \/ Tells(h) /\ n.tx = k.tx /\ EventOf(h)' = EventOf(h)
           \/ /\ row[n.tx].status = NoStatus /\ row'[n.tx].status = "PENDING"
              /\ EventOf(h)' = "payment.initiated"
           \/ \E s \in Status :
                /\ Applicable(row[n.tx].status, s) /\ row'[n.tx].status = s
                /\ EventOf(h)' = NoticeOf(s) /\ NoticeOf(s) # NoStatus
  BY <1>1, TellsMoves, NoticeMoves
<1>6. Untold(h)'
  <2> SUFFICES ASSUME Tells(h)'
               PROVE  row'[n.tx].status # NoStatus /\ notices[n.tx][EventOf(h)'] = 0
    BY <1>5 DEF Untold, Exists
  <2>1. CASE Tells(h) /\ n.tx = k.tx /\ EventOf(h)' = EventOf(h)
    BY <1>1, <1>5, <2>1, ToldStays DEF Untold
  <2>2. CASE row[n.tx].status = NoStatus /\ row'[n.tx].status = "PENDING"
             /\ EventOf(h)' = "payment.initiated"
    <3>1. ~ (notices[n.tx]["payment.initiated"] > 0) /\ "payment.initiated" \in NoticeEvent
      BY <1>5, <2>2 DEF Telling, NoticeEvent, ToldOf, Status, NoStatus
    <3>2. notices[n.tx]["payment.initiated"] \in 0 .. NoticeCap
      BY <1>2, <1>5, <3>1
    <3> QED
      BY <2>2, <3>1, <3>2 DEF NoStatus, NoticeCap
  <2>3. ASSUME NEW s \in Status, Applicable(row[n.tx].status, s), row'[n.tx].status = s,
               EventOf(h)' = NoticeOf(s), NoticeOf(s) # NoStatus
        PROVE  row'[n.tx].status # NoStatus /\ notices[n.tx][EventOf(h)'] = 0
    <3>1. row[n.tx].status \in Status \cup {NoStatus}
      BY <1>1, <1>5 DEF TypeOK, Row
    <3>2. NoticeOf(s) \in NoticeEvent /\ row[n.tx].status \notin ToldOf(NoticeOf(s))
      BY <2>3, <3>1, NewsIsNew
    <3>3. ~ (notices[n.tx][NoticeOf(s)] > 0)
      BY <1>5, <3>2 DEF Telling
    <3>4. notices[n.tx][NoticeOf(s)] \in 0 .. NoticeCap
      BY <1>2, <1>5, <3>2
    <3>5. notices[n.tx][NoticeOf(s)] = 0
      BY <3>3, <3>4 DEF NoticeCap
    <3> QED
      BY <2>3, <3>5 DEF Status, NoStatus
  <2> QED
    BY <1>5, <2>1, <2>2, <2>3
<1>7. ASSUME NEW g \in Handler \ {h}, Tells(g)
      PROVE  /\ task[g].tx \in Transfer /\ EventOf(g) \in NoticeEvent
             /\ Tells(h)' => ~ (n.tx = task[g].tx /\ EventOf(h)' = EventOf(g))
  <2>1. InFlight(g) /\ task[g] \in Task /\ Untold(g) /\ Fresh(g)
    BY DEF HookIInv, IInv, TypeOK, Telling, AllFresh
  <2>2. task[g].tx \in Transfer
    BY <1>7, <2>1 DEF Tells, InFlight
  <2>3. EventOf(g) \in NoticeEvent
    BY <1>7, <2>1 DEF Tells, EventOf, NoticeOf, NoticeEvent, NoStatus
  <2>4. ASSUME Tells(h)', n.tx = task[g].tx, EventOf(h)' = EventOf(g)
        PROVE  FALSE
    <3>1. CASE Tells(h) /\ n.tx = k.tx /\ EventOf(h)' = EventOf(h)
      BY <1>7, <2>4, <3>1 DEF Telling
    <3>2. CASE row[n.tx].status = NoStatus
      BY <1>7, <2>1, <2>4, <3>2 DEF Untold, Exists
    <3>3. ASSUME NEW s \in Status, Applicable(row[n.tx].status, s),
                 EventOf(h)' = NoticeOf(s), NoticeOf(s) # NoStatus
          PROVE  FALSE
      <4>1. row[n.tx].status \in Status \cup {NoStatus}
        BY <1>1, <2>2, <2>4 DEF TypeOK, Row
      <4>2. /\ NoticeOf(s) # "payment.initiated" /\ row[n.tx].status # s
            /\ \A u \in Status : NoticeOf(u) = NoticeOf(s) => u = s
        BY <3>3, <4>1, NewsIsNew
      <4>3. task[g].op # "create" /\ NoticeOf(task[g].target) = NoticeOf(s)
        BY <2>4, <3>3, <4>2 DEF EventOf
      <4>4. task[g].target \in Status /\ row[task[g].tx].status = task[g].target
        BY <1>7, <2>1, <4>3, ClaimsType DEF Tells, Fresh, InFlight
      <4> QED
        BY <2>4, <4>2, <4>3, <4>4
    <3> QED
      BY <1>5, <2>4, <3>1, <3>2, <3>3
  <2> QED
    BY <2>2, <2>3, <2>4
<1>8. ASSUME NEW g \in Handler \ {h}
      PROVE  Untold(g)' /\ (Tells(g)' <=> Tells(g)) /\ EventOf(g)' = EventOf(g)
  <2>1. task'[g] = task[g] /\ Untold(g)
    BY <1>1 DEF Telling
  <2>2. (Tells(g)' <=> Tells(g)) /\ EventOf(g)' = EventOf(g)
    BY <2>1 DEF Tells, EventOf
  <2>3. CASE Tells(g)
    <3>1. task[g].tx \in Transfer /\ EventOf(g) \in NoticeEvent
      BY <1>7, <2>3
    <3>2. row'[task[g].tx].status # NoStatus
      BY <1>1, <2>1, <2>3, <3>1, ToldStays DEF Untold
    <3>3. notices[task[g].tx][EventOf(g)] = 0
      BY <2>1, <2>3 DEF Untold
    <3>4. notices'[task[g].tx][EventOf(g)] = notices[task[g].tx][EventOf(g)]
      BY <1>2, <2>3, <3>1 DEF Telling
    <3>5. notices'[task'[g].tx][EventOf(g)'] = 0
      BY <2>1, <2>2, <3>3, <3>4
    <3> QED
      BY <2>1, <2>2, <3>2, <3>5 DEF Untold, Exists
  <2> QED
    BY <2>2, <2>3 DEF Untold
<1>9. ASSUME NEW f \in Handler, NEW g \in Handler, Tells(f)', Tells(g)',
             task'[f].tx = task'[g].tx, EventOf(f)' = EventOf(g)'
      PROVE  f = g
  <2>1. CASE f # h /\ g # h
    <3>1. Tells(f) /\ Tells(g) /\ task[f].tx = task[g].tx /\ EventOf(f) = EventOf(g)
      BY <1>1, <1>8, <1>9, <2>1
    <3> QED
      BY <3>1 DEF Telling
  <2>2. CASE f = h /\ g # h
    <3>1. Tells(g) /\ task'[g].tx = task[g].tx /\ EventOf(g)' = EventOf(g)
      BY <1>1, <1>8, <1>9, <2>2
    <3> QED
      BY <1>7, <1>9, <2>2, <3>1
  <2>3. CASE f # h /\ g = h
    <3>1. Tells(f) /\ task'[f].tx = task[f].tx /\ EventOf(f)' = EventOf(f)
      BY <1>1, <1>8, <1>9, <2>3
    <3> QED
      BY <1>7, <1>9, <2>3, <3>1
  <2> QED
    BY <2>1, <2>2, <2>3
<1> QED
  BY <1>3, <1>4, <1>6, <1>8, <1>9 DEF Telling

(* With no stale write, the sender is told of each event once at most:      *)
(* initiated, completed, failed and refunded.  (create, notifyStatusChange) *)
THEOREM EachEventIsToldOnce == HookSpec /\ []AllFresh => []ToldOnce
<1>1. HookInit => Telling
  BY DEF HookInit, Init, Telling, ToldOnce, Untold, Tells, Idle
<1>2. HookIInv /\ HookIInv' /\ Telling /\ AllFresh /\ [HookNext]_allVars => Telling'
  <2> SUFFICES ASSUME HookIInv, HookIInv', Telling, AllFresh, [HookNext]_allVars
               PROVE  Telling'
    OBVIOUS
  <2>1. CASE UNCHANGED vars \/ Progresses
    <3>1. UNCHANGED <<row, notices, task>>
      BY <2>1 DEF vars, Progresses
    <3> QED
      BY <3>1 DEF Telling, ToldOnce, Untold, Tells, EventOf, Exists
  <2>2. CASE \E h \in Handler : Acts(h)
    BY <2>2, ActTelling
  <2> QED
    BY <2>1, <2>2, Effects
<1>3. Telling => ToldOnce
  BY DEF Telling
<1> QED
  BY <1>1, <1>2, <1>3, HookInvariantHolds, PTL DEF HookSpec

-----------------------------------------------------------------------------
(* What the table webhooks says of the rows.                                *)

(* What has been applied to a row stays applied.                            *)
LEMMA AppliedStays ==
  ASSUME HookIInv, HookIInv', NEW h \in Handler, Acts(h), Fresh(h), NEW t \in Transfer,
         NEW s, Applied(t, s)
  PROVE  isTerminal(s) => isTerminal(row'[t].status) /\ (s = "REFUNDED" => row'[t].status = s)
<1>1. \/ row'[t].status = row[t].status
      \/ row'[t].status = "REFUNDED"
      \/ ~ isTerminal(row[t].status)
  BY RowMoves
<1> QED
  BY <1>1 DEF Applied, isTerminal, Terminal

(* A handler keeps carrying its message to the row of webhooks it closes.   *)
LEMMA ActCarries ==
  ASSUME HookIInv, NEW h \in Handler, Acts(h), Fresh(h), Carries(h), wire \subseteq wire'
  PROVE  Carries(h)'
<1> DEFINE k == task[h]
           n == task'[h]
           Named(q) == \E m \in wire' : /\ m.id = q.hook /\ m.tx = q.tx
                                        /\ mapWebhookEventToStatus(m.event) = q.target
           AP(t, s) == isTerminal(s) => isTerminal(row'[t].status)
                                        /\ (s = "REFUNDED" => row'[t].status = s)
<1>1. k \in Task /\ n \in Task /\ InFlight(h) /\ HookInFlight(h)
  BY DEF HookIInv, IInv, TypeOK, Acts
<1>2. Carries(h)' <=>
        /\ n.op = "webhook" /\ n.hook # NoDelivery => Named(n)
        /\ n.pc = "store" => n.seen = NoStatus
        /\ n.pc = "mark" /\ n.seen # NoStatus => n.tx \in Transfer /\ AP(n.tx, n.target)
  BY DEF Carries, Applied
<1>3. k.op = "webhook" /\ k.hook # NoDelivery => Named(k)
  BY DEF Carries
<1> HIDE DEF Named, AP
<1>4. CASE n.op # "webhook" /\ n.pc \notin {"store", "mark"}
  BY <1>2, <1>4
<1>5. ASSUME n.op = k.op, n.hook = k.hook, n.tx = k.tx, n.target = k.target
      PROVE  n.op = "webhook" /\ n.hook # NoDelivery => Named(n)
  BY <1>3, <1>5 DEF Named
<1>6. CASE Receives(h)
  <2>1. PICK m \in wire : /\ n.pc = "store" /\ n.tx = m.tx /\ n.seen = NoStatus /\ n.hook = m.id
                          /\ n.target = mapWebhookEventToStatus(m.event)
    BY <1>6 DEF Receives
  <2>2. Named(n)
    BY <2>1 DEF Named
  <2> QED
    BY <1>2, <2>1, <2>2
<1>7. CASE Inserts(h) \/ Reads(h)
  <2>1. n.op \in {"create", "cancel", "sync"} /\ n.pc \in {"log", "cancel", "get"}
    <3>1. CASE Inserts(h)
      <4>1. n.op = "create" /\ n.pc = "log"
        BY <3>1 DEF Inserts
      <4> QED
        BY <4>1
    <3>2. CASE Reads(h)
      <4>1. n.op \in {"cancel", "sync"} /\ n.pc \in {"cancel", "get"}
        BY <3>2 DEF Reads
      <4> QED
        BY <4>1
    <3> QED
      BY <1>7, <3>1, <3>2
  <2> QED
    BY <1>4, <2>1
<1>8. CASE Announces(h) \/ Ends(h)
  BY <1>4, <1>8 DEF Announces, Ends, Idle
<1>9. CASE Accepts(h) \/ Errs(h) \/ Fails(h) \/ Persists(h) \/ Cancels(h) \/ Shows(h)
  <2>1. n.op = k.op /\ k.op \in {"create", "cancel", "sync"}
        /\ n.pc \in {"answer", "fail", "log", "tell", "find"}
    BY <1>1, <1>9 DEF Accepts, Errs, Fails, Persists, Cancels, Shows, Goes, Task, InFlight
  <2> QED
    BY <1>4, <2>1
<1>10. CASE Logs(h) \/ Applies(h) \/ Throws(h) \/ Finds(h)
  <2>1. n = Idle \/ /\ n.op = k.op /\ n.hook = k.hook /\ n.tx = k.tx /\ n.target = k.target
                    /\ n.pc \in {"call", "tell", "log", "markError", "write"}
    BY <1>1, <1>10 DEF Logs, Applies, Throws, Finds, Goes, Task
  <2>2. CASE n = Idle
    BY <1>4, <2>2 DEF Idle
  <2> QED
    BY <1>2, <1>5, <2>1, <2>2
<1>11. CASE Stores(h)
  <2>1. /\ n.op = k.op /\ n.hook = k.hook /\ n.tx = k.tx /\ n.target = k.target
        /\ n.seen = k.seen /\ k.pc = "store" /\ n.pc \in {"mark", "find"}
    BY <1>1, <1>11 DEF Stores, Goes, Task
  <2>2. n.seen = NoStatus
    BY <2>1 DEF Carries
  <2> QED
    BY <1>2, <1>5, <2>1, <2>2
<1>12. ASSUME NEW seen, Returns(h, seen), k.tx \in Transfer, seen # NoStatus => AP(k.tx, k.target)
       PROVE  Carries(h)'
  <2>1. CASE k.op = "webhook"
    <3>1. /\ n.op = k.op /\ n.hook = k.hook /\ n.tx = k.tx /\ n.target = k.target
          /\ n.seen = seen /\ n.pc = "mark"
      BY <1>1, <1>12, <2>1 DEF Returns, Task
    <3> QED
      BY <1>2, <1>5, <1>12, <3>1
  <2>2. CASE k.op # "webhook"
    BY <1>4, <1>12, <2>2 DEF Returns, Idle
  <2> QED
    BY <2>1, <2>2
<1>13. CASE Declines(h)
  <2>1. k.tx \in Transfer /\ UNCHANGED row
    BY <1>1, <1>13 DEF Declines, InFlight
  <2>2. ASSUME ~ Applicable(row[k.tx].status, k.target) PROVE AP(k.tx, k.target)
    BY <2>1, <2>2 DEF AP, Applicable, isTerminal, Terminal, NoStatus
  <2> QED
    BY <1>12, <1>13, <2>1, <2>2 DEF Declines
<1>14. CASE Notifies(h)
  <2>1. k.tx \in Transfer /\ UNCHANGED row /\ k.op \in {"sync", "webhook"} /\ k.pc = "tell"
    BY <1>1, <1>14 DEF Notifies, InFlight
  <2>2. row[k.tx].status = k.target
    BY <2>1 DEF Fresh
  <2>3. AP(k.tx, k.target)
    BY <2>1, <2>2 DEF AP
  <2> QED
    BY <1>12, <1>14, <2>1, <2>3 DEF Notifies
<1> QED
  BY <1>6, <1>7, <1>8, <1>9, <1>10, <1>11, <1>13, <1>14 DEF Acts

(* The messages and the table webhooks: GeniusPay sends a message under an  *)
(* identifier of its own, or a handler writes the row of its delivery.      *)
Sends ==
  /\ \E m \in Message : /\ wire' = wire \cup {m}
                        /\ m.id # NoDelivery => \A o \in wire : o.id # m.id
  /\ UNCHANGED <<vars, hooks>>

Marks(h) ==
  LET k == task[h] IN
  /\ k.pc \in {"store", "mark", "markError"}
  /\ \E state \in {"stored", "processed", "error"}, link \in Transfer \cup {NoTransfer} :
       /\ SetHook(k.hook, state, link)
       /\ state = "processed" => k.pc = "mark"
       /\ state = "processed" /\ link # NoTransfer => k.seen # NoStatus /\ link = k.tx
  /\ UNCHANGED <<row, wire>>

LEMMA HookMoves ==
  ASSUME HookIInv, [HookNext]_allVars
  PROVE  UNCHANGED <<wire, hooks>> \/ Sends \/ \E h \in Handler : Marks(h)
<1>1. CASE (Next /\ UNCHANGED hookVars) \/ UNCHANGED allVars
  BY <1>1 DEF hookVars, allVars
<1>2. ASSUME NEW h \in Handler, HookStep(h)
      PROVE  UNCHANGED <<wire, hooks>> \/ Marks(h)
  <2>1. CASE HookStoreRefused(h)
    BY <2>1 DEF HookStoreRefused, hookVars
  <2>2. CASE HookStore(h)
    BY <2>2 DEF HookStore, Marks, At
  <2>3. CASE HookMark(h)
    <3> DEFINE k == task[h]
               link == IF k.seen = NoStatus THEN NoTransfer ELSE k.tx
    <3>1. k.pc = "mark" /\ SetHook(k.hook, "processed", link) /\ UNCHANGED <<row, wire>>
      BY <2>3 DEF HookMark, At
    <3>2. link \in Transfer \cup {NoTransfer}
      BY DEF HookIInv, HookTypeOK, TypeOK, Task
    <3>3. link # NoTransfer => k.seen # NoStatus /\ link = k.tx
      OBVIOUS
    <3> QED
      BY <3>1, <3>2, <3>3 DEF Marks
  <2>4. CASE HookMarkError(h)
    BY <2>4 DEF HookMarkError, Marks, At
  <2> QED
    BY <1>2, <2>1, <2>2, <2>3, <2>4 DEF HookStep
<1>3. ASSUME NEW h \in Handler,
             ApplyThrows(h) \/ \E m \in wire : HookReceive(h, m) \/ HookDuplicate(h, m)
      PROVE  UNCHANGED <<wire, hooks>>
  BY <1>3 DEF ApplyThrows, HookReceive, HookDuplicate, hookVars
<1>4. ASSUME NEW d \in SentIds, NEW t \in Transfer \cup {NoTransfer}, NEW event \in SentEvents,
             GatewaySend(d, t, event)
      PROVE  Sends
  <2> DEFINE m == [id |-> d, tx |-> t, event |-> event]
  <2>1. m \in Message
    BY SentIdsAssumption, SentEventsAssumption DEF Message
  <2>2. /\ wire' = wire \cup {m} /\ UNCHANGED <<vars, hooks>>
        /\ d # NoDelivery => \A o \in wire : o.id # d
    BY <1>4 DEF GatewaySend
  <2> QED
    BY <2>1, <2>2 DEF Sends
<1> QED
  BY <1>1, <1>2, <1>3, <1>4 DEF HookNext

(* Every step keeps Processing. *)
LEMMA NextProcessing ==
  ASSUME HookIInv, HookIInv', [HookNext]_allVars, AllFresh, Processing
  PROVE  Processing'
<1>1. wire \subseteq wire'
  BY HookMoves DEF Sends, Marks
<1>2. \A t \in Transfer : \A s :
        Applied(t, s) => (isTerminal(s) => isTerminal(row'[t].status)
                                           /\ (s = "REFUNDED" => row'[t].status = s))
  <2>1. CASE UNCHANGED vars \/ Progresses
    <3>1. UNCHANGED row
      BY <2>1 DEF vars, Progresses
    <3> QED
      BY <3>1 DEF Applied
  <2>2. CASE \E h \in Handler : Acts(h)
    BY <2>2, AppliedStays DEF AllFresh
  <2> QED
    BY <2>1, <2>2, Effects
<1>3. \A h \in Handler : Carries(h)'
  <2>1. ASSUME NEW g \in Handler, task'[g] = task[g] PROVE Carries(g)'
    <3>1. Carries(g)
      BY DEF Processing
    <3> QED
      BY <1>1, <1>2, <2>1, <3>1 DEF Carries, Applied
  <2>2. CASE UNCHANGED vars \/ Progresses
    BY <2>1, <2>2 DEF vars, Progresses
  <2>3. ASSUME NEW h \in Handler, Acts(h) PROVE \A g \in Handler : Carries(g)'
    <3>1. Carries(h)'
      BY <1>1, <2>3, ActCarries DEF AllFresh, Processing
    <3>2. \A g \in Handler \ {h} : task'[g] = task[g]
      BY <2>3 DEF Acts
    <3> QED
      BY <2>1, <3>1, <3>2
  <2> QED
    BY <2>2, <2>3, Effects
<1>4. /\ \A m, n \in wire' : m.id = n.id /\ m.id # NoDelivery => m = n
      /\ \A d \in Delivery : hooks'[d].state # "absent" => \E m \in wire' : m.id = d
  <2>1. CASE UNCHANGED <<wire, hooks>>
    BY <2>1 DEF Processing
  <2>2. CASE Sends
    BY <2>2 DEF Sends, Processing
  <2>3. ASSUME NEW h \in Handler, Marks(h)
        PROVE  \A d \in Delivery : hooks'[d].state # "absent" => \E m \in wire' : m.id = d
    <3>1. task[h].op = "webhook" /\ Carries(h)
      BY <2>3 DEF HookIInv, HookInFlight, Marks, Processing
    <3>2. UNCHANGED wire /\ \A d \in Delivery : d # task[h].hook => hooks'[d] = hooks[d]
      BY <2>3 DEF Marks, SetHook
    <3> QED
      BY <3>1, <3>2, NoDeliveryAssumption DEF Carries, Processing
  <2>4. ASSUME NEW h \in Handler, Marks(h) PROVE UNCHANGED wire
    BY <2>4 DEF Marks
  <2> QED
    BY <2>1, <2>2, <2>3, <2>4, HookMoves DEF Processing
<1>5. ProcessedIsApplied'
  <2> SUFFICES ASSUME NEW m \in wire', m.id # NoDelivery, m.tx # NoTransfer,
                      isTerminal(mapWebhookEventToStatus(m.event)),
                      hooks'[m.id] = [state |-> "processed", link |-> m.tx]
               PROVE  LET s == mapWebhookEventToStatus(m.event) IN
                      isTerminal(row'[m.tx].status) /\ (s = "REFUNDED" => row'[m.tx].status = s)
    BY DEF ProcessedIsApplied
  <2>1. m.id \in Delivery /\ m.tx \in Transfer
    BY DEF HookIInv, HookTypeOK, Message
  <2>2. ASSUME m \in wire, hooks[m.id] = hooks'[m.id]
        PROVE  Applied(m.tx, mapWebhookEventToStatus(m.event))
    BY <2>2 DEF Processing, ProcessedIsApplied, Applied
  <2>3. CASE UNCHANGED <<wire, hooks>>
    BY <1>2, <2>1, <2>2, <2>3
  <2>4. CASE Sends
    <3>1. PICK n \in Message : /\ wire' = wire \cup {n} /\ UNCHANGED hooks
                               /\ n.id # NoDelivery => \A o \in wire : o.id # n.id
      BY <2>4 DEF Sends
    <3>2. CASE m = n
      <4>1. \A o \in wire : o.id # m.id
        BY <3>1, <3>2
      <4>2. hooks[m.id].state = "processed"
        BY <3>1
      <4> QED
        BY <2>1, <4>1, <4>2 DEF Processing
    <3>3. CASE m \in wire
      BY <1>2, <2>1, <2>2, <3>1, <3>3
    <3> QED
      BY <3>1, <3>2, <3>3
  <2>5. ASSUME NEW h \in Handler, Marks(h)
        PROVE  LET s == mapWebhookEventToStatus(m.event) IN
               isTerminal(row'[m.tx].status) /\ (s = "REFUNDED" => row'[m.tx].status = s)
    <3> DEFINE k == task[h]
    <3>1. PICK state \in {"stored", "processed", "error"}, link \in Transfer \cup {NoTransfer} :
            /\ SetHook(k.hook, state, link)
            /\ state = "processed" => k.pc = "mark"
            /\ state = "processed" /\ link # NoTransfer => k.seen # NoStatus /\ link = k.tx
      BY <2>5 DEF Marks
    <3>2. UNCHANGED <<row, wire>> /\ k.op = "webhook" /\ Carries(h)
      BY <2>5 DEF Marks, Processing, HookIInv, HookInFlight
    <3>3. CASE m.id # k.hook
      <4>1. hooks'[m.id] = hooks[m.id]
        BY <2>1, <3>1, <3>3 DEF SetHook
      <4> QED
        BY <1>2, <2>1, <2>2, <3>2, <4>1
    <3>4. CASE m.id = k.hook
      <4>1. state = "processed" /\ link = m.tx
        BY <2>1, <3>1, <3>4 DEF SetHook
      <4>2. k.pc = "mark" /\ k.seen # NoStatus /\ k.tx = m.tx
        BY <3>1, <4>1
      <4>3. mapWebhookEventToStatus(m.event) = k.target
        BY <3>2, <3>4 DEF Carries, Processing
      <4>4. Applied(k.tx, k.target)
        BY <3>2, <4>2 DEF Carries
      <4> QED
        BY <1>2, <2>1, <4>2, <4>3, <4>4
    <3> QED
      BY <3>3, <3>4
  <2> QED
    BY <2>3, <2>4, <2>5, HookMoves
<1> QED
  BY <1>3, <1>4, <1>5 DEF Processing

(* With no stale write, what the table webhooks says is processed and       *)
(* linked to a transfer has been applied to it: the row is terminal, and    *)
(* REFUNDED after a refund.  (applyGatewayUpdate, process)                  *)
THEOREM ProcessedWebhooksAreApplied == HookSpec /\ []AllFresh => []ProcessedIsApplied
<1>1. HookInit => Processing
  BY DEF HookInit, Init, Processing, ProcessedIsApplied, Carries, Idle
<1>2. HookIInv /\ HookIInv' /\ Processing /\ AllFresh /\ [HookNext]_allVars => Processing'
  BY NextProcessing
<1>3. Processing => ProcessedIsApplied
  BY DEF Processing
<1> QED
  BY <1>1, <1>2, <1>3, HookInvariantHolds, PTL DEF HookSpec

-----------------------------------------------------------------------------
(* So, as long as the requests and webhooks of one transfer do not overlap, *)
(* whatever fails, its events are told once, its completion date stays and  *)
(* what is marked processed has been applied.  (all of TransactionsService, *)
(* WebhooksService.process)                                                 *)
THEOREM SerialRequestsAreExact ==
  HookSpec /\ []OneAtATime => []ToldOnce /\ []ProcessedIsApplied /\ CompletionDateKept
BY SerialIsFresh, EachEventIsToldOnce, ProcessedWebhooksAreApplied, CompletionDateStays, PTL
=============================================================================
