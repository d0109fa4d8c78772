------------------------------ MODULE Transfers ------------------------------
(***************************************************************************)
(* The life of a money transfer in TransactionsService                     *)
(* (src/backend/src/modules/transactions/transactions.service.ts).         *)
(*                                                                         *)
(* The API process runs many request handlers at once.  Between two awaits *)
(* a handler runs alone; at every await the others may run.  Each Prisma   *)
(* call is one statement on the database, none is in a database            *)
(* transaction, so a handler is cut into one action per statement and per  *)
(* call of GeniusPay.  What a handler read earlier stays in its record     *)
(* task[h], and may be out of date when it is used.                        *)
(***************************************************************************)
EXTENDS TransactionStatus, Naturals

CONSTANTS
  Transfer,      \* the transfers (one row of the table transactions each)
  NoTransfer,    \* "no transfer", for a handler that is idle
  Handler,       \* the requests that may be in flight at one time
  Delivery,      \* the webhook deliveries (module Webhooks; {} without them)
  NoDelivery,    \* "no delivery": the request is not an identified webhook
  PostAnswers,   \* the statuses POST /payments may answer
  UserOps,       \* what the users ask for besides creating: "cancel", "sync"
  Faults         \* what may go wrong: "crash", "gateway"

ASSUME NoTransferAssumption == NoTransfer \notin Transfer
ASSUME NoDeliveryAssumption == NoDelivery \notin Delivery
ASSUME PostAnswersAssumption == PostAnswers \subseteq GatewayStatus
ASSUME UserOpsAssumption == UserOps \subseteq {"cancel", "sync"}
ASSUME FaultsAssumption == Faults \subseteq {"crash", "gateway"}

VARIABLES
  row,      \* the table transactions: status, whether geniusPayReference and
            \* completedAt are set
  logs,     \* the table transaction_logs, as the set of entries of a transfer
  notices,  \* how many times the sender was told of each event, up to NoticeCap
  pay,      \* the status of the payment at GeniusPay
  task      \* the handlers in flight: the operation, where it stands, and
            \* what it holds in its local variables

vars == <<row, logs, notices, pay, task>>

NoticeCap == 2    \* "twice or more": notices saturates there
NoticeEvent == {"payment.initiated", "payment.success", "payment.failed",
                "payment.refunded"}

Op == {"none", "create", "cancel", "sync", "webhook"}
Pc == {"idle", "call", "answer", "fail", "cancel", "get", "store", "find",
       "write", "log", "tell", "mark", "markError"}

Row == [status : Status \cup {NoStatus}, ref : BOOLEAN, completedAt : BOOLEAN]

LogEntry == [from : Status \cup {NoStatus}, to : Status, source : Op \ {"none"}]

(* tx: the transfer; seen, completedAt: the row as the handler read it;     *)
(* target: the status it writes or the one GeniusPay answered; hook: the    *)
(* X-Webhook-Delivery of a webhook.                                         *)
Task == [op : Op, pc : Pc, tx : Transfer \cup {NoTransfer},
         seen : Status \cup {NoStatus}, completedAt : BOOLEAN,
         target : Status \cup {NoStatus}, hook : Delivery \cup {NoDelivery}]

Idle == [op |-> "none", pc |-> "idle", tx |-> NoTransfer, seen |-> NoStatus,
         completedAt |-> FALSE, target |-> NoStatus, hook |-> NoDelivery]

TypeOK ==
  /\ row \in [Transfer -> Row]
  /\ logs \in [Transfer -> SUBSET LogEntry]
  /\ notices \in [Transfer -> [NoticeEvent -> 0 .. NoticeCap]]
  /\ pay \in [Transfer -> GatewayStatus \cup {NoPayment}]
  /\ task \in [Handler -> Task]

Init ==
  /\ row = [t \in Transfer |->
             [status |-> NoStatus, ref |-> FALSE, completedAt |-> FALSE]]
  /\ logs = [t \in Transfer |-> {}]
  /\ notices = [t \in Transfer |-> [e \in NoticeEvent |-> 0]]
  /\ pay = [t \in Transfer |-> NoPayment]
  /\ task = [h \in Handler |-> Idle]

-----------------------------------------------------------------------------
(* Helpers. *)

At(h, pc) == task[h].pc = pc

Exists(t) == row[t].status # NoStatus

Goto(h, pc) == task' = [task EXCEPT ![h].pc = pc]

Finish(h) == task' = [task EXCEPT ![h] = Idle]

Tell(t, event) ==
  notices' = [notices EXCEPT ![t][event] = IF @ < NoticeCap THEN @ + 1 ELSE @]

(* A new request for transfer t takes a free slot; seen and completedAt are *)
(* the row as it has just been read.                                        *)
Begin(h, op, pc, t, target) ==
  /\ At(h, "idle")
  /\ task' = [task EXCEPT ![h] =
       [op |-> op, pc |-> pc, tx |-> t, seen |-> row[t].status,
        completedAt |-> row[t].completedAt, target |-> target, hook |-> NoDelivery]]

-----------------------------------------------------------------------------
(* create: insert the row, log it, call POST /payments, store the answer.   *)

CreateInsert(h, t) ==
  /\ ~ Exists(t)
  /\ Begin(h, "create", "log", t, "PENDING")
  /\ row' = [row EXCEPT ![t].status = "PENDING"]
  /\ UNCHANGED <<logs, notices, pay>>

(* addLog, the second statement of every status change.  create goes on     *)
(* with its call of GeniusPay after the first entry; applyGatewayUpdate     *)
(* notifies; cancel and markFailed end.                                     *)
AddLog(h) ==
  LET k == task[h] IN
  /\ At(h, "log")
  /\ logs' = [logs EXCEPT ![k.tx] = @ \cup
                {[from |-> k.seen, to |-> k.target, source |-> k.op]}]
  /\ \/ k.op = "create" /\ k.target = "PENDING" /\ Goto(h, "call")
     \/ k.op = "create" /\ k.target = "FAILED"  /\ Finish(h)
     \/ k.op = "cancel"                         /\ Finish(h)
     \/ k.op \in {"sync", "webhook"}            /\ Goto(h, "tell")
  /\ UNCHANGED <<row, notices, pay>>

(* GeniusPay accepts the payment; its answer is on its way back. *)
GatewayAccept(h) ==
  LET t == task[h].tx IN
  /\ At(h, "call")
  /\ \E s \in PostAnswers :
       /\ pay' = [pay EXCEPT ![t] = s]
       /\ task' = [task EXCEPT ![h].pc = "answer",
                               ![h].target = mapGeniusPayStatus(s)]
  /\ UNCHANGED <<row, logs, notices>>

(* GeniusPay refuses, cannot be reached, or its answer is lost or comes     *)
(* after the 20 s timeout although the payment exists.                      *)
GatewayError(h) ==
  /\ "gateway" \in Faults
  /\ At(h, "call") \/ At(h, "answer")
  /\ Goto(h, "fail")
  /\ UNCHANGED <<row, logs, notices, pay>>

(* markFailed writes FAILED whatever the row holds now, and its log entry   *)
(* always says PENDING -> FAILED.                                           *)
MarkFailed(h) ==
  /\ At(h, "fail")
  /\ row' = [row EXCEPT ![task[h].tx].status = "FAILED"]
  /\ task' = [task EXCEPT ![h].pc = "log", ![h].seen = "PENDING",
                          ![h].target = "FAILED"]
  /\ UNCHANGED <<logs, notices, pay>>

(* The answer of POST /payments is stored, its status whatever the row      *)
(* holds now, with no entry in transaction_logs.                            *)
CreatePersist(h) ==
  LET k == task[h] IN
  /\ At(h, "answer")
  /\ row' = [row EXCEPT ![k.tx].status = k.target, ![k.tx].ref = TRUE]
  /\ Goto(h, "tell")
  /\ UNCHANGED <<logs, notices, pay>>

(* notifyInitiated ends create; beneficiary and audit rows are other tables. *)
NotifyInitiated(h) ==
  /\ At(h, "tell") /\ task[h].op = "create"
  /\ Tell(task[h].tx, "payment.initiated")
  /\ Finish(h)
  /\ UNCHANGED <<row, logs, pay>>

-----------------------------------------------------------------------------
(* cancel: read, refuse a terminal status, write CANCELLED, log.            *)

CancelRead(h, t) ==
  /\ "cancel" \in UserOps
  /\ Exists(t)
  /\ ~ isTerminal(row[t].status)
  /\ Begin(h, "cancel", "cancel", t, "CANCELLED")
  /\ UNCHANGED <<row, logs, notices, pay>>

(* A slip: the cancellation is not logged. *)
CancelWrite_unlogged(h) ==
  /\ At(h, "cancel")
  /\ row' = [row EXCEPT ![task[h].tx].status = "CANCELLED"]
  /\ Finish(h)
  /\ UNCHANGED <<logs, notices, pay>>

CancelWrite(h) ==
  /\ At(h, "cancel")
  /\ row' = [row EXCEPT ![task[h].tx].status = "CANCELLED"]
  /\ Goto(h, "log")
  /\ UNCHANGED <<logs, notices, pay>>

-----------------------------------------------------------------------------
(* syncStatus: read the row, ask GeniusPay, apply what it answered.         *)

SyncRead(h, t) ==
  /\ "sync" \in UserOps
  /\ row[t].ref
  /\ Begin(h, "sync", "get", t, NoStatus)
  /\ UNCHANGED <<row, logs, notices, pay>>

(* GeniusPay answers GET /payments/{reference}; by the time the answer is   *)
(* used the payment may have moved on.                                      *)
GatewayShow(h) ==
  /\ At(h, "get")
  /\ task' = [task EXCEPT ![h].pc = "find",
                          ![h].target = mapGeniusPayStatus(pay[task[h].tx])]
  /\ UNCHANGED <<row, logs, notices, pay>>

(* The consultation fails: syncStatus throws, nothing is written.           *)
GatewayShowError(h) ==
  /\ "gateway" \in Faults
  /\ At(h, "get") \/ (At(h, "find") /\ task[h].op = "sync")
  /\ Finish(h)
  /\ UNCHANGED <<row, logs, notices, pay>>

-----------------------------------------------------------------------------
(* applyGatewayUpdate, shared by syncStatus and by the webhooks.            *)

(* A slip: the terminal statuses are not checked. *)
Applicable_anyStatus(status, target) == target # NoStatus

(* Another: a terminal status is final, even for a refund. *)
Applicable_noRefund(status, target) == target # NoStatus /\ ~ isTerminal(status)

(* The early returns: no status to apply, the status already there, a       *)
(* terminal status that only a refund may follow.                           *)
Applicable(status, target) ==
  /\ target # NoStatus
  /\ ~ (isTerminal(status) /\ status = target)
  /\ isTerminal(status) => target = "REFUNDED"

(* applyGatewayUpdate returns: to syncStatus, which only re-reads the row,  *)
(* or to the webhook's process, which marks its row of webhooks.            *)
ApplyReturn_unmarked(h, seen) == Finish(h)    \* a slip

ApplyReturn(h, seen) ==
  task' = [task EXCEPT ![h] = IF @.op = "webhook"
                                THEN [@ EXCEPT !.pc = "mark", !.seen = seen]
                                ELSE Idle]

(* A slip: the update forgets the completedAt it read. *)
ApplyWrite_undated(h) ==
  LET k == task[h] IN
  /\ At(h, "write")
  /\ row' = [row EXCEPT ![k.tx].status = k.target,
                        ![k.tx].completedAt = (k.target = "COMPLETED")]
  /\ Goto(h, "log")
  /\ UNCHANGED <<logs, notices, pay>>

(* The lookup by geniusPayReference and the early returns.                  *)
ApplyFind(h) ==
  LET k == task[h]
      r == row[k.tx] IN
  /\ At(h, "find")
  /\ \/ /\ ~ r.ref
        /\ ApplyReturn(h, NoStatus)
     \/ /\ r.ref /\ ~ Applicable(r.status, k.target)
        /\ ApplyReturn(h, r.status)
     \/ /\ r.ref /\ Applicable(r.status, k.target)
        /\ task' = [task EXCEPT ![h].pc = "write", ![h].seen = r.status,
                                ![h].completedAt = r.completedAt]
  /\ UNCHANGED <<row, logs, notices, pay>>

(* The update is by id alone: it does not check that the row is still the   *)
(* one ApplyFind read, and writes back the completedAt it read.             *)
ApplyWrite(h) ==
  LET k == task[h] IN
  /\ At(h, "write")
  /\ row' = [row EXCEPT ![k.tx].status = k.target,
                        ![k.tx].completedAt = (k.target = "COMPLETED") \/ k.completedAt]
  /\ Goto(h, "log")
  /\ UNCHANGED <<logs, notices, pay>>

(* A slip: an expired payment is told as a failed one. *)
NoticeOf_expiredAsFailed(status) ==
  CASE status = "COMPLETED"             -> "payment.success"
    [] status \in {"FAILED", "EXPIRED"} -> "payment.failed"
    [] status = "REFUNDED"              -> "payment.refunded"
    [] OTHER                            -> NoStatus

(* notifyStatusChange tells the sender of three of the statuses only.       *)
NoticeOf(status) ==
  CASE status = "COMPLETED" -> "payment.success"
    [] status = "FAILED"    -> "payment.failed"
    [] status = "REFUNDED"  -> "payment.refunded"
    [] OTHER                -> NoStatus

ApplyNotify(h) ==
  LET k == task[h] IN
  /\ At(h, "tell") /\ k.op # "create"
  /\ IF NoticeOf(k.target) # NoStatus THEN Tell(k.tx, NoticeOf(k.target))
                                      ELSE UNCHANGED notices
  /\ ApplyReturn(h, k.seen)
  /\ UNCHANGED <<row, logs, pay>>

-----------------------------------------------------------------------------
(* The payment moves on inside GeniusPay. *)
GatewayProgress(t) ==
  /\ \E s \in GatewayMoves(pay[t]) : pay' = [pay EXCEPT ![t] = s]
  /\ UNCHANGED <<row, logs, notices, task>>

(* The process dies, or a statement of the handler fails: nothing further   *)
(* of the request runs, and nothing it wrote is undone.                     *)
Crash(h) ==
  /\ "crash" \in Faults
  /\ ~ At(h, "idle")
  /\ Finish(h)
  /\ UNCHANGED <<row, logs, notices, pay>>

(* The steps of a request in flight that wait for nobody.                   *)
Step(h) ==
  \/ AddLog(h) \/ GatewayAccept(h) \/ MarkFailed(h) \/ CreatePersist(h)
  \/ NotifyInitiated(h) \/ CancelWrite(h) \/ GatewayShow(h)
  \/ ApplyFind(h) \/ ApplyWrite(h) \/ ApplyNotify(h)

Request(h, t) == CreateInsert(h, t) \/ CancelRead(h, t) \/ SyncRead(h, t)

Next ==
  \/ \E h \in Handler : \/ Step(h) \/ GatewayError(h) \/ GatewayShowError(h)
                        \/ Crash(h)
                        \/ \E t \in Transfer : Request(h, t)
  \/ \E t \in Transfer : GatewayProgress(t)

Spec == Init /\ [][Next]_vars

(* The fairness of the event loop: a request in flight always takes its     *)
(* next step (GeniusPay answers or the 20 s timeout expires).               *)
Fairness == \A h \in Handler : WF_vars(Step(h) \/ GatewayError(h) \/ GatewayShowError(h))

(* ... and a sender who keeps asking for the status of each transfer.       *)
PatientSender == \A t \in Transfer : SF_vars(\E h \in Handler : SyncRead(h, t))

(* GeniusPay does not fail for ever: of the consultations of a transfer     *)
(* again and again made, some are answered and the answer arrives.          *)
GatewayAnswers ==
  \A t \in Transfer :
    /\ SF_vars(\E h \in Handler : task[h].tx = t /\ GatewayShow(h))
    /\ SF_vars(\E h \in Handler : task[h].tx = t /\ ApplyFind(h))

-----------------------------------------------------------------------------
(* Properties. *)

(* Whatever is in flight and however late it is, a row shows a status that  *)
(* GeniusPay really gave its payment, or CANCELLED by its sender; a row     *)
(* without a GeniusPay reference was only ever created, refused or          *)
(* cancelled.  (create, cancel, applyGatewayUpdate)                         *)
GatewayBacked ==
  \A t \in Transfer :
    row[t].status \in IF row[t].ref
                        THEN Claims(pay[t]) \cup {"CANCELLED"}
                        ELSE {NoStatus, "PENDING", "FAILED", "CANCELLED"}

(* What the sender is told and what the journal says of GeniusPay is true   *)
(* of the payment, even when the row has been rewritten in between.         *)
(* (addLog, notifyStatusChange)                                             *)
HistoryTrue ==
  \A t \in Transfer :
    /\ notices[t]["payment.success"] > 0  => "COMPLETED" \in Claims(pay[t])
    /\ notices[t]["payment.failed"] > 0   => "FAILED" \in Claims(pay[t])
    /\ notices[t]["payment.refunded"] > 0 => "REFUNDED" \in Claims(pay[t])
    /\ \A e \in logs[t] : e.source \in {"sync", "webhook"} => e.to \in Claims(pay[t])

(* create has not stored GeniusPay's answer yet. *)
Creating(h) ==
  task[h].op = "create" /\ task[h].pc \in {"log", "call", "answer", "fail"}

(* What a handler in flight may count on, whatever the others did since its *)
(* last step: this is what makes GatewayBacked and HistoryTrue hold.        *)
InFlight(h) ==
  LET k == task[h] IN
  /\ k.pc \in {"call", "answer", "fail", "cancel", "get", "find", "write", "log", "tell"}
       => k.tx \in Transfer
  /\ k.pc \in {"call", "answer", "fail"} => k.op = "create"
  /\ k.pc = "get" => k.op = "sync"
  /\ k.pc \in {"find", "write"} => k.op \in {"sync", "webhook"}
  /\ k.pc = "tell" => k.op \in {"create", "sync", "webhook"}
  /\ Creating(h) => Exists(k.tx) /\ ~ row[k.tx].ref
  /\ k.op = "create" /\ k.pc \in {"log", "call"} /\ k.target = "PENDING"
       => pay[k.tx] = NoPayment
  /\ k.pc = "call" => k.target = "PENDING"
  /\ k.op = "cancel" => k.target = "CANCELLED"
  /\ k.pc = "cancel" => k.op = "cancel" /\ Exists(k.tx) /\ ~ isTerminal(k.seen)
  /\ k.pc = "write" => Applicable(k.seen, k.target)
  /\ k.pc \in {"get", "write"} => row[k.tx].ref
  /\ k.pc = "find" => k.target \in Claims(pay[k.tx]) \cup {NoStatus}
  /\ k.pc \in {"answer", "write"} => k.target \in Claims(pay[k.tx])
  /\ k.op \in {"sync", "webhook"} /\ k.pc \in {"log", "tell"}
       => k.target \in Claims(pay[k.tx])

(* One create per transfer; a payment for the rows that exist only, and for *)
(* each row that has a reference.                                           *)
Bound ==
  /\ \A g, h \in Handler :
       Creating(g) /\ Creating(h) /\ task[g].tx = task[h].tx => g = h
  /\ \A t \in Transfer : /\ ~ Exists(t) => pay[t] = NoPayment
                         /\ row[t].ref => pay[t] # NoPayment

(* The inductive invariant. *)
IInv ==
  /\ TypeOK
  /\ GatewayBacked
  /\ HistoryTrue
  /\ Bound
  /\ \A h \in Handler : InFlight(h)

Busy(t) == \E h \in Handler : task[h].tx = t

(* When no request on a transfer is in flight, its journal explains it: an  *)
(* entry leads to the status its row shows, and every status an entry       *)
(* starts from is one that another entry led to.  (addLog and its callers)  *)
StatusLogged ==
  \A t \in Transfer :
    Exists(t) /\ ~ Busy(t) =>
      LET led == {e.to : e \in logs[t]} IN
      /\ row[t].status \in led
      /\ \A e \in logs[t] : e.from \in led \cup {NoStatus}

(* The sender is told of each event once. *)
ToldOnce == \A t \in Transfer, e \in NoticeEvent : notices[t][e] <= 1

(* A handler about to write a status it decided on before the row became    *)
(* what it is: its snapshot is older, or it is create, which never reads.   *)
Late(h) ==
  /\ task[h].pc \in {"answer", "fail", "cancel", "write"}
  /\ task[h].op = "create" \/ ~ isTerminal(task[h].seen)

(* A terminal status changes only to REFUNDED, or by a handler that had     *)
(* looked at the row before it became terminal: no request that starts      *)
(* after the end revives a transfer.  (the checks of cancel and of          *)
(* applyGatewayUpdate)                                                      *)
OnlyLateWritersRevive ==
  [][\A t \in Transfer :
       isTerminal(row[t].status) /\ row'[t].status # row[t].status =>
         \/ row'[t].status = "REFUNDED"
         \/ \E h \in Handler : task[h].tx = t /\ Late(h) /\ task'[h] # task[h]]_vars

(* The completion date, once set, stays, through a refund too. *)
CompletionDateKept ==
  [][\A t \in Transfer : row[t].completedAt => row'[t].completedAt]_vars

(* One request at a time, each operation acts as if it were one step taken  *)
(* on the status of that instant.  (all of TransactionsService)             *)
Lifecycle == INSTANCE TransferLifecycle WITH
  status <- [t \in Transfer |-> row[t].status],
  linked <- [t \in Transfer |-> row[t].ref]

ImplementsLifecycle == Lifecycle!LSpec

(* If the sender keeps asking, the row of a settled payment ends in a       *)
(* terminal status and stays there, whatever stale writes come in between.  *)
SettledIsReflected ==
  <>[](\A t \in Transfer :
         row[t].ref /\ pay[t] \notin {"pending", "processing"} => isTerminal(row[t].status))
=============================================================================
