--------------------------- MODULE Transfers_proofs ---------------------------
(***************************************************************************)
(* Proofs about Transfers, for any number of transfers and of requests in  *)
(* flight, whatever POST /payments answers and whatever fails.             *)
(***************************************************************************)
EXTENDS Transfers, TLAPS

(* The translation table is truthful: what it makes of a status of GeniusPay *)
(* is a status that GeniusPay may claim of the payment.                      *)
LEMMA MapTrue ==
  ASSUME NEW p \in GatewayStatus
  PROVE  mapGeniusPayStatus(p) \in Claims(p) /\ mapGeniusPayStatus(p) \in Status
BY DEF mapGeniusPayStatus, Claims, GatewayStatus, NoPayment, Status

(* A payment never takes back what it has claimed. *)
LEMMA ClaimsGrow ==
  ASSUME NEW p, NEW q \in GatewayMoves(p)
  PROVE  Claims(p) \subseteq Claims(q) /\ q \in GatewayStatus
BY DEF Claims, GatewayMoves, GatewayStatus, NoPayment

(* What GeniusPay may claim is a status of ours; of no payment, nothing.    *)
LEMMA ClaimsType ==
  ASSUME NEW p
  PROVE  Claims(p) \subseteq Status /\ Claims(NoPayment) = {}
BY DEF Claims, NoPayment, Status

(* A free handler is a handler. *)
LEMMA IdleType == Idle \in Task
BY DEF Idle, Task, Op, Pc, NoStatus

-----------------------------------------------------------------------------
(* The empty tables are well typed, and no handler is busy. *)
LEMMA InitType == Init => TypeOK
BY IdleType DEF Init, TypeOK, Row, NoticeCap, NoStatus, NoPayment

(* A step that only moves handler h leaves the other records alone. *)
LEMMA OneMoves ==
  ASSUME TypeOK, NEW h \in Handler, NEW r \in Task, task' = [task EXCEPT ![h] = r]
  PROVE  /\ task' \in [Handler -> Task]
         /\ task'[h] = r
         /\ \A g \in Handler \ {h} : task'[g] = task[g]
BY DEF TypeOK

(* Moving on keeps everything of h but where it stands. *)
LEMMA GotoMoves ==
  ASSUME TypeOK, NEW h \in Handler, NEW pc \in Pc, Goto(h, pc)
  PROVE  /\ task' \in [Handler -> Task]
         /\ task'[h] = [task[h] EXCEPT !.pc = pc]
         /\ \A g \in Handler \ {h} : task'[g] = task[g]
<1> DEFINE r == [task[h] EXCEPT !.pc = pc]
<1>1. r \in Task
  BY DEF TypeOK, Task
<1>2. task' = [task EXCEPT ![h] = r]
  BY DEF Goto
<1> QED
  BY <1>1, <1>2, OneMoves

(* Ending empties the record of h. *)
LEMMA FinishMoves ==
  ASSUME TypeOK, NEW h \in Handler, Finish(h)
  PROVE  /\ task' \in [Handler -> Task]
         /\ task'[h] = Idle
         /\ \A g \in Handler \ {h} : task'[g] = task[g]
BY IdleType, OneMoves DEF Finish

(* An idle handler counts on nothing. *)
LEMMA IdleInFlight ==
  ASSUME NEW h \in Handler, task'[h] = Idle
  PROVE  InFlight(h)' /\ ~ Creating(h)'
BY DEF Idle, InFlight, Creating, NoStatus

(* What the other handlers count on survives a step of h that loses no row, *)
(* no reference and no claim, and touches no transfer being created.        *)
LEMMA OthersKeep ==
  ASSUME IInv, NEW h \in Handler,
         \A g \in Handler \ {h} : task'[g] = task[g],
         \A t \in Transfer : /\ row[t].status # NoStatus => row'[t].status # NoStatus
                             /\ row[t].ref => row'[t].ref
                             /\ Claims(pay[t]) \subseteq Claims(pay'[t]),
         \A g \in Handler \ {h} :
            Creating(g) => /\ ~ row'[task[g].tx].ref
                           /\ pay'[task[g].tx] = pay[task[g].tx],
         NEW g \in Handler, g # h
  PROVE  InFlight(g)'
<1>1. task'[g] = task[g] /\ InFlight(g) /\ task[g] \in Task
  BY DEF IInv, TypeOK
<1>2. CASE Creating(g)
  BY <1>1, <1>2 DEF InFlight, Creating, Exists
<1>3. CASE ~ Creating(g)
  BY <1>1, <1>3 DEF InFlight, Creating, Exists
<1> QED
  BY <1>2, <1>3

(* While create runs, its row exists and has no reference. *)
LEMMA Unreferenced ==
  ASSUME IInv, NEW g \in Handler, Creating(g)
  PROVE  task[g].tx \in Transfer /\ ~ row[task[g].tx].ref /\ row[task[g].tx].status # NoStatus
BY DEF IInv, InFlight, Creating, Exists

(* The same for the whole invariant, given what h itself has to show.       *)
LEMMA Preserve ==
  ASSUME IInv, TypeOK', GatewayBacked', HistoryTrue',
         NEW h \in Handler, InFlight(h)',
         \A g \in Handler \ {h} : task'[g] = task[g],
         \A t \in Transfer : /\ row[t].status # NoStatus => row'[t].status # NoStatus
                             /\ row[t].ref => row'[t].ref
                             /\ Claims(pay[t]) \subseteq Claims(pay'[t])
                             /\ row'[t].status = NoStatus => pay'[t] = NoPayment
                             /\ row'[t].ref => pay'[t] # NoPayment,
         \A g \in Handler \ {h} :
            Creating(g) => /\ ~ row'[task[g].tx].ref
                           /\ pay'[task[g].tx] = pay[task[g].tx],
         Creating(h)' => \/ Creating(h) /\ task'[h].tx = task[h].tx
                         \/ row[task'[h].tx].status = NoStatus
  PROVE  IInv'
<1>1. (\A g \in Handler : InFlight(g))'
  <2> SUFFICES ASSUME NEW g \in Handler PROVE InFlight(g)'
    OBVIOUS
  <2> QED
    BY OthersKeep
<1>2. \A g \in Handler : Creating(g) => row[task[g].tx].status # NoStatus
  BY DEF IInv, InFlight, Exists
<1>3. \A g \in Handler \ {h} : (task'[g].op = "create" /\ task'[g].pc \in {"log", "call", "answer", "fail"})
                               => Creating(g)
  BY DEF Creating
<1>4. Bound'
  BY <1>2, <1>3 DEF IInv, Bound, Exists, Creating
<1> QED
  BY <1>1, <1>4 DEF IInv

(* One entry more in the journal, true of the payment if GeniusPay is its   *)
(* source.                                                                  *)
LEMMA AddLogInv ==
  ASSUME IInv, NEW h \in Handler, AddLog(h)
  PROVE  IInv'
<1> DEFINE k == task[h]
           entry == [from |-> k.seen, to |-> k.target, source |-> k.op]
<1>1. k \in Task /\ k.pc = "log" /\ k.tx \in Transfer /\ InFlight(h) /\ TypeOK
  BY DEF AddLog, At, IInv, TypeOK, InFlight
<1>2. k.target \in Status /\ k.op \in {"create", "cancel", "sync", "webhook"}
  BY <1>1, ClaimsType DEF AddLog, InFlight, Status
<1>3. /\ UNCHANGED <<row, notices, pay>>
      /\ logs' = [logs EXCEPT ![k.tx] = @ \cup {entry}]
      /\ task' \in [Handler -> Task]
      /\ \A g \in Handler \ {h} : task'[g] = task[g]
      /\ \/ task'[h] = Idle
         \/ k.op = "create" /\ k.target = "PENDING" /\ task'[h] = [k EXCEPT !.pc = "call"]
         \/ k.op \in {"sync", "webhook"} /\ task'[h] = [k EXCEPT !.pc = "tell"]
  BY <1>1, GotoMoves, FinishMoves DEF AddLog, Pc
<1>4. TypeOK'
  <2>1. entry \in LogEntry
    BY <1>1, <1>2 DEF LogEntry, Task, Op
  <2> QED
    BY <1>3, <2>1 DEF IInv, TypeOK
<1>5. GatewayBacked'
  BY <1>3 DEF IInv, GatewayBacked
<1>6. HistoryTrue'
  BY <1>1, <1>2, <1>3 DEF IInv, HistoryTrue, InFlight, TypeOK
<1>7. InFlight(h)' /\ (Creating(h)' => Creating(h) /\ task'[h].tx = task[h].tx)
  BY <1>1, <1>3, IdleInFlight DEF InFlight, Creating, Exists, Task
<1> QED
  BY <1>3, <1>4, <1>5, <1>6, <1>7, Unreferenced, Preserve DEF IInv, Bound, Exists

(* The steps that write no table: they move h alone.                        *)
LEMMA QuietInv ==
  ASSUME IInv, NEW h \in Handler, UNCHANGED <<row, logs, notices, pay>>,
         task' \in [Handler -> Task],
         \A g \in Handler \ {h} : task'[g] = task[g],
         InFlight(h)', Creating(h)' => Creating(h) /\ task'[h].tx = task[h].tx
  PROVE  IInv'
<1>1. TypeOK' /\ GatewayBacked' /\ HistoryTrue'
  BY DEF IInv, TypeOK, GatewayBacked, HistoryTrue
<1> QED
  BY <1>1, Unreferenced, Preserve DEF IInv, Bound, Exists

(* A request that ends, whether answered or cut short. *)
LEMMA EndInv ==
  ASSUME IInv, NEW h \in Handler, UNCHANGED <<row, logs, notices, pay>>, Finish(h)
  PROVE  IInv'
<1>1. TypeOK
  BY DEF IInv
<1> QED
  BY <1>1, FinishMoves, IdleInFlight, QuietInv

(* A new row: nothing is known of its payment, which does not exist yet.     *)
LEMMA CreateInsertInv ==
  ASSUME IInv, NEW h \in Handler, NEW t \in Transfer, CreateInsert(h, t)
  PROVE  IInv'
<1> DEFINE r == [op |-> "create", pc |-> "log", tx |-> t, seen |-> row[t].status,
                 completedAt |-> row[t].completedAt, target |-> "PENDING",
                 hook |-> NoDelivery]
<1>1. TypeOK /\ row[t].status = NoStatus /\ ~ row[t].ref /\ pay[t] = NoPayment
  BY DEF CreateInsert, Exists, IInv, Bound, GatewayBacked, Claims, NoStatus, NoPayment
<1>2. r \in Task /\ row[t] \in Row
  BY <1>1 DEF TypeOK, Row, Task, Op, Pc, Status
<1>3. /\ UNCHANGED <<logs, notices, pay>>
      /\ row' = [row EXCEPT ![t].status = "PENDING"]
      /\ task' \in [Handler -> Task]
      /\ task'[h] = r
      /\ \A g \in Handler \ {h} : task'[g] = task[g]
  BY <1>1, <1>2, OneMoves DEF CreateInsert, Begin
<1>4. TypeOK'
  BY <1>1, <1>2, <1>3 DEF TypeOK, Row, Status
<1>5. /\ row'[t] = [row[t] EXCEPT !.status = "PENDING"]
      /\ \A u \in Transfer \ {t} : row'[u] = row[u]
  BY <1>1, <1>3 DEF TypeOK
<1>6. row'[t].status = "PENDING" /\ ~ row'[t].ref
  BY <1>1, <1>2, <1>5 DEF Row
<1>7. GatewayBacked'
  BY <1>3, <1>5, <1>6 DEF IInv, GatewayBacked
<1>8. HistoryTrue'
  BY <1>3 DEF IInv, HistoryTrue
<1>9. InFlight(h)' /\ row[task'[h].tx].status = NoStatus
  BY <1>1, <1>3, <1>6 DEF InFlight, Exists, Creating, NoStatus
<1>10. \A g \in Handler : Creating(g) => ~ row'[task[g].tx].ref
  BY <1>1, <1>5, Unreferenced
<1> QED
  BY <1>1, <1>3, <1>4, <1>5, <1>6, <1>7, <1>8, <1>9, <1>10, Preserve
  DEF IInv, Bound, Exists, NoStatus

(* The payment is opened; only the handler that asked for it knows.         *)
LEMMA GatewayAcceptInv ==
  ASSUME IInv, NEW h \in Handler, GatewayAccept(h)
  PROVE  IInv'
<1> DEFINE k == task[h]
<1>1. TypeOK /\ k \in Task /\ k.pc = "call" /\ InFlight(h)
  BY DEF GatewayAccept, At, IInv, TypeOK
<1>2. k.tx \in Transfer /\ k.op = "create" /\ pay[k.tx] = NoPayment /\ Creating(h)
  BY <1>1 DEF InFlight, Creating
<1>3. PICK s \in PostAnswers :
        /\ pay' = [pay EXCEPT ![k.tx] = s]
        /\ task' = [task EXCEPT ![h].pc = "answer", ![h].target = mapGeniusPayStatus(s)]
  BY DEF GatewayAccept
<1>4. /\ s \in GatewayStatus /\ s # NoPayment
      /\ mapGeniusPayStatus(s) \in Claims(s) \cap Status
  BY PostAnswersAssumption, MapTrue DEF GatewayStatus, NoPayment
<1> DEFINE r == [k EXCEPT !.pc = "answer", !.target = mapGeniusPayStatus(s)]
<1>5. r \in Task /\ task' = [task EXCEPT ![h] = r]
  BY <1>1, <1>3, <1>4 DEF Task, Pc
<1>6. /\ UNCHANGED <<row, logs, notices>>
      /\ task' \in [Handler -> Task]
      /\ task'[h] = r
      /\ \A g \in Handler \ {h} : task'[g] = task[g]
  BY <1>1, <1>5, OneMoves DEF GatewayAccept
<1>7. pay'[k.tx] = s /\ \A u \in Transfer \ {k.tx} : pay'[u] = pay[u]
  BY <1>1, <1>2, <1>3 DEF TypeOK
<1>8. \A u \in Transfer : Claims(pay[u]) \subseteq Claims(pay'[u])
  BY <1>2, <1>7, ClaimsType
<1>9. TypeOK'
  BY <1>1, <1>3, <1>4, <1>6 DEF TypeOK
<1>10. GatewayBacked' /\ HistoryTrue'
  BY <1>6, <1>8 DEF IInv, GatewayBacked, HistoryTrue
<1>11. InFlight(h)' /\ Creating(h) /\ task'[h].tx = task[h].tx
  BY <1>1, <1>2, <1>4, <1>6, <1>7 DEF InFlight, Creating, Exists, Task
<1>12. \A g \in Handler \ {h} : Creating(g) => task[g].tx \in Transfer \ {k.tx}
  BY <1>2 DEF IInv, Bound, InFlight, Creating
<1>13. row[k.tx].status # NoStatus
  BY <1>1, <1>2 DEF InFlight, Exists
<1>14. \A t \in Transfer : /\ row'[t] = row[t]
                           /\ row'[t].status = NoStatus => pay'[t] = NoPayment
                           /\ row'[t].ref => pay'[t] # NoPayment
  BY <1>2, <1>4, <1>6, <1>7, <1>13 DEF IInv, Bound, Exists
<1>15. \A g \in Handler \ {h} : Creating(g) => /\ ~ row'[task[g].tx].ref
                                               /\ pay'[task[g].tx] = pay[task[g].tx]
  BY <1>6, <1>7, <1>12, Unreferenced
<1> QED
  BY <1>6, <1>8, <1>9, <1>10, <1>11, <1>14, <1>15, Preserve

(* create takes its error path. *)
LEMMA GatewayErrorInv ==
  ASSUME IInv, NEW h \in Handler, GatewayError(h)
  PROVE  IInv'
<1>1. TypeOK /\ task[h] \in Task /\ task[h].pc \in {"call", "answer"} /\ InFlight(h)
  BY DEF GatewayError, At, IInv, TypeOK
<1>2. UNCHANGED <<row, logs, notices, pay>> /\ Goto(h, "fail")
  BY DEF GatewayError
<1>3. /\ task' \in [Handler -> Task]
      /\ task'[h] = [task[h] EXCEPT !.pc = "fail"]
      /\ \A g \in Handler \ {h} : task'[g] = task[g]
  BY <1>1, <1>2, GotoMoves DEF Pc
<1>4. InFlight(h)' /\ (Creating(h)' => Creating(h) /\ task'[h].tx = task[h].tx)
  BY <1>1, <1>2, <1>3 DEF InFlight, Creating, Exists, Task
<1> QED
  BY <1>2, <1>3, <1>4, QuietInv

(* The steps that write the row of one transfer that exists, and nothing    *)
(* else but their own record.                                               *)
LEMMA WriteInv ==
  ASSUME IInv, NEW h \in Handler, UNCHANGED <<logs, notices, pay>>,
         NEW t \in Transfer, NEW r \in Row, row' = [row EXCEPT ![t] = r],
         row[t].status # NoStatus, r.status # NoStatus,
         row[t].ref => r.ref,
         r.ref /\ ~ row[t].ref => Creating(h) /\ task[h].tx = t,
         r.ref => pay[t] # NoPayment /\ r.status \in Claims(pay[t]) \cup {"CANCELLED"},
         ~ r.ref => r.status \in {"PENDING", "FAILED", "CANCELLED"},
         task' \in [Handler -> Task],
         \A g \in Handler \ {h} : task'[g] = task[g],
         InFlight(h)', Creating(h)' => Creating(h) /\ task'[h].tx = task[h].tx
  PROVE  IInv'
<1>1. row'[t] = r /\ \A u \in Transfer \ {t} : row'[u] = row[u]
  BY DEF IInv, TypeOK
<1>2. TypeOK'
  BY DEF IInv, TypeOK
<1>3. GatewayBacked'
  BY <1>1 DEF IInv, GatewayBacked
<1>4. HistoryTrue'
  BY DEF IInv, HistoryTrue
<1>5. \A u \in Transfer : /\ row[u].status # NoStatus => row'[u].status # NoStatus
                          /\ row[u].ref => row'[u].ref
                          /\ Claims(pay[u]) \subseteq Claims(pay'[u])
                          /\ row'[u].status = NoStatus => pay'[u] = NoPayment
                          /\ row'[u].ref => pay'[u] # NoPayment
  BY <1>1 DEF IInv, Bound, Exists
<1>6. \A g \in Handler \ {h} : Creating(g) => /\ ~ row'[task[g].tx].ref
                                              /\ pay'[task[g].tx] = pay[task[g].tx]
  <2> SUFFICES ASSUME NEW g \in Handler \ {h}, Creating(g)
               PROVE  ~ row'[task[g].tx].ref
    OBVIOUS
  <2>1. ~ (Creating(h) /\ task[h].tx = task[g].tx)
    BY DEF IInv, Bound
  <2> QED
    BY <1>1, <2>1, Unreferenced
<1> QED
  BY <1>2, <1>3, <1>4, <1>5, <1>6, Preserve

(* FAILED is written only where no reference is: no other create runs.      *)
LEMMA MarkFailedInv ==
  ASSUME IInv, NEW h \in Handler, MarkFailed(h)
  PROVE  IInv'
<1> DEFINE k == task[h]
           r == [row[k.tx] EXCEPT !.status = "FAILED"]
           n == [k EXCEPT !.pc = "log", !.seen = "PENDING", !.target = "FAILED"]
<1>1. TypeOK /\ k \in Task /\ k.pc = "fail" /\ InFlight(h)
  BY DEF MarkFailed, At, IInv, TypeOK
<1>2. /\ k.tx \in Transfer /\ k.op = "create" /\ Creating(h)
      /\ row[k.tx] \in Row /\ row[k.tx].status # NoStatus /\ ~ row[k.tx].ref
  BY <1>1 DEF InFlight, Creating, Exists, TypeOK
<1>3. r \in Row /\ n \in Task /\ r.status = "FAILED" /\ ~ r.ref
  BY <1>1, <1>2 DEF Row, Task, Pc, Status
<1>4. UNCHANGED <<logs, notices, pay>> /\ row' = [row EXCEPT ![k.tx] = r]
  BY DEF MarkFailed
<1>5. /\ task' \in [Handler -> Task] /\ task'[h] = n
      /\ \A g \in Handler \ {h} : task'[g] = task[g]
  <2>1. task' = [task EXCEPT ![h] = n]
    BY DEF MarkFailed
  <2> QED
    BY <1>1, <1>3, <2>1, OneMoves
<1>6. row'[k.tx] = r
  BY <1>1, <1>2, <1>4 DEF TypeOK
<1>7. n.op = "create" /\ n.pc = "log" /\ n.tx = k.tx /\ n.target = "FAILED"
  BY <1>1, <1>2 DEF Task
<1>8. InFlight(h)' /\ task'[h].tx = task[h].tx
  BY <1>2, <1>3, <1>5, <1>6, <1>7 DEF InFlight, Creating, Exists, NoStatus
<1> QED
  BY <1>2, <1>3, <1>4, <1>5, <1>8, WriteInv DEF NoStatus

(* The answer is stored together with the reference it came with.           *)
LEMMA CreatePersistInv ==
  ASSUME IInv, NEW h \in Handler, CreatePersist(h)
  PROVE  IInv'
<1> DEFINE k == task[h]
           r == [row[k.tx] EXCEPT !.status = k.target, !.ref = TRUE]
<1>1. TypeOK /\ k \in Task /\ k.pc = "answer" /\ InFlight(h)
  BY DEF CreatePersist, At, IInv, TypeOK
<1>2. /\ k.tx \in Transfer /\ k.op = "create" /\ Creating(h)
      /\ row[k.tx] \in Row /\ row[k.tx].status # NoStatus /\ ~ row[k.tx].ref
      /\ k.target \in Claims(pay[k.tx])
  BY <1>1 DEF InFlight, Creating, Exists, TypeOK
<1>3. k.target \in Status /\ pay[k.tx] # NoPayment
  BY <1>2, ClaimsType
<1>4. r \in Row /\ r.status = k.target /\ r.ref
  BY <1>2, <1>3 DEF Row
<1>5. UNCHANGED <<logs, notices, pay>> /\ row' = [row EXCEPT ![k.tx] = r] /\ Goto(h, "tell")
  BY DEF CreatePersist
<1>6. /\ task' \in [Handler -> Task] /\ task'[h] = [k EXCEPT !.pc = "tell"]
      /\ \A g \in Handler \ {h} : task'[g] = task[g]
  BY <1>1, <1>5, GotoMoves DEF Pc
<1>7. InFlight(h)' /\ ~ Creating(h)'
  BY <1>1, <1>2, <1>6 DEF InFlight, Creating, Task
<1> QED
  BY <1>2, <1>3, <1>4, <1>5, <1>6, <1>7, WriteInv DEF NoStatus, Status

(* CANCELLED is written on a row that exists, whatever it holds now.        *)
LEMMA CancelWriteInv ==
  ASSUME IInv, NEW h \in Handler, CancelWrite(h)
  PROVE  IInv'
<1> DEFINE k == task[h]
           r == [row[k.tx] EXCEPT !.status = "CANCELLED"]
<1>1. TypeOK /\ k \in Task /\ k.pc = "cancel" /\ InFlight(h)
  BY DEF CancelWrite, At, IInv, TypeOK
<1>2. k.tx \in Transfer /\ row[k.tx] \in Row /\ k.op = "cancel" /\ Exists(k.tx)
  BY <1>1 DEF InFlight, TypeOK
<1>3. r \in Row /\ r.status = "CANCELLED" /\ r.ref = row[k.tx].ref
  BY <1>2 DEF Row, Status
<1>4. UNCHANGED <<logs, notices, pay>> /\ row' = [row EXCEPT ![k.tx] = r] /\ Goto(h, "log")
  BY DEF CancelWrite
<1>5. /\ task' \in [Handler -> Task] /\ task'[h] = [k EXCEPT !.pc = "log"]
      /\ \A g \in Handler \ {h} : task'[g] = task[g]
  BY <1>1, <1>4, GotoMoves DEF Pc
<1>6. InFlight(h)' /\ ~ Creating(h)'
  BY <1>1, <1>2, <1>4, <1>5 DEF InFlight, Creating, Task
<1>7. row[k.tx].ref => pay[k.tx] # NoPayment
  BY <1>2 DEF IInv, Bound
<1> QED
  BY <1>2, <1>3, <1>4, <1>5, <1>6, <1>7, WriteInv DEF Exists, NoStatus

(* A late status is written all the same: it is one the payment has had.    *)
LEMMA ApplyWriteInv ==
  ASSUME IInv, NEW h \in Handler, ApplyWrite(h)
  PROVE  IInv'
<1> DEFINE k == task[h]
           r == [row[k.tx] EXCEPT !.status = k.target,
                   !.completedAt = (k.target = "COMPLETED") \/ k.completedAt]
<1>1. TypeOK /\ k \in Task /\ k.pc = "write" /\ InFlight(h)
  BY DEF ApplyWrite, At, IInv, TypeOK
<1>2. /\ k.tx \in Transfer /\ k.op \in {"sync", "webhook"}
      /\ row[k.tx] \in Row /\ row[k.tx].ref /\ row[k.tx].status # NoStatus
      /\ k.target \in Claims(pay[k.tx])
  BY <1>1, ClaimsType DEF InFlight, TypeOK, IInv, GatewayBacked, NoStatus, Status
<1>3. k.target \in Status /\ pay[k.tx] # NoPayment
  BY <1>2, ClaimsType
<1>4. r \in Row /\ r.status = k.target /\ r.ref
  BY <1>1, <1>2, <1>3 DEF Row, Task
<1>5. UNCHANGED <<logs, notices, pay>> /\ row' = [row EXCEPT ![k.tx] = r] /\ Goto(h, "log")
  BY DEF ApplyWrite
<1>6. /\ task' \in [Handler -> Task] /\ task'[h] = [k EXCEPT !.pc = "log"]
      /\ \A g \in Handler \ {h} : task'[g] = task[g]
  BY <1>1, <1>5, GotoMoves DEF Pc
<1>7. InFlight(h)' /\ ~ Creating(h)'
  BY <1>1, <1>2, <1>5, <1>6 DEF InFlight, Creating, Task
<1> QED
  BY <1>2, <1>3, <1>4, <1>5, <1>6, <1>7, WriteInv DEF NoStatus, Status

(* Telling the sender changes one counter, which stays within its bound.    *)
LEMMA TellCounts ==
  ASSUME TypeOK, NEW t \in Transfer, NEW event \in NoticeEvent, Tell(t, event)
  PROVE  /\ notices' \in [Transfer -> [NoticeEvent -> 0 .. NoticeCap]]
         /\ \A u \in Transfer, e \in NoticeEvent :
              notices'[u][e] = notices[u][e] \/ (u = t /\ e = event)
BY DEF TypeOK, Tell, NoticeCap

(* The steps that write no table but notices.                               *)
LEMMA NoticeInv ==
  ASSUME IInv, NEW h \in Handler, UNCHANGED <<row, logs, pay>>,
         notices' \in [Transfer -> [NoticeEvent -> 0 .. NoticeCap]],
         NEW t \in Transfer, NEW event \in NoticeEvent,
         \A u \in Transfer, e \in NoticeEvent :
           notices'[u][e] = notices[u][e] \/ (u = t /\ e = event),
         event = "payment.success"  => "COMPLETED" \in Claims(pay[t]),
         event = "payment.failed"   => "FAILED" \in Claims(pay[t]),
         event = "payment.refunded" => "REFUNDED" \in Claims(pay[t]),
         task' \in [Handler -> Task],
         \A g \in Handler \ {h} : task'[g] = task[g],
         InFlight(h)', ~ Creating(h)'
  PROVE  IInv'
<1>1. TypeOK' /\ GatewayBacked'
  BY DEF IInv, TypeOK, GatewayBacked
<1>2. HistoryTrue'
  BY DEF IInv, HistoryTrue, NoticeEvent
<1> QED
  BY <1>1, <1>2, Unreferenced, Preserve DEF IInv, Bound, Exists

(* create tells the sender that the payment is initiated, and ends.         *)
LEMMA NotifyInitiatedInv ==
  ASSUME IInv, NEW h \in Handler, NotifyInitiated(h)
  PROVE  IInv'
<1>1. TypeOK /\ task[h].tx \in Transfer
  BY DEF NotifyInitiated, At, IInv, InFlight
<1>2. UNCHANGED <<row, logs, pay>> /\ Tell(task[h].tx, "payment.initiated") /\ Finish(h)
  BY DEF NotifyInitiated
<1>3. "payment.initiated" \in NoticeEvent
  BY DEF NoticeEvent
<1>4. /\ task' \in [Handler -> Task]
      /\ \A g \in Handler \ {h} : task'[g] = task[g]
      /\ InFlight(h)' /\ ~ Creating(h)'
  BY <1>1, <1>2, FinishMoves, IdleInFlight
<1>5. /\ notices' \in [Transfer -> [NoticeEvent -> 0 .. NoticeCap]]
      /\ \A u \in Transfer, e \in NoticeEvent :
           notices'[u][e] = notices[u][e] \/ (u = task[h].tx /\ e = "payment.initiated")
  BY <1>1, <1>2, <1>3, TellCounts
<1> QED
  BY <1>1, <1>2, <1>3, <1>4, <1>5, NoticeInv

(* applyGatewayUpdate returns: the handler is done, or only has its row of  *)
(* webhooks to mark.                                                        *)
LEMMA ApplyReturnMoves ==
  ASSUME TypeOK, NEW h \in Handler, NEW seen \in Status \cup {NoStatus},
         ApplyReturn(h, seen), task[h].op # "create", InFlight(h)
  PROVE  /\ task' \in [Handler -> Task]
         /\ \A g \in Handler \ {h} : task'[g] = task[g]
         /\ InFlight(h)' /\ ~ Creating(h)'
<1> DEFINE k == task[h]
           n == IF k.op = "webhook" THEN [k EXCEPT !.pc = "mark", !.seen = seen] ELSE Idle
<1>1. n \in Task
  BY IdleType DEF TypeOK, Task, Pc
<1>2. task' = [task EXCEPT ![h] = n]
  BY DEF ApplyReturn
<1>3. /\ task' \in [Handler -> Task] /\ task'[h] = n
      /\ \A g \in Handler \ {h} : task'[g] = task[g]
  BY <1>1, <1>2, OneMoves
<1>4. CASE k.op = "webhook"
  <2>1. k \in Task
    BY DEF TypeOK
  <2>2. task'[h].op = "webhook" /\ task'[h].pc = "mark" /\ task'[h].target = k.target
    BY <1>3, <1>4, <2>1 DEF Task
  <2> QED
    BY <1>3, <2>2 DEF InFlight, Creating
<1>5. CASE k.op # "webhook"
  BY <1>3, <1>5, IdleInFlight
<1> QED
  BY <1>3, <1>4, <1>5

(* The sender is told what the status just written says.                    *)
LEMMA ApplyNotifyInv ==
  ASSUME IInv, NEW h \in Handler, ApplyNotify(h)
  PROVE  IInv'
<1> DEFINE k == task[h]
<1>1. TypeOK /\ k \in Task /\ k.pc = "tell" /\ k.op # "create" /\ InFlight(h)
  BY DEF ApplyNotify, At, IInv, TypeOK
<1>2. /\ k.tx \in Transfer /\ k.op \in {"sync", "webhook"}
      /\ k.target \in Claims(pay[k.tx]) /\ k.seen \in Status \cup {NoStatus}
  BY <1>1 DEF InFlight, Task
<1>3. UNCHANGED <<row, logs, pay>> /\ ApplyReturn(h, k.seen)
  BY DEF ApplyNotify
<1>4. /\ task' \in [Handler -> Task]
      /\ \A g \in Handler \ {h} : task'[g] = task[g]
      /\ InFlight(h)' /\ ~ Creating(h)'
  BY <1>1, <1>2, <1>3, ApplyReturnMoves
<1>5. CASE NoticeOf(k.target) = NoStatus
  <2>1. UNCHANGED notices
    BY <1>5 DEF ApplyNotify
  <2> QED
    BY <1>3, <1>4, <2>1, QuietInv
<1>6. CASE NoticeOf(k.target) # NoStatus
  <2> DEFINE event == NoticeOf(k.target)
  <2>1. /\ event \in NoticeEvent
        /\ event = "payment.success"  => k.target = "COMPLETED"
        /\ event = "payment.failed"   => k.target = "FAILED"
        /\ event = "payment.refunded" => k.target = "REFUNDED"
    BY <1>6 DEF NoticeOf, NoticeEvent, NoStatus
  <2>2. Tell(k.tx, event)
    BY <1>6 DEF ApplyNotify
  <2>3. /\ event = "payment.success"  => "COMPLETED" \in Claims(pay[k.tx])
        /\ event = "payment.failed"   => "FAILED" \in Claims(pay[k.tx])
        /\ event = "payment.refunded" => "REFUNDED" \in Claims(pay[k.tx])
    BY <1>2, <2>1
  <2> HIDE DEF event
  <2>4. /\ notices' \in [Transfer -> [NoticeEvent -> 0 .. NoticeCap]]
        /\ \A u \in Transfer, e \in NoticeEvent :
             notices'[u][e] = notices[u][e] \/ (u = k.tx /\ e = event)
    BY <1>1, <1>2, <2>1, <2>2, TellCounts
  <2> QED
    BY <1>2, <1>3, <1>4, <2>1, <2>3, <2>4, NoticeInv
<1> QED
  BY <1>5, <1>6

(* A request enters a free slot without writing any table.                  *)
LEMMA BeginInv ==
  ASSUME IInv, NEW h \in Handler, NEW t \in Transfer,
         UNCHANGED <<row, logs, notices, pay>>,
         NEW op \in Op, NEW pc \in Pc, NEW target \in Status \cup {NoStatus},
         Begin(h, op, pc, t, target),
         \/ /\ op = "cancel" /\ pc = "cancel" /\ target = "CANCELLED"
            /\ Exists(t) /\ ~ isTerminal(row[t].status)
         \/ op = "sync" /\ pc = "get" /\ row[t].ref
  PROVE  IInv'
<1> DEFINE n == [op |-> op, pc |-> pc, tx |-> t, seen |-> row[t].status,
                 completedAt |-> row[t].completedAt, target |-> target,
                 hook |-> NoDelivery]
<1>1. TypeOK /\ row[t] \in Row
  BY DEF IInv, TypeOK
<1>2. n \in Task /\ task' = [task EXCEPT ![h] = n]
  BY <1>1 DEF Begin, Task, Row
<1>3. /\ task' \in [Handler -> Task] /\ task'[h] = n
      /\ \A g \in Handler \ {h} : task'[g] = task[g]
  BY <1>1, <1>2, OneMoves
<1>4. InFlight(h)' /\ ~ Creating(h)'
  BY <1>3 DEF InFlight, Creating, Exists
<1> QED
  BY <1>3, <1>4, QuietInv

(* cancel starts on a row that exists and is not terminal.                  *)
LEMMA CancelReadInv ==
  ASSUME IInv, NEW h \in Handler, NEW t \in Transfer, CancelRead(h, t)
  PROVE  IInv'
BY BeginInv DEF CancelRead, Op, Pc, Status

(* syncStatus starts on a row that has its reference.                       *)
LEMMA SyncReadInv ==
  ASSUME IInv, NEW h \in Handler, NEW t \in Transfer, SyncRead(h, t)
  PROVE  IInv'
BY BeginInv DEF SyncRead, Op, Pc

(* The status GeniusPay shows is one it may claim when it is applied.       *)
LEMMA GatewayShowInv ==
  ASSUME IInv, NEW h \in Handler, GatewayShow(h)
  PROVE  IInv'
<1> DEFINE k == task[h]
           n == [k EXCEPT !.pc = "find", !.target = mapGeniusPayStatus(pay[k.tx])]
<1>1. TypeOK /\ k \in Task /\ k.pc = "get" /\ InFlight(h)
  BY DEF GatewayShow, At, IInv, TypeOK
<1>2. /\ k.tx \in Transfer /\ k.op \in {"sync", "webhook"}
      /\ row[k.tx].ref /\ pay[k.tx] \in GatewayStatus
  BY <1>1 DEF InFlight, IInv, Bound, TypeOK
<1>3. /\ mapGeniusPayStatus(pay[k.tx]) \in Claims(pay[k.tx])
      /\ mapGeniusPayStatus(pay[k.tx]) \in Status
  BY <1>2, MapTrue
<1>4. n \in Task /\ task' = [task EXCEPT ![h] = n]
  BY <1>1, <1>3 DEF GatewayShow, Task, Pc
<1>5. /\ UNCHANGED <<row, logs, notices, pay>>
      /\ task' \in [Handler -> Task] /\ task'[h] = n
      /\ \A g \in Handler \ {h} : task'[g] = task[g]
  BY <1>1, <1>4, OneMoves DEF GatewayShow
<1>6. n.op = k.op /\ n.pc = "find" /\ n.tx = k.tx /\ n.target = mapGeniusPayStatus(pay[k.tx])
  BY <1>1 DEF Task
<1>7. InFlight(h)' /\ ~ Creating(h)'
  BY <1>2, <1>3, <1>5, <1>6 DEF InFlight, Creating
<1> QED
  BY <1>5, <1>7, QuietInv

(* The lookup: the handler goes on to write only what it may claim, of a    *)
(* row that has its reference.                                              *)
LEMMA ApplyFindInv ==
  ASSUME IInv, NEW h \in Handler, ApplyFind(h)
  PROVE  IInv'
<1> DEFINE k == task[h]
           r == row[k.tx]
           n == [k EXCEPT !.pc = "write", !.seen = r.status, !.completedAt = r.completedAt]
<1>1. TypeOK /\ k \in Task /\ k.pc = "find" /\ InFlight(h)
  BY DEF ApplyFind, At, IInv, TypeOK
<1>2. /\ k.tx \in Transfer /\ k.op \in {"sync", "webhook"} /\ r \in Row
      /\ k.target \in Claims(pay[k.tx]) \cup {NoStatus}
  BY <1>1 DEF InFlight, TypeOK
<1>3. UNCHANGED <<row, logs, notices, pay>>
  BY DEF ApplyFind
<1>4. ASSUME NEW seen \in Status \cup {NoStatus}, ApplyReturn(h, seen)
      PROVE  IInv'
  <2>1. /\ task' \in [Handler -> Task]
        /\ \A g \in Handler \ {h} : task'[g] = task[g]
        /\ InFlight(h)' /\ ~ Creating(h)'
    BY <1>1, <1>2, <1>4, ApplyReturnMoves
  <2> QED
    BY <1>3, <2>1, QuietInv
<1>5. ASSUME r.ref, Applicable(r.status, k.target), task' = [task EXCEPT ![h] = n]
      PROVE  IInv'
  <2>1. n \in Task
    BY <1>1, <1>2 DEF Task, Pc, Row
  <2>2. /\ task' \in [Handler -> Task] /\ task'[h] = n
        /\ \A g \in Handler \ {h} : task'[g] = task[g]
    BY <1>1, <1>5, <2>1, OneMoves
  <2>3. /\ n.op = k.op /\ n.pc = "write" /\ n.tx = k.tx
        /\ n.target = k.target /\ n.seen = r.status
    BY <1>1 DEF Task
  <2>4. k.target \in Claims(pay[k.tx])
    BY <1>2, <1>5 DEF Applicable
  <2>5. InFlight(h)' /\ ~ Creating(h)'
    BY <1>2, <1>3, <1>5, <2>2, <2>3, <2>4 DEF InFlight, Creating
  <2> QED
    BY <1>3, <2>2, <2>5, QuietInv
<1>6. CASE ApplyReturn(h, NoStatus)
  BY <1>4, <1>6
<1>7. CASE ApplyReturn(h, r.status)
  BY <1>2, <1>4, <1>7 DEF Row
<1>8. CASE r.ref /\ Applicable(r.status, k.target) /\ task' = [task EXCEPT ![h] = n]
  BY <1>5, <1>8
<1> QED
  BY <1>6, <1>7, <1>8 DEF ApplyFind

-----------------------------------------------------------------------------
(* A step of the payment itself: everybody counts on claims it keeps.       *)
LEMMA GatewayProgressInv ==
  ASSUME IInv, NEW t \in Transfer, GatewayProgress(t)
  PROVE  IInv'
<1>1. PICK s \in GatewayMoves(pay[t]) : pay' = [pay EXCEPT ![t] = s]
  BY DEF GatewayProgress
<1>2. UNCHANGED <<row, logs, notices, task>> /\ TypeOK
  BY DEF GatewayProgress, IInv
<1>3. /\ pay[t] # NoPayment /\ s \in GatewayStatus /\ s # NoPayment
      /\ Claims(pay[t]) \subseteq Claims(s)
  BY ClaimsGrow DEF GatewayMoves, GatewayStatus, NoPayment
<1>4. pay'[t] = s /\ \A u \in Transfer \ {t} : pay'[u] = pay[u]
  BY <1>1, <1>2 DEF TypeOK
<1>5. \A u \in Transfer : /\ Claims(pay[u]) \subseteq Claims(pay'[u])
                          /\ pay[u] = NoPayment <=> pay'[u] = NoPayment
  BY <1>3, <1>4
<1>6. TypeOK'
  BY <1>1, <1>2, <1>3 DEF TypeOK
<1>7. GatewayBacked' /\ HistoryTrue' /\ Bound'
  <2>1. GatewayBacked'
    BY <1>2, <1>5 DEF IInv, GatewayBacked
  <2>2. HistoryTrue'
    BY <1>2, <1>5 DEF IInv, HistoryTrue
  <2>3. Bound'
    BY <1>2, <1>5 DEF IInv, Bound, Exists, Creating
  <2> QED
    BY <2>1, <2>2, <2>3
<1>8. (\A h \in Handler : InFlight(h))'
  <2> SUFFICES ASSUME NEW h \in Handler
               PROVE  InFlight(h)'
    OBVIOUS
  <2>1. InFlight(h) /\ task'[h] = task[h] /\ row' = row
    BY <1>2 DEF IInv
  <2> QED
    BY <1>5, <2>1 DEF InFlight, Creating, Exists
<1> QED
  BY <1>6, <1>7, <1>8 DEF IInv

-----------------------------------------------------------------------------
(* The invariant holds initially. *)
LEMMA InitInv == Init => IInv
<1> SUFFICES ASSUME Init PROVE IInv
  OBVIOUS
<1>1. TypeOK
  BY InitType
<1>2. GatewayBacked /\ HistoryTrue /\ Bound
  BY DEF Init, GatewayBacked, HistoryTrue, Bound, Exists, Creating, Idle, NoStatus, NoticeEvent
<1>3. \A h \in Handler : InFlight(h)
  BY DEF Init, InFlight, Creating, Idle
<1> QED
  BY <1>1, <1>2, <1>3 DEF IInv

(* Every step of every handler, and of GeniusPay, keeps it. *)
LEMMA NextInv == IInv /\ [Next]_vars => IInv'
<1> SUFFICES ASSUME IInv, [Next]_vars PROVE IInv'
  OBVIOUS
<1>1. ASSUME NEW h \in Handler, Step(h) PROVE IInv'
  BY <1>1, AddLogInv, GatewayAcceptInv, MarkFailedInv, CreatePersistInv,
     NotifyInitiatedInv, CancelWriteInv, GatewayShowInv, ApplyFindInv,
     ApplyWriteInv, ApplyNotifyInv DEF Step
<1>2. ASSUME NEW h \in Handler, GatewayError(h) PROVE IInv'
  BY <1>2, GatewayErrorInv
<1>3. ASSUME NEW h \in Handler, GatewayShowError(h) \/ Crash(h) PROVE IInv'
  BY <1>3, EndInv DEF GatewayShowError, Crash
<1>4. ASSUME NEW h \in Handler, NEW t \in Transfer, Request(h, t) PROVE IInv'
  BY <1>4, CreateInsertInv, CancelReadInv, SyncReadInv DEF Request
<1>5. ASSUME NEW t \in Transfer, GatewayProgress(t) PROVE IInv'
  BY <1>5, GatewayProgressInv
<1>6. CASE UNCHANGED vars
  <2>1. (\A h \in Handler : InFlight(h))'
    BY <1>6 DEF vars, IInv, InFlight, Creating, Exists
  <2>2. TypeOK' /\ GatewayBacked' /\ HistoryTrue' /\ Bound'
    BY <1>6 DEF vars, IInv, TypeOK, GatewayBacked, HistoryTrue, Bound, Creating, Exists
  <2> QED
    BY <2>1, <2>2 DEF IInv
<1> QED
  BY <1>1, <1>2, <1>3, <1>4, <1>5, <1>6 DEF Next

(* Every reachable state satisfies the inductive invariant: whatever the    *)
(* requests in flight, their snapshots still say something true of the row  *)
(* and of the payment when they are used.  (all of TransactionsService)     *)
THEOREM InvariantHolds == Spec => []IInv
BY InitInv, NextInv, PTL DEF Spec

(* Every table and every handler's locals keep their type, the notice       *)
(* counters their bound.  (TransactionsService)                             *)
THEOREM TypeCorrect == Spec => []TypeOK
<1>1. IInv => TypeOK
  BY DEF IInv
<1> QED
  BY <1>1, InvariantHolds, PTL

(* However late and however interleaved the writes of create, cancel and    *)
(* applyGatewayUpdate are, a row never shows a status GeniusPay did not     *)
(* give its payment, except CANCELLED by the sender, and without a          *)
(* reference PENDING or FAILED.                                             *)
THEOREM RowsAreBacked == Spec => []GatewayBacked
<1>1. IInv => GatewayBacked
  BY DEF IInv
<1> QED
  BY <1>1, InvariantHolds, PTL

(* No notification of a success, a failure or a refund and no log entry of  *)
(* a sync or a webhook ever says of a payment what GeniusPay did not.       *)
(* (addLog, notifyStatusChange)                                             *)
THEOREM HistoryIsTrue == Spec => []HistoryTrue
<1>1. IInv => HistoryTrue
  BY DEF IInv
<1> QED
  BY <1>1, InvariantHolds, PTL

-----------------------------------------------------------------------------
(* A write of MarkFailed, CreatePersist, CancelWrite or ApplyWrite is late, *)
(* unless it is a refund; no other step changes a status that is terminal.  *)
LEMMA LateSteps ==
  ASSUME IInv, [Next]_vars, NEW t \in Transfer,
         isTerminal(row[t].status), row'[t].status # row[t].status
  PROVE  \/ row'[t].status = "REFUNDED"
         \/ \E h \in Handler : task[h].tx = t /\ Late(h) /\ task'[h] # task[h]
<1>1. TypeOK
  BY DEF IInv
<1>2. PICK h \in Handler :
        \/ MarkFailed(h) \/ CreatePersist(h) \/ CancelWrite(h) \/ ApplyWrite(h)
        \/ \E u \in Transfer : CreateInsert(h, u)
  BY DEF Next, Step, Request, vars, AddLog, GatewayAccept, NotifyInitiated, GatewayShow,
         ApplyFind, ApplyNotify, GatewayError, GatewayShowError, Crash, CancelRead,
         SyncRead, GatewayProgress
<1>3. task[h] \in Task /\ InFlight(h)
  BY <1>1 DEF IInv, TypeOK
<1>4. ASSUME NEW pc \in Pc, At(h, pc), pc # "log", task'[h].pc = "log" \/ task'[h].pc = "tell",
             pc \in {"answer", "fail", "cancel", "write"}, task[h].tx = t,
             task[h].op = "create" \/ ~ isTerminal(task[h].seen)
      PROVE  \E g \in Handler : task[g].tx = t /\ Late(g) /\ task'[g] # task[g]
  BY <1>4 DEF At, Late
<1>5. CASE MarkFailed(h)
  <2>1. At(h, "fail") /\ task[h].tx = t /\ task[h].op = "create" /\ task'[h].pc = "log"
    BY <1>1, <1>3, <1>5 DEF MarkFailed, At, InFlight, TypeOK, Task
  <2> QED
    BY <1>4, <2>1 DEF Pc
<1>6. CASE CreatePersist(h)
  <2>1. At(h, "answer") /\ task[h].tx = t /\ task[h].op = "create" /\ task'[h].pc = "tell"
    BY <1>1, <1>3, <1>6 DEF CreatePersist, At, InFlight, TypeOK, Task, Goto
  <2> QED
    BY <1>4, <2>1 DEF Pc
<1>7. CASE CancelWrite(h)
  <2>1. /\ At(h, "cancel") /\ task[h].tx = t /\ task'[h].pc = "log"
        /\ ~ isTerminal(task[h].seen)
    BY <1>1, <1>3, <1>7 DEF CancelWrite, At, InFlight, TypeOK, Task, Goto
  <2> QED
    BY <1>4, <2>1 DEF Pc
<1>8. CASE ApplyWrite(h)
  <2>1. /\ At(h, "write") /\ task[h].tx = t /\ task'[h].pc = "log"
        /\ row'[t].status = task[h].target /\ Applicable(task[h].seen, task[h].target)
    BY <1>1, <1>3, <1>8 DEF ApplyWrite, At, InFlight, TypeOK, Task, Goto, Row
  <2> QED
    BY <1>4, <2>1 DEF Pc, Applicable
<1>9. ASSUME NEW u \in Transfer, CreateInsert(h, u) PROVE FALSE
  BY <1>1, <1>9 DEF CreateInsert, Exists, TypeOK, Row, isTerminal, Terminal, NoStatus
<1> QED
  BY <1>2, <1>5, <1>6, <1>7, <1>8, <1>9

(* No request that starts after a transfer has ended revives it: a terminal *)
(* status gives way to a refund, or to a handler whose look at the row is   *)
(* older than that end.  (the checks of cancel and applyGatewayUpdate)      *)
THEOREM OnlyLateWritersCanRevive == Spec => OnlyLateWritersRevive
<1> DEFINE A == \A t \in Transfer :
                  isTerminal(row[t].status) /\ row'[t].status # row[t].status =>
                    \/ row'[t].status = "REFUNDED"
                    \/ \E h \in Handler : task[h].tx = t /\ Late(h) /\ task'[h] # task[h]
<1>1. IInv /\ [Next]_vars => A
  BY LateSteps
<1>2. [Next]_vars /\ A => [A]_vars
  OBVIOUS
<1> QED
  BY <1>1, <1>2, InvariantHolds, PTL DEF Spec, OnlyLateWritersRevive
=============================================================================
