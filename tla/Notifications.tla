---------------------------- MODULE Notifications ----------------------------
(***************************************************************************)
(* The notifications: the table notifications, the BullMQ queue and its    *)
(* worker (src/backend/src/modules/notifications).                         *)
(*                                                                         *)
(* A call of the service inserts one row per channel and adds one job per  *)
(* row; the worker hands the message to the channel and then writes what   *)
(* became of it.  The row, the job and the message itself live in three    *)
(* places, and a failure between any two of them is what is checked here.  *)
(***************************************************************************)
EXTENDS Naturals, FiniteSets

CONSTANTS
  Call,      \* calls of NotificationsService
  Asked,     \* the messages they are asked to send
  Faults     \* what may fail: "redis", "database", "channel", "crash"

Channel == {"EMAIL", "SMS"}

AuthMail == {"emailVerification", "welcome", "passwordReset"}
Message == AuthMail \cup {"phoneOtp", "transactionInitiated", "transactionSuccess",
                          "transactionFailed", "transactionRefunded"}

ASSUME AskedAssumption == Asked \subseteq Message
ASSUME FaultsAssumption == Faults \subseteq {"redis", "database", "channel", "crash"}

(* The options of queue.add, and the default of BullMQ for a job whose      *)
(* worker died: it is run again once.                                       *)
attempts == 3
maxStalledCount == 1

VARIABLES
  caller,        \* what each call still has to do
  notification,  \* the table: status of the row of each call on each channel
  job,           \* the queue
  tally          \* history: what the channel and the writes made of each row

vars == <<caller, notification, job, tally>>

Notification == Call \X Channel

Status == {"absent", "QUEUED", "SENT", "FAILED"}
Running == {"send", "mark", "report", "return"}
Over == {"completed", "failed"}

TypeOK ==
  /\ caller \in [Call -> [pc : {"idle", "create", "add", "over"}, todo : SUBSET Channel]]
  /\ notification \in [Notification -> Status]
  /\ job \in [Notification -> [state : {"none", "waiting"} \cup Running \cup Over,
                               made : Nat, stalled : Nat]]
  /\ tally \in [Notification -> [sent : Nat, lost : Nat, unsaid : Nat]]

Init ==
  /\ caller = [c \in Call |-> [pc |-> "idle", todo |-> {}]]
  /\ notification = [n \in Notification |-> "absent"]
  /\ job = [n \in Notification |-> [state |-> "none", made |-> 0, stalled |-> 0]]
  /\ tally = [n \in Notification |-> [sent |-> 0, lost |-> 0, unsaid |-> 0]]

-----------------------------------------------------------------------------
(* The service.                                                             *)

(* The channels of a message.  A refund has no smsBody; a user may have no  *)
(* phone number.                                                            *)
Channels(message, hasPhone) ==
  CASE message \in AuthMail -> {"EMAIL"}
    [] message = "phoneOtp" -> {"SMS"}
    [] message = "transactionRefunded" -> {"EMAIL"}
    [] OTHER -> {"EMAIL"} \cup (IF hasPhone THEN {"SMS"} ELSE {})

Ask(c, message, hasPhone) ==
  /\ caller[c].pc = "idle"
  /\ caller' = [caller EXCEPT ![c] = [pc |-> "create", todo |-> Channels(message, hasPhone)]]
  /\ UNCHANGED <<notification, job, tally>>

(* notifyTransaction enqueues the e-mail first. *)
Current(c) == <<c, IF "EMAIL" \in caller[c].todo THEN "EMAIL" ELSE "SMS">>

(* enqueue: the row first ...                                               *)
Create(c) ==
  /\ caller[c].pc = "create"
  /\ notification' = [notification EXCEPT ![Current(c)] = "QUEUED"]
  /\ caller' = [caller EXCEPT ![c].pc = "add"]
  /\ UNCHANGED <<job, tally>>

Enqueued(c) ==
  LET rest == caller[c].todo \ {Current(c)[2]} IN
  caller' = [caller EXCEPT ![c] = [pc |-> IF rest = {} THEN "over" ELSE "create",
                                   todo |-> rest]]

(* ... then the job.                                                        *)
Add(c) ==
  /\ caller[c].pc = "add"
  /\ job' = [job EXCEPT ![Current(c)].state = "waiting"]
  /\ Enqueued(c)
  /\ UNCHANGED <<notification, tally>>

(* The queue is down: enqueue logs a warning and goes on.                   *)
AddFails(c) ==
  /\ "redis" \in Faults
  /\ caller[c].pc = "add"
  /\ Enqueued(c)
  /\ UNCHANGED <<notification, job, tally>>

(* The insertion fails, or the process dies: the channels left are never    *)
(* tried.                                                                   *)
CallFails(c) ==
  /\ \/ "database" \in Faults /\ caller[c].pc = "create"
     \/ "crash" \in Faults /\ caller[c].pc \in {"create", "add"}
  /\ caller' = [caller EXCEPT ![c] = [pc |-> "over", todo |-> {}]]
  /\ UNCHANGED <<notification, job, tally>>

-----------------------------------------------------------------------------
(* The worker. *)

Goto(n, state) == job' = [job EXCEPT ![n].state = state]

Take(n) ==
  /\ job[n].state = "waiting"
  /\ Goto(n, "send")
  /\ UNCHANGED <<caller, notification, tally>>

(* A slip: the row is marked before the message is handed over. *)
Accepted_markedFirst(n) ==
  /\ job[n].state = "send"
  /\ notification' = [notification EXCEPT ![n] = "SENT"]
  /\ Goto(n, "mark")
  /\ UNCHANGED <<caller, tally>>

(* The SMTP server or the SMS provider takes the message.                   *)
Accepted(n) ==
  /\ job[n].state = "send"
  /\ tally' = [tally EXCEPT ![n].sent = @ + 1]
  /\ Goto(n, "mark")
  /\ UNCHANGED <<caller, notification>>

Refused(n) ==
  /\ "channel" \in Faults
  /\ job[n].state = "send"
  /\ Goto(n, "report")
  /\ UNCHANGED <<caller, notification, tally>>

MarkSent(n) ==
  /\ job[n].state = "mark"
  /\ notification' = [notification EXCEPT ![n] = "SENT"]
  /\ Goto(n, "return")
  /\ UNCHANGED <<caller, tally>>

(* The update fails after the message left: the catch takes it for a        *)
(* failure to send.                                                         *)
MarkSentFails(n) ==
  /\ "database" \in Faults
  /\ job[n].state = "mark"
  /\ tally' = [tally EXCEPT ![n].lost = @ + 1]
  /\ Goto(n, "report")
  /\ UNCHANGED <<caller, notification>>

(* A slip: the job is not told apart from one that failed. *)
Return_rethrown(n) ==
  /\ job[n].state = "return"
  /\ Goto(n, "waiting")
  /\ UNCHANGED <<caller, notification, tally>>

Return(n) ==
  /\ job[n].state = "return"
  /\ Goto(n, "completed")
  /\ UNCHANGED <<caller, notification, tally>>

(* A slip: the attempts are not counted. *)
Throw_uncounted(n) == Goto(n, "waiting")

(* The error reaches BullMQ: one more attempt, up to attempts.              *)
Throw(n) ==
  job' = [job EXCEPT ![n].made = @ + 1,
                     ![n].state = IF job[n].made + 1 < attempts THEN "waiting"
                                                                ELSE "failed"]

(* A slip: the error is passed on before the row is updated. *)
Report_afterThrow(n) ==
  /\ job[n].state = "report"
  /\ Throw(n)
  /\ UNCHANGED <<caller, notification, tally>>

Report(n) ==
  /\ job[n].state = "report"
  /\ notification' = [notification EXCEPT ![n] = "FAILED"]
  /\ Throw(n)
  /\ UNCHANGED <<caller, tally>>

(* The update of the catch block fails too: its error replaces the first.   *)
ReportFails(n) ==
  /\ "database" \in Faults
  /\ job[n].state = "report"
  /\ tally' = [tally EXCEPT ![n].unsaid = @ + 1]
  /\ Throw(n)
  /\ UNCHANGED <<caller, notification>>

(* The worker dies.  BullMQ finds the job stalled and runs it again from    *)
(* the start, or fails it when it has stalled too often.                    *)
WorkerDies(n) ==
  /\ "crash" \in Faults
  /\ job[n].state \in Running
  /\ job' = [job EXCEPT ![n].stalled = @ + 1,
                        ![n].state = IF job[n].stalled < maxStalledCount THEN "waiting"
                                                                         ELSE "failed"]
  /\ tally' = [tally EXCEPT ![n].lost =
                 IF job[n].state \in {"mark", "return"} THEN @ + 1 ELSE @]
  /\ UNCHANGED <<caller, notification>>

-----------------------------------------------------------------------------
Service(c) ==
  \/ Create(c) \/ Add(c) \/ AddFails(c) \/ CallFails(c)

Worker(n) ==
  \/ Take(n) \/ Accepted(n) \/ Refused(n) \/ MarkSent(n) \/ MarkSentFails(n)
  \/ Return(n) \/ Report(n) \/ ReportFails(n)

Next ==
  \/ \E c \in Call : \/ Service(c)
                     \/ \E message \in Asked, hasPhone \in BOOLEAN : Ask(c, message, hasPhone)
  \/ \E n \in Notification : Worker(n) \/ WorkerDies(n)

Spec == Init /\ [][Next]_vars

(* The event loops of the two processes: a call and a job in hand go on,    *)
(* and the worker takes the jobs that wait.                                 *)
FairSpec ==
  /\ Spec
  /\ \A c \in Call : WF_vars(Service(c))
  /\ \A n \in Notification : WF_vars(Worker(n))

-----------------------------------------------------------------------------
(* Messages, rows and jobs agree: a message leaves once, and once more only *)
(* for each time a run that had handed it over did not live to complete its *)
(* job; a row SENT is one that left; a row FAILED whose job is at rest is   *)
(* one that never left, unless such a run was lost (process of              *)
(* notifications.processor.ts, lines 28 to 54).                             *)
Ledger ==
  \A n \in Notification :
    /\ tally[n].sent <= tally[n].lost + 1
    /\ notification[n] = "SENT" => tally[n].sent >= 1
    /\ notification[n] = "FAILED" /\ tally[n].lost = 0 /\ job[n].state # "mark"
         => tally[n].sent = 0
    /\ job[n].state = "completed" => notification[n] = "SENT"

(* A row stays QUEUED beside a job only while no run of it has reported: if *)
(* BullMQ gave the job up, every report of a failure was lost, or the       *)
(* worker died twice (attempts of enqueue, catch of process).               *)
QueuedIsUnsaid ==
  \A n \in Notification :
    notification[n] = "QUEUED" /\ job[n].state # "none" =>
      /\ tally[n].unsaid = job[n].made
      /\ job[n].state = "failed" => job[n].made = attempts \/ job[n].stalled > maxStalledCount

(* What a call has not done yet has left no trace, and what the queue has   *)
(* counted stays within its options.                                        *)
CallShape ==
  \A c \in Call :
    /\ caller[c].pc \in {"create", "add"} => caller[c].todo # {}
    /\ caller[c].pc \in {"idle", "over"} => caller[c].todo = {}
    /\ \A ch \in Channel :
         /\ caller[c].pc = "idle" \/ ch \in caller[c].todo => job[<<c, ch>>].state = "none"
         /\ caller[c].pc = "idle" => notification[<<c, ch>>] = "absent"
         /\ ch \in caller[c].todo =>
              notification[<<c, ch>>] = IF caller[c].pc = "add" /\ Current(c)[2] = ch
                                          THEN "QUEUED" ELSE "absent"

JobShape ==
  \A n \in Notification :
    /\ job[n].state = "none" =>
         /\ notification[n] \in {"absent", "QUEUED"}
         /\ job[n].made = 0 /\ job[n].stalled = 0
         /\ tally[n] = [sent |-> 0, lost |-> 0, unsaid |-> 0]
    /\ job[n].state # "none" => notification[n] # "absent"
    /\ job[n].state \in {"return", "completed"} => notification[n] = "SENT"
    /\ tally[n].sent = tally[n].lost
         + (IF job[n].state \in {"mark", "return", "completed"} THEN 1 ELSE 0)
    /\ job[n].state \notin Over => job[n].made < attempts /\ job[n].stalled <= maxStalledCount
    /\ job[n].state = "failed" => job[n].made = attempts \/ job[n].stalled > maxStalledCount
    /\ job[n].made <= attempts /\ job[n].stalled <= maxStalledCount + 1

(* The inductive invariant. *)
IInv == TypeOK /\ CallShape /\ JobShape /\ Ledger /\ QueuedIsUnsaid

(* Every job ends: BullMQ runs it at most attempts times and once more for  *)
(* a worker that died, whatever fails (options of queue.add, lines 53-56).  *)
JobsSettle ==
  \A n \in Notification : job[n].state = "waiting" ~> job[n].state \in Over

=============================================================================
