------------------------- MODULE Notifications_proofs -------------------------
(***************************************************************************)
(* IInv of Notifications is inductive, so that the ledger of the messages  *)
(* holds for any number of calls and any faults.                           *)
(***************************************************************************)
EXTENDS Notifications, TLAPS

(* The running states are no final ones, and the bounds are numbers.        *)
LEMMA StatesLemma ==
  /\ attempts = 3 /\ maxStalledCount = 1
  /\ Running = {"send", "mark", "report", "return"} /\ Over = {"completed", "failed"}
  /\ Status = {"absent", "QUEUED", "SENT", "FAILED"} /\ Channel = {"EMAIL", "SMS"}
  BY DEF attempts, maxStalledCount, Running, Over, Status, Channel

(* A call works on a channel it still has to do.                            *)
LEMMA CurrentLemma ==
  ASSUME IInv, NEW c \in Call, caller[c].pc \in {"create", "add"}
  PROVE  /\ Current(c) \in Notification
         /\ Current(c) = <<c, Current(c)[2]>>
         /\ Current(c)[2] \in caller[c].todo
         /\ job[Current(c)].state = "none"
  <1>1. caller[c].todo # {} /\ caller[c].todo \subseteq Channel
    BY DEF IInv, TypeOK, CallShape
  <1>2. "EMAIL" \notin caller[c].todo => "SMS" \in caller[c].todo
    BY <1>1 DEF Channel
  <1>3. Current(c)[2] \in caller[c].todo /\ Current(c) = <<c, Current(c)[2]>>
    BY <1>2 DEF Current
  <1>4. Current(c)[2] \in Channel
    BY <1>1, <1>3
  <1>5. Current(c) \in Notification
    BY <1>3, <1>4 DEF Notification
  <1>6. job[<<c, Current(c)[2]>>].state = "none"
    BY <1>3, <1>4 DEF IInv, CallShape
  <1> QED BY <1>3, <1>5, <1>6

(* What JobShape, Ledger and QueuedIsUnsaid say of one row. *)
RowOK(n) ==
  /\ job[n].state = "none" =>
       /\ notification[n] \in {"absent", "QUEUED"}
       /\ job[n].made = 0 /\ job[n].stalled = 0
       /\ tally[n] = [sent |-> 0, lost |-> 0, unsaid |-> 0]
  /\ job[n].state # "none" => notification[n] # "absent"
  /\ job[n].state \in {"return", "completed"} => notification[n] = "SENT"
  /\ tally[n].sent = tally[n].lost
       + (IF job[n].state \in {"mark", "return", "completed"} THEN 1 ELSE 0)
  /\ job[n].state \notin Over => job[n].made < attempts /\ job[n].stalled <= maxStalledCount
  /\ job[n].state = "failed" => job[n].made = attempts \/ job[n].stalled > maxStalledCount
  /\ job[n].made <= attempts /\ job[n].stalled <= maxStalledCount + 1
  /\ notification[n] = "SENT" => tally[n].sent >= 1
  /\ notification[n] = "QUEUED" /\ job[n].state # "none" => tally[n].unsaid = job[n].made

(* The three invariants of the rows are what RowOK says of each row. *)
LEMMA RowsLemma ==
  TypeOK => (JobShape /\ Ledger /\ QueuedIsUnsaid <=> \A n \in Notification : RowOK(n))
  <1> SUFFICES ASSUME TypeOK
               PROVE  JobShape /\ Ledger /\ QueuedIsUnsaid <=> \A n \in Notification : RowOK(n)
    OBVIOUS
  <1>1. ASSUME JobShape, Ledger, QueuedIsUnsaid, NEW n \in Notification
        PROVE  RowOK(n)
    BY <1>1 DEF JobShape, Ledger, QueuedIsUnsaid, RowOK
  <1>2. ASSUME \A n \in Notification : RowOK(n)
        PROVE  JobShape /\ Ledger /\ QueuedIsUnsaid
    <2>1. JobShape
      BY <1>2 DEF RowOK, JobShape
    <2>2. QueuedIsUnsaid
      BY <1>2 DEF RowOK, QueuedIsUnsaid
    <2>3. ASSUME NEW n \in Notification
          PROVE  /\ tally[n].sent <= tally[n].lost + 1
                 /\ notification[n] = "SENT" => tally[n].sent >= 1
                 /\ notification[n] = "FAILED" /\ tally[n].lost = 0 /\ job[n].state # "mark"
                      => tally[n].sent = 0
                 /\ job[n].state = "completed" => notification[n] = "SENT"
      <3>1. tally[n].sent \in Nat /\ tally[n].lost \in Nat
        BY DEF TypeOK
      <3> QED BY <1>2, <3>1 DEF RowOK
    <2> QED BY <2>1, <2>2, <2>3 DEF Ledger
  <1> QED BY <1>1, <1>2

(* The same of the next state. *)
LEMMA RowsPrimeLemma ==
  TypeOK' => ((JobShape /\ Ledger /\ QueuedIsUnsaid)' <=> (\A n \in Notification : RowOK(n))')
  BY RowsLemma, PTL

(* A step on the row of one notification leaves the others sound.           *)
LEMMA OtherRowsLemma ==
  ASSUME IInv, NEW n \in Notification, TypeOK', CallShape', RowOK(n)',
         \A m \in Notification \ {n} :
           job'[m] = job[m] /\ notification'[m] = notification[m] /\ tally'[m] = tally[m]
  PROVE  IInv'
  <1>1. \A m \in Notification : RowOK(m)
    BY RowsLemma DEF IInv
  <1>2. ASSUME NEW m \in Notification
        PROVE  RowOK(m)'
    <2>1. CASE m = n
      BY <2>1
    <2>2. CASE m # n
      BY <1>1, <2>2 DEF RowOK
    <2> QED BY <2>1, <2>2
  <1>3. (\A m \in Notification : RowOK(m))'
    BY <1>2
  <1>4. (JobShape /\ Ledger /\ QueuedIsUnsaid)'
    BY <1>3, RowsPrimeLemma
  <1> QED BY <1>4 DEF IInv

(* A step of the worker touches a row whose call is done with it.           *)
LEMMA CallersLemma ==
  ASSUME IInv, NEW n \in Notification, job[n].state # "none", UNCHANGED caller,
         \A m \in Notification \ {n} :
           job'[m] = job[m] /\ notification'[m] = notification[m]
  PROVE  CallShape'
  <1> SUFFICES ASSUME NEW c \in Call, NEW ch \in Channel
               PROVE  /\ (caller[c].pc = "idle" \/ ch \in caller[c].todo) => job'[<<c, ch>>].state = "none"
                      /\ caller[c].pc = "idle" => notification'[<<c, ch>>] = "absent"
                      /\ ch \in caller[c].todo =>
                           notification'[<<c, ch>>] = IF caller[c].pc = "add" /\ Current(c)[2] = ch
                                                        THEN "QUEUED" ELSE "absent"
    BY DEF IInv, CallShape, Current
  <1>1. /\ (caller[c].pc = "idle" \/ ch \in caller[c].todo) => job[<<c, ch>>].state = "none"
        /\ caller[c].pc = "idle" => notification[<<c, ch>>] = "absent"
        /\ ch \in caller[c].todo =>
             notification[<<c, ch>>] = IF caller[c].pc = "add" /\ Current(c)[2] = ch
                                         THEN "QUEUED" ELSE "absent"
    BY DEF IInv, CallShape
  <1>2. <<c, ch>> \in Notification
    BY DEF Notification
  <1>3. CASE caller[c].pc = "idle" \/ ch \in caller[c].todo
    <2>1. <<c, ch>> # n
      BY <1>1, <1>3
    <2> QED BY <1>1, <1>2, <2>1
  <1> QED BY <1>3

(* Every step of the worker preserves the invariant.                        *)
LEMMA WorkerLemma ==
  ASSUME IInv, NEW n \in Notification, Worker(n) \/ WorkerDies(n)
  PROVE  IInv'
  <1> USE StatesLemma
  <1>1. RowOK(n) /\ TypeOK
    BY RowsLemma DEF IInv
  <1>2. /\ job \in [Notification -> [state : {"none", "waiting"} \cup Running \cup Over,
                                    made : Nat, stalled : Nat]]
        /\ tally \in [Notification -> [sent : Nat, lost : Nat, unsaid : Nat]]
        /\ notification \in [Notification -> Status]
    BY <1>1 DEF TypeOK
  <1> DEFINE Sound == /\ TypeOK' /\ RowOK(n)' /\ job[n].state # "none" /\ UNCHANGED caller
                      /\ \A m \in Notification \ {n} :
                           job'[m] = job[m] /\ notification'[m] = notification[m]
                           /\ tally'[m] = tally[m]
  <1>3. ASSUME Take(n) PROVE Sound
    <2>1. TypeOK'
      BY <1>1, <1>2, <1>3 DEF TypeOK, Take, Goto
    <2>2. RowOK(n)'
      BY <1>1, <1>2, <1>3 DEF RowOK, Take, Goto
    <2> QED BY <1>2, <1>3, <2>1, <2>2 DEF Take, Goto
  <1>4. ASSUME Accepted(n) PROVE Sound
    <2>1. TypeOK'
      BY <1>1, <1>2, <1>4 DEF TypeOK, Accepted, Goto
    <2>2. RowOK(n)'
      BY <1>1, <1>2, <1>4 DEF RowOK, Accepted, Goto
    <2> QED BY <1>2, <1>4, <2>1, <2>2 DEF Accepted, Goto
  <1>5. ASSUME Refused(n) PROVE Sound
    <2>1. TypeOK'
      BY <1>1, <1>2, <1>5 DEF TypeOK, Refused, Goto
    <2>2. RowOK(n)'
      BY <1>1, <1>2, <1>5 DEF RowOK, Refused, Goto
    <2> QED BY <1>2, <1>5, <2>1, <2>2 DEF Refused, Goto
  <1>6. ASSUME MarkSent(n) PROVE Sound
    <2>1. TypeOK'
      BY <1>1, <1>2, <1>6 DEF TypeOK, MarkSent, Goto
    <2>2. RowOK(n)'
      BY <1>1, <1>2, <1>6 DEF RowOK, MarkSent, Goto
    <2> QED BY <1>2, <1>6, <2>1, <2>2 DEF MarkSent, Goto
  <1>7. ASSUME MarkSentFails(n) PROVE Sound
    <2>1. TypeOK'
      BY <1>1, <1>2, <1>7 DEF TypeOK, MarkSentFails, Goto
    <2>2. RowOK(n)'
      BY <1>1, <1>2, <1>7 DEF RowOK, MarkSentFails, Goto
    <2> QED BY <1>2, <1>7, <2>1, <2>2 DEF MarkSentFails, Goto
  <1>8. ASSUME Return(n) PROVE Sound
    <2>1. TypeOK'
      BY <1>1, <1>2, <1>8 DEF TypeOK, Return, Goto
    <2>2. RowOK(n)'
      BY <1>1, <1>2, <1>8 DEF RowOK, Return, Goto
    <2> QED BY <1>2, <1>8, <2>1, <2>2 DEF Return, Goto
  <1>9. ASSUME Report(n) PROVE Sound
    <2>1. TypeOK'
      BY <1>1, <1>2, <1>9 DEF TypeOK, Report, Throw
    <2>2. RowOK(n)'
      BY <1>1, <1>2, <1>9 DEF RowOK, Report, Throw
    <2> QED BY <1>2, <1>9, <2>1, <2>2 DEF Report, Throw
  <1>10. ASSUME ReportFails(n) PROVE Sound
    <2>1. TypeOK'
      BY <1>1, <1>2, <1>10 DEF TypeOK, ReportFails, Throw
    <2>2. RowOK(n)'
      BY <1>1, <1>2, <1>10 DEF RowOK, ReportFails, Throw
    <2> QED BY <1>2, <1>10, <2>1, <2>2 DEF ReportFails, Throw
  <1>11. ASSUME WorkerDies(n) PROVE Sound
    <2>1. TypeOK'
      BY <1>1, <1>2, <1>11 DEF TypeOK, WorkerDies
    <2>2. RowOK(n)'
      BY <1>1, <1>2, <1>11 DEF RowOK, WorkerDies
    <2> QED BY <1>2, <1>11, <2>1, <2>2 DEF WorkerDies
  <1>12. Sound
    BY <1>3, <1>4, <1>5, <1>6, <1>7, <1>8, <1>9, <1>10, <1>11 DEF Worker
  <1>13. CallShape'
    BY <1>12, CallersLemma
  <1> QED BY <1>12, <1>13, OtherRowsLemma

(* What a step of a call may disturb: its own row, and what CallShape says  *)
(* of it.                                                                   *)
LEMMA OtherCallsLemma ==
  ASSUME IInv, NEW c \in Call, TypeOK',
         \A d \in Call \ {c} : caller'[d] = caller[d],
         \A m \in Notification : m[1] # c =>
           job'[m] = job[m] /\ notification'[m] = notification[m],
         caller'[c].pc \in {"create", "add"} => caller'[c].todo # {},
         caller'[c].pc \in {"idle", "over"} => caller'[c].todo = {},
         caller'[c].pc # "idle",
         \A ch \in caller'[c].todo :
           /\ job'[<<c, ch>>].state = "none"
           /\ notification'[<<c, ch>>] = IF caller'[c].pc = "add" /\ Current(c)'[2] = ch
                                           THEN "QUEUED" ELSE "absent"
  PROVE  CallShape'
  <1> SUFFICES ASSUME NEW d \in Call
               PROVE  /\ caller'[d].pc \in {"create", "add"} => caller'[d].todo # {}
                      /\ caller'[d].pc \in {"idle", "over"} => caller'[d].todo = {}
                      /\ \A ch \in Channel :
                           /\ caller'[d].pc = "idle" \/ ch \in caller'[d].todo => job'[<<d, ch>>].state = "none"
                           /\ caller'[d].pc = "idle" => notification'[<<d, ch>>] = "absent"
                           /\ ch \in caller'[d].todo =>
                                notification'[<<d, ch>>] = IF caller'[d].pc = "add" /\ Current(d)'[2] = ch
                                                             THEN "QUEUED" ELSE "absent"
    BY DEF CallShape
  <1>1. CASE d = c
    BY <1>1
  <1>2. CASE d # c
    <2>1. Current(d)' = Current(d)
      BY <1>2 DEF Current
    <2>2. \A ch \in Channel : /\ job'[<<d, ch>>] = job[<<d, ch>>]
                              /\ notification'[<<d, ch>>] = notification[<<d, ch>>]
      BY <1>2 DEF Notification
    <2> QED BY <1>2, <2>1, <2>2 DEF IInv, CallShape
  <1> QED BY <1>1, <1>2

(* A message goes to one channel at least. *)
LEMMA ChannelsLemma ==
  ASSUME NEW message, NEW hasPhone
  PROVE  Channels(message, hasPhone) \subseteq Channel /\ Channels(message, hasPhone) # {}
  BY DEF Channels, Channel

(* A call that begins. *)
LEMMA AskLemma ==
  ASSUME IInv, NEW c \in Call, NEW message, NEW hasPhone, Ask(c, message, hasPhone)
  PROVE  IInv'
  <1>1. TypeOK'
    BY ChannelsLemma DEF IInv, TypeOK, Ask
  <1>2. caller'[c] = [pc |-> "create", todo |-> Channels(message, hasPhone)]
    BY DEF IInv, TypeOK, Ask
  <1>3. \A ch \in Channel : job[<<c, ch>>].state = "none" /\ notification[<<c, ch>>] = "absent"
    BY DEF IInv, CallShape, Ask
  <1>4. CallShape'
    <2>1. caller'[c].pc # "add" /\ caller'[c].todo # {} /\ caller'[c].todo \subseteq Channel
      BY <1>2, ChannelsLemma
    <2>2. \A d \in Call \ {c} : caller'[d] = caller[d]
      BY DEF IInv, TypeOK, Ask
    <2> HIDE DEF IInv
    <2> QED BY <1>1, <1>2, <1>3, <2>1, <2>2, OtherCallsLemma DEF Ask
  <1> QED BY <1>1, <1>4 DEF IInv, Ask, JobShape, Ledger, QueuedIsUnsaid

(* The insertion of a row. *)
LEMMA CreateLemma ==
  ASSUME IInv, NEW c \in Call, Create(c)
  PROVE  IInv'
  <1>0. PICK n \in Notification : n = Current(c)
    BY CurrentLemma DEF Create
  <1>1. /\ n = Current(c) /\ n \in Notification /\ n = <<c, n[2]>> /\ n[2] \in caller[c].todo
        /\ job[n].state = "none"
    BY <1>0, CurrentLemma DEF Create
  <1>2. TypeOK'
    BY <1>1 DEF IInv, TypeOK, Create, Status
  <1>3. caller'[c].pc = "add" /\ caller'[c].todo = caller[c].todo /\ caller[c].todo \subseteq Channel
    BY DEF IInv, TypeOK, Create
  <1>4. /\ notification'[n] = "QUEUED"
        /\ \A m \in Notification \ {n} : notification'[m] = notification[m]
    BY <1>1 DEF IInv, TypeOK, Create
  <1>5. Current(c)' = n
    BY <1>1, <1>3 DEF Current
  <1>6. CallShape'
    <2>1. \A ch \in caller'[c].todo :
           /\ job'[<<c, ch>>].state = "none"
           /\ notification'[<<c, ch>>] = IF caller'[c].pc = "add" /\ Current(c)'[2] = ch
                                           THEN "QUEUED" ELSE "absent"
      <3> SUFFICES ASSUME NEW ch \in caller[c].todo
                   PROVE  /\ job'[<<c, ch>>].state = "none"
                          /\ notification'[<<c, ch>>] = IF n[2] = ch THEN "QUEUED" ELSE "absent"
        BY <1>3, <1>5
      <3>1. ch \in Channel /\ <<c, ch>> \in Notification
        BY <1>3 DEF Notification
      <3>2. job[<<c, ch>>].state = "none" /\ notification[<<c, ch>>] = "absent"
        BY <3>1 DEF IInv, CallShape, Create
      <3>3. CASE n[2] = ch
        BY <1>1, <1>4, <3>2, <3>3 DEF Create
      <3>4. CASE n[2] # ch
        <4>1. <<c, ch>> # n
          BY <1>1, <3>4
        <4> QED BY <1>4, <3>1, <3>2, <3>4, <4>1 DEF Create
      <3> QED BY <3>3, <3>4
    <2>2. \A d \in Call \ {c} : caller'[d] = caller[d]
      BY DEF IInv, TypeOK, Create
    <2>3. \A m \in Notification : m[1] # c => job'[m] = job[m] /\ notification'[m] = notification[m]
      BY <1>1, <1>4 DEF Create
    <2>4. caller'[c].todo # {}
      BY <1>1, <1>3
    <2> QED BY <1>2, <1>3, <2>1, <2>2, <2>3, <2>4, OtherCallsLemma
  <1>7. RowOK(n)'
    BY <1>1, <1>4, RowsLemma DEF IInv, RowOK, Create, Over
  <1> QED BY <1>1, <1>2, <1>4, <1>6, <1>7, OtherRowsLemma DEF Create

(* The end of a call, whatever is left to do: no row changes.               *)
LEMMA CallFailsLemma ==
  ASSUME IInv, NEW c \in Call, CallFails(c)
  PROVE  IInv'
  <1>1. TypeOK'
    BY DEF IInv, TypeOK, CallFails
  <1>2. caller'[c] = [pc |-> "over", todo |-> {}] /\ \A d \in Call \ {c} : caller'[d] = caller[d]
    BY DEF IInv, TypeOK, CallFails
  <1>3. CallShape'
    BY <1>1, <1>2, OtherCallsLemma DEF CallFails
  <1> QED BY <1>1, <1>3 DEF IInv, CallFails, JobShape, Ledger, QueuedIsUnsaid

(* Going on to the next channel, the job of this one added or not.          *)
LEMMA EnqueuedLemma ==
  ASSUME IInv, NEW c \in Call, caller[c].pc = "add", Enqueued(c),
         UNCHANGED <<notification, tally>>,
         \/ UNCHANGED job
         \/ job' = [job EXCEPT ![Current(c)].state = "waiting"]
  PROVE  IInv'
  <1>0. PICK n \in Notification : n = Current(c)
    BY CurrentLemma
  <1>1. /\ n = <<c, n[2]>> /\ n[2] \in caller[c].todo /\ n[2] \in Channel
        /\ job[n].state = "none" /\ caller[c].todo \subseteq Channel
    BY <1>0, CurrentLemma DEF IInv, TypeOK, Notification
  <1>2. /\ \A m \in Notification \ {n} : job'[m] = job[m]
        /\ job'[n].state \in {"none", "waiting"}
        /\ job'[n].made = job[n].made /\ job'[n].stalled = job[n].stalled
    BY <1>0, <1>1 DEF IInv, TypeOK
  <1>3. TypeOK'
    <2>1. job' \in [Notification -> [state : {"none", "waiting"} \cup Running \cup Over,
                                    made : Nat, stalled : Nat]]
      BY <1>0 DEF IInv, TypeOK
    <2>2. caller' \in [Call -> [pc : {"idle", "create", "add", "over"}, todo : SUBSET Channel]]
      BY <1>1 DEF IInv, TypeOK, Enqueued
    <2> QED BY <2>1, <2>2 DEF IInv, TypeOK
  <1>4. /\ caller'[c].todo = caller[c].todo \ {n[2]}
        /\ caller'[c].pc = IF caller[c].todo \ {n[2]} = {} THEN "over" ELSE "create"
        /\ \A d \in Call \ {c} : caller'[d] = caller[d]
    BY <1>0 DEF IInv, TypeOK, Enqueued
  <1>5. CallShape'
    <2>1. \A ch \in caller'[c].todo : job'[<<c, ch>>].state = "none" /\ notification'[<<c, ch>>] = "absent"
      <3> SUFFICES ASSUME NEW ch \in caller[c].todo, ch # n[2]
                   PROVE  job'[<<c, ch>>].state = "none" /\ notification'[<<c, ch>>] = "absent"
        BY <1>4
      <3>1. <<c, ch>> \in Notification \ {n} /\ ch \in Channel
        BY <1>1 DEF Notification
      <3>2. job[<<c, ch>>].state = "none" /\ notification[<<c, ch>>] = "absent"
        BY <1>0, <3>1 DEF IInv, CallShape
      <3> QED BY <1>2, <3>1, <3>2
    <2>2. \A m \in Notification : m[1] # c => job'[m] = job[m] /\ notification'[m] = notification[m]
      BY <1>1, <1>2
    <2>3. /\ caller'[c].pc \in {"create", "add"} => caller'[c].todo # {}
          /\ caller'[c].pc \in {"idle", "over"} => caller'[c].todo = {}
          /\ caller'[c].pc \notin {"idle", "add"}
      BY <1>4
    <2> QED BY <1>3, <1>4, <2>1, <2>2, <2>3, OtherCallsLemma
  <1>6. RowOK(n)'
    <2>1. notification[n] = "QUEUED"
      BY <1>0, <1>1 DEF IInv, CallShape
    <2> QED BY <1>1, <1>2, <2>1, RowsLemma, StatesLemma DEF IInv, RowOK
  <1> QED BY <1>2, <1>3, <1>5, <1>6, OtherRowsLemma

(* Every reachable state of the notifications satisfies IInv. *)
THEOREM InductiveInvariant == Spec => []IInv
  <1>1. Init => IInv
    BY StatesLemma DEF Init, IInv, TypeOK, CallShape, JobShape, Ledger, QueuedIsUnsaid, Notification
  <1>2. IInv /\ [Next]_vars => IInv'
    <2> SUFFICES ASSUME IInv, [Next]_vars
                 PROVE  IInv'
      OBVIOUS
    <2>1. ASSUME NEW c \in Call, Service(c)
          PROVE  IInv'
      <3>1. CASE Create(c)
        BY <3>1, CreateLemma
      <3>2. CASE Add(c)
        BY <3>2, EnqueuedLemma DEF Add
      <3>3. CASE AddFails(c)
        BY <3>3, EnqueuedLemma DEF AddFails
      <3>4. CASE CallFails(c)
        BY <3>4, CallFailsLemma
      <3> QED BY <2>1, <3>1, <3>2, <3>3, <3>4 DEF Service
    <2>2. ASSUME NEW c \in Call, NEW message \in Asked, NEW hasPhone \in BOOLEAN,
                 Ask(c, message, hasPhone)
          PROVE  IInv'
      BY <2>2, AskLemma
    <2>3. ASSUME NEW n \in Notification, Worker(n) \/ WorkerDies(n)
          PROVE  IInv'
      BY <2>3, WorkerLemma
    <2>4. CASE UNCHANGED vars
      BY <2>4 DEF vars, IInv, TypeOK, CallShape, Current, JobShape, Ledger, QueuedIsUnsaid
    <2> QED BY <2>1, <2>2, <2>3, <2>4 DEF Next
  <1> QED BY <1>1, <1>2, PTL DEF Spec

(* Whatever fails, and however many calls there are, the channel, the table *)
(* and the queue agree: process of notifications.processor.ts.              *)
THEOREM LedgerTheorem == Spec => []Ledger
  <1>1. IInv => Ledger
    BY DEF IInv
  <1> QED BY <1>1, InductiveInvariant, PTL

(* ... and a row left QUEUED is one whose failures could not be written.    *)
THEOREM QueuedTheorem == Spec => []QueuedIsUnsaid
  <1>1. IInv => QueuedIsUnsaid
    BY DEF IInv
  <1> QED BY <1>1, InductiveInvariant, PTL
===============================================================================
