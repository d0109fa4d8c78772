------------------------------- MODULE Webhooks -------------------------------
(***************************************************************************)
(* The reception of GeniusPay's webhooks                                   *)
(* (src/backend/src/modules/webhooks/webhooks.service.ts) beside the       *)
(* requests of the senders: both end in applyGatewayUpdate (Transfers).    *)
(*                                                                         *)
(* GeniusPay sends each event under an X-Webhook-Delivery identifier.  A   *)
(* message on the wire may arrive late, out of order, and any number of    *)
(* times, two copies at once included.                                     *)
(***************************************************************************)
EXTENDS Transfers

CONSTANTS
  SentEvents,    \* the events GeniusPay sends
  SentIds,       \* the delivery ids it sends them under; NoDelivery: without
  ResendsKeepId, \* whether the copies of an event all carry one delivery id
  Verdicts       \* what the checks may say: "ok", "badSignature", "stale"

ASSUME SentEventsAssumption == SentEvents \subseteq Event
ASSUME SentIdsAssumption == SentIds \subseteq Delivery \cup {NoDelivery}
ASSUME ResendsKeepIdAssumption == ResendsKeepId \in BOOLEAN
ASSUME VerdictsAssumption == Verdicts \subseteq {"ok", "badSignature", "stale"}

VARIABLES
  wire,    \* the messages GeniusPay has sent
  hooks,   \* the table webhooks: state of each delivery, transfer linked to it
  acked    \* the deliveries answered with 200

hookVars == <<wire, hooks, acked>>
allVars == <<vars, hookVars>>

(* tx: the transfer whose payment the message is about; NoTransfer for      *)
(* webhook.test, which is about none.                                       *)
Message == [id : Delivery \cup {NoDelivery}, tx : Transfer \cup {NoTransfer},
            event : Event]

(* "stored": the row as inserted, processed = false. *)
HookState == {"absent", "stored", "processed", "error"}

HookRow == [state : HookState, link : Transfer \cup {NoTransfer}]

HookTypeOK ==
  /\ TypeOK
  /\ wire \subseteq Message
  /\ hooks \in [Delivery -> HookRow]
  /\ acked \subseteq Delivery

HookInit ==
  /\ Init
  /\ wire = {}
  /\ hooks = [d \in Delivery |-> [state |-> "absent", link |-> NoTransfer]]
  /\ acked = {}

-----------------------------------------------------------------------------
(* GeniusPay sends event of the payment of t, once it is true of it.        *)
GatewaySend(d, t, event) ==
  /\ event \in SentEvents /\ d \in SentIds
  /\ IF event = "webhook.test" THEN t = NoTransfer
     ELSE t \in Transfer /\ pay[t] \in SentOf(event)
  /\ d # NoDelivery => \A m \in wire : m.id # d
  /\ ResendsKeepId => \A m \in wire : m.tx = t => m.event # event
  /\ wire' = wire \cup {[id |-> d, tx |-> t, event |-> event]}
  /\ UNCHANGED <<vars, hooks, acked>>

Known(d) == d # NoDelivery /\ hooks[d].state # "absent"

(* Rows without a delivery id are never looked up: they are left out.       *)
SetHook(d, state, link) ==
  hooks' = [x \in Delivery |->
              IF x = d THEN [state |-> state, link |-> link] ELSE hooks[x]]

Ack(d) == acked' = acked \cup ({d} \ {NoDelivery})

(* The delivery is known: 200, duplicate, whatever became of the first copy. *)
HookDuplicate(h, m) ==
  /\ At(h, "idle")
  /\ Known(m.id)
  /\ Ack(m.id)
  /\ UNCHANGED <<vars, wire, hooks>>

(* The lookup of the delivery finds nothing: the handler goes on to insert. *)
HookReceive(h, m) ==
  /\ At(h, "idle")
  /\ ~ Known(m.id)
  /\ task' = [task EXCEPT ![h] =
       [Idle EXCEPT !.op = "webhook", !.pc = "store", !.tx = m.tx, !.hook = m.id,
                    !.target = mapWebhookEventToStatus(m.event)]]
  /\ UNCHANGED <<row, logs, notices, pay, hookVars>>

(* The insertion runs into the unique constraint on delivery_id: another    *)
(* copy was faster, this one answers 500.                                   *)
HookStoreRefused(h) ==
  /\ At(h, "store")
  /\ Known(task[h].hook)
  /\ Finish(h)
  /\ UNCHANGED <<row, logs, notices, pay, hookVars>>

(* A slip: no unique constraint, both copies go on. *)
HookStore_notUnique(h) ==
  /\ At(h, "store")
  /\ SetHook(task[h].hook, "stored", NoTransfer)
  /\ Goto(h, IF task[h].tx = NoTransfer THEN "mark" ELSE "find")
  /\ UNCHANGED <<row, logs, notices, pay, wire, acked>>

(* The row is inserted, and only then do the verdicts on the signature and  *)
(* the timestamp count: 401, 400, or the event is processed.                *)
HookStore(h) ==
  /\ At(h, "store")
  /\ ~ Known(task[h].hook)
  /\ SetHook(task[h].hook, "stored", NoTransfer)
  /\ \/ Verdicts \cap {"badSignature", "stale"} # {} /\ Finish(h)
     \/ "ok" \in Verdicts /\ Goto(h, IF task[h].tx = NoTransfer THEN "mark" ELSE "find")
  /\ UNCHANGED <<row, logs, notices, pay, wire, acked>>

(* A statement of applyGatewayUpdate fails: process catches the error.      *)
ApplyThrows(h) ==
  /\ "crash" \in Faults
  /\ task[h].op = "webhook" /\ task[h].pc \in {"find", "write", "log", "tell"}
  /\ Goto(h, "markError")
  /\ UNCHANGED <<row, logs, notices, pay, hookVars>>

(* The row of webhooks is closed, linked to the transfer if                 *)
(* applyGatewayUpdate found one, and GeniusPay is answered 200.             *)
HookMark(h) ==
  LET k == task[h] IN
  /\ At(h, "mark")
  /\ SetHook(k.hook, "processed", IF k.seen = NoStatus THEN NoTransfer ELSE k.tx)
  /\ Ack(k.hook)
  /\ Finish(h)
  /\ UNCHANGED <<row, logs, notices, pay, wire>>

(* After an error too the answer is 200. *)
HookMarkError(h) ==
  /\ At(h, "markError")
  /\ SetHook(task[h].hook, "error", NoTransfer)
  /\ Ack(task[h].hook)
  /\ Finish(h)
  /\ UNCHANGED <<row, logs, notices, pay, wire>>

HookStep(h) ==
  HookStoreRefused(h) \/ HookStore(h) \/ HookMark(h) \/ HookMarkError(h)

HookNext ==
  \/ Next /\ UNCHANGED hookVars
  \/ \E h \in Handler :
       \/ HookStep(h) \/ ApplyThrows(h)
       \/ \E m \in wire : HookReceive(h, m) \/ HookDuplicate(h, m)
  \/ \E d \in SentIds, t \in Transfer \cup {NoTransfer}, event \in SentEvents :
       GatewaySend(d, t, event)

HookSpec == HookInit /\ [][HookNext]_allVars

(* Requests in flight take their next step, and GeniusPay sends a message   *)
(* again until it is answered 200.                                          *)
HookFairness ==
  /\ \A h \in Handler :
       WF_allVars(HookStep(h) \/ ((Step(h) \/ GatewayError(h)) /\ UNCHANGED hookVars))
  /\ \A d \in Delivery :
       SF_allVars(\E h \in Handler, m \in wire : m.id = d /\ HookReceive(h, m))

HookFairSpec == HookSpec /\ HookFairness
-----------------------------------------------------------------------------
(* Properties. *)

InProcess(h, d) ==
  /\ task[h].hook = d
  /\ task[h].pc \in {"find", "write", "log", "tell", "mark", "markError"}

(* However many copies of a delivery arrive, and however they interleave,   *)
(* one handler at most processes it, and only while its row of webhooks is  *)
(* open.  (the lookup of handleIncoming and the unique delivery_id)         *)
OneHandlerPerDelivery ==
  \A d \in Delivery, h \in Handler :
    InProcess(h, d) => /\ hooks[d].state = "stored"
                       /\ \A g \in Handler : InProcess(g, d) => g = h

(* What was sent of a payment is true of it, however late it arrives. *)
WireTrue ==
  \A m \in wire :
    m.tx \in Transfer =>
      mapWebhookEventToStatus(m.event) \in Claims(pay[m.tx]) \cup {NoStatus}

(* Only the handler of a webhook carries a delivery id, and what it is      *)
(* about to apply is true of the payment.                                   *)
HookInFlight(h) ==
  LET k == task[h] IN
  /\ k.op # "webhook" => k.hook = NoDelivery
  /\ k.pc \in {"store", "mark", "markError"} => k.op = "webhook"
  /\ k.pc = "store" /\ k.tx \in Transfer
       => k.target \in Claims(pay[k.tx]) \cup {NoStatus}

(* The inductive invariant. *)
HookIInv ==
  /\ HookTypeOK
  /\ IInv
  /\ WireTrue
  /\ \A h \in Handler : HookInFlight(h)
  /\ OneHandlerPerDelivery

(* Every identified event that GeniusPay sends is processed in the end,     *)
(* even if a copy was answered "duplicate" in the meantime.                 *)
SentIsProcessed ==
  \A d \in Delivery :
    (\E m \in wire : m.id = d) ~> hooks[d].state = "processed"

(* A processed webhook that found its transfer has settled it: the row is   *)
(* terminal, and REFUNDED after a refund.  (applyGatewayUpdate, process)    *)
ProcessedIsApplied ==
  \A m \in wire :
    LET s == mapWebhookEventToStatus(m.event) IN
    /\ m.id # NoDelivery /\ m.tx # NoTransfer /\ isTerminal(s)
    /\ hooks[m.id] = [state |-> "processed", link |-> m.tx]
    => isTerminal(row[m.tx].status) /\ (s = "REFUNDED" => row[m.tx].status = s)

(* "déduplication par X-Webhook-Delivery + statuts terminaux non réécrits,  *)
(* garantissant l'exactitude malgré les renvois": what GeniusPay need not   *)
(* send again has been applied, or is being.                                *)
AckedIsHandled ==
  \A d \in acked : hooks[d].state = "processed" \/ \E h \in Handler : InProcess(h, d)
=============================================================================
