-------------------------- MODULE TransferLifecycle --------------------------
(***************************************************************************)
(* What TransactionsService promises of a transfer, without its handlers:  *)
(* every operation is one step, taken on the status of that instant.       *)
(* A transfer is open until it reaches a terminal status, it shows only    *)
(* what GeniusPay reported of its payment, and a terminal status gives way *)
(* to a refund alone ("Statuts terminaux", transaction-status.util.ts;     *)
(* "on n'écrase jamais un statut terminal", transactions.service.ts).      *)
(***************************************************************************)
EXTENDS TransactionStatus

CONSTANTS Transfer, PostAnswers

VARIABLES status, linked, pay

lifecycleVars == <<status, linked, pay>>

LInit ==
  /\ status = [t \in Transfer |-> NoStatus]
  /\ linked = [t \in Transfer |-> FALSE]     \* the row holds its GeniusPay reference
  /\ pay = [t \in Transfer |-> NoPayment]

Open(t) == status[t] \in {"PENDING", "PROCESSING"}

Become(t, s) == status' = [status EXCEPT ![t] = s]

Create(t) ==
  /\ status[t] = NoStatus
  /\ Become(t, "PENDING")
  /\ UNCHANGED <<linked, pay>>

(* GeniusPay opens the payment, which the row may not know yet.             *)
Accept(t) ==
  /\ status[t] = "PENDING" /\ pay[t] = NoPayment
  /\ \E s \in PostAnswers : pay' = [pay EXCEPT ![t] = s]
  /\ UNCHANGED <<status, linked>>

Link(t) ==
  /\ status[t] = "PENDING" /\ ~ linked[t]
  /\ linked' = [linked EXCEPT ![t] = TRUE]
  /\ \E s \in Claims(pay[t]) : Become(t, s)
  /\ UNCHANGED pay

(* The initiation failed: only a transfer never linked can be refused.      *)
Refuse(t) ==
  /\ status[t] = "PENDING" /\ ~ linked[t]
  /\ Become(t, "FAILED")
  /\ UNCHANGED <<linked, pay>>

Cancel(t) ==
  /\ Open(t)
  /\ Become(t, "CANCELLED")
  /\ UNCHANGED <<linked, pay>>

Report(t) ==
  /\ linked[t]
  /\ \/ Open(t) /\ \E s \in Claims(pay[t]) : Become(t, s)
     \/ status[t] # "REFUNDED" /\ "REFUNDED" \in Claims(pay[t]) /\ Become(t, "REFUNDED")
  /\ UNCHANGED <<linked, pay>>

Settle(t) ==
  /\ \E s \in GatewayMoves(pay[t]) : pay' = [pay EXCEPT ![t] = s]
  /\ UNCHANGED <<status, linked>>

LNext ==
  \E t \in Transfer : \/ Create(t) \/ Accept(t) \/ Link(t) \/ Refuse(t)
                      \/ Cancel(t) \/ Report(t) \/ Settle(t)

LSpec == LInit /\ [][LNext]_lifecycleVars
=============================================================================
