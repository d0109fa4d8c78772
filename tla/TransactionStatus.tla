-------------------------- MODULE TransactionStatus --------------------------
(***************************************************************************)
(* The statuses of a transfer, the statuses and events of GeniusPay, and   *)
(* the two translations between them:                                      *)
(* src/backend/src/modules/transactions/transaction-status.util.ts.        *)
(***************************************************************************)

Status == {"PENDING", "PROCESSING", "COMPLETED", "FAILED", "CANCELLED",
           "EXPIRED", "REFUNDED"}

NoStatus == "null"    \* null in the code: no status

GatewayStatus == {"pending", "processing", "completed", "failed", "cancelled",
                  "expired", "refunded"}

Event == {"payment.initiated", "payment.success", "payment.failed",
          "payment.cancelled", "payment.refunded", "payment.expired",
          "cashout.requested", "cashout.approved", "cashout.completed",
          "cashout.failed", "webhook.test"}

(* Two slips of the table: "processing" read as settled; the table dropped. *)
mapGeniusPayStatus_processingSettles(status) ==
  CASE status \in {"completed", "processing"} -> "COMPLETED"
    [] status = "refunded"                    -> "REFUNDED"
    [] OTHER                                  -> "PENDING"

mapGeniusPayStatus_untranslated(status) == status

(* A third: no entry for "expired", which then reads as PENDING. *)
mapGeniusPayStatus_noExpired(status) ==
  CASE status = "completed"  -> "COMPLETED"
    [] status = "processing" -> "PROCESSING"
    [] status = "failed"     -> "FAILED"
    [] status = "cancelled"  -> "CANCELLED"
    [] status = "refunded"   -> "REFUNDED"
    [] OTHER                 -> "PENDING"

(* A gateway status the table does not list reads as PENDING. *)
mapGeniusPayStatus(status) ==
  CASE status = "completed"  -> "COMPLETED"
    [] status = "processing" -> "PROCESSING"
    [] status = "failed"     -> "FAILED"
    [] status = "cancelled"  -> "CANCELLED"
    [] status = "expired"    -> "EXPIRED"
    [] status = "refunded"   -> "REFUNDED"
    [] OTHER                 -> "PENDING"

(* As a plausible slip would have it: a failed cash-out read as settled. *)
mapWebhookEventToStatus_cashoutFailedSettles(event) ==
  CASE event \in {"payment.success", "cashout.completed", "cashout.failed"}
                                    -> "COMPLETED"
    [] event = "payment.refunded"   -> "REFUNDED"
    [] OTHER                        -> NoStatus

mapWebhookEventToStatus(event) ==
  CASE event \in {"payment.success", "cashout.completed"}   -> "COMPLETED"
    [] event \in {"payment.failed", "cashout.failed"}       -> "FAILED"
    [] event = "payment.cancelled"                          -> "CANCELLED"
    [] event = "payment.expired"                            -> "EXPIRED"
    [] event = "payment.refunded"                           -> "REFUNDED"
    [] event \in {"payment.initiated", "cashout.requested"} -> "PROCESSING"
    [] OTHER                                                -> NoStatus

Terminal == {"COMPLETED", "FAILED", "CANCELLED", "EXPIRED", "REFUNDED"}

isTerminal(status) == status \in Terminal

-----------------------------------------------------------------------------
(* GeniusPay itself: outside the repository, known by the statuses and the *)
(* events the code translates.                                             *)

NoPayment == "none"   \* GeniusPay holds no payment for the transfer

(* The moves of a payment inside GeniusPay. *)
GatewayMoves(p) ==
  CASE p = "pending"    -> {"processing", "completed", "failed", "cancelled", "expired"}
    [] p = "processing" -> {"completed", "failed"}
    [] p = "completed"  -> {"refunded"}
    [] OTHER            -> {}

(* The statuses GeniusPay may truthfully have reported of a payment that is *)
(* now p: those of p and of the statuses it came through.                   *)
Claims(p) ==
  CASE p = NoPayment   -> {}
    [] p = "completed" -> {"PENDING", "PROCESSING", "COMPLETED"}
    [] p = "refunded"  -> {"PENDING", "PROCESSING", "COMPLETED", "REFUNDED"}
    [] p = "failed"    -> {"PENDING", "PROCESSING", "FAILED"}
    [] p = "cancelled" -> {"PENDING", "PROCESSING", "CANCELLED"}
    [] p = "expired"   -> {"PENDING", "PROCESSING", "EXPIRED"}
    [] OTHER           -> {"PENDING", "PROCESSING"}

(* The statuses of a payment of which event may be sent, at once or late.   *)
SentOf(event) ==
  CASE event \in {"payment.success", "cashout.completed"} -> {"completed", "refunded"}
    [] event \in {"payment.failed", "cashout.failed"}     -> {"failed"}
    [] event = "payment.cancelled"                        -> {"cancelled"}
    [] event = "payment.expired"                          -> {"expired"}
    [] event = "payment.refunded"                         -> {"refunded"}
    [] OTHER                                              -> GatewayStatus
=============================================================================
