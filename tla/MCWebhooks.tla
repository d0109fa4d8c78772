------------------------------ MODULE MCWebhooks ------------------------------
(* Small instances of Webhooks for TLC. *)
EXTENDS Webhooks, TLC

(* Requests are alike; so are delivery identifiers. *)
Symmetry == Permutations(Handler) \cup Permutations(Delivery)

(* The fairness of Transfers, for instances in which no webhook is sent. *)
QuietFairSpec == HookSpec /\ Fairness /\ PatientSender /\ GatewayAnswers
=============================================================================
