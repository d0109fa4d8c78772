------------------------------- MODULE MCBrowser -------------------------------
(* Small instances of Browser for TLC. *)
EXTENDS Browser

CONSTANTS t1, t2

(* A tab of the customer, and one of the administrator or of the customer. *)
BothStart == t1 :> "/dashboard" @@ t2 :> "/admin"
OneStart == t1 :> "/dashboard"
=============================================================================
