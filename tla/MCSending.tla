------------------------------ MODULE MCSending ------------------------------
(* A small instance of Sending for TLC. *)
EXTENDS Sending

(* GeniusPay serves Togo too, with the operator the seed routes otherwise,  *)
(* and then Malawi, whose currency the table currencies lacks.              *)
TogoListing == <<[iso2 |-> "TG", currency |-> "XOF", ops |-> <<[brand |-> "TMONEY"]>>],
                 [iso2 |-> "MW", currency |-> "MWK", ops |-> <<>>]>>

NumberOf == [tg |-> "TG", ga |-> "GA"]

RateChanges == {<<"percent", 30>>}
=============================================================================
