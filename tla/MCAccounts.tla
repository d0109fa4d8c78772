----------------------------- MODULE MCAccounts ------------------------------
(* Small instances of Accounts for TLC. *)
EXTENDS Accounts, TLC

(* Requests are alike, and so are the phone numbers. *)
RequestSymmetry == Permutations(Handler)
Symmetry == Permutations(Handler) \cup Permutations(Phone)
=============================================================================
