----------------------------- MODULE MCBilling -----------------------------
(***************************************************************************)
(* An instance of Billing for TLC.                                         *)
(***************************************************************************)
EXTENDS Billing, TLC

Symmetry == Permutations(Orders) \cup Permutations(Users)
=============================================================================
