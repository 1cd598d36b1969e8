------------------------------ MODULE AccountsMC ------------------------------
(***************************************************************************)
(* Instances of Accounts for TLC.                                          *)
(***************************************************************************)
EXTENDS Accounts, TLC

Symmetry == Permutations(Slots) \cup Permutations(Subs)
==============================================================================
