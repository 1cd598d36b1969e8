---------------------------- MODULE LiveTradingMC ----------------------------
(***************************************************************************)
(* Instances of LiveTrading for TLC.                                       *)
(***************************************************************************)
EXTENDS LiveTrading, TLC

CONSTANTS s1, s2

MCTwo      == {s1, s2}
MCNoGroups == [s \in Symbols |-> NoGroup]
MCSymmetry == Permutations(MCTwo)
==============================================================================
