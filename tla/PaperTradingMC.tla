--------------------------- MODULE PaperTradingMC ---------------------------
(***************************************************************************)
(* Instances of PaperTrading for TLC.                                      *)
(***************************************************************************)
EXTENDS PaperTrading, TLC

CONSTANTS s1, s2, s3, grouped, Pairs

MCFree         == {s1, s2, s3}
MCGroups       == {grouped}
MCTrioGroupOf  == [s \in MCFree |-> IF s = s3 THEN NoGroup ELSE grouped]
MCFreeGroupOf  == [s \in MCFree |-> NoGroup]
MCPairsGroupOf == [s \in Pairs |-> NoGroup]

(* s3 is in no group.                                                      *)
MCPairSymmetry == Permutations({s1, s2})
==============================================================================
