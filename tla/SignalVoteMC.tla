---------------------------- MODULE SignalVoteMC ----------------------------
(***************************************************************************)
(* Instances of SignalVote for TLC.                                        *)
(***************************************************************************)
EXTENDS SignalVote

CONSTANTS a, b, p1, p2

MCStrategies == {a, b}
MCWeight     == [n \in MCStrategies |-> 20]
MCComposites == [n \in MCStrategies |-> IF n = a THEN {800} ELSE {700}]
MCPairs      == {p1, p2}
MCBroken     == {p2}
==============================================================================
