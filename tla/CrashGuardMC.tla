---------------------------- MODULE CrashGuardMC ----------------------------
(***************************************************************************)
(* Instances of CrashGuard for TLC.                                        *)
(***************************************************************************)
EXTENDS CrashGuard

CONSTANT u1

MCOne == {u1}
==============================================================================
