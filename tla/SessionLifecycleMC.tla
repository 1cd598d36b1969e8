-------------------------- MODULE SessionLifecycleMC --------------------------
(***************************************************************************)
(* Instances of SessionLifecycle for TLC.                                  *)
(***************************************************************************)
EXTENDS SessionLifecycle

CONSTANTS u1, u2, r1, r2

MCUsers    == {u1, u2}
MCRequests == {r1, r2}
==============================================================================
