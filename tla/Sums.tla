--------------------------------- MODULE Sums ---------------------------------
(***************************************************************************)
(* Sums of the values of a function, which the code writes as sum(...) over*)
(* a dict.                                                                 *)
(***************************************************************************)
EXTENDS FiniteSetsExt

SumOver(f, S) == MapThenSumSet(LAMBDA x : f[x], S)
===============================================================================
