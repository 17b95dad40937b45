------------------------------- MODULE SetSums -------------------------------
(***************************************************************************)
(* Sums over finite sets, of the values of a function.                     *)
(***************************************************************************)
EXTENDS Integers, FiniteSetsExt

SumOver(f, S) == MapThenSumSet(LAMBDA x : f[x], S)
=============================================================================
