----------------------------- MODULE MCSpotTrading -----------------------------
(* Model values and small inputs for checking SpotTrading. *)
EXTENDS SpotTrading, TLC

CONSTANTS AKT, w0, w1

Quotes == [s \in Symbols |-> "KRW"]

WorkerSymmetry == Permutations(Workers)
=============================================================================
