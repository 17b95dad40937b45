---------------------------- MODULE MCSignalIntake ----------------------------
(* Model values and small inputs for checking SignalIntake. *)
EXTENDS SignalIntake, TLC

CONSTANTS a1, a2, BTC, ETH, w0, w1, t0

AlertSymbol == [a \in Alerts |-> IF a = a2 THEN ETH ELSE BTC]
=============================================================================
