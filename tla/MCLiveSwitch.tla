----------------------------- MODULE MCLiveSwitch -----------------------------
(* Model values and small inputs for checking LiveSwitch. *)
EXTENDS LiveSwitch, TLC

CONSTANTS BTC, ETH, w1

Line15(sym, market) == [sym |-> sym, market |-> market, tf |-> "15"]

(* One name traded on both markets; the other symbol has no trades. *)
TwoMarkets == {Line15(BTC, "futures"), Line15(BTC, "spot")}

Trades == [b \in TwoMarkets |-> IF b.market = "futures" THEN 2 ELSE 1]

SomeResults == {1, -1}

SomeGates == {Gates, Gates \ {"tfTier"}, Gates \ {"tp1", "fee"}}
=============================================================================
