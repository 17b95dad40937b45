--------------------------- MODULE MCFuturesEngine ---------------------------
(* Model values, symmetry and small inputs for checking FuturesEngine. *)
EXTENDS FuturesEngine, TLC

CONSTANTS BTC, ETH, SOL, w0, w1

SymbolSymmetry == Permutations(Symbols)

BothSides == {"long", "short"}
LongOnly  == {"long"}
AllKinds  == {"ENTRY", "TP1", "TP2", "TP3", "SL"}
EntryTPSL == {"ENTRY", "TP1", "SL"}
EntryTP   == {"ENTRY", "TP1"}
EntrySL   == {"ENTRY", "SL"}
EntryOnly == {"ENTRY"}
Mixed     == {TRUE, FALSE}
RealOnly  == {TRUE}
=============================================================================
