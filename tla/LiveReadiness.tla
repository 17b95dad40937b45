----------------------------- MODULE LiveReadiness -----------------------------
(***************************************************************************)
(* The rules of LiveReadinessEngine, as operators on one line of a report: *)
(* the grade the trackers give it, the readiness level, the rolling window *)
(* that may demote it, and how its confidence moves.  A line is the number *)
(* of wins and losses of a symbol on paper and its total pnl in whole      *)
(* units.  LiveSwitch has the state.                                       *)
(***************************************************************************)
EXTENDS Integers

CONSTANTS
    FewTrades,        \* trades that a grade needs (5)
    SmallSample,      \* trades that a level above PROMISING needs (15)
    MarginalTrades,   \* trades from which a C is blocked at entry (10)
    MinTradesReady,   \* min_trades_ready (30)
    MinTradesProven,  \* min_trades_proven (40)
    RequirePositive,  \* require_positive_pnl
    RollingWindow,    \* ROLLING_WINDOW (20)
    MaxConfidence     \* max_confidence (10)

ASSUME ReadinessAssumption ==
    /\ \A n \in {FewTrades, SmallSample, MarginalTrades, MinTradesReady, MinTradesProven,
                 RollingWindow} : n \in Nat
    /\ FewTrades > 0 /\ RequirePositive \in BOOLEAN /\ MaxConfidence \in Nat \ {0}

Line == [wins : Nat, losses : Nat, pnl : Int]

NoLine == [wins |-> 0, losses |-> 0, pnl |-> 0]

Plus(a, b) == [wins |-> a.wins + b.wins, losses |-> a.losses + b.losses,
               pnl |-> a.pnl + b.pnl]

Total(r) == r.wins + r.losses

WinRateAtLeast(r, percent) == 100 * r.wins >= percent * Total(r)

(* The grades of get_symbol_report and get_symbol_tf_report. *)
Grade(r) ==
    IF Total(r) < FewTrades THEN "?"
    ELSE IF WinRateAtLeast(r, 65) /\ r.pnl > 0 THEN "A+"
    ELSE IF WinRateAtLeast(r, 55) /\ r.pnl > 0 THEN "A"
    ELSE IF WinRateAtLeast(r, 50) /\ r.pnl > 0 THEN "B"
    ELSE IF WinRateAtLeast(r, 45) THEN "C"
    ELSE IF WinRateAtLeast(r, 35) THEN "D"
    ELSE "F"

PnlOk(r) == r.pnl > 0 \/ ~RequirePositive

(* evaluate_symbol *)
Level(r) ==
    CASE Grade(r) = "?" -> "LEARNING"
      [] Grade(r) \in {"D", "F"} -> "BLOCKED"
      [] Grade(r) = "C" -> IF r.pnl > 0 THEN "PROMISING" ELSE "BLOCKED"
      [] Grade(r) \in {"A+", "A", "B"} ->
           IF Total(r) < SmallSample \/ ~PnlOk(r) THEN "PROMISING"
           ELSE IF Total(r) >= MinTradesProven /\ Grade(r) # "B" THEN "PROVEN"
           ELSE IF Total(r) >= MinTradesReady THEN "READY"
           ELSE "PROMISING"

Ready(r) == Level(r) \in {"READY", "PROVEN"}

(* The shadow grade filter of handle_entry. *)
GradeBlocksEntry(r) ==
    \/ Grade(r) \in {"D", "F"}
    \/ Grade(r) = "C" /\ Total(r) >= MarginalTrades

Smaller(a, b) == IF a < b THEN a ELSE b

(* build_rolling: no report has recent_* fields, so that the totals stand  *)
(* in for the last trades, cut to the size of the window.                  *)
RollingWins(r) == Smaller(r.wins, RollingWindow)

(* The walk-forward check of refresh_eligible. *)
Demotes(r) ==
    /\ Total(r) >= RollingWindow
    /\ r.pnl < 0 \/ 100 * RollingWins(r) < 40 * RollingWindow

Pass(passes) == Smaller(passes + 1, MaxConfidence)

Miss(passes) == IF passes > 0 THEN passes - 1 ELSE 0
=============================================================================
