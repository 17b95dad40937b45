----------------------------- MODULE SymbolLearner -----------------------------
(***************************************************************************)
(* What SymbolLearner keeps per symbol and time frame, how a finished      *)
(* trade changes it, and when it refuses an entry.  Pure operators:        *)
(* ShadowLearning owns the table, its file and the traders that feed it.   *)
(*                                                                         *)
(* A trade is a win or not.  Rates are compared in whole percent.  What    *)
(* only sizes an order (price moves, Kelly fraction, size multiplier) is   *)
(* left out, an hour of the day is represented by its market session, and  *)
(* the EMA of the profit enters a verdict as a parameter, its quality in   *)
(* percent: the EMA is a real number that saturates at any profit that     *)
(* differs from zero by more than a cent.                                  *)
(***************************************************************************)
EXTENDS Integers, Sequences, FiniteSets

CONSTANTS
    Sessions,        \* market sessions (ASIA, EU, EU_US, US)
    RecentWindow,    \* SymbolLearnData::RECENT_WINDOW (10)
    CooldownStreak,  \* m_cooldown_streak (3)
    CooldownBase,    \* m_cooldown_minutes (30)
    BlacklistMin,    \* m_blacklist_min (10)
    QualityMin,      \* m_min_trades_quality (5)
    SessionMin       \* trades a session needs to be judged (5)

ASSUME LearnerAssumption ==
    /\ IsFiniteSet(Sessions) /\ Sessions # {}
    /\ RecentWindow \in Nat \ {0}
    /\ CooldownStreak \in Nat \ {0} /\ CooldownBase \in Nat \ {0}
    /\ BlacklistMin \in Nat \ {0}
    /\ QualityMin \in Nat \ {0} /\ SessionMin \in Nat \ {0}

Percent(w, t) == (100 * w) \div t

AtMost(a, b) == IF a < b THEN a ELSE b

(* A symbol the learner has not seen.  hist, when and lossAt are history,  *)
(* not code: every outcome recorded, oldest first, with its session, and   *)
(* the time of the last loss.  ring, idx and count are recent_pnls,        *)
(* recent_idx and recent_count.                                            *)
Unseen ==
    [total |-> 0, wins |-> 0, losses |-> 0, streak |-> 0, worst |-> 0,
     until |-> 0, black |-> FALSE,
     sessions |-> [s \in Sessions |-> [w |-> 0, t |-> 0]],
     ring |-> [i \in 0 .. RecentWindow - 1 |-> FALSE], idx |-> 0, count |-> 0,
     hist |-> <<>>, when |-> <<>>, lossAt |-> 0]

-----------------------------------------------------------------------------
(* record_trade *)

Cooldown(streak) == CooldownBase * 2 ^ AtMost(streak - CooldownStreak, 3)

(* Mutant of UpdateFilters: the pause is set when the streak begins only. *)
UpdateFiltersOnce(d, now) ==
    [d EXCEPT
        !.until = IF d.streak = CooldownStreak THEN now + Cooldown(d.streak) ELSE @,
        !.black = IF d.total < BlacklistMin THEN @
                  ELSE 4 * d.wins < d.total \/ (@ /\ 10 * d.wins < 3 * d.total)]

(* update_filters: blacklisted below 25 percent, cleared from 30 percent.  *)
UpdateFilters(d, now) ==
    [d EXCEPT
        !.until = IF d.streak >= CooldownStreak THEN now + Cooldown(d.streak)
                  ELSE @,
        !.black = IF d.total < BlacklistMin THEN @
                  ELSE \/ 4 * d.wins < d.total
                       \/ @ /\ 10 * d.wins < 3 * d.total]

Tally(s, win) == [w |-> s.w + (IF win THEN 1 ELSE 0), t |-> s.t + 1]

RecordTrade(d, win, session, now) ==
    LET streak == IF win THEN 0 ELSE d.streak + 1
    IN  UpdateFilters(
          [d EXCEPT
             !.total = @ + 1,
             !.wins = @ + (IF win THEN 1 ELSE 0),
             !.losses = @ + (IF win THEN 0 ELSE 1),
             !.streak = streak,
             !.worst = IF streak > @ THEN streak ELSE @,
             !.sessions[session] = Tally(@, win),
             !.ring[d.idx] = win,
             !.idx = (@ + 1) % RecentWindow,
             !.count = AtMost(@ + 1, RecentWindow),
             !.hist = Append(@, win),
             !.when = Append(@, session),
             !.lossAt = IF win THEN @ ELSE now],
          now)

-----------------------------------------------------------------------------
(* evaluate *)

RecentWins(d) == Cardinality({i \in 0 .. d.count - 1 : d.ring[i]})

(* calc_signal_quality: the hour (20) and the session (15) are one here.   *)
Quality(d, session, trend) ==
    LET base == Percent(d.wins, d.total)
        s == d.sessions[session]
        timely == IF s.t >= 3 THEN Percent(s.w, s.t) ELSE base
        recent == IF d.count >= 3 THEN Percent(RecentWins(d), d.count) ELSE 50
        calm == IF d.streak < 2 THEN 100
                ELSE IF d.streak > 5 THEN 10 ELSE 100 - 15 * d.streak
    IN  (35 * timely + 25 * (IF d.total >= 5 THEN trend ELSE 50)
            + 20 * recent + 20 * calm) \div 100

Denied(d, session, trend, now) ==
    \/ d.black /\ d.total >= BlacklistMin
    \/ now < d.until
    \/ d.total >= QualityMin /\ Quality(d, session, trend) < 20
    \/ LET s == d.sessions[session]
       IN  s.t >= SessionMin /\ 5 * s.w < s.t

-----------------------------------------------------------------------------
(* Mutant of Reloaded: recent_idx is not restored. *)
ReloadedFromZero(d) == [d EXCEPT !.idx = 0]

(* save_state_locked and load_entry write and read every field, the ring   *)
(* only as far as it is filled; the rest of it is zero after a restart.    *)
Reloaded(d) ==
    [d EXCEPT !.ring = [i \in 0 .. RecentWindow - 1 |-> i < d.count /\ @[i]]]

-----------------------------------------------------------------------------
(* Reference definitions: the same figures recomputed from the history.    *)

Losses(hist) == Cardinality({i \in 1 .. Len(hist) : ~hist[i]})

(* The trades of a session, and those of them that were won.               *)
TalliedFrom(hist, when, s) ==
    [w |-> Cardinality({i \in 1 .. Len(hist) : when[i] = s /\ hist[i]}),
     t |-> Cardinality({i \in 1 .. Len(hist) : when[i] = s})]

EndsInLosses(hist, n) == \A i \in Len(hist) - n + 1 .. Len(hist) : ~hist[i]

LastOutcomes(hist, n) == SubSeq(hist, Len(hist) - n + 1, Len(hist))

(* The ring read from the oldest entry to the newest.                      *)
RingInOrder(d) ==
    [i \in 1 .. d.count |->
        d.ring[(d.idx - d.count + i - 1 + RecentWindow) % RecentWindow]]

(* Statistics, streak, sessions and sliding window are those of the trades *)
(* recorded.                                                               *)
MatchesHistory(d) ==
    LET n == Len(d.hist)
    IN  /\ Len(d.when) = n
        /\ \A s \in Sessions : d.sessions[s] = TalliedFrom(d.hist, d.when, s)
        /\ d.total = n /\ d.losses = Losses(d.hist) /\ d.wins = n - d.losses
        /\ d.streak \in 0 .. n /\ EndsInLosses(d.hist, d.streak)
        /\ d.streak < n => d.hist[n - d.streak]
        /\ d.worst >= d.streak
        /\ d.worst = 0 \/ \E k \in d.worst .. n :
                             EndsInLosses(SubSeq(d.hist, 1, k), d.worst)
        /\ RingInOrder(d) = LastOutcomes(d.hist, AtMost(n, RecentWindow))
=============================================================================
