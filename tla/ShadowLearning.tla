---------------------------- MODULE ShadowLearning ----------------------------
(***************************************************************************)
(* ShadowTracker and SymbolLearner with their files.  Every futures signal *)
(* is traded on paper before any filter sees it; each paper trade that     *)
(* closes, and each trade of the engine, is recorded by the learner.  Both *)
(* save now and then, unchecked; the newest trades of the engine are saved *)
(* after each one, as a whole or not at all (StatePersistence), and taught *)
(* to the learner again at every start.                                    *)
(*                                                                         *)
(* The tracker works under m_mtx.  A close is two steps, the books with    *)
(* the learner and then the save, and a reversal three: other threads      *)
(* reach the learner in between, and the process may end.  Prices are left *)
(* out: a close is a win or not, as the environment says.                  *)
(***************************************************************************)
EXTENDS SymbolLearner, SetSums

CONSTANTS
    Symbols,
    Sides,           \* long and short
    TimeFrames,      \* time frames an alert may carry; "" when it has none
    Workers,
    SaveEvery,       \* tracker operations between saves (10)
    LearnSave,       \* learner records between saves (10)
    MaxKept,         \* trades the tracker keeps (5000)
    KeepSaved,       \* trades its file keeps (1000)
    MaxEngineTrades, \* kMaxTrades: trades the engine and its file keep (2000)
    SessionAt,       \* SessionAt[time]: the market session, by the hour of the clock
    MaxFaults,       \* bound: failing writes
    MaxInputs,       \* bound: signals and trades of the engine
    MaxCrashes,      \* bound: ends of the process
    MaxTime          \* bound: the clock

ASSUME ShadowAssumption ==
    /\ IsFiniteSet(Symbols) /\ IsFiniteSet(TimeFrames)
    /\ \E a, b \in Sides : a # b /\ Sides = {a, b}
    /\ SaveEvery \in Nat \ {0} /\ LearnSave \in Nat \ {0}
    /\ KeepSaved \in Nat /\ MaxKept \in Nat /\ KeepSaved <= MaxKept
    /\ MaxEngineTrades \in Nat
    /\ \A time \in 0 .. MaxTime : SessionAt[time] \in Sessions
    /\ \A n \in {MaxFaults, MaxInputs, MaxCrashes, MaxTime} : n \in Nat

VARIABLES
    shadow,       \* what the tracker keeps and saves: virtual positions, trades,
                  \* counters, live-equivalent keys and counters
    ops,          \* m_ops_since_save
    shadowFile,   \* shadow_state.json: its content, none when unreadable
    holder,       \* what the holder of m_mtx has still to do after a close
    learner,      \* SymbolLearner::m_data, Unseen where there is no entry
    unsaved,      \* m_trade_count_since_save
    learnerFile,  \* learner_state.json, in the same way
    engineTrades, \* the engine's m_trades
    engineFile,   \* the trades in state.json, none when there is no file
    posHolder,    \* what m_pos_mtx is held for: a trade or a batch of imported
                  \* ones that is recorded and not yet saved, or "none"
    pipeline,     \* the key of the entry each worker takes through the filters
    phase,        \* "up", "boot" while start() teaches old trades, or "down"
    booted,       \* number of engine trades start() has taught
    now,          \* clock
    inputs,       \* signals and trades of the engine so far, in all runs of the process
    faults,       \* writes that failed
    crashes,      \* ends of the process
    everClosed,   \* history: virtual trades closed in all runs of the process
    everTraded    \* history: trades of the engine recorded in all its runs

vars == <<shadow, ops, shadowFile, holder, learner, unsaved, learnerFile,
          engineTrades, engineFile, posHolder, pipeline, phase, booted, now, inputs,
          faults, crashes, everClosed, everTraded>>

trackerVars == <<shadow, ops, shadowFile, holder>>
learnerVars == <<learner, unsaved, learnerFile>>
engineVars == <<engineTrades, engineFile, posHolder, everTraded>>

(* Mutant of Opposite: a reversal looks for the side it enters. *)
OppositeSame(side) == side

Opposite(side) == CHOOSE other \in Sides : other # side

None == [sym |-> "none"]

(* A signal without time frame is "0" to the tracker and "unknown" to the  *)
(* engine.                                                                 *)
TrackerTf(tf) == IF tf = "" THEN "0" ELSE tf
EngineTf(tf) == IF tf = "" THEN "unknown" ELSE tf

Tfs == {TrackerTf(tf) : tf \in TimeFrames} \cup {EngineTf(tf) : tf \in TimeFrames}

(* Virtual positions and live-equivalent keys are both SYMBOL:TF:SIDE.     *)
PosKey == [sym : Symbols, tf : Tfs, side : Sides]

LearnKey == [sym : Symbols, tf : Tfs]
KeyOf(p) == [sym |-> p.sym, tf |-> p.tf]

EngineKey == [sym : Symbols, tf : {EngineTf(tf) : tf \in TimeFrames}]

Trade == [key : LearnKey, win : BOOLEAN]

NoShadow == [pos |-> {}, trades |-> <<>>, entries |-> 0, closes |-> 0,
             wins |-> 0, losses |-> 0, marks |-> {}, leEntries |-> 0,
             leCloses |-> 0]

NoLearning == [k \in LearnKey |-> Unseen]

Newest(seq, n) == SubSeq(seq, Len(seq) - AtMost(Len(seq), n) + 1, Len(seq))

Init ==
    /\ shadow = NoShadow /\ ops = 0 /\ shadowFile = {} /\ holder = None
    /\ learner = NoLearning /\ unsaved = 0 /\ learnerFile = {}
    /\ engineTrades = <<>> /\ engineFile = <<>> /\ posHolder = "none" /\ everTraded = 0
    /\ pipeline = [w \in Workers |-> None]
    /\ phase = "up" /\ booted = 0 /\ now = 0 /\ inputs = 0
    /\ faults = 0 /\ crashes = 0 /\ everClosed = 0

-----------------------------------------------------------------------------
(* Saving.  Nobody looks at the stream or at what rename returns: a write  *)
(* may leave the old file (the new one could not be opened) or replace it  *)
(* by a truncated one (the disk is full).                                  *)

Fault == faults < MaxFaults /\ faults' = faults + 1

(* save_state_locked of the tracker: the newest trades only. *)
SaveShadow(s) ==
    \/ /\ shadowFile' = {[s EXCEPT !.trades = Newest(@, KeepSaved)]}
       /\ UNCHANGED faults
    \/ Fault /\ shadowFile' \in {shadowFile, {}}

(* maybe_save *)
MaybeSave(s) ==
    IF ops + 1 < SaveEvery
    THEN ops' = ops + 1 /\ UNCHANGED <<shadowFile, faults>>
    ELSE ops' = 0 /\ SaveShadow(s)

(* save_state_locked of the learner. *)
SaveLearner(table) ==
    \/ learnerFile' = {table} /\ UNCHANGED faults
    \/ Fault /\ learnerFile' \in {learnerFile, {}}

(* SymbolLearner::record_trade, with its save; the session is that of the  *)
(* clock, also for a trade that is taught again.                           *)
Learn(k, win) ==
    LET table == [learner EXCEPT ![k] = RecordTrade(@, win, SessionAt[now], now)]
    IN  /\ learner' = table
        /\ IF unsaved + 1 < LearnSave
           THEN unsaved' = unsaved + 1 /\ UNCHANGED <<learnerFile, faults>>
           ELSE unsaved' = 0 /\ SaveLearner(table)

-----------------------------------------------------------------------------
(* The tracker *)

Free == phase = "up" /\ holder = None

Input == inputs < MaxInputs /\ inputs' = inputs + 1

Key(sym, tf, side) == [sym |-> sym, tf |-> tf, side |-> side]

Opened(s, p) == [s EXCEPT !.pos = @ \cup {p}, !.entries = @ + 1]

(* Mutant of Closed: the live-equivalent key is not erased. *)
ClosedMarked(s, p, win) ==
    [s EXCEPT
        !.pos = @ \ {p},
        !.trades = Newest(Append(@, [key |-> KeyOf(p), win |-> win]), MaxKept),
        !.closes = @ + 1,
        !.wins = @ + (IF win THEN 1 ELSE 0),
        !.losses = @ + (IF win THEN 0 ELSE 1),
        !.leCloses = @ + (IF p \in s.marks THEN 1 ELSE 0)]

(* close_position on the books of the tracker. *)
Closed(s, p, win) ==
    [s EXCEPT
        !.pos = @ \ {p},
        !.trades = Newest(Append(@, [key |-> KeyOf(p), win |-> win]), MaxKept),
        !.closes = @ + 1,
        !.wins = @ + (IF win THEN 1 ELSE 0),
        !.losses = @ + (IF win THEN 0 ELSE 1),
        !.leCloses = @ + (IF p \in s.marks THEN 1 ELSE 0),
        !.marks = @ \ {p}]

(* close_position as far as the learner; then has its save to do, and for  *)
(* a reversal the entry that follows.                                      *)
ClosePosition(p, win, then) ==
    /\ shadow' = Closed(shadow, p, win)
    /\ everClosed' = everClosed + 1
    /\ Learn(KeyOf(p), win)
    /\ holder' = [todo |-> "save", then |-> then]
    /\ UNCHANGED <<ops, shadowFile>>

(* ... and its maybe_save. *)
SaveAfterClose ==
    /\ holder # None /\ holder.todo = "save"
    /\ MaybeSave(shadow)
    /\ holder' = IF holder.then = None THEN None ELSE [holder EXCEPT !.todo = "open"]
    /\ UNCHANGED <<shadow, learnerVars, engineVars, pipeline, phase, booted, now, inputs,
                   crashes, everClosed>>

Open(p) ==
    /\ shadow' = Opened(shadow, p)
    /\ MaybeSave(Opened(shadow, p))

(* track_entry: nothing when the position is open already; else the        *)
(* opposite position of this time frame is closed first.  In any case the  *)
(* signal goes on to the filters.                                          *)
Handed(w, sym, tf, side) ==
    pipeline' = [pipeline EXCEPT ![w] = Key(sym, EngineTf(tf), side)]

(* Mutant of TrackKnown: the position that is open is overwritten. *)
TrackKnownAnew(w, sym, tf, side) ==
    LET p == Key(sym, TrackerTf(tf), side)
    IN  /\ Free /\ pipeline[w] = None /\ Input
        /\ p \in shadow.pos
        /\ Open(p)
        /\ Handed(w, sym, tf, side)
        /\ UNCHANGED <<holder, learnerVars, engineVars, phase, booted, now, crashes,
                       everClosed>>

TrackKnown(w, sym, tf, side) ==
    /\ Free /\ pipeline[w] = None /\ Input
    /\ Key(sym, TrackerTf(tf), side) \in shadow.pos
    /\ Handed(w, sym, tf, side)
    /\ UNCHANGED <<trackerVars, learnerVars, engineVars, phase, booted, now, faults,
                   crashes, everClosed>>

TrackEntry(w, sym, tf, side) ==
    LET p == Key(sym, TrackerTf(tf), side)
    IN  /\ Free /\ pipeline[w] = None /\ Input
        /\ p \notin shadow.pos
        /\ [p EXCEPT !.side = Opposite(side)] \notin shadow.pos
        /\ Open(p)
        /\ Handed(w, sym, tf, side)
        /\ UNCHANGED <<holder, learnerVars, engineVars, phase, booted, now, crashes,
                       everClosed>>

TrackReversal(w, sym, tf, side, win) ==
    LET p == Key(sym, TrackerTf(tf), side)
        opposite == [p EXCEPT !.side = Opposite(side)]
    IN  /\ Free /\ pipeline[w] = None /\ Input
        /\ p \notin shadow.pos /\ opposite \in shadow.pos
        /\ ClosePosition(opposite, win, p)
        /\ Handed(w, sym, tf, side)
        /\ UNCHANGED <<engineVars, phase, booted, now, crashes>>

OpenReversed ==
    /\ holder # None /\ holder.todo = "open"
    /\ Open(holder.then)
    /\ holder' = None
    /\ UNCHANGED <<learnerVars, engineVars, pipeline, phase, booted, now, inputs, crashes,
                   everClosed>>

(* find_by_symbol_side: when the time frame of the alert has no position,  *)
(* any other of the symbol and side.                                       *)
Matching(sym, tf, side) ==
    LET exact == Key(sym, TrackerTf(tf), side)
    IN  IF exact \in shadow.pos THEN {exact}
        ELSE {p \in shadow.pos : p.sym = sym /\ p.side = side}

(* track_tp and track_sl close the whole position. *)
TrackExit(sym, tf, side, win) ==
    /\ Free /\ Input
    /\ \E p \in Matching(sym, tf, side) : ClosePosition(p, win, None)
    /\ UNCHANGED <<engineVars, pipeline, phase, booted, now, crashes>>

(* mark_live_equivalent: an entry has passed the filters of the engine.    *)
Mark(w) ==
    /\ Free /\ pipeline[w] # None
    /\ shadow' = [shadow EXCEPT !.marks = @ \cup {pipeline[w]}, !.leEntries = @ + 1]
    /\ pipeline' = [pipeline EXCEPT ![w] = None]
    /\ UNCHANGED <<ops, shadowFile, holder, learnerVars, engineVars, phase, booted,
                   now, inputs, faults, crashes, everClosed>>

(* handle_entry returns before the mark. *)
FilteredOut(w) ==
    /\ phase = "up" /\ pipeline[w] # None
    /\ pipeline' = [pipeline EXCEPT ![w] = None]
    /\ UNCHANGED <<trackerVars, learnerVars, engineVars, phase, booted, now, inputs, faults,
                   crashes, everClosed>>

-----------------------------------------------------------------------------
(* The engine *)

(* A trade of the engine is taught. *)
Teach(k, win) ==
    /\ Learn(k, win)
    /\ everTraded' = everTraded + 1
    /\ UNCHANGED <<trackerVars, engineFile, pipeline, phase, booted, now, crashes,
                   everClosed>>

(* Mutant of EngineTrade: record_close and record_trade both teach it. *)
EngineTradeTwice(k, win) ==
    /\ phase = "up" /\ posHolder = "none" /\ Input
    /\ engineTrades' = Newest(Append(engineTrades, [key |-> k, win |-> win]),
                              MaxEngineTrades)
    /\ learner' = [learner EXCEPT
                     ![k] = RecordTrade(RecordTrade(@, win, SessionAt[now], now),
                                        win, SessionAt[now], now)]
    /\ posHolder' = "trade" /\ everTraded' = everTraded + 1
    /\ UNCHANGED <<trackerVars, unsaved, learnerFile, engineFile, pipeline, phase, booted,
                   now, faults, crashes, everClosed>>

(* record_trade of the engine's recorder, with cap_trades. *)
EngineTrade(k, win) ==
    /\ phase = "up" /\ posHolder = "none" /\ Input
    /\ engineTrades' = Newest(Append(engineTrades, [key |-> k, win |-> win]),
                              MaxEngineTrades)
    /\ posHolder' = "trade"
    /\ Teach(k, win)

(* import_trades, one record of its batch: it is dropped when a trade of   *)
(* the same symbol and figures is known, one of the same batch included.   *)
(* The trades kept are capped by the next one recorded and in the file.    *)
Known(k, win) ==
    \E i \in DOMAIN engineTrades :
        engineTrades[i].key.sym = k.sym /\ engineTrades[i].win = win

ImportTrade(k, win) ==
    /\ phase = "up" /\ posHolder \in {"none", "import"} /\ Input
    /\ ~Known(k, win)
    /\ engineTrades' = Append(engineTrades, [key |-> k, win |-> win])
    /\ posHolder' = "import"
    /\ Teach(k, win)

(* save_state with the trades that are kept.  Whoever records a trade saves *)
(* before it leaves m_pos_mtx; the keeper and the reconciliation save too.  *)
SaveEngine ==
    /\ phase = "up"
    /\ posHolder' = "none"
    /\ \/ engineFile' = Newest(engineTrades, MaxEngineTrades) /\ UNCHANGED faults
       \/ Fault /\ UNCHANGED engineFile
    /\ UNCHANGED <<trackerVars, learnerVars, engineTrades, everTraded, pipeline, phase,
                   booted, now, inputs, crashes, everClosed>>

(* periodic_tasks of the keeper, when the sync with the exchange that goes *)
(* before does not throw.  The count of operations is not reset.           *)
PeriodicSave ==
    /\ Free
    /\ SaveShadow(shadow)
    /\ UNCHANGED <<shadow, ops, holder, learnerVars, engineVars, pipeline, phase,
                   booted, now, inputs, crashes, everClosed>>

(* The process ends: by a crash, anywhere, or by a stop of main, which     *)
(* saves the engine's trades and the learner but not the tracker.          *)
End ==
    /\ crashes < MaxCrashes /\ crashes' = crashes + 1
    /\ phase' = "down"
    /\ shadow' = NoShadow /\ ops' = 0 /\ learner' = NoLearning /\ unsaved' = 0
    /\ engineTrades' = <<>> /\ posHolder' = "none"
    /\ holder' = None /\ pipeline' = [w \in Workers |-> None] /\ booted' = 0
    /\ UNCHANGED <<shadowFile, now, inputs, everClosed, everTraded>>

Crash == phase # "down" /\ End /\ UNCHANGED <<learnerFile, engineFile, faults>>

Stop ==
    /\ Free /\ posHolder = "none"
    /\ End
    /\ \E failed \in SUBSET {"state", "learner"} :
          /\ faults' = faults + Cardinality(failed) /\ faults' <= MaxFaults
          /\ engineFile' = IF "state" \in failed THEN engineFile
                           ELSE Newest(engineTrades, MaxEngineTrades)
          /\ IF "learner" \in failed THEN learnerFile' \in {learnerFile, {}}
             ELSE learnerFile' = {learner}

(* The constructors: load_state of the learner and of the tracker; then    *)
(* start() reads the engine's state.  A damaged file counts as none.       *)
Load ==
    /\ phase = "down"
    /\ phase' = "boot"
    /\ shadow' = IF shadowFile = {} THEN NoShadow ELSE CHOOSE s \in shadowFile : TRUE
    /\ learner' = IF learnerFile = {} THEN NoLearning
                  ELSE LET t == CHOOSE t \in learnerFile : TRUE
                       IN  [k \in LearnKey |-> Reloaded(t[k])]
    /\ engineTrades' = engineFile
    /\ UNCHANGED <<ops, unsaved, shadowFile, learnerFile, engineFile, posHolder, holder,
                   pipeline, booted, now, inputs, faults, crashes, everClosed, everTraded>>

(* start(): every restored trade of the engine is taught to the learner,   *)
(* whether or not its file already holds it; then the workers run.         *)
Bootstrap ==
    /\ phase = "boot" /\ booted < Len(engineTrades)
    /\ booted' = booted + 1
    /\ LET t == engineTrades[booted + 1] IN Learn(t.key, t.win)
    /\ UNCHANGED <<trackerVars, engineVars, pipeline, phase, now, inputs, crashes,
                   everClosed>>

StartWorkers ==
    /\ phase = "boot" /\ booted = Len(engineTrades)
    /\ phase' = "up" /\ booted' = 0
    /\ UNCHANGED <<trackerVars, learnerVars, engineVars, pipeline, now, inputs, faults,
                   crashes, everClosed>>

Tick ==
    /\ now < MaxTime /\ now' = now + 1
    /\ UNCHANGED <<trackerVars, learnerVars, engineVars, pipeline, phase, booted,
                   inputs, faults, crashes, everClosed>>

Next ==
    \/ \E sym \in Symbols, tf \in TimeFrames, side \in Sides :
        \/ \E w \in Workers : TrackKnown(w, sym, tf, side) \/ TrackEntry(w, sym, tf, side)
        \/ \E win \in BOOLEAN :
            \/ \E w \in Workers : TrackReversal(w, sym, tf, side, win)
            \/ TrackExit(sym, tf, side, win)
    \/ SaveAfterClose \/ OpenReversed
    \/ \E w \in Workers : Mark(w) \/ FilteredOut(w)
    \/ \E k \in EngineKey, win \in BOOLEAN :
        EngineTrade(k, win) \/ ImportTrade(k, win)
    \/ SaveEngine \/ PeriodicSave
    \/ Crash \/ Stop \/ Load \/ Bootstrap \/ StartWorkers \/ Tick

Spec == Init /\ [][Next]_vars

-----------------------------------------------------------------------------
(* What memory and an intact file hold. *)

Books == {shadow} \cup shadowFile

Tables == {learner} \cup learnerFile

(* The tracker's books balance, in memory and in its file, through crashes *)
(* and failed writes: what was opened is open or closed, what was closed   *)
(* was won or lost, and the trades the grades rest on are the closed ones  *)
(* or at least the newest KeepSaved of them.                               *)
ShadowLedger ==
    \A s \in Books :
        /\ s.entries = s.closes + Cardinality(s.pos)
        /\ s.closes = s.wins + s.losses
        /\ Len(s.trades) \in AtMost(s.closes, KeepSaved) .. AtMost(s.closes, MaxKept)

(* The tracker never is long and short in one symbol and time frame: not   *)
(* after reversals whose second half a crash cut off, nor after reloads.   *)
NoOppositeSides ==
    \A s \in Books : \A p, q \in s.pos : KeyOf(p) = KeyOf(q) => p = q

(* No trade is booked as live-equivalent twice or without its mark: the    *)
(* marks still open and the closes booked are covered by the entries.      *)
LiveEquivalentSound ==
    \A s \in Books : Cardinality(s.marks) + s.leCloses <= s.leEntries

(* The running figures of the learner are those of the trades it recorded, *)
(* also after its ring went through a file.                                *)
LearnerMatchesHistory == \A t \in Tables : \A k \in LearnKey : MatchesHistory(t[k])

(* A symbol whose last trades are a streak of losses is refused for at     *)
(* least the pause of that streak, counted from the last loss or a later   *)
(* start, whatever the other traders of the same key did in between.       *)
CooldownHolds ==
    \A k \in LearnKey, session \in Sessions, trend \in {0, 50, 100} :
        LET d == learner[k]
        IN  d.streak >= CooldownStreak /\ now < d.lossAt + Cooldown(d.streak)
              => Denied(d, session, trend, now)

(* Blacklisted below 25 percent, not from 30 percent, and between the two  *)
(* only after it had been below: a trade more never leaves a verdict the   *)
(* record does not justify.                                                *)
BlacklistJustified ==
    \A t \in Tables : \A k \in LearnKey :
        LET d == t[k]
            Below(n) == 4 * (n - Losses(SubSeq(d.hist, 1, n))) < n
        IN  /\ d.total >= BlacklistMin /\ 4 * d.wins < d.total => d.black
            /\ d.black => /\ 10 * d.wins < 3 * d.total
                          /\ \E n \in BlacklistMin .. d.total : Below(n)

(* The filters of the learner hold what their record justifies, neither     *)
(* less (a pause cut short by another trader) nor more (a blacklist nothing  *)
(* earned; symbol_learner.hpp:566-593).                                      *)
FiltersJustified == CooldownHolds /\ BlacklistJustified

Taught(table) == SumOver([k \in LearnKey |-> table[k].total], LearnKey)

(* A virtual trade is taught to the learner at most once for ever, a trade *)
(* of the engine once when it is recorded and once by every later start,   *)
(* which teaches no more than the engine's file keeps: whichever of the    *)
(* two files a crash or a failed write left behind the other.              *)
CountedOncePerRun ==
    Taught(learner) <=
        everClosed + everTraded + crashes * AtMost(everTraded, MaxEngineTrades)
=============================================================================
