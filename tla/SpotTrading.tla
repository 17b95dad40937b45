------------------------------ MODULE SpotTrading ------------------------------
(***************************************************************************)
(* Spot signals: SpotShadowTracker follows every one of them on paper and  *)
(* grades the symbols; the engine's spot handlers keep a paper account     *)
(* that buys a symbol unless its grade is poor.  The two share nothing but *)
(* the grade, which a worker reads before it takes m_spot_mtx.             *)
(*                                                                         *)
(* A grade is "?" (too few trades), "poor" (D, F) or "fair" (A+ to C): no  *)
(* more is told apart here, and profit does not decide between these.      *)
(* Percentages are whole, a part sold is rounded down.  The fee is part of *)
(* the recorded pnl and never of the balance, so that only the gross       *)
(* result of a trade is kept.                                              *)
(***************************************************************************)
EXTENDS Integers, Sequences, FiniteSets, SetSums

CONSTANTS
    Symbols,
    Exchanges,     \* upbit, bitget
    QuoteOf,       \* spot_quote_currency of each symbol
    TimeFrames,    \* time frames an alert may carry; "" when it has none
    Prices,        \* prices, divisors of Stake
    Workers,
    Stake,         \* KRW put into an entry (5000)
    Start,         \* balance of a new account (1000000)
    GradeMin,      \* trades that a grade needs (5)
    SaveEvery,     \* tracker operations between saves (10)
    MaxKept,       \* trades the tracker keeps (5000)
    KeepSaved,     \* trades its file keeps (1000)
    MaxSignals,    \* bound: signals received
    MaxFaults,     \* bound: writes that fail
    MaxCrashes     \* bound: ends of the process

ASSUME SpotAssumption ==
    /\ IsFiniteSet(Symbols) /\ IsFiniteSet(Exchanges) /\ IsFiniteSet(TimeFrames)
    /\ QuoteOf \in [Symbols -> {"KRW", "USDT", "BTC", "UNKNOWN"}]
    /\ Stake \in Nat \ {0} /\ Start \in Int
    /\ \A p \in Prices : p \in Nat \ {0} /\ Stake % p = 0
    /\ GradeMin \in Nat \ {0} /\ SaveEvery \in Nat \ {0} /\ KeepSaved \in Nat
    /\ MaxKept \in Nat /\ KeepSaved <= MaxKept

VARIABLES
    tracker,       \* what SpotShadowTracker keeps and saves
    ops,           \* m_ops_since_save
    trackerFile,   \* spot_shadow_state.json: its content, none when unreadable
    account,       \* m_spot_positions, m_spot_balance, m_spot_peak_balance and
                   \* the gross result of m_spot_trades
    accountFile,   \* spot/state.json
    job,           \* the signal each worker handles, with the grade it has read
    up,            \* the process runs
    received,      \* signals received so far, in all runs of the process
    faults,        \* writes that failed
    crashes        \* ends of the process

vars == <<tracker, ops, trackerFile, account, accountFile, job, up, received, faults,
          crashes>>

trackerVars == <<tracker, ops, trackerFile>>
accountVars == <<account, accountFile>>

Idle == [kind |-> "none"]

TrackerTf(tf) == IF tf = "" THEN "0" ELSE tf
EngineTf(tf) == IF tf = "" THEN "unknown" ELSE tf

(* make_key: SYMBOL:TF:EXCHANGE, the key of virtual positions and grades. *)
Key(sym, tf, ex) == [sym |-> sym, tf |-> tf, ex |-> ex]

Keys == [sym : Symbols, tf : {TrackerTf(tf) : tf \in TimeFrames}, ex : Exchanges]

NoTracker == [pos |-> {}, trades |-> <<>>, grades |-> [k \in Keys |-> "?"],
              entries |-> 0, closes |-> 0, wins |-> 0, losses |-> 0, sold |-> 0]

NoAccount == [pos |-> {}, balance |-> Start, peak |-> Start, gross |-> 0, buys |-> 0,
              sales |-> 0]

Init ==
    /\ tracker = NoTracker /\ ops = 0 /\ trackerFile = {}
    /\ account = NoAccount /\ accountFile = {}
    /\ job = [w \in Workers |-> Idle]
    /\ up = TRUE /\ received = 0 /\ faults = 0 /\ crashes = 0

Higher(a, b) == IF a > b THEN a ELSE b

Newest(seq, n) == SubSeq(seq, Higher(Len(seq) - n, 0) + 1, Len(seq))

-----------------------------------------------------------------------------
(* The tracker *)

Fault == faults < MaxFaults /\ faults' = faults + 1

(* save_state_locked: unchecked, like that of the futures tracker. *)
SaveTracker(t) ==
    \/ /\ trackerFile' = {[t EXCEPT !.trades = Newest(@, KeepSaved)]}
       /\ UNCHANGED faults
    \/ Fault /\ trackerFile' \in {trackerFile, {}}

(* maybe_save *)
Step(t) ==
    /\ tracker' = t
    /\ IF ops + 1 < SaveEvery
       THEN ops' = ops + 1 /\ UNCHANGED <<trackerFile, faults>>
       ELSE ops' = 0 /\ SaveTracker(t)

(* compute_grade *)
GradeOf(total, wins) ==
    IF total < GradeMin THEN "?" ELSE IF 100 * wins < 45 * total THEN "poor" ELSE "fair"

(* refresh_grade: over all trades kept of the key. *)
Grade(trades, key) ==
    LET mine == {i \in DOMAIN trades : trades[i].key = key}
    IN  GradeOf(Cardinality(mine), Cardinality({i \in mine : trades[i].win}))

KeyOf(p) == Key(p.sym, p.tf, p.ex)

(* Mutant of Booked: only a full close refreshes the grade. *)
BookedUngraded(t, key, part, win) ==
    LET trades == Newest(Append(t.trades, [key |-> key, win |-> win]), MaxKept)
        full == \E p \in t.pos : KeyOf(p) = key /\ p.left = part
    IN  [t EXCEPT !.trades = trades, !.closes = @ + 1,
                  !.wins = @ + (IF win THEN 1 ELSE 0),
                  !.losses = @ + (IF win THEN 0 ELSE 1),
                  !.sold = @ + part,
                  !.grades[key] = IF full THEN Grade(trades, key) ELSE @]

(* The books of partial_close and close_position: a trade for the part     *)
(* sold, in percent of the entry, and the grade of the key computed anew.  *)
Booked(t, key, part, win) ==
    LET trades == Newest(Append(t.trades, [key |-> key, win |-> win]), MaxKept)
    IN  [t EXCEPT !.trades = trades, !.closes = @ + 1,
                  !.wins = @ + (IF win THEN 1 ELSE 0),
                  !.losses = @ + (IF win THEN 0 ELSE 1),
                  !.sold = @ + part,
                  !.grades[key] = Grade(trades, key)]

ClosedAll(t, p, win) ==
    [Booked(t, KeyOf(p), p.left, win) EXCEPT !.pos = @ \ {p}]

(* Mutant of ClosedPart: the percentage is taken as one of the entry. *)
ClosedPartOfAll(t, p, pct, win) ==
    LET rest == [p EXCEPT !.left = @ - pct]
    IN  [Booked(t, KeyOf(p), (p.left * pct) \div 100, win) EXCEPT
            !.pos = (@ \ {p}) \cup (IF rest.left < 1 THEN {} ELSE {rest})]

(* partial_close sells a percentage of what is left. *)
ClosedPart(t, p, pct, win) ==
    LET part == (p.left * pct) \div 100
        rest == [p EXCEPT !.left = @ - part]
    IN  [Booked(t, KeyOf(p), part, win) EXCEPT
            !.pos = (@ \ {p}) \cup (IF rest.left < 1 THEN {} ELSE {rest})]

(* track_entry: buys only, KRW pairs on upbit and USDT pairs on bitget.    *)
Tracks(sig) ==
    /\ sig.side = "buy"
    /\ sig.ex = "upbit" => QuoteOf[sig.sym] = "KRW"
    /\ sig.ex = "bitget" => QuoteOf[sig.sym] = "USDT"
    /\ \A p \in tracker.pos : KeyOf(p) # Key(sig.sym, TrackerTf(sig.tf), sig.ex)

TrackEntry(sig) ==
    IF Tracks(sig)
    THEN Step([tracker EXCEPT
                 !.pos = @ \cup {[sym |-> sig.sym, tf |-> TrackerTf(sig.tf),
                                  ex |-> sig.ex, left |-> 100]},
                 !.entries = @ + 1])
    ELSE UNCHANGED <<trackerVars, faults>>

(* The position of the key, else any position of the symbol, whatever its  *)
(* time frame and exchange (find_by_symbol).                               *)
Matching(sig) ==
    LET exact == {p \in tracker.pos : KeyOf(p) = Key(sig.sym, TrackerTf(sig.tf), sig.ex)}
    IN  IF exact # {} THEN exact ELSE {p \in tracker.pos : p.sym = sig.sym}

(* tp_close_pct *)
ClosePct(level) == CASE level = "TP1" -> 33 [] level = "TP2" -> 50 [] OTHER -> 100

ExitPct(sig) == IF sig.kind = "sl" THEN 100 ELSE ClosePct(sig.level)

(* track_tp: the percentage, which is one of what is left, is compared     *)
(* with what is left in percent of the entry.  track_sl closes everything. *)
TrackExit(sig) ==
    IF Matching(sig) = {} \/ sig.side # "buy" THEN UNCHANGED <<trackerVars, faults>>
    ELSE \E p \in Matching(sig), win \in BOOLEAN :
            IF ExitPct(sig) >= p.left
            THEN Step(ClosedAll(tracker, p, win))
            ELSE Step(ClosedPart(tracker, p, ExitPct(sig), win))

-----------------------------------------------------------------------------
(* The engine's spot handlers *)

Signal == [kind : {"entry"}, sym : Symbols, ex : Exchanges, tf : TimeFrames,
           side : {"buy", "sell"}, level : {""}]
     \cup [kind : {"tp"}, sym : Symbols, ex : Exchanges, tf : TimeFrames,
           side : {"buy", "sell"}, level : {"TP1", "TP2", "TP3"}]
     \cup [kind : {"sl"}, sym : Symbols, ex : Exchanges, tf : TimeFrames,
           side : {"buy", "sell"}, level : {""}]

(* What the handlers look at: an entry must be a buy of a KRW pair; an     *)
(* exit is taken whatever its direction and time frame.                    *)
Handed(sig) ==
    IF sig.kind # "entry"
    THEN [kind |-> "exit", sym |-> sig.sym, ex |-> sig.ex, pct |-> ExitPct(sig)]
    ELSE IF sig.side = "buy" /\ QuoteOf[sig.sym] = "KRW"
         THEN [kind |-> "entry", sym |-> sig.sym, ex |-> sig.ex, tf |-> EngineTf(sig.tf)]
         ELSE Idle

(* process_signal shows the signal to the tracker before any filter.       *)
Receive(w, sig) ==
    /\ up /\ job[w] = Idle
    /\ received < MaxSignals /\ received' = received + 1
    /\ IF sig.kind = "entry" THEN TrackEntry(sig) ELSE TrackExit(sig)
    /\ job' = [job EXCEPT ![w] = Handed(sig)]
    /\ UNCHANGED <<accountVars, up, crashes>>

Done(w) == job' = [job EXCEPT ![w] = Idle]

(* The signal is stale, a duplicate or without a price, or the lock of the *)
(* symbol cannot be had in time.                                           *)
Skip(w) ==
    /\ job[w] # Idle
    /\ Done(w)
    /\ UNCHANGED <<trackerVars, accountVars, up, received, faults, crashes>>

(* Symbols whose lock a worker holds while it is between two steps. *)
Locked == {job[w].sym : w \in {v \in Workers : job[v].kind = "graded"}}

(* handle_spot_entry up to the grade: the lock is taken, the grade read.   *)
(* The key has the engine's time frame, the table the tracker's.           *)
ReadGrade(w) ==
    /\ job[w].kind = "entry" /\ job[w].sym \notin Locked
    /\ LET key == Key(job[w].sym, job[w].tf, job[w].ex)
       IN  IF key \in Keys /\ tracker.grades[key] = "poor"
           THEN Done(w)
           ELSE job' = [job EXCEPT ![w] = [kind |-> "graded", sym |-> @.sym, ex |-> @.ex]]
    /\ UNCHANGED <<trackerVars, accountVars, up, received, faults, crashes>>

(* save_state of the account (StatePersistence): the old file stays when   *)
(* it fails, and the books go on.                                          *)
SaveAccount(a) ==
    \/ accountFile' = {a} /\ UNCHANGED faults
    \/ Fault /\ UNCHANGED accountFile

(* Mutant of OnBooks: a position of the price in hand is looked for, as by  *)
(* a key made of more than symbol and exchange.                            *)
OnBooksYoungest(sym, ex) ==
    {p \in account.pos : p.sym = sym /\ p.ex = ex /\ p.oid = account.buys}

OnBooks(sym, ex) == {p \in account.pos : p.sym = sym /\ p.ex = ex}

(* handle_spot_entry under m_spot_mtx. *)
Buy(w, price) ==
    /\ job[w].kind = "graded"
    /\ IF OnBooks(job[w].sym, job[w].ex) # {}
       THEN UNCHANGED <<accountVars, faults>>
       ELSE /\ account' = [account EXCEPT
                 !.pos = @ \cup {[oid |-> account.buys, sym |-> job[w].sym,
                                  ex |-> job[w].ex, entry |-> price,
                                  qty |-> Stake \div price]},
                 !.balance = @ - Stake,
                 !.buys = @ + 1]
            /\ SaveAccount(account')
    /\ Done(w)
    /\ UNCHANGED <<trackerVars, up, received, crashes>>

(* Mutant of Paid: the balance gets the profit only, not the proceeds. *)
PaidProfit(a, p, qty, price) ==
    [a EXCEPT !.balance = @ + (price - p.entry) * qty,
              !.peak = Higher(@, a.balance + (price - p.entry) * qty),
              !.gross = @ + (price - p.entry) * qty,
              !.sales = @ + 1]

Paid(a, p, qty, price) ==
    [a EXCEPT !.balance = @ + price * qty,
              !.peak = Higher(@, a.balance + price * qty),
              !.gross = @ + (price - p.entry) * qty,
              !.sales = @ + 1]

(* handle_spot_tp and handle_spot_sl: one position of the symbol and       *)
(* exchange is sold, in part at TP1 and TP2.                               *)
Sell(w, price) ==
    LET exit == job[w]
    IN  /\ exit.kind = "exit" /\ exit.sym \notin Locked
        /\ \E p \in OnBooks(exit.sym, exit.ex) :
             LET qty == (p.qty * exit.pct) \div 100
                 rest == [p EXCEPT !.qty = @ - qty]
             IN  account' = [Paid(account, p, qty, price) EXCEPT
                               !.pos = (@ \ {p}) \cup (IF rest.qty <= 0 THEN {} ELSE {rest})]
        /\ SaveAccount(account')
        /\ Done(w)
        /\ UNCHANGED <<trackerVars, up, received, crashes>>

(* The keeper's periodic saves, of both. *)
PeriodicSave ==
    /\ up
    /\ \/ SaveTracker(tracker) /\ UNCHANGED accountFile
       \/ SaveAccount(account) /\ UNCHANGED trackerFile
    /\ UNCHANGED <<tracker, ops, account, job, up, received, crashes>>

(* The process ends by a crash, or by a stop, which saves the account only. *)
End ==
    /\ up /\ crashes < MaxCrashes /\ crashes' = crashes + 1
    /\ up' = FALSE /\ job' = [w \in Workers |-> Idle]
    /\ tracker' = NoTracker /\ ops' = 0 /\ account' = NoAccount
    /\ UNCHANGED <<trackerFile, received>>

Crash == End /\ UNCHANGED <<accountFile, faults>>

Stop == (\A w \in Workers : job[w] = Idle) /\ End /\ SaveAccount(account)

(* load_state of the tracker, and of the account in start(), which drops   *)
(* what is no KRW pair.  The tracker's own filter of pairs drops nothing   *)
(* that its entries let in.                                                *)
Restart ==
    /\ ~up /\ up' = TRUE
    /\ tracker' = IF trackerFile = {} THEN NoTracker ELSE CHOOSE t \in trackerFile : TRUE
    /\ account' = IF accountFile = {} THEN NoAccount
                  ELSE LET a == CHOOSE a \in accountFile : TRUE
                       IN  [a EXCEPT !.pos = {p \in @ : QuoteOf[p.sym] = "KRW"}]
    /\ UNCHANGED <<ops, trackerFile, accountFile, job, received, faults, crashes>>

Next ==
    \/ \E w \in Workers :
        \/ \E sig \in Signal : Receive(w, sig)
        \/ \E price \in Prices : Buy(w, price) \/ Sell(w, price)
        \/ Skip(w) \/ ReadGrade(w)
    \/ PeriodicSave \/ Crash \/ Stop \/ Restart

Spec == Init /\ [][Next]_vars

-----------------------------------------------------------------------------
Accounts == {account} \cup accountFile

Trackers == {tracker} \cup trackerFile

Cost(pos) == SumOver([p \in pos |-> p.qty * p.entry], pos)

Left(pos) == SumOver([p \in pos |-> p.left], pos)

(* The account neither makes nor loses money: what it started with and the *)
(* gross result of its trades are the balance and the cost of what is      *)
(* held, through partial sales, failed saves and crashes; the peak is one. *)
SpotLedger ==
    \A a \in Accounts :
        /\ Start + a.gross = a.balance + Cost(a.pos)
        /\ a.peak >= a.balance /\ a.peak >= Start

(* At most one position per symbol and exchange, whichever time frames the *)
(* alerts came from and whoever else was buying, and never an empty one.   *)
OneSpotPosition ==
    \A a \in Accounts : \A p, q \in a.pos :
        /\ p.qty > 0
        /\ p.sym = q.sym /\ p.ex = q.ex => p = q

(* A virtual position is sold once: the parts sold and the parts left make *)
(* up the entries, at any order of take profits; trades are won or lost.   *)
SharesConserved ==
    \A t \in Trackers :
        /\ t.sold + Left(t.pos) = 100 * t.entries
        /\ t.closes = t.wins + t.losses
        /\ t.entries - Cardinality(t.pos) <= t.closes

(* The cached grade is the one its trades give, as long as no trade had to *)
(* be dropped: a grade is refreshed at each trade of its key, and no trade *)
(* of another key or restart puts it out of date.                          *)
GradeCurrent ==
    \A t \in Trackers :
        t.closes = Len(t.trades) => \A k \in Keys : t.grades[k] = Grade(t.trades, k)
=============================================================================
