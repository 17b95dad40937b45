---------------------------- MODULE FuturesEngine ----------------------------
(***************************************************************************)
(* The futures side of the execution engine: worker threads that take      *)
(* signals through the symbol lock, the entry / TP / SL pipelines, the     *)
(* tracked positions and the trade ledger guarded by m_pos_mtx, the        *)
(* WebSocket close callback, the reconciliation with the exchange, and the *)
(* saved state a restart comes back to.                                    *)
(*                                                                         *)
(* One action is one critical section, or one call to the exchange.  What  *)
(* happens between two of them is where other threads interleave.  The     *)
(* model is of the engine trading live (shadow_mode false): an entry       *)
(* becomes a real order or, for a symbol that is not eligible, a paper     *)
(* position.  Prices, tiers, scores and sizes are abstracted: any entry    *)
(* may be filtered out before the portfolio check.                         *)
(***************************************************************************)
EXTENDS Integers, FiniteSets, Sequences

CONSTANTS
    Symbols,        \* contracts the signals name
    Sides,          \* hold sides in use, a subset of {"long", "short"}
    Workers,        \* worker threads
    Keeper,         \* the worker with wid = 0, which runs periodic_tasks
    NoWorker,       \* owner of a free symbol lock
    Kinds,          \* signal kinds delivered: "ENTRY", "TP1", "TP2", "TP3", "SL"
    RealChoices,    \* which entries become real orders: a subset of BOOLEAN
    MaxConcurrent,  \* PortfolioRiskManager::m_max_concurrent
    MaxSameDir,     \* PortfolioRiskManager::m_max_same_direction
    MaxPerSymbol,   \* RiskLimits::max_position_per_symbol
    MaxOpenOrders,  \* RiskLimits::max_open_orders
    EntryQty,       \* quantity of one entry, in hundredths of a lot
    Lot,            \* the contract's smallest tradable quantity
    MaxSignals,     \* bound: signals delivered
    MaxMoves,       \* bound: positions opened or closed outside the engine
    MaxInbox,       \* bound: WebSocket close events in flight
    MaxSilences,    \* bound: connections that fall silent
    MaxRestarts     \* bound: crashes

ASSUME SetAssumption ==
    /\ IsFiniteSet(Symbols)
    /\ IsFiniteSet(Workers)
    /\ Keeper \in Workers
    /\ NoWorker \notin Workers
    /\ Sides \subseteq {"long", "short"}
    /\ Kinds \subseteq {"ENTRY", "TP1", "TP2", "TP3", "SL"}
    /\ RealChoices \subseteq BOOLEAN

ASSUME NumberAssumption ==
    /\ MaxConcurrent \in Nat \ {0}
    /\ MaxSameDir \in Nat \ {0}
    /\ MaxPerSymbol \in Nat \ {0}
    /\ MaxOpenOrders \in Nat \ {0}
    /\ EntryQty \in Nat \ {0}
    /\ Lot \in Nat \ {0}
    /\ MaxSignals \in Nat
    /\ MaxMoves \in Nat
    /\ MaxInbox \in Nat
    /\ MaxSilences \in Nat
    /\ MaxRestarts \in Nat

VARIABLES
    tracked,     \* m_positions: the positions the engine believes in
    recorded,    \* quantity of each order id already written to m_trades
    disk,        \* the last state.json: the two variables above, as saved
    exch,        \* quantity held on the exchange, per symbol and hold side
    inbox,       \* position-closed events the WebSocket has yet to deliver
    silent,      \* workers in a call to the exchange that never returns
    posHeld,     \* m_pos_mtx is held by a reconciliation that never returns
    owner,       \* holder of each symbol's lock (SymbolLockManager)
    pc,          \* where each worker is in its pipeline
    job,         \* the locals of each worker's pipeline
    openOrders,  \* RiskManager::m_open_orders
    opened,      \* RiskManager::m_positions[symbol].count
    nextOid,     \* m_next_oid
    budget       \* what is left of the bounds on the environment

vars == <<tracked, recorded, disk, exch, inbox, silent, posHeld, owner, pc, job,
          openOrders, opened, nextOid, budget>>

positionVars == <<tracked, recorded, disk>>
requestVars  == <<silent, posHeld>>
exchangeVars == <<exch, inbox, requestVars>>
riskVars     == <<openOrders, opened, nextOid>>

-----------------------------------------------------------------------------
(* Positions and their keys in m_positions. *)

Oids == 1..MaxSignals

(* Positions the engine opened carry their order id; a position imported by
   Sync has the key "<symbol>_<side>_ext", written here as order id 0. *)
Ext == 0

Position == [oid: Oids \cup {Ext}, symbol: Symbols, side: Sides,
             qty: Nat \ {0}, real: BOOLEAN]

Key(o, s, d) == <<o, s, d>>

KeyOf(p) == Key(p.oid, p.symbol, p.side)

(* get: the entry of m_positions under a key, as a set of at most one. *)
At(key) == {p \in tracked : KeyOf(p) = key}

(* The positions T holds on one side of a symbol. *)
On(T, s, d) == {p \in T : p.symbol = s /\ p.side = d}

(* The quantity a TP level closes: 33%, 50%, or everything.  Quantities are
   doubles in the code, so a share of a position is never 0: round up. *)
CloseQty(kind, q) ==
    IF kind = "TP1" THEN (33 * q + 99) \div 100
    ELSE IF kind = "TP2" THEN (q + 1) \div 2
    ELSE q

(* record_close, record_ws_close: append a trade of quantity q to the ledger R. *)
Record(R, p, q) == IF p.oid = Ext THEN R ELSE [R EXCEPT ![p.oid] = @ + q]

(* Mutant of Reduce: the reduced quantity is not written back. *)
ReduceNothing(p, q) == {p}

(* reduce_quantity: what is left of the position, nothing when it reaches 0. *)
Reduce(p, q) == IF p.qty > q THEN {[p EXCEPT !.qty = @ - q]} ELSE {}

(* save_state: the snapshot written while m_pos_mtx is held. *)
Save(T, R) == disk' = [tracked |-> T, recorded |-> R]

-----------------------------------------------------------------------------
(* The exchange, as the engine sees it through the REST client. *)

(* The size a close order carries: whole lots, at least one. *)
OrderLots(q) == IF q < Lot THEN Lot ELSE (q \div Lot) * Lot

(* n executions of a market close of size q against what is held. *)
Closed(held, q, n) == IF n * q >= held THEN 0 ELSE held - n * q

(* A side that becomes empty is announced on the position channel, unless the
   WebSocket is not connected. *)
Announced(s, d, q) ==
    IF q = 0 /\ exch[s][d] > 0 /\ Len(inbox) < MaxInbox
    THEN {inbox, Append(inbox, <<s, d>>)}
    ELSE {inbox}

Hold(s, d, q) == /\ exch' = [exch EXCEPT ![s][d] = q]
                 /\ inbox' \in Announced(s, d, q)

-----------------------------------------------------------------------------
(* Workers. *)

NoJob == [kind |-> "NONE"]

Job == [kind: Kinds, symbol: Symbols, side: Sides, oid: Oids \cup {Ext},
        qty: Nat, attempt: 1..3, filled: BOOLEAN]

(* Steps of the entry pipeline between admission and registration. *)
Admitted == {"validate", "paper", "place", "sent", "register"}

Labels == Admitted \cup
          {"idle", "lock", "entry", "save",
           "find", "isreal", "papertp", "papersl",
           "tpclose", "tprecord", "slclose", "slrecord"}

Goto(w, label) == pc' = [pc EXCEPT ![w] = label]

(* The handler returns: the SymbolLockGuard releases the symbol. *)
Finish(w) == /\ Goto(w, "idle")
             /\ job' = [job EXCEPT ![w] = NoJob]
             /\ owner' = [owner EXCEPT ![job[w].symbol] = NoWorker]

Init ==
    /\ tracked = {}
    /\ recorded = [o \in Oids |-> 0]
    /\ disk = [tracked |-> {}, recorded |-> [o \in Oids |-> 0]]
    /\ exch = [s \in Symbols |-> [d \in Sides |-> 0]]
    /\ inbox = <<>>
    /\ silent = {}
    /\ posHeld = FALSE
    /\ owner = [s \in Symbols |-> NoWorker]
    /\ pc = [w \in Workers |-> "idle"]
    /\ job = [w \in Workers |-> NoJob]
    /\ openOrders = 0
    /\ opened = [s \in Symbols |-> 0]
    /\ nextOid = 1
    /\ budget = [signals |-> MaxSignals, moves |-> MaxMoves,
                 silences |-> MaxSilences, restarts |-> MaxRestarts]

(* worker_loop: pop a signal; process_signal dispatches it on its kind. *)
Receive(w) ==
    /\ pc[w] = "idle" /\ w \notin silent
    /\ budget.signals > 0
    /\ budget' = [budget EXCEPT !.signals = @ - 1]
    /\ \E k \in Kinds, s \in Symbols, d \in Sides :
          job' = [job EXCEPT ![w] =
                    [kind |-> k, symbol |-> s, side |-> d, oid |-> Ext,
                     qty |-> 0, attempt |-> 1, filled |-> FALSE]]
    /\ Goto(w, "lock")
    /\ UNCHANGED <<positionVars, exchangeVars, owner, riskVars>>

(* Mutant of LockSymbol: a lock somebody holds is taken all the same. *)
LockSymbolHeld(w) ==
    /\ pc[w] = "lock"
    /\ owner' = [owner EXCEPT ![job[w].symbol] = w]
    /\ Goto(w, IF job[w].kind = "ENTRY" THEN "entry" ELSE "find")
    /\ UNCHANGED <<positionVars, exchangeVars, job, riskVars, budget>>

(* wait_lock succeeds: the symbol was free, or became free in time. *)
LockSymbol(w) ==
    /\ pc[w] = "lock"
    /\ owner[job[w].symbol] = NoWorker
    /\ owner' = [owner EXCEPT ![job[w].symbol] = w]
    /\ Goto(w, IF job[w].kind = "ENTRY" THEN "entry" ELSE "find")
    /\ UNCHANGED <<positionVars, exchangeVars, job, riskVars, budget>>

(* wait_lock times out while another worker keeps the symbol: the signal is
   dropped. *)
LockTimeout(w) ==
    /\ pc[w] = "lock"
    /\ owner[job[w].symbol] # NoWorker
    /\ Goto(w, "idle")
    /\ job' = [job EXCEPT ![w] = NoJob]
    /\ UNCHANGED <<positionVars, exchangeVars, owner, riskVars, budget>>

-----------------------------------------------------------------------------
(* Entry. *)

(* A tier, grade, learner, timeframe, fee or size filter drops the entry. *)
EntryFiltered(w) ==
    /\ pc[w] = "entry"
    /\ Finish(w)
    /\ UNCHANGED <<positionVars, exchangeVars, riskVars, budget>>

(* Mutants of Admissible: no check for a position on the other side; a limit
   that admits one too many. *)
AdmissibleOneSide(s, d) ==
    /\ On(tracked, s, d) = {}
    /\ Cardinality(tracked) < MaxConcurrent
    /\ Cardinality({p \in tracked : p.side = d}) < MaxSameDir

AdmissibleOffByOne(s, d) ==
    /\ \A p \in tracked : p.symbol # s
    /\ Cardinality(tracked) <= MaxConcurrent
    /\ Cardinality({p \in tracked : p.side = d}) < MaxSameDir

(* The portfolio check, under m_pos_mtx: no position on either side of the
   symbol, and room under the concurrency and direction limits. *)
Admissible(s, d) ==
    /\ \A p \in tracked : p.symbol # s
    /\ Cardinality(tracked) < MaxConcurrent
    /\ Cardinality({p \in tracked : p.side = d}) < MaxSameDir

EntryBlocked(w) ==
    /\ pc[w] = "entry" /\ ~posHeld
    /\ ~Admissible(job[w].symbol, job[w].side)
    /\ Finish(w)
    /\ UNCHANGED <<positionVars, exchangeVars, riskVars, budget>>

EntryAdmitted(w) ==
    /\ pc[w] = "entry" /\ ~posHeld
    /\ Admissible(job[w].symbol, job[w].side)
    /\ Goto(w, "validate")
    /\ UNCHANGED <<positionVars, exchangeVars, owner, job, riskVars, budget>>

(* RiskManager::validate: room for another open order, and fewer openings of
   the symbol than its limit. *)
Valid(s) == openOrders < MaxOpenOrders /\ opened[s] < MaxPerSymbol

(* An order id is drawn, validate runs, and the mode decides between a real
   order and a paper position. *)
Validate(w) ==
    /\ pc[w] = "validate"
    /\ nextOid \in Oids
    /\ nextOid' = nextOid + 1
    /\ \/ /\ ~Valid(job[w].symbol)
          /\ Finish(w)
       \/ /\ Valid(job[w].symbol)
          /\ job' = [job EXCEPT ![w].oid = nextOid]
          /\ \E real \in RealChoices : Goto(w, IF real THEN "place" ELSE "paper")
          /\ UNCHANGED owner
    /\ UNCHANGED <<positionVars, exchangeVars, openOrders, opened, budget>>

(* The position an entry registers. *)
NewPosition(w, real) ==
    [oid |-> job[w].oid, symbol |-> job[w].symbol, side |-> job[w].side,
     qty |-> EntryQty, real |-> real]

(* A paper entry is registered and not saved. *)
RegisterPaper(w) ==
    /\ pc[w] = "paper" /\ ~posHeld
    /\ tracked' = tracked \cup {NewPosition(w, FALSE)}
    /\ Finish(w)
    /\ UNCHANGED <<recorded, disk, exchangeVars, riskVars, budget>>

(* Mutant of PlaceOrder: the retry is not counted. *)
PlaceOrderCountedOnce(w) ==
    /\ pc[w] = "place"
    /\ openOrders' = IF job[w].attempt = 1 THEN openOrders + 1 ELSE openOrders
    /\ Goto(w, "sent")
    /\ UNCHANGED <<positionVars, exchangeVars, owner, job, opened, nextOid, budget>>

(* on_order_placed, then the request is on its way. *)
PlaceOrder(w) ==
    /\ pc[w] = "place"
    /\ openOrders' = openOrders + 1
    /\ Goto(w, "sent")
    /\ UNCHANGED <<positionVars, exchangeVars, owner, job, opened, nextOid, budget>>

(* A network error is retried once; mutant: every time. *)
MayAlwaysRetry(w) == TRUE
MayRetry(w) == job[w].attempt = 1

(* place_futures_order returns.  The exchange fills an order id once: a request
   sent again after a lost reply, by do_request or by the retry below, is
   refused as a duplicate, so an accepted order may be reported as rejected. *)
OrderReply(w) ==
    /\ pc[w] = "sent" /\ w \notin silent
    /\ openOrders' = openOrders - 1
    /\ \E fill \in BOOLEAN, reply \in {"New", "Rejected", "NetErr"} :
          /\ fill => ~job[w].filled
          /\ reply = "New" => fill
          /\ exch' = IF fill
                     THEN [exch EXCEPT ![job[w].symbol][job[w].side] = @ + EntryQty]
                     ELSE exch
          /\ \/ /\ reply = "New"
                /\ Goto(w, "register")
                /\ UNCHANGED <<owner, job>>
             \/ /\ reply = "NetErr" /\ MayRetry(w)
                /\ Goto(w, "place")
                /\ job' = [job EXCEPT ![w].attempt = 2, ![w].filled = @ \/ fill]
                /\ UNCHANGED owner
             \/ /\ reply = "Rejected" \/ (reply = "NetErr" /\ ~MayRetry(w))
                /\ Finish(w)
    /\ UNCHANGED <<positionVars, inbox, requestVars, opened, nextOid, budget>>

(* on_position_opened and register_position. *)
RegisterReal(w) ==
    /\ pc[w] = "register" /\ ~posHeld
    /\ opened' = [opened EXCEPT ![job[w].symbol] = @ + 1]
    /\ tracked' = tracked \cup {NewPosition(w, TRUE)}
    /\ Goto(w, "save")
    /\ UNCHANGED <<recorded, disk, exchangeVars, owner, job, openOrders, nextOid, budget>>

SaveEntry(w) ==
    /\ pc[w] = "save" /\ ~posHeld
    /\ Save(tracked, recorded)
    /\ Finish(w)
    /\ UNCHANGED <<tracked, recorded, exchangeVars, riskVars, budget>>

-----------------------------------------------------------------------------
(* Take profit and stop loss. *)

(* find_by_symbol_side: the key and quantity of some matching position. *)
FindPosition(w) ==
    /\ pc[w] = "find" /\ ~posHeld
    /\ \E p \in On(tracked, job[w].symbol, job[w].side) :
          job' = [job EXCEPT ![w].oid = p.oid, ![w].qty = p.qty]
    /\ Goto(w, "isreal")
    /\ UNCHANGED <<positionVars, exchangeVars, owner, riskVars, budget>>

NoPosition(w) ==
    /\ pc[w] = "find" /\ ~posHeld
    /\ On(tracked, job[w].symbol, job[w].side) = {}
    /\ Finish(w)
    /\ UNCHANGED <<positionVars, exchangeVars, riskVars, budget>>

MatchKey(w) == Key(job[w].oid, job[w].symbol, job[w].side)

(* is_real is read in a critical section of its own; a position that has gone
   in between counts as paper. *)
ReadIsReal(w) ==
    /\ pc[w] = "isreal" /\ ~posHeld
    /\ LET real == \E p \in At(MatchKey(w)) : p.real
           sl   == job[w].kind = "SL"
       IN Goto(w, IF real THEN IF sl THEN "slclose" ELSE "tpclose"
                  ELSE IF sl THEN "papersl" ELSE "papertp")
    /\ UNCHANGED <<positionVars, exchangeVars, owner, job, riskVars, budget>>

(* Mutant of Settle: the state is saved before the position is changed. *)
SettleSavesFirst(p, q, rest) ==
    /\ tracked' = (tracked \ {p}) \cup rest
    /\ recorded' = Record(recorded, p, q)
    /\ Save(tracked, recorded')

(* Record the close of quantity q of position p, leave rest of it, and save. *)
Settle(p, q, rest) ==
    /\ tracked' = (tracked \ {p}) \cup rest
    /\ recorded' = Record(recorded, p, q)
    /\ Save(tracked', recorded')

(* Nothing is recorded of a position that went away in the meantime. *)
AlreadyGone(w) == At(MatchKey(w)) = {} /\ UNCHANGED positionVars

(* The TP quantity comes from the quantity found, not from the current one. *)
SettleTP(w) ==
    LET closed == CloseQty(job[w].kind, job[w].qty)
    IN \/ AlreadyGone(w)
       \/ \E p \in At(MatchKey(w)) :
             Settle(p, closed, IF job[w].kind = "TP3" THEN {} ELSE Reduce(p, closed))

SettleSL(w) ==
    \/ AlreadyGone(w)
    \/ \E p \in At(MatchKey(w)) : Settle(p, p.qty, {})

PaperTP(w) ==
    /\ pc[w] = "papertp" /\ ~posHeld
    /\ SettleTP(w)
    /\ Finish(w)
    /\ UNCHANGED <<exchangeVars, riskVars, budget>>

PaperSL(w) ==
    /\ pc[w] = "papersl" /\ ~posHeld
    /\ SettleSL(w)
    /\ Finish(w)
    /\ UNCHANGED <<exchangeVars, riskVars, budget>>

(* Mutant of AfterAttempt: the close is recorded though every attempt failed. *)
AfterAttemptAnyway(w, ok, record) ==
    \/ /\ ok \/ job[w].attempt = 3
       /\ Goto(w, record)
       /\ UNCHANGED <<owner, job>>
    \/ /\ ~ok /\ job[w].attempt < 3
       /\ job' = [job EXCEPT ![w].attempt = @ + 1]
       /\ UNCHANGED <<owner, pc>>

(* The outcome of one attempt of a close: on to the record, another attempt,
   or the handler gives up after the third. *)
AfterAttempt(w, ok, record) ==
    \/ /\ ok
       /\ Goto(w, record)
       /\ UNCHANGED <<owner, job>>
    \/ /\ ~ok /\ job[w].attempt < 3
       /\ job' = [job EXCEPT ![w].attempt = @ + 1]
       /\ UNCHANGED <<owner, pc>>
    \/ /\ ~ok /\ job[w].attempt = 3
       /\ Finish(w)

(* close_partial carries no order id: do_request may post it twice, and each
   post may execute whether or not its reply arrives. *)
CloseTP(w) ==
    /\ pc[w] = "tpclose" /\ w \notin silent
    /\ LET s == job[w].symbol
           d == job[w].side
           q == OrderLots(CloseQty(job[w].kind, job[w].qty))
       IN \E n \in 0..2, ok \in BOOLEAN :
             /\ exch[s][d] = 0 => n = 0
             /\ ok => n > 0
             /\ Hold(s, d, Closed(exch[s][d], q, n))
             /\ AfterAttempt(w, ok, "tprecord")
    /\ UNCHANGED <<positionVars, requestVars, riskVars, budget>>

RecordTP(w) ==
    /\ pc[w] = "tprecord" /\ ~posHeld
    /\ SettleTP(w)
    /\ Finish(w)
    /\ UNCHANGED <<exchangeVars, riskVars, budget>>

(* flash_close_position: "no position to close" is a success too. *)
CloseSL(w) ==
    /\ pc[w] = "slclose" /\ w \notin silent
    /\ LET s == job[w].symbol
           d == job[w].side
       IN \E after \in {0, exch[s][d]}, ok \in BOOLEAN :
             /\ ok => after = 0
             /\ Hold(s, d, after)
             /\ AfterAttempt(w, ok, "slrecord")
    /\ UNCHANGED <<positionVars, requestVars, riskVars, budget>>

RecordSL(w) ==
    /\ pc[w] = "slrecord" /\ ~posHeld
    /\ SettleSL(w)
    /\ Finish(w)
    /\ UNCHANGED <<exchangeVars, riskVars, budget>>

-----------------------------------------------------------------------------
(* Mutant of WsClose: the position goes without a record. *)
WsCloseUnbooked ==
    /\ inbox # <<>> /\ ~posHeld
    /\ inbox' = Tail(inbox)
    /\ \E p \in On(tracked, Head(inbox)[1], Head(inbox)[2]) : tracked' = tracked \ {p}
    /\ Save(tracked', recorded)
    /\ UNCHANGED <<recorded, exch, requestVars, owner, pc, job, riskVars, budget>>

(* The WebSocket position callback: a side announced as closed removes some
   position the engine tracks there, records it and saves. *)
WsClose ==
    /\ inbox # <<>> /\ ~posHeld
    /\ inbox' = Tail(inbox)
    /\ \E p \in On(tracked, Head(inbox)[1], Head(inbox)[2]) : Settle(p, p.qty, {})
    /\ UNCHANGED <<exch, requestVars, owner, pc, job, riskVars, budget>>

WsIgnore ==
    /\ inbox # <<>> /\ ~posHeld
    /\ On(tracked, Head(inbox)[1], Head(inbox)[2]) = {}
    /\ inbox' = Tail(inbox)
    /\ UNCHANGED <<positionVars, exch, requestVars, owner, pc, job, riskVars, budget>>

-----------------------------------------------------------------------------
(* sync_positions_with_exchange, run by the keeper between two signals, under
   m_pos_mtx. *)

Held(s, d) == exch[s][d] > 0

(* The sides held in the symbols of S, and how such a side is tracked. *)
HeldSides(S) == {x \in S \X Sides : Held(x[1], x[2])}

Imported(x) == [oid |-> Ext, symbol |-> x[1], side |-> x[2],
                qty |-> exch[x[1]][x[2]], real |-> TRUE]

(* Step 0: a position whose side is held on the exchange is real. *)
Marked == {[p EXCEPT !.real = @ \/ Held(p.symbol, p.side)] : p \in tracked}

(* Mutant of Lost: any position on the exchange in that symbol will do. *)
LostBySymbol == {p \in Marked : p.real /\ \A d \in Sides : ~Held(p.symbol, d)}

(* A real position whose side the exchange no longer holds; an imported one
   whose symbol is now held on the other side changes side in place. *)
Lost == {p \in Marked : p.real /\ ~Held(p.symbol, p.side)}
Flipped == {p \in Lost : p.oid = Ext /\ \E d \in Sides : Held(p.symbol, d)}

(* A paper position may be older than four hours. *)
MayExpire == {p \in Marked : ~p.real}

(* The map is modified while it is iterated when a position changes side: the
   rest of the iteration may then miss positions. *)
Missed(seen) == IF Flipped = {} THEN seen = Marked
                ELSE seen \cap Flipped # {}

(* Given the positions the iteration saw and the paper ones that expired:
   the symbols whose imported position changed side, the positions removed, the
   ones written back under their new key, what stays, and what is imported. *)
Turned(seen)           == {p.symbol : p \in Flipped \cap seen}
Removed(seen, expired) == (Lost \cap seen) \cup expired
Rekeyed(seen)          == {Imported(x) : x \in HeldSides(Turned(seen))}
Stay(seen, expired)    == Rekeyed(seen) \cup
                          {p \in Marked \ Removed(seen, expired) :
                              \A r \in Rekeyed(seen) : KeyOf(p) # KeyOf(r)}

(* Mutant of Missing: a symbol tracked on the other side is not imported. *)
MissingBySymbol(seen, expired) ==
    {Imported(x) : x \in {y \in HeldSides(Symbols \ Turned(seen)) :
                              \A p \in Stay(seen, expired) : p.symbol # y[1]}}

Missing(seen, expired) == {Imported(x) : x \in
                              {y \in HeldSides(Symbols \ Turned(seen)) :
                                  On(Stay(seen, expired), y[1], y[2]) = {}}}

Sync ==
    /\ pc[Keeper] = "idle" /\ Keeper \notin silent
    /\ \E seen \in SUBSET Marked : \E expired \in SUBSET (MayExpire \cap seen) :
          /\ Missed(seen)
          /\ tracked' = Stay(seen, expired) \cup Missing(seen, expired)
          /\ IF Removed(seen, expired) # {} \/ Missing(seen, expired) # {}
             THEN Save(tracked', recorded)
             ELSE UNCHANGED disk
    /\ UNCHANGED <<recorded, exchangeVars, owner, pc, job, riskVars, budget>>

(* periodic_tasks saves when the last save is 30 seconds old. *)
PeriodicSave ==
    /\ pc[Keeper] = "idle" /\ Keeper \notin silent
    /\ Save(tracked, recorded)
    /\ UNCHANGED <<tracked, recorded, exchangeVars, owner, pc, job, riskVars, budget>>

-----------------------------------------------------------------------------
(* Connections that fall silent.  The REST client connects, writes and reads
   synchronously, and expires_after only ends asynchronous operations: a call
   whose answer never comes, and whose connection is not closed either, never
   returns.  Each worker has a client of its own, and so has a reconciliation. *)
Silence(w) ==
    /\ w \notin silent
    /\ budget.silences > 0
    /\ budget' = [budget EXCEPT !.silences = @ - 1]
    /\ silent' = silent \cup {w}

(* An order, or a close, that may have been executed all the same. *)
OrderSilent(w) ==
    /\ pc[w] = "sent"
    /\ Silence(w)
    /\ \E fill \in {0, EntryQty} :
          /\ fill > 0 => ~job[w].filled
          /\ exch' = [exch EXCEPT ![job[w].symbol][job[w].side] = @ + fill]
    /\ UNCHANGED <<positionVars, inbox, posHeld, owner, pc, job, riskVars>>

CloseSilent(w) ==
    /\ pc[w] \in {"tpclose", "slclose"}
    /\ Silence(w)
    /\ LET s == job[w].symbol
           d == job[w].side
           q == OrderLots(CloseQty(job[w].kind, job[w].qty))
       IN \E n \in 0..2 :
             Hold(s, d, IF pc[w] = "slclose" /\ n > 0 THEN 0
                        ELSE Closed(exch[s][d], q, n))
    /\ UNCHANGED <<positionVars, posHeld, owner, pc, job, riskVars>>

(* A request of periodic_tasks: get_positions under m_pos_mtx, or the balance
   or the leverage without it. *)
KeeperSilent ==
    /\ pc[Keeper] = "idle"
    /\ Silence(Keeper)
    /\ posHeld' \in BOOLEAN
    /\ UNCHANGED <<positionVars, exch, inbox, owner, pc, job, riskVars>>

FallSilent ==
    KeeperSilent \/ \E w \in Workers : OrderSilent(w) \/ CloseSilent(w)

-----------------------------------------------------------------------------
(* The environment: positions opened by hand, positions closed by a preset
   TP/SL, by hand or by liquidation, and crashes. *)

OpenedElsewhere ==
    /\ budget.moves > 0
    /\ budget' = [budget EXCEPT !.moves = @ - 1]
    /\ \E s \in Symbols, d \in Sides : exch' = [exch EXCEPT ![s][d] = @ + Lot]
    /\ UNCHANGED <<positionVars, inbox, requestVars, owner, pc, job, riskVars>>

ClosedElsewhere ==
    /\ budget.moves > 0
    /\ budget' = [budget EXCEPT !.moves = @ - 1]
    /\ \E s \in Symbols, d \in Sides : Held(s, d) /\ Hold(s, d, 0)
    /\ UNCHANGED <<positionVars, requestVars, owner, pc, job, riskVars>>

(* The process dies and start() loads the saved state.  Order ids restart from
   the clock, so none is used twice; locks, queues and RiskManager start empty. *)
Restart ==
    /\ budget.restarts > 0
    /\ budget' = [budget EXCEPT !.restarts = @ - 1]
    /\ tracked' = disk.tracked
    /\ recorded' = disk.recorded
    /\ inbox' = <<>>
    /\ silent' = {}
    /\ posHeld' = FALSE
    /\ owner' = [s \in Symbols |-> NoWorker]
    /\ pc' = [w \in Workers |-> "idle"]
    /\ job' = [w \in Workers |-> NoJob]
    /\ openOrders' = 0
    /\ opened' = [s \in Symbols |-> 0]
    /\ UNCHANGED <<disk, exch, nextOid>>

-----------------------------------------------------------------------------
Entry(w) ==
    \/ EntryFiltered(w) \/ EntryBlocked(w) \/ EntryAdmitted(w) \/ Validate(w)
    \/ RegisterPaper(w) \/ PlaceOrder(w) \/ OrderReply(w) \/ RegisterReal(w)
    \/ SaveEntry(w)

Close(w) ==
    \/ FindPosition(w) \/ NoPosition(w) \/ ReadIsReal(w)
    \/ PaperTP(w) \/ PaperSL(w)
    \/ CloseTP(w) \/ RecordTP(w) \/ CloseSL(w) \/ RecordSL(w)

Pipeline(w) == LockSymbol(w) \/ LockTimeout(w) \/ Entry(w) \/ Close(w)

Next ==
    \/ \E w \in Workers : Receive(w) \/ Pipeline(w)
    \/ WsClose \/ WsIgnore
    \/ Sync \/ PeriodicSave
    \/ OpenedElsewhere \/ ClosedElsewhere \/ FallSilent \/ Restart

Spec == Init /\ [][Next]_vars

(* Threads run until they block, waits for a symbol lock time out, and a call on
   a connection that has not fallen silent returns; nothing makes a silent one
   return.  Periodic tasks run whenever the queue stays empty, which the bound on
   signals makes it do in the end. *)
Fairness == /\ \A w \in Workers : WF_vars(Pipeline(w))
            /\ WF_vars(Sync)

FairSpec == Spec /\ Fairness

-----------------------------------------------------------------------------
(* Properties. *)

Snapshot == [tracked: SUBSET Position, recorded: [Oids -> Nat]]

(* Every variable has its type; a worker is idle exactly when it has no job. *)
TypeOK ==
    /\ tracked \subseteq Position
    /\ recorded \in [Oids -> Nat]
    /\ disk \in Snapshot
    /\ exch \in [Symbols -> [Sides -> Nat]]
    /\ inbox \in Seq(Symbols \X Sides)
    /\ silent \subseteq Workers
    /\ posHeld \in BOOLEAN
    /\ owner \in [Symbols -> Workers \cup {NoWorker}]
    /\ pc \in [Workers -> Labels]
    /\ job \in [Workers -> Job \cup {NoJob}]
    /\ \A w \in Workers : pc[w] = "idle" <=> job[w] = NoJob
    /\ openOrders \in Int
    /\ opened \in [Symbols -> Nat]
    /\ nextOid \in Nat \ {0}
    /\ budget \in [signals: Nat, moves: Nat, silences: Nat, restarts: Nat]

EnginePositions(T) == {p \in T : p.oid # Ext}

AtMostOnePerSymbol(T) ==
    \A p, q \in EnginePositions(T) : p.symbol = q.symbol => p = q

(* The engine never holds two positions of its own in one symbol, on either
   side, in memory or in the saved state: the conflict and duplicate checks of
   handle_entry read m_positions long before the order is registered there, and
   only the symbol lock, kept across the exchange calls, protects the gap. *)
OnePositionPerSymbol ==
    AtMostOnePerSymbol(tracked) /\ AtMostOnePerSymbol(disk.tracked)

InFlight == {w \in Workers : pc[w] \in Admitted}

(* check_entry compares the position count with the limit before the orders of
   the other workers are registered, so the limit can be overshot, but by no
   more than one position per other worker; the saved state keeps the bound. *)
BoundedOvershoot ==
    /\ Cardinality(EnginePositions(tracked)) + Cardinality(InFlight)
          < MaxConcurrent + Cardinality(Workers)
    /\ Cardinality(EnginePositions(disk.tracked))
          < MaxConcurrent + Cardinality(Workers)

(* Why the two above are kept.  A worker past wait_lock owns its symbol; no
   position of the engine in that symbol is tracked from admission to
   registration; and there are finitely many positions to count. *)
SymbolLocked ==
    \A w \in Workers : pc[w] \notin {"idle", "lock"} => owner[job[w].symbol] = w

PipelineClear ==
    \A w \in InFlight : \A p \in EnginePositions(tracked) : p.symbol # job[w].symbol

FinitelyMany == IsFiniteSet(tracked) /\ IsFiniteSet(disk.tracked)

(* The inductive invariant of the handlers, the callback and the keeper. *)
EngineInv ==
    /\ TypeOK
    /\ SymbolLocked
    /\ PipelineClear
    /\ FinitelyMany
    /\ OnePositionPerSymbol
    /\ BoundedOvershoot

LedgerOf(T, R) ==
    /\ \A p \in EnginePositions(T) : R[p.oid] + p.qty = EntryQty
    /\ \A o \in Oids : R[o] <= EntryQty

(* Of a position of the engine that is still tracked, what m_trades records and
   what is left of it add up to what was opened, and no order is ever recorded
   beyond that: TP, SL, the WebSocket callback and a restart never record one
   close twice, although each may finish a close another began.  The saved
   positions and the saved trades agree in the same way. *)
LedgerExact ==
    /\ LedgerOf(tracked, recorded)
    /\ LedgerOf(disk.tracked, disk.recorded)

(* A position of the engine disappears only when all of it is recorded, or, with
   nothing recorded of what was left, in a reconciliation that finds nothing of
   it on the exchange (a ghost, or an expired paper position), or in a crash. *)
RemovedOnlyBooked ==
    [][\A p \in EnginePositions(tracked) :
          \/ \E q \in EnginePositions(tracked') : q.oid = p.oid
          \/ recorded'[p.oid] = EntryQty
          \/ Sync /\ ~Held(p.symbol, p.side)
          \/ Restart]_vars

(* Why the ledger is kept.  An order id is drawn for one entry, and is unused
   until that entry is registered: no position has it and nothing is recorded
   of it, in memory or in the saved state. *)
Unused(o, T, R) == R[o] = 0 /\ \A p \in T : p.oid # o

DistinctOids(T) == \A p, q \in EnginePositions(T) : p.oid = q.oid => p = q

Drawn == {"paper", "place", "sent", "register"}

OidsUsedOnce ==
    /\ \A o \in Oids : o >= nextOid => /\ Unused(o, tracked, recorded)
                                      /\ Unused(o, disk.tracked, disk.recorded)
    /\ DistinctOids(tracked) /\ DistinctOids(disk.tracked)
    /\ \A w \in Workers : pc[w] \in Drawn =>
          /\ job[w].oid \in Oids /\ job[w].oid < nextOid
          /\ Unused(job[w].oid, tracked, recorded)
          /\ \A v \in Workers \ {w} : pc[v] \in Drawn => job[v].oid # job[w].oid

(* From find_by_symbol_side to its record a take profit works with the quantity
   it found there.  That one is still the quantity of the position, if the
   position is still there: whoever else holds m_pos_mtx meanwhile may remove
   the position, and only the owner of the symbol may reduce it. *)
Matched == {"isreal", "papertp", "tpclose", "tprecord"}

FoundCurrent ==
    \A w \in Workers : pc[w] \in Matched =>
        \A p \in EnginePositions(At(MatchKey(w))) : p.qty = job[w].qty

(* The inductive invariant of positions, order ids and ledger. *)
LedgerInv == EngineInv /\ LedgerExact /\ OidsUsedOnce /\ FoundCurrent

(* m_open_orders is the number of order calls on the wire: each attempt takes
   one and gives it back, the retry included. *)
OrdersCounted == openOrders = Cardinality({w \in Workers : pc[w] = "sent"})

(* After a reconciliation everything held on the exchange is tracked and real,
   whatever was imported, changed side or was missed by the iteration. *)
SyncCoversExchange ==
    [][Sync => \A s \in Symbols, d \in Sides :
                  Held(s, d) => \E p \in On(tracked', s, d) : p.real]_vars

(* After a reconciliation in which no position changes side, no position is
   believed real that the exchange does not hold. *)
SyncRemovesGhosts ==
    [][Sync /\ Flipped = {} => \A p \in tracked' : p.real => Held(p.symbol, p.side)]_vars

(* Somebody has traded the account by hand. *)
Moved == budget.moves < MaxMoves

(* When a stop loss is recorded the side is flat on the exchange, unless
   somebody has traded by hand: no entry of the engine gets in between the
   close and its record, and a failed close is never recorded. *)
StopLossLeavesFlat ==
    [][\A w \in Workers : RecordSL(w) => Moved \/ ~Held(job[w].symbol, job[w].side)]_vars

(* Why: the close left the side flat, and it stays so while the symbol is owned
   by the worker that is about to record it and nobody trades by hand. *)
FlatUntilRecorded ==
    /\ budget.moves <= MaxMoves
    /\ \A w \in Workers :
          pc[w] = "slrecord" => Moved \/ ~Held(job[w].symbol, job[w].side)

(* Every signal taken up is finished, retries and waits for a symbol lock
   included, unless the worker's own call never returns, or a reconciliation
   that never returns keeps m_pos_mtx: the silent call of another worker costs
   nobody else more than a timeout. *)
SignalsFinish ==
    \A w \in Workers :
        pc[w] # "idle" ~> pc[w] = "idle" \/ w \in silent \/ posHeld

(* What the exchange holds is eventually tracked as real or no longer held,
   also when an accepted order was reported as rejected, when its reply never
   came, or when the engine crashed before it registered the order - unless a
   call of the keeper never returns, which ends all reconciliations. *)
ExposureTracked ==
    \A s \in Symbols, d \in Sides :
        Held(s, d) ~> \/ ~Held(s, d)
                      \/ \E p \in On(tracked, s, d) : p.real
                      \/ Keeper \in silent

-----------------------------------------------------------------------------
(* A claim of a comment of the code, which the engine does not keep. *)

(* execution_engine.hpp: "Same symbol same direction: block duplicate entry".
   A reconciliation between the fill and register_position imports the same
   position under another key. *)
NoDuplicateSide ==
    \A p, q \in tracked : p.symbol = q.symbol /\ p.side = q.side => p = q
=============================================================================
