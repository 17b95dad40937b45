-------------------------- MODULE FuturesEngineProofs --------------------------
(* Theorems about FuturesEngine, for every number of symbols, workers, signals
   and crashes. *)
EXTENDS FuturesEngine, FiniteSetTheorems, TLAPS

(* A close takes a whole number of units. *)
LEMMA CloseQtyType ==
    ASSUME NEW kind, NEW q \in Nat
    PROVE  CloseQty(kind, q) \in Nat
<1>1. (33 * q + 99) \div 100 \in Nat
  OBVIOUS
<1>2. (q + 1) \div 2 \in Nat
  OBVIOUS
<1> QED BY <1>1, <1>2 DEF CloseQty

(* The initial state is well typed. *)
LEMMA InitType == Init => TypeOK
<1> SUFFICES ASSUME Init PROVE TypeOK
  OBVIOUS
<1>1. /\ tracked \subseteq Position
      /\ recorded \in [Oids -> Nat]
      /\ disk \in Snapshot
  BY DEF Init, Snapshot
<1>2. /\ exch \in [Symbols -> [Sides -> Nat]]
      /\ silent \subseteq Workers
      /\ posHeld \in BOOLEAN
  BY DEF Init
<1>3. inbox \in Seq(Symbols \X Sides)
  BY DEF Init
<1>4. /\ owner \in [Symbols -> Workers \cup {NoWorker}]
      /\ pc \in [Workers -> Labels]
      /\ job \in [Workers -> Job \cup {NoJob}]
      /\ \A w \in Workers : pc[w] = "idle" <=> job[w] = NoJob
  BY DEF Init, Labels
<1>5. /\ openOrders \in Int
      /\ opened \in [Symbols -> Nat]
      /\ nextOid \in Nat \ {0}
      /\ budget \in [signals: Nat, moves: Nat, silences: Nat, restarts: Nat]
  BY NumberAssumption DEF Init
<1> QED BY <1>1, <1>2, <1>3, <1>4, <1>5 DEF TypeOK

(* A worker that is not idle has a job. *)
LEMMA BusyHasJob ==
    ASSUME TypeOK, NEW w \in Workers, pc[w] # "idle"
    PROVE  job[w] \in Job
BY DEF TypeOK

(* Returning from a handler keeps the types of the locals and of the locks. *)
LEMMA FinishType ==
    ASSUME TypeOK, NEW w \in Workers, pc[w] # "idle", Finish(w)
    PROVE  /\ owner' \in [Symbols -> Workers \cup {NoWorker}]
           /\ pc' \in [Workers -> Labels]
           /\ job' \in [Workers -> Job \cup {NoJob}]
           /\ \A v \in Workers : pc'[v] = "idle" <=> job'[v] = NoJob
BY DEF TypeOK, Finish, Goto, Labels

(* So does moving on with the same job. *)
LEMMA GotoType ==
    ASSUME TypeOK, NEW w \in Workers, pc[w] # "idle",
           NEW label \in Labels \ {"idle"}, Goto(w, label), job' = job
    PROVE  /\ pc' \in [Workers -> Labels]
           /\ \A v \in Workers : pc'[v] = "idle" <=> job'[v] = NoJob
BY DEF TypeOK, Goto, Labels

(* Recording a close of a tracked position keeps the types of the ledger. *)
LEMMA SettleType ==
    ASSUME TypeOK, NEW p \in tracked, NEW q \in Nat,
           NEW rest \in SUBSET Position, Settle(p, q, rest)
    PROVE  /\ tracked' \subseteq Position
           /\ recorded' \in [Oids -> Nat]
           /\ disk' \in Snapshot
<1>1. tracked' \subseteq Position
  BY DEF TypeOK, Settle
<1>2. recorded' \in [Oids -> Nat]
  BY DEF TypeOK, Settle, Record, Position
<1> QED BY <1>1, <1>2 DEF Settle, Save, Snapshot

(* What is left of a reduced position is a position. *)
LEMMA ReduceType ==
    ASSUME NEW p \in Position, NEW q \in Nat
    PROVE  Reduce(p, q) \in SUBSET Position
BY DEF Reduce, Position

(* Settling a take profit keeps the types of positions and ledger. *)
LEMMA SettleTPType ==
    ASSUME TypeOK, NEW w \in Workers, pc[w] # "idle", SettleTP(w)
    PROVE  /\ tracked' \subseteq Position
           /\ recorded' \in [Oids -> Nat]
           /\ disk' \in Snapshot
<1> DEFINE closed == CloseQty(job[w].kind, job[w].qty)
<1>1. closed \in Nat
  BY BusyHasJob, CloseQtyType DEF Job
<1>2. CASE AlreadyGone(w)
  BY <1>2 DEF AlreadyGone, positionVars, TypeOK
<1>3. ASSUME NEW p \in At(MatchKey(w)),
             Settle(p, closed, IF job[w].kind = "TP3" THEN {} ELSE Reduce(p, closed))
      PROVE  /\ tracked' \subseteq Position
             /\ recorded' \in [Oids -> Nat]
             /\ disk' \in Snapshot
  <2>1. p \in tracked /\ p \in Position
    BY DEF At, TypeOK
  <2>2. (IF job[w].kind = "TP3" THEN {} ELSE Reduce(p, closed)) \in SUBSET Position
    BY <1>1, <2>1, ReduceType
  <2> QED BY <1>1, <1>3, <2>1, <2>2, SettleType
<1> QED BY <1>2, <1>3 DEF SettleTP

(* So does settling a stop loss. *)
LEMMA SettleSLType ==
    ASSUME TypeOK, NEW w \in Workers, SettleSL(w)
    PROVE  /\ tracked' \subseteq Position
           /\ recorded' \in [Oids -> Nat]
           /\ disk' \in Snapshot
<1>1. CASE AlreadyGone(w)
  BY <1>1 DEF AlreadyGone, positionVars, TypeOK
<1>2. ASSUME NEW p \in At(MatchKey(w)), Settle(p, p.qty, {})
      PROVE  /\ tracked' \subseteq Position
             /\ recorded' \in [Oids -> Nat]
             /\ disk' \in Snapshot
  <2>1. p \in tracked /\ p.qty \in Nat
    BY DEF At, TypeOK, Position
  <2> QED BY <1>2, <2>1, SettleType
<1> QED BY <1>1, <1>2 DEF SettleSL

(* What is held on a side is a natural number. *)
LEMMA HeldType ==
    ASSUME TypeOK, NEW s \in Symbols, NEW d \in Sides
    PROVE  exch[s] \in [Sides -> Nat] /\ exch[s][d] \in Nat
<1>1. exch[s] \in [Sides -> Nat]
  BY DEF TypeOK
<1> QED BY <1>1

(* The exchange keeps its types under a close. *)
LEMMA HoldType ==
    ASSUME TypeOK, NEW s \in Symbols, NEW d \in Sides, NEW q \in Nat, Hold(s, d, q)
    PROVE  /\ exch' \in [Symbols -> [Sides -> Nat]]
           /\ inbox' \in Seq(Symbols \X Sides)
<1>1. exch' \in [Symbols -> [Sides -> Nat]]
  BY DEF TypeOK, Hold
<1>2. Append(inbox, <<s, d>>) \in Seq(Symbols \X Sides)
  BY DEF TypeOK
<1>3. inbox' \in Seq(Symbols \X Sides)
  BY <1>2 DEF TypeOK, Hold, Announced
<1> QED BY <1>1, <1>3

(* What is left after a close is a natural number. *)
LEMMA ClosedType ==
    ASSUME NEW held \in Nat, NEW q \in Nat, NEW n \in 0..2
    PROVE  Closed(held, q, n) \in Nat
<1>1. CASE n = 0
  BY <1>1 DEF Closed
<1>2. CASE n = 1
  BY <1>2 DEF Closed
<1>3. CASE n = 2
  BY <1>3 DEF Closed
<1> QED BY <1>1, <1>2, <1>3

(* What is marked real, imported or re-keyed by a reconciliation is a
   position. *)
LEMMA MarkedType ==
    ASSUME TypeOK
    PROVE  Marked \subseteq Position
<1> SUFFICES ASSUME NEW p \in tracked
             PROVE  [p EXCEPT !.real = @ \/ Held(p.symbol, p.side)] \in Position
  BY DEF Marked
<1>1. p \in Position
  BY DEF TypeOK
<1>2. (p.real \/ Held(p.symbol, p.side)) \in BOOLEAN
  OBVIOUS
<1> QED BY <1>1, <1>2 DEF Position

(* An imported position has the type of a position. *)
LEMMA ImportedType ==
    ASSUME TypeOK, NEW S \in SUBSET Symbols, NEW x \in HeldSides(S)
    PROVE  Imported(x) \in Position
<1>1. x[1] \in Symbols /\ x[2] \in Sides
  BY DEF HeldSides
<1>2. exch[x[1]][x[2]] \in Nat \ {0}
  BY <1>1 DEF TypeOK, HeldSides, Held
<1> QED BY <1>1, <1>2 DEF Imported, Position, Ext

(* A reconciliation leaves marked, re-keyed and imported positions: the engine's
   own are among those it had. *)
LEMMA SyncTracked ==
    ASSUME TypeOK, Sync
    PROVE  /\ tracked' \subseteq Position
           /\ EnginePositions(tracked') \subseteq Marked
           /\ disk' = disk \/ Save(tracked', recorded)
<1>1. PICK seen \in SUBSET Marked, expired \in SUBSET MayExpire :
         /\ tracked' = Stay(seen, expired) \cup Missing(seen, expired)
         /\ disk' = disk \/ Save(tracked', recorded)
  BY DEF Sync
<1>2. Turned(seen) \subseteq Symbols
  BY MarkedType DEF Turned, Flipped, Lost, Position
<1>3. Rekeyed(seen) \subseteq {p \in Position : p.oid = Ext}
  BY <1>2, ImportedType DEF Rekeyed, Imported
<1>4. Missing(seen, expired) \subseteq {p \in Position : p.oid = Ext}
  BY ImportedType DEF Missing, Imported
<1>5. tracked' \subseteq Marked \cup Rekeyed(seen) \cup Missing(seen, expired)
  BY <1>1 DEF Stay
<1>6. tracked' \subseteq Position
  BY <1>3, <1>4, <1>5, MarkedType
<1>7. EnginePositions(tracked') \subseteq Marked
  BY <1>3, <1>4, <1>5 DEF EnginePositions
<1> QED BY <1>1, <1>6, <1>7

(* A reconciliation keeps the types. *)
LEMMA SyncType == TypeOK /\ Sync => TypeOK'
<1> SUFFICES ASSUME TypeOK, Sync PROVE TypeOK'
  OBVIOUS
<1>1. UNCHANGED <<recorded, exchangeVars, owner, pc, job, riskVars, budget>>
  BY DEF Sync
<1>2. disk' \in Snapshot
  BY <1>1, SyncTracked DEF TypeOK, Save, Snapshot
<1> QED BY <1>1, <1>2, SyncTracked DEF TypeOK, exchangeVars, requestVars, riskVars

(* Every step keeps the types. *)
LEMMA EntryType ==
    ASSUME TypeOK, NEW w \in Workers, Entry(w)
    PROVE  TypeOK'
<1> USE SetAssumption, NumberAssumption
<1> USE DEF exchangeVars, requestVars, riskVars, positionVars
<1>0. pc[w] # "idle" /\ job[w] \in Job
  BY BusyHasJob DEF Entry, EntryFiltered, EntryBlocked, EntryAdmitted, Validate,
     RegisterPaper, PlaceOrder, OrderReply, RegisterReal, SaveEntry
<1>1. CASE EntryFiltered(w) \/ EntryBlocked(w)
  BY <1>0, <1>1, FinishType DEF EntryFiltered, EntryBlocked, TypeOK
<1>2. CASE EntryAdmitted(w)
  BY <1>0, <1>2, GotoType DEF EntryAdmitted, TypeOK, Labels, Admitted
<1>3. CASE Validate(w)
  <2>0. /\ nextOid' \in Nat \ {0}
        /\ UNCHANGED <<positionVars, exchangeVars, openOrders, opened, budget>>
    <3>1. nextOid \in Nat \ {0}
      BY DEF TypeOK
    <3>2. nextOid + 1 \in Nat \ {0}
      BY <3>1
    <3> QED BY <1>3, <3>2 DEF Validate
  <2>1. CASE Finish(w)
    BY <1>0, <2>0, <2>1, FinishType DEF TypeOK
  <2>2. CASE job' = [job EXCEPT ![w].oid = nextOid]
    <3>1. [job[w] EXCEPT !.oid = nextOid] \in Job
      BY <1>0, <1>3 DEF Validate, Job
    <3>2. [job[w] EXCEPT !.oid = nextOid] # NoJob
      BY <1>0 DEF Job, NoJob
    <3>3. job' \in [Workers -> Job \cup {NoJob}] /\ job'[w] # NoJob
      BY <2>2, <3>1, <3>2 DEF TypeOK
    <3>4. PICK label \in {"place", "paper"} : Goto(w, label) /\ UNCHANGED owner
      BY <1>0, <1>3, <2>2, <3>2 DEF Validate, Finish, TypeOK
    <3> QED BY <1>0, <2>0, <3>3, <3>4, <2>2 DEF Goto, TypeOK, Labels, Admitted
  <2> QED BY <1>3, <2>1, <2>2 DEF Validate
<1>4. CASE RegisterPaper(w)
  <2>1. NewPosition(w, FALSE) \in Position
    BY <1>0 DEF NewPosition, Position, Job
  <2> QED BY <1>0, <1>4, <2>1, FinishType DEF RegisterPaper, TypeOK
<1>5. CASE PlaceOrder(w)
  <2>1. openOrders' \in Int
    BY <1>5 DEF PlaceOrder, TypeOK
  <2>2. Goto(w, "sent") /\ "sent" \in Labels \ {"idle"}
    BY <1>5 DEF PlaceOrder, Labels, Admitted
  <2> QED BY <1>0, <1>5, <2>1, <2>2, GotoType DEF PlaceOrder, TypeOK
<1>6. CASE OrderReply(w)
  <2>1. PICK fill \in BOOLEAN :
           /\ exch' = IF fill
                      THEN [exch EXCEPT ![job[w].symbol][job[w].side] = @ + EntryQty]
                      ELSE exch
           /\ \/ Goto(w, "register") /\ UNCHANGED <<owner, job>>
              \/ /\ Goto(w, "place")
                 /\ job' = [job EXCEPT ![w].attempt = 2, ![w].filled = @ \/ fill]
                 /\ UNCHANGED owner
              \/ Finish(w)
    BY <1>6 DEF OrderReply
  <2>2. exch' \in [Symbols -> [Sides -> Nat]]
    <3>1. job[w].symbol \in Symbols /\ job[w].side \in Sides
      BY <1>0 DEF Job
    <3>2. exch \in [Symbols -> [Sides -> Nat]]
      BY DEF TypeOK
    <3>3. exch[job[w].symbol][job[w].side] \in Nat
      BY <3>1, HeldType
    <3>4. exch[job[w].symbol][job[w].side] + EntryQty \in Nat
      BY <3>3
    <3> QED BY <2>1, <3>1, <3>2, <3>4
  <2>3. openOrders' \in Int /\ UNCHANGED <<positionVars, inbox, requestVars, opened, nextOid, budget>>
    BY <1>6 DEF OrderReply, TypeOK
  <2>4. CASE Goto(w, "register") /\ UNCHANGED <<owner, job>>
    BY <1>0, <2>2, <2>3, <2>4, GotoType DEF TypeOK, Labels, Admitted
  <2>5. CASE /\ Goto(w, "place")
             /\ job' = [job EXCEPT ![w].attempt = 2, ![w].filled = @ \/ fill]
             /\ UNCHANGED owner
    <3> DEFINE filled == job[w].filled \/ fill
               again  == [job[w] EXCEPT !.attempt = 2, !.filled = filled]
    <3>1. filled \in BOOLEAN
      OBVIOUS
    <3>2. job' = [job EXCEPT ![w] = again]
      BY <2>5 DEF TypeOK
    <3> HIDE DEF filled
    <3>3. again \in Job
      BY <1>0, <3>1, 2 \in 1..3 DEF Job
    <3>4. again # NoJob
      BY <3>3 DEF Job, NoJob
    <3> HIDE DEF again
    <3>5. job' \in [Workers -> Job \cup {NoJob}] /\ job'[w] # NoJob
      BY <3>2, <3>3, <3>4 DEF TypeOK
    <3> QED BY <1>0, <2>2, <2>3, <2>5, <3>5 DEF Goto, TypeOK, Labels, Admitted
  <2>6. CASE Finish(w)
    BY <1>0, <2>2, <2>3, <2>6, FinishType DEF TypeOK
  <2> QED BY <2>1, <2>4, <2>5, <2>6
<1>7. CASE RegisterReal(w)
  <2>1. NewPosition(w, TRUE) \in Position
    BY <1>0 DEF NewPosition, Position, Job
  <2>2. opened' \in [Symbols -> Nat]
    <3>1. job[w].symbol \in Symbols
      BY <1>0 DEF Job
    <3> QED BY <1>7, <3>1 DEF RegisterReal, TypeOK
  <2> QED BY <1>0, <1>7, <2>1, <2>2, GotoType DEF RegisterReal, TypeOK, Labels
<1>8. CASE SaveEntry(w)
  BY <1>0, <1>8, FinishType DEF SaveEntry, Save, Snapshot, TypeOK
<1> QED BY <1>1, <1>2, <1>3, <1>4, <1>5, <1>6, <1>7, <1>8 DEF Entry

(* The steps of take profit and stop loss keep the types. *)
LEMMA CloseType ==
    ASSUME TypeOK, NEW w \in Workers, Close(w)
    PROVE  TypeOK'
<1> USE SetAssumption, NumberAssumption
<1> USE DEF exchangeVars, requestVars, riskVars, positionVars
<1>0. pc[w] # "idle" /\ job[w] \in Job
  BY BusyHasJob DEF Close, FindPosition, NoPosition, ReadIsReal, PaperTP, PaperSL,
     CloseTP, RecordTP, CloseSL, RecordSL
<1>1. CASE FindPosition(w)
  <2>1. PICK p \in tracked : job' = [job EXCEPT ![w].oid = p.oid, ![w].qty = p.qty]
    BY <1>1 DEF FindPosition, On
  <2>2. p.oid \in Oids \cup {Ext} /\ p.qty \in Nat
    BY DEF TypeOK, Position
  <2>3. job' \in [Workers -> Job \cup {NoJob}] /\ job'[w] # NoJob
    BY <1>0, <2>1, <2>2 DEF Job, NoJob, TypeOK
  <2> QED BY <1>0, <1>1, <2>1, <2>3 DEF FindPosition, Goto, TypeOK, Labels
<1>2. CASE NoPosition(w)
  BY <1>0, <1>2, FinishType DEF NoPosition, TypeOK
<1>3. CASE ReadIsReal(w)
  <2>1. PICK label \in Labels \ {"idle"} : Goto(w, label)
    BY <1>3 DEF ReadIsReal, Labels
  <2> QED BY <1>0, <1>3, <2>1, GotoType DEF ReadIsReal, TypeOK
<1>4. CASE PaperTP(w)
  BY <1>0, <1>4, FinishType, SettleTPType DEF PaperTP, TypeOK
<1>5. CASE PaperSL(w)
  BY <1>0, <1>5, FinishType, SettleSLType DEF PaperSL, TypeOK
<1>6. ASSUME NEW ok \in BOOLEAN, NEW record \in {"tprecord", "slrecord"},
             AfterAttempt(w, ok, record)
      PROVE  /\ owner' \in [Symbols -> Workers \cup {NoWorker}]
             /\ pc' \in [Workers -> Labels]
             /\ job' \in [Workers -> Job \cup {NoJob}]
             /\ \A v \in Workers : pc'[v] = "idle" <=> job'[v] = NoJob
  <2>1. CASE Goto(w, record) /\ UNCHANGED <<owner, job>>
    BY <1>0, <2>1, GotoType DEF TypeOK, Labels
  <2>2. CASE job[w].attempt < 3 /\ job' = [job EXCEPT ![w].attempt = @ + 1]
             /\ UNCHANGED <<owner, pc>>
    <3>1. job[w].attempt + 1 \in 1..3
      BY <1>0, <2>2 DEF Job
    <3>2. job' \in [Workers -> Job \cup {NoJob}] /\ job'[w] # NoJob
      BY <1>0, <2>2, <3>1 DEF Job, NoJob, TypeOK
    <3> QED BY <1>0, <2>2, <3>2 DEF TypeOK
  <2>3. CASE Finish(w)
    BY <1>0, <2>3, FinishType
  <2> QED BY <1>6, <2>1, <2>2, <2>3 DEF AfterAttempt
<1>7. CASE CloseTP(w)
  <2> DEFINE s == job[w].symbol
             d == job[w].side
             q == OrderLots(CloseQty(job[w].kind, job[w].qty))
  <2>1. q \in Nat
    <3>1. CloseQty(job[w].kind, job[w].qty) \in Nat
      BY <1>0, CloseQtyType DEF Job
    <3>2. ASSUME NEW c \in Nat PROVE (c \div Lot) * Lot \in Nat
      OBVIOUS
    <3> QED BY <3>1, <3>2 DEF OrderLots
  <2>2. s \in Symbols /\ d \in Sides /\ exch[s][d] \in Nat
    <3>1. s \in Symbols /\ d \in Sides
      BY <1>0 DEF Job
    <3> QED BY <3>1, HeldType
  <2>3. PICK n \in 0..2, ok \in BOOLEAN :
           /\ Hold(s, d, Closed(exch[s][d], q, n))
           /\ AfterAttempt(w, ok, "tprecord")
    BY <1>7 DEF CloseTP
  <2>4. Closed(exch[s][d], q, n) \in Nat
    BY <2>1, <2>2, ClosedType
  <2> HIDE DEF s, d, q
  <2>5. exch' \in [Symbols -> [Sides -> Nat]] /\ inbox' \in Seq(Symbols \X Sides)
    BY <2>2, <2>3, <2>4, HoldType
  <2> QED BY <1>6, <1>7, <2>3, <2>5 DEF CloseTP, TypeOK
<1>8. CASE RecordTP(w)
  BY <1>0, <1>8, FinishType, SettleTPType DEF RecordTP, TypeOK
<1>9. CASE CloseSL(w)
  <2> DEFINE s == job[w].symbol
             d == job[w].side
  <2>1. s \in Symbols /\ d \in Sides /\ exch[s][d] \in Nat
    <3>1. s \in Symbols /\ d \in Sides
      BY <1>0 DEF Job
    <3> QED BY <3>1, HeldType
  <2>2. PICK after \in {0, exch[s][d]}, ok \in BOOLEAN :
           Hold(s, d, after) /\ AfterAttempt(w, ok, "slrecord")
    BY <1>9 DEF CloseSL
  <2>3. exch' \in [Symbols -> [Sides -> Nat]] /\ inbox' \in Seq(Symbols \X Sides)
    BY <2>1, <2>2, HoldType
  <2> QED BY <1>6, <1>9, <2>2, <2>3 DEF CloseSL, TypeOK
<1>10. CASE RecordSL(w)
  BY <1>0, <1>10, FinishType, SettleSLType DEF RecordSL, TypeOK
<1> QED BY <1>1, <1>2, <1>3, <1>4, <1>5, <1>7, <1>8, <1>9, <1>10 DEF Close

Budget == [signals: Nat, moves: Nat, silences: Nat, restarts: Nat]

(* Spending one unit of a bound keeps the bounds natural. *)
LEMMA BudgetType ==
    ASSUME NEW b \in Budget
    PROVE  /\ b.signals > 0 => [b EXCEPT !.signals = @ - 1] \in Budget
           /\ b.moves > 0 => [b EXCEPT !.moves = @ - 1] \in Budget
           /\ b.silences > 0 => [b EXCEPT !.silences = @ - 1] \in Budget
           /\ b.restarts > 0 => [b EXCEPT !.restarts = @ - 1] \in Budget
<1>1. ASSUME NEW n \in Nat, n > 0 PROVE n - 1 \in Nat
  BY <1>1
<1>2. /\ b.signals \in Nat /\ b.moves \in Nat
      /\ b.silences \in Nat /\ b.restarts \in Nat
  BY DEF Budget
<1>3. ASSUME b.signals > 0 PROVE [b EXCEPT !.signals = @ - 1] \in Budget
  <2>1. b.signals - 1 \in Nat
    BY <1>1, <1>2, <1>3
  <2> QED BY <2>1 DEF Budget
<1>4. ASSUME b.moves > 0 PROVE [b EXCEPT !.moves = @ - 1] \in Budget
  <2>1. b.moves - 1 \in Nat
    BY <1>1, <1>2, <1>4
  <2> QED BY <2>1 DEF Budget
<1>5. ASSUME b.silences > 0 PROVE [b EXCEPT !.silences = @ - 1] \in Budget
  <2>1. b.silences - 1 \in Nat
    BY <1>1, <1>2, <1>5
  <2> QED BY <2>1 DEF Budget
<1>6. ASSUME b.restarts > 0 PROVE [b EXCEPT !.restarts = @ - 1] \in Budget
  <2>1. b.restarts - 1 \in Nat
    BY <1>1, <1>2, <1>6
  <2> QED BY <2>1 DEF Budget
<1> QED BY <1>3, <1>4, <1>5, <1>6

(* Taking up a signal, and getting or not getting its symbol lock, keep the
   types. *)
LEMMA LockType ==
    ASSUME TypeOK, NEW w \in Workers, Receive(w) \/ LockSymbol(w) \/ LockTimeout(w)
    PROVE  TypeOK'
<1> USE DEF exchangeVars, requestVars, riskVars, positionVars
<1>1. CASE Receive(w)
  <2>1. PICK k \in Kinds, s \in Symbols, d \in Sides :
           job' = [job EXCEPT ![w] = [kind |-> k, symbol |-> s, side |-> d,
                      oid |-> Ext, qty |-> 0, attempt |-> 1, filled |-> FALSE]]
    BY <1>1 DEF Receive
  <2> DEFINE new == [kind |-> k, symbol |-> s, side |-> d, oid |-> Ext,
                     qty |-> 0, attempt |-> 1, filled |-> FALSE]
  <2>2. new \in Job
    BY 1 \in 1..3 DEF Job
  <2>3. new # NoJob
    BY <2>2, SetAssumption DEF Job, NoJob
  <2> HIDE DEF new
  <2>4. job' \in [Workers -> Job \cup {NoJob}] /\ job'[w] # NoJob
    BY <2>1, <2>2, <2>3 DEF TypeOK, new
  <2>5. budget' \in Budget
    <3>1. budget \in Budget
      BY DEF TypeOK, Budget
    <3> QED BY <1>1, <3>1, BudgetType DEF Receive
  <2> QED BY <1>1, <2>1, <2>4, <2>5 DEF Receive, Goto, TypeOK, Budget, Labels
<1>2. CASE LockSymbol(w)
  <2>1. pc[w] # "idle" /\ job[w] \in Job
    BY <1>2, BusyHasJob DEF LockSymbol
  <2>2. PICK label \in Labels \ {"idle"} : Goto(w, label)
    BY <1>2 DEF LockSymbol, Labels
  <2> QED BY <1>2, <2>1, <2>2, GotoType DEF LockSymbol, TypeOK
<1>3. CASE LockTimeout(w)
  BY <1>3 DEF LockTimeout, Goto, TypeOK, Labels
<1> QED BY <1>1, <1>2, <1>3

(* So do the callback, the periodic tasks, the environment and a restart. *)
LEMMA OthersType ==
    ASSUME TypeOK,
           \/ WsClose \/ WsIgnore \/ PeriodicSave
           \/ OpenedElsewhere \/ ClosedElsewhere \/ Restart
    PROVE  TypeOK'
<1> USE SetAssumption, NumberAssumption
<1> USE DEF exchangeVars, requestVars, riskVars, positionVars
<1>0. inbox # <<>> => Tail(inbox) \in Seq(Symbols \X Sides)
  BY DEF TypeOK
<1>1. CASE WsClose
  <2>1. PICK p \in tracked : Settle(p, p.qty, {})
    BY <1>1 DEF WsClose, On
  <2>2. p.qty \in Nat
    BY DEF TypeOK, Position
  <2> QED BY <1>0, <1>1, <2>1, <2>2, SettleType DEF WsClose, TypeOK
<1>2. CASE WsIgnore
  BY <1>0, <1>2 DEF WsIgnore, TypeOK
<1>3. CASE PeriodicSave
  BY <1>3 DEF PeriodicSave, Save, Snapshot, TypeOK
<1>4. CASE OpenedElsewhere
  <2>1. PICK s \in Symbols, d \in Sides : exch' = [exch EXCEPT ![s][d] = @ + Lot]
    BY <1>4 DEF OpenedElsewhere
  <2>2. exch[s][d] + Lot \in Nat
    <3>1. exch[s][d] \in Nat
      BY HeldType
    <3> QED BY <3>1
  <2>3. exch' \in [Symbols -> [Sides -> Nat]]
    BY <2>1, <2>2 DEF TypeOK
  <2>4. budget' \in Budget
    <3>1. budget \in Budget
      BY DEF TypeOK, Budget
    <3> QED BY <1>4, <3>1, BudgetType DEF OpenedElsewhere
  <2> QED BY <1>4, <2>3, <2>4 DEF OpenedElsewhere, TypeOK, Budget
<1>5. CASE ClosedElsewhere
  <2>1. exch' \in [Symbols -> [Sides -> Nat]] /\ inbox' \in Seq(Symbols \X Sides)
    BY <1>5, HoldType DEF ClosedElsewhere
  <2>2. budget' \in Budget
    <3>1. budget \in Budget
      BY DEF TypeOK, Budget
    <3> QED BY <1>5, <3>1, BudgetType DEF ClosedElsewhere
  <2> QED BY <1>5, <2>1, <2>2 DEF ClosedElsewhere, TypeOK, Budget
<1>6. CASE Restart
  <2>1. budget' \in Budget
    <3>1. budget \in Budget
      BY DEF TypeOK, Budget
    <3> QED BY <1>6, <3>1, BudgetType DEF Restart
  <2>2. disk.tracked \subseteq Position /\ disk.recorded \in [Oids -> Nat]
    BY DEF TypeOK, Snapshot
  <2>3. /\ tracked' \subseteq Position /\ recorded' \in [Oids -> Nat]
        /\ inbox' \in Seq(Symbols \X Sides)
        /\ disk' \in Snapshot /\ exch' \in [Symbols -> [Sides -> Nat]]
        /\ nextOid' \in Nat \ {0} /\ openOrders' \in Int
    <3>1. tracked' \subseteq Position /\ recorded' \in [Oids -> Nat]
      BY <1>6, <2>2 DEF Restart
    <3>2. inbox' \in Seq(Symbols \X Sides) /\ openOrders' \in Int
      BY <1>6 DEF Restart
    <3>3. disk' = disk /\ exch' = exch /\ nextOid' = nextOid
      BY <1>6 DEF Restart
    <3>4. /\ disk \in Snapshot /\ exch \in [Symbols -> [Sides -> Nat]]
          /\ nextOid \in Nat \ {0}
      BY DEF TypeOK
    <3> QED BY <3>1, <3>2, <3>3, <3>4
  <2>4. /\ owner' \in [Symbols -> Workers \cup {NoWorker}]
        /\ opened' \in [Symbols -> Nat]
        /\ pc' \in [Workers -> Labels]
        /\ job' \in [Workers -> Job \cup {NoJob}]
        /\ \A w \in Workers : pc'[w] = "idle" <=> job'[w] = NoJob
    BY <1>6 DEF Restart, Labels
  <2> QED BY <1>6, <2>1, <2>3, <2>4 DEF Restart, TypeOK, Budget
<1> QED BY <1>1, <1>2, <1>3, <1>4, <1>5, <1>6

(* A call that falls silent changes the exchange and the bounds only. *)
LEMMA SilentKeeps ==
    ASSUME FallSilent
    PROVE  UNCHANGED <<tracked, recorded, disk, owner, pc, job,
                       openOrders, opened, nextOid>>
BY DEF FallSilent, KeeperSilent, OrderSilent, CloseSilent, positionVars, riskVars

(* And it keeps the types. *)
LEMMA SilentType == TypeOK /\ FallSilent => TypeOK'
<1> SUFFICES ASSUME TypeOK, FallSilent PROVE TypeOK'
  OBVIOUS
<1>1. ASSUME NEW w \in Workers, Silence(w)
      PROVE  silent' \subseteq Workers /\ budget' \in Budget
  <2>1. budget \in Budget
    BY DEF TypeOK, Budget
  <2> QED BY <1>1, <2>1, BudgetType DEF Silence, TypeOK
<1>2. CASE KeeperSilent
  BY <1>1, <1>2, SetAssumption DEF KeeperSilent, TypeOK, Budget, positionVars, riskVars
<1>3. ASSUME NEW w \in Workers, OrderSilent(w) \/ CloseSilent(w)
      PROVE  /\ job[w] \in Job /\ job[w].symbol \in Symbols /\ job[w].side \in Sides
             /\ exch[job[w].symbol][job[w].side] \in Nat
  <2>1. job[w] \in Job
    BY <1>3, BusyHasJob DEF OrderSilent, CloseSilent
  <2>2. job[w].symbol \in Symbols /\ job[w].side \in Sides
    BY <2>1 DEF Job
  <2> QED BY <2>1, <2>2, HeldType
<1>4. ASSUME NEW w \in Workers, OrderSilent(w) PROVE TypeOK'
  <2>1. PICK fill \in {0, EntryQty} :
           exch' = [exch EXCEPT ![job[w].symbol][job[w].side] = @ + fill]
    BY <1>4 DEF OrderSilent
  <2>2. exch[job[w].symbol][job[w].side] + fill \in Nat
    BY <1>3, <1>4, NumberAssumption
  <2>3. exch' \in [Symbols -> [Sides -> Nat]]
    BY <1>3, <1>4, <2>1, <2>2 DEF TypeOK
  <2> QED BY <1>1, <1>4, <2>3 DEF OrderSilent, TypeOK, Budget, positionVars, riskVars
<1>5. ASSUME NEW w \in Workers, CloseSilent(w) PROVE TypeOK'
  <2> DEFINE s == job[w].symbol
             d == job[w].side
             q == OrderLots(CloseQty(job[w].kind, job[w].qty))
  <2>1. q \in Nat
    <3>1. CloseQty(job[w].kind, job[w].qty) \in Nat
      BY <1>3, <1>5, CloseQtyType DEF Job
    <3>2. ASSUME NEW c \in Nat PROVE (c \div Lot) * Lot \in Nat
      BY NumberAssumption
    <3> QED BY <3>1, <3>2, NumberAssumption DEF OrderLots
  <2>2. PICK n \in 0..2 : Hold(s, d, IF pc[w] = "slclose" /\ n > 0 THEN 0
                                     ELSE Closed(exch[s][d], q, n))
    BY <1>5 DEF CloseSilent
  <2>3. Closed(exch[s][d], q, n) \in Nat
    BY <1>3, <1>5, <2>1, ClosedType
  <2> HIDE DEF s, d, q
  <2>4. s \in Symbols /\ d \in Sides
    BY <1>3, <1>5 DEF s, d
  <2>5. exch' \in [Symbols -> [Sides -> Nat]] /\ inbox' \in Seq(Symbols \X Sides)
    BY <2>2, <2>3, <2>4, HoldType
  <2> QED BY <1>1, <1>5, <2>5 DEF CloseSilent, TypeOK, Budget, positionVars, riskVars
<1> QED BY <1>2, <1>4, <1>5 DEF FallSilent

(* A stuttering step keeps the types. *)
LEMMA StutterType == TypeOK /\ UNCHANGED vars => TypeOK'
BY DEF vars, TypeOK

(* Every step keeps the types. *)
LEMMA TypeStep == TypeOK /\ [Next]_vars => TypeOK'
<1> SUFFICES ASSUME TypeOK, [Next]_vars PROVE TypeOK'
  OBVIOUS
<1>1. CASE UNCHANGED vars
  BY <1>1, StutterType
<1>2. ASSUME NEW w \in Workers, Receive(w) \/ Pipeline(w)
      PROVE  TypeOK'
  BY <1>2, LockType, EntryType, CloseType DEF Pipeline
<1>3. CASE Sync
  BY <1>3, SyncType
<1>4. CASE \/ WsClose \/ WsIgnore \/ PeriodicSave
           \/ OpenedElsewhere \/ ClosedElsewhere \/ Restart
  BY <1>4, OthersType
<1>5. CASE FallSilent
  BY <1>5, SilentType
<1> QED BY <1>1, <1>2, <1>3, <1>4, <1>5 DEF Next

(* Every reachable state is well typed: positions have positive quantities, a
   worker has a job exactly when it is busy, saved states are well formed. *)
THEOREM TypeCorrect == Spec => []TypeOK
<1>1. Init => TypeOK
  BY InitType
<1>2. TypeOK /\ [Next]_vars => TypeOK'
  BY TypeStep
<1> QED BY <1>1, <1>2, PTL DEF Spec

-----------------------------------------------------------------------------
(* The inductive invariant EngineInv. *)

(* Every position of the engine in T comes from one in S, of the same symbol,
   and no two of T come from the same. *)
Descends(T, S) ==
    \E f \in [EnginePositions(S) -> Position] :
        /\ EnginePositions(T) \subseteq {f[p] : p \in EnginePositions(S)}
        /\ \A p \in EnginePositions(S) : f[p].symbol = p.symbol

(* A set of positions descends from itself. *)
LEMMA DescendsRefl ==
    ASSUME NEW T \in SUBSET Position
    PROVE  Descends(T, T)
<1> DEFINE f == [p \in EnginePositions(T) |-> p]
<1>1. f \in [EnginePositions(T) -> Position]
  BY DEF EnginePositions
<1>2. /\ EnginePositions(T) \subseteq {f[p] : p \in EnginePositions(T)}
      /\ \A p \in EnginePositions(T) : f[p].symbol = p.symbol
  OBVIOUS
<1> HIDE DEF f
<1> QED BY <1>1, <1>2 DEF Descends

(* The image of a finite set is finite and no larger than the set. *)
LEMMA ImageFinite ==
    ASSUME NEW S, NEW X, IsFiniteSet(S), NEW f \in [S -> X]
    PROVE  /\ IsFiniteSet({f[p] : p \in S})
           /\ Cardinality({f[p] : p \in S}) <= Cardinality(S)
<1> DEFINE img == {f[p] : p \in S}
<1>1. f \in Surjection(S, img)
  BY DEF Surjection
<1> QED BY <1>1, FS_Surjection

(* What descends has no more positions, in no other symbols, and still at most
   one in each. *)
LEMMA DescendsFacts ==
    ASSUME NEW S, NEW T, IsFiniteSet(S), Descends(T, S)
    PROVE  /\ IsFiniteSet(EnginePositions(T)) /\ IsFiniteSet(EnginePositions(S))
           /\ Cardinality(EnginePositions(T)) <= Cardinality(EnginePositions(S))
           /\ \A p \in EnginePositions(T) : \E q \in EnginePositions(S) : q.symbol = p.symbol
           /\ AtMostOnePerSymbol(S) => AtMostOnePerSymbol(T)
<1>1. PICK f \in [EnginePositions(S) -> Position] :
         /\ EnginePositions(T) \subseteq {f[p] : p \in EnginePositions(S)}
         /\ \A p \in EnginePositions(S) : f[p].symbol = p.symbol
  BY DEF Descends
<1> DEFINE img == {f[p] : p \in EnginePositions(S)}
<1>2. IsFiniteSet(EnginePositions(S))
  BY FS_Subset DEF EnginePositions
<1>3. IsFiniteSet(img) /\ Cardinality(img) <= Cardinality(EnginePositions(S))
  BY <1>2, ImageFinite
<1>4. IsFiniteSet(EnginePositions(T)) /\ Cardinality(EnginePositions(T)) <= Cardinality(img)
  BY <1>1, <1>3, FS_Subset
<1>5. /\ Cardinality(img) \in Nat
      /\ Cardinality(EnginePositions(S)) \in Nat
      /\ Cardinality(EnginePositions(T)) \in Nat
  BY <1>2, <1>3, <1>4, FS_CardinalityType
<1>6. \A p \in EnginePositions(T) : \E q \in EnginePositions(S) : p = f[q] /\ q.symbol = p.symbol
  BY <1>1
<1>7. AtMostOnePerSymbol(S) => AtMostOnePerSymbol(T)
  BY <1>6 DEF AtMostOnePerSymbol
<1> HIDE DEF img
<1>8. Cardinality(EnginePositions(T)) <= Cardinality(EnginePositions(S))
  BY <1>3, <1>4, <1>5
<1> QED BY <1>2, <1>4, <1>6, <1>7, <1>8

(* Settling a close, and a reconciliation, add no position of the engine. *)
LEMMA ReduceKeeps ==
    ASSUME NEW p \in Position, NEW q \in Nat, NEW r \in Reduce(p, q)
    PROVE  /\ Reduce(p, q) = {r} /\ r \in Position
           /\ r.symbol = p.symbol /\ r.oid = p.oid
<1>1. p.qty > q /\ r = [p EXCEPT !.qty = @ - q] /\ Reduce(p, q) = {r}
  BY DEF Reduce
<1>2. r \in Position
  BY ReduceType
<1>3. r.symbol = p.symbol /\ r.oid = p.oid
  BY <1>1 DEF Position
<1> QED BY <1>1, <1>2, <1>3

(* A settlement leaves positions that descend from the tracked ones. *)
LEMMA SettleDescends ==
    ASSUME NEW T \in SUBSET Position, NEW T2, NEW p \in T, NEW rest \in SUBSET Position,
           IsFiniteSet(T), T2 = (T \ {p}) \cup rest,
           rest = {} \/ \E r \in Position : rest = {r} /\ r.symbol = p.symbol /\ r.oid = p.oid
    PROVE  Descends(T2, T) /\ IsFiniteSet(T2)
<1>0. IsFiniteSet(T2)
  <2>1. IsFiniteSet(T \ {p})
    BY FS_RemoveElement
  <2>2. CASE rest = {}
    BY <2>1, <2>2
  <2>3. ASSUME NEW r \in Position, rest = {r} PROVE IsFiniteSet(T2)
    BY <2>1, <2>3, FS_AddElement
  <2> QED BY <2>2, <2>3
<1>1. CASE rest = {}
  <2> DEFINE f == [x \in EnginePositions(T) |-> x]
  <2>1. f \in [EnginePositions(T) -> Position]
    BY DEF EnginePositions
  <2>2. /\ EnginePositions(T2) \subseteq {f[x] : x \in EnginePositions(T)}
        /\ \A x \in EnginePositions(T) : f[x].symbol = x.symbol
    BY <1>1 DEF EnginePositions
  <2> HIDE DEF f
  <2> QED BY <1>0, <2>1, <2>2 DEF Descends
<1>2. ASSUME NEW r \in Position, rest = {r}, r.symbol = p.symbol, r.oid = p.oid
      PROVE  Descends(T2, T)
  <2> DEFINE f == [x \in EnginePositions(T) |-> IF x = p THEN r ELSE x]
  <2>1. f \in [EnginePositions(T) -> Position]
    BY DEF EnginePositions
  <2>2. \A x \in EnginePositions(T) : f[x].symbol = x.symbol
    BY <1>2
  <2>3. ASSUME NEW y \in EnginePositions(T2)
        PROVE  \E x \in EnginePositions(T) : y = f[x]
    <3>1. CASE y = r
      <4>1. p \in EnginePositions(T)
        BY <1>2, <2>3, <3>1 DEF EnginePositions
      <4> QED BY <3>1, <4>1
    <3>2. CASE y # r
      <4>1. y \in EnginePositions(T) /\ y # p
        BY <1>2, <2>3, <3>2 DEF EnginePositions
      <4> QED BY <4>1
    <3> QED BY <3>1, <3>2
  <2> HIDE DEF f
  <2>4. EnginePositions(T2) \subseteq {f[x] : x \in EnginePositions(T)}
    BY <2>3
  <2> QED BY <2>1, <2>2, <2>4 DEF Descends
<1> QED BY <1>0, <1>1, <1>2

(* A reconciliation leaves engine positions that descend from the tracked
   ones. *)
LEMMA SyncDescends ==
    ASSUME TypeOK, IsFiniteSet(tracked), Sync
    PROVE  Descends(tracked', tracked) /\ IsFiniteSet(tracked')
<1> DEFINE mark == [p \in tracked |-> [p EXCEPT !.real = @ \/ Held(p.symbol, p.side)]]
<1>1. mark \in [tracked -> Position]
  <2>1. \A p \in tracked : mark[p] \in Marked
    BY DEF Marked
  <2>2. \A p \in tracked : mark[p] \in Position
    BY <2>1, MarkedType
  <2> QED BY <2>2
<1>2. Marked = {mark[p] : p \in tracked}
  BY DEF Marked
<1>3. \A p \in tracked : mark[p].symbol = p.symbol /\ mark[p].oid = p.oid
  BY DEF TypeOK, Position
<1> HIDE DEF mark
<1>4. Descends(tracked', tracked)
  <2> DEFINE f == [p \in EnginePositions(tracked) |-> mark[p]]
  <2>1. f \in [EnginePositions(tracked) -> Position]
    BY <1>1 DEF EnginePositions
  <2>2. \A p \in EnginePositions(tracked) : f[p].symbol = p.symbol
    BY <1>3 DEF EnginePositions
  <2>3. ASSUME NEW y \in EnginePositions(tracked')
        PROVE  \E p \in EnginePositions(tracked) : y = f[p]
    <3>1. PICK p \in tracked : y = mark[p]
      BY <1>2, SyncTracked
    <3>2. p \in EnginePositions(tracked)
      BY <1>3, <2>3, <3>1 DEF EnginePositions
    <3> QED BY <3>1, <3>2
  <2> HIDE DEF f
  <2> QED BY <2>1, <2>2, <2>3 DEF Descends
<1>5. IsFiniteSet(Marked)
  BY <1>1, <1>2, ImageFinite
<1>6. IsFiniteSet(Symbols \X Sides)
  <2>1. IsFiniteSet({"long"} \cup {"short"})
    BY FS_Singleton, FS_AddElement
  <2>2. Sides \in SUBSET ({"long"} \cup {"short"})
    BY SetAssumption
  <2>3. IsFiniteSet(Sides)
    BY <2>1, <2>2, FS_Subset
  <2> QED BY <2>3, FS_Product, SetAssumption
<1>7. IsFiniteSet({Imported(x) : x \in Symbols \X Sides})
  <2> DEFINE S == Symbols \X Sides
             X == {Imported(x) : x \in S}
             g == [x \in S |-> Imported(x)]
  <2>1. g \in [S -> X]
    OBVIOUS
  <2>2. {g[x] : x \in S} = X
    OBVIOUS
  <2>3. IsFiniteSet(S)
    BY <1>6
  <2> HIDE DEF S, X, g
  <2>4. IsFiniteSet({g[x] : x \in S})
    BY <2>1, <2>3, ImageFinite
  <2>5. IsFiniteSet(X)
    BY <2>2, <2>4
  <2> QED BY <2>5 DEF X, S
<1>8. tracked' \subseteq Marked \cup {Imported(x) : x \in Symbols \X Sides}
  <2>1. PICK seen \in SUBSET Marked, expired \in SUBSET MayExpire :
           tracked' = Stay(seen, expired) \cup Missing(seen, expired)
    BY DEF Sync
  <2>2. Turned(seen) \subseteq Symbols
    BY MarkedType DEF Turned, Flipped, Lost, Position
  <2>3. Rekeyed(seen) \subseteq {Imported(x) : x \in Symbols \X Sides}
    BY <2>2 DEF Rekeyed, HeldSides
  <2>4. Missing(seen, expired) \subseteq {Imported(x) : x \in Symbols \X Sides}
    BY DEF Missing, HeldSides
  <2> QED BY <2>1, <2>3, <2>4 DEF Stay
<1>9. IsFiniteSet(tracked')
  <2>1. IsFiniteSet(Marked \cup {Imported(x) : x \in Symbols \X Sides})
    BY <1>5, <1>7, FS_Union
  <2> QED BY <1>8, <2>1, FS_Subset
<1> QED BY <1>4, <1>9

-----------------------------------------------------------------------------
(* How a worker's step moves: it returns, or it keeps its symbol. *)
Stays(w) ==
    /\ owner' = owner
    /\ job'[w].symbol = job[w].symbol
    /\ \A v \in Workers \ {w} : pc'[v] = pc[v] /\ job'[v] = job[v]

(* Moving one worker on leaves the others where they are. *)
LEMMA GotoStays ==
    ASSUME TypeOK, NEW w \in Workers, NEW label, Goto(w, label), UNCHANGED <<owner, job>>
    PROVE  Stays(w) /\ pc'[w] = label
BY DEF TypeOK, Goto, Stays

(* A step of a handler either returns and frees the symbol or keeps its lock
   and its place; it is past admission only if it was, or was just admitted. *)
LEMMA PipelineShape ==
    ASSUME TypeOK, NEW w \in Workers, Entry(w) \/ Close(w)
    PROVE  /\ pc[w] \notin {"idle", "lock"}
           /\ \/ Finish(w)
              \/ /\ Stays(w)
                 /\ pc'[w] \in Admitted => pc[w] \in Admitted \/ EntryAdmitted(w)
<1>1. pc[w] \notin {"idle", "lock"}
  BY DEF Entry, Close, EntryFiltered, EntryBlocked, EntryAdmitted, Validate,
     RegisterPaper, PlaceOrder, OrderReply, RegisterReal, SaveEntry, FindPosition,
     NoPosition, ReadIsReal, PaperTP, PaperSL, CloseTP, RecordTP, CloseSL, RecordSL
<1>2. job[w] \in Job
  BY <1>1, BusyHasJob
<1> DEFINE Shape == \/ Finish(w)
                    \/ /\ Stays(w)
                       /\ pc'[w] \in Admitted => pc[w] \in Admitted \/ EntryAdmitted(w)
<1>3. CASE Entry(w)
  <2>1. CASE EntryFiltered(w) \/ EntryBlocked(w) \/ RegisterPaper(w) \/ SaveEntry(w)
    BY <2>1 DEF EntryFiltered, EntryBlocked, RegisterPaper, SaveEntry
  <2>2. CASE EntryAdmitted(w)
    BY <2>2, GotoStays DEF EntryAdmitted
  <2>3. CASE Validate(w)
    <3>1. CASE job' = [job EXCEPT ![w].oid = nextOid] /\ UNCHANGED owner
               /\ \E label \in {"place", "paper"} : Goto(w, label)
      BY <1>2, <2>3, <3>1 DEF Stays, Goto, Validate, TypeOK, Job, Admitted
    <3>2. \/ Finish(w)
          \/ job' = [job EXCEPT ![w].oid = nextOid] /\ UNCHANGED owner
               /\ \E label \in {"place", "paper"} : Goto(w, label)
      BY <2>3 DEF Validate
    <3> QED BY <1>1, <3>1, <3>2
  <2>4. CASE PlaceOrder(w)
    BY <2>4, GotoStays DEF PlaceOrder, Admitted
  <2>5. CASE OrderReply(w)
    <3>1. CASE Goto(w, "register") /\ UNCHANGED <<owner, job>>
      BY <2>5, <3>1, GotoStays DEF OrderReply, Admitted
    <3>2. ASSUME NEW fill \in BOOLEAN, Goto(w, "place"), UNCHANGED owner,
                 job' = [job EXCEPT ![w].attempt = 2, ![w].filled = @ \/ fill]
          PROVE  Shape
      BY <1>2, <2>5, <3>2 DEF OrderReply, Stays, Goto, TypeOK, Job, Admitted
    <3> QED BY <2>5, <3>1, <3>2 DEF OrderReply
  <2>6. CASE RegisterReal(w)
    BY <2>6, GotoStays DEF RegisterReal, Admitted
  <2> QED BY <1>3, <2>1, <2>2, <2>3, <2>4, <2>5, <2>6 DEF Entry
<1>4. CASE Close(w)
  <2>1. CASE \/ NoPosition(w) \/ PaperTP(w) \/ PaperSL(w) \/ RecordTP(w) \/ RecordSL(w)
    BY <2>1 DEF NoPosition, PaperTP, PaperSL, RecordTP, RecordSL
  <2>2. CASE FindPosition(w)
    <3>1. PICK o, q : job' = [job EXCEPT ![w].oid = o, ![w].qty = q]
      BY <2>2 DEF FindPosition
    <3> QED BY <1>2, <2>2, <3>1 DEF FindPosition, Stays, Goto, TypeOK, Job, Admitted
  <2>3. CASE ReadIsReal(w)
    BY <2>3, GotoStays DEF ReadIsReal, Admitted
  <2>4. ASSUME NEW ok, NEW record \in {"tprecord", "slrecord"},
               AfterAttempt(w, ok, record), pc[w] \notin Admitted
        PROVE  Shape
    <3>1. CASE Goto(w, record) /\ UNCHANGED <<owner, job>>
      BY <2>4, <3>1, GotoStays DEF Admitted
    <3>2. CASE job' = [job EXCEPT ![w].attempt = @ + 1] /\ UNCHANGED <<owner, pc>>
      BY <1>2, <2>4, <3>2 DEF Stays, TypeOK, Job
    <3> QED BY <2>4, <3>1, <3>2 DEF AfterAttempt
  <2>5. CASE CloseTP(w)
    BY <2>4, <2>5 DEF CloseTP, Admitted
  <2>6. CASE CloseSL(w)
    BY <2>4, <2>6 DEF CloseSL, Admitted
  <2> QED BY <1>4, <2>1, <2>2, <2>3, <2>5, <2>6 DEF Close
<1> QED BY <1>1, <1>3, <1>4

(* What a step other than a registration or a restart does to the positions. *)
Shrinks == /\ Descends(tracked', tracked)
           /\ IsFiniteSet(tracked')
           /\ disk' = disk \/ disk'.tracked = tracked'

(* A settlement removes one position and keeps at most a smaller one in its
   place. *)
LEMMA SettleOne ==
    ASSUME TypeOK, IsFiniteSet(tracked), NEW p \in tracked, NEW q,
           NEW rest \in SUBSET Position, Settle(p, q, rest),
           rest = {} \/ \E r \in Position : rest = {r} /\ r.symbol = p.symbol /\ r.oid = p.oid
    PROVE  Shrinks
<1>1. tracked' = (tracked \ {p}) \cup rest /\ disk'.tracked = tracked'
  BY DEF Settle, Save
<1> QED BY <1>1, SettleDescends DEF Shrinks, TypeOK

(* So the settlements of take profit and stop loss only shrink what is
   tracked. *)
LEMMA SettleShrinks ==
    ASSUME TypeOK, IsFiniteSet(tracked), NEW w \in Workers, pc[w] # "idle",
           SettleTP(w) \/ SettleSL(w)
    PROVE  Shrinks
<1> DEFINE closed == CloseQty(job[w].kind, job[w].qty)
<1>1. CASE AlreadyGone(w)
  BY <1>1, DescendsRefl DEF AlreadyGone, positionVars, TypeOK, Shrinks
<1>2. CASE SettleTP(w)
  <2>1. closed \in Nat
    BY BusyHasJob, CloseQtyType DEF Job
  <2>2. ASSUME NEW p \in At(MatchKey(w)),
               Settle(p, closed, IF job[w].kind = "TP3" THEN {} ELSE Reduce(p, closed))
        PROVE  Shrinks
    <3>1. p \in tracked /\ p \in Position
      BY DEF At, TypeOK
    <3>2. CASE job[w].kind = "TP3" \/ Reduce(p, closed) = {}
      BY <2>2, <3>1, <3>2, SettleOne
    <3>3. ASSUME job[w].kind # "TP3", NEW r \in Reduce(p, closed) PROVE Shrinks
      <4>1. /\ Reduce(p, closed) = {r} /\ r \in Position
            /\ r.symbol = p.symbol /\ r.oid = p.oid
        BY <2>1, <3>1, <3>3, ReduceKeeps
      <4> QED BY <2>2, <3>1, <3>3, <4>1, SettleOne
    <3> QED BY <3>2, <3>3
  <2> QED BY <1>1, <1>2, <2>2 DEF SettleTP
<1>3. CASE SettleSL(w)
  <2>1. ASSUME NEW p \in At(MatchKey(w)), Settle(p, p.qty, {}) PROVE Shrinks
    BY <2>1, SettleOne DEF At
  <2> QED BY <1>1, <1>3, <2>1 DEF SettleSL
<1> QED BY <1>2, <1>3

(* A step of a pipeline that registers nothing only shrinks what is tracked. *)
LEMMA PipelineShrinks ==
    ASSUME TypeOK, IsFiniteSet(tracked), NEW w \in Workers, Entry(w) \/ Close(w),
           ~RegisterPaper(w), ~RegisterReal(w)
    PROVE  Shrinks
<1>1. pc[w] # "idle"
  BY PipelineShape
<1>2. UNCHANGED positionVars => Shrinks
  BY DescendsRefl DEF positionVars, TypeOK, Shrinks
<1>3. CASE SaveEntry(w)
  BY <1>3, DescendsRefl DEF SaveEntry, Save, TypeOK, Shrinks
<1>4. CASE PaperTP(w) \/ PaperSL(w) \/ RecordTP(w) \/ RecordSL(w)
  BY <1>1, <1>4, SettleShrinks DEF PaperTP, PaperSL, RecordTP, RecordSL
<1>5. CASE \/ EntryFiltered(w) \/ EntryBlocked(w) \/ EntryAdmitted(w) \/ Validate(w)
           \/ PlaceOrder(w) \/ OrderReply(w)
  BY <1>2, <1>5 DEF EntryFiltered, EntryBlocked, EntryAdmitted, Validate,
     PlaceOrder, OrderReply
<1>6. CASE FindPosition(w) \/ NoPosition(w) \/ ReadIsReal(w) \/ CloseTP(w) \/ CloseSL(w)
  BY <1>2, <1>6 DEF FindPosition, NoPosition, ReadIsReal, CloseTP, CloseSL
<1> QED BY <1>3, <1>4, <1>5, <1>6 DEF Entry, Close

(* The callback, the periodic tasks and the environment only shrink what the
   engine tracks of its own. *)
LEMMA OthersShrink ==
    ASSUME TypeOK, IsFiniteSet(tracked),
           \/ UNCHANGED vars
           \/ \E w \in Workers : Receive(w) \/ LockSymbol(w) \/ LockTimeout(w)
           \/ WsClose \/ WsIgnore \/ Sync \/ PeriodicSave
           \/ OpenedElsewhere \/ ClosedElsewhere \/ FallSilent
    PROVE  Shrinks
<1>1. UNCHANGED positionVars => Shrinks
  BY DescendsRefl DEF positionVars, TypeOK, Shrinks
<1>2. CASE WsClose
  <2>1. PICK p \in tracked : Settle(p, p.qty, {})
    BY <1>2 DEF WsClose, On
  <2> QED BY <2>1, SettleOne
<1>3. CASE Sync
  <2>1. disk' = disk \/ disk'.tracked = tracked'
    BY <1>3, SyncTracked DEF Save
  <2> QED BY <1>3, <2>1, SyncDescends DEF Shrinks
<1>4. CASE PeriodicSave
  BY <1>4, DescendsRefl DEF PeriodicSave, Save, TypeOK, Shrinks
<1>5. CASE \/ UNCHANGED vars
           \/ \E w \in Workers : Receive(w) \/ LockSymbol(w) \/ LockTimeout(w)
           \/ WsIgnore \/ OpenedElsewhere \/ ClosedElsewhere \/ FallSilent
  BY <1>1, <1>5, SilentKeeps DEF vars, positionVars, Receive, LockSymbol, LockTimeout, WsIgnore,
     OpenedElsewhere, ClosedElsewhere
<1> QED BY <1>2, <1>3, <1>4, <1>5

-----------------------------------------------------------------------------
(* Preservation of EngineInv, one part at a time. *)

(* After a restart every worker is idle. *)
LEMMA RestartIdle ==
    ASSUME Restart
    PROVE  /\ \A w \in Workers : pc'[w] = "idle"
           /\ tracked' = disk.tracked /\ disk' = disk
BY DEF Restart

(* A worker keeps its symbol until it returns, and nobody else takes it. *)
LEMMA LockedStep ==
    ASSUME TypeOK, SymbolLocked, [Next]_vars
    PROVE  SymbolLocked'
<1>1. CASE UNCHANGED vars
  BY <1>1 DEF vars, SymbolLocked
<1>2. ASSUME NEW w \in Workers, Receive(w) \/ LockTimeout(w) PROVE SymbolLocked'
  <2>1. /\ pc'[w] \in {"idle", "lock"} /\ owner' = owner
        /\ \A v \in Workers \ {w} : pc'[v] = pc[v] /\ job'[v] = job[v]
    BY <1>2 DEF Receive, LockTimeout, Goto, TypeOK
  <2> QED BY <2>1 DEF SymbolLocked
<1>3. ASSUME NEW w \in Workers, LockSymbol(w) PROVE SymbolLocked'
  <2>1. job[w].symbol \in Symbols
    BY <1>3, BusyHasJob DEF LockSymbol, Job
  <2>2. \A v \in Workers : pc[v] \notin {"idle", "lock"} => job[v].symbol # job[w].symbol
    BY <1>3, SetAssumption DEF LockSymbol, SymbolLocked
  <2> QED BY <1>3, <2>1, <2>2 DEF LockSymbol, Goto, TypeOK, SymbolLocked
<1>4. ASSUME NEW w \in Workers, Entry(w) \/ Close(w) PROVE SymbolLocked'
  <2>1. pc[w] \notin {"idle", "lock"} /\ (Finish(w) \/ Stays(w))
    BY <1>4, PipelineShape
  <2>2. owner[job[w].symbol] = w /\ job[w].symbol \in Symbols
    BY <2>1, BusyHasJob DEF SymbolLocked, Job
  <2>3. CASE Finish(w)
    <3>1. ASSUME NEW v \in Workers \ {w}, pc[v] \notin {"idle", "lock"}
          PROVE  owner[job[v].symbol] = v /\ job[v].symbol # job[w].symbol
      BY <2>2, <3>1 DEF SymbolLocked
    <3>2. ASSUME NEW v \in Workers, pc'[v] \notin {"idle", "lock"}
          PROVE  owner'[job'[v].symbol] = v
      <4>1. v # w /\ pc'[v] = pc[v] /\ job'[v] = job[v]
        BY <2>3, <3>2 DEF Finish, Goto, TypeOK
      <4>2. owner[job[v].symbol] = v /\ job[v].symbol # job[w].symbol
        BY <3>1, <3>2, <4>1
      <4>3. job[v].symbol \in Symbols
        BY <3>2, <4>1, BusyHasJob DEF Job
      <4> QED BY <2>3, <4>1, <4>2, <4>3 DEF Finish, TypeOK
    <3> QED BY <3>2 DEF SymbolLocked
  <2>4. CASE Stays(w)
    BY <2>2, <2>4 DEF Stays, SymbolLocked
  <2> QED BY <2>1, <2>3, <2>4
<1>5. CASE \/ WsClose \/ WsIgnore \/ Sync \/ PeriodicSave
           \/ OpenedElsewhere \/ ClosedElsewhere \/ FallSilent
  BY <1>5, SilentKeeps DEF WsClose, WsIgnore, Sync, PeriodicSave, OpenedElsewhere, ClosedElsewhere,
     SymbolLocked
<1>6. CASE Restart
  BY <1>6, RestartIdle DEF SymbolLocked
<1> QED BY <1>1, <1>2, <1>3, <1>4, <1>5, <1>6 DEF Next, Pipeline

(* Which workers are in flight after a step that is not an admission. *)
LEMMA InFlightStep ==
    ASSUME TypeOK, [Next]_vars, NEW v \in Workers, pc'[v] \in Admitted
    PROVE  \/ pc[v] \in Admitted /\ job'[v].symbol = job[v].symbol
           \/ EntryAdmitted(v)
<1>1. CASE UNCHANGED vars
  BY <1>1 DEF vars
<1>2. ASSUME NEW w \in Workers, Receive(w) \/ LockTimeout(w) \/ LockSymbol(w)
      PROVE  pc[v] \in Admitted /\ job'[v] = job[v]
  <2>1. pc'[w] \notin Admitted
    BY <1>2 DEF Receive, LockTimeout, LockSymbol, Goto, TypeOK, Admitted
  <2> QED BY <1>2, <2>1 DEF Receive, LockTimeout, LockSymbol, Goto, TypeOK
<1>3. ASSUME NEW w \in Workers, Entry(w) \/ Close(w)
      PROVE  \/ pc[v] \in Admitted /\ job'[v].symbol = job[v].symbol
             \/ EntryAdmitted(v)
  <2>1. CASE Finish(w)
    <3>1. v # w
      BY <2>1 DEF Finish, Goto, TypeOK, Admitted
    <3> QED BY <2>1, <3>1 DEF Finish, Goto, TypeOK
  <2>2. CASE /\ Stays(w)
             /\ pc'[w] \in Admitted => pc[w] \in Admitted \/ EntryAdmitted(w)
    BY <2>2 DEF Stays
  <2> QED BY <1>3, <2>1, <2>2, PipelineShape
<1>4. CASE \/ WsClose \/ WsIgnore \/ Sync \/ PeriodicSave
           \/ OpenedElsewhere \/ ClosedElsewhere \/ FallSilent
  BY <1>4, SilentKeeps DEF WsClose, WsIgnore, Sync, PeriodicSave, OpenedElsewhere, ClosedElsewhere
<1>5. CASE Restart
  BY <1>5, RestartIdle DEF Admitted
<1> QED BY <1>1, <1>2, <1>3, <1>4, <1>5 DEF Next, Pipeline

(* A registration adds one position, of the symbol its worker owns. *)
Registers(w) == RegisterPaper(w) \/ RegisterReal(w)

(* Registering a position adds that position only, saves nothing, and ends
   the worker's time in flight. *)
LEMMA RegisterStep ==
    ASSUME TypeOK, NEW w \in Workers, Registers(w)
    PROVE  /\ \E p \in Position : tracked' = tracked \cup {p} /\ p.symbol = job[w].symbol
           /\ disk' = disk
           /\ pc[w] \in Admitted /\ pc'[w] \notin Admitted
<1>1. pc[w] \in Admitted /\ pc[w] # "idle" /\ disk' = disk
  BY DEF Registers, RegisterPaper, RegisterReal, Admitted
<1>2. pc'[w] \notin Admitted
  BY DEF Registers, RegisterPaper, RegisterReal, Finish, Goto, TypeOK, Admitted
<1>3. ASSUME NEW real \in BOOLEAN
      PROVE  /\ NewPosition(w, real) \in Position
             /\ NewPosition(w, real).symbol = job[w].symbol
  BY <1>1, BusyHasJob, NumberAssumption DEF NewPosition, Position, Job
<1> QED BY <1>1, <1>2, <1>3 DEF Registers, RegisterPaper, RegisterReal

(* Every step registers a position, restarts, or only shrinks what is
   tracked. *)
LEMMA StepCases ==
    ASSUME TypeOK, IsFiniteSet(tracked), [Next]_vars
    PROVE  \/ Shrinks \/ Restart
           \/ \E w \in Workers : Registers(w)
<1>1. ASSUME NEW w \in Workers, Entry(w) \/ Close(w), ~Registers(w) PROVE Shrinks
  BY <1>1, PipelineShrinks DEF Registers
<1>2. CASE \/ UNCHANGED vars
           \/ \E w \in Workers : Receive(w) \/ LockSymbol(w) \/ LockTimeout(w)
           \/ WsClose \/ WsIgnore \/ Sync \/ PeriodicSave
           \/ OpenedElsewhere \/ ClosedElsewhere \/ FallSilent
  BY <1>2, OthersShrink
<1> QED BY <1>1, <1>2 DEF Next, Pipeline

(* The tracked and the saved positions stay finitely many. *)
LEMMA FinitelyStep ==
    ASSUME TypeOK, FinitelyMany, [Next]_vars
    PROVE  FinitelyMany'
<1>1. CASE Shrinks
  BY <1>1 DEF Shrinks, FinitelyMany
<1>2. CASE Restart
  BY <1>2, RestartIdle DEF FinitelyMany
<1>3. ASSUME NEW w \in Workers, Registers(w) PROVE FinitelyMany'
  <2>1. PICK p \in Position : tracked' = tracked \cup {p}
    BY <1>3, RegisterStep
  <2>2. IsFiniteSet(tracked')
    BY <2>1, FS_AddElement DEF FinitelyMany
  <2> QED BY <1>3, <2>2, RegisterStep DEF FinitelyMany
<1> QED BY <1>1, <1>2, <1>3, StepCases DEF FinitelyMany

(* An admission finds its symbol clear, and it stays so: the only steps that add
   a position belong to the owner of the symbol. *)
LEMMA ClearStep ==
    ASSUME TypeOK, FinitelyMany, SymbolLocked, PipelineClear, [Next]_vars
    PROVE  PipelineClear'
<1> SUFFICES ASSUME NEW v \in Workers, pc'[v] \in Admitted,
                    NEW p \in EnginePositions(tracked')
             PROVE  p.symbol # job'[v].symbol
  BY DEF PipelineClear, InFlight
<1>1. CASE EntryAdmitted(v)
  BY <1>1 DEF EntryAdmitted, Admissible, positionVars, EnginePositions
<1>2. CASE pc[v] \in Admitted /\ job'[v].symbol = job[v].symbol
  <2>1. \A q \in EnginePositions(tracked) : q.symbol # job'[v].symbol
    BY <1>2 DEF PipelineClear, InFlight
  <2>2. CASE Shrinks
    <3>1. PICK q \in EnginePositions(tracked) : q.symbol = p.symbol
      BY <2>2, DescendsFacts DEF Shrinks, FinitelyMany
    <3> QED BY <2>1, <3>1
  <2>3. CASE Restart
    BY <2>3, RestartIdle DEF Admitted
  <2>4. ASSUME NEW w \in Workers, Registers(w) PROVE p.symbol # job'[v].symbol
    <3>1. PICK n \in Position : tracked' = tracked \cup {n} /\ n.symbol = job[w].symbol
      BY <2>4, RegisterStep
    <3>2. CASE p \in EnginePositions(tracked)
      BY <2>1, <3>2
    <3>3. CASE p = n
      <4>1. v # w /\ pc[w] \in Admitted
        BY <2>4, RegisterStep
      <4>2. owner[job[v].symbol] = v /\ owner[job[w].symbol] = w
        BY <1>2, <4>1 DEF SymbolLocked, Admitted
      <4> QED BY <1>2, <3>1, <3>3, <4>1, <4>2
    <3> QED BY <3>1, <3>2, <3>3 DEF EnginePositions
  <2> QED BY <2>2, <2>3, <2>4, StepCases DEF FinitelyMany
<1> QED BY <1>1, <1>2, InFlightStep

(* At most one position of the engine per symbol stays so. *)
LEMMA OneStep ==
    ASSUME TypeOK, FinitelyMany, PipelineClear, OnePositionPerSymbol, [Next]_vars
    PROVE  OnePositionPerSymbol'
<1>1. CASE Shrinks
  <2>1. AtMostOnePerSymbol(tracked')
    BY <1>1, DescendsFacts DEF Shrinks, FinitelyMany, OnePositionPerSymbol
  <2>2. AtMostOnePerSymbol(disk'.tracked)
    BY <1>1, <2>1 DEF Shrinks, OnePositionPerSymbol
  <2> QED BY <2>1, <2>2 DEF OnePositionPerSymbol
<1>2. CASE Restart
  BY <1>2, RestartIdle DEF OnePositionPerSymbol
<1>3. ASSUME NEW w \in Workers, Registers(w) PROVE OnePositionPerSymbol'
  <2>1. PICK n \in Position : tracked' = tracked \cup {n} /\ n.symbol = job[w].symbol
    BY <1>3, RegisterStep
  <2>2. \A p \in EnginePositions(tracked) : p.symbol # n.symbol
    BY <1>3, <2>1, RegisterStep DEF PipelineClear, InFlight
  <2>3. \A p \in EnginePositions(tracked') : p \in EnginePositions(tracked) \/ p = n
    BY <2>1 DEF EnginePositions
  <2>4. AtMostOnePerSymbol(tracked')
    BY <2>2, <2>3 DEF AtMostOnePerSymbol, OnePositionPerSymbol
  <2> QED BY <1>3, <2>4, RegisterStep DEF OnePositionPerSymbol
<1> QED BY <1>1, <1>2, <1>3, StepCases DEF FinitelyMany

Total(T, F) == Cardinality(EnginePositions(T)) + Cardinality(F)

(* The counts that the bound compares are natural numbers. *)
LEMMA CountTypes ==
    ASSUME FinitelyMany
    PROVE  /\ IsFiniteSet(EnginePositions(tracked)) /\ IsFiniteSet(EnginePositions(disk.tracked))
           /\ IsFiniteSet(InFlight)
           /\ Cardinality(EnginePositions(tracked)) \in Nat
           /\ Cardinality(EnginePositions(disk.tracked)) \in Nat
           /\ Cardinality(InFlight) \in Nat
           /\ Cardinality(InFlight) <= Cardinality(Workers)
           /\ Cardinality(Workers) \in Nat \ {0}
<1>1. IsFiniteSet(EnginePositions(tracked)) /\ IsFiniteSet(EnginePositions(disk.tracked))
  BY FS_Subset DEF FinitelyMany, EnginePositions
<1>2. IsFiniteSet(InFlight) /\ Cardinality(InFlight) <= Cardinality(Workers)
  BY FS_Subset, SetAssumption DEF InFlight
<1>3. Cardinality(Workers) \in Nat \ {0}
  BY FS_CardinalityType, FS_EmptySet, SetAssumption
<1> QED BY <1>1, <1>2, <1>3, FS_CardinalityType

(* Each admission is within the limit when it is made, and each admission that
   has yet to register belongs to a worker of its own. *)
LEMMA TotalStep ==
    ASSUME TypeOK, FinitelyMany, BoundedOvershoot, [Next]_vars
    PROVE  Total(tracked', InFlight') < MaxConcurrent + Cardinality(Workers)
<1> DEFINE E  == EnginePositions(tracked)
           E2 == EnginePositions(tracked')
           F  == InFlight
           F2 == InFlight'
<1>1. /\ Cardinality(E) + Cardinality(F) < MaxConcurrent + Cardinality(Workers)
      /\ IsFiniteSet(E) /\ IsFiniteSet(F)
      /\ Cardinality(E) \in Nat /\ Cardinality(F) \in Nat
      /\ Cardinality(Workers) \in Nat /\ MaxConcurrent \in Nat
  BY CountTypes, NumberAssumption DEF BoundedOvershoot
<1>2. FinitelyMany'
  BY FinitelyStep
<1>3. /\ IsFiniteSet(E2) /\ IsFiniteSet(F2)
      /\ Cardinality(E2) \in Nat /\ Cardinality(F2) \in Nat
      /\ Cardinality(F2) <= Cardinality(Workers)
  <2>1. IsFiniteSet(E2)
    BY <1>2, FS_Subset DEF FinitelyMany, EnginePositions
  <2>2. F2 \subseteq Workers
    BY DEF InFlight
  <2> HIDE DEF F2
  <2>3. IsFiniteSet(F2) /\ Cardinality(F2) <= Cardinality(Workers)
    BY <2>2, FS_Subset, SetAssumption
  <2> QED BY <2>1, <2>3, FS_CardinalityType
<1>4. ASSUME NEW v \in Workers, EntryAdmitted(v)
      PROVE  Cardinality(E2) + Cardinality(F2) < MaxConcurrent + Cardinality(Workers)
  <2>1. tracked' = tracked /\ Cardinality(tracked) < MaxConcurrent
    BY <1>4 DEF EntryAdmitted, Admissible, positionVars
  <2>2. E2 \subseteq tracked
    BY <2>1 DEF EnginePositions
  <2> HIDE DEF E2, F2
  <2>3. Cardinality(E2) <= Cardinality(tracked) /\ Cardinality(tracked) \in Nat
    BY <2>2, FS_Subset, FS_CardinalityType DEF FinitelyMany
  <2> QED BY <1>1, <1>3, <2>1, <2>3
<1>5. ASSUME \A v \in Workers : ~EntryAdmitted(v)
      PROVE  Cardinality(E2) + Cardinality(F2) < MaxConcurrent + Cardinality(Workers)
  <2>1. F2 \subseteq F
    BY <1>5, InFlightStep DEF InFlight
  <2>2. CASE Shrinks
    <3>1. Cardinality(E2) <= Cardinality(E)
      BY <2>2, DescendsFacts DEF Shrinks, FinitelyMany
    <3> HIDE DEF E, E2, F, F2
    <3>2. Cardinality(F2) <= Cardinality(F)
      BY <1>1, <2>1, FS_Subset
    <3> QED BY <1>1, <1>3, <3>1, <3>2
  <2>3. CASE Restart
    <3>1. F2 = {} /\ E2 = EnginePositions(disk.tracked)
      BY <2>3, RestartIdle DEF InFlight, Admitted
    <3>2. Cardinality(E2) < MaxConcurrent + Cardinality(Workers)
      BY <3>1 DEF BoundedOvershoot
    <3> HIDE DEF E2, F2
    <3> QED BY <1>1, <1>3, <3>1, <3>2, FS_EmptySet
  <2>4. ASSUME NEW w \in Workers, Registers(w)
        PROVE  Cardinality(E2) + Cardinality(F2) < MaxConcurrent + Cardinality(Workers)
    <3>1. PICK n \in Position : tracked' = tracked \cup {n}
      BY <2>4, RegisterStep
    <3>2. E2 \subseteq E \cup {n}
      BY <3>1 DEF EnginePositions
    <3>3. F2 \subseteq F \ {w} /\ w \in F
      BY <2>1, <2>4, RegisterStep DEF InFlight
    <3> HIDE DEF E, E2, F, F2
    <3>4. IsFiniteSet(E \cup {n}) /\ Cardinality(E \cup {n}) <= Cardinality(E) + 1
      <4>1. /\ IsFiniteSet(E \cup {n})
            /\ Cardinality(E \cup {n}) = IF n \in E THEN Cardinality(E) ELSE Cardinality(E) + 1
        BY <1>1, FS_AddElement
      <4> QED BY <1>1, <4>1
    <3>5. Cardinality(E2) <= Cardinality(E \cup {n}) /\ Cardinality(E \cup {n}) \in Nat
      BY <3>2, <3>4, FS_Subset, FS_CardinalityType
    <3>6. IsFiniteSet(F \ {w}) /\ Cardinality(F \ {w}) = Cardinality(F) - 1
      BY <1>1, <3>3, FS_RemoveElement
    <3>7. Cardinality(F2) <= Cardinality(F \ {w})
      BY <3>3, <3>6, FS_Subset
    <3> QED BY <1>1, <1>3, <3>4, <3>5, <3>6, <3>7
  <2> QED BY <2>2, <2>3, <2>4, StepCases DEF FinitelyMany
<1> QED BY <1>4, <1>5 DEF Total

(* The bound on the overshoot is kept. *)
LEMMA BoundStep ==
    ASSUME TypeOK, FinitelyMany, BoundedOvershoot, [Next]_vars
    PROVE  BoundedOvershoot'
<1>1. Total(tracked', InFlight') < MaxConcurrent + Cardinality(Workers)
  BY TotalStep
<1>2. FinitelyMany'
  BY FinitelyStep
<1>3. IsFiniteSet(EnginePositions(tracked')) /\ IsFiniteSet(InFlight')
  <2>1. IsFiniteSet(EnginePositions(tracked'))
    BY <1>2, FS_Subset DEF FinitelyMany, EnginePositions
  <2>2. InFlight' \subseteq Workers
    BY DEF InFlight
  <2>3. ASSUME NEW F \in SUBSET Workers PROVE IsFiniteSet(F)
    BY FS_Subset, SetAssumption
  <2> QED BY <2>1, <2>2, <2>3
<1>4. Cardinality(EnginePositions(tracked')) \in Nat /\ Cardinality(InFlight') \in Nat
  BY <1>3, FS_CardinalityType
<1>5. Cardinality(EnginePositions(tracked')) < MaxConcurrent + Cardinality(Workers)
  BY <1>1, <1>4, CountTypes, NumberAssumption DEF Total
<1>6. disk' = disk \/ disk'.tracked = tracked'
  BY StepCases, RestartIdle, RegisterStep DEF Shrinks, FinitelyMany
<1>7. Cardinality(EnginePositions(disk'.tracked)) < MaxConcurrent + Cardinality(Workers)
  BY <1>5, <1>6 DEF BoundedOvershoot
<1> QED BY <1>1, <1>7 DEF BoundedOvershoot, Total

(* Every step keeps the inductive invariant. *)
LEMMA InvStep == EngineInv /\ [Next]_vars => EngineInv'
<1> SUFFICES ASSUME EngineInv, [Next]_vars PROVE EngineInv'
  OBVIOUS
<1>1. TypeOK' /\ SymbolLocked'
  BY TypeStep, LockedStep DEF EngineInv
<1>2. FinitelyMany' /\ PipelineClear'
  BY FinitelyStep, ClearStep DEF EngineInv
<1>3. OnePositionPerSymbol' /\ BoundedOvershoot'
  BY OneStep, BoundStep DEF EngineInv
<1> QED BY <1>1, <1>2, <1>3 DEF EngineInv

(* The inductive invariant holds initially. *)
LEMMA InvInit == Init => EngineInv
<1> SUFFICES ASSUME Init PROVE EngineInv
  OBVIOUS
<1>1. /\ EnginePositions(tracked) = {} /\ EnginePositions(disk.tracked) = {}
      /\ InFlight = {} /\ FinitelyMany
  BY FS_EmptySet DEF Init, EnginePositions, InFlight, Admitted, FinitelyMany
<1>2. BoundedOvershoot
  BY <1>1, CountTypes, FS_EmptySet, NumberAssumption DEF BoundedOvershoot
<1>3. OnePositionPerSymbol
  BY <1>1 DEF OnePositionPerSymbol, AtMostOnePerSymbol
<1>4. SymbolLocked /\ PipelineClear
  BY <1>1 DEF Init, SymbolLocked, PipelineClear
<1> QED BY <1>1, <1>2, <1>3, <1>4, InitType DEF EngineInv

(* The locks, the admissions and the positions are consistent in every
   reachable state. *)
THEOREM Invariant == Spec => []EngineInv
<1>1. Init => EngineInv
  BY InvInit
<1>2. EngineInv /\ [Next]_vars => EngineInv'
  BY InvStep
<1> QED BY <1>1, <1>2, PTL DEF Spec

(* The engine never holds two positions of its own in one symbol, in memory or
   in the saved state, with any number of workers racing for entries. *)
THEOREM OnePosition == Spec => []OnePositionPerSymbol
<1>1. EngineInv => OnePositionPerSymbol
  BY DEF EngineInv
<1> QED BY <1>1, Invariant, PTL

(* Workers racing past the concurrency check overshoot m_max_concurrent by less
   than the number of workers, counting the orders still on their way. *)
THEOREM Overshoot == Spec => []BoundedOvershoot
<1>1. EngineInv => BoundedOvershoot
  BY DEF EngineInv
<1> QED BY <1>1, Invariant, PTL

-----------------------------------------------------------------------------
(* The ledger: LedgerInv. *)

(* A take profit closes no more than there is. *)
LEMMA CloseQtyBound ==
    ASSUME NEW kind, NEW q \in Nat \ {0}
    PROVE  CloseQty(kind, q) \in 0..q
<1>1. (33 * q + 99) \div 100 \in 0..q
  OBVIOUS
<1>2. (q + 1) \div 2 \in 0..q
  OBVIOUS
<1> QED BY <1>1, <1>2 DEF CloseQty

(* What a close of quantity q of a position of the engine does to the books. *)
Closes(p, q) ==
    /\ p \in tracked /\ p.oid # Ext /\ q \in 0..p.qty
    /\ tracked' = (tracked \ {p}) \cup
                     (IF q = p.qty THEN {} ELSE {[p EXCEPT !.qty = @ - q]})
    /\ recorded' = [recorded EXCEPT ![p.oid] = @ + q]

(* Who closes: the callback, everything there is, or a worker that returns. *)
ClosesFor(p, q) ==
    /\ Closes(p, q)
    /\ \/ q = p.qty
       \/ \E w \in Workers : /\ pc[w] \notin {"idle", "lock"} /\ Finish(w)
                             /\ job[w].symbol = p.symbol

(* Nothing is recorded, and the engine has the positions it had, or those that a
   reconciliation left. *)
Quiet ==
    /\ recorded' = recorded
    /\ \/ EnginePositions(tracked') = EnginePositions(tracked)
       \/ Sync /\ EnginePositions(tracked') \subseteq Marked

Saved == disk' = disk \/ disk' = [tracked |-> tracked', recorded |-> recorded']

(* A settlement of an imported position is not recorded. *)
LEMMA SettleImported ==
    ASSUME TypeOK, NEW p \in tracked, p.oid = Ext, NEW q, NEW rest,
           \A r \in rest : r.oid = Ext, Settle(p, q, rest)
    PROVE  Quiet /\ Saved
BY DEF Settle, Save, Record, Quiet, Saved, EnginePositions

(* A settlement of everything, or of a part that leaves the rest. *)
LEMMA SettleCloses ==
    ASSUME TypeOK, NEW p \in tracked, p.oid # Ext, NEW q \in 0..p.qty, NEW rest,
           rest = IF q = p.qty THEN {} ELSE {[p EXCEPT !.qty = @ - q]},
           Settle(p, q, rest)
    PROVE  Closes(p, q) /\ Saved
BY DEF Settle, Save, Record, Closes, Saved

(* Settling a stop loss closes everything. *)
LEMMA SettleSLBooks ==
    ASSUME TypeOK, NEW w \in Workers, SettleSL(w)
    PROVE  Saved /\ (Quiet \/ \E p : Closes(p, p.qty))
<1>1. CASE AlreadyGone(w)
  BY <1>1 DEF AlreadyGone, positionVars, Quiet, Saved, EnginePositions
<1>2. ASSUME NEW p \in At(MatchKey(w)), Settle(p, p.qty, {})
      PROVE  Saved /\ (Quiet \/ Closes(p, p.qty))
  <2>1. p \in tracked /\ p.qty \in 0..p.qty
    BY DEF At, TypeOK, Position
  <2>2. CASE p.oid = Ext
    BY <1>2, <2>1, <2>2, SettleImported
  <2>3. CASE p.oid # Ext
    BY <1>2, <2>1, <2>3, SettleCloses
  <2> QED BY <2>2, <2>3
<1> QED BY <1>1, <1>2 DEF SettleSL

(* Settling a take profit closes a part of the quantity that was found, which
   is the quantity there is. *)
LEMMA SettleTPBooks ==
    ASSUME TypeOK, FoundCurrent, NEW w \in Workers, pc[w] \in Matched, SettleTP(w)
    PROVE  Saved /\ (Quiet \/ \E p, q : Closes(p, q) /\ p.symbol = job[w].symbol)
<1> DEFINE closed == CloseQty(job[w].kind, job[w].qty)
           rest(p) == IF job[w].kind = "TP3" THEN {} ELSE Reduce(p, closed)
<1>1. CASE AlreadyGone(w)
  BY <1>1 DEF AlreadyGone, positionVars, Quiet, Saved, EnginePositions
<1>2. ASSUME NEW p \in At(MatchKey(w)), Settle(p, closed, rest(p))
      PROVE  Saved /\ (Quiet \/ \E q : Closes(p, q) /\ p.symbol = job[w].symbol)
  <2>1. p \in tracked /\ p \in Position /\ p.symbol = job[w].symbol
    BY DEF At, TypeOK, KeyOf, Key, MatchKey
  <2>2. CASE p.oid = Ext
    <3>1. \A r \in rest(p) : r.oid = Ext
      BY <2>1, <2>2 DEF Reduce, Position
    <3> HIDE DEF rest
    <3> QED BY <1>2, <2>1, <2>2, <3>1, SettleImported
  <2>3. CASE p.oid # Ext
    <3>1. p.qty = job[w].qty /\ p.qty \in Nat \ {0}
      BY <2>1, <2>3 DEF FoundCurrent, EnginePositions, Position
    <3>2. closed \in 0..p.qty
      BY <3>1, CloseQtyBound
    <3>3. job[w].kind = "TP3" => closed = p.qty
      BY <3>1 DEF CloseQty
    <3>4. rest(p) = IF closed = p.qty THEN {} ELSE {[p EXCEPT !.qty = @ - closed]}
      <4> HIDE DEF closed
      <4> QED BY <3>1, <3>2, <3>3 DEF Reduce
    <3> HIDE DEF closed, rest
    <3>5. Closes(p, closed) /\ Saved
      BY <1>2, <2>1, <2>3, <3>2, <3>4, SettleCloses
    <3> QED BY <2>1, <3>5
  <2> QED BY <2>2, <2>3
<1> QED BY <1>1, <1>2 DEF SettleTP

(* Every step leaves the books alone, closes a position, registers one, or
   restarts from the saved books; and what it saves are the new books. *)
LEMMA BooksCases ==
    ASSUME TypeOK, FoundCurrent, [Next]_vars
    PROVE  /\ Saved \/ Restart
           /\ \/ Quiet \/ Restart
              \/ \E p, q : ClosesFor(p, q)
              \/ \E w \in Workers : Registers(w)
<1> DEFINE Good == /\ Saved
                   /\ Quiet \/ (\E p, q : ClosesFor(p, q)) \/ (\E w \in Workers : Registers(w))
<1> SUFFICES ASSUME ~Restart PROVE Good
  BY DEF Good
<1>0. UNCHANGED positionVars => Good
  BY DEF positionVars, Quiet, Saved, EnginePositions
<1>1. CASE UNCHANGED vars \/ WsIgnore \/ OpenedElsewhere \/ ClosedElsewhere \/ FallSilent
  BY <1>0, <1>1, SilentKeeps DEF vars, positionVars, WsIgnore, OpenedElsewhere, ClosedElsewhere
<1>2. ASSUME NEW w \in Workers,
             \/ EntryFiltered(w) \/ EntryBlocked(w) \/ EntryAdmitted(w) \/ Validate(w)
             \/ PlaceOrder(w) \/ OrderReply(w)
             \/ FindPosition(w) \/ NoPosition(w) \/ ReadIsReal(w) \/ CloseTP(w) \/ CloseSL(w)
      PROVE  Good
  <2> HIDE DEF Good
  <2>1. CASE \/ EntryFiltered(w) \/ EntryBlocked(w) \/ EntryAdmitted(w) \/ Validate(w)
             \/ PlaceOrder(w) \/ OrderReply(w)
    BY <1>0, <2>1 DEF EntryFiltered, EntryBlocked, EntryAdmitted, Validate,
       PlaceOrder, OrderReply
  <2>2. CASE FindPosition(w) \/ NoPosition(w) \/ ReadIsReal(w) \/ CloseTP(w) \/ CloseSL(w)
    BY <1>0, <2>2 DEF FindPosition, NoPosition, ReadIsReal, CloseTP, CloseSL
  <2> QED BY <1>2, <2>1, <2>2
<1>3. ASSUME NEW w \in Workers, Registers(w) PROVE Good
  BY <1>3, RegisterStep DEF Saved
<1>4. ASSUME NEW w \in Workers, PaperTP(w) \/ RecordTP(w) PROVE Good
  <2>1. pc[w] \in Matched /\ pc[w] \notin {"idle", "lock"} /\ SettleTP(w) /\ Finish(w)
    BY <1>4 DEF PaperTP, RecordTP, Matched
  <2>2. Saved /\ (Quiet \/ \E p, q : Closes(p, q) /\ p.symbol = job[w].symbol)
    BY <2>1, SettleTPBooks
  <2> QED BY <2>1, <2>2 DEF ClosesFor
<1>5. ASSUME NEW w \in Workers, PaperSL(w) \/ RecordSL(w) PROVE Good
  <2>1. Saved /\ (Quiet \/ \E p : Closes(p, p.qty))
    BY <1>5, SettleSLBooks DEF PaperSL, RecordSL
  <2> QED BY <2>1 DEF ClosesFor
<1>6. CASE WsClose
  <2>1. PICK p \in tracked : Settle(p, p.qty, {})
    BY <1>6 DEF WsClose, On
  <2>2. p.qty \in 0..p.qty
    BY DEF TypeOK, Position
  <2>3. CASE p.oid = Ext
    BY <2>1, <2>3, SettleImported
  <2>4. CASE p.oid # Ext
    BY <2>1, <2>2, <2>4, SettleCloses DEF ClosesFor
  <2> QED BY <2>3, <2>4
<1>7. CASE Sync
  <2>1. EnginePositions(tracked') \subseteq Marked
        /\ (disk' = disk \/ Save(tracked', recorded))
    BY <1>7, SyncTracked
  <2>2. recorded' = recorded
    BY <1>7 DEF Sync
  <2> QED BY <1>7, <2>1, <2>2 DEF Quiet, Saved, Save
<1>8. CASE PeriodicSave \/ \E w \in Workers : SaveEntry(w)
  BY <1>8 DEF PeriodicSave, SaveEntry, Save, Saved, Quiet, EnginePositions
<1> HIDE DEF Good
<1>9. ASSUME NEW w \in Workers, Receive(w) \/ Pipeline(w) PROVE Good
  <2>1. CASE Entry(w)
    BY <1>2, <1>3, <1>8, <2>1 DEF Entry, Registers
  <2>2. CASE Close(w)
    BY <1>2, <1>4, <1>5, <2>2 DEF Close
  <2>3. CASE Receive(w) \/ LockSymbol(w) \/ LockTimeout(w)
    BY <1>0, <2>3 DEF Receive, LockSymbol, LockTimeout
  <2> QED BY <1>9, <2>1, <2>2, <2>3 DEF Pipeline
<1> QED BY <1>1, <1>6, <1>7, <1>8, <1>9 DEF Next
(* The books after a step, whatever order ids X it took into use. *)
BooksKept(X) ==
    /\ LedgerOf(tracked', recorded')
    /\ DistinctOids(tracked')
    /\ \A o \in Oids \ X : Unused(o, tracked, recorded) => Unused(o, tracked', recorded')

(* An order id is not that of an imported position. *)
LEMMA OidsNotExt == Ext \notin Oids
BY DEF Ext, Oids

(* A marked position is a tracked one, but for being real. *)
LEMMA MarkedSame ==
    ASSUME TypeOK, NEW p \in Marked
    PROVE  \E q \in tracked : /\ p.oid = q.oid /\ p.symbol = q.symbol
                              /\ p.side = q.side /\ p.qty = q.qty
                              /\ p = [q EXCEPT !.real = @ \/ Held(q.symbol, q.side)]
BY DEF Marked, TypeOK, Position

(* Books that nobody touched are kept. *)
LEMMA QuietBooks ==
    ASSUME TypeOK, LedgerOf(tracked, recorded), DistinctOids(tracked), Quiet
    PROVE  BooksKept({})
<1> DEFINE Same(p, q) == p.oid = q.oid /\ p.qty = q.qty
<1>1. PICK f \in [EnginePositions(tracked') -> tracked] :
         /\ \A p \in EnginePositions(tracked') : Same(p, f[p])
         /\ \A p, q \in EnginePositions(tracked') : f[p] = f[q] => p = q
  <2>1. CASE EnginePositions(tracked') = EnginePositions(tracked)
    <3> DEFINE f == [p \in EnginePositions(tracked') |-> p]
    <3>1. /\ f \in [EnginePositions(tracked') -> tracked]
          /\ \A p \in EnginePositions(tracked') : Same(p, f[p])
          /\ \A p, q \in EnginePositions(tracked') : f[p] = f[q] => p = q
      BY <2>1 DEF EnginePositions
    <3> QED BY <3>1
  <2>2. CASE EnginePositions(tracked') \subseteq Marked
    <3> DEFINE Of(p, q) == q \in tracked /\ p.oid = q.oid /\ p.qty = q.qty
                              /\ p = [q EXCEPT !.real = @ \/ Held(q.symbol, q.side)]
               f == [p \in EnginePositions(tracked') |-> CHOOSE q : Of(p, q)]
    <3>1. \A p \in EnginePositions(tracked') : \E q : Of(p, q)
      BY <2>2, MarkedSame
    <3>2. \A p \in EnginePositions(tracked') : Of(p, f[p])
      BY <3>1
    <3> HIDE DEF f
    <3>3. f \in [EnginePositions(tracked') -> tracked]
      <4>1. DOMAIN f = EnginePositions(tracked') /\ f = [p \in DOMAIN f |-> f[p]]
        BY DEF f
      <4> QED BY <3>2, <4>1
    <3> QED BY <3>2, <3>3
  <2> QED BY <2>1, <2>2 DEF Quiet
<1>2. recorded' = recorded
  BY DEF Quiet
<1>3. \A p \in EnginePositions(tracked') : f[p] \in EnginePositions(tracked)
  BY <1>1 DEF EnginePositions
<1>4. LedgerOf(tracked', recorded')
  BY <1>1, <1>2, <1>3 DEF LedgerOf
<1>5. DistinctOids(tracked')
  BY <1>1, <1>3 DEF DistinctOids
<1>6. ASSUME NEW o \in Oids, Unused(o, tracked, recorded)
      PROVE  Unused(o, tracked', recorded')
  <2>1. ASSUME NEW p \in tracked', p.oid = o PROVE FALSE
    <3>1. p \in EnginePositions(tracked')
      BY <2>1, OidsNotExt DEF EnginePositions
    <3> QED BY <1>1, <1>6, <2>1, <3>1 DEF Unused
  <2> QED BY <1>2, <1>6, <2>1 DEF Unused
<1> QED BY <1>4, <1>5, <1>6 DEF BooksKept

(* What is recorded of a closed position and what is left of it still add up. *)
LEMMA ClosesBooks ==
    ASSUME TypeOK, LedgerOf(tracked, recorded), DistinctOids(tracked),
           NEW p, NEW q, Closes(p, q)
    PROVE  BooksKept({})
<1> DEFINE left == [p EXCEPT !.qty = @ - q]
<1>1. /\ p \in Position /\ p \in EnginePositions(tracked)
      /\ p.oid \in Oids /\ p.qty \in Nat \ {0} /\ q \in 0..p.qty
      /\ recorded[p.oid] \in Nat
  BY DEF Closes, TypeOK, EnginePositions, Position
<1>2. recorded' = [recorded EXCEPT ![p.oid] = recorded[p.oid] + q]
      /\ recorded \in [Oids -> Nat]
  BY DEF Closes, TypeOK
<1>3. left.oid = p.oid /\ left.qty = p.qty - q
  BY <1>1 DEF Position
<1>4. \A x \in tracked' : \/ x \in tracked /\ x # p
                          \/ q # p.qty /\ x = left
  BY DEF Closes
<1>5. recorded[p.oid] + p.qty = EntryQty
  BY <1>1 DEF LedgerOf
<1> HIDE DEF left
<1>6. ASSUME NEW x \in EnginePositions(tracked'), x # left
      PROVE  /\ x \in EnginePositions(tracked) /\ x.oid # p.oid
             /\ x.oid \in Oids
  BY <1>1, <1>4, <1>6 DEF EnginePositions, DistinctOids, TypeOK, Position
<1>7. LedgerOf(tracked', recorded')
  <2>1. ASSUME NEW x \in EnginePositions(tracked')
        PROVE  recorded'[x.oid] + x.qty = EntryQty
    <3>1. CASE x = left
      <4>1. recorded'[x.oid] = recorded[p.oid] + q /\ x.qty = p.qty - q
        BY <1>1, <1>2, <1>3, <3>1
      <4> QED BY <1>1, <1>5, <4>1
    <3>2. CASE x # left
      BY <1>2, <1>6, <3>2 DEF LedgerOf
    <3> QED BY <3>1, <3>2
  <2>2. ASSUME NEW o \in Oids PROVE recorded'[o] <= EntryQty
    <3>1. CASE o = p.oid
      <4>1. recorded'[o] = recorded[p.oid] + q
        BY <1>1, <1>2, <3>1
      <4> QED BY <1>1, <1>5, <4>1
    <3>2. CASE o # p.oid
      BY <1>2, <3>2 DEF LedgerOf
    <3> QED BY <3>1, <3>2
  <2> QED BY <2>1, <2>2 DEF LedgerOf
<1>8. DistinctOids(tracked')
  BY <1>3, <1>6 DEF DistinctOids
<1>9. ASSUME NEW o \in Oids, Unused(o, tracked, recorded)
      PROVE  Unused(o, tracked', recorded')
  <2>1. o # p.oid
    BY <1>9 DEF Unused, Closes
  <2> QED BY <1>2, <1>3, <1>4, <1>9, <2>1 DEF Unused
<1> QED BY <1>7, <1>8, <1>9 DEF BooksKept

(* A registration takes the order id of its worker into use, with nothing
   recorded of it. *)
LEMMA RegisterBooks ==
    ASSUME TypeOK, LedgerOf(tracked, recorded), OidsUsedOnce,
           NEW w \in Workers, Registers(w)
    PROVE  /\ BooksKept({job[w].oid}) /\ Saved
           /\ pc[w] \in Drawn /\ pc'[w] \notin Drawn
           /\ \E n : /\ tracked' = tracked \cup {n}
                     /\ n.symbol = job[w].symbol /\ n.oid = job[w].oid
<1>1. /\ pc[w] \in Drawn /\ recorded' = recorded /\ disk' = disk
      /\ \E real \in BOOLEAN : tracked' = tracked \cup {NewPosition(w, real)}
  BY DEF Registers, RegisterPaper, RegisterReal, Drawn
<1>2. PICK real \in BOOLEAN : tracked' = tracked \cup {NewPosition(w, real)}
  BY <1>1
<1>3. pc'[w] \notin Drawn
  BY DEF Registers, RegisterPaper, RegisterReal, Finish, Goto, TypeOK, Drawn
<1> DEFINE n == NewPosition(w, real)
<1>4. n.oid = job[w].oid /\ n.symbol = job[w].symbol /\ n.qty = EntryQty
  BY DEF NewPosition
<1>5. job[w].oid \in Oids /\ Unused(job[w].oid, tracked, recorded)
  BY <1>1 DEF OidsUsedOnce
<1> HIDE DEF n
<1>6. tracked' = tracked \cup {n}
  BY <1>2 DEF n
<1>7. LedgerOf(tracked', recorded')
  <2>1. ASSUME NEW x \in EnginePositions(tracked')
        PROVE  recorded'[x.oid] + x.qty = EntryQty
    <3>1. CASE x = n
      <4>1. recorded'[x.oid] = 0 /\ x.qty = EntryQty
        BY <1>1, <1>4, <1>5, <3>1 DEF Unused
      <4> QED BY <4>1, NumberAssumption
    <3>2. CASE x # n
      BY <1>1, <1>6, <3>2 DEF LedgerOf, EnginePositions
    <3> QED BY <3>1, <3>2
  <2> QED BY <1>1, <2>1 DEF LedgerOf
<1>8. DistinctOids(tracked')
  BY <1>4, <1>5, <1>6 DEF DistinctOids, OidsUsedOnce, Unused, EnginePositions
<1>9. \A o \in Oids \ {job[w].oid} :
         Unused(o, tracked, recorded) => Unused(o, tracked', recorded')
  BY <1>1, <1>4, <1>6 DEF Unused
<1> QED BY <1>1, <1>3, <1>4, <1>6, <1>7, <1>8, <1>9 DEF BooksKept, Saved
(* A draw hands out the next order id, and moves nobody else. *)
Draws(v) ==
    /\ nextOid \in Oids /\ nextOid' = nextOid + 1
    /\ job'[v].oid = nextOid
    /\ pc[v] \notin Drawn
    /\ \A u \in Workers \ {v} : pc'[u] = pc[u] /\ job'[u] = job[u]
    /\ UNCHANGED positionVars

(* A worker has an order id that it had before, or has just drawn it. *)
LEMMA DrawnStep ==
    ASSUME TypeOK, [Next]_vars, NEW v \in Workers, pc'[v] \in Drawn
    PROVE  \/ pc[v] \in Drawn /\ job'[v].oid = job[v].oid
           \/ Draws(v)
<1> DEFINE Good == \/ pc[v] \in Drawn /\ job'[v].oid = job[v].oid
                   \/ Draws(v)
<1>1. CASE UNCHANGED vars
  BY <1>1 DEF vars
<1>2. ASSUME NEW w \in Workers, Receive(w) \/ LockTimeout(w) \/ LockSymbol(w)
      PROVE  Good
  <2>1. pc'[w] \notin Drawn
    BY <1>2 DEF Receive, LockTimeout, LockSymbol, Goto, TypeOK, Drawn
  <2> QED BY <1>2, <2>1 DEF Receive, LockTimeout, LockSymbol, Goto, TypeOK
<1>3. ASSUME NEW w \in Workers, Entry(w) \/ Close(w), w # v
      PROVE  Good
  BY <1>3, PipelineShape DEF Finish, Goto, Stays, TypeOK
<1>4. ASSUME Entry(v) PROVE Good
  <2>0. pc[v] # "idle" /\ job[v] \in Job
    BY <1>4, PipelineShape, BusyHasJob
  <2>1. ASSUME Finish(v) PROVE FALSE
    BY <2>1 DEF Finish, Goto, TypeOK, Drawn
  <2>2. CASE Validate(v)
    <3>1. /\ job' = [job EXCEPT ![v].oid = nextOid]
          /\ \E label \in {"place", "paper"} : Goto(v, label)
      BY <2>1, <2>2 DEF Validate
    <3>2. job'[v].oid = nextOid
      BY <2>0, <3>1 DEF TypeOK, Job
    <3> QED BY <2>2, <3>1, <3>2 DEF Validate, Draws, Goto, TypeOK, Drawn
  <2>3. CASE PlaceOrder(v)
    BY <2>3 DEF PlaceOrder, Drawn
  <2>4. CASE OrderReply(v)
    <3>1. \/ job' = job
          \/ \E fill \in BOOLEAN :
                job' = [job EXCEPT ![v].attempt = 2, ![v].filled = @ \/ fill]
      BY <2>1, <2>4 DEF OrderReply
    <3>2. job'[v].oid = job[v].oid
      BY <2>0, <3>1 DEF TypeOK, Job
    <3> QED BY <2>4, <3>2 DEF OrderReply, Drawn
  <2>5. CASE EntryAdmitted(v) \/ RegisterReal(v)
    BY <2>5 DEF EntryAdmitted, RegisterReal, Goto, TypeOK, Drawn
  <2>6. CASE EntryFiltered(v) \/ EntryBlocked(v) \/ RegisterPaper(v) \/ SaveEntry(v)
    BY <2>1, <2>6 DEF EntryFiltered, EntryBlocked, RegisterPaper, SaveEntry
  <2> HIDE DEF Good
  <2>7. Entry(v) => Good
    BY <2>2, <2>3, <2>4, <2>5, <2>6 DEF Entry, Good
  <2> QED BY <1>4, <2>7
<1>5. ASSUME Close(v) PROVE FALSE
  <2>1. ASSUME NEW ok, NEW record \in {"tprecord", "slrecord"},
               AfterAttempt(v, ok, record), pc[v] \notin Drawn
        PROVE  FALSE
    BY <2>1 DEF AfterAttempt, Finish, Goto, TypeOK, Drawn
  <2>2. CASE CloseTP(v)
    BY <2>1, <2>2 DEF CloseTP, Drawn
  <2>3. CASE CloseSL(v)
    BY <2>1, <2>3 DEF CloseSL, Drawn
  <2>4. CASE NoPosition(v) \/ PaperTP(v) \/ PaperSL(v) \/ RecordTP(v) \/ RecordSL(v)
    BY <2>4 DEF NoPosition, PaperTP, PaperSL, RecordTP, RecordSL, Finish, Goto, TypeOK, Drawn
  <2>5. CASE FindPosition(v)
    BY <2>5 DEF FindPosition, Goto, TypeOK, Drawn
  <2>6. CASE ReadIsReal(v)
    BY <2>6 DEF ReadIsReal, Goto, TypeOK, Drawn
  <2> QED BY <1>5, <2>2, <2>3, <2>4, <2>5, <2>6 DEF Close
<1>6. ASSUME NEW w \in Workers, Receive(w) \/ Pipeline(w)
      PROVE  Good
  <2>1. CASE Entry(w) \/ Close(w)
    BY <1>3, <1>4, <1>5, <2>1
  <2> QED BY <1>2, <1>6, <2>1 DEF Pipeline
<1>7. CASE \/ WsClose \/ WsIgnore \/ Sync \/ PeriodicSave
           \/ OpenedElsewhere \/ ClosedElsewhere \/ FallSilent
  BY <1>7, SilentKeeps DEF WsClose, WsIgnore, Sync, PeriodicSave, OpenedElsewhere, ClosedElsewhere
<1>8. CASE Restart
  BY <1>8, RestartIdle DEF Drawn
<1> QED BY <1>1, <1>6, <1>7, <1>8 DEF Next

(* Order ids are only handed out upwards. *)
LEMMA NextOidGrows ==
    ASSUME TypeOK, [Next]_vars
    PROVE  nextOid \in Nat /\ nextOid' \in Nat /\ nextOid <= nextOid'
<1>0. nextOid \in Nat
  BY DEF TypeOK
<1>1. CASE UNCHANGED nextOid
  BY <1>0, <1>1
<1>2. ASSUME NEW w \in Workers, Validate(w)
      PROVE  nextOid' = nextOid + 1
  BY <1>2 DEF Validate
<1>3. ASSUME NEW w \in Workers, Entry(w), ~Validate(w) PROVE UNCHANGED nextOid
  BY <1>3 DEF Entry, EntryFiltered, EntryBlocked, EntryAdmitted, RegisterPaper, PlaceOrder,
     OrderReply, RegisterReal, SaveEntry, riskVars
<1>4. ASSUME NEW w \in Workers, Close(w) PROVE UNCHANGED nextOid
  BY <1>4 DEF Close, FindPosition, NoPosition, ReadIsReal, PaperTP, PaperSL,
     CloseTP, RecordTP, CloseSL, RecordSL, riskVars
<1>5. ASSUME NEW w \in Workers, Receive(w) \/ LockSymbol(w) \/ LockTimeout(w)
      PROVE  UNCHANGED nextOid
  BY <1>5 DEF Receive, LockSymbol, LockTimeout, riskVars
<1>6. ASSUME \/ UNCHANGED vars \/ WsClose \/ WsIgnore \/ Sync \/ PeriodicSave
             \/ OpenedElsewhere \/ ClosedElsewhere \/ FallSilent \/ Restart
      PROVE  UNCHANGED nextOid
  BY <1>6, SilentKeeps DEF vars, WsClose, WsIgnore, Sync, PeriodicSave, OpenedElsewhere,
     ClosedElsewhere, Restart, riskVars
<1>7. UNCHANGED nextOid \/ nextOid' = nextOid + 1
  BY <1>2, <1>3, <1>4, <1>5, <1>6 DEF Next, Pipeline
<1> QED BY <1>0, <1>7

(* Order ids are used once. *)
LEMMA OidsStep ==
    ASSUME TypeOK, FoundCurrent, LedgerExact, OidsUsedOnce, [Next]_vars
    PROVE  LedgerExact' /\ OidsUsedOnce'
<1>1. nextOid \in Nat /\ nextOid' \in Nat /\ nextOid <= nextOid'
  BY NextOidGrows
<1> DEFINE Fresh(T, R) == \A o \in Oids : o >= nextOid' => Unused(o, T, R)
<1>2. /\ LedgerOf(disk.tracked, disk.recorded) /\ DistinctOids(disk.tracked)
      /\ Fresh(disk.tracked, disk.recorded)
      /\ Fresh(tracked, recorded)
  BY <1>1 DEF LedgerExact, OidsUsedOnce, Oids
<1>3. \/ BooksKept({}) /\ ~(\E w \in Workers : Registers(w))
      \/ \E w \in Workers : Registers(w)
      \/ Restart
  BY BooksCases, QuietBooks, ClosesBooks DEF ClosesFor, LedgerExact, OidsUsedOnce
<1>4. /\ LedgerOf(tracked', recorded') /\ DistinctOids(tracked')
      /\ Fresh(tracked', recorded')
  <2>1. CASE BooksKept({})
    BY <1>2, <2>1 DEF BooksKept
  <2>2. CASE Restart
    BY <1>2, <2>2 DEF Restart
  <2>3. ASSUME NEW w \in Workers, Registers(w)
        PROVE  /\ LedgerOf(tracked', recorded') /\ DistinctOids(tracked')
               /\ Fresh(tracked', recorded')
    <3>1. BooksKept({job[w].oid}) /\ pc[w] \in Drawn
      BY <2>3, RegisterBooks DEF LedgerExact
    <3>2. job[w].oid \in Oids /\ job[w].oid < nextOid
      BY <3>1 DEF OidsUsedOnce
    <3>3. \A o \in Oids : o >= nextOid' => o \in Oids \ {job[w].oid}
      BY <1>1, <3>2 DEF Oids
    <3> QED BY <1>2, <3>1, <3>3 DEF BooksKept
  <2> QED BY <1>3, <2>1, <2>2, <2>3
<1>5. disk' = disk \/ disk' = [tracked |-> tracked', recorded |-> recorded']
  BY BooksCases, RestartIdle DEF Saved
<1>6. /\ LedgerOf(disk'.tracked, disk'.recorded) /\ DistinctOids(disk'.tracked)
      /\ Fresh(disk'.tracked, disk'.recorded)
  BY <1>2, <1>4, <1>5
<1> HIDE DEF Fresh
<1>7. ASSUME NEW v \in Workers, pc'[v] \in Drawn
      PROVE  /\ job'[v].oid \in Oids /\ job'[v].oid < nextOid'
             /\ Unused(job'[v].oid, tracked', recorded')
             /\ \A u \in Workers \ {v} : pc'[u] \in Drawn => job'[u].oid # job'[v].oid
  <2>1. \A u \in Workers : pc'[u] \in Drawn =>
              \/ pc[u] \in Drawn /\ job'[u].oid = job[u].oid
              \/ Draws(u)
    BY DrawnStep
  <2>2. \A u \in Workers : pc[u] \in Drawn => job[u].oid \in Oids /\ job[u].oid < nextOid
    BY DEF OidsUsedOnce
  <2>3. CASE pc[v] \in Drawn /\ job'[v].oid = job[v].oid
    <3>1. job'[v].oid \in Oids /\ job'[v].oid < nextOid'
      BY <1>1, <2>2, <2>3 DEF Oids
    <3>2. ASSUME NEW u \in Workers \ {v}, pc'[u] \in Drawn PROVE job'[u].oid # job'[v].oid
      <4>1. CASE pc[u] \in Drawn /\ job'[u].oid = job[u].oid
        BY <2>3, <4>1 DEF OidsUsedOnce
      <4>2. CASE Draws(u)
        BY <2>2, <2>3, <4>2 DEF Draws, Oids
      <4> QED BY <2>1, <3>2, <4>1, <4>2
    <3>3. Unused(job'[v].oid, tracked', recorded')
      <4>1. Unused(job[v].oid, tracked, recorded) /\ job[v].oid \in Oids
        BY <2>3 DEF OidsUsedOnce
      <4>2. CASE BooksKept({})
        BY <2>3, <4>1, <4>2 DEF BooksKept
      <4>3. ASSUME NEW w \in Workers, Registers(w)
            PROVE  Unused(job'[v].oid, tracked', recorded')
        <5>1. BooksKept({job[w].oid}) /\ pc[w] \in Drawn /\ pc'[w] \notin Drawn
          BY <4>3, RegisterBooks DEF LedgerExact
        <5>2. w # v /\ job[v].oid # job[w].oid
          BY <1>7, <2>3, <5>1 DEF OidsUsedOnce
        <5> QED BY <2>3, <4>1, <5>1, <5>2 DEF BooksKept
      <4>4. CASE Restart
        BY <1>7, <4>4, RestartIdle DEF Drawn
      <4> QED BY <1>3, <4>2, <4>3, <4>4
    <3> QED BY <3>1, <3>2, <3>3
  <2>4. CASE Draws(v)
    <3>1. /\ job'[v].oid = nextOid /\ nextOid \in Oids /\ nextOid' = nextOid + 1
          /\ tracked' = tracked /\ recorded' = recorded
      BY <2>4 DEF Draws, positionVars
    <3>2. Unused(nextOid, tracked, recorded)
      BY <1>1, <3>1 DEF OidsUsedOnce
    <3>3. ASSUME NEW u \in Workers \ {v}, pc'[u] \in Drawn PROVE job'[u].oid # job'[v].oid
      <4>1. pc[u] \in Drawn /\ job'[u] = job[u]
        BY <2>4, <3>3 DEF Draws
      <4> QED BY <1>1, <2>2, <3>1, <4>1
    <3> QED BY <1>1, <3>1, <3>2, <3>3
  <2> QED BY <1>7, <2>1, <2>3, <2>4
<1>8. LedgerExact'
  BY <1>4, <1>6 DEF LedgerExact
<1>9. OidsUsedOnce'
  BY <1>4, <1>6, <1>7 DEF OidsUsedOnce, Fresh
<1> QED BY <1>8, <1>9
(* find_by_symbol_side takes key and quantity from a position it finds. *)
Finds(v) ==
    /\ UNCHANGED positionVars
    /\ \E p \in tracked : job'[v].oid = p.oid /\ job'[v].qty = p.qty

(* A worker works with the position it had, or has just found it. *)
LEMMA MatchedStep ==
    ASSUME TypeOK, [Next]_vars, NEW v \in Workers, pc'[v] \in Matched
    PROVE  \/ /\ pc[v] \in Matched
              /\ MatchKey(v)' = MatchKey(v)
              /\ job'[v].symbol = job[v].symbol /\ job'[v].qty = job[v].qty
           \/ Finds(v)
<1> DEFINE Good == \/ /\ pc[v] \in Matched
                      /\ MatchKey(v)' = MatchKey(v)
                      /\ job'[v].symbol = job[v].symbol /\ job'[v].qty = job[v].qty
                   \/ Finds(v)
<1>0. ASSUME pc[v] \in Matched, job'[v] = job[v] PROVE Good
  BY <1>0 DEF MatchKey
<1>1. CASE UNCHANGED vars
  BY <1>0, <1>1 DEF vars
<1>2. ASSUME NEW w \in Workers, Receive(w) \/ LockTimeout(w) \/ LockSymbol(w)
      PROVE  Good
  <2>1. pc'[w] \notin Matched
    BY <1>2 DEF Receive, LockTimeout, LockSymbol, Goto, TypeOK, Matched
  <2>2. pc[v] \in Matched /\ job'[v] = job[v]
    BY <1>2, <2>1 DEF Receive, LockTimeout, LockSymbol, Goto, TypeOK
  <2> QED BY <1>0, <2>2
<1>3. ASSUME NEW w \in Workers, Entry(w) \/ Close(w), w # v
      PROVE  Good
  <2>0. Finish(w) \/ Stays(w)
    BY <1>3, PipelineShape
  <2>1. pc[v] \in Matched /\ job'[v] = job[v]
    BY <1>3, <2>0 DEF Finish, Goto, Stays, TypeOK
  <2> QED BY <1>0, <2>1
<1>4. ASSUME Entry(v) PROVE FALSE
  <2>1. ASSUME Finish(v) PROVE FALSE
    BY <2>1 DEF Finish, Goto, TypeOK, Matched
  <2>2. CASE EntryFiltered(v) \/ EntryBlocked(v) \/ RegisterPaper(v) \/ SaveEntry(v)
    BY <2>1, <2>2 DEF EntryFiltered, EntryBlocked, RegisterPaper, SaveEntry
  <2>3. CASE EntryAdmitted(v) \/ RegisterReal(v) \/ PlaceOrder(v)
    BY <2>3 DEF EntryAdmitted, RegisterReal, PlaceOrder, Goto, TypeOK, Matched
  <2>4. CASE Validate(v)
    BY <2>1, <2>4 DEF Validate, Goto, TypeOK, Matched
  <2>5. CASE OrderReply(v)
    BY <2>1, <2>5 DEF OrderReply, Goto, TypeOK, Matched
  <2> QED BY <1>4, <2>2, <2>3, <2>4, <2>5 DEF Entry
<1>5. ASSUME Close(v) PROVE Good
  <2>0. pc[v] # "idle" /\ job[v] \in Job
    BY <1>5, PipelineShape, BusyHasJob
  <2>1. ASSUME Finish(v) PROVE FALSE
    BY <2>1 DEF Finish, Goto, TypeOK, Matched
  <2>2. CASE FindPosition(v)
    <3>1. PICK p \in tracked : job' = [job EXCEPT ![v].oid = p.oid, ![v].qty = p.qty]
      BY <2>2 DEF FindPosition, On
    <3>2. job'[v].oid = p.oid /\ job'[v].qty = p.qty
      BY <2>0, <3>1 DEF TypeOK, Job
    <3> QED BY <2>2, <3>2 DEF FindPosition, Finds
  <2>3. CASE ReadIsReal(v)
    <3>1. pc[v] \in Matched /\ job'[v] = job[v]
      BY <2>3 DEF ReadIsReal, Matched
    <3> QED BY <1>0, <3>1
  <2>4. CASE CloseTP(v)
    <3>1. job' = job \/ job' = [job EXCEPT ![v].attempt = @ + 1]
      BY <2>1, <2>4 DEF CloseTP, AfterAttempt
    <3>2. /\ job'[v].oid = job[v].oid /\ job'[v].symbol = job[v].symbol
          /\ job'[v].side = job[v].side /\ job'[v].qty = job[v].qty
      BY <2>0, <3>1 DEF TypeOK, Job
    <3> QED BY <2>4, <3>2 DEF CloseTP, Matched, MatchKey, Key
  <2>5. CASE CloseSL(v)
    BY <2>1, <2>5 DEF CloseSL, AfterAttempt, Goto, TypeOK, Matched
  <2>6. CASE NoPosition(v) \/ PaperTP(v) \/ PaperSL(v) \/ RecordTP(v) \/ RecordSL(v)
    BY <2>1, <2>6 DEF NoPosition, PaperTP, PaperSL, RecordTP, RecordSL
  <2> HIDE DEF Good
  <2>7. Close(v) => Good
    BY <2>2, <2>3, <2>4, <2>5, <2>6 DEF Close, Good
  <2> QED BY <1>5, <2>7
<1>6. ASSUME NEW w \in Workers, Receive(w) \/ Pipeline(w)
      PROVE  Good
  <2>1. CASE Entry(w) \/ Close(w)
    BY <1>3, <1>4, <1>5, <2>1
  <2> QED BY <1>2, <1>6, <2>1 DEF Pipeline
<1>7. CASE \/ WsClose \/ WsIgnore \/ Sync \/ PeriodicSave
           \/ OpenedElsewhere \/ ClosedElsewhere \/ FallSilent
  <2>1. pc[v] \in Matched /\ job'[v] = job[v]
    BY <1>7, SilentKeeps DEF WsClose, WsIgnore, Sync, PeriodicSave, OpenedElsewhere, ClosedElsewhere
  <2> QED BY <1>0, <2>1
<1>8. CASE Restart
  BY <1>8, RestartIdle DEF Matched
<1> QED BY <1>1, <1>6, <1>7, <1>8 DEF Next

(* The quantity that was found stays the current one. *)
LEMMA FoundStep ==
    ASSUME TypeOK, SymbolLocked, LedgerExact, OidsUsedOnce, FoundCurrent, [Next]_vars
    PROVE  FoundCurrent'
<1> SUFFICES ASSUME NEW v \in Workers, pc'[v] \in Matched,
                    NEW p \in tracked', KeyOf(p) = MatchKey(v)', p.oid # Ext
             PROVE  p.qty = job'[v].qty
  BY DEF FoundCurrent, EnginePositions, At
<1>1. CASE Finds(v)
  <2>1. PICK x \in tracked : job'[v].oid = x.oid /\ job'[v].qty = x.qty
    BY <1>1 DEF Finds
  <2>2. p \in tracked /\ p.oid = x.oid
    BY <1>1, <2>1 DEF Finds, positionVars, KeyOf, MatchKey, Key
  <2> QED BY <2>1, <2>2 DEF OidsUsedOnce, DistinctOids, EnginePositions
<1>2. CASE /\ pc[v] \in Matched
           /\ MatchKey(v)' = MatchKey(v)
           /\ job'[v].symbol = job[v].symbol /\ job'[v].qty = job[v].qty
  <2>1. ASSUME NEW x \in tracked, KeyOf(x) = KeyOf(p) PROVE x.qty = job'[v].qty
    <3>1. x.oid # Ext
      BY <2>1 DEF KeyOf, Key
    <3> QED BY <1>2, <2>1, <3>1 DEF FoundCurrent, EnginePositions, At
  <2>2. CASE p \in tracked
    BY <2>1, <2>2
  <2>3. CASE p \in Marked
    <3>1. PICK x \in tracked : /\ p.oid = x.oid /\ p.symbol = x.symbol
                               /\ p.side = x.side /\ p.qty = x.qty
      BY <2>3, MarkedSame
    <3> QED BY <2>1, <3>1 DEF KeyOf
  <2>4. owner[job[v].symbol] = v /\ p.symbol = job[v].symbol
    BY <1>2 DEF SymbolLocked, Matched, KeyOf, MatchKey, Key
  <2>5. ASSUME NEW x, NEW q, ClosesFor(x, q), p \notin tracked PROVE FALSE
    <3>1. q # x.qty /\ p = [x EXCEPT !.qty = @ - q] /\ x \in tracked
      BY <2>5 DEF ClosesFor, Closes
    <3>2. p.symbol = x.symbol
      BY <3>1 DEF TypeOK, Position
    <3>3. PICK w \in Workers : /\ pc[w] \notin {"idle", "lock"} /\ Finish(w)
                               /\ job[w].symbol = x.symbol
      BY <2>5, <3>1 DEF ClosesFor
    <3>4. w # v
      BY <3>3 DEF Finish, Goto, TypeOK, Matched
    <3>5. owner[job[w].symbol] = w
      BY <3>3 DEF SymbolLocked
    <3> QED BY <2>4, <3>2, <3>3, <3>4, <3>5
  <2>6. ASSUME NEW w \in Workers, Registers(w), p \notin tracked PROVE FALSE
    <3>1. PICK n : tracked' = tracked \cup {n} /\ n.symbol = job[w].symbol
      BY <2>6, RegisterBooks DEF LedgerExact
    <3>2. pc[w] \in Drawn
      BY <2>6, RegisterBooks DEF LedgerExact
    <3>3. owner[job[w].symbol] = w /\ w # v
      BY <1>2, <3>2 DEF SymbolLocked, Drawn, Matched
    <3> QED BY <2>4, <2>6, <3>1, <3>3
  <2>7. ASSUME Quiet PROVE p \in tracked \/ p \in Marked
    BY <2>7 DEF Quiet, EnginePositions
  <2>8. ~Restart
    BY RestartIdle DEF Matched
  <2> QED BY <2>2, <2>3, <2>5, <2>6, <2>7, <2>8, BooksCases
<1> QED BY <1>1, <1>2, MatchedStep

(* The books balance initially. *)
LEMMA LedgerInit == Init => LedgerInv
<1> SUFFICES ASSUME Init PROVE LedgerInv
  OBVIOUS
<1>1. LedgerExact
  BY NumberAssumption DEF Init, LedgerExact, LedgerOf, EnginePositions
<1>2. OidsUsedOnce
  BY DEF Init, OidsUsedOnce, Unused, DistinctOids, EnginePositions, Drawn
<1>3. FoundCurrent
  BY DEF Init, FoundCurrent, Matched
<1> QED BY <1>1, <1>2, <1>3, InvInit DEF LedgerInv

(* Every step keeps the books balanced. *)
LEMMA LedgerStep == LedgerInv /\ [Next]_vars => LedgerInv'
<1> SUFFICES ASSUME LedgerInv, [Next]_vars PROVE LedgerInv'
  OBVIOUS
<1>1. TypeOK /\ SymbolLocked
  BY DEF LedgerInv, EngineInv
<1>2. EngineInv'
  BY InvStep DEF LedgerInv
<1>3. LedgerExact' /\ OidsUsedOnce' /\ FoundCurrent'
  BY <1>1, OidsStep, FoundStep DEF LedgerInv
<1> QED BY <1>2, <1>3 DEF LedgerInv

(* Positions, order ids and ledger agree in every reachable state, in memory and
   on disk. *)
THEOREM LedgerInvariant == Spec => []LedgerInv
<1>1. Init => LedgerInv
  BY LedgerInit
<1>2. LedgerInv /\ [Next]_vars => LedgerInv'
  BY LedgerStep
<1> QED BY <1>1, <1>2, PTL DEF Spec

(* No close is recorded twice: of a position that is still tracked, what
   m_trades records and what is left add up to what was opened, and of no order
   more is recorded than was opened, in memory and in the saved state. *)
THEOREM LedgerKept == Spec => []LedgerExact
<1>1. LedgerInv => LedgerExact
  BY DEF LedgerInv
<1> QED BY <1>1, LedgerInvariant, PTL

(* What a reconciliation removes of the engine's is not held on the exchange. *)
LEMMA SyncDrops ==
    ASSUME TypeOK, Sync, NEW p \in EnginePositions(tracked), Held(p.symbol, p.side)
    PROVE  \E q \in EnginePositions(tracked') : q.oid = p.oid
<1> DEFINE m == [p EXCEPT !.real = @ \/ Held(p.symbol, p.side)]
<1>1. p \in Position /\ p.oid # Ext
  BY DEF EnginePositions, TypeOK
<1>2. /\ m \in Marked /\ m.oid = p.oid /\ m.real
      /\ m.symbol = p.symbol /\ m.side = p.side
  BY <1>1 DEF Marked, EnginePositions, Position
<1> HIDE DEF m
<1>3. PICK seen \in SUBSET Marked : \E expired \in SUBSET (MayExpire \cap seen) :
         tracked' = Stay(seen, expired) \cup Missing(seen, expired)
  BY DEF Sync
<1>4. PICK expired \in SUBSET (MayExpire \cap seen) :
         tracked' = Stay(seen, expired) \cup Missing(seen, expired)
  BY <1>3
<1>5. m \notin Removed(seen, expired)
  BY <1>2, <1>4 DEF Removed, Lost, MayExpire
<1>6. \A r \in Rekeyed(seen) : KeyOf(m) # KeyOf(r)
  BY <1>1, <1>2 DEF Rekeyed, Imported, KeyOf, Key
<1>7. m \in tracked'
  BY <1>2, <1>4, <1>5, <1>6 DEF Stay
<1> QED BY <1>1, <1>2, <1>7 DEF EnginePositions

(* A close leaves the rest of its position, or has recorded all of it. *)
LEMMA ClosesAll ==
    ASSUME TypeOK, LedgerExact, NEW p, NEW q, Closes(p, q), NEW x \in EnginePositions(tracked)
    PROVE  \/ \E y \in EnginePositions(tracked') : y.oid = x.oid
           \/ recorded'[x.oid] = EntryQty
<1>1. p \in Position /\ p.oid \in Oids /\ p.oid # Ext /\ p \in EnginePositions(tracked)
  BY DEF Closes, TypeOK, Position, EnginePositions
<1>2. CASE x # p
  BY <1>2 DEF Closes, EnginePositions
<1>3. CASE x = p /\ q # p.qty
  <2>1. [p EXCEPT !.qty = @ - q].oid = p.oid
    BY <1>1 DEF Position
  <2>2. [p EXCEPT !.qty = @ - q] \in tracked'
    BY <1>3 DEF Closes
  <2> QED BY <1>1, <1>3, <2>1, <2>2 DEF EnginePositions
<1>4. CASE x = p /\ q = p.qty
  <2>1. recorded[p.oid] + p.qty = EntryQty
    BY <1>1 DEF LedgerExact, LedgerOf
  <2>2. recorded'[p.oid] = recorded[p.oid] + p.qty
    BY <1>1, <1>4 DEF Closes, TypeOK
  <2> QED BY <1>4, <2>1, <2>2
<1> QED BY <1>2, <1>3, <1>4

(* No close is lost: a position of the engine disappears only when all of it is
   recorded, or in a reconciliation that finds nothing of it on the exchange,
   or in a crash. *)
THEOREM ClosesBooked == Spec => RemovedOnlyBooked
<1> DEFINE Kept(p) == \/ \E q \in EnginePositions(tracked') : q.oid = p.oid
                      \/ recorded'[p.oid] = EntryQty
                      \/ Sync /\ ~Held(p.symbol, p.side)
                      \/ Restart
<1>1. ASSUME LedgerInv, [Next]_vars, NEW p \in EnginePositions(tracked) PROVE Kept(p)
  <2>1. TypeOK /\ FoundCurrent /\ LedgerExact
    BY <1>1 DEF LedgerInv, EngineInv
  <2>2. \/ Quiet \/ Restart
        \/ \E x, q : ClosesFor(x, q)
        \/ \E w \in Workers : Registers(w)
    BY <1>1, <2>1, BooksCases
  <2>3. CASE Quiet
    BY <2>1, <2>3, SyncDrops DEF Quiet
  <2>4. ASSUME NEW x, NEW q, ClosesFor(x, q) PROVE Kept(p)
    BY <2>1, <2>4, ClosesAll DEF ClosesFor
  <2>5. ASSUME NEW w \in Workers, Registers(w) PROVE Kept(p)
    BY <2>1, <2>5, RegisterStep DEF EnginePositions
  <2> QED BY <2>2, <2>3, <2>4, <2>5
<1>2. LedgerInv /\ [Next]_vars => [\A p \in EnginePositions(tracked) : Kept(p)]_vars
  BY <1>1
<1> QED BY <1>2, LedgerInvariant, PTL DEF Spec, RemovedOnlyBooked

-----------------------------------------------------------------------------
(* Order calls on the wire. *)

Sent == {w \in Workers : pc[w] = "sent"}

(* Only placing an order and its reply change who waits for one. *)
LEMMA SentStep ==
    ASSUME TypeOK, [Next]_vars
    PROVE  \/ openOrders' = openOrders /\ Sent' = Sent
           \/ \E w \in Workers \ Sent : openOrders' = openOrders + 1 /\ Sent' = Sent \cup {w}
           \/ \E w \in Sent : openOrders' = openOrders - 1 /\ Sent' = Sent \ {w}
           \/ openOrders' = 0 /\ Sent' = {}
<1> DEFINE Same == openOrders' = openOrders /\ Sent' = Sent
<1>0. ASSUME openOrders' = openOrders, NEW w \in Workers,
             pc[w] # "sent", pc'[w] # "sent",
             \A v \in Workers \ {w} : pc'[v] = pc[v]
      PROVE  Same
  BY <1>0 DEF Sent
<1>1. ASSUME openOrders' = openOrders, pc' = pc PROVE Same
  BY <1>1 DEF Sent
<1>2. ASSUME \/ UNCHANGED vars \/ WsClose \/ WsIgnore \/ Sync \/ PeriodicSave
             \/ OpenedElsewhere \/ ClosedElsewhere \/ FallSilent
      PROVE  Same
  <2> HIDE DEF Same
  <2> QED BY <1>1, <1>2, SilentKeeps DEF vars, WsClose, WsIgnore, Sync, PeriodicSave, OpenedElsewhere,
             ClosedElsewhere, riskVars
<1>3. ASSUME NEW w \in Workers, Receive(w) \/ LockSymbol(w) \/ LockTimeout(w)
      PROVE  Same
  <2>1. /\ openOrders' = openOrders /\ pc[w] # "sent" /\ pc'[w] # "sent"
        /\ \A v \in Workers \ {w} : pc'[v] = pc[v]
    BY <1>3 DEF Receive, LockSymbol, LockTimeout, Goto, TypeOK, riskVars
  <2> QED BY <1>0, <2>1
<1>4. ASSUME NEW w \in Workers, NEW label, Goto(w, label) \/ Finish(w)
      PROVE  \A v \in Workers \ {w} : pc'[v] = pc[v]
  BY <1>4 DEF Goto, Finish, TypeOK
<1>5. ASSUME NEW w \in Workers, Finish(w) PROVE pc'[w] # "sent"
  BY <1>5 DEF Goto, Finish, TypeOK
<1>6. ASSUME NEW w \in Workers, NEW label, Goto(w, label) PROVE pc'[w] = label
  BY <1>6 DEF Goto, TypeOK
<1>7. ASSUME NEW w \in Workers,
             \/ EntryFiltered(w) \/ EntryBlocked(w) \/ EntryAdmitted(w) \/ Validate(w)
             \/ RegisterPaper(w) \/ RegisterReal(w) \/ SaveEntry(w)
      PROVE  Same
  <2>1. openOrders' = openOrders /\ pc[w] # "sent"
    BY <1>7 DEF EntryFiltered, EntryBlocked, EntryAdmitted, Validate, RegisterPaper,
       RegisterReal, SaveEntry, riskVars
  <2>2. Finish(w) \/ \E label \in {"validate", "place", "paper", "save"} : Goto(w, label)
    BY <1>7 DEF EntryFiltered, EntryBlocked, EntryAdmitted, Validate, RegisterPaper,
       RegisterReal, SaveEntry
  <2>3. pc'[w] # "sent" /\ \A v \in Workers \ {w} : pc'[v] = pc[v]
    BY <1>4, <1>5, <1>6, <2>2
  <2> QED BY <1>0, <2>1, <2>3
<1>8. ASSUME NEW w \in Workers, Close(w) PROVE Same
  <2>1. openOrders' = openOrders /\ pc[w] # "sent"
    BY <1>8 DEF Close, FindPosition, NoPosition, ReadIsReal, PaperTP, PaperSL,
       CloseTP, RecordTP, CloseSL, RecordSL, riskVars
  <2>2. CASE FindPosition(w) \/ ReadIsReal(w)
    <3>1. \E label \in Labels \ {"sent"} : Goto(w, label)
      BY <2>2 DEF FindPosition, ReadIsReal, Labels
    <3> QED BY <1>0, <1>4, <1>6, <2>1, <3>1
  <2>3. CASE NoPosition(w) \/ PaperTP(w) \/ PaperSL(w) \/ RecordTP(w) \/ RecordSL(w)
    <3>1. Finish(w)
      BY <2>3 DEF NoPosition, PaperTP, PaperSL, RecordTP, RecordSL
    <3> QED BY <1>0, <1>4, <1>5, <2>1, <3>1
  <2>4. CASE CloseTP(w) \/ CloseSL(w)
    <3>1. PICK ok \in BOOLEAN, record \in {"tprecord", "slrecord"} :
             AfterAttempt(w, ok, record)
      BY <2>4 DEF CloseTP, CloseSL
    <3>2. Goto(w, record) \/ pc' = pc \/ Finish(w)
      BY <3>1 DEF AfterAttempt
    <3> HIDE DEF Same
    <3>3. CASE Goto(w, record) \/ Finish(w)
      <4>1. pc'[w] # "sent" /\ \A v \in Workers \ {w} : pc'[v] = pc[v]
        BY <1>4, <1>5, <1>6, <3>3
      <4> QED BY <1>0, <2>1, <4>1 DEF Same
    <3> QED BY <1>1, <2>1, <3>2, <3>3 DEF Same
  <2> QED BY <1>8, <2>2, <2>3, <2>4 DEF Close
<1>9. ASSUME NEW w \in Workers, PlaceOrder(w)
      PROVE  w \in Workers \ Sent /\ openOrders' = openOrders + 1 /\ Sent' = Sent \cup {w}
  BY <1>9 DEF PlaceOrder, Goto, TypeOK, Sent
<1>10. ASSUME NEW w \in Workers, OrderReply(w)
       PROVE  w \in Sent /\ openOrders' = openOrders - 1 /\ Sent' = Sent \ {w}
  <2>1. Finish(w) \/ \E label \in {"register", "place"} : Goto(w, label)
    BY <1>10 DEF OrderReply
  <2>2. pc'[w] # "sent" /\ \A v \in Workers \ {w} : pc'[v] = pc[v]
    BY <1>4, <1>5, <1>6, <2>1
  <2> QED BY <1>10, <2>2 DEF OrderReply, Sent
<1>11. CASE Restart
  <2>1. openOrders' = 0 /\ \A w \in Workers : pc'[w] # "sent"
    BY <1>11 DEF Restart
  <2> QED BY <2>1 DEF Sent
<1> HIDE DEF Same
<1>12. ASSUME NEW w \in Workers, Receive(w) \/ Pipeline(w)
       PROVE  \/ Same
              \/ \E x \in Workers \ Sent :
                    openOrders' = openOrders + 1 /\ Sent' = Sent \cup {x}
              \/ \E x \in Sent : openOrders' = openOrders - 1 /\ Sent' = Sent \ {x}
  BY <1>3, <1>7, <1>8, <1>9, <1>10, <1>12 DEF Pipeline, Entry
<1>13. Same \/ ~Same
  OBVIOUS
<1>14. Same => openOrders' = openOrders /\ Sent' = Sent
  BY DEF Same
<1> QED BY <1>2, <1>11, <1>12, <1>14 DEF Next

(* Each order call takes one open order and gives it back. *)
LEMMA OrdersStep ==
    ASSUME TypeOK, OrdersCounted, [Next]_vars
    PROVE  OrdersCounted'
<1>1. openOrders = Cardinality(Sent)
  BY DEF OrdersCounted, Sent
<1>2. IsFiniteSet(Sent) /\ Cardinality(Sent) \in Nat
  BY FS_Subset, FS_CardinalityType, SetAssumption DEF Sent
<1>3. ASSUME NEW w \in Workers \ Sent, Sent' = Sent \cup {w}, openOrders' = openOrders + 1
      PROVE  openOrders' = Cardinality(Sent')
  <2>1. Cardinality(Sent \cup {w}) = Cardinality(Sent) + 1
    BY <1>2, <1>3, FS_AddElement
  <2> QED BY <1>1, <1>3, <2>1
<1>4. ASSUME NEW w \in Sent, Sent' = Sent \ {w}, openOrders' = openOrders - 1
      PROVE  openOrders' = Cardinality(Sent')
  <2>1. Cardinality(Sent \ {w}) = Cardinality(Sent) - 1
    BY <1>2, <1>4, FS_RemoveElement
  <2> QED BY <1>1, <1>4, <2>1
<1>5. openOrders' = Cardinality(Sent')
  BY <1>1, <1>3, <1>4, SentStep, FS_EmptySet
<1> QED BY <1>5 DEF OrdersCounted, Sent

(* m_open_orders is the number of order calls on the wire in every reachable
   state, the retry of a lost reply included, so it never drifts away from the
   limit validate compares it with. *)
THEOREM OrdersAccounted == Spec => []OrdersCounted
<1>1. Init => OrdersCounted
  <2>1. Init => openOrders = 0 /\ {w \in Workers : pc[w] = "sent"} = {}
    BY DEF Init
  <2> QED BY <2>1, FS_EmptySet DEF OrdersCounted
<1>2. TypeOK /\ OrdersCounted /\ [Next]_vars => OrdersCounted'
  BY OrdersStep
<1> QED BY <1>1, <1>2, TypeCorrect, PTL DEF Spec
-----------------------------------------------------------------------------
(* Action properties: the reconciliation and the stop loss. *)

(* Whatever the iteration saw, what is held is tracked and real afterwards. *)
LEMMA SyncCovers ==
    ASSUME TypeOK, Sync, NEW s \in Symbols, NEW d \in Sides, Held(s, d)
    PROVE  \E p \in On(tracked', s, d) : p.real
<1>1. PICK seen \in SUBSET Marked, expired \in SUBSET MayExpire :
         tracked' = Stay(seen, expired) \cup Missing(seen, expired)
  BY DEF Sync
<1> DEFINE x == <<s, d>>
<1>2. /\ Imported(x).symbol = s /\ Imported(x).side = d /\ Imported(x).real
      /\ x[1] = s /\ x[2] = d
  BY DEF Imported
<1>3. CASE s \in Turned(seen)
  <2>1. x \in HeldSides(Turned(seen))
    BY <1>3 DEF HeldSides
  <2>2. Imported(x) \in tracked'
    BY <1>1, <2>1 DEF Rekeyed, Stay
  <2> QED BY <1>2, <2>2 DEF On
<1>4. CASE s \notin Turned(seen) /\ On(Stay(seen, expired), s, d) = {}
  <2>1. x \in HeldSides(Symbols \ Turned(seen))
    BY <1>4 DEF HeldSides
  <2>2. Imported(x) \in tracked'
    BY <1>1, <1>2, <1>4, <2>1 DEF Missing
  <2> QED BY <1>2, <2>2 DEF On
<1>5. CASE On(Stay(seen, expired), s, d) # {}
  <2>1. PICK p \in Stay(seen, expired) : p.symbol = s /\ p.side = d
    BY <1>5 DEF On
  <2>2. CASE p \in Rekeyed(seen)
    BY <1>1, <2>1, <2>2 DEF Rekeyed, Imported, On
  <2>3. CASE p \in Marked
    <3>1. PICK q \in tracked : /\ p.symbol = q.symbol /\ p.side = q.side
                               /\ p = [q EXCEPT !.real = @ \/ Held(q.symbol, q.side)]
      BY <2>3, MarkedSame
    <3>2. p.real
      BY <2>1, <3>1 DEF TypeOK, Position
    <3> QED BY <1>1, <2>1, <3>2 DEF On
  <2> QED BY <2>1, <2>2, <2>3 DEF Stay
<1> QED BY <1>3, <1>4, <1>5

(* After every reconciliation what the exchange holds is tracked as real,
   whatever was imported, changed side or was missed by the iteration. *)
THEOREM SyncCovered == Spec => SyncCoversExchange
<1>1. TypeOK =>
        [Sync => \A s \in Symbols, d \in Sides :
                    Held(s, d) => \E p \in On(tracked', s, d) : p.real]_vars
  BY SyncCovers
<1> QED BY <1>1, TypeCorrect, PTL DEF SyncCoversExchange

(* With no position changing side the iteration sees every position, so the
   ghosts are removed. *)
LEMMA SyncCleans ==
    ASSUME TypeOK, Sync, Flipped = {}, NEW p \in tracked', p.real
    PROVE  Held(p.symbol, p.side)
<1>1. PICK seen \in SUBSET Marked, expired \in SUBSET MayExpire :
         /\ Missed(seen)
         /\ tracked' = Stay(seen, expired) \cup Missing(seen, expired)
  BY DEF Sync
<1>2. seen = Marked /\ Rekeyed(seen) = {}
  BY <1>1 DEF Missed, Rekeyed, HeldSides, Turned
<1>3. CASE p \in Missing(seen, expired)
  BY <1>3 DEF Missing, HeldSides, Imported
<1>4. CASE p \in Stay(seen, expired)
  <2>1. p \in Marked /\ p \notin Lost
    BY <1>2, <1>4 DEF Stay, Removed
  <2> QED BY <2>1 DEF Lost
<1> QED BY <1>1, <1>3, <1>4

(* A reconciliation in which no position changes side leaves none that is
   believed real and not held. *)
THEOREM SyncCleaned == Spec => SyncRemovesGhosts
<1>1. TypeOK =>
        [Sync /\ Flipped = {} => \A p \in tracked' : p.real => Held(p.symbol, p.side)]_vars
  BY SyncCleans
<1> QED BY <1>1, TypeCorrect, PTL DEF SyncRemovesGhosts

(* A hold on one side changes that side only. *)
LEMMA HoldElsewhere ==
    ASSUME TypeOK, NEW s \in Symbols, NEW d \in Sides, NEW q, Hold(s, d, q)
    PROVE  /\ exch'[s][d] = q
           /\ \A t \in Symbols \ {s} : exch'[t] = exch[t]
BY DEF Hold, TypeOK

(* What is held in a symbol changes by its owner's calls, or by hand. *)
LEMMA ExchStep ==
    ASSUME TypeOK, [Next]_vars, budget'.moves = budget.moves, NEW s \in Symbols, exch'[s] # exch[s]
    PROVE  \E w \in Workers : /\ job[w].symbol = s
                              /\ \/ OrderReply(w) \/ CloseTP(w) \/ CloseSL(w)
                                 \/ OrderSilent(w) \/ CloseSilent(w)
<1>1. ASSUME NEW w \in Workers, OrderReply(w) \/ CloseTP(w) \/ CloseSL(w)
      PROVE  job[w].symbol = s
  <2>1. job[w].symbol \in Symbols /\ job[w].side \in Sides
    BY <1>1, BusyHasJob DEF OrderReply, CloseTP, CloseSL, Job
  <2>2. CASE OrderReply(w)
    BY <2>1, <2>2 DEF OrderReply, TypeOK
  <2>3. CASE CloseTP(w)
    BY <2>1, <2>3, HoldElsewhere DEF CloseTP
  <2>4. CASE CloseSL(w)
    BY <2>1, <2>4, HoldElsewhere DEF CloseSL
  <2> QED BY <1>1, <2>2, <2>3, <2>4
<1>2. ASSUME NEW w \in Workers, Receive(w) \/ LockSymbol(w) \/ LockTimeout(w)
      PROVE  exch' = exch
  BY <1>2 DEF Receive, LockSymbol, LockTimeout, exchangeVars
<1>3. ASSUME NEW w \in Workers, Entry(w), ~OrderReply(w) PROVE exch' = exch
  BY <1>3 DEF Entry, EntryFiltered, EntryBlocked, EntryAdmitted, Validate, RegisterPaper,
     PlaceOrder, RegisterReal, SaveEntry, exchangeVars
<1>4. ASSUME NEW w \in Workers, Close(w), ~CloseTP(w), ~CloseSL(w) PROVE exch' = exch
  BY <1>4 DEF Close, FindPosition, NoPosition, ReadIsReal, PaperTP, PaperSL,
     RecordTP, RecordSL, exchangeVars
<1>5. ASSUME UNCHANGED vars \/ WsClose \/ WsIgnore \/ Sync \/ PeriodicSave \/ Restart
      PROVE  exch' = exch
  BY <1>5 DEF vars, WsClose, WsIgnore, Sync, PeriodicSave, Restart, exchangeVars
<1>6. ~OpenedElsewhere /\ ~ClosedElsewhere
  BY DEF OpenedElsewhere, ClosedElsewhere, TypeOK
<1>7. ASSUME NEW w \in Workers, OrderSilent(w) \/ CloseSilent(w)
      PROVE  job[w].symbol = s
  <2>1. job[w].symbol \in Symbols /\ job[w].side \in Sides
    BY <1>7, BusyHasJob DEF OrderSilent, CloseSilent, Job
  <2>2. CASE OrderSilent(w)
    BY <2>1, <2>2 DEF OrderSilent, TypeOK
  <2>3. CASE CloseSilent(w)
    BY <2>1, <2>3, HoldElsewhere DEF CloseSilent
  <2> QED BY <1>7, <2>2, <2>3
<1>8. ASSUME KeeperSilent PROVE exch' = exch
  BY <1>8 DEF KeeperSilent
<1> QED BY <1>1, <1>2, <1>3, <1>4, <1>5, <1>6, <1>7, <1>8 DEF Next, Pipeline, FallSilent

(* The bound on what happens outside the engine only shrinks. *)
LEMMA MovesStep ==
    ASSUME TypeOK, [Next]_vars, budget.moves <= MaxMoves
    PROVE  /\ budget'.moves <= MaxMoves
           /\ budget'.moves = budget.moves \/ Moved'
<1>0. budget \in [signals: Nat, moves: Nat, silences: Nat, restarts: Nat] /\ budget.moves \in Nat
  BY DEF TypeOK
<1>1. ASSUME NEW w \in Workers, Receive(w) PROVE budget'.moves = budget.moves
  BY <1>0, <1>1 DEF Receive
<1>2. ASSUME NEW w \in Workers, LockSymbol(w) \/ LockTimeout(w) PROVE budget' = budget
  BY <1>2 DEF LockSymbol, LockTimeout
<1>3. ASSUME NEW w \in Workers, Entry(w) PROVE budget' = budget
  BY <1>3 DEF Entry, EntryFiltered, EntryBlocked, EntryAdmitted, Validate, RegisterPaper,
     PlaceOrder, OrderReply, RegisterReal, SaveEntry
<1>4. ASSUME NEW w \in Workers, Close(w) PROVE budget' = budget
  BY <1>4 DEF Close, FindPosition, NoPosition, ReadIsReal, PaperTP, PaperSL,
     CloseTP, RecordTP, CloseSL, RecordSL
<1>5. ASSUME UNCHANGED vars \/ WsClose \/ WsIgnore \/ Sync \/ PeriodicSave
      PROVE  budget' = budget
  BY <1>5 DEF vars, WsClose, WsIgnore, Sync, PeriodicSave
<1>6. ASSUME OpenedElsewhere \/ ClosedElsewhere PROVE budget'.moves = budget.moves - 1
  BY <1>0, <1>6 DEF OpenedElsewhere, ClosedElsewhere
<1>7. ASSUME Restart PROVE budget'.moves = budget.moves
  BY <1>0, <1>7 DEF Restart
<1>8. ASSUME FallSilent PROVE budget'.moves = budget.moves
  BY <1>0, <1>8 DEF FallSilent, KeeperSilent, OrderSilent, CloseSilent, Silence
<1>9. budget'.moves = budget.moves \/ budget'.moves = budget.moves - 1
  BY <1>1, <1>2, <1>3, <1>4, <1>5, <1>6, <1>7, <1>8 DEF Next, Pipeline
<1> QED BY <1>0, <1>9, NumberAssumption DEF Moved

(* A stop loss gets to its record with the side flat. *)
LEMMA SLStep ==
    ASSUME TypeOK, [Next]_vars, NEW v \in Workers, pc'[v] = "slrecord"
    PROVE  \/ pc[v] = "slrecord" /\ job'[v] = job[v]
           \/ CloseSL(v) /\ job'[v] = job[v] /\ exch'[job[v].symbol][job[v].side] = 0
<1> DEFINE Good == \/ pc[v] = "slrecord" /\ job'[v] = job[v]
                   \/ CloseSL(v) /\ job'[v] = job[v] /\ exch'[job[v].symbol][job[v].side] = 0
<1>1. CASE UNCHANGED vars
  BY <1>1 DEF vars
<1>2. ASSUME NEW w \in Workers, Receive(w) \/ LockTimeout(w) \/ LockSymbol(w)
      PROVE  Good
  <2>1. pc'[w] # "slrecord"
    BY <1>2 DEF Receive, LockTimeout, LockSymbol, Goto, TypeOK
  <2> QED BY <1>2, <2>1 DEF Receive, LockTimeout, LockSymbol, Goto, TypeOK
<1>3. ASSUME NEW w \in Workers, Entry(w) \/ Close(w), w # v
      PROVE  Good
  BY <1>3, PipelineShape DEF Finish, Goto, Stays, TypeOK
<1>4. ~Finish(v) /\ \A label : label # "slrecord" => ~Goto(v, label)
  BY DEF Finish, Goto, TypeOK
<1>5. ~Entry(v)
  <2>1. ~(EntryFiltered(v) \/ EntryBlocked(v) \/ RegisterPaper(v) \/ SaveEntry(v))
    BY <1>4 DEF EntryFiltered, EntryBlocked, RegisterPaper, SaveEntry
  <2>2. ~(EntryAdmitted(v) \/ RegisterReal(v) \/ PlaceOrder(v))
    BY <1>4 DEF EntryAdmitted, RegisterReal, PlaceOrder
  <2>3. ~Validate(v)
    BY <1>4 DEF Validate
  <2>4. ~OrderReply(v)
    BY <1>4 DEF OrderReply
  <2> QED BY <2>1, <2>2, <2>3, <2>4 DEF Entry
<1>6. ASSUME Close(v) PROVE Good
  <2>1. CASE CloseSL(v)
    <3>1. job[v].symbol \in Symbols /\ job[v].side \in Sides
      BY <2>1, BusyHasJob DEF CloseSL, Job
    <3>2. PICK after \in {0, exch[job[v].symbol][job[v].side]}, ok \in BOOLEAN :
             /\ ok => after = 0
             /\ Hold(job[v].symbol, job[v].side, after)
             /\ AfterAttempt(v, ok, "slrecord")
      BY <2>1 DEF CloseSL
    <3>3. ok /\ job' = job
      BY <1>4, <2>1, <3>2 DEF AfterAttempt, CloseSL
    <3> QED BY <2>1, <3>1, <3>2, <3>3, HoldElsewhere
  <2>2. ~CloseTP(v)
    BY <1>4 DEF CloseTP, AfterAttempt
  <2>3. ~(FindPosition(v) \/ ReadIsReal(v))
    BY <1>4 DEF FindPosition, ReadIsReal
  <2>4. ~(NoPosition(v) \/ PaperTP(v) \/ PaperSL(v) \/ RecordTP(v) \/ RecordSL(v))
    BY <1>4 DEF NoPosition, PaperTP, PaperSL, RecordTP, RecordSL
  <2>5. CloseSL(v)
    BY <1>6, <2>2, <2>3, <2>4 DEF Close
  <2> QED BY <2>1, <2>5
<1>7. ASSUME NEW w \in Workers, Receive(w) \/ Pipeline(w) PROVE Good
  BY <1>2, <1>3, <1>5, <1>6, <1>7 DEF Pipeline
<1>8. CASE \/ WsClose \/ WsIgnore \/ Sync \/ PeriodicSave
           \/ OpenedElsewhere \/ ClosedElsewhere \/ FallSilent
  BY <1>8, SilentKeeps DEF WsClose, WsIgnore, Sync, PeriodicSave, OpenedElsewhere, ClosedElsewhere
<1>9. CASE Restart
  BY <1>9, RestartIdle
<1> QED BY <1>1, <1>7, <1>8, <1>9 DEF Next

(* And it stays flat until it is recorded. *)
LEMMA FlatStep ==
    ASSUME EngineInv, FlatUntilRecorded, [Next]_vars
    PROVE  FlatUntilRecorded'
<1>0. TypeOK /\ SymbolLocked
  BY DEF EngineInv
<1>1. budget'.moves <= MaxMoves /\ (budget'.moves = budget.moves \/ Moved')
  BY <1>0, MovesStep DEF FlatUntilRecorded
<1>2. ASSUME NEW v \in Workers, pc'[v] = "slrecord", ~Moved'
      PROVE  ~Held(job[v].symbol, job[v].side)'
  <2>1. budget'.moves = budget.moves /\ ~Moved
    BY <1>1, <1>2 DEF Moved
  <2>2. CASE CloseSL(v) /\ job'[v] = job[v] /\ exch'[job[v].symbol][job[v].side] = 0
    BY <2>2 DEF Held
  <2>3. CASE pc[v] = "slrecord" /\ job'[v] = job[v]
    <3>1. job[v].symbol \in Symbols
      BY <1>0, <2>3, BusyHasJob DEF Job
    <3>2. exch'[job[v].symbol] = exch[job[v].symbol]
      <4>1. ASSUME NEW w \in Workers, job[w].symbol = job[v].symbol,
                   \/ OrderReply(w) \/ CloseTP(w) \/ CloseSL(w)
                   \/ OrderSilent(w) \/ CloseSilent(w)
            PROVE  FALSE
        BY <1>0, <2>3, <4>1 DEF OrderReply, CloseTP, CloseSL, OrderSilent, CloseSilent,
           SymbolLocked
      <4> QED BY <1>0, <2>1, <3>1, <4>1, ExchStep
    <3>3. ~Held(job[v].symbol, job[v].side)
      BY <2>1, <2>3 DEF FlatUntilRecorded
    <3> QED BY <2>3, <3>2, <3>3 DEF Held
  <2> QED BY <1>0, <1>2, <2>2, <2>3, SLStep
<1> QED BY <1>1, <1>2 DEF FlatUntilRecorded

(* When a stop loss is recorded its side is flat on the exchange, unless somebody
   has traded by hand. *)
THEOREM StopLossFlat == Spec => StopLossLeavesFlat
<1>1. Init => FlatUntilRecorded
  BY NumberAssumption DEF Init, FlatUntilRecorded
<1>2. EngineInv /\ FlatUntilRecorded /\ [Next]_vars => FlatUntilRecorded'
  BY FlatStep
<1>3. FlatUntilRecorded =>
        [\A w \in Workers : RecordSL(w) => Moved \/ ~Held(job[w].symbol, job[w].side)]_vars
  BY DEF FlatUntilRecorded, RecordSL
<1> QED BY <1>1, <1>2, <1>3, Invariant, PTL DEF Spec, StopLossLeavesFlat
=============================================================================
