--------------------------- MODULE SpotTradingProofs ---------------------------
(***************************************************************************)
(* Theorems about SpotTrading, for every set of symbols, exchanges, prices *)
(* and workers, and any number of signals, failed writes and crashes.      *)
(***************************************************************************)
EXTENDS SpotTrading, SetSumsProofs, SequenceTheorems

-----------------------------------------------------------------------------
(* The account *)

Held == [oid : Nat, sym : Symbols, ex : Exchanges, entry : Prices, qty : Nat]

Books == [pos : SUBSET Held, balance : Int, peak : Int, gross : Int, buys : Nat, sales : Nat]

(* An account whose money is all there.  Only KRW pairs are held, so that  *)
(* a restart drops nothing.                                                *)
Sound(a) ==
    /\ a \in Books /\ IsFiniteSet(a.pos)
    /\ Start + a.gross = a.balance + Cost(a.pos)
    /\ a.peak >= a.balance /\ a.peak >= Start
    /\ \A p, q \in a.pos : p.qty > 0 /\ (p.sym = q.sym /\ p.ex = q.ex => p = q)
    /\ \A p \in a.pos : QuoteOf[p.sym] = "KRW"

LEMMA PriceType ==
    ASSUME NEW price \in Prices
    PROVE  /\ price \in Nat \ {0} /\ Stake \div price \in Nat \ {0}
           /\ (Stake \div price) * price = Stake
<1>1. price \in Nat \ {0} /\ Stake % price = 0 /\ Stake \in Nat \ {0}
  BY SpotAssumption
<1> DEFINE q == Stake \div price
<1>2. Stake = price * q + (Stake % price) /\ q \in Nat
  BY <1>1
<1> HIDE DEF q
<1>3. q * price = Stake
  BY <1>1, <1>2
<1>4. q # 0
  BY <1>1, <1>3
<1> QED BY <1>1, <1>2, <1>3, <1>4 DEF q

LEMMA NoCost == Cost({}) = 0
BY SumEmpty DEF Cost

LEMMA CostType == ASSUME NEW S \in SUBSET Held, IsFiniteSet(S) PROVE Cost(S) \in Int
<1> DEFINE f == [p \in S |-> p.qty * p.entry]
<1>1. ASSUME NEW p \in S PROVE f[p] \in Int
  <2>1. p.qty \in Nat /\ p.entry \in Nat
    BY PriceType DEF Held
  <2> QED BY <2>1
<1> HIDE DEF f
<1> QED BY <1>1, SumInt DEF Cost, f

(* One position more or less.                                              *)
LEMMA CostAdd ==
    ASSUME NEW S \in SUBSET Held, IsFiniteSet(S), NEW p \in Held, p \notin S
    PROVE  Cost(S \cup {p}) = Cost(S) + p.qty * p.entry
<1> DEFINE T == S \cup {p}
           f == [q \in T |-> q.qty * q.entry]
           g == [q \in S |-> q.qty * q.entry]
<1>1. ASSUME NEW q \in T PROVE f[q] \in Int
  <2>1. q.qty \in Nat /\ q.entry \in Nat
    BY PriceType DEF Held
  <2> QED BY <2>1
<1>2. f[p] = p.qty * p.entry /\ \A q \in S : f[q] = g[q]
  OBVIOUS
<1> HIDE DEF f, g
<1>3. SumOver(f, S \cup {p}) = SumOver(f, S) + f[p]
  BY <1>1, SumAdd
<1>4. SumOver(f, S) = SumOver(g, S)
  BY <1>2, SumSame
<1> QED BY <1>2, <1>3, <1>4 DEF Cost, f, g

LEMMA CostRemove ==
    ASSUME NEW S \in SUBSET Held, IsFiniteSet(S), NEW p \in S
    PROVE  Cost(S \ {p}) = Cost(S) - p.qty * p.entry
<1>1. /\ IsFiniteSet(S \ {p}) /\ S \ {p} \in SUBSET Held /\ p \in Held /\ p \notin S \ {p}
      /\ (S \ {p}) \cup {p} = S
  BY FS_Subset
<1> DEFINE R == S \ {p}
<1> HIDE DEF R
<1>2. IsFiniteSet(R) /\ R \in SUBSET Held /\ p \in Held /\ p \notin R /\ R \cup {p} = S
  BY <1>1 DEF R
<1>3. Cost(S) = Cost(R) + p.qty * p.entry
  BY <1>2, CostAdd
<1>4. Cost(R) \in Int /\ p.qty * p.entry \in Int
  <2>1. p.qty \in Nat /\ p.entry \in Nat
    BY <1>2, PriceType DEF Held
  <2>2. p.qty * p.entry \in Int
    BY <2>1
  <2> QED BY <1>2, <2>2, CostType
<1> DEFINE c == p.qty * p.entry
<1> HIDE DEF c
<1>5. Cost(S) = Cost(R) + c /\ Cost(R) \in Int /\ c \in Int
  BY <1>3, <1>4 DEF c
<1>6. Cost(R) = Cost(S) - c
  BY <1>5
<1> QED BY <1>6 DEF c, R

LEMMA NewAccountSound == Sound(NoAccount)
<1>1. NoAccount \in Books
  BY SpotAssumption DEF NoAccount, Books
<1> QED BY <1>1, NoCost, FS_EmptySet, SpotAssumption DEF Sound, NoAccount

(* An entry spends the stake on a position worth as much.                  *)
LEMMA BoughtSound ==
    ASSUME NEW a, Sound(a), NEW price \in Prices, NEW sym \in Symbols, NEW ex \in Exchanges,
           QuoteOf[sym] = "KRW", \A p \in a.pos : ~(p.sym = sym /\ p.ex = ex)
    PROVE  Sound([a EXCEPT !.pos = @ \cup {[oid |-> a.buys, sym |-> sym, ex |-> ex,
                                            entry |-> price, qty |-> Stake \div price]},
                           !.balance = @ - Stake,
                           !.buys = @ + 1])
<1> DEFINE p == [oid |-> a.buys, sym |-> sym, ex |-> ex, entry |-> price,
                 qty |-> Stake \div price]
           t == [a EXCEPT !.pos = @ \cup {p}, !.balance = @ - Stake, !.buys = @ + 1]
<1>1. a \in Books /\ IsFiniteSet(a.pos)
  BY DEF Sound
<1>2. /\ a.pos \in SUBSET Held /\ a.balance \in Int /\ a.peak \in Int /\ a.gross \in Int
      /\ a.buys \in Nat /\ Stake \in Nat \ {0} /\ Start \in Int
  BY <1>1, SpotAssumption DEF Books
<1>3. /\ p \in Held /\ p.sym = sym /\ p.ex = ex /\ p.qty > 0 /\ p.qty * p.entry = Stake
  BY <1>2, PriceType DEF Held
<1> HIDE DEF p
<1>4. p \notin a.pos
  BY <1>3
<1>5. a.pos \cup {p} \in SUBSET Held /\ a.balance - Stake \in Int /\ a.buys + 1 \in Nat
  BY <1>2, <1>3
<1>6. t = [a EXCEPT !.pos = a.pos \cup {p}, !.balance = a.balance - Stake, !.buys = a.buys + 1]
  OBVIOUS
<1> HIDE DEF t
<1>7. /\ t \in Books /\ t.pos = a.pos \cup {p} /\ t.balance = a.balance - Stake
      /\ t.peak = a.peak /\ t.gross = a.gross
  BY <1>1, <1>5, <1>6 DEF Books
<1>8. Cost(t.pos) = Cost(a.pos) + Stake /\ Cost(a.pos) \in Int
  BY <1>1, <1>2, <1>3, <1>4, <1>7, CostAdd, CostType
<1>9. IsFiniteSet(t.pos)
  BY <1>1, <1>7, FS_AddElement
<1>10. Start + t.gross = t.balance + Cost(t.pos) /\ t.peak >= t.balance /\ t.peak >= Start
  BY <1>2, <1>7, <1>8 DEF Sound
<1>11. \A x, y \in t.pos : x.qty > 0 /\ (x.sym = y.sym /\ x.ex = y.ex => x = y)
  BY <1>3, <1>7 DEF Sound
<1>12. \A x \in t.pos : QuoteOf[x.sym] = "KRW"
  BY <1>3, <1>7 DEF Sound
<1>13. Sound(t)
  BY <1>7, <1>9, <1>10, <1>11, <1>12 DEF Sound
<1> QED BY <1>13 DEF t, p

LEMMA PctOf ==
    ASSUME NEW n \in Nat, NEW pct \in 0 .. 100
    PROVE  (n * pct) \div 100 \in 0 .. n
<1>1. n * pct \in Nat /\ n * pct <= n * 100
  BY SMTT(30)
<1> DEFINE m == n * pct
<1> HIDE DEF m
<1>2. m \in Nat /\ m <= n * 100
  BY <1>1 DEF m
<1>3. m \div 100 \in 0 .. n
  BY <1>2
<1> QED BY <1>3 DEF m

LEMMA HigherType ==
    ASSUME NEW x \in Int, NEW y \in Int
    PROVE  Higher(x, y) \in Int /\ Higher(x, y) >= x /\ Higher(x, y) >= y
BY DEF Higher

(* A sale turns part of a position into money, the gross result into the   *)
(* difference.                                                             *)
LEMMA SoldSound ==
    ASSUME NEW a, Sound(a), NEW price \in Prices, NEW p \in a.pos, NEW qty \in 0 .. p.qty
    PROVE  LET rest == [p EXCEPT !.qty = @ - qty]
           IN  Sound([Paid(a, p, qty, price) EXCEPT
                        !.pos = (@ \ {p}) \cup (IF rest.qty <= 0 THEN {} ELSE {rest})])
<1> DEFINE rest == [p EXCEPT !.qty = @ - qty]
           pos == (a.pos \ {p}) \cup (IF rest.qty <= 0 THEN {} ELSE {rest})
           t == [Paid(a, p, qty, price) EXCEPT
                   !.pos = (@ \ {p}) \cup (IF rest.qty <= 0 THEN {} ELSE {rest})]
<1>1. a \in Books /\ IsFiniteSet(a.pos)
  BY DEF Sound
<1>2. /\ a.pos \in SUBSET Held /\ a.balance \in Int /\ a.peak \in Int /\ a.gross \in Int
      /\ a.sales \in Nat /\ a.buys \in Nat /\ Start \in Int
  BY <1>1, SpotAssumption DEF Books
<1>3. /\ p \in Held /\ p.qty \in Nat /\ p.entry \in Nat /\ price \in Nat /\ qty \in Nat
      /\ qty <= p.qty
  BY <1>2, PriceType DEF Held
<1>4. /\ rest \in Held /\ rest.qty = p.qty - qty /\ rest.entry = p.entry
      /\ rest.sym = p.sym /\ rest.ex = p.ex
  BY <1>3 DEF Held
<1> HIDE DEF rest
<1>5. \A q \in a.pos : q # p => ~(q.sym = p.sym /\ q.ex = p.ex)
  BY DEF Sound
<1>6. rest \notin a.pos \ {p}
  BY <1>4, <1>5
<1> DEFINE proceeds == price * qty
           result == (price - p.entry) * qty
           cost == p.entry * qty
<1>7. /\ proceeds \in Int /\ result \in Int /\ cost \in Int /\ result = proceeds - cost
  BY <1>3
<1>8. p.qty * p.entry = cost + rest.qty * p.entry /\ rest.qty * p.entry \in Int
  BY <1>3, <1>4
<1>9. /\ IsFiniteSet(a.pos \ {p}) /\ a.pos \ {p} \in SUBSET Held
      /\ Cost(a.pos \ {p}) = Cost(a.pos) - p.qty * p.entry /\ Cost(a.pos) \in Int
  BY <1>1, <1>2, CostRemove, CostType, FS_Subset
<1>10. pos \in SUBSET Held /\ IsFiniteSet(pos) /\ Cost(pos) = Cost(a.pos) - cost
  <2> DEFINE left == rest.qty * p.entry
             whole == p.qty * p.entry
             base == a.pos \ {p}
  <2>1. left \in Int /\ whole = cost + left /\ Cost(base) = Cost(a.pos) - whole
    BY <1>8, <1>9
  <2>2. IsFiniteSet(base) /\ base \in SUBSET Held /\ rest \notin base
    BY <1>6, <1>9
  <2>3. CASE rest.qty <= 0
    <3>1. rest.qty = 0
      BY <1>3, <1>4, <2>3
    <3>2. left = 0
      BY <1>3, <3>1
    <3>3. pos = base
      BY <2>3
    <3> HIDE DEF left, whole, base, pos, cost
    <3> QED BY <1>7, <1>9, <2>1, <2>2, <3>2, <3>3 DEF cost
  <2>4. CASE ~(rest.qty <= 0)
    <3>1. pos = base \cup {rest}
      BY <2>4
    <3> HIDE DEF base
    <3>2. Cost(base \cup {rest}) = Cost(base) + rest.qty * rest.entry
      BY <1>4, <2>2, CostAdd
    <3>3. rest.qty * rest.entry = left
      BY <1>4
    <3>4. IsFiniteSet(base \cup {rest}) /\ base \cup {rest} \in SUBSET Held
      BY <1>4, <2>2, FS_AddElement
    <3> HIDE DEF left, whole, pos
    <3>5. cost \in Int /\ Cost(a.pos) \in Int
      BY <1>7, <1>9
    <3> HIDE DEF cost
    <3>6. Cost(pos) = Cost(a.pos) - cost
      BY <2>1, <3>1, <3>2, <3>3, <3>5
    <3> QED BY <3>1, <3>4, <3>6
  <2> QED BY <2>3, <2>4
<1> DEFINE balance == a.balance + proceeds
           peak == Higher(a.peak, balance)
           gross == a.gross + result
<1>11. t = [a EXCEPT !.balance = balance, !.peak = peak, !.gross = gross,
                     !.sales = a.sales + 1, !.pos = pos]
  BY <1>1 DEF Paid, Books
<1>12. /\ balance \in Int /\ peak \in Int /\ gross \in Int /\ a.sales + 1 \in Nat
       /\ peak >= a.peak /\ peak >= balance
  <2> HIDE DEF proceeds, result, cost
  <2>1. balance \in Int /\ gross \in Int /\ a.sales + 1 \in Nat
    BY <1>2, <1>7
  <2> HIDE DEF balance
  <2> QED BY <1>2, <2>1, HigherType
<1> HIDE DEF t, pos, balance, peak, gross, proceeds, result, cost
<1>13. /\ t \in Books /\ t.pos = pos /\ t.balance = balance /\ t.peak = peak /\ t.gross = gross
  BY <1>1, <1>10, <1>11, <1>12 DEF Books
<1>14. Start + t.gross = t.balance + Cost(t.pos)
  BY <1>2, <1>7, <1>9, <1>10, <1>13 DEF Sound, balance, gross
<1>15. t.peak >= t.balance /\ t.peak >= Start
  BY <1>2, <1>12, <1>13 DEF Sound
<1>16. \A x \in pos : x \in a.pos \ {p} \/ (x = rest /\ rest.qty > 0)
  BY <1>3, <1>4 DEF pos
<1>17. \A x, y \in pos : x.qty > 0 /\ (x.sym = y.sym /\ x.ex = y.ex => x = y)
  BY <1>4, <1>5, <1>16 DEF Sound
<1>18. \A x \in pos : QuoteOf[x.sym] = "KRW"
  BY <1>4, <1>16 DEF Sound
<1>19. Sound(t)
  BY <1>10, <1>13, <1>14, <1>15, <1>17, <1>18 DEF Sound
<1> QED BY <1>19 DEF t, rest

(* A restart finds only KRW pairs to load.                                 *)
LEMMA RestartedSound ==
    ASSUME NEW a, Sound(a)
    PROVE  [a EXCEPT !.pos = {p \in @ : QuoteOf[p.sym] = "KRW"}] = a
<1>1. a \in Books /\ {p \in a.pos : QuoteOf[p.sym] = "KRW"} = a.pos
  BY DEF Sound
<1> QED BY <1>1 DEF Books

Krw == {s \in Symbols : QuoteOf[s] = "KRW"}

Exit == [kind : {"exit"}, sym : Symbols, ex : Exchanges, pct : {33, 50, 100}]
Entry == [kind : {"entry"}, sym : Krw, ex : Exchanges,
          tf : {EngineTf(tf) : tf \in TimeFrames}]
Graded == [kind : {"graded"}, sym : Krw, ex : Exchanges]

AccountInv ==
    /\ Sound(account) /\ \A a \in accountFile : Sound(a)
    /\ job \in [Workers -> {Idle} \cup Exit \cup Entry \cup Graded]

LEMMA JobKinds ==
    ASSUME NEW j \in {Idle} \cup Exit \cup Entry \cup Graded
    PROVE  /\ j.kind = "exit" => j \in Exit
           /\ j.kind = "entry" => j \in Entry
           /\ j.kind = "graded" => j \in Graded
BY DEF Idle, Exit, Entry, Graded

LEMMA ExitPctType == ASSUME NEW sig PROVE ExitPct(sig) \in {33, 50, 100}
<1>1. sig.level = "TP1" \/ sig.level = "TP2" \/ (sig.level # "TP1" /\ sig.level # "TP2")
  OBVIOUS
<1>2. ClosePct(sig.level) \in {33, 50, 100}
  BY <1>1 DEF ClosePct
<1> QED BY <1>2 DEF ExitPct

LEMMA HandedTypes ==
    ASSUME NEW sig \in Signal
    PROVE  Handed(sig) \in {Idle} \cup Exit \cup Entry \cup Graded
<1>1. sig.sym \in Symbols /\ sig.ex \in Exchanges /\ sig.tf \in TimeFrames
  BY DEF Signal
<1>2. CASE sig.kind # "entry"
  BY <1>1, <1>2, ExitPctType DEF Handed, Exit
<1>3. CASE sig.kind = "entry" /\ sig.side = "buy" /\ QuoteOf[sig.sym] = "KRW"
  <2>1. Handed(sig) = [kind |-> "entry", sym |-> sig.sym, ex |-> sig.ex, tf |-> EngineTf(sig.tf)]
    BY <1>3 DEF Handed
  <2>2. Handed(sig) \in Entry
    BY <1>1, <1>3, <2>1 DEF Entry, Krw
  <2> QED BY <2>2
<1>4. CASE sig.kind = "entry" /\ ~(sig.side = "buy" /\ QuoteOf[sig.sym] = "KRW")
  BY <1>4 DEF Handed
<1> QED BY <1>2, <1>3, <1>4

LEMMA JobDone ==
    ASSUME AccountInv, NEW w \in Workers, Done(w)
    PROVE  job' \in [Workers -> {Idle} \cup Exit \cup Entry \cup Graded]
BY DEF AccountInv, Done

LEMMA AccountSaved ==
    ASSUME AccountInv, NEW a, Sound(a), SaveAccount(a)
    PROVE  \A f \in accountFile' : Sound(f)
BY DEF AccountInv, SaveAccount

LEMMA BuyStep ==
    ASSUME AccountInv, NEW w \in Workers, NEW price \in Prices, Buy(w, price)
    PROVE  AccountInv'
<1>1. job[w] \in Graded
  BY JobKinds DEF AccountInv, Buy
<1>2. job[w].sym \in Symbols /\ QuoteOf[job[w].sym] = "KRW" /\ job[w].ex \in Exchanges
  BY <1>1 DEF Graded, Krw
<1>3. job' \in [Workers -> {Idle} \cup Exit \cup Entry \cup Graded]
  BY JobDone DEF Buy
<1>4. CASE OnBooks(job[w].sym, job[w].ex) # {}
  BY <1>3, <1>4 DEF Buy, AccountInv, accountVars
<1>5. CASE OnBooks(job[w].sym, job[w].ex) = {}
  <2>1. \A p \in account.pos : ~(p.sym = job[w].sym /\ p.ex = job[w].ex)
    BY <1>5 DEF OnBooks
  <2>2. /\ account' = [account EXCEPT
                 !.pos = @ \cup {[oid |-> account.buys, sym |-> job[w].sym,
                                  ex |-> job[w].ex, entry |-> price,
                                  qty |-> Stake \div price]},
                 !.balance = @ - Stake,
                 !.buys = @ + 1]
        /\ SaveAccount(account')
    BY <1>5 DEF Buy
  <2>3. Sound(account')
    BY <1>2, <2>1, <2>2, BoughtSound DEF AccountInv
  <2>4. \A f \in accountFile' : Sound(f)
    BY <2>2, <2>3, AccountSaved
  <2> QED BY <1>3, <2>3, <2>4 DEF AccountInv
<1> QED BY <1>4, <1>5

LEMMA SellStep ==
    ASSUME AccountInv, NEW w \in Workers, NEW price \in Prices, Sell(w, price)
    PROVE  AccountInv'
<1>1. job[w] \in Exit
  BY JobKinds DEF AccountInv, Sell
<1>2. job[w].pct \in 0 .. 100
  BY <1>1 DEF Exit
<1>3. job' \in [Workers -> {Idle} \cup Exit \cup Entry \cup Graded]
  BY JobDone DEF Sell
<1>4. PICK p \in OnBooks(job[w].sym, job[w].ex) :
        LET qty == (p.qty * job[w].pct) \div 100
            rest == [p EXCEPT !.qty = @ - qty]
        IN  account' = [Paid(account, p, qty, price) EXCEPT
                          !.pos = (@ \ {p}) \cup (IF rest.qty <= 0 THEN {} ELSE {rest})]
  BY DEF Sell
<1> DEFINE qty == (p.qty * job[w].pct) \div 100
<1>5. p \in account.pos
  BY DEF OnBooks
<1>6. p.qty \in Nat
  BY <1>5 DEF AccountInv, Sound, Books, Held
<1>7. qty \in 0 .. p.qty
  BY <1>2, <1>6, PctOf
<1>8. LET rest == [p EXCEPT !.qty = @ - qty]
      IN  account' = [Paid(account, p, qty, price) EXCEPT
                        !.pos = (@ \ {p}) \cup (IF rest.qty <= 0 THEN {} ELSE {rest})]
  BY <1>4
<1> HIDE DEF qty
<1>9. Sound(account')
  BY <1>5, <1>7, <1>8, SoldSound DEF AccountInv
<1>10. \A f \in accountFile' : Sound(f)
  BY <1>9, AccountSaved DEF Sell
<1> QED BY <1>3, <1>9, <1>10 DEF AccountInv

LEMMA AccountEnd == ASSUME AccountInv, Crash \/ Stop PROVE AccountInv'
<1>1. account' = NoAccount /\ job' = [v \in Workers |-> Idle]
  BY DEF Crash, Stop, End
<1>2. accountFile' = accountFile \/ SaveAccount(account)
  BY DEF Crash, Stop
<1>3. \A f \in accountFile' : Sound(f)
  BY <1>2 DEF SaveAccount, AccountInv
<1> QED BY <1>1, <1>3, NewAccountSound DEF AccountInv

LEMMA AccountRestart == ASSUME AccountInv, Restart PROVE AccountInv'
<1>1. CASE accountFile = {}
  BY <1>1, NewAccountSound DEF Restart, AccountInv
<1>2. CASE accountFile # {}
  <2> DEFINE a == CHOOSE a \in accountFile : TRUE
  <2>1. a \in accountFile
    BY <1>2
  <2>2. account' = [a EXCEPT !.pos = {p \in @ : QuoteOf[p.sym] = "KRW"}]
    BY <1>2 DEF Restart
  <2> HIDE DEF a
  <2>3. Sound(account')
    BY <2>1, <2>2, RestartedSound DEF AccountInv
  <2> QED BY <2>3 DEF Restart, AccountInv
<1> QED BY <1>1, <1>2

LEMMA AccountInit == Init => AccountInv
BY NewAccountSound DEF Init, AccountInv

LEMMA AccountNext == AccountInv /\ [Next]_vars => AccountInv'
<1> SUFFICES ASSUME AccountInv, [Next]_vars PROVE AccountInv'
  OBVIOUS
<1>1. ASSUME NEW w \in Workers, NEW sig \in Signal, Receive(w, sig) PROVE AccountInv'
  <2>1. job' = [job EXCEPT ![w] = Handed(sig)] /\ UNCHANGED accountVars
    BY <1>1 DEF Receive
  <2> QED BY <2>1, HandedTypes DEF accountVars, AccountInv
<1>2. ASSUME NEW w \in Workers, NEW price \in Prices, Buy(w, price) \/ Sell(w, price)
      PROVE AccountInv'
  BY <1>2, BuyStep, SellStep
<1>3. ASSUME NEW w \in Workers, Skip(w) PROVE AccountInv'
  <2>1. job' \in [Workers -> {Idle} \cup Exit \cup Entry \cup Graded]
    BY <1>3, JobDone DEF Skip
  <2> QED BY <1>3, <2>1 DEF Skip, accountVars, AccountInv
<1>4. ASSUME NEW w \in Workers, ReadGrade(w) PROVE AccountInv'
  <2>1. job[w] \in Entry
    BY <1>4, JobKinds DEF ReadGrade, AccountInv
  <2>2. [kind |-> "graded", sym |-> job[w].sym, ex |-> job[w].ex] \in Graded
    BY <2>1 DEF Entry, Graded
  <2>3. \/ Done(w)
        \/ job' = [job EXCEPT ![w] = [kind |-> "graded", sym |-> job[w].sym, ex |-> job[w].ex]]
    BY <1>4 DEF ReadGrade
  <2>4. job' \in [Workers -> {Idle} \cup Exit \cup Entry \cup Graded]
    BY <2>2, <2>3, JobDone DEF AccountInv
  <2> QED BY <1>4, <2>4 DEF ReadGrade, accountVars, AccountInv
<1>5. CASE PeriodicSave
  <2>1. \A f \in accountFile' : Sound(f)
    BY <1>5 DEF PeriodicSave, SaveAccount, AccountInv
  <2> QED BY <1>5, <2>1 DEF PeriodicSave, AccountInv
<1>6. CASE Crash \/ Stop
  BY <1>6, AccountEnd
<1>7. CASE Restart
  BY <1>7, AccountRestart
<1>8. CASE UNCHANGED vars
  BY <1>8 DEF vars, AccountInv
<1> QED BY <1>1, <1>2, <1>3, <1>4, <1>5, <1>6, <1>7, <1>8 DEF Next

LEMMA AccountAlways == Spec => []AccountInv
BY AccountInit, AccountNext, PTL DEF Spec

(* Cash and holdings account for the start and the result of every trade,  *)
(* whatever was sold in parts, lost in a crash or not written.             *)
THEOREM AccountBalances == Spec => []SpotLedger
<1>1. AccountInv => SpotLedger
  BY DEF AccountInv, Sound, SpotLedger, Accounts
<1> QED BY <1>1, AccountAlways, PTL

(* The check under m_spot_mtx, and not the lock of the symbol, is what     *)
(* keeps a second position of a symbol and exchange out.                   *)
THEOREM OnePosition == Spec => []OneSpotPosition
<1>1. AccountInv => OneSpotPosition
  BY DEF AccountInv, Sound, OneSpotPosition, Accounts
<1> QED BY <1>1, AccountAlways, PTL

-----------------------------------------------------------------------------
(* The tracker *)

Virtual == [sym : Symbols, tf : {TrackerTf(tf) : tf \in TimeFrames}, ex : Exchanges,
            left : 1 .. 100]

Trade == [key : Keys, win : BOOLEAN]

Table == [Keys -> {"?", "poor", "fair"}]

Follows == [pos : SUBSET Virtual, trades : Seq(Trade), grades : Table, entries : Nat,
            closes : Nat, wins : Nat, losses : Nat, sold : Nat]

Current(trades, grades) == \A k \in Keys : grades[k] = Grade(trades, k)

(* What the tracker knows is right: what it sold, what it counted and the  *)
(* grades.  The trades kept are at most the closes, and all of them as     *)
(* long as the numbers agree.                                              *)
Right(t) ==
    /\ t \in Follows /\ IsFiniteSet(t.pos)
    /\ t.sold + Left(t.pos) = 100 * t.entries
    /\ t.closes = t.wins + t.losses
    /\ t.entries - Cardinality(t.pos) <= t.closes
    /\ \A p, q \in t.pos : KeyOf(p) = KeyOf(q) => p = q
    /\ Len(t.trades) <= t.closes
    /\ t.closes = Len(t.trades) => Current(t.trades, t.grades)

TrackerInv == Right(tracker) /\ \A t \in trackerFile : Right(t)

LEMMA NothingLeft == Left({}) = 0
BY SumEmpty DEF Left

LEMMA LeftType == ASSUME NEW S \in SUBSET Virtual, IsFiniteSet(S) PROVE Left(S) \in Int
<1> DEFINE f == [p \in S |-> p.left]
<1>1. ASSUME NEW p \in S PROVE f[p] \in Int
  BY DEF Virtual
<1> HIDE DEF f
<1> QED BY <1>1, SumInt DEF Left, f

(* One virtual position more or less.                                      *)
LEMMA LeftAdd ==
    ASSUME NEW S \in SUBSET Virtual, IsFiniteSet(S), NEW p \in Virtual, p \notin S
    PROVE  Left(S \cup {p}) = Left(S) + p.left
<1> DEFINE T == S \cup {p}
           f == [q \in T |-> q.left]
           g == [q \in S |-> q.left]
<1>1. ASSUME NEW q \in T PROVE f[q] \in Int
  BY DEF Virtual
<1>2. f[p] = p.left /\ \A q \in S : f[q] = g[q]
  OBVIOUS
<1> HIDE DEF f, g
<1>3. SumOver(f, S \cup {p}) = SumOver(f, S) + f[p]
  BY <1>1, SumAdd
<1>4. SumOver(f, S) = SumOver(g, S)
  BY <1>2, SumSame
<1> QED BY <1>2, <1>3, <1>4 DEF Left, f, g

LEMMA LeftRemove ==
    ASSUME NEW S \in SUBSET Virtual, IsFiniteSet(S), NEW p \in S
    PROVE  /\ Left(S \ {p}) = Left(S) - p.left /\ IsFiniteSet(S \ {p})
           /\ Cardinality(S \ {p}) = Cardinality(S) - 1
<1> DEFINE R == S \ {p}
<1>1. IsFiniteSet(R) /\ R \in SUBSET Virtual /\ p \in Virtual /\ p \notin R /\ R \cup {p} = S
  BY FS_Subset
<1>2. Cardinality(R) = Cardinality(S) - 1
  BY FS_RemoveElement
<1> HIDE DEF R
<1>3. Left(S) = Left(R) + p.left
  BY <1>1, LeftAdd
<1>4. Left(R) \in Int /\ p.left \in Int
  BY <1>1, LeftType DEF Virtual
<1>5. Left(R) = Left(S) - p.left
  BY <1>3, <1>4
<1> QED BY <1>1, <1>2, <1>5 DEF R

(* The newest n of a sequence: all of it when it has no more.              *)
LEMMA NewestOf ==
    ASSUME NEW S, NEW seq \in Seq(S), NEW n \in Nat
    PROVE  /\ Newest(seq, n) \in Seq(S)
           /\ Len(Newest(seq, n)) = IF Len(seq) > n THEN n ELSE Len(seq)
           /\ Len(seq) <= n => Newest(seq, n) = seq
<1> DEFINE len == Len(seq)
           m == Higher(len - n, 0) + 1
<1>1. len \in Nat
  BY LenProperties
<1> HIDE DEF len
<1>2. m \in 1 .. len + 1 /\ len - m + 1 = IF len > n THEN n ELSE len
  BY <1>1 DEF Higher
<1>3. len <= n => m = 1
  BY <1>1 DEF Higher
<1> HIDE DEF m
<1>4. \A i \in m .. len : seq[i] \in S
  <2>1. \A i \in m .. len : i \in 1 .. len
    BY <1>1, <1>2
  <2> QED BY <2>1, ElementOfSeq DEF len
<1>5. /\ SubSeq(seq, m, len) \in Seq(S)
      /\ Len(SubSeq(seq, m, len)) = IF m <= len THEN len - m + 1 ELSE 0
      /\ \A i \in 1 .. (len - m + 1) : SubSeq(seq, m, len)[i] = seq[m + i - 1]
  BY <1>1, <1>2, <1>4, SubSeqProperties
<1>6. (IF m <= len THEN len - m + 1 ELSE 0) = len - m + 1
  BY <1>1, <1>2
<1>7. Len(SubSeq(seq, m, len)) = IF len > n THEN n ELSE len
  BY <1>2, <1>5, <1>6
<1>8. ASSUME len <= n PROVE SubSeq(seq, m, len) = seq
  <2>1. m = 1 /\ Len(SubSeq(seq, m, len)) = len
    BY <1>1, <1>3, <1>7, <1>8
  <2>2. \A i \in 1 .. len : SubSeq(seq, m, len)[i] = seq[i]
    BY <1>1, <1>5, <2>1
  <2> QED BY <1>5, <2>1, <2>2, SeqEqual DEF len
<1>9. Newest(seq, n) = SubSeq(seq, m, len)
  BY DEF Newest, m, len
<1> QED BY <1>5, <1>7, <1>8, <1>9 DEF len

LEMMA GradeIn == ASSUME NEW trades, NEW k PROVE Grade(trades, k) \in {"?", "poor", "fair"}
BY DEF Grade, GradeOf

(* A trade of another key changes no grade.                                *)
LEMMA GradeOfOthers ==
    ASSUME NEW trades \in Seq(Trade), NEW one \in Trade, NEW k \in Keys, one.key # k
    PROVE  Grade(Append(trades, one), k) = Grade(trades, k)
<1> DEFINE more == Append(trades, one)
           was == {i \in DOMAIN trades : trades[i].key = k}
           is == {i \in DOMAIN more : more[i].key = k}
<1>1. /\ DOMAIN trades = 1 .. Len(trades) /\ Len(trades) \in Nat
      /\ more \in Seq(Trade) /\ DOMAIN more = 1 .. Len(trades) + 1
      /\ more[Len(trades) + 1] = one /\ \A i \in 1 .. Len(trades) : more[i] = trades[i]
  BY AppendProperties, LenProperties
<1> HIDE DEF more
<1>2. DOMAIN more = DOMAIN trades \cup {Len(trades) + 1}
  BY <1>1
<1>3. is = was /\ \A i \in was : more[i] = trades[i]
  BY <1>1, <1>2
<1>4. {i \in is : more[i].win} = {i \in was : trades[i].win}
  BY <1>3
<1> QED BY <1>3, <1>4 DEF Grade, more

LEMMA NewTrackerRight == Right(NoTracker)
<1> DEFINE none == [k \in Keys |-> "?"]
<1>1. <<>> \in Seq(Trade) /\ Len(<<>>) = 0
  OBVIOUS
<1>2. none \in Table
  BY DEF Table
<1>3. Current(<<>>, none)
  <2>1. Cardinality({}) = 0
    BY FS_EmptySet
  <2>2. ASSUME NEW k \in Keys PROVE Grade(<<>>, k) = "?"
    <3> DEFINE mine == {i \in DOMAIN <<>> : <<>>[i].key = k}
               won == {i \in mine : <<>>[i].win}
    <3>1. mine = {} /\ won = {}
      OBVIOUS
    <3>2. Grade(<<>>, k) = GradeOf(Cardinality(mine), Cardinality(won))
      BY DEF Grade
    <3> QED BY <2>1, <3>1, <3>2, SpotAssumption DEF GradeOf
  <2> QED BY <2>2 DEF Current
<1>4. NoTracker = [pos |-> {}, trades |-> <<>>, grades |-> none, entries |-> 0, closes |-> 0,
                   wins |-> 0, losses |-> 0, sold |-> 0]
  BY DEF NoTracker
<1> HIDE DEF none
<1>5. NoTracker \in Follows
  BY <1>1, <1>2, <1>4 DEF Follows
<1>6. /\ NoTracker.pos = {} /\ NoTracker.trades = <<>> /\ NoTracker.grades = none
      /\ NoTracker.entries = 0 /\ NoTracker.closes = 0 /\ NoTracker.wins = 0
      /\ NoTracker.losses = 0 /\ NoTracker.sold = 0
  BY <1>4
<1>7. IsFiniteSet({}) /\ Cardinality({}) = 0
  BY FS_EmptySet
<1> QED BY <1>1, <1>3, <1>5, <1>6, <1>7, NothingLeft DEF Right

(* The file of a right tracker is right: what it leaves out of the trades  *)
(* is not counted out of the closes.                                       *)
LEMMA FiledRight ==
    ASSUME NEW t, Right(t)
    PROVE  Right([t EXCEPT !.trades = Newest(@, KeepSaved)])
<1> DEFINE kept == Newest(t.trades, KeepSaved)
           f == [t EXCEPT !.trades = kept]
<1>1. t \in Follows /\ t.trades \in Seq(Trade) /\ t.closes \in Nat /\ KeepSaved \in Nat
  BY SpotAssumption DEF Right, Follows
<1>2. Len(t.trades) \in Nat /\ Len(t.trades) <= t.closes
  BY <1>1, LenProperties DEF Right
<1>3. /\ kept \in Seq(Trade) /\ Len(kept) = IF Len(t.trades) > KeepSaved THEN KeepSaved ELSE Len(t.trades)
      /\ Len(t.trades) <= KeepSaved => kept = t.trades
  BY <1>1, NewestOf
<1> HIDE DEF kept
<1>4. /\ f \in Follows /\ f.trades = kept /\ f.pos = t.pos /\ f.grades = t.grades
      /\ f.entries = t.entries /\ f.closes = t.closes /\ f.wins = t.wins
      /\ f.losses = t.losses /\ f.sold = t.sold
  BY <1>1, <1>3 DEF Follows
<1> HIDE DEF f
<1>5. Len(f.trades) <= f.closes
  BY <1>1, <1>2, <1>3, <1>4
<1>6. f.closes = Len(f.trades) => Current(f.trades, f.grades)
  <2> SUFFICES ASSUME t.closes = Len(kept) PROVE Current(kept, t.grades)
    BY <1>4
  <2>1. Len(t.trades) <= KeepSaved /\ t.closes = Len(t.trades)
    BY <1>1, <1>2, <1>3
  <2> QED BY <1>3, <2>1 DEF Right
<1>7. Right(f)
  BY <1>4, <1>5, <1>6 DEF Right
<1> QED BY <1>7 DEF f, kept

(* A new position of a key that has none.                                  *)
LEMMA EnteredRight ==
    ASSUME NEW t, Right(t), NEW p \in Virtual, p.left = 100, \A q \in t.pos : KeyOf(q) # KeyOf(p)
    PROVE  Right([t EXCEPT !.pos = @ \cup {p}, !.entries = @ + 1])
<1> DEFINE pos == t.pos \cup {p}
           entries == t.entries + 1
           s == [t EXCEPT !.pos = pos, !.entries = entries]
<1>1. /\ t \in Follows /\ t.pos \in SUBSET Virtual /\ IsFiniteSet(t.pos) /\ t.entries \in Nat
      /\ t.closes \in Nat /\ t.sold \in Nat /\ p \notin t.pos
  BY DEF Right, Follows
<1>2. /\ IsFiniteSet(pos) /\ Cardinality(pos) = Cardinality(t.pos) + 1
      /\ Cardinality(t.pos) \in Nat
  BY <1>1, FS_AddElement, FS_CardinalityType
<1>3. Left(pos) = Left(t.pos) + 100 /\ Left(t.pos) \in Int
  BY <1>1, LeftAdd, LeftType
<1>4. pos \in SUBSET Virtual /\ entries \in Nat
  BY <1>1
<1>5. \A x, y \in pos : KeyOf(x) = KeyOf(y) => x = y
  BY DEF Right
<1>6. entries = t.entries + 1
  OBVIOUS
<1> HIDE DEF pos, entries
<1>7. /\ s \in Follows /\ s.pos = pos /\ s.entries = entries /\ s.trades = t.trades
      /\ s.grades = t.grades /\ s.closes = t.closes /\ s.wins = t.wins
      /\ s.losses = t.losses /\ s.sold = t.sold
  BY <1>1, <1>4 DEF Follows
<1> HIDE DEF s
<1>8. s.sold + Left(s.pos) = 100 * s.entries
  <2>1. t.sold + Left(t.pos) = 100 * t.entries
    BY DEF Right
  <2>2. s.sold + Left(s.pos) = t.sold + (Left(t.pos) + 100)
    BY <1>3, <1>7
  <2>3. 100 * s.entries = 100 * t.entries + 100
    BY <1>1, <1>6, <1>7
  <2> QED BY <1>1, <1>3, <2>1, <2>2, <2>3
<1>9. s.entries - Cardinality(s.pos) <= s.closes
  BY <1>1, <1>2, <1>6, <1>7 DEF Right
<1>10. Right(s)
  BY <1>2, <1>5, <1>7, <1>8, <1>9 DEF Right
<1> QED BY <1>10 DEF s, pos, entries

(* A trade more, for a part of position p: positions aside, the books are  *)
(* those of t with one close more.                                         *)
Sold(t, s, part, pos) ==
    /\ s \in Follows /\ s.pos = pos /\ s.entries = t.entries /\ s.closes = t.closes + 1
    /\ s.wins + s.losses = t.wins + t.losses + 1 /\ s.sold = t.sold + part
    /\ Len(s.trades) <= s.closes
    /\ s.closes = Len(s.trades) => Current(s.trades, s.grades)

LEMMA BookedSold ==
    ASSUME NEW t, Right(t), NEW key \in Keys, NEW part \in Nat, NEW win \in BOOLEAN,
           NEW pos \in SUBSET Virtual
    PROVE  Sold(t, [Booked(t, key, part, win) EXCEPT !.pos = pos], part, pos)
<1> DEFINE one == [key |-> key, win |-> win]
           more == Append(t.trades, one)
           trades == Newest(more, MaxKept)
           grade == Grade(trades, key)
           grades == [t.grades EXCEPT ![key] = grade]
           wins == t.wins + (IF win THEN 1 ELSE 0)
           losses == t.losses + (IF win THEN 0 ELSE 1)
           closes == t.closes + 1
           sold == t.sold + part
           s == [Booked(t, key, part, win) EXCEPT !.pos = pos]
<1>1. /\ t \in Follows /\ t.trades \in Seq(Trade) /\ t.grades \in Table
      /\ t.closes \in Nat /\ t.wins \in Nat /\ t.losses \in Nat /\ t.sold \in Nat
  BY DEF Right, Follows
<1>2. one \in Trade /\ one.key = key
  BY DEF Trade
<1>3. Len(t.trades) \in Nat /\ Len(t.trades) <= t.closes /\ MaxKept \in Nat
  BY <1>1, LenProperties, SpotAssumption DEF Right
<1> DEFINE keyOk == \A k \in Keys : one.key # k => Grade(more, k) = Grade(t.trades, k)
<1>4. keyOk
  BY <1>1, <1>2, GradeOfOthers
<1> HIDE DEF one
<1>5. more \in Seq(Trade) /\ Len(more) = Len(t.trades) + 1
  BY <1>1, <1>2, AppendProperties
<1> HIDE DEF more
<1>6. /\ trades \in Seq(Trade)
      /\ Len(trades) = IF Len(more) > MaxKept THEN MaxKept ELSE Len(more)
      /\ Len(more) <= MaxKept => trades = more
  BY <1>3, <1>5, NewestOf
<1>7. s = [t EXCEPT !.trades = trades, !.closes = closes, !.wins = wins, !.losses = losses,
                    !.sold = sold, !.grades = grades, !.pos = pos]
  BY <1>1 DEF Booked, Follows, one, more
<1>8. grade \in {"?", "poor", "fair"}
  BY GradeIn
<1>9. closes \in Nat /\ wins \in Nat /\ losses \in Nat /\ sold \in Nat
  BY <1>1
<1>10. wins + losses = t.wins + t.losses + 1
  <2>1. CASE win = TRUE
    BY <1>1, <2>1
  <2>2. CASE win = FALSE
    BY <1>1, <2>2
  <2> QED BY <2>1, <2>2
<1>11. grades \in Table /\ grades[key] = grade /\ \A k \in Keys : k # key => grades[k] = t.grades[k]
  <2> HIDE DEF grade
  <2> QED BY <1>1, <1>8 DEF Table
<1> HIDE DEF trades
<1>12. closes = Len(trades) => Current(trades, grades)
  <2> SUFFICES ASSUME closes = Len(trades), NEW k \in Keys PROVE grades[k] = Grade(trades, k)
    BY DEF Current
  <2>1. t.closes = Len(t.trades) /\ trades = more
    BY <1>1, <1>3, <1>5, <1>6
  <2>2. CASE k = key
    BY <1>11, <2>2
  <2>3. CASE k # key
    <3>1. t.grades[k] = Grade(t.trades, k)
      BY <2>1 DEF Right, Current
    <3>2. Grade(more, k) = Grade(t.trades, k)
      BY <1>2, <1>4, <2>3
    <3> QED BY <1>11, <2>1, <2>3, <3>1, <3>2
  <2> QED BY <2>2, <2>3
<1>13. Len(trades) <= closes
  BY <1>1, <1>3, <1>5, <1>6
<1> HIDE DEF grades, wins, losses, closes, sold, s
<1>14. /\ s \in Follows /\ s.pos = pos /\ s.entries = t.entries /\ s.closes = closes
       /\ s.wins = wins /\ s.losses = losses /\ s.sold = sold /\ s.trades = trades
       /\ s.grades = grades
  BY <1>1, <1>6, <1>7, <1>9, <1>11 DEF Follows
<1>15. Sold(t, s, part, pos)
  BY <1>10, <1>12, <1>13, <1>14 DEF Sold, closes, sold
<1> QED BY <1>15 DEF s

LEMMA BookedPos ==
    ASSUME NEW t, Right(t), NEW key, NEW part, NEW win
    PROVE  Booked(t, key, part, win).pos = t.pos
<1>1. t \in Follows
  BY DEF Right
<1> QED BY <1>1 DEF Booked, Follows

LEMMA VirtualKey == ASSUME NEW p \in Virtual PROVE KeyOf(p) \in Keys /\ p.left \in 1 .. 100
BY DEF Virtual, KeyOf, Key, Keys

(* Closing a part of p, up to all of it: the part is sold, what remains of *)
(* p keeps its key.                                                        *)
LEMMA SoldRight ==
    ASSUME NEW t, Right(t), NEW p \in t.pos, NEW part \in 0 .. p.left, NEW rest, NEW pos, NEW s,
           \/ part = p.left /\ pos = t.pos \ {p}
           \/ part < p.left /\ rest = [p EXCEPT !.left = p.left - part]
              /\ pos = (t.pos \ {p}) \cup {rest},
           Sold(t, s, part, pos)
    PROVE  Right(s)
<1> DEFINE base == t.pos \ {p}
<1>1. /\ t \in Follows /\ t.pos \in SUBSET Virtual /\ IsFiniteSet(t.pos) /\ t.entries \in Nat
      /\ t.closes \in Nat /\ t.sold \in Nat /\ p \in Virtual
  BY DEF Right, Follows
<1>2. p.left \in 1 .. 100 /\ part \in Nat
  BY <1>1, VirtualKey
<1>3. /\ Left(base) = Left(t.pos) - p.left /\ IsFiniteSet(base) /\ base \in SUBSET Virtual
      /\ Cardinality(base) = Cardinality(t.pos) - 1
      /\ Left(t.pos) \in Int /\ Cardinality(t.pos) \in Nat
  BY <1>1, LeftRemove, LeftType, FS_CardinalityType
<1>4. \A x \in base : KeyOf(x) # KeyOf(p)
  BY DEF Right
<1>5. /\ IsFiniteSet(pos) /\ Left(pos) = Left(t.pos) - part
      /\ Cardinality(pos) >= Cardinality(t.pos) - 1
      /\ \A x, y \in pos : KeyOf(x) = KeyOf(y) => x = y
  <2>1. CASE part = p.left /\ pos = base
    <3>1. \A x, y \in pos : KeyOf(x) = KeyOf(y) => x = y
      BY <2>1 DEF Right
    <3> HIDE DEF base
    <3> QED BY <1>3, <2>1, <3>1
  <2>2. CASE part < p.left /\ rest = [p EXCEPT !.left = p.left - part] /\ pos = base \cup {rest}
    <3>1. p.left - part \in 1 .. 100
      BY <1>2, <2>2
    <3>2. rest \in Virtual /\ rest.left = p.left - part /\ KeyOf(rest) = KeyOf(p)
      BY <1>1, <2>2, <3>1 DEF Virtual, KeyOf
    <3>3. rest \notin base
      BY <1>4, <3>2
    <3>4. \A x, y \in base : KeyOf(x) = KeyOf(y) => x = y
      BY DEF Right
    <3> HIDE DEF base
    <3>5. Left(base \cup {rest}) = Left(base) + rest.left
      BY <1>3, <3>2, <3>3, LeftAdd
    <3>6. IsFiniteSet(base \cup {rest}) /\ Cardinality(base \cup {rest}) = Cardinality(base) + 1
      BY <1>3, <3>3, FS_AddElement
    <3>7. Left(pos) = Left(t.pos) - part
      BY <1>2, <1>3, <2>2, <3>2, <3>5
    <3>8. \A x, y \in pos : KeyOf(x) = KeyOf(y) => x = y
      BY <1>4, <2>2, <3>2, <3>4
    <3>9. Cardinality(pos) >= Cardinality(t.pos) - 1
      BY <1>3, <2>2, <3>6
    <3> QED BY <2>2, <3>6, <3>7, <3>8, <3>9
  <2> QED BY <2>1, <2>2
<1>6. /\ s \in Follows /\ s.pos = pos /\ s.entries = t.entries /\ s.closes = t.closes + 1
      /\ s.wins + s.losses = t.wins + t.losses + 1 /\ s.sold = t.sold + part
      /\ Len(s.trades) <= s.closes
      /\ s.closes = Len(s.trades) => Current(s.trades, s.grades)
  BY DEF Sold
<1>7. s.sold + Left(s.pos) = 100 * s.entries
  <2>1. t.sold + Left(t.pos) = 100 * t.entries
    BY DEF Right
  <2>2. s.sold + Left(s.pos) = t.sold + part + (Left(t.pos) - part)
    BY <1>5, <1>6
  <2> QED BY <1>1, <1>2, <1>3, <1>6, <2>1, <2>2
<1>8. s.closes = s.wins + s.losses
  BY <1>6 DEF Right
<1>9. s.entries - Cardinality(s.pos) <= s.closes
  <2>1. t.entries - Cardinality(t.pos) <= t.closes
    BY DEF Right
  <2>2. Cardinality(pos) \in Nat
    BY <1>5, FS_CardinalityType
  <2> QED BY <1>1, <1>3, <1>5, <1>6, <2>1, <2>2
<1> QED BY <1>5, <1>6, <1>7, <1>8, <1>9 DEF Right

LEMMA ClosedAllRight ==
    ASSUME NEW t, Right(t), NEW p \in t.pos, NEW win \in BOOLEAN
    PROVE  Right(ClosedAll(t, p, win))
<1> DEFINE pos == t.pos \ {p}
           s == [Booked(t, KeyOf(p), p.left, win) EXCEPT !.pos = pos]
<1>1. t.pos \in SUBSET Virtual /\ p \in Virtual
  BY DEF Right, Follows
<1>2. KeyOf(p) \in Keys /\ p.left \in Nat /\ p.left \in 0 .. p.left /\ pos \in SUBSET Virtual
  BY <1>1, VirtualKey
<1>3. ClosedAll(t, p, win) = s
  BY BookedPos DEF ClosedAll
<1>4. Sold(t, s, p.left, pos)
  BY <1>2, BookedSold
<1>5. pos = t.pos \ {p}
  OBVIOUS
<1> HIDE DEF s, pos
<1>6. Right(s)
  BY <1>2, <1>4, <1>5, SoldRight
<1> QED BY <1>3, <1>6

LEMMA ClosedPartRight ==
    ASSUME NEW t, Right(t), NEW p \in t.pos, NEW pct \in {33, 50, 100}, NEW win \in BOOLEAN
    PROVE  Right(ClosedPart(t, p, pct, win))
<1> DEFINE part == (p.left * pct) \div 100
           rest == [p EXCEPT !.left = p.left - part]
           pos == (t.pos \ {p}) \cup (IF rest.left < 1 THEN {} ELSE {rest})
           s == [Booked(t, KeyOf(p), part, win) EXCEPT !.pos = pos]
<1>1. t.pos \in SUBSET Virtual /\ p \in Virtual
  BY DEF Right, Follows
<1>2. KeyOf(p) \in Keys /\ p.left \in 1 .. 100 /\ pct \in 0 .. 100
  BY <1>1, VirtualKey
<1>3. part \in 0 .. p.left
  BY <1>2, PctOf
<1>4. ClosedPart(t, p, pct, win) = s
  <2> DEFINE b == Booked(t, KeyOf(p), part, win)
  <2>1. b.pos = t.pos
    BY BookedPos
  <2>2. ClosedPart(t, p, pct, win)
          = [b EXCEPT !.pos = (b.pos \ {p}) \cup (IF rest.left < 1 THEN {} ELSE {rest})]
    BY DEF ClosedPart
  <2> HIDE DEF b, rest
  <2>3. ClosedPart(t, p, pct, win) = [b EXCEPT !.pos = pos]
    BY <2>1, <2>2
  <2> QED BY <2>3 DEF b
<1> HIDE DEF part
<1>5. rest.left = p.left - part
  BY <1>1 DEF Virtual
<1>6. part = p.left \/ part < p.left
  BY <1>2, <1>3
<1>7. part < p.left => rest \in Virtual
  BY <1>1, <1>2, <1>3 DEF Virtual
<1>8. \/ part = p.left /\ pos = t.pos \ {p}
      \/ part < p.left /\ pos = (t.pos \ {p}) \cup {rest}
  BY <1>2, <1>3, <1>5, <1>6
<1>9. pos \in SUBSET Virtual /\ part \in Nat
  BY <1>1, <1>2, <1>3, <1>7, <1>8
<1> HIDE DEF pos
<1>10. Sold(t, s, part, pos)
  BY <1>2, <1>9, BookedSold
<1>11. rest = [p EXCEPT !.left = p.left - part]
  OBVIOUS
<1> HIDE DEF s, rest
<1>12. Right(s)
  BY <1>3, <1>8, <1>10, <1>11, SoldRight
<1> QED BY <1>4, <1>12

LEMMA TrackerSaved ==
    ASSUME TrackerInv, NEW t, Right(t), SaveTracker(t)
    PROVE  \A f \in trackerFile' : Right(f)
<1>1. CASE trackerFile' = {[t EXCEPT !.trades = Newest(@, KeepSaved)]}
  <2>1. Right([t EXCEPT !.trades = Newest(@, KeepSaved)])
    BY FiledRight
  <2> QED BY <1>1, <2>1
<1>2. CASE trackerFile' \in {trackerFile, {}}
  BY <1>2 DEF TrackerInv
<1> QED BY <1>1, <1>2 DEF SaveTracker

LEMMA TrackerStepped == ASSUME TrackerInv, NEW t, Right(t), Step(t) PROVE TrackerInv'
<1>1. tracker' = t
  BY DEF Step
<1>2. trackerFile' = trackerFile \/ SaveTracker(t)
  BY DEF Step
<1>3. \A f \in trackerFile' : Right(f)
  BY <1>2, TrackerSaved DEF TrackerInv
<1> QED BY <1>1, <1>3 DEF TrackerInv

LEMMA TrackEntryStep == ASSUME TrackerInv, NEW sig \in Signal, TrackEntry(sig) PROVE TrackerInv'
<1> DEFINE p == [sym |-> sig.sym, tf |-> TrackerTf(sig.tf), ex |-> sig.ex, left |-> 100]
<1>1. p \in Virtual /\ p.left = 100 /\ KeyOf(p) = Key(sig.sym, TrackerTf(sig.tf), sig.ex)
  <2>1. sig.sym \in Symbols /\ sig.ex \in Exchanges /\ sig.tf \in TimeFrames
    BY DEF Signal
  <2> QED BY <2>1 DEF Virtual, KeyOf
<1>2. CASE Tracks(sig)
  <2>1. \A q \in tracker.pos : KeyOf(q) # KeyOf(p)
    BY <1>1, <1>2 DEF Tracks
  <2>2. Step([tracker EXCEPT !.pos = @ \cup {p}, !.entries = @ + 1])
    BY <1>2 DEF TrackEntry
  <2> HIDE DEF p
  <2>3. Right([tracker EXCEPT !.pos = @ \cup {p}, !.entries = @ + 1])
    BY <1>1, <2>1, EnteredRight DEF TrackerInv
  <2> QED BY <2>2, <2>3, TrackerStepped
<1>3. CASE ~Tracks(sig)
  BY <1>3 DEF TrackEntry, trackerVars, TrackerInv
<1> QED BY <1>2, <1>3

LEMMA TrackExitStep == ASSUME TrackerInv, NEW sig, TrackExit(sig) PROVE TrackerInv'
<1>1. CASE UNCHANGED <<trackerVars, faults>>
  BY <1>1 DEF trackerVars, TrackerInv
<1>2. ASSUME NEW p \in Matching(sig), NEW win \in BOOLEAN,
             \/ Step(ClosedAll(tracker, p, win))
             \/ Step(ClosedPart(tracker, p, ExitPct(sig), win))
      PROVE  TrackerInv'
  <2>1. p \in tracker.pos /\ Right(tracker)
    BY DEF Matching, TrackerInv
  <2>2. Right(ClosedAll(tracker, p, win)) /\ Right(ClosedPart(tracker, p, ExitPct(sig), win))
    BY <2>1, ExitPctType, ClosedAllRight, ClosedPartRight
  <2> QED BY <1>2, <2>2, TrackerStepped
<1> QED BY <1>1, <1>2 DEF TrackExit

LEMMA TrackerInit == Init => TrackerInv
BY NewTrackerRight DEF Init, TrackerInv

LEMMA TrackerNext == TrackerInv /\ [Next]_vars => TrackerInv'
<1> SUFFICES ASSUME TrackerInv, [Next]_vars PROVE TrackerInv'
  OBVIOUS
<1>1. ASSUME NEW w \in Workers, NEW sig \in Signal, Receive(w, sig) PROVE TrackerInv'
  BY <1>1, TrackEntryStep, TrackExitStep DEF Receive
<1>2. ASSUME UNCHANGED trackerVars PROVE TrackerInv'
  BY <1>2 DEF trackerVars, TrackerInv
<1>3. ASSUME NEW w \in Workers, NEW price \in Prices, Buy(w, price) \/ Sell(w, price)
      PROVE TrackerInv'
  BY <1>2, <1>3 DEF Buy, Sell
<1>4. ASSUME NEW w \in Workers, Skip(w) \/ ReadGrade(w) PROVE TrackerInv'
  BY <1>2, <1>4 DEF Skip, ReadGrade
<1>5. CASE PeriodicSave
  <2>1. tracker' = tracker /\ (SaveTracker(tracker) \/ UNCHANGED trackerFile)
    BY <1>5 DEF PeriodicSave
  <2>2. \A f \in trackerFile' : Right(f)
    BY <2>1, TrackerSaved DEF TrackerInv
  <2> QED BY <2>1, <2>2 DEF TrackerInv
<1>6. CASE Crash \/ Stop
  <2>1. tracker' = NoTracker /\ trackerFile' = trackerFile
    BY <1>6 DEF Crash, Stop, End
  <2> QED BY <2>1, NewTrackerRight DEF TrackerInv
<1>7. CASE Restart
  <2>1. trackerFile' = trackerFile /\ (tracker' = NoTracker \/ tracker' \in trackerFile)
    BY <1>7 DEF Restart
  <2> QED BY <2>1, NewTrackerRight DEF TrackerInv
<1>8. CASE UNCHANGED vars
  BY <1>8 DEF vars, TrackerInv
<1> QED BY <1>1, <1>3, <1>4, <1>5, <1>6, <1>7, <1>8 DEF Next

LEMMA TrackerAlways == Spec => []TrackerInv
BY TrackerInit, TrackerNext, PTL DEF Spec

(* However the parts are rounded and whichever take profits come, in any   *)
(* order, twice or not at all: what was sold of the virtual positions and  *)
(* what is left of them make up the entries.                               *)
THEOREM SharesAccounted == Spec => []SharesConserved
<1>1. TrackerInv => SharesConserved
  BY DEF TrackerInv, Right, SharesConserved, Trackers
<1> QED BY <1>1, TrackerAlways, PTL

(* refresh_grade at every close of the key is enough: as long as no trade  *)
(* was dropped, the cached grade is the one computed from all of them.     *)
THEOREM GradesHold == Spec => []GradeCurrent
<1>1. TrackerInv => GradeCurrent
  BY DEF TrackerInv, Right, Current, GradeCurrent, Trackers
<1> QED BY <1>1, TrackerAlways, PTL
===============================================================================
