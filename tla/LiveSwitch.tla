------------------------------- MODULE LiveSwitch -------------------------------
(***************************************************************************)
(* auto_live: the keeper (worker 0, in periodic_tasks) turns the paper     *)
(* trades into levels, publishes the eligible keys and switches between    *)
(* paper and live trading, while the other workers take entries through    *)
(* the gates of handle_entry.  The mode is four pieces of state written    *)
(* one after the other and read without a common lock:                     *)
(* m_auto_live_active, TradingConfig::shadow_mode, the shadow flag of      *)
(* PortfolioRiskManager and m_eligible_keys.                               *)
(*                                                                         *)
(* A trade of the books is an input here: ShadowLearning and SpotTrading   *)
(* say how it comes about.  So are the positions, which FuturesEngine has: *)
(* an entry comes with the gates of live trading it would pass, the limits *)
(* of live trading among them.  Both directions of a context key           *)
(* SYMBOL:TF:DIRECTION are always treated alike and stand for one key.     *)
(***************************************************************************)
EXTENDS LiveReadiness, FiniteSets, FiniteSetsExt, Folds

CONSTANTS
    Symbols,
    Books,          \* symbol, market and time frame of the paper trades
    TimeFrames,     \* time frame of an entry, as the engine names it
    Workers,        \* the workers but the keeper
    GateSets,       \* sets of gates an entry may pass
    Results,        \* pnl of a paper trade
    MinSymbols,     \* min_symbols_for_live (3)
    MaxTrades,      \* bound: paper trades of each book
    MaxFaults,      \* bound: writes that fail
    MaxCrashes,     \* bound: ends of the process
    MaxTrouble      \* bound: failed writes and ends before an entry

Gates == {"tier", "tfTier", "tp1", "fee", "limits"}

ASSUME SwitchAssumption ==
    /\ Books \subseteq [sym : Symbols, market : {"futures", "spot"}, tf : TimeFrames]
    /\ IsFiniteSet(Books) /\ IsFiniteSet(Symbols)
    /\ GateSets \subseteq SUBSET Gates /\ Results \subseteq Int
    /\ MinSymbols \in Nat \ {0}
    /\ MaxTrades \in [Books -> Nat]
    /\ \A n \in {MaxFaults, MaxCrashes, MaxTrouble} : n \in Nat

VARIABLES
    config,      \* shadow_mode as the configuration file has it
    book,        \* m_trades of both trackers, added up
    active,      \* m_auto_live_active
    shadow,      \* m_trading.shadow_mode
    limits,      \* m_port_risk: "paper" or "live" limits
    eligible,    \* m_eligible_keys
    keeper,      \* where the keeper is in its round, and what it has read, or that
                 \* it is in a request that never returns
    passes,      \* m_confidence: consecutive_passes of a key
    passFile,    \* confidence_scores.json: its content, none when unreadable
    worker,      \* where each worker is in handle_entry, and what it has read
    faults,      \* writes that failed
    crashes      \* ends of the process

vars == <<config, book, active, shadow, limits, eligible, keeper, passes, passFile,
          worker, faults, crashes>>

modeVars == <<active, shadow, limits>>
recordVars == <<config, book, passes, passFile, faults, crashes>>

Resting == [at |-> "rest"]

Idle == [at |-> "idle"]

(* "all" stands for the key of the whole symbol. *)
SymbolKey(sym) == [sym |-> sym, tf |-> "all"]
ContextKey(sym, tf) == [sym |-> sym, tf |-> tf]

Keys == [sym : Symbols, tf : TimeFrames \cup {"all"}]

NoPasses == [k \in Keys |-> 0]

Init ==
    /\ config \in BOOLEAN
    /\ book = [b \in Books |-> NoLine]
    /\ active = FALSE /\ shadow = config
    /\ limits = (IF config THEN "paper" ELSE "live")
    /\ eligible = {} /\ keeper = Resting
    /\ passes = NoPasses /\ passFile = {}
    /\ worker = [w \in Workers |-> Idle]
    /\ faults = 0 /\ crashes = 0

-----------------------------------------------------------------------------
(* The books *)

(* ShadowTracker and SpotShadowTracker close a virtual position. *)
PaperTrade(b, pnl) ==
    /\ Total(book[b]) < MaxTrades[b]
    /\ book' = [book EXCEPT ![b] = Plus(@, [wins |-> IF pnl > 0 THEN 1 ELSE 0,
                                            losses |-> IF pnl > 0 THEN 0 ELSE 1,
                                            pnl |-> pnl])]
    /\ UNCHANGED <<config, modeVars, eligible, keeper, passes, passFile, worker, faults,
                   crashes>>

(* get_symbol_report: all time frames of a symbol together. *)
Report(market) ==
    [sym \in Symbols |->
        MapThenFoldSet(Plus, NoLine, LAMBDA b : book[b], LAMBDA S : CHOOSE b \in S : TRUE,
                       {b \in Books : b.market = market /\ b.sym = sym})]

(* get_symbol_tf_report *)
TfReport(market) == [b \in {x \in Books : x.market = market} |-> book[b]]

(* A report has no line of what was never traded. *)
Listed(line) == Total(line) > 0

-----------------------------------------------------------------------------
(* A round of the keeper *)

ReadFutures ==
    /\ keeper.at = "rest"
    /\ keeper' = [at |-> "futures", futures |-> Report("futures")]
    /\ UNCHANGED <<recordVars, modeVars, eligible, worker>>

(* Mutant of SavePasses: the file gets the counts from before the round. *)
SavePassesBefore(table) == passFile' = {passes} /\ UNCHANGED faults

(* save_confidence: nobody looks at the stream or at what rename returns,  *)
(* so that the old file may stay or a truncated one replace it.            *)
SavePasses(table) ==
    \/ passFile' = {table} /\ UNCHANGED faults
    \/ /\ faults < MaxFaults /\ faults' = faults + 1
       /\ passFile' \in {passFile, {}}

(* What refresh_eligible makes of one symbol.  Its lines come ready ones   *)
(* first (evaluate_all sorts by level); the rolling window is kept per     *)
(* name, that of the spot line when there is one.                          *)
SymbolRound(f, s, count) ==
    LET window == IF Listed(s) THEN s ELSE f
        ready == (IF Listed(f) /\ Ready(f) THEN 1 ELSE 0)
                 + (IF Listed(s) /\ Ready(s) THEN 1 ELSE 0)
        unready == (IF Listed(f) THEN 1 ELSE 0) + (IF Listed(s) THEN 1 ELSE 0) - ready
        demoted == ready > 0 /\ Demotes(window)
        passed == IF demoted THEN 0
                  ELSE IF ready = 2 THEN Pass(Pass(count))
                  ELSE IF ready = 1 THEN Pass(count) ELSE count
    IN  [ready |-> ready, demoted |-> demoted,
         count |-> IF unready = 2 THEN Miss(Miss(passed))
                   ELSE IF unready = 1 THEN Miss(passed) ELSE passed]

(* get_symbol_report of the spot tracker, then refresh_eligible with its   *)
(* save.  can_go_live counts lines, demoted or not, of both markets.       *)
Refresh ==
    /\ keeper.at = "futures"
    /\ LET spot == Report("spot")
           round == [sym \in Symbols |->
                       SymbolRound(keeper.futures[sym], spot[sym], passes[SymbolKey(sym)])]
           table == [k \in Keys |-> IF k.tf = "all" THEN round[k.sym].count ELSE passes[k]]
       IN  /\ passes' = table
           /\ SavePasses(table)
           /\ keeper' =
                 [at |-> "refreshed",
                  can |-> MapThenSumSet(LAMBDA sym : round[sym].ready, Symbols) >= MinSymbols,
                  next |-> {SymbolKey(sym) : sym \in {x \in Symbols :
                                 round[x].ready > 0 /\ ~round[x].demoted}}]
    /\ UNCHANGED <<config, book, modeVars, eligible, worker, crashes>>

ReadTfFutures ==
    /\ keeper.at = "refreshed"
    /\ keeper' = [at |-> "tf", can |-> keeper.can, next |-> keeper.next,
                  futures |-> TfReport("futures")]
    /\ UNCHANGED <<recordVars, modeVars, eligible, worker>>

(* get_symbol_tf_report of the spot tracker, then                          *)
(* enrich_eligible_with_context: a line that is ready makes its context    *)
(* eligible and more trusted; nothing here or in a later round makes a     *)
(* context less trusted, and demotion is not looked at.                    *)
Enrich ==
    /\ keeper.at = "tf"
    /\ LET LineOf(b) == IF b.market = "futures" THEN keeper.futures[b] ELSE book[b]
           ready == {b \in Books : Listed(LineOf(b)) /\ Ready(LineOf(b))}
           Times(k) == Cardinality({b \in ready : ContextKey(b.sym, b.tf) = k})
       IN  /\ passes' = [k \in Keys |-> IF Times(k) = 0 THEN passes[k]
                                        ELSE IF Times(k) = 1 THEN Pass(passes[k])
                                        ELSE Pass(Pass(passes[k]))]
           /\ keeper' = [at |-> "enriched", can |-> keeper.can,
                         next |-> keeper.next \cup {ContextKey(b.sym, b.tf) : b \in ready}]
    /\ UNCHANGED <<config, book, modeVars, eligible, passFile, worker, faults, crashes>>

Publish ==
    /\ keeper.at = "enriched"
    /\ eligible' = keeper.next
    /\ keeper' = [at |-> "published", can |-> keeper.can]
    /\ UNCHANGED <<recordVars, modeVars, worker>>

-----------------------------------------------------------------------------
(* The switch, one store at a time *)

Turning ==
    CASE keeper.at \in {"activating", "opened"} -> {"activate"}
      [] keeper.at \in {"leaving", "closed"} -> {"deactivate"}
      [] OTHER -> {}

(* A store of the keeper falls into the entries under way. *)
StoreDuring(turn, next) ==
    /\ keeper' = [at |-> next]
    /\ worker' = [w \in Workers |-> IF worker[w] = Idle THEN Idle
                                    ELSE [worker[w] EXCEPT !.during = @ \cup {turn}]]
    /\ UNCHANGED <<recordVars, eligible>>

WantsLive == keeper.can /\ shadow /\ ~active
WantsPaper == active /\ ~keeper.can

NoSwitch ==
    /\ keeper.at = "published" /\ ~WantsLive /\ ~WantsPaper
    /\ keeper' = Resting
    /\ UNCHANGED <<recordVars, modeVars, eligible, worker>>

(* Mutant of StartLive: m_auto_live_active is never set. *)
StartLiveUnmarked ==
    /\ keeper.at = "published" /\ WantsLive
    /\ StoreDuring("activate", "activating") /\ UNCHANGED modeVars

StartLive ==
    /\ keeper.at = "published" /\ WantsLive
    /\ active' = TRUE
    /\ StoreDuring("activate", "activating") /\ UNCHANGED <<shadow, limits>>

OpenLive ==
    /\ keeper.at = "activating"
    /\ shadow' = FALSE
    /\ StoreDuring("activate", "opened") /\ UNCHANGED <<active, limits>>

(* set_shadow_mode(false); init_leverage follows. *)
LimitLive ==
    /\ keeper.at = "opened"
    /\ limits' = "live"
    /\ StoreDuring("activate", "rest") /\ UNCHANGED <<active, shadow>>

(* Mutant of StopLive: the flag stays. *)
StopLiveMarked ==
    /\ keeper.at = "published" /\ WantsPaper
    /\ StoreDuring("deactivate", "leaving") /\ UNCHANGED modeVars

StopLive ==
    /\ keeper.at = "published" /\ WantsPaper
    /\ active' = FALSE
    /\ StoreDuring("deactivate", "leaving") /\ UNCHANGED <<shadow, limits>>

CloseLive ==
    /\ keeper.at = "leaving"
    /\ shadow' = TRUE
    /\ StoreDuring("deactivate", "closed") /\ UNCHANGED <<active, limits>>

(* Mutant of LimitPaper: the limits stay those of live trading. *)
LimitPaperNot ==
    /\ keeper.at = "closed"
    /\ StoreDuring("deactivate", "rest") /\ UNCHANGED modeVars

LimitPaper ==
    /\ keeper.at = "closed"
    /\ limits' = "paper"
    /\ StoreDuring("deactivate", "rest") /\ UNCHANGED <<active, shadow>>

(* A request of the keeper never returns, for none of them has a timeout:   *)
(* the reconciliation and the balance before a round, init_leverage after   *)
(* the last store of an activation, or an order of a signal it handles.     *)
FallSilent ==
    /\ keeper.at = "rest"
    /\ keeper' = [at |-> "silent"]
    /\ UNCHANGED <<recordVars, modeVars, eligible, worker>>

Round == \/ ReadFutures \/ Refresh \/ ReadTfFutures \/ Enrich \/ Publish \/ NoSwitch
         \/ StartLive \/ OpenLive \/ LimitLive \/ StopLive \/ CloseLive \/ LimitPaper

-----------------------------------------------------------------------------
(* handle_entry, with the symbol lock held *)

(* The worker goes on with what it knows, or gives the entry up. *)
Move(w, known) ==
    /\ worker' = [worker EXCEPT ![w] = known]
    /\ UNCHANGED <<recordVars, modeVars, eligible, keeper>>

OnTo(w, place) == Move(w, [worker[w] EXCEPT !.at = place])

GiveUp(w) == Move(w, Idle)

Fails(w, gate) == gate \notin worker[w].gates

(* An entry arrives: which gates of live trading it would pass is given. *)
Arrive(w, sym, tf, gates) ==
    /\ worker[w] = Idle /\ faults + crashes <= MaxTrouble
    /\ \A v \in {x \in Workers : worker[x] # Idle} : worker[v].sym # sym
    /\ worker' = [worker EXCEPT ![w] =
                     [at |-> "active", sym |-> sym, tf |-> tf, gates |-> gates,
                      eligible |-> FALSE, during |-> Turning]]
    /\ UNCHANGED <<recordVars, modeVars, eligible, keeper>>

ReadActive(w) ==
    /\ worker[w].at = "active"
    /\ OnTo(w, IF active THEN "eligible" ELSE "tier")

ReadEligible(w) ==
    /\ worker[w].at = "eligible"
    /\ LET it == worker[w]
       IN  Move(w, [it EXCEPT !.at = "tier",
                              !.eligible = \/ ContextKey(it.sym, it.tf) \in eligible
                                           \/ SymbolKey(it.sym) \in eligible])

CheckTier(w) ==
    /\ worker[w].at = "tier"
    /\ IF ~shadow /\ Fails(w, "tier") THEN GiveUp(w) ELSE OnTo(w, "grade")

(* The shadow grade filter, then the learner and the reversal filter, which *)
(* may end the entry in either mode.                                        *)
CheckGrade(w) ==
    /\ worker[w].at = "grade"
    /\ LET line == Report("futures")[worker[w].sym]
       IN  \/ GiveUp(w)
           \/ ~(Listed(line) /\ GradeBlocksEntry(line)) /\ OnTo(w, "tfTier")

(* Mutant of CheckTfTier: an eligible symbol is let through. *)
CheckTfTierBypassed(w) ==
    /\ worker[w].at = "tfTier"
    /\ IF ~shadow /\ ~worker[w].eligible /\ Fails(w, "tfTier") THEN GiveUp(w)
       ELSE OnTo(w, "liveTrade")

CheckTfTier(w) ==
    /\ worker[w].at = "tfTier"
    /\ IF ~shadow /\ Fails(w, "tfTier") THEN GiveUp(w) ELSE OnTo(w, "liveTrade")

(* is_live_trade: two reads. *)
ReadLiveTrade(w) ==
    /\ worker[w].at = "liveTrade"
    /\ OnTo(w, IF shadow THEN "fee" ELSE "tp1")

CheckTp1(w) ==
    /\ worker[w].at = "tp1"
    /\ IF ~(active /\ ~worker[w].eligible) /\ Fails(w, "tp1") THEN GiveUp(w)
       ELSE OnTo(w, "fee")

(* An entry without first target has no fee check. *)
CheckFee(w) ==
    /\ worker[w].at = "fee"
    /\ IF "tp1" \in worker[w].gates /\ Fails(w, "fee") /\ ~shadow THEN GiveUp(w)
       ELSE OnTo(w, "limits")

(* Under m_pos_mtx: no position of the symbol, then check_entry.  The      *)
(* limits of paper trading are wider than those of live trading.           *)
CheckEntry(w) ==
    /\ worker[w].at = "limits"
    /\ \/ GiveUp(w)
       \/ ~(limits = "live" /\ Fails(w, "limits")) /\ OnTo(w, "mode")

(* force_shadow: two reads again. *)
ReadMode(w) ==
    /\ worker[w].at = "mode"
    /\ OnTo(w, IF shadow THEN "paper" ELSE "force")

ForceShadow(w) ==
    /\ worker[w].at = "force"
    /\ OnTo(w, IF active /\ ~worker[w].eligible THEN "paper" ELSE "real")

(* register_position at once on paper, for real an order before it. *)
Place(w) == worker[w].at \in {"paper", "real"} /\ GiveUp(w)

Entry(w) == \/ ReadActive(w) \/ ReadEligible(w) \/ CheckTier(w) \/ CheckGrade(w)
            \/ CheckTfTier(w) \/ ReadLiveTrade(w) \/ CheckTp1(w) \/ CheckFee(w)
            \/ CheckEntry(w) \/ ReadMode(w) \/ ForceShadow(w) \/ Place(w)

-----------------------------------------------------------------------------
(* The process ends and start() runs again: the mode is that of the        *)
(* configuration and the confidence that of the file.                      *)
Restart ==
    /\ crashes < MaxCrashes /\ crashes' = crashes + 1
    /\ active' = FALSE /\ shadow' = config
    /\ limits' = (IF config THEN "paper" ELSE "live")
    /\ eligible' = {} /\ keeper' = Resting
    /\ passes' = (IF passFile = {} THEN NoPasses ELSE CHOOSE t \in passFile : TRUE)
    /\ worker' = [w \in Workers |-> Idle]
    /\ UNCHANGED <<config, book, passFile, faults>>

Next ==
    \/ \E b \in Books, pnl \in Results : PaperTrade(b, pnl)
    \/ Round \/ FallSilent
    \/ \E w \in Workers, sym \in Symbols, tf \in TimeFrames, gates \in GateSets :
           Arrive(w, sym, tf, gates)
    \/ \E w \in Workers : Entry(w)
    \/ Restart

(* Worker 0 gets to its round once no signal waits, and goes through it,   *)
(* unless a request never returns.  Else some step of a round is always    *)
(* enabled, and every one moves the keeper, so that this is weak fairness  *)
(* of Round.                                                               *)
Fairness == []<>(keeper.at = "silent") \/ []<><<keeper' # keeper>>_vars

Spec == Init /\ [][Next]_vars /\ Fairness

-----------------------------------------------------------------------------
(* Properties *)

(* The worker is about to send an order to the exchange. *)
Ordering(w) == worker[w].at = "real"

(* Where trading starts on paper, a symbol that was not eligible when its  *)
(* entry was looked at gets a real order only if the keeper stopped live   *)
(* trading meanwhile: activation sets m_auto_live_active before            *)
(* shadow_mode (execution_engine.hpp:776), deactivation clears it before   *)
(* (792), and an entry reads shadow_mode before it (1223).                 *)
IneligibleStaysPaper ==
    \A w \in Workers :
        config /\ Ordering(w) /\ ~worker[w].eligible => "deactivate" \in worker[w].during

(* An order skips a gate of live trading only if a switch to live trading  *)
(* ran into its entry; the gate of the first target also if a switch to    *)
(* paper did and the symbol was not eligible (execution_engine.hpp:978-    *)
(* 1195).                                                                  *)
GatesHeldOutsideSwitch ==
    \A w \in Workers : Ordering(w) =>
        \/ "activate" \in worker[w].during
        \/ /\ {"tier", "tfTier", "limits"} \subseteq worker[w].gates
           /\ \/ {"tp1", "fee"} \subseteq worker[w].gates
              \/ /\ "tp1" \notin worker[w].gates
                 /\ ~worker[w].eligible /\ "deactivate" \in worker[w].during

(* Between two rounds, and when no round follows because a request never   *)
(* returns, the pieces of the mode agree: auto-live is on only   *)
(* with live trading, and a system configured for paper trades live only   *)
(* by auto-live (execution_engine.hpp:205, 774-794).                       *)
ModesAgree ==
    keeper.at \in {"rest", "silent"} =>
        /\ (limits = "paper") = shadow
        /\ active => ~shadow
        /\ IF config THEN shadow \/ active ELSE ~shadow /\ ~active

(* While no write failed, a restart forgets of the confidence only what    *)
(* the last round gave to contexts after the save, one pass a line         *)
(* (live_readiness.hpp:424, 490).                                          *)
ConfidenceLag ==
    LET saved == IF passFile = {} THEN NoPasses ELSE CHOOSE t \in passFile : TRUE
    IN  faults = 0 =>
          \A k \in Keys :
             passes[k] - saved[k] \in
                0..Cardinality({b \in Books : ContextKey(b.sym, b.tf) = k})

(* Enough lines of the books are ready. *)
EnoughReady ==
    Cardinality({x \in Symbols \X {"futures", "spot"} :
                   LET line == Report(x[2])[x[1]] IN Listed(line) /\ Ready(line)})
        >= MinSymbols

(* Once the books stay as they are, a system configured for paper comes to *)
(* trade live if enough symbols are ready and on paper if not, and stays   *)
(* so, unless a request of the keeper never returns                        *)
(* (execution_engine.hpp:725-799).                                         *)
ModeFollowsBooks ==
    <>[](config /\ keeper.at # "silent" =>
                /\ shadow = ~EnoughReady /\ active = EnoughReady
                /\ limits = (IF EnoughReady THEN "live" ELSE "paper"))
=============================================================================
