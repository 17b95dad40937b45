--------------------------- MODULE LiveSwitchProofs ---------------------------
(***************************************************************************)
(* Theorems about LiveSwitch, for all sets of symbols, books, workers and  *)
(* gates: which orders the switch between paper and live trading lets      *)
(* through.  And one about LiveReadiness: a line that is ready is never    *)
(* demoted by its own figures.                                             *)
(***************************************************************************)
EXTENDS LiveSwitch, FiniteSetTheorems, TLAPS

-----------------------------------------------------------------------------
(* The rules of readiness *)

(* evaluate_symbol: a level of READY or PROVEN stands on SmallSample trades *)
(* at least, half of them won, and a gain (live_readiness.hpp:162-224).     *)
THEOREM ReadyIsEarned ==
    ASSUME NEW r \in Line, Ready(r)
    PROVE  Total(r) >= SmallSample /\ WinRateAtLeast(r, 50) /\ r.pnl > 0
<1>1. r.wins \in Nat /\ r.losses \in Nat /\ r.pnl \in Int /\ SmallSample \in Nat
  BY ReadinessAssumption DEF Line
<1>2. Grade(r) \in {"?", "A+", "A", "B", "C", "D", "F"}
  BY DEF Grade
<1>3. Grade(r) \in {"A+", "A", "B"} /\ ~(Total(r) < SmallSample)
  BY <1>2 DEF Ready, Level
<1>4. Grade(r) \in {"A+", "A", "B"} => WinRateAtLeast(r, 50) /\ r.pnl > 0
  BY <1>1 DEF Grade, WinRateAtLeast, Total
<1> QED BY <1>1, <1>3, <1>4 DEF Total

(* The walk-forward demotion of refresh_eligible works on the totals       *)
(* (live_readiness.hpp:358-370): it never demotes a ready line by its own  *)
(* figures.  What it does demote, it demotes for the line of the same name *)
(* on the other market.                                                    *)
THEOREM ReadyNeverDemotesItself ==
    ASSUME NEW r \in Line, Ready(r)
    PROVE  ~Demotes(r)
<1>1. WinRateAtLeast(r, 50) /\ r.pnl > 0
  BY ReadyIsEarned
<1>2. r.wins \in Nat /\ r.losses \in Nat /\ r.pnl \in Int /\ RollingWindow \in Nat
  BY ReadinessAssumption DEF Line
<1> QED BY <1>1, <1>2 DEF Demotes, RollingWins, Smaller, Total, WinRateAtLeast

-----------------------------------------------------------------------------
(* The inductive invariant *)

Places == {"active", "eligible", "tier", "grade", "tfTier", "liveTrade", "tp1", "fee",
           "limits", "mode", "force", "paper", "real"}

AnEntry == [at : Places, sym : Symbols, tf : TimeFrames, gates : SUBSET Gates,
            eligible : BOOLEAN, during : SUBSET {"activate", "deactivate"}]

SwitchTypes ==
    /\ config \in BOOLEAN /\ active \in BOOLEAN /\ shadow \in BOOLEAN
    /\ limits \in {"paper", "live"}
    /\ worker \in [Workers -> AnEntry \cup {Idle}]

(* Where the keeper is between its four stores decides the mode. *)
Settled ==
    /\ (limits = "paper") = shadow
    /\ active => ~shadow
    /\ IF config THEN shadow \/ active ELSE ~shadow /\ ~active

Between == {"rest", "silent", "futures", "refreshed", "tf", "enriched", "published"}

KeeperMode ==
    \/ /\ keeper.at \in Between
       /\ Settled
    \/ keeper.at = "activating" /\ config /\ active /\ shadow /\ limits = "paper"
    \/ keeper.at = "opened" /\ config /\ active /\ ~shadow /\ limits = "paper"
    \/ keeper.at = "leaving" /\ config /\ ~active /\ ~shadow /\ limits = "live"
    \/ keeper.at = "closed" /\ config /\ ~active /\ shadow /\ limits = "live"

(* What an entry under way has seen of the switch. *)
Opening(e) == "activate" \in e.during
Closing(e) == "deactivate" \in e.during

(* Past a gate, the entry passed it, or trading is on paper still, or the  *)
(* switch to live trading has run into it.                                 *)
Excused(e) == Opening(e) \/ shadow

(* The gate of the first target lets through what the eligibility check    *)
(* will turn into a paper trade, unless auto-live ends.                    *)
BoundForPaper(e) ==
    "tp1" \notin e.gates /\ ~e.eligible /\ (active \/ Closing(e))

EntryInv(e) ==
    /\ keeper.at \in {"activating", "opened"} => Opening(e)
    /\ keeper.at \in {"leaving", "closed"} => Closing(e)
    /\ e.at \in {"grade", "tfTier", "liveTrade", "tp1", "fee", "limits", "mode"}
         => Excused(e) \/ "tier" \in e.gates
    /\ e.at \in {"liveTrade", "tp1", "fee", "limits", "mode"}
         => Excused(e) \/ "tfTier" \in e.gates
    /\ e.at = "fee" => Excused(e) \/ "tp1" \in e.gates \/ BoundForPaper(e)
    /\ e.at \in {"limits", "mode"}
         => Excused(e) \/ {"tp1", "fee"} \subseteq e.gates \/ BoundForPaper(e)
    /\ e.at = "mode" => Excused(e) \/ "limits" \in e.gates
    /\ e.at = "force" =>
         /\ config => active \/ Closing(e)
         /\ Opening(e) \/ /\ {"tier", "tfTier", "limits"} \subseteq e.gates
                          /\ {"tp1", "fee"} \subseteq e.gates \/ BoundForPaper(e)
    /\ e.at = "real" =>
         /\ config => e.eligible \/ Closing(e)
         /\ Opening(e) \/ /\ {"tier", "tfTier", "limits"} \subseteq e.gates
                          /\ \/ {"tp1", "fee"} \subseteq e.gates
                             \/ BoundForPaper(e) /\ Closing(e)

SwitchInv ==
    /\ SwitchTypes /\ KeeperMode
    /\ \A w \in Workers : worker[w] # Idle => EntryInv(worker[w])

-----------------------------------------------------------------------------
(* Lemmas about the steps *)

LEMMA InitSwitch == Init => SwitchInv
<1> SUFFICES ASSUME Init PROVE SwitchInv
  OBVIOUS
<1>1. SwitchTypes
  BY DEF Init, SwitchTypes
<1>2. keeper.at = "rest" /\ \A w \in Workers : worker[w] = Idle
  BY DEF Init, Resting
<1>3. CASE config = TRUE
  BY <1>1, <1>2, <1>3 DEF Init, SwitchInv, KeeperMode, Between, Settled
<1>4. CASE config = FALSE
  BY <1>1, <1>2, <1>4 DEF Init, SwitchInv, KeeperMode, Between, Settled
<1> QED BY <1>3, <1>4 DEF Init

LEMMA EntryShape ==
    ASSUME SwitchInv, NEW w \in Workers, worker[w].at # "idle"
    PROVE  worker[w] \in AnEntry /\ worker[w] # Idle /\ EntryInv(worker[w])
BY DEF SwitchInv, SwitchTypes, Idle

(* The keeper reads and computes, and the mode stays. *)
LEMMA QuietStep ==
    ASSUME SwitchInv, UNCHANGED <<config, modeVars, worker>>,
           keeper.at \in Between,
           keeper'.at \in Between
    PROVE  SwitchInv'
<1>1. SwitchTypes'
  BY DEF SwitchInv, SwitchTypes, modeVars
<1>2. KeeperMode'
  BY DEF SwitchInv, KeeperMode, Between, Settled, modeVars
<1>3. ASSUME NEW w \in Workers, worker'[w] # Idle PROVE EntryInv(worker[w])'
  BY <1>3 DEF SwitchInv, Between, EntryInv, Excused, Opening, Closing, BoundForPaper, modeVars
<1> QED BY <1>1, <1>2, <1>3 DEF SwitchInv

(* One worker goes on, and what it knows fits the invariant. *)
LEMMA WorkerStep ==
    ASSUME SwitchInv, NEW w \in Workers, NEW e \in AnEntry \cup {Idle},
           e # Idle => EntryInv(e),
           worker' = [worker EXCEPT ![w] = e],
           UNCHANGED <<config, modeVars, keeper>>
    PROVE  SwitchInv'
<1>1. SwitchTypes'
  BY DEF SwitchInv, SwitchTypes, modeVars
<1>2. KeeperMode'
  BY DEF SwitchInv, KeeperMode, Between, Settled, modeVars
<1>3. ASSUME NEW v \in Workers, worker'[v] # Idle PROVE EntryInv(worker[v])'
  <2>1. worker'[v] = IF v = w THEN e ELSE worker[v]
    BY DEF SwitchInv, SwitchTypes
  <2>2. EntryInv(worker'[v])
    BY <1>3, <2>1 DEF SwitchInv
  <2> QED BY <2>2 DEF EntryInv, Excused, Opening, Closing, BoundForPaper, modeVars
<1> QED BY <1>1, <1>2, <1>3 DEF SwitchInv

(* A store of the keeper is noted by the entries under way. *)
LEMMA StoreNoted ==
    ASSUME SwitchInv, NEW turn \in {"activate", "deactivate"}, NEW next,
           StoreDuring(turn, next), NEW w \in Workers, worker'[w] # Idle
    PROVE  /\ keeper'.at = next /\ config' = config
           /\ worker[w] \in AnEntry /\ worker[w] # Idle /\ EntryInv(worker[w])
           /\ worker'[w] = [worker[w] EXCEPT !.during = @ \cup {turn}]
           /\ worker'[w] \in AnEntry
<1>1. worker'[w] = IF worker[w] = Idle THEN Idle
                   ELSE [worker[w] EXCEPT !.during = @ \cup {turn}]
  BY DEF StoreDuring
<1>2. worker[w] \in AnEntry /\ worker[w] # Idle /\ EntryInv(worker[w])
  BY <1>1 DEF SwitchInv, SwitchTypes
<1>3. [worker[w] EXCEPT !.during = @ \cup {turn}] \in AnEntry
  BY <1>2 DEF AnEntry
<1> QED BY <1>1, <1>2, <1>3 DEF StoreDuring, recordVars

LEMMA StoreTypes ==
    ASSUME SwitchInv, NEW turn \in {"activate", "deactivate"}, NEW next,
           StoreDuring(turn, next), active' \in BOOLEAN, shadow' \in BOOLEAN,
           limits' \in {"paper", "live"}
    PROVE  SwitchTypes'
<1>1. \A w \in Workers : worker'[w] \in AnEntry \cup {Idle}
  BY StoreNoted
<1>2. worker' \in [Workers -> AnEntry \cup {Idle}]
  BY <1>1 DEF StoreDuring
<1> QED BY <1>2 DEF SwitchInv, SwitchTypes, StoreDuring, recordVars

-----------------------------------------------------------------------------
(* The steps of the keeper *)

(* Activation: m_auto_live_active, then shadow_mode, then the limits. *)
LEMMA ActivateKeeps ==
    ASSUME SwitchInv, StartLive \/ OpenLive \/ LimitLive
    PROVE  SwitchInv'
<1>0. PICK next \in {"activating", "opened", "rest"} : StoreDuring("activate", next)
  BY DEF StartLive, OpenLive, LimitLive
<1>1. SwitchTypes'
  BY <1>0, StoreTypes DEF StartLive, OpenLive, LimitLive, SwitchInv, SwitchTypes
<1>2. KeeperMode'
  <2>1. CASE StartLive
    BY <2>1 DEF StartLive, StoreDuring, WantsLive, SwitchInv, SwitchTypes, KeeperMode, Between, Settled,
                recordVars
  <2>2. CASE OpenLive
    BY <2>2 DEF OpenLive, StoreDuring, SwitchInv, SwitchTypes, KeeperMode, Between, Settled, recordVars
  <2>3. CASE LimitLive
    BY <2>3 DEF LimitLive, StoreDuring, SwitchInv, SwitchTypes, KeeperMode, Between, Settled, recordVars
  <2> QED BY <2>1, <2>2, <2>3
<1>3. ASSUME NEW w \in Workers, worker'[w] # Idle PROVE EntryInv(worker[w])'
  <2>1. /\ worker'[w].at = worker[w].at /\ worker'[w].gates = worker[w].gates
        /\ worker'[w].eligible = worker[w].eligible
        /\ worker'[w].during = worker[w].during \cup {"activate"}
        /\ EntryInv(worker[w])
    <3>1. /\ worker[w] \in AnEntry /\ EntryInv(worker[w])
          /\ worker'[w] = [worker[w] EXCEPT !.during = @ \cup {"activate"}]
      BY <1>0, <1>3, StoreNoted
    <3> QED BY <3>1 DEF AnEntry
  <2>2. keeper'.at \in {"activating", "opened", "rest"} /\ config' = config
    BY <1>0 DEF StoreDuring, recordVars
  <2>3. worker[w].at = "force" /\ config => active' \/ "deactivate" \in worker[w].during
    BY <2>1 DEF EntryInv, Closing, StartLive, OpenLive, LimitLive
  <2> QED BY <2>1, <2>2, <2>3 DEF EntryInv, Excused, Opening, Closing, BoundForPaper
<1> QED BY <1>1, <1>2, <1>3 DEF SwitchInv

(* Deactivation, in the same order. *)
LEMMA DeactivateKeeps ==
    ASSUME SwitchInv, StopLive \/ CloseLive \/ LimitPaper
    PROVE  SwitchInv'
<1>0. PICK next \in {"leaving", "closed", "rest"} : StoreDuring("deactivate", next)
  BY DEF StopLive, CloseLive, LimitPaper
<1>1. SwitchTypes'
  BY <1>0, StoreTypes DEF StopLive, CloseLive, LimitPaper, SwitchInv, SwitchTypes
<1>2. KeeperMode'
  <2>1. CASE StopLive
    BY <2>1 DEF StopLive, StoreDuring, WantsPaper, SwitchInv, SwitchTypes, KeeperMode, Between, Settled,
                recordVars
  <2>2. CASE CloseLive
    BY <2>2 DEF CloseLive, StoreDuring, SwitchInv, SwitchTypes, KeeperMode, Between, Settled, recordVars
  <2>3. CASE LimitPaper
    BY <2>3 DEF LimitPaper, StoreDuring, SwitchInv, SwitchTypes, KeeperMode, Between, Settled, recordVars
  <2> QED BY <2>1, <2>2, <2>3
<1>3. ASSUME NEW w \in Workers, worker'[w] # Idle PROVE EntryInv(worker[w])'
  <2>1. /\ worker'[w].at = worker[w].at /\ worker'[w].gates = worker[w].gates
        /\ worker'[w].eligible = worker[w].eligible
        /\ worker'[w].during = worker[w].during \cup {"deactivate"}
        /\ EntryInv(worker[w])
    <3>1. /\ worker[w] \in AnEntry /\ EntryInv(worker[w])
          /\ worker'[w] = [worker[w] EXCEPT !.during = @ \cup {"deactivate"}]
      BY <1>0, <1>3, StoreNoted
    <3> QED BY <3>1 DEF AnEntry
  <2>2. keeper'.at \in {"leaving", "closed", "rest"} /\ config' = config
    BY <1>0 DEF StoreDuring, recordVars
  <2>3. shadow => shadow'
    BY DEF StopLive, CloseLive, LimitPaper
  <2> QED BY <2>1, <2>2, <2>3 DEF EntryInv, Excused, Opening, Closing, BoundForPaper
<1> QED BY <1>1, <1>2, <1>3 DEF SwitchInv

LEMMA RoundKeeps == SwitchInv /\ (Round \/ FallSilent) => SwitchInv'
<1> SUFFICES ASSUME SwitchInv, Round \/ FallSilent PROVE SwitchInv'
  OBVIOUS
<1>1. CASE ReadFutures \/ Refresh \/ ReadTfFutures
  BY <1>1, QuietStep DEF ReadFutures, Refresh, ReadTfFutures, Between, recordVars, modeVars
<1>2. CASE Enrich \/ Publish \/ NoSwitch
  BY <1>2, QuietStep DEF Enrich, Publish, NoSwitch, Between, Resting, recordVars, modeVars
<1>3. CASE StartLive \/ OpenLive \/ LimitLive
  BY <1>3, ActivateKeeps
<1>4. CASE StopLive \/ CloseLive \/ LimitPaper
  BY <1>4, DeactivateKeeps
<1>5. CASE FallSilent
  BY <1>5, QuietStep DEF FallSilent, Between, recordVars, modeVars
<1> QED BY <1>1, <1>2, <1>3, <1>4, <1>5 DEF Round

-----------------------------------------------------------------------------
(* The steps of an entry *)

(* The worker goes on to a place and knows as much as before. *)
LEMMA OnToKeeps ==
    ASSUME SwitchInv, NEW w \in Workers, worker[w].at # "idle", NEW place \in Places,
           OnTo(w, place), EntryInv([worker[w] EXCEPT !.at = place])
    PROVE  SwitchInv'
<1>1. worker[w] \in AnEntry
  BY EntryShape
<1>2. [worker[w] EXCEPT !.at = place] \in AnEntry
  BY <1>1 DEF AnEntry
<1> QED BY <1>2, WorkerStep DEF OnTo, Move, recordVars, modeVars

LEMMA GiveUpKeeps ==
    ASSUME SwitchInv, NEW w \in Workers, GiveUp(w)
    PROVE  SwitchInv'
BY WorkerStep DEF GiveUp, Move, recordVars, modeVars

(* What is known of an entry that goes on to a place. *)
LEMMA Moved ==
    ASSUME SwitchInv, NEW w \in Workers, worker[w].at # "idle", NEW place \in Places
    PROVE  LET e == [worker[w] EXCEPT !.at = place]
           IN  /\ e.at = place /\ e.gates = worker[w].gates
               /\ e.eligible = worker[w].eligible /\ e.during = worker[w].during
               /\ EntryInv(worker[w])
BY EntryShape DEF AnEntry

LEMMA ArriveKeeps ==
    ASSUME SwitchInv, NEW w \in Workers, NEW sym \in Symbols, NEW tf \in TimeFrames,
           NEW gates \in GateSets, Arrive(w, sym, tf, gates)
    PROVE  SwitchInv'
<1> DEFINE e == [at |-> "active", sym |-> sym, tf |-> tf, gates |-> gates,
                 eligible |-> FALSE, during |-> Turning]
<1>1. e \in AnEntry
  BY SwitchAssumption DEF AnEntry, Places, Turning
<1>2. EntryInv(e)
  BY DEF EntryInv, Turning, Opening, Closing
<1>3. worker' = [worker EXCEPT ![w] = e] /\ UNCHANGED <<config, modeVars, keeper>>
  BY DEF Arrive, recordVars
<1> HIDE DEF e
<1> QED BY <1>1, <1>2, <1>3, WorkerStep

(* Up to the first gate. *)
LEMMA ReadKeeps ==
    ASSUME SwitchInv, NEW w \in Workers, ReadActive(w) \/ ReadEligible(w)
    PROVE  SwitchInv'
<1>1. CASE ReadActive(w)
  <2>1. PICK place \in {"eligible", "tier"} : OnTo(w, place)
    BY <1>1 DEF ReadActive
  <2>2. worker[w].at # "idle" /\ place \in Places
    BY <1>1 DEF ReadActive, Places
  <2>3. EntryInv([worker[w] EXCEPT !.at = place])
    BY <2>1, <2>2, Moved DEF EntryInv, Opening, Closing
  <2> QED BY <2>1, <2>2, <2>3, OnToKeeps
<1>2. CASE ReadEligible(w)
  <2> DEFINE known == [worker[w] EXCEPT !.at = "tier",
                          !.eligible = \/ ContextKey(worker[w].sym, worker[w].tf) \in eligible
                                       \/ SymbolKey(worker[w].sym) \in eligible]
  <2>1. worker[w] \in AnEntry /\ EntryInv(worker[w])
    BY <1>2, EntryShape DEF ReadEligible
  <2>2. /\ known \in AnEntry /\ known.at = "tier" /\ known.during = worker[w].during
    BY <2>1 DEF AnEntry, Places
  <2>3. EntryInv(known)
    BY <2>1, <2>2 DEF EntryInv, Opening, Closing
  <2>4. worker' = [worker EXCEPT ![w] = known] /\ UNCHANGED <<config, modeVars, keeper>>
    BY <1>2 DEF ReadEligible, Move, recordVars
  <2> HIDE DEF known
  <2> QED BY <2>2, <2>3, <2>4, WorkerStep
<1> QED BY <1>1, <1>2

(* The gates.  Each lets an entry on that passes it, or that is excused. *)
LEMMA GatesKeep ==
    ASSUME SwitchInv, NEW w \in Workers,
           CheckTier(w) \/ CheckGrade(w) \/ CheckTfTier(w) \/ ReadLiveTrade(w)
    PROVE  SwitchInv'
<1>0. worker[w].at # "idle"
  BY DEF CheckTier, CheckGrade, CheckTfTier, ReadLiveTrade
<1>1. CASE GiveUp(w)
  BY <1>1, GiveUpKeeps
<1>2. CASE CheckTier(w) /\ ~GiveUp(w)
  <2>1. OnTo(w, "grade") /\ (shadow \/ "tier" \in worker[w].gates)
    BY <1>2 DEF CheckTier, Fails
  <2>2. EntryInv([worker[w] EXCEPT !.at = "grade"])
    BY <1>0, <2>1, Moved DEF Places, EntryInv, Opening, Closing, Excused
  <2> QED BY <1>0, <2>1, <2>2, OnToKeeps DEF Places
<1>3. CASE CheckGrade(w) /\ ~GiveUp(w)
  <2>1. OnTo(w, "tfTier") /\ worker[w].at = "grade"
    BY <1>3 DEF CheckGrade
  <2>2. EntryInv([worker[w] EXCEPT !.at = "tfTier"])
    BY <1>0, <2>1, Moved DEF Places, EntryInv, Opening, Closing, Excused
  <2> QED BY <1>0, <2>1, <2>2, OnToKeeps DEF Places
<1>4. CASE CheckTfTier(w) /\ ~GiveUp(w)
  <2>1. /\ OnTo(w, "liveTrade") /\ (shadow \/ "tfTier" \in worker[w].gates)
        /\ worker[w].at = "tfTier"
    BY <1>4 DEF CheckTfTier, Fails
  <2>2. EntryInv([worker[w] EXCEPT !.at = "liveTrade"])
    BY <1>0, <2>1, Moved DEF Places, EntryInv, Opening, Closing, Excused
  <2> QED BY <1>0, <2>1, <2>2, OnToKeeps DEF Places
<1>5. CASE ReadLiveTrade(w)
  <2>1. PICK place \in {"fee", "tp1"} : OnTo(w, place) /\ (place = "fee" => shadow)
    BY <1>5 DEF ReadLiveTrade
  <2>2. place \in Places /\ worker[w].at = "liveTrade"
    BY <1>5 DEF ReadLiveTrade, Places
  <2>3. EntryInv([worker[w] EXCEPT !.at = place])
    BY <1>0, <2>1, <2>2, Moved DEF EntryInv, Opening, Closing, Excused
  <2> QED BY <1>0, <2>1, <2>2, <2>3, OnToKeeps
<1> QED BY <1>1, <1>2, <1>3, <1>4, <1>5

LEMMA TargetsKeep ==
    ASSUME SwitchInv, NEW w \in Workers, CheckTp1(w) \/ CheckFee(w) \/ CheckEntry(w)
    PROVE  SwitchInv'
<1>0. worker[w].at # "idle"
  BY DEF CheckTp1, CheckFee, CheckEntry
<1>1. CASE GiveUp(w)
  BY <1>1, GiveUpKeeps
<1>2. CASE CheckTp1(w) /\ ~GiveUp(w)
  <2>1. /\ OnTo(w, "fee") /\ worker[w].at = "tp1"
        /\ "tp1" \in worker[w].gates \/ (active /\ ~worker[w].eligible)
    BY <1>2 DEF CheckTp1, Fails
  <2>2. EntryInv([worker[w] EXCEPT !.at = "fee"])
    BY <1>0, <2>1, Moved DEF Places, EntryInv, Opening, Closing, Excused, BoundForPaper
  <2> QED BY <1>0, <2>1, <2>2, OnToKeeps DEF Places
<1>3. CASE CheckFee(w) /\ ~GiveUp(w)
  <2>1. /\ OnTo(w, "limits") /\ worker[w].at = "fee"
        /\ "tp1" \notin worker[w].gates \/ "fee" \in worker[w].gates \/ shadow
    BY <1>3 DEF CheckFee, Fails
  <2>2. EntryInv([worker[w] EXCEPT !.at = "limits"])
    BY <1>0, <2>1, Moved DEF Places, EntryInv, Opening, Closing, Excused, BoundForPaper
  <2> QED BY <1>0, <2>1, <2>2, OnToKeeps DEF Places
<1>4. CASE CheckEntry(w) /\ ~GiveUp(w)
  <2>1. /\ OnTo(w, "mode") /\ worker[w].at = "limits"
        /\ limits # "live" \/ "limits" \in worker[w].gates
    BY <1>4 DEF CheckEntry, Fails
  <2>2. limits # "live" => shadow \/ keeper.at \in {"activating", "opened"}
    BY DEF SwitchInv, SwitchTypes, KeeperMode, Between, Settled
  <2>3. EntryInv([worker[w] EXCEPT !.at = "mode"])
    BY <1>0, <2>1, <2>2, Moved
       DEF Places, EntryInv, Opening, Closing, Excused, BoundForPaper
  <2> QED BY <1>0, <2>1, <2>3, OnToKeeps DEF Places
<1> QED BY <1>1, <1>2, <1>3, <1>4

(* The mode is read last: shadow_mode, then m_auto_live_active. *)
LEMMA ModeKeeps ==
    ASSUME SwitchInv, NEW w \in Workers, ReadMode(w) \/ ForceShadow(w) \/ Place(w)
    PROVE  SwitchInv'
<1>0. worker[w].at # "idle"
  BY DEF ReadMode, ForceShadow, Place
<1>1. CASE ReadMode(w)
  <2>1. PICK place \in {"paper", "force"} : OnTo(w, place) /\ (place = "force" => ~shadow)
    BY <1>1 DEF ReadMode
  <2>2. place \in Places /\ worker[w].at = "mode"
    BY <1>1 DEF ReadMode, Places
  <2>3. config /\ ~shadow => active \/ keeper.at = "leaving"
    BY DEF SwitchInv, KeeperMode, Between, Settled
  <2>4. EntryInv([worker[w] EXCEPT !.at = place])
    BY <1>0, <2>1, <2>2, <2>3, Moved DEF EntryInv, Opening, Closing, Excused, BoundForPaper
  <2> QED BY <1>0, <2>1, <2>2, <2>4, OnToKeeps
<1>2. CASE ForceShadow(w)
  <2>1. PICK place \in {"paper", "real"} :
          OnTo(w, place) /\ (place = "real" => ~active \/ worker[w].eligible)
    BY <1>2 DEF ForceShadow
  <2>2. place \in Places /\ worker[w].at = "force"
    BY <1>2 DEF ForceShadow, Places
  <2>3. EntryInv([worker[w] EXCEPT !.at = place])
    BY <1>0, <2>1, <2>2, Moved DEF EntryInv, Opening, Closing, Excused, BoundForPaper
  <2> QED BY <1>0, <2>1, <2>2, <2>3, OnToKeeps
<1>3. CASE Place(w)
  BY <1>3, GiveUpKeeps DEF Place
<1> QED BY <1>1, <1>2, <1>3

LEMMA EntryKeeps ==
    ASSUME SwitchInv, NEW w \in Workers, Entry(w)
    PROVE  SwitchInv'
BY ReadKeeps, GatesKeep, TargetsKeep, ModeKeeps DEF Entry

(* A restart takes the mode from the configuration. *)
LEMMA RestartKeeps == SwitchInv /\ Restart => SwitchInv'
<1> SUFFICES ASSUME SwitchInv, Restart PROVE SwitchInv'
  OBVIOUS
<1>1. SwitchTypes'
  BY DEF SwitchInv, SwitchTypes, Restart
<1>2. keeper'.at = "rest" /\ \A w \in Workers : worker'[w] = Idle
  BY DEF Restart, Resting
<1>3. CASE config = TRUE
  BY <1>1, <1>2, <1>3 DEF Restart, SwitchInv, KeeperMode, Between, Settled
<1>4. CASE config = FALSE
  BY <1>1, <1>2, <1>4 DEF Restart, SwitchInv, KeeperMode, Between, Settled
<1> QED BY <1>3, <1>4 DEF SwitchInv, SwitchTypes

LEMMA StepKeeps == SwitchInv /\ [Next]_vars => SwitchInv'
<1> SUFFICES ASSUME SwitchInv, [Next]_vars PROVE SwitchInv'
  OBVIOUS
<1>1. CASE \E b \in Books, pnl \in Results : PaperTrade(b, pnl)
  <2>1. UNCHANGED <<config, modeVars, keeper, worker>>
    BY <1>1 DEF PaperTrade
  <2> QED BY <2>1 DEF SwitchInv, SwitchTypes, KeeperMode, Between, Settled, EntryInv, Opening, Closing,
                      Excused, BoundForPaper, modeVars
<1>2. CASE Round \/ FallSilent
  BY <1>2, RoundKeeps
<1>3. CASE \E w \in Workers, sym \in Symbols, tf \in TimeFrames, gates \in GateSets :
               Arrive(w, sym, tf, gates)
  BY <1>3, ArriveKeeps
<1>4. CASE \E w \in Workers : Entry(w)
  BY <1>4, EntryKeeps
<1>5. CASE Restart
  BY <1>5, RestartKeeps
<1>6. CASE UNCHANGED vars
  BY <1>6 DEF vars, SwitchInv, SwitchTypes, KeeperMode, Between, Settled, EntryInv, Opening, Closing,
              Excused, BoundForPaper, modeVars
<1> QED BY <1>1, <1>2, <1>3, <1>4, <1>5, <1>6 DEF Next

-----------------------------------------------------------------------------
(* The theorems *)

(* The four pieces of the mode, and what the entries under way have seen   *)
(* of their change, stay in step (execution_engine.hpp:774-803).           *)
THEOREM SwitchInvariant == Spec => []SwitchInv
<1> QED BY InitSwitch, StepKeeps, PTL DEF Spec

(* execution_engine.hpp:1221-1228: where trading starts on paper, only a   *)
(* deactivation that runs into its entry lets a symbol that is not         *)
(* eligible get a real order.                                              *)
THEOREM IneligibleOnPaper == Spec => []IneligibleStaysPaper
<1>1. SwitchInv => IneligibleStaysPaper
  <2> SUFFICES ASSUME SwitchInv, NEW w \in Workers, config, worker[w].at = "real",
                      ~worker[w].eligible
               PROVE  "deactivate" \in worker[w].during
    BY DEF IneligibleStaysPaper, Ordering
  <2> QED BY EntryShape DEF EntryInv, Closing
<1> QED BY <1>1, SwitchInvariant, PTL

(* execution_engine.hpp:978-1195: an order skips a gate only if the switch *)
(* ran into its entry.                                                     *)
THEOREM GatesHold == Spec => []GatesHeldOutsideSwitch
<1>1. SwitchInv => GatesHeldOutsideSwitch
  <2> SUFFICES ASSUME SwitchInv, NEW w \in Workers, worker[w].at = "real",
                      "activate" \notin worker[w].during
               PROVE  /\ {"tier", "tfTier", "limits"} \subseteq worker[w].gates
                      /\ \/ {"tp1", "fee"} \subseteq worker[w].gates
                         \/ /\ "tp1" \notin worker[w].gates
                            /\ ~worker[w].eligible /\ "deactivate" \in worker[w].during
    BY DEF GatesHeldOutsideSwitch, Ordering
  <2> QED BY EntryShape DEF EntryInv, Opening, Closing, BoundForPaper
<1> QED BY <1>1, SwitchInvariant, PTL

(* execution_engine.hpp:205, 774-794: between its rounds the keeper leaves *)
(* the flag of auto-live, shadow_mode and the limits in agreement.         *)
THEOREM ModesInAgreement == Spec => []ModesAgree
<1>1. SwitchInv => ModesAgree
  BY DEF SwitchInv, KeeperMode, Between, Settled, ModesAgree
<1> QED BY <1>1, SwitchInvariant, PTL
-----------------------------------------------------------------------------
(* The confidence and its file *)

Table == [Keys -> 0..MaxConfidence]

SavedPasses == IF passFile = {} THEN NoPasses ELSE CHOOSE t \in passFile : TRUE

(* A context and the number of lines of the books that may add to it.      *)
LinesOf(k) == {b \in Books : ContextKey(b.sym, b.tf) = k}

(* From the save of a round to its contexts the file is what is in memory. *)
LagInv ==
    /\ passes \in Table /\ SavedPasses \in Table
    /\ faults \in Nat
    /\ faults = 0 /\ keeper.at \in {"refreshed", "tf"} => passes = SavedPasses
    /\ faults = 0 => \A k \in Keys : passes[k] - SavedPasses[k] \in 0..Cardinality(LinesOf(k))

(* on_pass and on_miss keep a count within its bounds.                     *)
LEMMA PassBounds ==
    ASSUME NEW n \in 0..MaxConfidence
    PROVE  /\ Pass(n) \in 0..MaxConfidence /\ Miss(n) \in 0..MaxConfidence
           /\ n <= Pass(n) /\ Pass(n) <= n + 1
BY ReadinessAssumption DEF Pass, Miss, Smaller

(* refresh_eligible moves the confidence of a symbol by passes and misses. *)
LEMMA RoundBounds ==
    ASSUME NEW f, NEW s, NEW n \in 0..MaxConfidence
    PROVE  SymbolRound(f, s, n).count \in 0..MaxConfidence
<1> DEFINE Moves(m) == m \in {0, n, Pass(n), Pass(Pass(n))}
<1>1. \A m : Moves(m) => m \in 0..MaxConfidence
  <2>1. Pass(n) \in 0..MaxConfidence
    BY PassBounds
  <2>2. Pass(Pass(n)) \in 0..MaxConfidence
    BY <2>1, PassBounds
  <2> QED BY <2>1, <2>2, ReadinessAssumption
<1>2. \E m : /\ Moves(m)
             /\ SymbolRound(f, s, n).count \in {m, Miss(m), Miss(Miss(m))}
  BY DEF SymbolRound
<1>3. PICK m : /\ m \in 0..MaxConfidence
               /\ SymbolRound(f, s, n).count \in {m, Miss(m), Miss(Miss(m))}
  BY <1>1, <1>2
<1>4. Miss(m) \in 0..MaxConfidence
  BY <1>3, PassBounds
<1>5. Miss(Miss(m)) \in 0..MaxConfidence
  BY <1>4, PassBounds
<1> QED BY <1>3, <1>4, <1>5

LEMMA NoPassesType == NoPasses \in Table
BY ReadinessAssumption DEF NoPasses, Table

LEMMA LinesFinite ==
    ASSUME NEW k
    PROVE  IsFiniteSet(LinesOf(k)) /\ Cardinality(LinesOf(k)) \in Nat
BY FS_Subset, FS_CardinalityType, SwitchAssumption DEF LinesOf

(* Equal to the file, the confidence lags behind by nothing.               *)
LEMMA EqualNoLag ==
    ASSUME NEW t \in Table
    PROVE  \A k \in Keys : t[k] - t[k] \in 0..Cardinality(LinesOf(k))
<1> SUFFICES ASSUME NEW k \in Keys PROVE t[k] - t[k] \in 0..Cardinality(LinesOf(k))
  OBVIOUS
<1>1. t[k] \in Nat
  BY DEF Table
<1> QED BY <1>1, LinesFinite

(* The save of refresh_eligible leaves the file as it was, unreadable, or  *)
(* with the counts of the round.                                           *)
LEMMA RefreshLag ==
    ASSUME LagInv, Refresh
    PROVE  LagInv'
<1>1. PICK table : /\ passes' = table /\ SavePasses(table)
                   /\ \E round \in [Symbols -> {SymbolRound(keeper.futures[sym],
                                      Report("spot")[sym], passes[SymbolKey(sym)]) : sym \in Symbols}] :
                        /\ \A sym \in Symbols :
                              round[sym] = SymbolRound(keeper.futures[sym], Report("spot")[sym],
                                                       passes[SymbolKey(sym)])
                        /\ table = [k \in Keys |-> IF k.tf = "all" THEN round[k.sym].count
                                                   ELSE passes[k]]
  <2> DEFINE round == [sym \in Symbols |->
                         SymbolRound(keeper.futures[sym], Report("spot")[sym],
                                     passes[SymbolKey(sym)])]
             table == [k \in Keys |-> IF k.tf = "all" THEN round[k.sym].count ELSE passes[k]]
  <2>1. passes' = table /\ SavePasses(table)
    BY DEF Refresh
  <2>2. \A sym \in Symbols :
           round[sym] = SymbolRound(keeper.futures[sym], Report("spot")[sym],
                                    passes[SymbolKey(sym)])
    OBVIOUS
  <2>3. round \in [Symbols -> {SymbolRound(keeper.futures[sym], Report("spot")[sym],
                                           passes[SymbolKey(sym)]) : sym \in Symbols}]
    OBVIOUS
  <2> HIDE DEF round
  <2> QED BY <2>1, <2>2, <2>3
<1>2. table \in Table
  <2>1. PICK round :
          /\ \A sym \in Symbols :
                round[sym] = SymbolRound(keeper.futures[sym], Report("spot")[sym],
                                         passes[SymbolKey(sym)])
          /\ table = [k \in Keys |-> IF k.tf = "all" THEN round[k.sym].count ELSE passes[k]]
    BY <1>1
  <2>2. \A sym \in Symbols : SymbolKey(sym) \in Keys
    BY DEF SymbolKey, Keys
  <2>3. \A sym \in Symbols : round[sym].count \in 0..MaxConfidence
    BY <2>1, <2>2, RoundBounds DEF LagInv, Table
  <2>4. \A k \in Keys : k.sym \in Symbols
    BY DEF Keys
  <2>5. \A k \in Keys : passes[k] \in 0..MaxConfidence
    BY DEF LagInv, Table
  <2> QED BY <2>1, <2>3, <2>4, <2>5 DEF Table
<1>3. CASE passFile' = {table} /\ UNCHANGED faults
  <2>1. SavedPasses' = table
    BY <1>3 DEF SavedPasses
  <2> QED BY <1>1, <1>2, <1>3, <2>1, EqualNoLag DEF LagInv
<1>4. CASE passFile' \in {passFile, {}} /\ faults' = faults + 1
  <2>1. SavedPasses' \in Table
    BY <1>4, NoPassesType DEF SavedPasses, LagInv
  <2>2. faults' \in Nat /\ faults' # 0
    BY <1>4 DEF LagInv
  <2> QED BY <1>1, <1>2, <2>1, <2>2 DEF LagInv
<1> QED BY <1>1, <1>3, <1>4 DEF SavePasses

(* enrich_eligible_with_context adds one pass a line at most.              *)
LEMMA EnrichLag ==
    ASSUME LagInv, Enrich
    PROVE  LagInv'
<1> DEFINE LineOf(b) == IF b.market = "futures" THEN keeper.futures[b] ELSE book[b]
           ready == {b \in Books : Listed(LineOf(b)) /\ Ready(LineOf(b))}
           Times(k) == Cardinality({b \in ready : ContextKey(b.sym, b.tf) = k})
<1>1. /\ passes' = [k \in Keys |-> IF Times(k) = 0 THEN passes[k]
                                   ELSE IF Times(k) = 1 THEN Pass(passes[k])
                                   ELSE Pass(Pass(passes[k]))]
      /\ keeper'.at = "enriched" /\ keeper.at = "tf"
      /\ UNCHANGED <<passFile, faults>>
  BY DEF Enrich
<1>2. ready \subseteq Books
  OBVIOUS
<1> HIDE DEF ready
<1>3. ASSUME NEW k \in Keys
      PROVE  Times(k) \in Nat /\ Times(k) <= Cardinality(LinesOf(k))
  <2>1. {b \in ready : ContextKey(b.sym, b.tf) = k} \subseteq LinesOf(k)
    BY <1>2 DEF LinesOf
  <2> QED BY <2>1, LinesFinite, FS_Subset, FS_CardinalityType
<1> HIDE DEF Times
<1>4. ASSUME NEW k \in Keys
      PROVE  /\ passes'[k] \in 0..MaxConfidence
             /\ passes[k] <= passes'[k] /\ passes'[k] <= passes[k] + Cardinality(LinesOf(k))
  <2>1. passes[k] \in 0..MaxConfidence
    BY DEF LagInv, Table
  <2>2. /\ Pass(passes[k]) \in 0..MaxConfidence
        /\ passes[k] <= Pass(passes[k]) /\ Pass(passes[k]) <= passes[k] + 1
    BY <2>1, PassBounds
  <2>3. /\ Pass(Pass(passes[k])) \in 0..MaxConfidence
        /\ Pass(passes[k]) <= Pass(Pass(passes[k]))
        /\ Pass(Pass(passes[k])) <= Pass(passes[k]) + 1
    BY <2>2, PassBounds
  <2>4. passes'[k] = IF Times(k) = 0 THEN passes[k]
                     ELSE IF Times(k) = 1 THEN Pass(passes[k])
                     ELSE Pass(Pass(passes[k]))
    BY <1>1
  <2>5. Cardinality(LinesOf(k)) \in Nat /\ Times(k) \in Nat /\ Times(k) <= Cardinality(LinesOf(k))
    BY <1>3, LinesFinite
  <2>6. MaxConfidence \in Nat
    BY ReadinessAssumption
  <2>7. CASE Times(k) = 0
    BY <2>1, <2>4, <2>5, <2>7
  <2>8. CASE Times(k) = 1
    BY <2>1, <2>2, <2>4, <2>5, <2>6, <2>8
  <2>9. CASE Times(k) # 0 /\ Times(k) # 1
    <3>1. Cardinality(LinesOf(k)) >= 2
      BY <2>5, <2>9
    <3>2. passes'[k] = Pass(Pass(passes[k]))
      BY <2>4, <2>9
    <3> QED BY <2>1, <2>2, <2>3, <2>5, <2>6, <3>1, <3>2
  <2> QED BY <2>7, <2>8, <2>9
<1>5. passes' \in Table
  BY <1>1, <1>4 DEF Table
<1>6. SavedPasses' = SavedPasses
  BY <1>1 DEF SavedPasses
<1>7. ASSUME faults' = 0, NEW k \in Keys
      PROVE  passes'[k] - SavedPasses'[k] \in 0..Cardinality(LinesOf(k))
  <2>1. SavedPasses'[k] = passes[k]
    BY <1>1, <1>6, <1>7 DEF LagInv
  <2>2. passes[k] \in Nat /\ passes'[k] \in Nat
    BY <1>4 DEF LagInv, Table
  <2> QED BY <1>4, <2>1, <2>2, LinesFinite
<1> QED BY <1>1, <1>5, <1>6, <1>7 DEF LagInv

(* Nothing else touches the confidence, but a restart, which takes it from *)
(* the file.                                                               *)
LEMMA LagStep == LagInv /\ [Next]_vars => LagInv'
<1> SUFFICES ASSUME LagInv, [Next]_vars PROVE LagInv'
  OBVIOUS
<1>1. ASSUME UNCHANGED <<passes, passFile, faults>>,
             keeper'.at \in {"refreshed", "tf"} => keeper.at \in {"refreshed", "tf"}
      PROVE  LagInv'
  BY <1>1 DEF LagInv, SavedPasses
<1>2. CASE Restart
  <2>1. passes' = SavedPasses /\ SavedPasses' = SavedPasses /\ faults' = faults
    BY <1>2 DEF Restart, SavedPasses
  <2>2. keeper'.at = "rest"
    BY <1>2 DEF Restart, Resting
  <2> QED BY <2>1, <2>2, EqualNoLag DEF LagInv
<1>3. CASE ReadFutures \/ ReadTfFutures \/ Publish \/ NoSwitch \/ FallSilent
  BY <1>1, <1>3 DEF ReadFutures, ReadTfFutures, Publish, NoSwitch, FallSilent, Resting, recordVars
<1>4. ASSUME NEW turn, NEW next \in {"activating", "opened", "leaving", "closed", "rest"},
             StoreDuring(turn, next)
      PROVE  LagInv'
  BY <1>1, <1>4 DEF StoreDuring, recordVars
<1>5. CASE StartLive \/ OpenLive \/ LimitLive \/ StopLive \/ CloseLive \/ LimitPaper
  BY <1>4, <1>5 DEF StartLive, OpenLive, LimitLive, StopLive, CloseLive, LimitPaper
<1>6. ASSUME NEW w \in Workers, NEW known, Move(w, known) PROVE LagInv'
  BY <1>1, <1>6 DEF Move, recordVars
<1>7. ASSUME NEW w \in Workers, Entry(w) PROVE LagInv'
  <2>1. CASE ReadActive(w) \/ CheckTier(w) \/ CheckGrade(w) \/ CheckTfTier(w) \/ ReadLiveTrade(w)
    BY <1>6, <2>1 DEF ReadActive, CheckTier, CheckGrade, CheckTfTier, ReadLiveTrade, OnTo, GiveUp
  <2>2. CASE ReadEligible(w)
    BY <1>6, <2>2 DEF ReadEligible
  <2>3. CASE CheckTp1(w) \/ CheckFee(w) \/ CheckEntry(w)
    BY <1>6, <2>3 DEF CheckTp1, CheckFee, CheckEntry, OnTo, GiveUp
  <2>4. CASE ReadMode(w) \/ ForceShadow(w) \/ Place(w)
    BY <1>6, <2>4 DEF ReadMode, ForceShadow, Place, OnTo, GiveUp
  <2> QED BY <1>7, <2>1, <2>2, <2>3, <2>4 DEF Entry
<1>8. CASE \E w \in Workers, sym \in Symbols, tf \in TimeFrames, gates \in GateSets :
               Arrive(w, sym, tf, gates)
  BY <1>1, <1>8 DEF Arrive, recordVars
<1>9. CASE \E b \in Books, pnl \in Results : PaperTrade(b, pnl)
  BY <1>1, <1>9 DEF PaperTrade
<1>10. CASE UNCHANGED vars
  BY <1>1, <1>10 DEF vars
<1> QED BY <1>2, <1>3, <1>5, <1>7, <1>8, <1>9, <1>10, RefreshLag, EnrichLag
        DEF Next, Round

(* live_readiness.hpp:424, 490: while no write failed, a restart forgets   *)
(* only what the last round gave to contexts after its save, one pass a    *)
(* line.                                                                   *)
THEOREM ConfidenceLags == Spec => []ConfidenceLag
<1>1. Init => LagInv
  <2> SUFFICES ASSUME Init PROVE LagInv
    OBVIOUS
  <2>1. passes = NoPasses /\ SavedPasses = NoPasses /\ faults = 0
    BY DEF Init, SavedPasses
  <2> QED BY <2>1, NoPassesType, EqualNoLag DEF LagInv
<1>2. LagInv /\ [Next]_vars => LagInv'
  BY LagStep
<1>3. LagInv => ConfidenceLag
  BY DEF LagInv, ConfidenceLag, SavedPasses, LinesOf
<1> QED BY <1>1, <1>2, <1>3, PTL DEF Spec
=============================================================================
