-------------------------- MODULE SignalIntakeProofs --------------------------
(* Theorems about SignalIntake, for every number of alerts, threads and workers
   and every capacity, age limit and size of the fingerprint table. *)
EXTENDS SignalIntake, TLAPS

(* A signal stays a signal as it gets older. *)
LEMMA OlderSignalType ==
    ASSUME NEW s \in Signal
    PROVE  OlderSignal(s) \in Signal
<1>1. PICK a \in Alerts, g \in 0..(MaxAge + 1) : s = [alert |-> a, age |-> g]
  BY DEF Signal
<1>2. Older(g, MaxAge) \in 0..(MaxAge + 1)
  BY IntakeAssumption DEF Older
<1>3. OlderSignal(s) = [alert |-> a, age |-> Older(g, MaxAge)]
  BY <1>1 DEF OlderSignal
<1> QED BY <1>2, <1>3 DEF Signal

(* So does what a worker or a thread holds. *)
LEMMA OlderJobType ==
    ASSUME NEW s \in Signal \cup {Idle}
    PROVE  /\ OlderJob(s) \in Signal \cup {Idle}
           /\ s \in Signal => OlderJob(s) \in Signal
           /\ OlderJob(Idle) = Idle
BY OlderSignalType DEF OlderJob

(* An empty table is a table, and so is one with another reading in it. *)
LEMMA TableType ==
    /\ NoFingerprints \in Table
    /\ \A T \in Table, a \in Alerts, age \in 0..MaxDelay : [T EXCEPT ![a] = age] \in Table
<1>1. Unseen \in Unseen..(TTL + MaxDelay + 1)
  BY IntakeAssumption DEF Unseen
<1>2. \A age \in 0..MaxDelay : age \in Unseen..(TTL + MaxDelay + 1)
  BY IntakeAssumption DEF Unseen
<1> HIDE DEF Unseen
<1> QED BY <1>1, <1>2 DEF NoFingerprints, Table

(* Evicting and clearing leave a table. *)
LEMMA RememberedType ==
    ASSUME TypeOK, NEW w \in Workers
    PROVE  Remembered(w) \in Table
<1>1. Unseen \in Unseen..(TTL + MaxDelay + 1)
  BY IntakeAssumption DEF Unseen
<1>2. Evicted(w) \in Table
  BY <1>1 DEF Evicted, TypeOK, Table
<1> QED BY <1>2, TableType DEF Remembered

(* A table that does not overflow keeps what is recent, whenever the worker that
   prunes it has read the clock. *)
LEMMA RecentKept ==
    ASSUME TypeOK, NEW w \in Workers, ~Overflow(w), NEW a \in Alerts, seen[a] \in 0..TTL
    PROVE  Remembered(w)[a] = seen[a]
<1>1. ~Old(w, a)
  BY IntakeAssumption DEF Old, TypeOK
<1> QED BY <1>1 DEF Remembered, Evicted, TypeOK, Table

(* An alert passes with a reading that the table can hold, and the history too. *)
LEMMA PassTables ==
    ASSUME TypeOK, NEW w \in Workers, Pass(w)
    PROVE  /\ job[w].alert \in Alerts
           /\ seen' \in Table /\ lastPassed' \in Table
           /\ seen'[job[w].alert] = clock[w] /\ lastPassed'[job[w].alert] = clock[w]
           /\ \A a \in Alerts \ {job[w].alert} :
                 /\ seen'[a] = Remembered(w)[a]
                 /\ lastPassed'[a] = IF Overflow(w) THEN Unseen ELSE lastPassed[a]
<1> DEFINE b == job[w].alert
           H == IF Overflow(w) THEN NoFingerprints ELSE lastPassed
<1>1. b \in Alerts
  BY DEF Pass, TypeOK, Signal, Busy
<1>2. clock[w] \in 0..MaxDelay
  BY DEF TypeOK
<1>3. Remembered(w) \in Table /\ H \in Table
  BY RememberedType, TableType DEF TypeOK
<1>4. seen' = [Remembered(w) EXCEPT ![b] = clock[w]] /\ lastPassed' = [H EXCEPT ![b] = clock[w]]
  BY DEF Pass
<1>5. \A a \in Alerts : H[a] = IF Overflow(w) THEN Unseen ELSE lastPassed[a]
  BY DEF NoFingerprints
<1> HIDE DEF b, H
<1>6. seen' \in Table /\ lastPassed' \in Table
  BY <1>1, <1>2, <1>3, <1>4, TableType
<1>7. seen'[b] = clock[w] /\ lastPassed'[b] = clock[w]
  BY <1>1, <1>3, <1>4 DEF Table
<1>8. \A a \in Alerts \ {b} : seen'[a] = Remembered(w)[a] /\ lastPassed'[a] = H[a]
  BY <1>1, <1>3, <1>4 DEF Table
<1> QED BY <1>1, <1>5, <1>6, <1>7, <1>8 DEF b

-----------------------------------------------------------------------------
(* The invariant. *)

(* The initial state satisfies the invariant. *)
LEMMA IntakeInvInit == Init => IntakeInv
<1> SUFFICES ASSUME Init PROVE IntakeInv
  OBVIOUS
<1>1. TypeOK
  <2>2. queue \in Seq(Signal)
    BY DEF Init
  <2>3. seen \in Table /\ lastPassed \in Table
    BY TableType DEF Init
  <2>5. clock \in [Workers -> 0..MaxDelay]
    BY IntakeAssumption DEF Init
  <2>4. /\ server \in BOOLEAN /\ running \in BOOLEAN /\ saved \in BOOLEAN
        /\ socket \in {"open", "silent", "stopped"}
    BY DEF Init
  <2> QED BY <2>2, <2>3, <2>4, <2>5 DEF Init, TypeOK, Labels, Busy
<1>2. RecentAreSeen
  BY DEF Init, RecentAreSeen
<1>3. StopOrder
  BY DEF Init, StopOrder
<1> QED BY <1>1, <1>2, <1>3 DEF IntakeInv

(* The steps of the webhook threads keep the types. *)
LEMMA ThreadType ==
    ASSUME TypeOK, NEW t \in Threads, Receive(t) \/ Push(t)
    PROVE  TypeOK'
<1>1. CASE Receive(t)
  <2>1. session' \in [Threads -> Signal \cup {Idle}]
    BY <1>1, IntakeAssumption DEF Receive, TypeOK, Signal
  <2> QED BY <1>1, <2>1 DEF Receive, TypeOK, lifeVars
<1>2. CASE Push(t)
  <2>1. queue' \in Seq(Signal)
    BY <1>2 DEF Push, TypeOK
  <2>2. session' \in [Threads -> Signal \cup {Idle}]
    BY <1>2 DEF Push, TypeOK
  <2> QED BY <1>2, <2>1, <2>2 DEF Push, TypeOK, lifeVars
<1> QED BY <1>1, <1>2

(* Done and Goto keep the types of place and job. *)
LEMMA DoneType ==
    ASSUME TypeOK, NEW w \in Workers, Done(w)
    PROVE  /\ pc' \in [Workers -> Labels]
           /\ job' \in [Workers -> Signal \cup {Idle}]
           /\ \A v \in Workers :
                 pc'[v] \in Busy => job'[v] \in Signal
BY DEF TypeOK, Done, Goto, Labels, Busy

(* A screening drops its reading. *)
LEMMA ScreenedType ==
    ASSUME TypeOK, NEW w \in Workers, Screened(w)
    PROVE  clock' \in [Workers -> 0..MaxDelay]
<1>1. 0 \in 0..MaxDelay
  BY IntakeAssumption
<1> QED BY <1>1 DEF Screened, TypeOK

(* The periodic tasks keep the types, whether they end or not. *)
LEMMA PeriodicType ==
    ASSUME TypeOK, NEW label \in {"loop", "silent"}, PeriodicTasks(label)
    PROVE  TypeOK'
<1>1. seen' \in Table
  BY TableType DEF PeriodicTasks, TypeOK
<1>2. lastPassed' \in Table
  BY TableType DEF PeriodicTasks, TypeOK
<1>3. /\ pc' \in [Workers -> Labels]
      /\ \A v \in Workers : pc'[v] \in Busy => pc[v] \in Busy
  BY DEF PeriodicTasks, Goto, TypeOK, Labels, Busy
<1> QED BY <1>1, <1>2, <1>3 DEF PeriodicTasks, TypeOK, lifeVars

(* So does a call that never returns. *)
LEMMA SilentType ==
    ASSUME TypeOK, FallSilent
    PROVE  TypeOK'
<1>1. CASE KeeperSilent
  BY <1>1, PeriodicType DEF KeeperSilent
<1>2. ASSUME NEW w \in Workers, HandlerSilent(w)
      PROVE  TypeOK'
  BY <1>2 DEF HandlerSilent, Goto, TypeOK, lifeVars, Labels, Busy
<1> QED BY <1>1, <1>2 DEF FallSilent

(* The steps of the workers keep the types. *)
LEMMA WorkerType ==
    ASSUME TypeOK, NEW w \in Workers, Worker(w)
    PROVE  TypeOK'
<1>1. CASE Loop(w)
  BY <1>1 DEF Loop, Goto, TypeOK, lifeVars, Labels, Busy
<1>2. CASE Pop(w)
  <2>1. Head(queue) \in Signal /\ Tail(queue) \in Seq(Signal)
    BY <1>2 DEF Pop, TypeOK
  <2>2. queue' \in Seq(Signal)
    BY <1>2, <2>1 DEF Pop
  <2>3. /\ pc' \in [Workers -> Labels]
        /\ job' \in [Workers -> Signal \cup {Idle}]
        /\ \A v \in Workers :
              pc'[v] \in Busy => job'[v] \in Signal
    BY <1>2, <2>1 DEF Pop, Goto, TypeOK, Labels, Busy
  <2> QED BY <1>2, <2>2, <2>3 DEF Pop, TypeOK, lifeVars
<1>3. CASE PopNothing(w)
  BY <1>3 DEF PopNothing, Goto, TypeOK, lifeVars, Labels, Busy
<1>4. CASE w = Keeper /\ Periodic
  BY <1>4, PeriodicType DEF Periodic
<1>5. CASE SkipStale(w)
  BY <1>5, DoneType, ScreenedType DEF SkipStale, TypeOK, lifeVars
<1>6. CASE SkipDuplicate(w)
  BY <1>6, DoneType, ScreenedType, RememberedType DEF SkipDuplicate, TypeOK, lifeVars
<1>7. CASE Pass(w)
  <2>2. seen' \in Table /\ lastPassed' \in Table
    BY <1>7, PassTables
  <2>3. /\ pc' \in [Workers -> Labels]
        /\ job' \in [Workers -> Signal \cup {Idle}]
        /\ \A v \in Workers :
              pc'[v] \in Busy => job'[v] \in Signal
    <3>1. CASE Done(w)
      BY <3>1, DoneType
    <3>2. CASE Goto(w, "lock") /\ UNCHANGED job
      BY <1>7, <3>2 DEF Pass, Goto, TypeOK, Labels, Busy
    <3> QED BY <1>7, <3>1, <3>2 DEF Pass
  <2> QED BY <1>7, <2>2, <2>3, ScreenedType DEF Pass, TypeOK, lifeVars
<1>8. CASE LockSymbol(w)
  BY <1>8 DEF LockSymbol, Goto, TypeOK, lifeVars, Labels, Busy
<1>9. CASE LockTimeout(w)
  BY <1>9, DoneType DEF LockTimeout, TypeOK, lifeVars
<1>10. CASE Handle(w)
  <2>1. owner' \in [Symbols -> Workers \cup {NoWorker}]
    BY <1>10 DEF Handle, TypeOK
  <2> QED BY <1>10, <2>1, DoneType DEF Handle, TypeOK, lifeVars
<1>11. CASE ReadClock(w)
  BY <1>11 DEF ReadClock, Goto, TypeOK, lifeVars, Labels, Busy
<1> QED BY <1>1, <1>2, <1>3, <1>4, <1>5, <1>6, <1>7, <1>8, <1>9, <1>10, <1>11 DEF Worker

(* So do time and the end. *)
LEMMA TickType ==
    ASSUME TypeOK, Tick
    PROVE  TypeOK'
<1>1. session' \in [Threads -> Signal \cup {Idle}]
  BY OlderJobType DEF Tick, TypeOK
<1>2. queue' \in Seq(Signal)
  <2>1. Len(queue) \in Nat /\ \A i \in 1..Len(queue) : queue[i] \in Signal
    BY DEF TypeOK
  <2>2. \A i \in 1..Len(queue) : OlderSignal(queue[i]) \in Signal
    BY <2>1, OlderSignalType
  <2>3. queue' \in [1..Len(queue) -> Signal]
    BY <2>2 DEF Tick
  <2> QED BY <2>1, <2>3 DEF Seq
<1>3. seen' \in Table /\ lastPassed' \in Table
  <2>1. \A age \in Unseen..(TTL + MaxDelay + 1) :
           Older(age, TTL + MaxDelay) \in Unseen..(TTL + MaxDelay + 1)
    BY IntakeAssumption DEF Older, Unseen
  <2> QED BY <2>1 DEF Tick, TypeOK, Table
<1>4. job' \in [Workers -> Signal \cup {Idle}]
  BY OlderSignalType DEF Tick, TypeOK, Busy
<1>5. \A v \in Workers : pc'[v] \in Busy => job'[v] \in Signal
  BY OlderSignalType DEF Tick, TypeOK, Busy
<1>6. clock' \in [Workers -> 0..MaxDelay]
  BY IntakeAssumption DEF Tick, TypeOK
<1> QED BY <1>1, <1>2, <1>3, <1>4, <1>5, <1>6 DEF Tick, TypeOK, lifeVars

(* So do the steps of the shutdown. *)
LEMMA EndType ==
    ASSUME TypeOK,
           StopServer \/ StopEngine \/ SocketSilent \/ StopSocket \/ FinalSave \/ UNCHANGED vars
    PROVE  TypeOK'
BY DEF TypeOK, StopServer, StopEngine, SocketSilent, StopSocket, FinalSave, vars, lifeVars

(* What the table knows of recent alerts stays right. *)
LEMMA SeenStep ==
    ASSUME TypeOK, RecentAreSeen, [Next]_vars
    PROVE  RecentAreSeen'
<1> SUFFICES ASSUME NEW a \in Alerts, lastPassed'[a] \in 0..TTL
             PROVE  seen'[a] = lastPassed'[a]
  BY DEF RecentAreSeen
<1>1. CASE Tick
  <2>1. lastPassed[a] \in 0..TTL /\ lastPassed'[a] = Older(lastPassed[a], TTL + MaxDelay)
    <3>1. lastPassed[a] \in Unseen..(TTL + MaxDelay + 1)
      BY DEF TypeOK, Table
    <3>2. lastPassed'[a] = Older(lastPassed[a], TTL + MaxDelay)
      BY <1>1 DEF Tick
    <3> QED BY <3>1, <3>2, IntakeAssumption DEF Older, Unseen
  <2>2. seen[a] = lastPassed[a]
    BY <1>1, <2>1 DEF Tick, RecentAreSeen
  <2> QED BY <1>1, <2>1, <2>2 DEF Tick
<1>2. ASSUME NEW w \in Workers, SkipDuplicate(w)
      PROVE  seen'[a] = lastPassed'[a]
  <2>1. seen[a] = lastPassed[a] /\ lastPassed[a] \in 0..TTL
    BY <1>2 DEF SkipDuplicate, RecentAreSeen
  <2>2. ~Overflow(w)
    <3>1. job[w].alert \in Alerts
      BY <1>2 DEF SkipDuplicate, TypeOK, Signal, Busy
    <3> QED BY <1>2, <3>1 DEF SkipDuplicate, Remembered, NoFingerprints
  <2> QED BY <1>2, <2>1, <2>2, RecentKept DEF SkipDuplicate
<1>3. ASSUME NEW w \in Workers, Pass(w)
      PROVE  seen'[a] = lastPassed'[a]
  <2>1. CASE a = job[w].alert
    BY <1>3, <2>1, PassTables
  <2>2. CASE a # job[w].alert
    <3>1. /\ lastPassed'[a] = IF Overflow(w) THEN Unseen ELSE lastPassed[a]
          /\ seen'[a] = Remembered(w)[a]
      BY <1>3, <2>2, PassTables
    <3>2. ~Overflow(w)
      BY <3>1 DEF Unseen
    <3>3. seen[a] = lastPassed[a] /\ lastPassed[a] \in 0..TTL
      BY <3>1, <3>2 DEF RecentAreSeen
    <3> QED BY <3>1, <3>2, <3>3, RecentKept
  <2> QED BY <2>1, <2>2
<1>4. ASSUME NEW label, PeriodicTasks(label)
      PROVE  seen'[a] = lastPassed'[a]
  <2>1. CASE UNCHANGED <<seen, lastPassed>>
    BY <2>1 DEF RecentAreSeen
  <2>2. CASE seen' = NoFingerprints /\ lastPassed' = NoFingerprints
    BY <2>2
  <2> QED BY <1>4, <2>1, <2>2 DEF PeriodicTasks
<1>5. CASE UNCHANGED <<seen, lastPassed>>
  BY <1>5 DEF RecentAreSeen
<1> QED
  BY <1>1, <1>2, <1>3, <1>4, <1>5
     DEF Next, Worker, Receive, Push, Loop, Pop, PopNothing, Periodic, ReadClock, SkipStale,
         LockSymbol, LockTimeout, Handle, FallSilent, KeeperSilent, HandlerSilent,
         StopServer, StopEngine, SocketSilent, StopSocket, FinalSave, vars

(* The order of the shutdown is kept. *)
LEMMA StopStep ==
    ASSUME TypeOK, StopOrder, [Next]_vars
    PROVE  StopOrder'
<1>1. ASSUME NEW t \in Threads, Receive(t) \/ Push(t)
      PROVE  StopOrder'
  BY <1>1 DEF Receive, Push, StopOrder, TypeOK, lifeVars
<1>2. ASSUME NEW w \in Workers, Worker(w) \/ FallSilent
      PROVE  StopOrder'
  <2>1. /\ UNCHANGED <<session, server, running, saved, socket>>
        /\ \E v \in Workers : pc[v] # "stopped"
    BY <1>2, IntakeAssumption
       DEF Worker, Loop, Pop, PopNothing, Periodic, PeriodicTasks, ReadClock, SkipStale,
           SkipDuplicate, Pass, LockSymbol, LockTimeout, Handle, FallSilent, KeeperSilent,
           HandlerSilent, lifeVars
  <2> QED BY <2>1 DEF StopOrder
<1>3. CASE Tick
  BY <1>3, OlderJobType DEF Tick, StopOrder, lifeVars
<1>4. CASE StopServer \/ StopEngine \/ SocketSilent \/ StopSocket \/ FinalSave \/ UNCHANGED vars
  BY <1>4 DEF StopServer, StopEngine, SocketSilent, StopSocket, FinalSave, vars, StopOrder
<1> QED BY <1>1, <1>2, <1>3, <1>4, IntakeAssumption DEF Next

(* Every step keeps the invariant. *)
LEMMA IntakeInvStep == IntakeInv /\ [Next]_vars => IntakeInv'
BY ThreadType, WorkerType, SilentType, TickType, EndType, SeenStep, StopStep
   DEF IntakeInv, Next

(* The shutdown is in order and the fingerprint table knows every recent alert,
   whatever the workers and the webhook threads do (main, stop and the
   duplicate check of process_signal). *)
THEOREM IntakeInvariant == Spec => []IntakeInv
BY IntakeInvInit, IntakeInvStep, PTL DEF Spec

(* The duplicate check of process_signal lets no alert pass twice within TTL of
   the first reading of the clock, unless the table is cleared in between. *)
THEOREM PassedOnce == Spec => NoRepeat
<1>1. ASSUME IntakeInv, NEW w \in Workers, Pass(w), ~Overflow(w)
      PROVE  lastPassed[job[w].alert] \notin 0..TTL
  <2>1. job[w].alert \in Alerts
    BY <1>1, PassTables DEF IntakeInv
  <2> SUFFICES ASSUME lastPassed[job[w].alert] \in 0..TTL PROVE FALSE
    OBVIOUS
  <2>2. seen[job[w].alert] \in 0..TTL
    BY <1>1, <2>1 DEF IntakeInv, RecentAreSeen
  <2>3. Remembered(w)[job[w].alert] = seen[job[w].alert]
    BY <1>1, <2>1, <2>2, RecentKept DEF IntakeInv
  <2> QED BY <1>1, <2>2, <2>3 DEF Pass, Unseen
<1>2. IntakeInv /\ [Next]_vars
      => [\A w \in Workers :
             Pass(w) /\ ~Overflow(w) => lastPassed[job[w].alert] \notin 0..TTL]_vars
  BY <1>1
<1> QED BY <1>2, IntakeInvariant, PTL DEF Spec, NoRepeat
=============================================================================
