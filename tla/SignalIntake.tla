----------------------------- MODULE SignalIntake -----------------------------
(***************************************************************************)
(* The way of an alert into the engine: a webhook thread parses it and     *)
(* pushes it on the bounded queue, a worker pops it, drops it when it is   *)
(* stale or a duplicate, waits for the lock of its symbol and handles it.  *)
(* FuturesEngine says what handling does; here it is one step.  Worker 0,  *)
(* the keeper, runs the periodic tasks when its wait for a signal times    *)
(* out.  At the end the server stops, then the engine.  The requests of a  *)
(* handler and of the periodic tasks have no timeout: one whose connection *)
(* falls silent keeps its worker for ever.                                 *)
(*                                                                         *)
(* Time is counted in ticks and kept as ages, each up to the first value   *)
(* that no comparison of the code tells from later ones, so that the       *)
(* system may run for ever in finitely many states.                        *)
(***************************************************************************)
EXTENDS Integers, FiniteSets, Sequences

CONSTANTS
    Alerts,       \* alerts, told apart by their fingerprint
    Symbols,      \* the symbols they are about
    SymbolOf,     \* SymbolOf[a]: the symbol of an alert
    Allowed,      \* allowed_symbols
    Threads,      \* threads of the webhook server
    Workers,      \* worker threads
    Keeper,       \* the worker with wid = 0
    NoWorker,     \* owner of a free symbol lock
    Capacity,     \* capacity of the queue (8192)
    MaxAge,       \* age up to which a signal is fresh (10 s to 120 s)
    TTL,          \* time a fingerprint is to be remembered (120 s)
    EvictAbove,   \* number of fingerprints above which old ones go (100)
    ClearAbove,   \* number of fingerprints above which all go (50000)
    MaxDelay      \* bound: ticks from reading the clock to the table

ASSUME IntakeAssumption ==
    /\ IsFiniteSet(Alerts)
    /\ SymbolOf \in [Alerts -> Symbols]
    /\ Allowed \subseteq Symbols
    /\ Keeper \in Workers
    /\ NoWorker \notin Workers
    /\ Capacity \in Nat \ {0}
    /\ MaxAge \in Nat /\ TTL \in Nat
    /\ EvictAbove \in Nat /\ ClearAbove \in Nat /\ MaxDelay \in Nat

VARIABLES
    session,     \* the signal each webhook thread has parsed and not yet pushed
    queue,       \* MPSCQueue::m_queue
    seen,        \* m_recent_fingerprints: the age of each, or Unseen
    owner,       \* holder of each symbol's lock
    pc,          \* where each worker is
    job,         \* the signal each worker has popped, with its latency once measured
    clock,       \* how long ago each worker read the time (now)
    server,      \* the webhook server accepts requests
    running,     \* m_running, and the queue is not shut down
    saved,       \* stop has saved the state
    socket,      \* the thread of m_ws_client: not joined yet, joined, or found
                 \* in a read that never returns
    lastPassed   \* history: age of the clock reading with which each alert last
                 \* passed since the table was cleared, or Unseen

vars == <<session, queue, seen, owner, pc, job, clock, server, running, saved,
          socket, lastPassed>>

lifeVars == <<server, running, saved, socket>>

-----------------------------------------------------------------------------
Unseen == -1
Idle   == [alert |-> "none", age |-> 0]

Signal == [alert: Alerts, age: 0..(MaxAge + 1)]

(* One tick later, for an age that is told apart up to cap + 1. *)
Older(age, cap) == IF age \in 0..cap THEN age + 1 ELSE age
OlderSignal(s) == [s EXCEPT !.age = Older(@, MaxAge)]
OlderJob(s) == IF s = Idle THEN s ELSE OlderSignal(s)

Table == [Alerts -> Unseen..(TTL + MaxDelay + 1)]

NoFingerprints == [a \in Alerts |-> Unseen]

Fingerprints(f) == {a \in Alerts : f[a] # Unseen}

Busy   == {"popped", "screen", "lock", "handle"}
Labels == Busy \cup {"loop", "wait", "stopped", "silent"}

Goto(w, label) == pc' = [pc EXCEPT ![w] = label]

(* The signal is given up or done. *)
Done(w) == Goto(w, "loop") /\ job' = [job EXCEPT ![w] = Idle]

Init ==
    /\ session = [t \in Threads |-> Idle]
    /\ queue = <<>>
    /\ seen = NoFingerprints
    /\ owner = [s \in Symbols |-> NoWorker]
    /\ pc = [w \in Workers |-> "loop"]
    /\ job = [w \in Workers |-> Idle]
    /\ clock = [w \in Workers |-> 0]
    /\ server = TRUE
    /\ running = TRUE
    /\ saved = FALSE
    /\ socket = "open"
    /\ lastPassed = NoFingerprints

-----------------------------------------------------------------------------
(* The webhook server. *)

(* handle_request: a request that passed the rate limit, the token and
   is_valid; received_at is taken while it is parsed. *)
Receive(t) ==
    /\ server
    /\ session[t] = Idle
    /\ \E a \in Alerts : session' = [session EXCEPT ![t] = [alert |-> a, age |-> 0]]
    /\ UNCHANGED <<queue, seen, owner, pc, job, clock, lifeVars, lastPassed>>

(* on_signal: try_push drops the signal when the queue is full; the reply is
   "accepted" in both cases. *)
Push(t) ==
    /\ session[t] # Idle
    /\ session' = [session EXCEPT ![t] = Idle]
    /\ queue' = IF Len(queue) < Capacity THEN Append(queue, session[t]) ELSE queue
    /\ UNCHANGED <<seen, owner, pc, job, clock, lifeVars, lastPassed>>

-----------------------------------------------------------------------------
(* The workers. *)

(* Mutant of Loop: m_running is not looked at. *)
LoopOn(w) ==
    /\ pc[w] = "loop"
    /\ Goto(w, "wait")
    /\ UNCHANGED <<session, queue, seen, owner, job, clock, lifeVars, lastPassed>>

(* worker_loop: the condition of the loop. *)
Loop(w) ==
    /\ pc[w] = "loop"
    /\ Goto(w, IF running THEN "wait" ELSE "stopped")
    /\ UNCHANGED <<session, queue, seen, owner, job, clock, lifeVars, lastPassed>>

(* wait_pop returns the signal at the head, also after shutdown. *)
Pop(w) ==
    /\ pc[w] = "wait"
    /\ queue # <<>>
    /\ job' = [job EXCEPT ![w] = Head(queue)]
    /\ queue' = Tail(queue)
    /\ Goto(w, "popped")
    /\ UNCHANGED <<session, seen, owner, clock, lifeVars, lastPassed>>

(* wait_pop returns nothing: 500 ms went by, or the queue was shut down. *)
PopNothing(w) ==
    /\ pc[w] = "wait"
    /\ queue = <<>>
    /\ Goto(w, "loop")
    /\ w # Keeper
    /\ UNCHANGED <<session, queue, seen, owner, job, clock, lifeVars, lastPassed>>

(* The keeper then runs periodic_tasks, which first clears the fingerprints when
   the last daily reset is 24 hours old. *)
PeriodicTasks(label) ==
    /\ pc[Keeper] = "wait"
    /\ queue = <<>>
    /\ Goto(Keeper, label)
    /\ \/ UNCHANGED <<seen, lastPassed>>
       \/ seen' = NoFingerprints /\ lastPassed' = NoFingerprints
    /\ UNCHANGED <<session, queue, owner, job, clock, lifeVars>>

Periodic == PeriodicTasks("loop")

(* A request of the reconciliation, the balance or the leverage never returns. *)
KeeperSilent == PeriodicTasks("silent")

(* process_signal reads the time, which gives the latency of the signal, and
   then calls the shadow trackers; it uses the reading after them. *)
ReadClock(w) ==
    /\ pc[w] = "popped"
    /\ Goto(w, "screen")
    /\ UNCHANGED <<session, queue, seen, owner, job, clock, lifeVars, lastPassed>>

Screened(w) == clock' = [clock EXCEPT ![w] = 0]

(* Mutant of Old: a fingerprint goes one tick too early. *)
OldEarly(w, a) == seen[a] - clock[w] >= TTL

(* Under m_fp_mtx: fingerprints that are old by the worker's reading go when
   there are many, all go when there are very many. *)
Old(w, a) == seen[a] - clock[w] > TTL

Evicted(w) ==
    IF Cardinality(Fingerprints(seen)) > EvictAbove
    THEN [a \in Alerts |-> IF Old(w, a) THEN Unseen ELSE seen[a]]
    ELSE seen

Overflow(w) == Cardinality(Fingerprints(Evicted(w))) > ClearAbove

Remembered(w) == IF Overflow(w) THEN NoFingerprints ELSE Evicted(w)

Stale(w) == job[w].age > MaxAge

SkipStale(w) ==
    /\ pc[w] = "screen"
    /\ Stale(w)
    /\ Screened(w) /\ Done(w)
    /\ UNCHANGED <<session, queue, seen, owner, lifeVars, lastPassed>>

SkipDuplicate(w) ==
    /\ pc[w] = "screen"
    /\ ~Stale(w)
    /\ Remembered(w)[job[w].alert] # Unseen
    /\ seen' = Remembered(w)
    /\ Screened(w) /\ Done(w)
    /\ UNCHANGED <<session, queue, owner, lifeVars, lastPassed>>

(* The fingerprint is stored, with the reading, before the signal is handled,
   and also when its symbol is not allowed. *)
Pass(w) ==
    /\ pc[w] = "screen"
    /\ ~Stale(w)
    /\ Remembered(w)[job[w].alert] = Unseen
    /\ seen' = [Remembered(w) EXCEPT ![job[w].alert] = clock[w]]
    /\ lastPassed' = [(IF Overflow(w) THEN NoFingerprints ELSE lastPassed)
                         EXCEPT ![job[w].alert] = clock[w]]
    /\ Screened(w)
    /\ IF SymbolOf[job[w].alert] \in Allowed
       THEN Goto(w, "lock") /\ UNCHANGED job
       ELSE Done(w)
    /\ UNCHANGED <<session, queue, owner, lifeVars>>

LockOf(w) == owner[SymbolOf[job[w].alert]]

(* wait_lock in the handler; 15 s for an entry, 10 s for a TP or SL. *)
LockSymbol(w) ==
    /\ pc[w] = "lock"
    /\ LockOf(w) = NoWorker
    /\ owner' = [owner EXCEPT ![SymbolOf[job[w].alert]] = w]
    /\ Goto(w, "handle")
    /\ UNCHANGED <<session, queue, seen, job, clock, lifeVars, lastPassed>>

LockTimeout(w) ==
    /\ pc[w] = "lock"
    /\ LockOf(w) # NoWorker
    /\ Done(w)
    /\ UNCHANGED <<session, queue, seen, owner, clock, lifeVars, lastPassed>>

(* Mutant of Handle: the thread ends with an exception of the handler. *)
HandleOrDie(w) ==
    /\ pc[w] = "handle"
    /\ owner' = [owner EXCEPT ![SymbolOf[job[w].alert]] = NoWorker]
    /\ job' = [job EXCEPT ![w] = Idle]
    /\ \E label \in {"loop", "stopped"} : Goto(w, label)
    /\ UNCHANGED <<session, queue, seen, clock, lifeVars, lastPassed>>

(* The handler returns or throws; worker_loop catches, the guard unlocks. *)
Handle(w) ==
    /\ pc[w] = "handle"
    /\ owner' = [owner EXCEPT ![SymbolOf[job[w].alert]] = NoWorker]
    /\ Done(w)
    /\ UNCHANGED <<session, queue, seen, clock, lifeVars, lastPassed>>

(* A request of the handler never returns, or m_pos_mtx is held by a
   reconciliation whose request does not: the worker keeps its symbol. *)
HandlerSilent(w) ==
    /\ pc[w] = "handle"
    /\ Goto(w, "silent")
    /\ UNCHANGED <<session, queue, seen, owner, job, clock, lifeVars, lastPassed>>

FallSilent == KeeperSilent \/ \E w \in Workers : HandlerSilent(w)

Worker(w) ==
    \/ Loop(w) \/ Pop(w) \/ PopNothing(w) \/ (w = Keeper /\ Periodic)
    \/ ReadClock(w) \/ SkipStale(w) \/ SkipDuplicate(w) \/ Pass(w)
    \/ LockSymbol(w) \/ LockTimeout(w) \/ Handle(w)

-----------------------------------------------------------------------------
(* Time and the end. *)

(* The latency of a signal is measured once. *)
Tick ==
    /\ \A w \in Workers : pc[w] = "screen" => clock[w] < MaxDelay
    /\ session' = [t \in Threads |-> OlderJob(session[t])]
    /\ queue' = [i \in 1..Len(queue) |-> OlderSignal(queue[i])]
    /\ seen' = [a \in Alerts |-> Older(seen[a], TTL + MaxDelay)]
    /\ job' = [w \in Workers |-> IF pc[w] = "popped" THEN OlderSignal(job[w]) ELSE job[w]]
    /\ clock' = [w \in Workers |-> IF pc[w] = "screen" THEN clock[w] + 1 ELSE clock[w]]
    /\ lastPassed' = [a \in Alerts |-> Older(lastPassed[a], TTL + MaxDelay)]
    /\ UNCHANGED <<owner, pc, lifeVars>>

(* signal_handler: the io_context stops; requests being handled finish. *)
StopServer ==
    /\ server
    /\ server' = FALSE
    /\ UNCHANGED <<session, queue, seen, owner, pc, job, clock, running, saved, socket,
                   lastPassed>>

(* Mutant of StopEngine: the threads of the server are not joined. *)
StopEngineAtOnce ==
    /\ ~server /\ running
    /\ running' = FALSE
    /\ UNCHANGED <<session, queue, seen, owner, pc, job, clock, server, saved, socket,
                   lastPassed>>

(* run returns when its threads are joined; main then stops the engine. *)
StopEngine ==
    /\ ~server /\ running
    /\ \A t \in Threads : session[t] = Idle
    /\ running' = FALSE
    /\ UNCHANGED <<session, queue, seen, owner, pc, job, clock, server, saved, socket,
                   lastPassed>>

(* The thread of m_ws_client is found in a read that never returns, or in a
   callback that waits for m_pos_mtx for ever: it cannot be joined. *)
SocketSilent ==
    /\ ~running
    /\ socket = "open"
    /\ socket' = "silent"
    /\ UNCHANGED <<session, queue, seen, owner, pc, job, clock, server, running, saved,
                   lastPassed>>

(* stop: m_ws_client->stop() joins the thread of the client; without a client
   there is nothing to stop. *)
StopSocket ==
    /\ ~running
    /\ socket = "open"
    /\ socket' = "stopped"
    /\ UNCHANGED <<session, queue, seen, owner, pc, job, clock, server, running, saved,
                   lastPassed>>

(* Mutant of FinalSave: the state is saved before the workers are joined. *)
SaveUnjoined ==
    /\ ~running /\ ~saved
    /\ socket = "stopped"
    /\ saved' = TRUE
    /\ UNCHANGED <<session, queue, seen, owner, pc, job, clock, server, running, socket,
                   lastPassed>>

(* stop then joins the workers and saves. *)
FinalSave ==
    /\ ~running /\ ~saved
    /\ socket = "stopped"
    /\ \A w \in Workers : pc[w] = "stopped"
    /\ saved' = TRUE
    /\ UNCHANGED <<session, queue, seen, owner, pc, job, clock, server, running, socket,
                   lastPassed>>

Next ==
    \/ \E t \in Threads : Receive(t) \/ Push(t)
    \/ \E w \in Workers : Worker(w)
    \/ FallSilent \/ SocketSilent
    \/ Tick \/ StopServer \/ StopEngine \/ StopSocket \/ FinalSave

Spec == Init /\ [][Next]_vars

(* Threads run and time passes.  Nothing is assumed of the sender or the operator,
   nor that a request returns: FallSilent may come before Handle and Periodic. *)
Fairness ==
    /\ \A t \in Threads : WF_vars(Push(t))
    /\ \A w \in Workers : WF_vars(Worker(w))
    /\ WF_vars(Tick) /\ WF_vars(StopEngine) /\ WF_vars(StopSocket) /\ WF_vars(FinalSave)

FairSpec == Spec /\ Fairness

-----------------------------------------------------------------------------
(* Properties. *)

TypeOK ==
    /\ session \in [Threads -> Signal \cup {Idle}]
    /\ queue \in Seq(Signal)
    /\ seen \in Table
    /\ owner \in [Symbols -> Workers \cup {NoWorker}]
    /\ pc \in [Workers -> Labels]
    /\ job \in [Workers -> Signal \cup {Idle}]
    /\ \A w \in Workers : pc[w] \in Busy => job[w] \in Signal
    /\ clock \in [Workers -> 0..MaxDelay]
    /\ server \in BOOLEAN /\ running \in BOOLEAN /\ saved \in BOOLEAN
    /\ socket \in {"open", "silent", "stopped"}
    /\ lastPassed \in Table

(* process_signal's duplicate check: unless the table is cleared in between, by
   the daily reset or because it overflows, one alert does not pass twice within
   TTL of the first reading of the clock, though several workers screen copies of
   it with readings of different age and prune the table by them. *)
NoRepeat ==
    [][\A w \in Workers :
          Pass(w) /\ ~Overflow(w) => lastPassed[job[w].alert] \notin 0..TTL]_vars

(* Why: an alert that passed within TTL is in the table, with the same reading. *)
RecentAreSeen ==
    \A a \in Alerts : lastPassed[a] \in 0..TTL => seen[a] = lastPassed[a]

(* main and stop: nothing is pushed once the engine was told to stop, and when
   the state is saved at last nobody handles a signal or an event of the
   WebSocket any more. *)
StopOrder ==
    /\ ~running => ~server /\ \A t \in Threads : session[t] = Idle
    /\ socket # "open" => ~running
    /\ saved => socket = "stopped" /\ \A w \in Workers : pc[w] = "stopped"

(* The inductive invariant: what process_signal's table knows, and how far the
   shutdown in main and stop has come. *)
IntakeInv == TypeOK /\ RecentAreSeen /\ StopOrder

(* stop ends with the state saved: the workers leave their waits and are joined,
   unless a thread is in a call that never returns, of the REST client or of the
   WebSocket. *)
StopCompletes ==
    ~running ~> \/ saved
                \/ socket = "silent"
                \/ \E w \in Workers : pc[w] = "silent"

(* Signals do not get stuck: a queue that is never empty again keeps being
   popped as long as the engine runs, though handlers throw, locks time out and
   workers stay in calls that never return, as long as one worker does not. *)
QueueMoves ==
    \/ []<>(queue = <<>> \/ ~running \/ \A w \in Workers : pc[w] = "silent")
    \/ []<><<\E w \in Workers : Pop(w)>>_vars
=============================================================================
