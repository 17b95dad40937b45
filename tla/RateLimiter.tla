----------------------------- MODULE RateLimiter -----------------------------
(***************************************************************************)
(* RateLimiter: the token bucket all workers share for their orders.       *)
(* Second ticks make a second, and a token is counted as Second units, so  *)
(* that a tick is worth Rate units.  acquire takes a token or sleeps a     *)
(* while and tries again; the bucket is refilled only when somebody asks.  *)
(***************************************************************************)
EXTENDS Integers

CONSTANTS
    Callers,   \* threads that call acquire
    Rate,      \* m_rate: tokens per second
    Burst,     \* m_max_tokens; equal to Rate unless given
    Second     \* ticks per second

ASSUME RateAssumption ==
    /\ Rate \in Nat \ {0}
    /\ Burst \in Nat \ {0}
    /\ Second \in Nat \ {0}

VARIABLES
    tokens,    \* m_tokens, in units
    elapsed,   \* ticks since m_last_refill
    pc,        \* where each caller is
    granted    \* history: granted[j]: tokens given in this tick and the j before

vars == <<tokens, elapsed, pc, granted>>

Full == Burst * Second

Smaller(a, b) == IF a <= b THEN a ELSE b

(* Mutant of Available: elapsed time in whole seconds. *)
AvailableWhole == Smaller(Full, tokens + (elapsed \div Second) * Second * Rate)

(* refill: what the bucket holds when it is looked at now. *)
Available == Smaller(Full, tokens + elapsed * Rate)

Init ==
    /\ tokens = Full
    /\ elapsed = 0
    /\ pc = [c \in Callers |-> "idle"]
    /\ granted = [j \in 0..(Second - 1) |-> 0]

Call(c) ==
    /\ pc[c] = "idle"
    /\ pc' = [pc EXCEPT ![c] = "try"]
    /\ UNCHANGED <<tokens, elapsed, granted>>

(* acquire, under m_mtx: refill and take a token. *)
Take(c) ==
    /\ pc[c] = "try"
    /\ Available >= Second
    /\ tokens' = Available - Second
    /\ elapsed' = 0
    /\ pc' = [pc EXCEPT ![c] = "idle"]
    /\ granted' = [j \in 0..(Second - 1) |-> granted[j] + 1]

(* Mutant of Sleep: m_last_refill stays, and the same time is counted again. *)
SleepUnstamped(c) ==
    /\ pc[c] = "try"
    /\ Available < Second
    /\ tokens' = Available
    /\ pc' = [pc EXCEPT ![c] = "sleep"]
    /\ UNCHANGED <<elapsed, granted>>

(* There is none: the refill stays, and the caller sleeps. *)
Sleep(c) ==
    /\ pc[c] = "try"
    /\ Available < Second
    /\ tokens' = Available
    /\ elapsed' = 0
    /\ pc' = [pc EXCEPT ![c] = "sleep"]
    /\ UNCHANGED granted

(* Time that would overfill the bucket is told apart no further. *)
Tick ==
    /\ elapsed' = IF tokens + elapsed * Rate < Full THEN elapsed + 1 ELSE elapsed
    /\ granted' = [j \in 0..(Second - 1) |-> IF j = 0 THEN 0 ELSE granted[j - 1]]
    /\ pc' = [c \in Callers |-> IF pc[c] = "sleep" THEN "try" ELSE pc[c]]
    /\ UNCHANGED tokens

Next == (\E c \in Callers : Call(c) \/ Take(c) \/ Sleep(c)) \/ Tick

Spec == Init /\ [][Next]_vars

(* Time passes and threads run; nobody has to call. *)
Fairness == WF_vars(Tick) /\ \A c \in Callers : WF_vars(Take(c) \/ Sleep(c))

FairSpec == Spec /\ Fairness

-----------------------------------------------------------------------------
TypeOK ==
    /\ tokens \in 0..Full
    /\ elapsed \in Nat
    /\ pc \in [Callers -> {"idle", "try", "sleep"}]
    /\ granted \in [0..(Second - 1) -> Nat]

(* Refilling lazily, from several threads, never makes tokens: what was given
   over the last ticks and what is left is at most a full bucket and what these
   ticks are worth. *)
Conserved ==
    \A j \in 0..(Second - 1) : granted[j] * Second + Available <= Full + j * Rate

(* The inductive invariant of acquire and refill. *)
RateInv == TypeOK /\ Conserved

(* Hence fewer tokens are given within a second than the burst and a second's
   worth of tokens together. *)
BurstBound == granted[Second - 1] < Burst + Rate

(* Waiting callers do not undo each other's refills: as long as there are any,
   tokens are given again and again. *)
TokensFlow ==
    []<>(\A c \in Callers : pc[c] = "idle") \/ []<><<\E c \in Callers : Take(c)>>_vars
=============================================================================
