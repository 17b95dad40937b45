---------------------------- MODULE WebhookLimiter ----------------------------
(***************************************************************************)
(* WebhookRateLimiter: requests per address within a sliding window.       *)
(* Time is in ticks; a request is kept as its age.  check runs under m_mtx *)
(* and is one step.                                                        *)
(***************************************************************************)
EXTENDS Integers, FiniteSets, Sequences

CONSTANTS
    Addresses,  \* client addresses
    Limit,      \* m_max_per_minute (600)
    Window,     \* ticks in 60 seconds
    Every       \* admitted checks between two clean-ups (100)

ASSUME LimiterAssumption ==
    /\ IsFiniteSet(Addresses)
    /\ Limit \in Nat \ {0} /\ Window \in Nat \ {0} /\ Every \in Nat \ {0}

VARIABLES
    known,      \* the keys of m_requests
    requests,   \* m_requests: the ages of the requests of an address
    checks,     \* m_check_count, modulo Every
    admitted    \* history: admitted[a][j]: requests of a admitted in this tick and
                \* the j before

limiterVars == <<known, requests, checks, admitted>>

(* An age is told apart up to the first one outside the window. *)
Older(age) == IF age <= Window THEN age + 1 ELSE age

(* The ages within the window. *)
Recent == 0..Window

(* The list without its first entries of an age that is not kept. *)
WithoutFirst(list, kept) ==
    LET gone == {i \in 1..Len(list) : \A j \in 1..i : list[j] \notin kept}
    IN SubSeq(list, Cardinality(gone) + 1, Len(list))

(* Mutants of Pruned: a request counts one tick less; or for ever. *)
PrunedEarly(a) == WithoutFirst(requests[a], 0..(Window - 1))
PrunedNothing(a) == requests[a]

(* Requests older than the window go from the front of the list. *)
Pruned(a) == WithoutFirst(requests[a], Recent)

LimiterInit ==
    /\ known = {}
    /\ requests = [a \in Addresses |-> <<>>]
    /\ checks = 0
    /\ admitted = [a \in Addresses |-> [j \in 0..Window |-> 0]]

(* check returns false: nothing is counted. *)
Reject(a) ==
    /\ Len(Pruned(a)) >= Limit
    /\ known' = known \cup {a}
    /\ requests' = [requests EXCEPT ![a] = Pruned(a)]
    /\ UNCHANGED <<checks, admitted>>

(* check returns true; every so often empty lists are erased. *)
Admit(a) ==
    /\ Len(Pruned(a)) < Limit
    /\ requests' = [requests EXCEPT ![a] = Append(Pruned(a), 0)]
    /\ checks' = (checks + 1) % Every
    /\ known' = IF checks' = 0
                THEN {b \in known \cup {a} : requests'[b] # <<>>}
                ELSE known \cup {a}
    /\ admitted' = [admitted EXCEPT ![a] = [j \in 0..Window |-> @[j] + 1]]

LimiterTick ==
    /\ requests' = [a \in Addresses |->
                       [i \in 1..Len(requests[a]) |-> Older(requests[a][i])]]
    /\ admitted' = [a \in Addresses |->
                       [j \in 0..Window |-> IF j = 0 THEN 0 ELSE admitted[a][j - 1]]]
    /\ UNCHANGED <<known, checks>>

LimiterNext ==
    \/ \E a \in Addresses : Admit(a) \/ Reject(a)
    \/ LimiterTick

LimiterSpec == LimiterInit /\ [][LimiterNext]_limiterVars

-----------------------------------------------------------------------------
LimiterTypeOK ==
    /\ known \subseteq Addresses
    /\ requests \in [Addresses -> Seq(0..(Window + 1))]
    /\ checks \in 0..(Every - 1)
    /\ admitted \in [Addresses -> [0..Window -> Nat]]

InWindow(a) == admitted[a][Window]

(* An address gets no more than Limit requests through in any window, whatever
   was pruned or erased when; and the list is sorted by age, which pruning from
   the front relies on. *)
WindowLimit ==
    \A a \in Addresses :
        /\ InWindow(a) <= Limit
        /\ \A i, j \in 1..Len(requests[a]) : i < j => requests[a][i] >= requests[a][j]
        /\ a \notin known => requests[a] = <<>>

(* Types, and the window that WebhookRateLimiter::check enforces. *)
LimiterInv == LimiterTypeOK /\ WindowLimit

(* check rejects a request only if its address used up its window, however old
   the entries are that it has not pruned yet. *)
RejectJustified ==
    \A a \in Addresses : Len(Pruned(a)) >= Limit => InWindow(a) = Limit
=============================================================================
