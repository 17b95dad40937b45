-------------------------------- MODULE BitgetWS --------------------------------
(***************************************************************************)
(* BitgetWSClient: a thread of its own that connects, logs in, subscribes, *)
(* reads pushed messages until something fails, waits, and starts again;   *)
(* and stop(), which clears m_running and joins the thread.                *)
(*                                                                         *)
(* Every read is synchronous.  The expiry set before it works on           *)
(* asynchronous operations only, so that a read returns when a message     *)
(* comes or the connection fails and never because time has passed.  The   *)
(* exchange is external.  What the engine does with a push is in           *)
(* FuturesEngine.                                                          *)
(***************************************************************************)
EXTENDS Integers, Sequences

CONSTANTS
    BackoffInitial,  \* BACKOFF_INITIAL_SEC (1)
    BackoffMax,      \* BACKOFF_MAX_SEC (60)
    PingInterval,    \* PING_INTERVAL_SEC (25)
    PongTimeout,     \* PONG_TIMEOUT_SEC (10)
    MaxWaiting       \* bound: messages waiting to be read

ASSUME WSAssumption ==
    /\ BackoffInitial \in Nat \ {0} /\ BackoffMax \in Nat /\ BackoffInitial <= BackoffMax
    /\ PingInterval \in Nat /\ PongTimeout \in Nat \ {0} /\ PongTimeout < PingInterval
    /\ MaxWaiting \in Nat \ {0}

VARIABLES
    running,    \* m_running
    connected,  \* m_connected
    at,         \* where the thread is
    backoff,    \* backoff_sec
    failures,   \* reconnect_count, counted up to the largest backoff
    left,       \* seconds of the wait still to sleep
    sincePing,  \* seconds since last_ping, counted up to PingInterval
    pending,    \* pong_pending
    net,        \* the exchange is "up", "refusing" logins, or "down"
    link,       \* the connection, seen from the exchange
    inbox       \* messages sent on it and not yet read

clientVars ==
    <<running, connected, at, backoff, failures, left, sincePing, pending, net, link, inbox>>

retryVars == <<backoff, failures, left>>
pingVars == <<sincePing, pending>>
linkVars == <<link, inbox>>

(* A connection is "open", "closed", or "silent": it neither brings         *)
(* anything nor breaks.  The exchange knows whether it has a user and       *)
(* channels, and what it was asked and has not answered.                    *)
NoLink == [state |-> "none", user |-> FALSE, channels |-> FALSE, asked |-> {}]

ClientInit ==
    /\ running = TRUE /\ connected = FALSE /\ at = "top"
    /\ backoff = BackoffInitial /\ failures = 0 /\ left = 0
    /\ sincePing = 0 /\ pending = FALSE
    /\ net \in {"up", "refusing", "down"} /\ link = NoLink /\ inbox = <<>>

Capped(n) == IF n < BackoffMax THEN n ELSE BackoffMax

-----------------------------------------------------------------------------
(* run_loop *)

(* Mutant of Top: it gives up when the waits are longest. *)
TopLimited ==
    /\ at = "top"
    /\ IF running /\ backoff < BackoffMax THEN at' = "connect" /\ UNCHANGED connected
       ELSE at' = "done" /\ connected' = FALSE
    /\ UNCHANGED <<running, retryVars, pingVars, net, linkVars>>

Top ==
    /\ at = "top"
    /\ IF running THEN at' = "connect" /\ UNCHANGED connected
       ELSE at' = "done" /\ connected' = FALSE
    /\ UNCHANGED <<running, retryVars, pingVars, net, linkVars>>

(* Mutant of Backoff: the wait grows also after a connection that worked. *)
BackoffKept == backoff

(* An attempt that got as far as m_connected starts the backoff anew. *)
Backoff == IF connected THEN BackoffInitial ELSE backoff

(* The exception handler. *)
Throw ==
    /\ connected' = FALSE
    /\ link' = NoLink /\ inbox' = <<>>
    /\ IF running
       THEN /\ at' = "wait" /\ backoff' = Backoff /\ left' = Backoff
            /\ failures' = Capped(IF connected THEN 1 ELSE failures + 1)
       ELSE at' = "done" /\ UNCHANGED retryVars
    /\ UNCHANGED <<running, pingVars, net>>

(* Second by second, so that stop() need not wait. *)
SleepSecond ==
    /\ at = "wait" /\ running /\ left > 0
    /\ left' = left - 1
    /\ UNCHANGED <<running, connected, at, backoff, failures, pingVars, net, linkVars>>

Retry ==
    /\ at = "wait" /\ (left = 0 \/ ~running)
    /\ at' = "top" /\ left' = 0
    /\ backoff' = Capped(2 * backoff)
    /\ UNCHANGED <<running, connected, failures, pingVars, net, linkVars>>

-----------------------------------------------------------------------------
(* connect_and_run *)

(* Resolve, connect and shake hands, then send_login. *)
Connect ==
    /\ at = "connect"
    /\ IF net = "down" THEN Throw
       ELSE /\ link' = [NoLink EXCEPT !.state = "open", !.asked = {"login"}]
            /\ at' = "login"
            /\ UNCHANGED <<running, connected, retryVars, pingVars, net, inbox>>

(* Mutant of ReadLogin: the answer is not looked at. *)
ReadLoginBlind ==
    /\ at = "login" /\ inbox # <<>>
    /\ at' = "ack" /\ inbox' = Tail(inbox)
    /\ link' = [link EXCEPT !.asked = @ \cup {"subscribe"}]
    /\ UNCHANGED <<running, connected, retryVars, pingVars, net>>

(* The answer to the login, then send_subscribe. *)
ReadLogin ==
    /\ at = "login" /\ inbox # <<>>
    /\ IF Head(inbox) # "loggedIn" THEN Throw
       ELSE /\ at' = "ack" /\ inbox' = Tail(inbox)
            /\ link' = [link EXCEPT !.asked = @ \cup {"subscribe"}]
            /\ UNCHANGED <<running, connected, retryVars, pingVars, net>>

(* Whatever comes next is taken for the answer to the subscription, and a  *)
(* refusal for consent: the client then waits for pushes that never come.  *)
ReadAck ==
    /\ at = "ack" /\ inbox # <<>>
    /\ at' = "loop" /\ inbox' = Tail(inbox) /\ connected' = TRUE
    /\ sincePing' = 0 /\ pending' = FALSE
    /\ UNCHANGED <<running, retryVars, net, link>>


LoopEnds == ~running

(* The top of the receive loop: the end of it, a ping when one is due, and *)
(* only then, against the time of the newest ping, the pong check.  The    *)
(* close at the end waits for that of the other side.                      *)
Loop ==
    /\ at = "loop"
    /\ IF LoopEnds
       THEN /\ link.state # "silent"
            /\ at' = "top" /\ link' = NoLink /\ inbox' = <<>>
            /\ failures' = 0 /\ backoff' = BackoffInitial
            /\ UNCHANGED <<running, connected, left, pingVars, net>>
       ELSE IF sincePing >= PingInterval
       THEN \/ /\ at' = "read" /\ sincePing' = 0 /\ pending' = TRUE
               /\ link' = [link EXCEPT !.asked = @ \cup {"ping"}]
               /\ UNCHANGED <<running, connected, retryVars, net, inbox>>
            \/ link.state = "closed" /\ Throw
       ELSE IF pending /\ sincePing >= PongTimeout THEN Throw
       ELSE /\ at' = "read"
            /\ UNCHANGED <<running, connected, retryVars, pingVars, net, linkVars>>

(* handle_message; one whose fields have other types throws through it. *)
Read ==
    /\ at = "read" /\ inbox # <<>>
    /\ IF Head(inbox) = "odd" THEN Throw
       ELSE /\ at' = "loop" /\ inbox' = Tail(inbox)
            /\ pending' = (pending /\ Head(inbox) # "pong")
            /\ UNCHANGED <<running, connected, retryVars, sincePing, net, link>>

ReadFails ==
    /\ at \in {"login", "ack", "read"} /\ inbox = <<>> /\ link.state = "closed"
    /\ Throw

Thread ==
    \/ Top \/ SleepSecond \/ Retry \/ Connect \/ ReadLogin \/ ReadAck
    \/ Loop \/ Read \/ ReadFails

-----------------------------------------------------------------------------
(* stop(): the join that follows returns when the thread is done. *)
Stop ==
    /\ running /\ running' = FALSE
    /\ UNCHANGED <<connected, at, retryVars, pingVars, net, linkVars>>

(* A second passes while the thread waits for a message. *)
SecondPasses ==
    /\ at = "read" /\ sincePing < PingInterval
    /\ sincePing' = sincePing + 1
    /\ UNCHANGED <<running, connected, at, retryVars, pending, net, linkVars>>

-----------------------------------------------------------------------------
(* The exchange *)

Send(message) == Len(inbox) < MaxWaiting /\ inbox' = Append(inbox, message)

Reply(request) ==
    /\ link.state = "open" /\ request \in link.asked
    /\ \/ /\ request = "login" /\ net = "up" /\ Send("loggedIn")
          /\ link' = [link EXCEPT !.user = TRUE, !.asked = @ \ {request}]
       \/ /\ request = "login" /\ net # "up" /\ Send("refused")
          /\ link' = [link EXCEPT !.asked = @ \ {request}]
       \/ /\ request = "subscribe" /\ Send("ack")
          /\ link' = [link EXCEPT !.channels = link.user, !.asked = @ \ {request}]
       \/ /\ request = "subscribe" /\ Send("error")
          /\ link' = [link EXCEPT !.asked = @ \ {request}]
       \/ /\ request = "ping" /\ Send("pong")
          /\ link' = [link EXCEPT !.asked = @ \ {request}]
    /\ UNCHANGED <<running, connected, at, retryVars, pingVars, net>>

(* A push of the subscribed channels. *)
Push(message) ==
    /\ link.state = "open" /\ link.channels /\ Send(message)
    /\ UNCHANGED <<running, connected, at, retryVars, pingVars, net, link>>

Becomes(state) ==
    /\ link' = [link EXCEPT !.state = state]
    /\ UNCHANGED <<running, connected, at, retryVars, pingVars, net, inbox>>

(* The exchange ends a connection that stands, or any if it has trouble. *)
Close == link.state = "open" /\ (link.channels \/ net # "up") /\ Becomes("closed")

(* It ends one on which it was asked nothing for long. *)
CloseIdle ==
    link.state = "open" /\ link.asked = {} /\ inbox = <<>> /\ Becomes("closed")

FallSilent == link.state = "open" /\ Becomes("silent")

Network ==
    /\ net' \in {"up", "refusing", "down"} \ {net}
    /\ UNCHANGED <<running, connected, at, retryVars, pingVars, linkVars>>

Exchange ==
    \/ \E request \in {"login", "subscribe", "ping"} : Reply(request)
    \/ \E message \in {"push", "odd"} : Push(message)
    \/ Close \/ CloseIdle \/ FallSilent \/ Network

ClientNext == Thread \/ Stop \/ SecondPasses \/ Exchange

(* The thread runs; the exchange answers on a connection that has not gone *)
(* silent, and closes one that stays idle.                                 *)
ClientFairness ==
    /\ WF_clientVars(Thread) /\ WF_clientVars(CloseIdle)
    /\ \A request \in {"login", "subscribe", "ping"} : WF_clientVars(Reply(request))

ClientSpec == ClientInit /\ [][ClientNext]_clientVars /\ ClientFairness

-----------------------------------------------------------------------------
(* Properties *)

(* The shortest wait, doubled n times. *)
Doubled[n \in Nat] == IF n = 0 THEN BackoffInitial ELSE 2 * Doubled[n - 1]

(* Waits follow the failures in a row: they double up to the maximum, and  *)
(* the first after a connection that worked is the shortest again          *)
(* (bitget_ws.hpp:131-152).                                                *)
BackoffFollowsFailures ==
    at = "wait" => backoff = Capped(Doubled[failures - 1])

(* The client reports itself connected, and handles pushes, only on a      *)
(* connection the exchange has accepted the login of (bitget_ws.hpp:197).  *)
ConnectedMeansLoggedIn ==
    /\ at \in {"loop", "read"} => connected /\ link.user
    /\ connected => at \in {"loop", "read"} \/ ~running


(* The client connects again and again, however often it was disconnected, *)
(* unless it is stopped, the exchange stays away, or the connection has    *)
(* gone silent (bitget_ws.hpp:125-154).                                    *)
ComesBack == []<>(connected \/ ~running \/ net # "up" \/ link.state = "silent")
=============================================================================
