---------------------------- MODULE ServiceWorker ----------------------------
(***************************************************************************)
(* The background service worker of the browser extension                  *)
(* (src/extension/background/service-worker.js) as a client of the server: *)
(* the socket it keeps, and the cast with its timeout and retries.         *)
(*                                                                         *)
(* A callback of JavaScript is one step, an await ends one.  The browser   *)
(* may stop the worker at any time, which closes its socket and forgets    *)
(* its variables; the alarm wakes it.  The network may break a connection, *)
(* and lose a request or a response without a word.                        *)
(*                                                                         *)
(* The badge, the queues of detected media and the status that popups read *)
(* are left out.                                                           *)
(***************************************************************************)
EXTENDS RemoteServer

CONSTANTS
    Reach,      \* the sets of ports that the extension may reach, of http and ws
    Retries,    \* API_MAX_RETRIES
    MaxEvents   \* bounds what users, other clients and faults do in each of them

VARIABLES
    reach,      \* those that it reaches
    events,     \* how much has happened
    awake,      \* the worker runs
    ws,         \* its current socket
    wsConnecting, wsReconnectTimer, wsPing, isConnected,
    attached,   \* the sockets that still have an onclose
    casting,    \* what handleCast does: idle, waiting for the head of a response or
                \* for its body, or a delay
    attempt     \* of its request

workerVars == <<awake, ws, wsConnecting, wsReconnectTimer, wsPing, isConnected,
                attached, casting, attempt>>
socketState == <<ws, wsConnecting, wsReconnectTimer, wsPing, isConnected, attached>>
castState == <<casting, attempt>>
vars == <<sessionVars, socketVars, httpVars, reach, events, workerVars>>

\* What the worker's steps leave alone at the server.
serverKept == <<sessionVars, conn, permits, rx, owed, hushed, entries, clock, allowed>>

Init ==
    /\ ServerInit
    /\ reach \in Reach /\ events = 0
    /\ awake = FALSE /\ ws = None
    /\ wsConnecting = FALSE /\ wsReconnectTimer = FALSE
    /\ wsPing = FALSE /\ isConnected = FALSE /\ attached = {}
    /\ casting = "idle" /\ attempt = 0

Happens == events < MaxEvents[reach] /\ events' = events + 1

(***************************************************************************)
(* The socket.  Where its port is out of reach no connection is tried: it  *)
(* would fail, and nothing else depends on it.                             *)
(***************************************************************************)
Live_open_only(c) == c # None /\ ready[c] = "open"

Live(c) == c # None /\ ready[c] \in {"connecting", "open"}

\* connectWebSocket up to its await: it drops the timer even when it does nothing.
connectWebSocket ==
    /\ wsReconnectTimer' = FALSE
    /\ wsConnecting' = (wsConnecting \/ ~Live(ws))

Free == {c \in Sockets : ready[c] = "none" /\ conn[c] = "none"}

\* The rest of it, after getConfig.
Create ==
    /\ awake /\ wsConnecting /\ wsConnecting' = FALSE
    /\ \/ /\ ~Live(ws) /\ Free # {}
          /\ LET c == CHOOSE c \in Free : TRUE IN
             /\ ready' = [ready EXCEPT ![c] = "connecting"]
             /\ told' = [told EXCEPT ![c] = <<>>]
             /\ attached' = attached \cup {c}
             /\ ws' = c
       \/ Live(ws) /\ UNCHANGED <<ready, told, attached, ws>>
    /\ UNCHANGED <<serverKept, commands, flying, sent, answer, reach, events, awake,
                   wsReconnectTimer, wsPing, isConnected, castState>>

\* onopen.
Opened(c) ==
    /\ ready[c] = "connecting" /\ told[c] # <<>> /\ Head(told[c]) = "upgrade"
    /\ ready' = [ready EXCEPT ![c] = "open"]
    /\ told' = [told EXCEPT ![c] = Tail(@)]
    /\ isConnected' = TRUE /\ wsPing' = TRUE
    /\ UNCHANGED <<serverKept, commands, flying, sent, answer, reach, events, awake,
                   ws, wsConnecting, wsReconnectTimer, attached, castState>>

\* onmessage; a close frame begins the closing of the socket.
Received(c) ==
    /\ ready[c] = "open" /\ told[c] # <<>>
    /\ told' = [told EXCEPT ![c] = Tail(@)]
    /\ ready' = IF Head(told[c]) = "close" THEN [ready EXCEPT ![c] = "closing"]
                ELSE ready
    /\ UNCHANGED <<serverKept, commands, flying, sent, answer, reach, events,
                   workerVars>>

\* The connection breaks, or was never made.
Breaks(c) ==
    /\ ready[c] \in {"connecting", "open"}
    /\ Happens
    /\ ready' = [ready EXCEPT ![c] = "closing"]
    /\ UNCHANGED <<serverKept, commands, told, flying, sent, answer, reach,
                   workerVars>>

\* onclose, with the onerror before it.  The timer is not set twice.
Closed(c) ==
    /\ ready[c] = "closing" /\ ready' = [ready EXCEPT ![c] = "none"]
    /\ told' = [told EXCEPT ![c] = <<>>]
    /\ attached' = attached \ {c}
    /\ IF c \in attached
         THEN isConnected' = FALSE /\ wsPing' = FALSE /\ wsReconnectTimer' = TRUE
         ELSE UNCHANGED <<isConnected, wsPing, wsReconnectTimer>>
    /\ ws' = IF ws = c THEN None ELSE ws
    /\ UNCHANGED <<serverKept, commands, flying, sent, answer, reach, events, awake,
                   wsConnecting, castState>>

TimerFires ==
    /\ awake /\ wsReconnectTimer
    /\ connectWebSocket
    /\ UNCHANGED <<serverKept, commands, told, ready, flying, sent, answer, reach,
                   events, awake, ws, wsPing, isConnected, attached, castState>>

Disconnected_but_connected ==
    /\ ws' = None /\ wsPing' = FALSE /\ UNCHANGED isConnected
    /\ attached' = attached \ {ws}
    /\ ready' = IF Live(ws) THEN [ready EXCEPT ![ws] = "closing"] ELSE ready

\* WS_RECONNECT: disconnectWebSocket detaches the callbacks and closes, then
\* connectWebSocket begins.
Disconnected ==
    /\ ws' = None /\ wsPing' = FALSE /\ isConnected' = FALSE
    /\ attached' = attached \ {ws}
    /\ ready' = IF Live(ws) THEN [ready EXCEPT ![ws] = "closing"] ELSE ready

Reconnect ==
    /\ awake /\ Happens
    /\ Disconnected
    /\ wsReconnectTimer' = FALSE /\ wsConnecting' = TRUE
    /\ UNCHANGED <<serverKept, commands, told, flying, sent, answer, reach, awake,
                   castState>>

\* discoverboGDan, by the user or the alarm, when its request for the health of
\* the server has been answered, or has not.
Discovered ==
    /\ awake /\ "ws" \in reach
    /\ \/ connectWebSocket /\ UNCHANGED isConnected
       \/ isConnected' = FALSE /\ UNCHANGED <<wsConnecting, wsReconnectTimer>>
    /\ UNCHANGED <<serverKept, commands, told, ready, flying, sent, answer, reach,
                   awake, ws, wsPing, attached, castState>>

Discover == Happens /\ Discovered

\* The alarm: it also wakes the worker, whose script then discovers the server.
Alarm ==
    \/ /\ ~awake /\ awake' = TRUE
       /\ wsConnecting' \in {FALSE, "ws" \in reach}
       /\ UNCHANGED <<serverKept, commands, told, ready, flying, sent, answer, reach,
                      events, ws, wsReconnectTimer, wsPing, isConnected, attached,
                      castState>>
    \/ /\ awake /\ ~isConnected /\ "ws" \in reach
       /\ connectWebSocket
       /\ UNCHANGED <<serverKept, commands, told, ready, flying, sent, answer,
                      reach, events, awake, ws, wsPing, isConnected, attached,
                      castState>>

\* The browser stops the worker.
Killed ==
    /\ awake /\ awake' = FALSE /\ Happens
    /\ ready' = [c \in Conns |->
                   IF c \in Sockets /\ ready[c] \in {"connecting", "open"}
                     THEN "closing" ELSE ready[c]]
    /\ ws' = None /\ wsConnecting' = FALSE /\ wsReconnectTimer' = FALSE
    /\ wsPing' = FALSE /\ isConnected' = FALSE /\ attached' = {}
    /\ casting' = "idle" /\ attempt' = 0
    /\ UNCHANGED <<serverKept, commands, told, flying, sent, answer, reach>>

\* The popup's commands, and the ping, go over the socket when it is open.
Send(c, cmd) ==
    /\ ready[c] = "open" /\ Happens
    /\ commands' = [commands EXCEPT ![c] = Append(@, cmd)]
    /\ UNCHANGED <<serverKept, told, ready, flying, sent, answer, reach, workerVars>>

sendWsCommand ==
    /\ awake /\ ws # None
    /\ \E cmd \in {"PAUSE", "RESUME", "STOP", "ping"} :
         Send(ws, cmd) /\ (cmd = "ping" => wsPing)

(***************************************************************************)
(* handleCast and the requests of bogdanApi.                               *)
(***************************************************************************)
Request ==
    /\ sent < MaxRequests /\ sent' = sent + 1
    /\ flying' = IF "http" \in reach THEN flying \cup {sent + 1} ELSE flying
    /\ answer' = IF "http" \in reach THEN None ELSE "network error"
    /\ casting' = "waiting"
    /\ UNCHANGED <<serverKept, commands, told, ready, reach, awake, socketState>>

Cast ==
    /\ awake /\ casting = "idle" /\ Happens
    /\ sent + Retries < MaxRequests
    /\ attempt' = 0 /\ Request

\* The request or its response is lost; nothing says so.
Lost ==
    /\ casting = "waiting" /\ Happens
    /\ \/ sent \in flying /\ flying' = flying \ {sent} /\ UNCHANGED answer
       \/ answer # None /\ answer' = None /\ UNCHANGED flying
    /\ UNCHANGED <<serverKept, commands, told, ready, sent, reach, workerVars>>

\* A retry after a timeout or a network error, until there have been enough.
Again_unbounded == casting' = "delay" /\ UNCHANGED attempt
Again ==
    IF attempt < Retries
      THEN casting' = "delay" /\ attempt' = attempt + 1
      ELSE casting' = "idle" /\ attempt' = 0

castKept == <<serverKept, commands, told, ready, flying, sent, answer, reach,
              events, awake, socketState>>

\* The abort of the request after API_TIMEOUT_MS; it may reach the server yet.
Timeout ==
    /\ casting = "waiting" /\ answer = None
    /\ Again /\ UNCHANGED castKept

\* fetch returns with the head of the response, and the timeout is cleared.
Answered ==
    /\ casting = "waiting" /\ answer # None
    /\ IF answer = "network error" THEN Again
       ELSE casting' = "body" /\ UNCHANGED attempt
    /\ UNCHANGED castKept

\* The body has come, or the connection broke in it.
BodyRead ==
    /\ casting = "body" /\ casting' = "idle" /\ attempt' = 0
    /\ UNCHANGED castKept

Delayed ==
    /\ casting = "delay"
    /\ Request /\ UNCHANGED <<attempt, events>>

(***************************************************************************)
(* Other clients of the server: one that casts over its socket, and those  *)
(* that use the API.                                                       *)
(***************************************************************************)
GuestConnects(c) ==
    /\ "ws" \in reach /\ ready[c] = "none" /\ conn[c] = "none" /\ Happens
    /\ ready' = [ready EXCEPT ![c] = "connecting"]
    /\ UNCHANGED <<serverKept, commands, told, flying, sent, answer, reach,
                   workerVars>>

GuestReads(c) ==
    /\ told[c] # <<>>
    /\ told' = [told EXCEPT ![c] = Tail(@)]
    /\ ready' = [ready EXCEPT ![c] = CASE Head(told[c]) = "upgrade" -> "open"
                                       [] Head(told[c]) = "close" -> "none"
                                       [] OTHER -> @]
    /\ UNCHANGED <<serverKept, commands, flying, sent, answer, reach, events,
                   workerVars>>

GuestLeaves(c) ==
    /\ ready[c] # "none" /\ Happens
    /\ ready' = [ready EXCEPT ![c] = "none"]
    /\ told' = [told EXCEPT ![c] = <<>>]
    /\ UNCHANGED <<serverKept, commands, flying, sent, answer, reach, workerVars>>

Guest(c) ==
    GuestConnects(c) \/ GuestLeaves(c) \/ Send(c, "CAST")

\* Time only passes, and the limiter only sees others, where the extension reaches
\* nothing but the API.
Api ==
    /\ \/ ApiCommand /\ Happens
       \/ reach = {"http"} /\ \E ip \in Ips : OtherRequest(ip) /\ Happens
       \/ reach = {"http"} /\ Tick /\ UNCHANGED events
    /\ UNCHANGED <<reach, workerVars>>

(***************************************************************************)
(* Fairness: the tasks of the server run, the browser runs callbacks,      *)
(* timers and the alarm, and sends the request of a handshake on a         *)
(* connection that does not break.  Users and faults need not happen.      *)
(* Nothing is assumed of what the code sets no limit to: the loads, the    *)
(* body of a response, a client that does not read, and the handshake of a *)
(* client that is silent, or gone without a word; once the server has sent *)
(* something, TCP finds out.  A refusal may take as long, but holds nothing*)
(* up.                                                                     *)
(***************************************************************************)
Reached(c) == "ws" \in reach /\ Accept(c)
Server ==
    /\ ServerStep \/ \E c \in Conns : Reached(c)
    /\ UNCHANGED <<reach, events, workerVars>>
Position == PositionRead /\ Happens /\ UNCHANGED <<reach, workerVars>>

Next ==
    \/ Server \/ Position \/ Api
    \/ Create \/ TimerFires \/ Reconnect \/ Discover \/ Alarm \/ Killed
    \/ sendWsCommand
    \/ \E c \in Sockets : Opened(c) \/ Received(c) \/ Breaks(c) \/ Closed(c)
    \/ Cast \/ Lost \/ Timeout \/ Answered \/ BodyRead \/ Delayed
    \/ \E c \in Guests : Guest(c) \/ GuestReads(c)

Spec == Init /\ [][Next]_vars

ServerOnly == UNCHANGED <<reach, events, workerVars>>

FairSpec ==
    /\ Spec
    /\ \A c \in Conns :
         /\ WF_vars((Reached(c) \/ Refuse(c)) /\ ServerOnly)
         /\ WF_vars(conn[c] # "handshake" /\ End(c) /\ ServerOnly)
         /\ WF_vars(Command(c) /\ ServerOnly)
         /\ WF_vars(Forward(c) /\ ServerOnly)
    /\ \A c \in Sockets :
         /\ WF_vars(~Gone(c) /\ Upgrade(c) /\ ServerOnly)
         /\ WF_vars(Opened(c) \/ Received(c) \/ Closed(c))
    /\ WF_vars(Create) /\ WF_vars(TimerFires) /\ WF_vars(Alarm)
    /\ WF_vars(Timeout \/ Answered) /\ WF_vars(Delayed)

-----------------------------------------------------------------------------
\* The types; the session that has the slot is being resolved exactly while its
\* load has not returned, and a handler waits for a load exactly while that is the
\* session's, or lost the session or the slot and has yet to return; and every
\* permit is free or with the handler of one connection (handle_client, the
\* permits of start, load and clear_active_session).
RemoteTypeOK ==
    /\ session \in {"none", "resolving", "playing", "paused"}
    /\ (loader # None) = (session = "resolving")
    /\ Waiting \subseteq Loads
    /\ loader \notin orphans \cup unseated /\ orphans \cap unseated = {}
    /\ fresh \subseteq {loader} \cup unseated
    /\ \A c \in Conns : conn[c] = "loading" <=> c \in Waiting
    /\ permits + Cardinality({c \in Conns :
         conn[c] \in {"handshake", "open", "loading", "ending"}}) = MaxConnections
    /\ \A c \in Conns : Len(rx[c]) <= Capacity + 1
    /\ flying \subseteq 1..sent /\ spawned \subseteq 1..sent \cup Others
    /\ attached \subseteq Sockets /\ ws \in Sockets \cup {None}

\* The worker never has two sockets, though connectWebSocket waits in between and
\* is called by the timer, the alarm, the discovery and the user.
OneSocket ==
    Cardinality({c \in Sockets : ready[c] \in {"connecting", "open"}}) <= 1

\* A worker that believes it is connected is, or a callback that will tell it
\* otherwise is still to come.
ConnectedIsTrue ==
    isConnected =>
        \E c \in Sockets :
           ready[c] = "open" \/ (ready[c] = "closing" /\ c \in attached)

\* The rate limiter refuses a client only if Limit of its requests passed in the
\* time of one window, and never lets two windows' worth pass in that time: one
\* less is the most that a burst around the end of a window can do
\* (RateLimiter::check).
LimitIsKept ==
    \A ip \in Ips :
        LET passed == allowed[ip]
            n == Len(passed)
        IN /\ ~Passes(ip) => n >= Limit /\ clock - passed[n - Limit + 1] < Window
           /\ \A i \in 1..n : i + 2 * Limit - 1 <= n =>
                 passed[i + 2 * Limit - 1] - passed[i] >= Window

\* A permit that the worker cannot count on: another client has it, or a handshake
\* of its own that broke without a word to the server.
Held(c) ==
    \/ c \in Guests /\ conn[c] \in {"handshake", "open", "loading", "ending"}
    \/ c \in Sockets /\ conn[c] = "handshake" /\ Gone(c)

\* While the port can be reached, the worker is connected again and again, unless
\* from some time on every permit is with another client or a handshake that broke
\* unnoticed: no fault ends its attempts, and the permits of its dead connections
\* come back (connectWebSocket, init; start and the pings of handle_client).
WorkerGetsIn ==
    "ws" \in reach =>
        \/ []<>(\E c \in Sockets : ready[c] = "open" /\ conn[c] = "open")
        \/ <>[](Cardinality({c \in Conns : Held(c)}) = MaxConnections)

\* A cast returns to the popup whatever happens to its requests, after a bounded
\* number of them, unless the body of a response never ends, for which the code
\* has no timeout (bogdanApi).
CastReturns == []<>(casting = "idle") \/ <>[](casting = "body")

\* A client that is connected when the session ends, however it ended, is told,
\* unless the end was one of the two that the code does not publish (the failure of
\* a load that lost its own session, and a stop that reads the row at Idle), the
\* client lags so far behind that the channel drops the event, or its handler waits
\* for ever for a load of its own or for the client to read (stop, load and
\* clear_active_session; handle_client).
EndIsTold ==
    \A c \in Conns :
        \/ []<>(~owed[c] \/ c \in hushed)
        \/ <>[](conn[c] = "loading" \/ ~Sent(c))
=============================================================================
