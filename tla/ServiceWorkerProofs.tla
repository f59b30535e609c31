------------------------ MODULE ServiceWorkerProofs ------------------------
(***************************************************************************)
(* Proofs about the worker of the browser extension and the servers it     *)
(* talks to, with any number of sockets, other clients, permits, faults    *)
(* and retries: the worker never has two sockets, what it believes of its  *)
(* connection is true or will be corrected, the WebSocket server gets      *)
(* every permit back, and the rate limiter of the HTTP API keeps its limit *)
(* for any limit and window.                                               *)
(***************************************************************************)
EXTENDS ServiceWorker, FiniteSetTheorems, TLAPS

\* The socket that is live, if there is one, is the one that the worker holds:
\* it lets go of a socket only when it closes it, and looks at the one it holds
\* after the await before it makes another.  Its callbacks are detached only
\* when it is closed, so the end of the one that made the worker connected
\* reaches the worker, or the worker was told already.
SocketInv ==
    /\ ready \in [Conns -> {"none", "connecting", "open", "closing"}]
    /\ \A c \in Sockets : ready[c] \in {"connecting", "open"} =>
                            c = ws /\ c \in attached
    /\ isConnected =>
         \E c \in Sockets : c \in attached /\ ready[c] \in {"open", "closing"}

\* At most one socket is the one that is held.
LEMMA SocketInvSuffices == ASSUME SocketInv PROVE OneSocket
  <1> DEFINE S == {c \in Sockets : ready[c] \in {"connecting", "open"}}
  <1>1. S \subseteq {ws}
    BY DEF SocketInv
  <1>2. IsFiniteSet({ws}) /\ Cardinality({ws}) = 1
    BY FS_Singleton
  <1>3. IsFiniteSet(S) /\ Cardinality(S) <= Cardinality({ws})
    BY <1>1, <1>2, FS_Subset
  <1> HIDE DEF S
  <1>4. Cardinality(S) <= 1
    BY <1>2, <1>3
  <1> QED  BY <1>4 DEF S, OneSocket

-----------------------------------------------------------------------------
\* Of the server, of the tasks and of the API nothing reaches the client's end.
LEMMA ServerKeepsReady ==
  ASSUME Server \/ Position \/ Api
  PROVE  UNCHANGED <<ready, ws, attached, isConnected>>
  <1>1. CASE Server
    <2>1. UNCHANGED <<ws, attached, isConnected>>
      BY <1>1 DEF Server, workerVars
    <2>2. UNCHANGED ready
      <3>1. ASSUME NEW o, \/ PositionPublished \/ LoadBegins(o) \/ LoadPlays(o)
                          \/ LoadFails(o) \/ OrphanReturns(o) \/ BackgroundLoad(o)
            PROVE  UNCHANGED ready
        BY <3>1 DEF PositionPublished, LoadBegins, LoadPlays, LoadFails, OrphanReturns,
                    BackgroundLoad
      <3>2. ASSUME NEW c \in Conns,
                   Upgrade(c) \/ Refuse(c) \/ Command(c) \/ Forward(c) \/ End(c)
            PROVE  UNCHANGED ready
        BY <3>2 DEF Upgrade, Refuse, Command, Forward, End
      <3>3. ASSUME NEW n \in flying, NEW ip \in Ips, CastRequest(n, ip)
            PROVE  UNCHANGED ready
        BY <3>3 DEF CastRequest, socketVars
      <3>4. ASSUME NEW c \in Conns, Reached(c)
            PROVE  UNCHANGED ready
        BY <3>4 DEF Reached, Accept
      <3> QED  BY <1>1, <3>1, <3>2, <3>3, <3>4 DEF Server, ServerStep
    <2> QED  BY <2>1, <2>2
  <1>2. CASE Position
    BY <1>2 DEF Position, PositionRead, socketVars, workerVars
  <1>3. CASE Api
    <2>1. UNCHANGED <<ws, attached, isConnected>>
      BY <1>3 DEF Api, workerVars
    <2>2. UNCHANGED ready
      BY <1>3 DEF Api, ApiCommand, OtherRequest, Tick, socketVars
    <2> QED  BY <2>1, <2>2
  <1> QED  BY <1>1, <1>2, <1>3

\* Nor do the casts, and the worker's steps that only look at its socket.
LEMMA WorkerKeepsReady ==
  ASSUME TimerFires \/ Discover \/ Alarm \/ sendWsCommand \/ Cast \/ Lost
           \/ Timeout \/ Answered \/ BodyRead \/ Delayed
  PROVE  UNCHANGED <<ready, ws, attached>> /\ (isConnected' => isConnected)
  <1>1. CASE TimerFires \/ Discover \/ Alarm
    <2>1. UNCHANGED <<ready, ws, attached>>
      BY <1>1 DEF TimerFires, Discover, Discovered, Alarm
    <2>2. UNCHANGED isConnected \/ isConnected' = FALSE
      BY <1>1, Zenon DEF TimerFires, Discover, Discovered, Alarm
    <2> QED  BY <2>1, <2>2
  <1>2. CASE sendWsCommand
    BY <1>2 DEF sendWsCommand, Send, workerVars
  <1>3. CASE Cast \/ Delayed
    <2>1. Request
      BY <1>3 DEF Cast, Delayed
    <2>2. UNCHANGED <<ready, socketState>>
      BY <2>1 DEF Request
    <2> QED  BY <2>2 DEF socketState
  <1>4. CASE Lost \/ Timeout \/ Answered \/ BodyRead
    <2>1. UNCHANGED socketState /\ UNCHANGED ready
      BY <1>4 DEF Lost, Timeout, Answered, BodyRead, castKept, workerVars, socketState
    <2> QED  BY <2>1 DEF socketState
  <1> QED  BY <1>1, <1>2, <1>3, <1>4

-----------------------------------------------------------------------------
\* connectWebSocket after its await: it makes a socket only if that which the
\* worker holds now is not live, whatever happened since it looked before.
LEMMA CreateKeeps == ASSUME SocketInv, Create PROVE SocketInv'
  <1>1. CASE Live(ws) /\ UNCHANGED <<ready, ws, attached, isConnected>>
    BY <1>1 DEF SocketInv
  <1>2. CASE /\ ~Live(ws) /\ Free # {} /\ UNCHANGED isConnected
             /\ LET c == CHOOSE c \in Free : TRUE IN
                  /\ ready' = [ready EXCEPT ![c] = "connecting"]
                  /\ attached' = attached \cup {c}
                  /\ ws' = c
    <2> DEFINE n == CHOOSE c \in Free : TRUE
    <2>1. n \in Free
      BY <1>2
    <2>2. n \in Sockets /\ ready[n] = "none"
      BY <2>1 DEF Free
    <2>3. /\ ready' = [ready EXCEPT ![n] = "connecting"] /\ ws' = n
          /\ attached' = attached \cup {n} /\ isConnected' = isConnected
      BY <1>2
    <2> HIDE DEF n
    <2>4. \A c \in Sockets : ready[c] \notin {"connecting", "open"}
      BY <1>2, RemoteAssumption DEF SocketInv, Live, Conns
    <2>5. ready' \in [Conns -> {"none", "connecting", "open", "closing"}]
      BY <2>2, <2>3 DEF SocketInv
    <2>6. \A c \in Sockets : c # n => ready'[c] = ready[c]
      BY <2>3 DEF SocketInv, Conns
    <2>7. ready'[n] = "connecting"
      BY <2>2, <2>3 DEF SocketInv, Conns
    <2>8. \A c \in Sockets : ready'[c] \in {"connecting", "open"} =>
                            c = ws' /\ c \in attached'
      BY <2>3, <2>4, <2>6
    <2>9. isConnected' =>
            \E c \in Sockets : c \in attached' /\ ready'[c] \in {"open", "closing"}
      BY <2>2, <2>3, <2>6 DEF SocketInv
    <2> QED  BY <2>5, <2>8, <2>9 DEF SocketInv
  <1>3. (Live(ws) /\ UNCHANGED <<ready, ws, attached, isConnected>>) \/
        (/\ ~Live(ws) /\ Free # {} /\ UNCHANGED isConnected
         /\ LET c == CHOOSE c \in Free : TRUE IN
              /\ ready' = [ready EXCEPT ![c] = "connecting"]
              /\ attached' = attached \cup {c}
              /\ ws' = c)
    BY Zenon DEF Create
  <1> QED  BY <1>1, <1>2, <1>3

\* The callbacks of a socket, and the end of its connection.
LEMMA CallbacksKeep ==
  ASSUME SocketInv, NEW c \in Sockets,
         Opened(c) \/ Received(c) \/ Breaks(c) \/ Closed(c)
  PROVE  SocketInv'
  <1>1. CASE Opened(c)
    BY <1>1 DEF Opened, SocketInv, Conns
  <1>2. CASE Received(c)
    BY <1>2 DEF Received, SocketInv, Conns, workerVars
  <1>3. CASE Breaks(c)
    BY <1>3 DEF Breaks, SocketInv, Conns, workerVars
  <1>4. CASE Closed(c)
    BY <1>4 DEF Closed, SocketInv, Conns
  <1> QED  BY <1>1, <1>2, <1>3, <1>4

\* The worker lets go of its socket: it closes it first, or the browser does.
LEMMA LettingGoKeeps == ASSUME SocketInv, Reconnect \/ Killed PROVE SocketInv'
  <1>1. CASE Reconnect
    <2>1. ready' = IF Live(ws) THEN [ready EXCEPT ![ws] = "closing"] ELSE ready
      BY <1>1 DEF Reconnect, Disconnected
    <2>2. \A c \in Sockets : ready'[c] \notin {"connecting", "open"}
      BY <2>1, RemoteAssumption DEF SocketInv, Live, Conns
    <2>3. ready' \in [Conns -> {"none", "connecting", "open", "closing"}]
      BY <2>1 DEF SocketInv
    <2>4. isConnected' = FALSE
      BY <1>1 DEF Reconnect, Disconnected
    <2> QED  BY <2>2, <2>3, <2>4 DEF SocketInv
  <1>2. CASE Killed
    BY <1>2 DEF Killed, SocketInv, Conns
  <1> QED  BY <1>1, <1>2

\* Other clients have ends of their own.
LEMMA GuestsKeep ==
  ASSUME SocketInv, NEW c \in Guests, Guest(c) \/ GuestReads(c)
  PROVE  SocketInv'
  <1>1. UNCHANGED <<ws, attached, isConnected>>
    BY DEF Guest, GuestConnects, GuestLeaves, Send, GuestReads, workerVars
  <1>2. PICK s \in {"none", "connecting", "open", "closing"} :
          ready' = [ready EXCEPT ![c] = s]
    BY DEF Guest, GuestConnects, GuestLeaves, Send, GuestReads, SocketInv, Conns
  <1>3. c \notin Sockets
    BY RemoteAssumption
  <1> QED  BY <1>1, <1>2, <1>3 DEF SocketInv, Conns

-----------------------------------------------------------------------------
LEMMA SocketInvNext == ASSUME SocketInv, [Next]_vars PROVE SocketInv'
  <1>1. ASSUME UNCHANGED <<ready, ws, attached>>, isConnected' => isConnected
        PROVE  SocketInv'
    BY <1>1 DEF SocketInv
  <1>2. CASE UNCHANGED vars
    BY <1>1, <1>2 DEF vars, socketVars, workerVars
  <1>3. CASE Server \/ Position \/ Api
    BY <1>1, <1>3, ServerKeepsReady
  <1>4. CASE TimerFires \/ Discover \/ Alarm \/ sendWsCommand \/ Cast \/ Lost
               \/ Timeout \/ Answered \/ BodyRead \/ Delayed
    BY <1>1, <1>4, WorkerKeepsReady
  <1>5. CASE Create \/ Reconnect \/ Killed
    BY <1>5, CreateKeeps, LettingGoKeeps
  <1>6. CASE \E c \in Sockets : Opened(c) \/ Received(c) \/ Breaks(c) \/ Closed(c)
    BY <1>6, CallbacksKeep
  <1>7. CASE \E c \in Guests : Guest(c) \/ GuestReads(c)
    BY <1>7, GuestsKeep
  <1> QED  BY <1>2, <1>3, <1>4, <1>5, <1>6, <1>7 DEF Next

\* The worker never has two sockets, whoever calls connectWebSocket while it
\* waits, and whatever the network and the browser do (service-worker.js).
THEOREM NeverTwoSockets == Spec => []OneSocket
  <1>1. Init => SocketInv
    BY DEF Init, ServerInit, SocketInv, Conns
  <1> QED  BY <1>1, SocketInvNext, SocketInvSuffices, PTL DEF Spec

\* A worker that believes it is connected is, or the callback of its socket
\* that will tell it otherwise is still to come (onopen, onclose and
\* disconnectWebSocket of service-worker.js).
THEOREM BelievesTheTruth == Spec => []ConnectedIsTrue
  <1>1. Init => SocketInv
    BY DEF Init, ServerInit, SocketInv, Conns
  <1>2. SocketInv => ConnectedIsTrue
    BY DEF SocketInv, ConnectedIsTrue
  <1> QED  BY <1>1, <1>2, SocketInvNext, PTL DEF Spec

-----------------------------------------------------------------------------
\* A cast that is on its way was sent; the sockets with callbacks and the one
\* that is held are the extension's.
WorkerInv ==
    /\ sent \in 0..MaxRequests /\ flying \subseteq 1..sent
    /\ attached \subseteq Sockets /\ ws \in Sockets \cup {None}

LEMMA WorkerNext == ASSUME WorkerInv, [Next]_vars PROVE WorkerInv'
  <1>1. ASSUME UNCHANGED <<attached, ws, sent>>, flying' \subseteq flying PROVE WorkerInv'
    BY <1>1 DEF WorkerInv
  <1>2. ASSUME UNCHANGED <<sent, flying>>, attached' \subseteq Sockets,
               ws' \in Sockets \cup {None}
        PROVE  WorkerInv'
    BY <1>2 DEF WorkerInv
  <1>3. CASE Server
    <2>1. UNCHANGED <<attached, ws>>
      BY <1>3 DEF Server, workerVars
    <2>2. ASSUME NEW o, \/ PositionPublished \/ LoadBegins(o) \/ LoadPlays(o)
                        \/ LoadFails(o) \/ OrphanReturns(o) \/ BackgroundLoad(o)
          PROVE  UNCHANGED httpVars
      BY <2>2 DEF PositionPublished, LoadBegins, LoadPlays, LoadFails, OrphanReturns,
                  BackgroundLoad
    <2>3. ASSUME NEW c \in Conns, \/ Upgrade(c) \/ Refuse(c) \/ Command(c)
                                  \/ Forward(c) \/ End(c) \/ Reached(c)
          PROVE  UNCHANGED httpVars
      BY <2>3 DEF Upgrade, Refuse, Command, Forward, End, Reached, Accept
    <2>4. ASSUME NEW n \in flying, NEW ip \in Ips, CastRequest(n, ip)
          PROVE  UNCHANGED sent /\ flying' \subseteq flying
      BY <2>4 DEF CastRequest
    <2>5. UNCHANGED sent /\ flying' \subseteq flying
      BY <1>3, <2>2, <2>3, <2>4 DEF Server, ServerStep, httpVars
    <2> QED  BY <1>1, <2>1, <2>5
  <1>4. CASE Position \/ Api
    BY <1>1, <1>4 DEF Position, PositionRead, Api, ApiCommand, OtherRequest, Tick,
                      workerVars, httpVars
  <1>5. CASE TimerFires \/ Discover \/ Alarm
    BY <1>1, <1>5 DEF TimerFires, Discover, Discovered, Alarm
  <1>6. CASE Create
    <2>1. UNCHANGED <<sent, flying>>
      BY <1>6 DEF Create
    <2>2. CASE UNCHANGED <<attached, ws>>
      BY <1>1, <2>1, <2>2
    <2>3. CASE Free # {} /\ LET c == CHOOSE c \in Free : TRUE IN
                 attached' = attached \cup {c} /\ ws' = c
      <3> DEFINE n == CHOOSE c \in Free : TRUE
      <3>1. n \in Free /\ attached' = attached \cup {n} /\ ws' = n
        BY <2>3
      <3> QED  BY <1>2, <2>1, <3>1 DEF Free, WorkerInv
    <2> QED  BY <1>6, <2>2, <2>3 DEF Create
  <1>7. CASE Reconnect \/ Killed
    BY <1>2, <1>7 DEF Reconnect, Disconnected, Killed, WorkerInv
  <1>8. CASE \E c \in Sockets : Opened(c) \/ Received(c) \/ Breaks(c) \/ Closed(c)
    <2>1. UNCHANGED <<sent, flying>> /\ attached' \subseteq attached /\ ws' \in {ws, None}
      BY <1>8 DEF Opened, Received, Breaks, Closed, workerVars
    <2> QED  BY <1>2, <2>1 DEF WorkerInv
  <1>9. CASE Cast \/ Delayed
    <2>1. /\ UNCHANGED <<attached, ws>>
          /\ \/ UNCHANGED <<sent, flying>>
             \/ /\ sent < MaxRequests /\ sent' = sent + 1
                /\ flying' \subseteq flying \cup {sent + 1}
      BY <1>9 DEF Cast, Delayed, Request, socketState
    <2>2. CASE UNCHANGED <<sent, flying>>
      BY <1>1, <2>1, <2>2
    <2>3. CASE /\ sent < MaxRequests /\ sent' = sent + 1
               /\ flying' \subseteq flying \cup {sent + 1}
      <3>1. sent \in 0..MaxRequests /\ MaxRequests \in Nat /\ flying \subseteq 1..sent
        BY RemoteAssumption DEF WorkerInv
      <3>2. sent' \in 0..MaxRequests /\ 1..sent \cup {sent + 1} \subseteq 1..sent'
        BY <2>3, <3>1
      <3>3. flying' \subseteq 1..sent'
        BY <2>3, <3>1, <3>2
      <3> QED  BY <2>1, <3>2, <3>3 DEF WorkerInv
    <2> QED  BY <2>1, <2>2, <2>3
  <1>10. CASE Lost \/ Timeout \/ Answered \/ BodyRead
    BY <1>1, <1>10 DEF Lost, Timeout, Answered, BodyRead, castKept, socketState, workerVars
  <1>11. CASE sendWsCommand \/ (\E c \in Guests : Guest(c) \/ GuestReads(c))
    BY <1>1, <1>11 DEF sendWsCommand, Send, Guest, GuestConnects, GuestLeaves, GuestReads,
                       workerVars
  <1>12. CASE UNCHANGED vars
    BY <1>1, <1>12 DEF vars, httpVars, workerVars
  <1> QED  BY <1>3, <1>4, <1>5, <1>6, <1>7, <1>8, <1>9, <1>10, <1>11, <1>12 DEF Next

-----------------------------------------------------------------------------
(***************************************************************************)
(* The handlers of the server and their permits.                           *)
(***************************************************************************)
\* The loads: that of the session which has the slot, those that lost their session
\* to a stop and those that lost the slot.  No load is two of them, nor on its way
\* as well, so that each returns once.
LoadInv ==
    /\ session \in {"none", "resolving", "playing", "paused"}
    /\ loader # None <=> session = "resolving"
    /\ Waiting \subseteq Conns \cup 1..sent \cup Others
    /\ None \notin orphans \cup unseated
    /\ loader \notin orphans \cup unseated /\ orphans \cap unseated = {}
    /\ fresh \subseteq ({loader} \cup unseated) \ {None}
    /\ spawned \subseteq 1..sent \cup Others /\ spawned \cap Waiting = {}
    /\ flying \cap (spawned \cup Waiting) = {}

\* A handler is suspended in a load exactly while that load has not returned.
HandlerInv ==
    /\ conn \in [Conns -> {"none", "handshake", "refusing", "open", "loading", "ending"}]
    /\ \A c \in Conns : conn[c] = "loading" <=> c \in Waiting

Handling == {"handshake", "open", "loading", "ending"}
Handled == {c \in Conns : conn[c] \in Handling}

PermitInv ==
    /\ permits \in Nat /\ IsFiniteSet(Handled)
    /\ permits + Cardinality(Handled) = MaxConnections

\* A permit is taken, given back, or neither.
LEMMA PermitKept ==
  ASSUME PermitInv, UNCHANGED <<permits, Handled>> PROVE PermitInv'
  BY DEF PermitInv

LEMMA PermitTaken ==
  ASSUME PermitInv, NEW c \in Conns \ Handled, permits > 0, permits' = permits - 1,
         Handled' = Handled \cup {c}
  PROVE  PermitInv'
  <1>1. IsFiniteSet(Handled') /\ Cardinality(Handled') = Cardinality(Handled) + 1
    BY FS_AddElement DEF PermitInv
  <1>2. Cardinality(Handled) \in Nat /\ MaxConnections \in Nat
    BY FS_CardinalityType, RemoteAssumption DEF PermitInv
  <1> QED  BY <1>1, <1>2 DEF PermitInv

LEMMA PermitDropped ==
  ASSUME PermitInv, NEW c \in Handled, permits' = permits + 1,
         Handled' = Handled \ {c}
  PROVE  PermitInv'
  <1>1. IsFiniteSet(Handled') /\ Cardinality(Handled') = Cardinality(Handled) - 1
    BY FS_RemoveElement DEF PermitInv
  <1>2. Cardinality(Handled) \in Nat /\ MaxConnections \in Nat
    BY FS_CardinalityType, RemoteAssumption DEF PermitInv
  <1> QED  BY <1>1, <1>2 DEF PermitInv

\* A handler that goes on keeps its permit.
LEMMA HandlerMoves ==
  ASSUME HandlerInv, NEW c \in Conns, NEW st, conn' = [conn EXCEPT ![c] = st],
         conn[c] \in Handling <=> st \in Handling
  PROVE  Handled' = Handled
  BY DEF Handled, HandlerInv, Handling

LEMMA Replied ==
  ASSUME NEW c, NEW m, Reply(c, m)
  PROVE  \E st \in {"open", "ending"} : conn' = [conn EXCEPT ![c] = st]
  BY DEF Reply

-----------------------------------------------------------------------------
\* The numbers of the requests are no connections, and others' are others.
LEMMA NumbersApart ==
  ASSUME WorkerInv
  PROVE  /\ Conns \cap (1..sent \cup Others) = {} /\ 1..sent \cap Others = {}
         /\ None \notin Conns \cup 1..sent \cup Others
  <1>1. /\ \A c \in Conns \cup {None} : c \notin Nat
        /\ Others \subseteq Nat /\ \A n \in Others : n > MaxRequests
        /\ MaxRequests \in Nat /\ None \notin Conns
    BY RemoteAssumption
  <1>2. 1..sent \subseteq Nat /\ \A n \in 1..sent : n <= MaxRequests
    BY <1>1 DEF WorkerInv
  <1>3. 1..sent \cap Others = {}
    BY <1>1, <1>2
  <1> QED  BY <1>1, <1>2, <1>3

\* A stop makes an orphan of the load, if the session has one.
LEMMA Stopped ==
  ASSUME LoadInv, stop, UNCHANGED <<sent, flying>>
  PROVE  LoadInv' /\ Waiting' = Waiting
  <1>1. /\ session' = "none" /\ loader' = None /\ fresh' = fresh \ {loader}
        /\ orphans' = orphans \cup ({loader} \ {None})
        /\ UNCHANGED <<unseated, spawned>>
    BY DEF stop
  <1>2. Waiting' = Waiting
    BY <1>1 DEF Waiting
  <1> QED  BY <1>1, <1>2 DEF LoadInv

\* A load takes the slot.
LEMMA Loaded ==
  ASSUME LoadInv, WorkerInv, NEW o \in Conns \cup 1..sent \cup Others,
         o \notin Waiting, o \notin flying, Load(o),
         UNCHANGED <<sent, flying>>, spawned' = spawned \ {o}
  PROVE  LoadInv' /\ Waiting' = Waiting \cup {o}
  <1>1. /\ session' = "resolving" /\ loader' = o /\ fresh' = fresh \cup {o}
        /\ UNCHANGED <<orphans, unseated>> /\ loader = None
    BY DEF Load, LoadInv
  <1>2. o # None
    BY NumbersApart
  <1>3. Waiting' = Waiting \cup {o}
    BY <1>1, <1>2 DEF Waiting
  <1>4. o \notin orphans \cup unseated
    BY <1>2 DEF Waiting, LoadInv
  <1>5. fresh' \subseteq ({loader'} \cup unseated') \ {None}
    BY <1>1, <1>2 DEF LoadInv
  <1> QED  BY <1>1, <1>2, <1>3, <1>4, <1>5 DEF LoadInv

\* A load leaves the slot to its session, or frees whoever's slot it is, which
\* makes an unseated load of the one that was under way in it.
LEMMA Returned ==
  ASSUME LoadInv, NEW o, LoadPlays(o) \/ LoadFails(o) \/ OrphanReturns(o)
  PROVE  LoadInv' /\ o \in Waiting /\ Waiting' = Waiting \ {o}
  <1>1. UNCHANGED <<sent, flying, spawned, fresh>>
    BY DEF LoadPlays, LoadFails, OrphanReturns, httpVars
  <1>2. ASSUME o \in Waiting, o \notin fresh, Waiting' = Waiting \ {o},
               session' \in {"none", "resolving", "playing", "paused"},
               loader' # None <=> session' = "resolving",
               None \notin orphans' \cup unseated',
               loader' \notin orphans' \cup unseated', orphans' \cap unseated' = {},
               fresh \subseteq ({loader'} \cup unseated') \ {None}
        PROVE  LoadInv' /\ o \in Waiting /\ Waiting' = Waiting \ {o}
    BY <1>1, <1>2 DEF LoadInv
  <1>3. CASE o \in Under /\ Freed(o) /\ orphans' = orphans
    <2>1. /\ session' = "none" /\ loader' = None
          /\ unseated' = (unseated \cup {loader}) \ {o, None}
          /\ o \in {loader} \cup unseated /\ o # None /\ o \notin fresh
      BY <1>3 DEF Under, Freed
    <2>2. o \in Waiting /\ Waiting' = Waiting \ {o}
      BY <1>3, <2>1 DEF Waiting, LoadInv
    <2>3. fresh \subseteq ({loader'} \cup unseated') \ {None}
      BY <2>1 DEF LoadInv
    <2> QED  BY <1>2, <1>3, <2>1, <2>2, <2>3 DEF LoadInv
  <1>4. CASE LoadPlays(o)
    <2>1. /\ o \in {loader} \cup unseated /\ o # None /\ o \notin fresh
          /\ orphans' = orphans /\ unseated' = unseated \ {o}
      BY <1>4 DEF LoadPlays, Under
    <2>2. CASE o = loader
      <3>1. session' = "playing" /\ loader' = None
        BY <1>4, <2>2 DEF LoadPlays
      <3>2. o \in Waiting /\ Waiting' = Waiting \ {o}
        BY <2>1, <2>2, <3>1 DEF Waiting, LoadInv
      <3>3. fresh \subseteq ({loader'} \cup unseated') \ {None}
        BY <2>1, <2>2 DEF LoadInv
      <3> QED  BY <1>2, <2>1, <3>1, <3>2, <3>3 DEF LoadInv
    <2>3. CASE o # loader
      <3>1. UNCHANGED <<session, loader>>
        BY <1>4, <2>3 DEF LoadPlays
      <3>2. o \in Waiting /\ Waiting' = Waiting \ {o}
        BY <2>1, <2>3, <3>1 DEF Waiting, LoadInv
      <3>3. fresh \subseteq ({loader'} \cup unseated') \ {None}
        BY <2>1, <3>1 DEF LoadInv
      <3> QED  BY <1>2, <2>1, <3>1, <3>2, <3>3 DEF LoadInv
    <2> QED  BY <2>2, <2>3
  <1>5. CASE OrphanReturns(o)
    <2>1. /\ o \in orphans /\ orphans' = orphans \ {o} /\ o \notin fresh
          /\ o # None /\ o # loader /\ o \notin unseated
      BY <1>5 DEF OrphanReturns, LoadInv
    <2>2. CASE Freed(o)
      <3>1. /\ session' = "none" /\ loader' = None
            /\ unseated' = (unseated \cup {loader}) \ {o, None}
        BY <2>2 DEF Freed
      <3>2. o \in Waiting /\ Waiting' = Waiting \ {o}
        BY <2>1, <3>1 DEF Waiting, LoadInv
      <3>3. fresh \subseteq ({loader'} \cup unseated') \ {None}
        BY <2>1, <3>1 DEF LoadInv
      <3> QED  BY <1>2, <2>1, <3>1, <3>2, <3>3 DEF LoadInv
    <2>3. CASE UNCHANGED <<session, loader, unseated>>
      <3>1. o \in Waiting /\ Waiting' = Waiting \ {o}
        BY <2>1, <2>3 DEF Waiting, LoadInv
      <3> QED  BY <1>2, <2>1, <2>3, <3>1 DEF LoadInv
    <2> QED  BY <1>5, <2>2, <2>3 DEF OrphanReturns
  <1> QED  BY <1>3, <1>4, <1>5 DEF LoadFails

\* Nothing else changes which loads there are.
LEMMA LoadsKept ==
  ASSUME LoadInv, UNCHANGED <<loader, orphans, unseated, spawned, sent, flying>>,
         fresh' \subseteq fresh,
         \/ session' = session
         \/ session \in {"playing", "paused"} /\ session' \in {"playing", "paused"}
  PROVE  LoadInv' /\ Waiting' = Waiting
  <1>1. Waiting' = Waiting
    BY DEF Waiting
  <1>2. fresh' \subseteq ({loader'} \cup unseated') \ {None}
    BY DEF LoadInv
  <1>3. /\ session' \in {"none", "resolving", "playing", "paused"}
        /\ loader' # None <=> session' = "resolving"
    BY DEF LoadInv
  <1> QED  BY <1>1, <1>2, <1>3 DEF LoadInv

-----------------------------------------------------------------------------
\* A handler that goes on, in no load before or after.
LEMMA HandlerGoesOn ==
  ASSUME HandlerInv, PermitInv, Waiting' = Waiting, permits' = permits,
         NEW c \in Conns, NEW st \in {"handshake", "refusing", "none", "open", "ending"},
         conn[c] # "loading", conn' = [conn EXCEPT ![c] = st],
         conn[c] \in Handling <=> st \in Handling
  PROVE  HandlerInv' /\ PermitInv'
  <1>1. Handled' = Handled
    BY HandlerMoves
  <1> QED  BY <1>1, PermitKept DEF HandlerInv

\* The handler of a load that has returned.
LEMMA HandlerReturns ==
  ASSUME HandlerInv, PermitInv, NEW o \in Waiting, NEW m, LoadReturns(o, m),
         Waiting' = Waiting \ {o}, permits' = permits
  PROVE  HandlerInv' /\ PermitInv'
  <1>1. CASE o \notin Conns
    <2>1. conn' = conn
      BY <1>1 DEF LoadReturns
    <2> QED  BY <1>1, <2>1, PermitKept DEF HandlerInv, Handled
  <1>2. CASE o \in Conns
    <2>1. PICK st \in {"open", "ending"} : conn' = [conn EXCEPT ![o] = st]
      BY <1>2, Replied DEF LoadReturns
    <2>2. conn[o] = "loading"
      BY <1>2 DEF HandlerInv
    <2>3. Handled' = Handled
      BY <1>2, <2>1, <2>2, HandlerMoves DEF Handling
    <2> QED  BY <1>2, <2>1, <2>3, PermitKept DEF HandlerInv
  <1> QED  BY <1>1, <1>2

\* Where no handler moves and no load begins or returns.
LEMMA HandlersRest ==
  ASSUME HandlerInv, PermitInv, UNCHANGED <<conn, permits>>, Waiting' = Waiting
  PROVE  HandlerInv' /\ PermitInv'
  BY PermitKept DEF HandlerInv, Handled

ServerInv == LoadInv /\ HandlerInv /\ PermitInv

\* What the server does to its handlers and its loads: one case per action.
LEMMA ServerHandles ==
  ASSUME WorkerInv, ServerInv, Server PROVE ServerInv'
  <1> USE DEF ServerInv
  <1>1. ASSUME NEW o, LoadPlays(o) \/ LoadFails(o) \/ OrphanReturns(o)
        PROVE  ServerInv'
    <2>1. LoadInv' /\ o \in Waiting /\ Waiting' = Waiting \ {o}
      BY <1>1, Returned
    <2>2. permits' = permits /\ \E m : LoadReturns(o, m)
      BY <1>1 DEF LoadPlays, LoadFails, OrphanReturns
    <2> QED  BY <2>1, <2>2, HandlerReturns
  <1>2. ASSUME NEW o, LoadBegins(o) PROVE ServerInv'
    <2>1. /\ fresh' = fresh \ {o}
          /\ UNCHANGED <<session, loader, orphans, unseated, spawned, conn, permits,
                         sent, flying>>
      BY <1>2 DEF LoadBegins, httpVars
    <2> QED  BY <2>1, LoadsKept, HandlersRest
  <1>3. CASE PositionPublished
    <2>1. UNCHANGED <<session, loader, fresh, orphans, unseated, spawned, conn, permits,
                      sent, flying>>
      BY <1>3 DEF PositionPublished, loadVars, httpVars
    <2> QED  BY <2>1, LoadsKept, HandlersRest
  <1>4. ASSUME NEW n, BackgroundLoad(n) PROVE ServerInv'
    <2>1. n \in spawned /\ spawned' = spawned \ {n} /\ UNCHANGED <<conn, permits, sent, flying>>
      BY <1>4 DEF BackgroundLoad, httpVars
    <2>2. n \in 1..sent \cup Others /\ n \notin Waiting /\ n \notin flying /\ n \notin Conns
      BY <2>1, NumbersApart DEF LoadInv
    <2>3. CASE Load(n)
      <3>1. LoadInv' /\ Waiting' = Waiting \cup {n}
        BY <2>1, <2>2, <2>3, Loaded
      <3>2. HandlerInv'
        BY <2>1, <2>2, <3>1 DEF HandlerInv
      <3> QED  BY <2>1, <3>1, <3>2, PermitKept DEF Handled
    <2>4. CASE UNCHANGED <<session, loader, fresh, orphans, unseated>>
      <3>1. Waiting' = Waiting
        BY <2>4 DEF Waiting
      <3>2. LoadInv'
        BY <2>1, <2>4, <3>1 DEF LoadInv
      <3> QED  BY <2>1, <3>1, <3>2, HandlersRest
    <2> QED  BY <1>4, <2>3, <2>4 DEF BackgroundLoad
  <1>5. ASSUME NEW n \in flying, NEW ip \in Ips, CastRequest(n, ip) PROVE ServerInv'
    <2>1. /\ flying' = flying \ {n} /\ spawned' \in {spawned, spawned \cup {n}}
          /\ UNCHANGED <<session, loader, fresh, orphans, unseated, sent, conn, permits>>
      BY <1>5 DEF CastRequest, socketVars
    <2>2. Waiting' = Waiting
      BY <2>1 DEF Waiting
    <2>3. n \in 1..sent /\ n \notin spawned \cup Waiting
      BY DEF WorkerInv, LoadInv
    <2>4. LoadInv'
      BY <2>1, <2>2, <2>3 DEF LoadInv
    <2> QED  BY <2>1, <2>2, <2>4, HandlersRest
  <1>6. ASSUME NEW c \in Conns, Upgrade(c) \/ Forward(c) \/ Refuse(c) PROVE ServerInv'
    <2>1. /\ UNCHANGED <<session, loader, fresh, orphans, unseated, spawned, sent, flying>>
          /\ permits' = permits
      BY <1>6 DEF Upgrade, Forward, Refuse, sessionVars, loadVars, httpVars
    <2>2. LoadInv' /\ Waiting' = Waiting
      BY <2>1, LoadsKept
    <2>3. CASE conn' = conn
      BY <2>1, <2>2, <2>3, HandlersRest
    <2>4. ASSUME NEW m, Reply(c, m), conn[c] \in {"handshake", "open"} PROVE ServerInv'
      <3>1. PICK st \in {"open", "ending"} : conn' = [conn EXCEPT ![c] = st]
        BY <2>4, Replied
      <3> QED  BY <2>1, <2>2, <2>4, <3>1, HandlerGoesOn DEF Handling
    <2>5. CASE Refuse(c)
      <3>1. conn[c] = "refusing" /\ conn' = [conn EXCEPT ![c] = "none"]
        BY <2>5 DEF Refuse
      <3> QED  BY <2>1, <2>2, <3>1, HandlerGoesOn DEF Handling
    <2>6. \/ conn' = conn \/ Refuse(c)
          \/ conn[c] \in {"handshake", "open"} /\ \E m : Reply(c, m)
      BY <1>6 DEF Upgrade, Forward
    <2> QED  BY <2>3, <2>4, <2>5, <2>6
  <1>7. ASSUME NEW c \in Conns, Command(c) PROVE ServerInv'
    <2>1. conn[c] = "open" /\ UNCHANGED <<permits, sent, flying>>
      BY <1>7 DEF Command, httpVars
    <2>2. CASE (pause \/ resume) /\ conn' = conn
      <3>1. /\ session \in {"playing", "paused"} /\ session' \in {"playing", "paused"}
            /\ UNCHANGED <<loader, fresh, orphans, unseated, spawned>>
        BY <2>2 DEF pause, resume, loadVars
      <3> QED  BY <2>1, <2>2, <3>1, LoadsKept, HandlersRest
    <2>3. CASE stop /\ conn' = conn
      BY <2>1, <2>3, Stopped, HandlersRest
    <2>4. CASE Load(c) /\ conn' = [conn EXCEPT ![c] = "loading"] /\ spawned' = spawned
      <3>1. c \notin Waiting /\ c \notin flying /\ c \notin spawned
        BY <2>1, NumbersApart DEF HandlerInv, LoadInv, WorkerInv
      <3>2. LoadInv' /\ Waiting' = Waiting \cup {c}
        BY <2>1, <2>4, <3>1, Loaded
      <3>3. Handled' = Handled
        BY <2>1, <2>4, HandlerMoves DEF Handling
      <3>4. HandlerInv'
        BY <2>4, <3>2 DEF HandlerInv
      <3> QED  BY <2>1, <3>2, <3>3, <3>4, PermitKept
    <2>5. CASE Reply(c, "error") /\ UNCHANGED sessionVars
      <3>1. PICK st \in {"open", "ending"} : conn' = [conn EXCEPT ![c] = st]
        BY <2>5, Replied
      <3>2. UNCHANGED <<session, loader, fresh, orphans, unseated, spawned>>
        BY <2>5 DEF sessionVars, loadVars
      <3> QED  BY <2>1, <3>1, <3>2, LoadsKept, HandlerGoesOn DEF Handling
    <2> QED  BY <1>7, <2>2, <2>3, <2>4, <2>5 DEF Command
  <1>8. ASSUME NEW c \in Conns, End(c) \/ Reached(c) PROVE ServerInv'
    <2>1. UNCHANGED <<session, loader, fresh, orphans, unseated, spawned, sent, flying>>
      BY <1>8 DEF End, Reached, Accept, sessionVars, loadVars, httpVars
    <2>2. LoadInv' /\ Waiting' = Waiting
      BY <2>1, LoadsKept
    <2>3. CASE /\ conn[c] \in {"handshake", "open", "ending"} /\ permits' = permits + 1
               /\ conn' = [conn EXCEPT ![c] = "none"]
      <3>1. c \in Handled /\ Handled' = Handled \ {c}
        BY <2>3 DEF Handled, Handling, HandlerInv
      <3>2. HandlerInv'
        BY <2>2, <2>3 DEF HandlerInv
      <3> QED  BY <2>2, <2>3, <3>1, <3>2, PermitDropped
    <2>4. CASE /\ conn[c] = "none" /\ permits > 0 /\ permits' = permits - 1
               /\ conn' = [conn EXCEPT ![c] = "handshake"]
      <3>1. c \in Conns \ Handled /\ Handled' = Handled \cup {c}
        BY <2>4 DEF Handled, Handling, HandlerInv
      <3>2. HandlerInv'
        BY <2>2, <2>4 DEF HandlerInv
      <3> QED  BY <2>2, <2>4, <3>1, <3>2, PermitTaken
    <2>5. CASE /\ conn[c] = "none" /\ permits' = permits
               /\ conn' = [conn EXCEPT ![c] = "refusing"]
      BY <2>2, <2>5, HandlerGoesOn DEF Handling
    <2> QED  BY <1>8, <2>3, <2>4, <2>5 DEF End, Finish, Reached, Accept
  <1> QED
    BY <1>1, <1>2, <1>3, <1>4, <1>5, <1>6, <1>7, <1>8 DEF Server, ServerStep

\* The API and the position task move the session.
LEMMA OthersHandle ==
  ASSUME WorkerInv, ServerInv, Position \/ Api PROVE ServerInv'
  <1> USE DEF ServerInv
  <1>1. UNCHANGED <<conn, permits, sent, flying>>
    BY DEF Position, PositionRead, Api, ApiCommand, OtherRequest, Tick, socketVars,
           httpVars
  <1>2. ASSUME LoadInv', Waiting' = Waiting PROVE ServerInv'
    BY <1>1, <1>2, HandlersRest
  <1>3. CASE UNCHANGED <<session, loader, fresh, orphans, unseated, spawned>>
    BY <1>1, <1>2, <1>3, LoadsKept
  <1>4. CASE pause \/ resume
    <2>1. /\ session \in {"playing", "paused"} /\ session' \in {"playing", "paused"}
          /\ UNCHANGED <<loader, fresh, orphans, unseated, spawned>>
      BY <1>4 DEF pause, resume, loadVars
    <2> QED  BY <1>1, <1>2, <2>1, LoadsKept
  <1>5. CASE stop
    BY <1>1, <1>2, <1>5, Stopped
  <1>6. CASE AnotherCast
    <2>1. PICK n \in Others \ (Waiting \cup spawned) : spawned' = spawned \cup {n}
      BY <1>6 DEF AnotherCast
    <2>2. UNCHANGED <<session, loader, fresh, orphans, unseated>>
      BY <1>6 DEF AnotherCast
    <2>3. n \notin flying
      BY NumbersApart DEF WorkerInv
    <2>4. Waiting' = Waiting
      BY <2>2 DEF Waiting
    <2>5. LoadInv'
      BY <1>1, <2>1, <2>2, <2>3, <2>4 DEF LoadInv
    <2> QED  BY <1>2, <2>4, <2>5
  <1>7. \/ UNCHANGED <<session, loader, fresh, orphans, unseated, spawned>>
        \/ pause \/ resume \/ stop \/ AnotherCast
    BY DEF Position, PositionRead, Api, ApiCommand, OtherRequest, Tick, sessionVars,
           loadVars
  <1> QED  BY <1>3, <1>4, <1>5, <1>6, <1>7

LEMMA ClientsLeaveServer ==
  ASSUME \/ Create \/ TimerFires \/ Reconnect \/ Discover \/ Alarm \/ Killed
         \/ sendWsCommand
         \/ \E c \in Sockets : Opened(c) \/ Received(c) \/ Breaks(c) \/ Closed(c)
         \/ Cast \/ Lost \/ Timeout \/ Answered \/ BodyRead \/ Delayed
         \/ \E c \in Guests : Guest(c) \/ GuestReads(c)
         \/ UNCHANGED vars
  PROVE  UNCHANGED serverKept
  <1>1. CASE Create \/ TimerFires \/ Reconnect \/ Discover \/ Alarm \/ Killed
    BY <1>1 DEF Create, TimerFires, Reconnect, Discover, Discovered, Alarm, Killed
  <1>2. CASE sendWsCommand
    BY <1>2 DEF sendWsCommand, Send
  <1>3. CASE \E c \in Sockets : Opened(c) \/ Received(c) \/ Breaks(c) \/ Closed(c)
    BY <1>3 DEF Opened, Received, Breaks, Closed
  <1>4. CASE Cast \/ Lost \/ Timeout \/ Answered \/ BodyRead \/ Delayed
    BY <1>4 DEF Cast, Lost, Timeout, Answered, BodyRead, Delayed, Request, castKept
  <1>5. CASE \E c \in Guests : Guest(c) \/ GuestReads(c)
    BY <1>5 DEF Guest, GuestConnects, GuestLeaves, GuestReads, Send
  <1>6. CASE UNCHANGED vars
    BY <1>6 DEF vars, serverKept, socketVars, httpVars
  <1> QED  BY <1>1, <1>2, <1>3, <1>4, <1>5, <1>6

\* The casts of the worker: what is sent has a number of its own.
LEMMA CastsHandle ==
  ASSUME WorkerInv, ServerInv, UNCHANGED serverKept,
         \/ UNCHANGED sent /\ flying' \subseteq flying
         \/ /\ sent < MaxRequests /\ sent' = sent + 1
            /\ flying' \subseteq flying \cup {sent + 1}
  PROVE  ServerInv'
  <1> USE DEF ServerInv
  <1>1. UNCHANGED <<session, loader, fresh, orphans, unseated, spawned, conn, permits>>
    BY DEF serverKept, sessionVars, loadVars
  <1>2. Waiting' = Waiting
    BY <1>1 DEF Waiting
  <1>3. HandlerInv' /\ PermitInv'
    BY <1>1, <1>2, HandlersRest
  <1>4. CASE UNCHANGED sent /\ flying' \subseteq flying
    BY <1>1, <1>2, <1>3, <1>4 DEF LoadInv
  <1>5. CASE /\ sent < MaxRequests /\ sent' = sent + 1
             /\ flying' \subseteq flying \cup {sent + 1}
    <2>1. sent \in Nat /\ MaxRequests \in Nat /\ sent + 1 \in Nat
      BY RemoteAssumption DEF WorkerInv
    <2>2. sent + 1 \notin Conns /\ sent + 1 \notin 1..sent /\ sent + 1 \notin Others
      BY <1>5, <2>1, RemoteAssumption
    <2>3. sent + 1 \notin spawned \cup Waiting
      BY <2>2 DEF LoadInv
    <2>4. 1..sent \subseteq 1..sent'
      BY <1>5, <2>1
    <2>5. flying' \cap (spawned' \cup Waiting') = {}
      BY <1>1, <1>2, <1>5, <2>3 DEF LoadInv
    <2>6. /\ Waiting' \subseteq Conns \cup 1..sent' \cup Others
          /\ spawned' \subseteq 1..sent' \cup Others
      BY <1>1, <1>2, <2>4 DEF LoadInv
    <2> QED  BY <1>1, <1>2, <1>3, <2>5, <2>6 DEF LoadInv
  <1> QED  BY <1>4, <1>5

LEMMA HandlersNext ==
  ASSUME WorkerInv, ServerInv, [Next]_vars PROVE ServerInv'
  <1>1. ASSUME \/ Create \/ TimerFires \/ Reconnect \/ Discover \/ Alarm \/ Killed
               \/ sendWsCommand
               \/ \E c \in Sockets : Opened(c) \/ Received(c) \/ Breaks(c) \/ Closed(c)
               \/ Cast \/ Lost \/ Timeout \/ Answered \/ BodyRead \/ Delayed
               \/ \E c \in Guests : Guest(c) \/ GuestReads(c)
               \/ UNCHANGED vars
        PROVE  ServerInv'
    <2>1. UNCHANGED serverKept
      BY <1>1, ClientsLeaveServer
    <2>2. \/ UNCHANGED sent /\ flying' \subseteq flying
          \/ /\ sent < MaxRequests /\ sent' = sent + 1
             /\ flying' \subseteq flying \cup {sent + 1}
      <3>1. CASE Cast \/ Delayed
        BY <3>1 DEF Cast, Delayed, Request
      <3>2. CASE Lost
        BY <3>2 DEF Lost
      <3>3. CASE \/ Create \/ TimerFires \/ Reconnect \/ Discover \/ Alarm \/ Killed
                 \/ sendWsCommand \/ Timeout \/ Answered \/ BodyRead
        BY <3>3 DEF Create, TimerFires, Reconnect, Discover, Discovered, Alarm, Killed,
                    sendWsCommand, Send, Timeout, Answered, BodyRead, castKept
      <3>4. CASE \/ \E c \in Sockets : Opened(c) \/ Received(c) \/ Breaks(c) \/ Closed(c)
                 \/ \E c \in Guests : Guest(c) \/ GuestReads(c)
        BY <3>4 DEF Opened, Received, Breaks, Closed, Guest, GuestConnects, GuestLeaves,
                    GuestReads, Send
      <3>5. CASE UNCHANGED vars
        BY <3>5 DEF vars, httpVars
      <3> QED  BY <1>1, <3>1, <3>2, <3>3, <3>4, <3>5
    <2> QED  BY <2>1, <2>2, CastsHandle
  <1> QED
    BY <1>1, ServerHandles, OthersHandle DEF Next

LEMMA HandlersInit == Init => WorkerInv /\ ServerInv
  <1> SUFFICES ASSUME Init PROVE WorkerInv /\ ServerInv
    OBVIOUS
  <1>1. WorkerInv
    BY RemoteAssumption DEF Init, ServerInit, WorkerInv
  <1>2. Waiting = {}
    BY DEF Init, ServerInit, Waiting
  <1>3. LoadInv
    BY <1>2 DEF Init, ServerInit, LoadInv
  <1>4. HandlerInv
    BY <1>2 DEF Init, ServerInit, HandlerInv
  <1>5. Handled = {}
    BY DEF Init, ServerInit, Handled, Handling
  <1>6. PermitInv
    BY <1>5, FS_EmptySet, RemoteAssumption DEF Init, ServerInit, PermitInv
  <1> QED  BY <1>1, <1>3, <1>4, <1>6 DEF ServerInv

\* Every permit of the WebSocket server is free or with the handler of one
\* connection, so there are never more handlers than permits, and none is lost
\* however connections break, are refused or are stopped in a load.
THEOREM PermitsComeBack ==
  Spec => [](permits \in Nat /\ permits + Cardinality(Handled) = MaxConnections)
  <1>1. ServerInv => permits \in Nat /\ permits + Cardinality(Handled) = MaxConnections
    BY DEF ServerInv, PermitInv
  <1> QED  BY <1>1, HandlersInit, HandlersNext, WorkerNext, PTL DEF Spec

\* A handler waits for a load exactly while that load is the session's, or has lost
\* the session to a stop or the slot to another load's failure, and has not returned:
\* nothing forgets a handler, and no load, of a handler or in the background, is
\* counted twice, so that none returns twice (load, stop, clear_active_session).
THEOREM LoadersAreKnown == Spec => [](LoadInv /\ HandlerInv)
  <1>1. ServerInv => LoadInv /\ HandlerInv
    BY DEF ServerInv
  <1> QED  BY <1>1, HandlersInit, HandlersNext, WorkerNext, PTL DEF Spec
-----------------------------------------------------------------------------
(***************************************************************************)
(* The queues of events, the casts under way, and what the worker holds.   *)
(***************************************************************************)
Events == {"created", "resolving", "playing", "paused", "position", "stopped", "error", "lagged"}

\* A queue holds what the channel holds, and the one message that it dropped some.
QueueInv ==
    /\ rx \in [Conns -> Seq(Events)]
    /\ \A c \in Conns : Len(rx[c]) <= Capacity + 1

\* What the channel keeps of a queue that has grown.
LEMMA Kept ==
  ASSUME NEW q \in Seq(Events)
  PROVE  Keep(q) \in Seq(Events) /\ Len(Keep(q)) <= Capacity + 1
  <1> DEFINE others == IF q # <<>> /\ Head(q) = "lagged" THEN Tail(q) ELSE q
             n == Len(others)
  <1>1. others \in Seq(Events) /\ n \in Nat /\ Len(q) \in Nat /\ Len(q) <= n + 1
    OBVIOUS
  <1>2. Capacity \in Nat \ {0}
    BY RemoteAssumption
  <1>3. Keep(q) = IF n > Capacity
                    THEN <<"lagged">> \o SubSeq(others, n - Capacity + 1, n) ELSE q
    BY DEF Keep
  <1> HIDE DEF others
  <1>4. CASE n > Capacity
    <2>1. /\ SubSeq(others, n - Capacity + 1, n) \in Seq(Events)
          /\ Len(SubSeq(others, n - Capacity + 1, n)) = Capacity
      BY <1>1, <1>2, <1>4
    <2>2. <<"lagged">> \in Seq(Events) /\ Len(<<"lagged">>) = 1
      BY DEF Events
    <2>3. <<"lagged">> \o SubSeq(others, n - Capacity + 1, n) \in Seq(Events)
      BY <2>1, <2>2
    <2>4. Len(<<"lagged">> \o SubSeq(others, n - Capacity + 1, n)) = Capacity + 1
      BY <1>2, <2>1, <2>2
    <2> QED  BY <1>2, <1>3, <1>4, <2>3, <2>4
  <1>5. CASE ~(n > Capacity)
    BY <1>1, <1>2, <1>3, <1>5
  <1> QED  BY <1>4, <1>5

LEMMA Published ==
  ASSUME QueueInv, NEW news \in Seq(Events), Publish(news) PROVE QueueInv'
  <1>1. rx' = [c \in Conns |->
                 IF Subscribed(c) THEN Keep(rx[c] \o news) ELSE rx[c]]
    BY DEF Publish
  <1>2. ASSUME NEW c \in Conns
        PROVE  rx'[c] \in Seq(Events) /\ Len(rx'[c]) <= Capacity + 1
    <2>1. rx[c] \o news \in Seq(Events)
      BY DEF QueueInv
    <2> QED  BY <1>1, <2>1, Kept DEF QueueInv
  <1> QED  BY <1>1, <1>2 DEF QueueInv

\* The operations of the session change a queue only by publishing.
LEMMA Operations ==
  ASSUME QueueInv, pause \/ resume \/ stop \/ \E owner : Load(owner)
  PROVE  QueueInv'
  <1>1. rx' = rx \/ \E news \in Seq(Events) : Publish(news)
    <2>1. /\ <<"paused", "position">> \in Seq(Events) /\ <<"stopped">> \in Seq(Events)
          /\ <<"playing", "position">> \in Seq(Events) /\ <<"created">> \in Seq(Events)
      BY DEF Events
    <2> QED  BY <2>1 DEF pause, resume, stop, Load, Unsaid
  <1>2. ASSUME rx' = rx PROVE QueueInv'
    BY <1>2 DEF QueueInv
  <1> QED  BY <1>1, <1>2, Published

LEMMA QueueNext == ASSUME QueueInv, [Next]_vars PROVE QueueInv'
  <1>1. ASSUME rx' = rx PROVE QueueInv'
    BY <1>1 DEF QueueInv
  <1>2. CASE Server
    <2>1. ASSUME NEW o, \/ LoadBegins(o) \/ LoadPlays(o) \/ LoadFails(o)
                        \/ PositionPublished
          PROVE  QueueInv'
      <3>1. /\ <<"playing", "position">> \in Seq(Events) /\ <<"error">> \in Seq(Events)
            /\ <<"position">> \in Seq(Events) /\ <<"resolving">> \in Seq(Events)
        BY DEF Events
      <3>2. \E news \in Seq(Events) : Publish(news)
        BY <2>1, <3>1 DEF LoadBegins, LoadPlays, LoadFails, PositionPublished
      <3> QED  BY <3>2, Published
    <2>2. ASSUME NEW n, BackgroundLoad(n) PROVE QueueInv'
      BY <1>1, <2>2, Operations DEF BackgroundLoad, Silent
    <2>3. ASSUME NEW o, OrphanReturns(o) PROVE QueueInv'
      BY <1>1, <2>3 DEF OrphanReturns, Unsaid, Silent
    <2>8. ASSUME NEW c \in Conns, Upgrade(c) \/ Refuse(c) \/ Reached(c) PROVE QueueInv'
      BY <1>1, <2>8 DEF Upgrade, Refuse, Reached, Accept
    <2>4. ASSUME NEW c \in Conns, Command(c) PROVE QueueInv'
      <3>1. pause \/ resume \/ stop \/ Load(c) \/ rx' = rx
        BY <2>4 DEF Command, Silent
      <3> QED  BY <1>1, <3>1, Operations
    <2>5. ASSUME NEW c \in Conns, Forward(c) PROVE QueueInv'
      <3>1. rx[c] # <<>> /\ rx' = [rx EXCEPT ![c] = Tail(rx[c])]
        BY <2>5 DEF Forward
      <3>2. Tail(rx[c]) \in Seq(Events) /\ Len(Tail(rx[c])) <= Capacity + 1
        BY <3>1, RemoteAssumption DEF QueueInv
      <3> QED  BY <3>1, <3>2 DEF QueueInv
    <2>6. ASSUME NEW c \in Conns, End(c) PROVE QueueInv'
      BY <2>6, RemoteAssumption DEF End, QueueInv
    <2>7. ASSUME NEW n \in flying, NEW ip \in Ips, CastRequest(n, ip) PROVE QueueInv'
      BY <1>1, <2>7 DEF CastRequest, socketVars
    <2> QED  BY <1>2, <2>1, <2>2, <2>3, <2>4, <2>5, <2>6, <2>7, <2>8 DEF Server, ServerStep
  <1>3. CASE Position \/ Api
    <2>1. rx' = rx \/ pause \/ resume \/ stop
      BY <1>3 DEF Position, PositionRead, Api, ApiCommand, AnotherCast, Silent,
                  OtherRequest, Tick, socketVars
    <2> QED  BY <1>1, <2>1, Operations
  <1>4. CASE \/ Create \/ TimerFires \/ Reconnect \/ Discover \/ Alarm \/ Killed
             \/ sendWsCommand
             \/ \E c \in Sockets : Opened(c) \/ Received(c) \/ Breaks(c) \/ Closed(c)
             \/ Cast \/ Lost \/ Timeout \/ Answered \/ BodyRead \/ Delayed
             \/ \E c \in Guests : Guest(c) \/ GuestReads(c)
             \/ UNCHANGED vars
    <2>1. UNCHANGED serverKept
      BY <1>4, ClientsLeaveServer
    <2> QED  BY <1>1, <2>1 DEF serverKept
  <1> QED  BY <1>2, <1>3, <1>4 DEF Next

\* The bound of every queue of events, the permits, who loads, the casts under
\* way and the sockets of the worker, together.
THEOREM RemoteTypeCorrect == Spec => []RemoteTypeOK
  <1>1. Init => QueueInv
    BY RemoteAssumption DEF Init, ServerInit, QueueInv
  <1>2. ASSUME ServerInv, WorkerInv PROVE Waiting \subseteq Loads
    <2>1. 1..sent \subseteq Nat /\ Others \subseteq Nat
      BY <1>2, RemoteAssumption DEF WorkerInv
    <2> QED  BY <1>2, <2>1 DEF ServerInv, LoadInv, Loads
  <1>3. ASSUME ServerInv, QueueInv, WorkerInv PROVE RemoteTypeOK
    <2>1. fresh \subseteq {loader} \cup unseated
      BY <1>3 DEF ServerInv, LoadInv
    <2>2. permits + Cardinality({c \in Conns :
            conn[c] \in {"handshake", "open", "loading", "ending"}}) = MaxConnections
      BY <1>3 DEF ServerInv, PermitInv, Handled, Handling
    <2> QED
      BY <1>2, <1>3, <2>1, <2>2
      DEF ServerInv, LoadInv, HandlerInv, QueueInv, WorkerInv, RemoteTypeOK
  <1> QED
    BY <1>1, <1>3, HandlersInit, HandlersNext, QueueNext, WorkerNext, PTL DEF Spec
-----------------------------------------------------------------------------
(***************************************************************************)
(* The rate limiter.                                                       *)
(***************************************************************************)
Entries == [count : Nat, start : Nat]

\* The times at which the requests of a client passed: they do not decrease, and two
\* windows' worth of them take longer than one window.
Spaced(c, passed) ==
    /\ \A i, j \in 1..Len(passed) : i <= j => passed[i] <= passed[j]
    /\ \A i \in 1..Len(passed) : passed[i] <= c
    /\ \A i \in 1..Len(passed) : i + 2 * Limit - 1 <= Len(passed) =>
          passed[i + 2 * Limit - 1] - passed[i] >= Window

\* An entry counts the last k of all m, from the one that began the window; the one
\* Limit before that was a window earlier.
WindowOf(times, m, k, s) ==
    /\ k \in 1..Limit /\ k <= m
    /\ s = times[m - k + 1]
    /\ m >= k + Limit => s - times[m - k - Limit + 1] >= Window

\* Without an entry the one Limit before the next is a window ago.
Fresh(c, passed) ==
    Len(passed) >= Limit => c - passed[Len(passed) - Limit + 1] >= Window

LimiterAt(c, passed, e) ==
    /\ Spaced(c, passed)
    /\ e = None => Fresh(c, passed)
    /\ e # None => WindowOf(passed, Len(passed), e.count, e.start)

LimiterInv ==
    /\ clock \in Nat
    /\ allowed \in [Ips -> Seq(Nat)] /\ entries \in [Ips -> Entries \cup {None}]
    /\ \A ip \in Ips : LimiterAt(clock, allowed[ip], entries[ip])

LEMMA LimitsPositive == Limit \in Nat \ {0} /\ Window \in Nat \ {0}
  BY RemoteAssumption

\* An entry is pruned once its window is over.
LEMMA PrunedIsFresh ==
  ASSUME NEW c \in Nat, NEW passed \in Seq(Nat), NEW k \in Nat, NEW s \in Nat,
         Spaced(c, passed), WindowOf(passed, Len(passed), k, s), c - s >= Window
  PROVE  Fresh(c, passed)
  <1> DEFINE n == Len(passed)
  <1> SUFFICES ASSUME n >= Limit PROVE c - passed[n - Limit + 1] >= Window
    BY DEF Fresh
  <1>1. k \in 1..Limit /\ k <= n /\ s = passed[n - k + 1]
    BY DEF WindowOf
  <1>2. n - Limit + 1 \in 1..n /\ n - k + 1 \in 1..n /\ n - Limit + 1 <= n - k + 1
    BY <1>1, LimitsPositive
  <1> DEFINE first == passed[n - Limit + 1]
  <1>3. first <= s
    BY <1>1, <1>2 DEF Spaced
  <1>4. first \in Nat
    BY <1>2
  <1> HIDE DEF n, first
  <1>5. c - first >= Window
    BY <1>3, <1>4, LimitsPositive
  <1> QED  BY <1>5 DEF n, first

\* A request that passes is the first of a window, or one more of it.
LEMMA FirstOfWindow ==
  ASSUME NEW c \in Nat, NEW passed \in Seq(Nat), Fresh(c, passed)
  PROVE  WindowOf(Append(passed, c), Len(passed) + 1, 1, c)
  <1> DEFINE n == Len(passed)
             q == Append(passed, c)
  <1>1. n \in Nat /\ Len(q) = n + 1 /\ q[n + 1] = c /\ \A i \in 1..n : q[i] = passed[i]
    OBVIOUS
  <1>2. n >= Limit => c - passed[n - Limit + 1] >= Window
    BY DEF Fresh
  <1> HIDE DEF n, q
  <1>3. n >= Limit => n - Limit + 1 \in 1..n
    BY <1>1, LimitsPositive
  <1>4. /\ n + 1 - 1 + 1 = n + 1 /\ n + 1 - 1 - Limit + 1 = n - Limit + 1
        /\ n + 1 >= 1 + Limit <=> n >= Limit
    BY <1>1, LimitsPositive
  <1>5. n + 1 >= 1 + Limit => c - q[n + 1 - 1 - Limit + 1] >= Window
    BY <1>1, <1>2, <1>3, <1>4
  <1>6. 1 \in 1..Limit /\ 1 <= n + 1 /\ c = q[n + 1 - 1 + 1]
    BY <1>1, <1>4, LimitsPositive
  <1>7. WindowOf(q, n + 1, 1, c)
    BY <1>1, <1>5, <1>6, LimitsPositive DEF WindowOf
  <1> QED  BY <1>1, <1>7 DEF q

LEMMA OneMoreOfWindow ==
  ASSUME NEW c \in Nat, NEW passed \in Seq(Nat), NEW k \in Nat, NEW s \in Nat,
         WindowOf(passed, Len(passed), k, s), k < Limit
  PROVE  WindowOf(Append(passed, c), Len(passed) + 1, k + 1, s)
  <1> DEFINE n == Len(passed)
             q == Append(passed, c)
  <1>1. n \in Nat /\ Len(q) = n + 1 /\ \A i \in 1..n : q[i] = passed[i]
    OBVIOUS
  <1>2. /\ k \in 1..Limit /\ k <= n /\ s = passed[n - k + 1]
        /\ n >= k + Limit => s - passed[n - k - Limit + 1] >= Window
    BY DEF WindowOf
  <1> HIDE DEF n, q
  <1>3. /\ n - k + 1 \in 1..n /\ n + 1 - (k + 1) + 1 = n - k + 1
        /\ n + 1 - (k + 1) - Limit + 1 = n - k - Limit + 1
        /\ n + 1 >= k + 1 + Limit <=> n >= k + Limit
        /\ n >= k + Limit => n - k - Limit + 1 \in 1..n
    BY <1>1, <1>2, LimitsPositive
  <1>4. k + 1 \in 1..Limit /\ k + 1 <= n + 1
    BY <1>1, <1>2, LimitsPositive
  <1>5. WindowOf(q, n + 1, k + 1, s)
    BY <1>1, <1>2, <1>3, <1>4 DEF WindowOf
  <1> QED  BY <1>1, <1>5 DEF q

\* Then two windows' worth up to it still take a window: it has fewer than Limit
\* others in its own, and before those there is one that was a window earlier.
LEMMA StillSpaced ==
  ASSUME NEW c \in Nat, NEW passed \in Seq(Nat), NEW k \in Nat, NEW s \in Nat,
         Spaced(c, passed), WindowOf(Append(passed, c), Len(passed) + 1, k, s)
  PROVE  Spaced(c, Append(passed, c))
  <1> DEFINE n == Len(passed)
             q == Append(passed, c)
             far == 2 * Limit - 1
  <1>1. /\ n \in Nat /\ Len(q) = n + 1 /\ q[n + 1] = c
        /\ \A i \in 1..n : q[i] = passed[i] /\ passed[i] \in Nat
    OBVIOUS
  <1>2. /\ \A i, j \in 1..n : i <= j => passed[i] <= passed[j]
        /\ \A i \in 1..n : passed[i] <= c
    BY DEF Spaced
  <1>3. \A i \in 1..n : i + 2 * Limit - 1 <= n =>
           passed[i + 2 * Limit - 1] - passed[i] >= Window
    BY DEF Spaced
  <1>4. /\ k \in 1..Limit /\ k <= n + 1 /\ s = q[n + 1 - k + 1]
        /\ n + 1 >= k + Limit => s - q[n + 1 - k - Limit + 1] >= Window
    <2> HIDE DEF n
    <2>1. WindowOf(q, n + 1, k, s)
      BY <1>1
    <2> HIDE DEF q
    <2> QED  BY <1>1, <2>1, LimitsPositive DEF WindowOf
  <1>5. far \in Nat /\ far = Limit + Limit - 1
    BY LimitsPositive
  <1>10. \A i \in 1..n + 1 : i + 2 * Limit - 1 = i + far
    BY <1>1, LimitsPositive
  <1> HIDE DEF n, q, far
  <1>6. ASSUME NEW i \in 1..n + 1, NEW j \in 1..n + 1, i <= j PROVE q[i] <= q[j]
    <2>1. CASE j \in 1..n
      <3>1. i \in 1..n
        BY <1>1, <1>6, <2>1
      <3> QED  BY <1>1, <1>2, <1>6, <2>1, <3>1
    <2>2. CASE j = n + 1 /\ i \in 1..n
      BY <1>1, <1>2, <2>2
    <2>3. CASE j = n + 1 /\ i = n + 1
      BY <1>1, <2>3
    <2> QED  BY <1>1, <2>1, <2>2, <2>3
  <1>7. ASSUME NEW i \in 1..n + 1 PROVE q[i] <= c /\ q[i] \in Nat
    <2>1. CASE i \in 1..n
      BY <1>1, <1>2, <2>1
    <2>2. CASE i = n + 1
      BY <1>1, <2>2
    <2> QED  BY <1>1, <2>1, <2>2
  <1>8. ASSUME NEW i \in 1..n + 1, i + far <= n + 1 PROVE q[i + far] - q[i] >= Window
    <2>1. CASE i + far <= n
      <3>1. i \in 1..n /\ i + far \in 1..n
        BY <1>1, <1>5, <2>1
      <3>2. passed[i + far] - passed[i] >= Window
        BY <1>3, <1>10, <2>1, <3>1
      <3> QED  BY <1>1, <3>1, <3>2
    <2>2. CASE i + far = n + 1
      <3> DEFINE b == n + 1 - k - Limit + 1
                 a == n + 1 - k + 1
      <3>1. i <= b /\ n + 1 >= k + Limit /\ b \in 1..n + 1 /\ a \in 1..n + 1
        BY <1>1, <1>4, <1>5, <2>2, LimitsPositive
      <3>2. s - q[b] >= Window /\ s = q[a]
        BY <1>4, <3>1
      <3> HIDE DEF a, b
      <3>3. q[i] <= q[b] /\ q[i] \in Nat /\ q[b] \in Nat /\ q[a] <= c
        BY <1>6, <1>7, <3>1
      <3>4. c - q[i] >= Window
        BY <3>2, <3>3, LimitsPositive
      <3> QED  BY <1>1, <2>2, <3>4
    <2> QED  BY <1>1, <1>5, <1>8, <2>1, <2>2
  <1>9. Spaced(c, q)
    BY <1>1, <1>6, <1>7, <1>8, <1>10 DEF Spaced
  <1> QED  BY <1>9 DEF q

\* Time goes on.
LEMMA LaterAt ==
  ASSUME NEW c \in Nat, NEW passed \in Seq(Nat), NEW e, LimiterAt(c, passed, e)
  PROVE  LimiterAt(c + 1, passed, e)
  <1>1. Spaced(c + 1, passed)
    <2>1. \A i \in 1..Len(passed) : passed[i] <= c /\ passed[i] \in Nat
      BY DEF LimiterAt, Spaced
    <2>2. \A i \in 1..Len(passed) : passed[i] <= c + 1
      BY <2>1
    <2> QED  BY <2>2 DEF LimiterAt, Spaced
  <1>2. ASSUME e = None PROVE Fresh(c + 1, passed)
    <2> SUFFICES ASSUME Len(passed) >= Limit
                 PROVE  (c + 1) - passed[Len(passed) - Limit + 1] >= Window
      BY LimitsPositive DEF Fresh
    <2>1. c - passed[Len(passed) - Limit + 1] >= Window
      BY <1>2 DEF LimiterAt, Fresh
    <2>2. passed[Len(passed) - Limit + 1] \in Nat
      BY LimitsPositive
    <2> QED  BY <2>1, <2>2, LimitsPositive
  <1> QED  BY <1>1, <1>2 DEF LimiterAt

\* retain: every entry whose window is over is dropped.
LEMMA PrunedAt ==
  ASSUME LimiterInv, NEW ip \in Ips
  PROVE  /\ Pruned[ip] \in Entries \cup {None}
         /\ LimiterAt(clock, allowed[ip], Pruned[ip])
         /\ Pruned[ip] # None => clock - Pruned[ip].start < Window
  <1>1. /\ clock \in Nat /\ allowed[ip] \in Seq(Nat) /\ entries[ip] \in Entries \cup {None}
        /\ LimiterAt(clock, allowed[ip], entries[ip])
    BY DEF LimiterInv
  <1>2. CASE entries[ip] = None \/ clock - entries[ip].start < Window
    <2>1. Pruned[ip] = entries[ip]
      BY <1>2 DEF Pruned
    <2> QED  BY <1>1, <1>2, <2>1
  <1>3. CASE entries[ip] # None /\ ~(clock - entries[ip].start < Window)
    <2>1. Pruned[ip] = None
      BY <1>3 DEF Pruned
    <2>2. entries[ip].count \in Nat /\ entries[ip].start \in Nat
      BY <1>1, <1>3 DEF Entries
    <2>3. clock - entries[ip].start >= Window
      BY <1>1, <1>3, <2>2, LimitsPositive
    <2>4. Fresh(clock, allowed[ip])
      BY <1>1, <1>3, <2>2, <2>3, PrunedIsFresh DEF LimiterAt
    <2> QED  BY <1>1, <2>1, <2>4 DEF LimiterAt
  <1> QED  BY <1>2, <1>3

\* What a request that passes leaves of the client.
LEMMA CountedAt ==
  ASSUME LimiterInv, NEW ip \in Ips, Passes(ip)
  PROVE  /\ Counted(ip) \in Entries
         /\ LimiterAt(clock, Append(allowed[ip], clock), Counted(ip))
  <1> DEFINE e == Pruned[ip]
             q == Append(allowed[ip], clock)
  <1>1. /\ e \in Entries \cup {None} /\ LimiterAt(clock, allowed[ip], e)
        /\ e # None => clock - e.start < Window
    BY PrunedAt
  <1>2. /\ clock \in Nat /\ allowed[ip] \in Seq(Nat)
        /\ Len(q) = Len(allowed[ip]) + 1
    BY DEF LimiterInv
  <1>3. None \notin Entries
    BY RemoteAssumption DEF Entries
  <1>4. CASE e = None
    <2>1. Counted(ip) = [count |-> 1, start |-> clock]
      BY <1>4 DEF Counted
    <2>2. Counted(ip) \in Entries /\ Counted(ip).count = 1 /\ Counted(ip).start = clock
      BY <1>2, <2>1 DEF Entries
    <2>3. WindowOf(q, Len(q), 1, clock)
      BY <1>1, <1>2, <1>4, FirstOfWindow DEF LimiterAt
    <2>4. Spaced(clock, q)
      BY <1>1, <1>2, <2>3, StillSpaced DEF LimiterAt
    <2> QED  BY <1>3, <2>2, <2>3, <2>4 DEF LimiterAt
  <1>5. CASE e # None
    <2>1. e.count \in Nat /\ e.start \in Nat /\ e \in Entries
      BY <1>1, <1>5 DEF Entries
    <2>2. e.count < Limit /\ ~(clock - e.start >= Window)
      BY <1>1, <1>2, <1>5, <2>1, LimitsPositive DEF Passes
    <2>3. Counted(ip) = [e EXCEPT !.count = @ + 1]
      BY <1>5, <2>2 DEF Counted
    <2>4. /\ Counted(ip) \in Entries
          /\ Counted(ip).count = e.count + 1 /\ Counted(ip).start = e.start
      BY <2>1, <2>3 DEF Entries
    <2>5. WindowOf(q, Len(q), e.count + 1, e.start)
      BY <1>1, <1>2, <1>5, <2>1, <2>2, OneMoreOfWindow DEF LimiterAt
    <2>6. Spaced(clock, q)
      BY <1>1, <1>2, <2>1, <2>5, StillSpaced DEF LimiterAt
    <2> QED  BY <1>3, <2>4, <2>5, <2>6 DEF LimiterAt
  <1> QED  BY <1>4, <1>5

LEMMA CheckKeeps ==
  ASSUME LimiterInv, NEW ip \in Ips, check(ip), clock' = clock PROVE LimiterInv'
  <1>1. /\ clock \in Nat /\ Pruned \in [Ips -> Entries \cup {None}]
        /\ allowed \in [Ips -> Seq(Nat)]
    BY PrunedAt DEF LimiterInv, Pruned
  <1>2. CASE ~Passes(ip)
    <2>1. entries' = Pruned /\ allowed' = allowed
      BY <1>2 DEF check
    <2> QED  BY <1>1, <2>1, PrunedAt DEF LimiterInv
  <1>3. CASE Passes(ip)
    <2>1. /\ entries' = [Pruned EXCEPT ![ip] = Counted(ip)]
          /\ allowed' = [allowed EXCEPT ![ip] = Append(allowed[ip], clock)]
      BY <1>3 DEF check
    <2>2. Append(allowed[ip], clock) \in Seq(Nat)
      BY <1>1
    <2>3. entries' \in [Ips -> Entries \cup {None}] /\ allowed' \in [Ips -> Seq(Nat)]
      BY <1>1, <1>3, <2>1, <2>2, CountedAt
    <2>4. ASSUME NEW j \in Ips PROVE LimiterAt(clock, allowed'[j], entries'[j])
      <3>1. CASE j = ip
        BY <1>1, <1>3, <2>1, <3>1, CountedAt
      <3>2. CASE j # ip
        BY <1>1, <2>1, <3>2, PrunedAt
      <3> QED  BY <3>1, <3>2
    <2> QED  BY <1>1, <2>3, <2>4 DEF LimiterInv
  <1> QED  BY <1>2, <1>3

LEMMA LimiterNext == ASSUME LimiterInv, [Next]_vars PROVE LimiterInv'
  <1>1. ASSUME UNCHANGED <<entries, clock, allowed>> PROVE LimiterInv'
    BY <1>1 DEF LimiterInv
  <1>2. CASE Server
    <2>1. ASSUME NEW o, \/ PositionPublished \/ LoadBegins(o) \/ LoadPlays(o)
                        \/ LoadFails(o) \/ OrphanReturns(o) \/ BackgroundLoad(o)
          PROVE  UNCHANGED httpVars
      BY <2>1 DEF PositionPublished, LoadBegins, LoadPlays, LoadFails, OrphanReturns,
                  BackgroundLoad
    <2>2. ASSUME NEW c \in Conns, \/ Upgrade(c) \/ Refuse(c) \/ Command(c)
                                  \/ Forward(c) \/ End(c) \/ Reached(c)
          PROVE  UNCHANGED httpVars
      BY <2>2 DEF Upgrade, Refuse, Command, Forward, End, Reached, Accept
    <2>3. ASSUME NEW n \in flying, NEW ip \in Ips, CastRequest(n, ip) PROVE LimiterInv'
      BY <2>3, CheckKeeps DEF CastRequest
    <2> QED  BY <1>1, <1>2, <2>1, <2>2, <2>3 DEF Server, ServerStep, httpVars
  <1>3. CASE Position
    BY <1>1, <1>3 DEF Position, PositionRead, httpVars
  <1>4. CASE Api
    <2>1. CASE ApiCommand
      BY <1>1, <2>1 DEF ApiCommand, httpVars
    <2>2. ASSUME NEW ip \in Ips, OtherRequest(ip) PROVE LimiterInv'
      BY <2>2, CheckKeeps DEF OtherRequest
    <2>3. CASE Tick
      <3>1. clock' = clock + 1 /\ UNCHANGED <<entries, allowed>>
        BY <2>3 DEF Tick
      <3> QED  BY <3>1, LaterAt DEF LimiterInv
    <2> QED  BY <1>4, <2>1, <2>2, <2>3 DEF Api
  <1>5. CASE UNCHANGED serverKept
    BY <1>1, <1>5 DEF serverKept
  <1> QED  BY <1>2, <1>3, <1>4, <1>5, ClientsLeaveServer DEF Next

LEMMA LimiterSuffices == ASSUME LimiterInv PROVE LimitIsKept
  <1> SUFFICES ASSUME NEW ip \in Ips
               PROVE  LET passed == allowed[ip]
                          n == Len(passed)
                      IN /\ ~Passes(ip) =>
                              n >= Limit /\ clock - passed[n - Limit + 1] < Window
                         /\ \A i \in 1..n : i + 2 * Limit - 1 <= n =>
                               passed[i + 2 * Limit - 1] - passed[i] >= Window
    BY DEF LimitIsKept
  <1>1. Spaced(clock, allowed[ip])
    BY DEF LimiterInv, LimiterAt
  <1>2. ASSUME ~Passes(ip)
        PROVE  /\ Len(allowed[ip]) >= Limit
               /\ clock - allowed[ip][Len(allowed[ip]) - Limit + 1] < Window
    <2> DEFINE e == Pruned[ip]
    <2>1. /\ e \in Entries \cup {None} /\ LimiterAt(clock, allowed[ip], e)
          /\ e # None => clock - e.start < Window
      BY PrunedAt
    <2>2. e # None /\ ~(e.count < Limit)
      BY <1>2 DEF Passes
    <2>3. e.count \in Nat /\ WindowOf(allowed[ip], Len(allowed[ip]), e.count, e.start)
      BY <2>1, <2>2 DEF Entries, LimiterAt
    <2>4. e.count = Limit
      BY <2>2, <2>3, LimitsPositive DEF WindowOf
    <2> QED  BY <2>1, <2>2, <2>3, <2>4 DEF WindowOf
  <1> QED  BY <1>1, <1>2 DEF Spaced

LEMMA LimiterInit == Init => LimiterInv
  <1> SUFFICES ASSUME Init PROVE LimiterInv
    OBVIOUS
  <1>1. clock = 0 /\ entries = [i \in Ips |-> None] /\ allowed = [i \in Ips |-> <<>>]
    BY DEF Init, ServerInit
  <1>2. Spaced(0, <<>>) /\ Fresh(0, <<>>)
    BY LimitsPositive DEF Spaced, Fresh
  <1> QED  BY <1>1, <1>2 DEF LimiterInv, LimiterAt

\* The rate limiter refuses no client that has requests left in the time of one
\* window, and never lets two windows' worth pass in it, whatever the limit, the
\* window and the times of the requests (RateLimiter::check).
THEOREM LimitHolds == Spec => []LimitIsKept
  BY LimiterInit, LimiterNext, LimiterSuffices, PTL DEF Spec
=============================================================================
