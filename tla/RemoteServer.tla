---------------------------- MODULE RemoteServer ----------------------------
(***************************************************************************)
(* What a remote control meets: the HTTP API (src/protocols/src/http.rs)   *)
(* with its rate limiter, and the WebSocket server (src/protocols/src/     *)
(* ws.rs), over one session.                                               *)
(*                                                                         *)
(* The session is the one of SessionManager, whose inner steps are modelled*)
(* there: here an operation is one step, and what counts is the events it  *)
(* publishes, in their order.  A load is three steps: it takes the slot,   *)
(* begins to resolve and returns.  In the meantime the handler of a socket *)
(* waits for it, reads no command and forwards no event, and the load may  *)
(* lose its session to a stop, or its slot to the failure of a load whose  *)
(* session was stopped.                                                    *)
(***************************************************************************)
EXTENDS Integers, FiniteSets, SequencesExt

CONSTANTS
    Sockets,        \* the sockets of the browser extension, used again once free
    Guests,         \* the sockets of other clients
    MaxConnections, \* permits
    Capacity,       \* of the channel of events, per subscriber
    Buffer,         \* messages the network holds before a send waits
    Others,         \* casts of other clients at a time, by numbers of their own
    Ips,            \* the names the rate limiter knows clients by
    Limit, Window,  \* of the rate limiter
    MaxClock,       \* bounds time
    MaxRequests,    \* bounds the requests for a cast
    None

Conns == Sockets \cup Guests

\* Whose a load is: a connection's, or a request's in the background.
Loads == Conns \cup Nat

ASSUME RemoteAssumption ==
    /\ Sockets \cap Guests = {} /\ None \notin Conns
    /\ \A c \in Conns \cup {None} : c \notin Nat
    /\ None \notin [count : Nat, start : Nat]
    /\ {MaxConnections, Capacity, Buffer, Limit, Window} \subseteq Nat \ {0}
    /\ MaxClock \in Nat /\ MaxRequests \in Nat
    /\ Others \subseteq Nat /\ \A n \in Others : n > MaxRequests

VARIABLES
    session,    \* that which has the slot: none, resolving, playing or paused
    loader,     \* whose load it is, or None
    fresh,      \* loads whose row is still at Idle
    orphans,    \* loads that lost their session to a stop
    unseated,   \* loads that lost the slot to another's failure, not the session
    spawned,    \* background loads that have not begun
    polled,     \* the position task has a position to publish
    conn,       \* the handler of each connection
    permits,
    rx,         \* the events each handler has yet to forward
    owed,       \* an end of the session that a client has yet to hear of
    hushed,     \* the clients that such an end was never published to
    commands,   \* on their way to the server
    told,       \* messages on their way to the client
    ready,      \* the client's end: the readyState of its socket
    entries, clock,
    allowed,    \* when the requests of each client passed
    flying,     \* casts on their way to the server
    sent,       \* how many casts were sent
    answer      \* the response to the last of them

loadVars == <<loader, fresh, orphans, unseated, spawned>>
sessionVars == <<session, loadVars, polled>>
socketVars == <<conn, permits, rx, owed, hushed, commands, told, ready>>
httpVars == <<entries, clock, allowed, flying, sent, answer>>

\* A session may be left from before.
ServerInit ==
    /\ session \in {"none", "paused"} /\ loader = None /\ polled = FALSE
    /\ fresh = {} /\ orphans = {} /\ unseated = {} /\ spawned = {}
    /\ conn = [c \in Conns |-> "none"] /\ ready = conn
    /\ permits = MaxConnections
    /\ rx = [c \in Conns |-> <<>>] /\ commands = rx /\ told = rx
    /\ owed = [c \in Conns |-> FALSE] /\ hushed = {}
    /\ entries = [i \in Ips |-> None] /\ clock = 0
    /\ allowed = [i \in Ips |-> <<>>]
    /\ flying = {} /\ sent = 0 /\ answer = None

(***************************************************************************)
(* Events.  A subscriber that is too far behind loses the oldest ones, and *)
(* is told that it did, once, before the events that are left.             *)
(***************************************************************************)
Subscribed(c) == conn[c] \in {"open", "loading", "ending"}

Keep(q) ==
    LET events == IF q # <<>> /\ Head(q) = "lagged" THEN Tail(q) ELSE q
        n == Len(events)
    IN IF n > Capacity
         THEN <<"lagged">> \o SubSeq(events, n - Capacity + 1, n)
         ELSE q

\* Whoever is subscribed when the session ends is owed that it did.
Ended == [c \in Conns |-> owed[c] \/ (/\ Subscribed(c)
                                     /\ session # "none" /\ session' = "none")]

Publish(events) ==
    /\ rx' = [c \in Conns |->
                IF Subscribed(c) THEN Keep(rx[c] \o events) ELSE rx[c]]
    /\ owed' = Ended
    /\ UNCHANGED hushed

\* An end that is not published.
Unsaid ==
    /\ owed' = Ended
    /\ hushed' = hushed \cup {c \in Conns : Subscribed(c) /\ session # "none"}
    /\ UNCHANGED rx

Silent == UNCHANGED <<rx, owed, hushed>>

\* A send waits for room, and fails when the client is gone: the handler ends.
Gone(c) == ready[c] \in {"none", "closing"}
Sent(c) == Len(told[c]) <= Buffer

Reply(c, m) ==
    IF Gone(c)
      THEN conn' = [conn EXCEPT ![c] = "ending"] /\ UNCHANGED told
      ELSE conn' = [conn EXCEPT ![c] = "open"]
           /\ told' = [told EXCEPT ![c] = Append(@, m)]

(***************************************************************************)
(* The operations of the session, as the handlers call them.               *)
(***************************************************************************)
pause ==
    /\ session = "playing" /\ session' = "paused"
    /\ Publish(<<"paused", "position">>)
    /\ UNCHANGED <<loadVars, polled>>

resume ==
    /\ session = "paused" /\ session' = "playing"
    /\ Publish(<<"playing", "position">>)
    /\ UNCHANGED <<loadVars, polled>>

\* A row that is at Idle is not moved there, which is what tells of the end.
stop ==
    /\ session # "none" /\ session' = "none"
    /\ loader' = None /\ orphans' = orphans \cup ({loader} \ {None})
    /\ fresh' = fresh \ {loader}
    /\ IF loader \in fresh THEN Unsaid ELSE Publish(<<"stopped">>)
    /\ UNCHANGED <<unseated, spawned, polled>>

Load(o) ==
    /\ session = "none" /\ session' = "resolving"
    /\ loader' = o /\ fresh' = fresh \cup {o}
    /\ Publish(<<"created">>)
    /\ UNCHANGED <<orphans, unseated, polled>>

LoadBegins(o) ==
    /\ o \in fresh /\ fresh' = fresh \ {o}
    /\ UNCHANGED session
    /\ Publish(<<"resolving">>)
    /\ UNCHANGED <<loader, orphans, unseated, spawned, polled, conn, permits,
                   commands, told, ready, httpVars>>

\* A load ends: the handler that waited for it goes on.
LoadReturns(o, m) ==
    IF o \notin Conns THEN UNCHANGED <<conn, told>>
    ELSE IF m = None
      THEN conn' = [conn EXCEPT ![o] = "open"] /\ UNCHANGED told
      ELSE Reply(o, m)

\* The loads that have not returned, and those whose row is there and has left Idle.
Waiting == ({loader} \ {None}) \cup orphans \cup unseated
Under == ({loader} \cup unseated) \ (fresh \cup {None})

LoadPlays(o) ==
    /\ o \in Under /\ unseated' = unseated \ {o}
    /\ IF o = loader THEN session' = "playing" /\ loader' = None
                     ELSE UNCHANGED <<session, loader>>
    /\ Publish(<<"playing", "position">>)
    /\ LoadReturns(o, None)
    /\ UNCHANGED <<fresh, orphans, spawned, polled, permits, commands, ready,
                   httpVars>>

\* clear_active_session, by the load o: whichever session has the slot loses it.
Freed(o) ==
    /\ session' = "none" /\ loader' = None
    /\ unseated' = (unseated \cup {loader}) \ {o, None}

LoadFails_unsaid(o) ==
    /\ o \in Under
    /\ Freed(o)
    /\ Publish(<<>>)
    /\ LoadReturns(o, "error")
    /\ UNCHANGED <<fresh, orphans, spawned, polled, permits, commands, ready,
                   httpVars>>

LoadFails(o) ==
    /\ o \in Under
    /\ Freed(o)
    /\ Publish(<<"error">>)
    /\ LoadReturns(o, "error")
    /\ UNCHANGED <<fresh, orphans, spawned, polled, permits, commands, ready,
                   httpVars>>

\* Its row is gone: no transition succeeds, and none is published.  A failure
\* frees the slot all the same; where a transition fails the load just returns.
OrphanReturns(o) ==
    /\ o \in orphans /\ orphans' = orphans \ {o}
    /\ \/ Freed(o) /\ Unsaid
       \/ UNCHANGED <<session, loader, unseated>> /\ Silent
    /\ LoadReturns(o, "error")
    /\ UNCHANGED <<fresh, spawned, polled, permits, commands, ready, httpVars>>

\* The task that publishes positions: a stop may come after it has read one.
PositionRead ==
    /\ session = "playing" /\ ~polled /\ polled' = TRUE
    /\ UNCHANGED <<session, loadVars, socketVars, httpVars>>

PositionPublished ==
    /\ polled /\ polled' = FALSE
    /\ UNCHANGED session
    /\ Publish(<<"position">>)
    /\ UNCHANGED <<loadVars, conn, permits, commands, told, ready, httpVars>>

(***************************************************************************)
(* ws.rs: one task per connection, from the accept to the end.             *)
(***************************************************************************)
\* The permit is taken before the handshake, which ends when the client has sent
\* its request, or is seen to be gone.
Accept(c) ==
    /\ conn[c] = "none" /\ ready[c] = "connecting" /\ told[c] = <<>>
    /\ IF permits > 0
         THEN permits' = permits - 1 /\ conn' = [conn EXCEPT ![c] = "handshake"]
         ELSE conn' = [conn EXCEPT ![c] = "refusing"] /\ UNCHANGED permits
    /\ UNCHANGED <<sessionVars, rx, owed, hushed, commands, told, ready, httpVars>>

Upgrade(c) ==
    /\ conn[c] = "handshake"
    /\ Reply(c, "upgrade")
    /\ UNCHANGED <<sessionVars, permits, rx, owed, hushed, commands, ready, httpVars>>

\* Over the limit: the handshake is done only to say so.
Refuse(c) ==
    /\ conn[c] = "refusing" /\ conn' = [conn EXCEPT ![c] = "none"]
    /\ told' = IF Gone(c) THEN told
               ELSE [told EXCEPT ![c] = @ \o <<"upgrade", "error", "close">>]
    /\ UNCHANGED <<sessionVars, permits, rx, owed, hushed, commands, ready, httpVars>>

\* One arm of the loop: a command.  The extension's "ping" is no ClientCommand.
Command(c) ==
    /\ conn[c] = "open" /\ Sent(c) /\ commands[c] # <<>>
    /\ commands' = [commands EXCEPT ![c] = Tail(@)]
    /\ LET cmd == Head(commands[c]) IN
       \/ /\ cmd = "PAUSE" /\ pause /\ UNCHANGED <<conn, told>>
       \/ /\ cmd = "RESUME" /\ resume /\ UNCHANGED <<conn, told>>
       \/ /\ cmd = "STOP" /\ stop /\ UNCHANGED <<conn, told>>
       \/ /\ cmd = "CAST" /\ Load(c)
          /\ conn' = [conn EXCEPT ![c] = "loading"]
          /\ UNCHANGED <<spawned, told>>
       \/ /\ \/ cmd = "PAUSE" /\ session # "playing"
             \/ cmd = "RESUME" /\ session # "paused"
             \/ cmd = "STOP" /\ session = "none"
             \/ cmd = "CAST" /\ session # "none"
             \/ cmd = "ping"
          /\ Reply(c, "error") /\ Silent /\ UNCHANGED sessionVars
    /\ UNCHANGED <<permits, ready, httpVars>>

\* Another arm: an event.  A position is always reported as playing.
Message(e) ==
    CASE e \in {"playing", "position"} -> "playing"
      [] e = "paused" -> "paused"
      [] e = "stopped" -> "idle"
      [] e \in {"created", "resolving"} -> "progress"
      [] e = "error" -> "error"

Forward(c) ==
    /\ conn[c] = "open" /\ Sent(c) /\ rx[c] # <<>>
    /\ rx' = [rx EXCEPT ![c] = Tail(@)]
    /\ LET e == Head(rx[c])
           over == e = "lagged" \/ Message(e) \in {"idle", "error"}
       IN /\ IF e = "lagged" THEN UNCHANGED <<conn, told>> ELSE Reply(c, Message(e))
          /\ owed' = [owed EXCEPT ![c] = @ /\ ~over]
          /\ hushed' = IF over THEN hushed \ {c} ELSE hushed
    /\ UNCHANGED <<sessionVars, permits, commands, ready, httpVars>>

Finish_forgets(c) ==
    /\ conn' = [conn EXCEPT ![c] = "none"]
    /\ UNCHANGED permits

\* The end of a handler drops its permit and its subscription.
Finish(c) ==
    /\ conn' = [conn EXCEPT ![c] = "none"]
    /\ permits' = permits + 1

End_unnoticed(c) ==
    /\ conn[c] \in {"handshake", "ending"} /\ Gone(c)
    /\ Finish(c)
    /\ rx' = [rx EXCEPT ![c] = <<>>]
    /\ owed' = [owed EXCEPT ![c] = FALSE] /\ hushed' = hushed \ {c}
    /\ commands' = [commands EXCEPT ![c] = <<>>]
    /\ UNCHANGED <<sessionVars, told, ready, httpVars>>

\* A send has failed, or a read or a ping finds that the client is gone.
End(c) ==
    /\ conn[c] \in {"handshake", "open", "ending"} /\ Gone(c)
    /\ Finish(c)
    /\ rx' = [rx EXCEPT ![c] = <<>>]
    /\ owed' = [owed EXCEPT ![c] = FALSE] /\ hushed' = hushed \ {c}
    /\ commands' = [commands EXCEPT ![c] = <<>>]
    /\ UNCHANGED <<sessionVars, told, ready, httpVars>>

(***************************************************************************)
(* http.rs: the rate limiter and the cast.                                 *)
(***************************************************************************)
Pruned ==
    [i \in Ips |->
       IF entries[i] # None /\ clock - entries[i].start < Window
         THEN entries[i] ELSE None]

Passes(ip) ==
    LET e == Pruned[ip] IN
    e = None \/ clock - e.start >= Window \/ e.count < Limit

Counted_sliding(ip) ==
    LET e == Pruned[ip] IN
    IF e = None \/ clock - e.start >= Window
      THEN [count |-> 1, start |-> clock]
      ELSE [count |-> e.count + 1, start |-> clock]

\* The entry after a request that passes.
Counted(ip) ==
    LET e == Pruned[ip] IN
    IF e = None \/ clock - e.start >= Window
      THEN [count |-> 1, start |-> clock]
      ELSE [e EXCEPT !.count = @ + 1]

check(ip) ==
    IF Passes(ip)
      THEN /\ entries' = [Pruned EXCEPT ![ip] = Counted(ip)]
           /\ allowed' = [allowed EXCEPT ![ip] = Append(@, clock)]
      ELSE entries' = Pruned /\ UNCHANGED allowed

\* POST /api/cast: answered at once, the load goes on in the background.
CastRequest(n, ip) ==
    /\ n \in flying /\ flying' = flying \ {n}
    /\ check(ip)
    /\ LET code == CASE ~Passes(ip) -> "too many requests"
                     [] Passes(ip) /\ session # "none" -> "conflict"
                     [] OTHER -> "accepted"
       IN /\ answer' = IF n = sent THEN code ELSE answer
          /\ spawned' = IF code = "accepted" THEN spawned \cup {n} ELSE spawned
    /\ UNCHANGED <<session, loader, fresh, orphans, unseated, polled, socketVars,
                   clock, sent>>

BackgroundLoad(n) ==
    /\ n \in spawned /\ spawned' = spawned \ {n}
    /\ \/ Load(n)
       \/ /\ session # "none" /\ Silent
          /\ UNCHANGED <<session, loader, fresh, orphans, unseated, polled>>
    /\ UNCHANGED <<conn, permits, commands, told, ready, httpVars>>

\* Any other request of any client, as the rate limiter sees it.
OtherRequest(ip) ==
    /\ check(ip)
    /\ UNCHANGED <<sessionVars, socketVars, clock, flying, sent, answer>>

\* POST /api/cast of another client; the limiter sees it as an OtherRequest.
AnotherCast ==
    /\ session = "none"
    /\ \E n \in Others \ (Waiting \cup spawned) : spawned' = spawned \cup {n}
    /\ Silent /\ UNCHANGED <<session, loader, fresh, orphans, unseated, polled>>

\* The API of other clients: POST /api/stop, pause, resume and cast.
ApiCommand ==
    /\ stop \/ pause \/ resume \/ AnotherCast
    /\ UNCHANGED <<conn, permits, commands, told, ready, httpVars>>

Tick ==
    /\ clock < MaxClock /\ clock' = clock + 1
    /\ UNCHANGED <<sessionVars, socketVars, entries, allowed, flying, sent, answer>>

ServerStep ==
    \/ PositionPublished
    \/ \E o \in fresh : LoadBegins(o)
    \/ \E o \in Under : LoadPlays(o) \/ LoadFails(o)
    \/ \E o \in orphans : OrphanReturns(o)
    \/ \E n \in spawned : BackgroundLoad(n)
    \/ \E c \in Conns :
         Upgrade(c) \/ Refuse(c) \/ Command(c) \/ Forward(c) \/ End(c)
    \/ \E n \in flying, ip \in Ips : CastRequest(n, ip)
=============================================================================
