----------------------------- MODULE TorManager -----------------------------
(***************************************************************************)
(* The Tor manager of src/tor/src/lib.rs: a Tor process that is spawned    *)
(* when none listens on the SOCKS port, a task that looks after it every   *)
(* thirty seconds, conversations with its SOCKS and control port, and the  *)
(* shutdown.  The child's handle is behind a mutex that shutdown holds     *)
(* while it waits for the process to exit.                                 *)
(*                                                                         *)
(* Processes are external: one that starts fails when another has the      *)
(* port, any may crash, and one that was sent SIGTERM may take for ever.   *)
(*                                                                         *)
(* ensure_running is called at most once, before the monitor starts, as    *)
(* the doc of start_monitor asks.  The server itself never calls it and    *)
(* relies on a Tor that somebody else has started.                         *)
(***************************************************************************)
EXTENDS Naturals

CONSTANTS
    Pids,       \* the processes there may be; finite only to bound TLC
    Foreign,    \* the one of them that somebody else may have started
    Callers,    \* tasks that call health_check and new_circuit
    None

ASSUME TorAssumption == Foreign \in Pids /\ None \notin Pids

VARIABLES
    proc,       \* what has become of each process
    child,      \* the process in the child slot
    owns,       \* owns_process
    auto,       \* auto_restart
    lock,       \* shutdown holds the mutex of the child slot
    monitor,    \* the step the task of start_monitor is at
    fresh,      \* the process that it has spawned and not, or never, stored
    peer,       \* the process that the other end of its connection is
    talk,       \* the read that each caller waits for
    down        \* the step shutdown is at

torVars == <<proc, child, owns, auto, lock, monitor, fresh, peer, talk, down>>

Alive == {p \in Pids : proc[p] \in {"starting", "serving", "told"}}
Serving == {p \in Pids : proc[p] = "serving"}

TorInit ==
    /\ proc \in [Pids -> {"none", "serving"}]
    /\ Serving \subseteq {Foreign}
    /\ child = None /\ fresh = None /\ peer = None
    /\ owns = FALSE /\ lock = FALSE
    /\ auto \in BOOLEAN
    /\ monitor = "off"
    /\ talk = [c \in Callers |-> "idle"]
    /\ down = "idle"

-----------------------------------------------------------------------------
(***************************************************************************)
(* The processes.                                                          *)
(***************************************************************************)
Becomes(p, state) == proc' = [proc EXCEPT ![p] = state]

Bootstraps(p) ==
    /\ proc[p] = "starting"
    /\ Becomes(p, IF Serving = {} THEN "serving" ELSE "exited")
    /\ UNCHANGED <<child, owns, auto, lock, monitor, fresh, peer, talk, down>>

Exits(p) ==
    /\ p \in Alive
    /\ Becomes(p, "exited")
    /\ UNCHANGED <<child, owns, auto, lock, monitor, fresh, peer, talk, down>>

\* p is the process that Command::spawn makes.
Spawned(p) == p # Foreign /\ proc[p] = "none" /\ Becomes(p, "starting")

Terminate(p) ==
    IF p \in Alive THEN Becomes(p, "told") ELSE UNCHANGED proc

-----------------------------------------------------------------------------
(***************************************************************************)
(* ensure_running: nothing to do when the port answers; otherwise a child  *)
(* of our own, which stays ours when it does not come up in time.          *)
(***************************************************************************)
EnsureRunning ==
    /\ monitor = "off"
    /\ child = None
    /\ Serving = {}
    /\ \E p \in Pids : Spawned(p) /\ child' = p
    /\ owns' = TRUE
    /\ UNCHANGED <<auto, lock, monitor, fresh, peer, talk, down>>

StartMonitor ==
    /\ monitor = "off"
    /\ monitor' = "wait"
    /\ UNCHANGED <<proc, child, owns, auto, lock, fresh, peer, talk, down>>

-----------------------------------------------------------------------------
(***************************************************************************)
(* The monitor.                                                            *)
(***************************************************************************)
\* The steps of a round in which the task is polled and comes to no await but
\* that of the mutex, until it has stored what it has spawned.
Round == {"check", "decide", "spawn", "store"}

MonitorFires ==
    /\ monitor = "wait"
    /\ monitor' = "check"
    /\ UNCHANGED <<proc, child, owns, auto, lock, fresh, peer, talk, down>>

\* try_wait: a child that has exited is forgotten.
MonitorTick ==
    /\ monitor = "check"
    /\ ~lock
    /\ IF child # None /\ proc[child] = "exited"
       THEN child' = None /\ owns' = FALSE /\ monitor' = "decide"
       ELSE monitor' = "connect" /\ UNCHANGED <<child, owns>>
    /\ UNCHANGED <<proc, auto, lock, fresh, peer, talk, down>>

\* A binary that is not found ends the round.
MonitorDecide ==
    /\ monitor = "decide"
    /\ monitor' \in IF auto THEN {"spawn", "wait"} ELSE {"connect"}
    /\ UNCHANGED <<proc, child, owns, auto, lock, fresh, peer, talk, down>>

MonitorSpawn ==
    /\ monitor = "spawn"
    /\ \/ \E p \in Pids : Spawned(p) /\ fresh' = p /\ monitor' = "store"
       \/ monitor' = "connect" /\ UNCHANGED <<proc, fresh>>
    /\ UNCHANGED <<child, owns, auto, lock, peer, talk, down>>

\* Even when shutdown has come and gone in between.
MonitorStore ==
    /\ monitor = "store"
    /\ ~lock
    /\ child' = fresh
    /\ owns' = TRUE
    /\ fresh' = None
    /\ monitor' = "connect"
    /\ UNCHANGED <<proc, auto, lock, peer, talk, down>>

\* query_circuit_health needs the cookie and a listener.
MonitorConnect ==
    /\ monitor = "connect"
    /\ \/ \E p \in Serving : peer' = p /\ monitor' = "auth"
       \/ monitor' = "wait" /\ UNCHANGED peer
    /\ UNCHANGED <<proc, child, owns, auto, lock, fresh, talk, down>>

\* Any answer but 250, an empty one at the end of the stream included, a
\* failed read and five seconds of silence end the conversation.
MonitorAuth ==
    /\ monitor = "auth"
    /\ \/ peer \in Serving /\ monitor' = "circuits" /\ UNCHANGED peer
       \/ monitor' = "wait" /\ peer' = None
    /\ UNCHANGED <<proc, child, owns, auto, lock, fresh, talk, down>>

\* The lines of the answer, up to the last one or a failure.  At the end of
\* the stream read_line returns an empty line, at once and again and again,
\* which is none of those the loop leaves at.
MonitorCircuits ==
    /\ monitor = "circuits"
    /\ \/ monitor' = "wait" /\ peer' = None
       \/ peer \notin Serving /\ monitor' = "spinning" /\ UNCHANGED peer
    /\ UNCHANGED <<proc, child, owns, auto, lock, fresh, talk, down>>

Monitor ==
    \/ MonitorFires \/ MonitorTick \/ MonitorDecide \/ MonitorSpawn
    \/ MonitorStore \/ MonitorConnect \/ MonitorAuth \/ MonitorCircuits

-----------------------------------------------------------------------------
(***************************************************************************)
(* health_check, with the handshake it makes, and new_circuit.             *)
(***************************************************************************)
Reads == {"handshake", "http", "authenticate", "newnym"}

Call(c) ==
    /\ talk[c] = "idle"
    /\ Serving # {}
    /\ \E first \in {"handshake", "authenticate"} :
          talk' = [talk EXCEPT ![c] = first]
    /\ UNCHANGED <<proc, child, owns, auto, lock, monitor, fresh, peer, down>>

\* The two or three reads of the handshake have a timeout each.
After(read) ==
    CASE read = "handshake" -> {"handshake", "http"}
      [] read = "authenticate" -> {"newnym"}
      [] OTHER -> {"idle"}

Answered(c) ==
    /\ talk[c] # "idle"
    /\ Serving # {}
    /\ \E next \in After(talk[c]) : talk' = [talk EXCEPT ![c] = next]
    /\ UNCHANGED <<proc, child, owns, auto, lock, monitor, fresh, peer, down>>

Unanswered_for_ever(c) == talk[c] \in {"http"} /\ UNCHANGED torVars

\* Refused, closed, or silent until the read times out.  health_check goes on
\* to its request over HTTP.
Unanswered(c) ==
    /\ talk[c] # "idle"
    /\ talk' = [talk EXCEPT ![c] = IF @ = "handshake" THEN "http" ELSE "idle"]
    /\ UNCHANGED <<proc, child, owns, auto, lock, monitor, fresh, peer, down>>

-----------------------------------------------------------------------------
(***************************************************************************)
(* shutdown, and the destructor.                                           *)
(***************************************************************************)
\* notify_waiters reaches a monitor that waits, unless its timer has fired at
\* the same time.
Notify ==
    /\ down = "notify"
    /\ down' = "auto"
    /\ \/ UNCHANGED monitor
       \/ monitor = "wait" /\ monitor' = "ended"
    /\ UNCHANGED <<proc, child, owns, auto, lock, fresh, peer, talk>>

DisableRestart ==
    /\ down = "auto"
    /\ auto' = FALSE
    /\ down' = "owns"
    /\ UNCHANGED <<proc, child, owns, lock, monitor, fresh, peer, talk>>

CheckOwner ==
    /\ down = "owns"
    /\ down' = IF owns THEN "lock" ELSE "done"
    /\ UNCHANGED <<proc, child, owns, auto, lock, monitor, fresh, peer, talk>>

SendTerm ==
    /\ down = "lock"
    /\ IF child = None
       THEN down' = "done" /\ UNCHANGED <<proc, lock>>
       ELSE Terminate(child) /\ lock' = TRUE /\ down' = "wait"
    /\ UNCHANGED <<child, owns, auto, monitor, fresh, peer, talk>>

AwaitExit ==
    /\ down = "wait"
    /\ Becomes(child, "exited")
    /\ child' = None
    /\ owns' = FALSE
    /\ lock' = FALSE
    /\ down' = "done"
    /\ UNCHANGED <<auto, monitor, fresh, peer, talk>>

Shutdown == Notify \/ DisableRestart \/ CheckOwner \/ SendTerm \/ AwaitExit

Drop_trusting == UNCHANGED proc

\* The destructor sends SIGTERM and does not wait.  It only tries the mutex,
\* which a monitor in its round may have just then.
Drop ==
    \/ IF owns /\ child # None /\ ~lock THEN Terminate(child) ELSE UNCHANGED proc
    \/ monitor \in {"check", "store"} /\ UNCHANGED proc

-----------------------------------------------------------------------------
TorTypeOK ==
    /\ proc \in [Pids -> {"none", "starting", "serving", "told", "exited"}]
    /\ {child, fresh, peer} \subseteq Pids \cup {None}
    /\ owns \in BOOLEAN /\ auto \in BOOLEAN /\ lock \in BOOLEAN
    /\ monitor \in Round \cup {"off", "wait", "connect", "auth", "circuits",
                               "spinning", "ended"}
    /\ talk \in [Callers -> Reads \cup {"idle"}]
    /\ down \in {"idle", "notify", "auto", "owns", "lock", "wait", "done"}
    /\ owns <=> child # None
    /\ monitor = "store" => fresh # None
    /\ fresh # None => monitor \in {"store", "ended"}
    /\ lock <=> down = "wait"
=============================================================================
