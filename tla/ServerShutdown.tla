--------------------------- MODULE ServerShutdown ---------------------------
(***************************************************************************)
(* The life of the server process in src/server/src/main.rs: it builds the *)
(* subsystems, starts its tasks, waits for a signal and winds down in a    *)
(* fixed order, at the end of which it shuts Tor down and returns.  Then   *)
(* the runtime drops the tasks, each at its next await, and the process    *)
(* ends once they are gone.                                                *)
(*                                                                         *)
(* What goes on meanwhile: the position task may be inside a stop and load *)
(* of its own; an HTTP or WebSocket connection is a detached task that     *)
(* nobody ends before the process does; and the task that keeps the DLNA   *)
(* renderer in step with the session never sees its channel close, because *)
(* the session that it waits for holds the sender.                         *)
(***************************************************************************)
EXTENDS TorManager, FiniteSets

VARIABLES
    stage,      \* where main is
    serving,    \* the tasks whose handles main awaits and that have not ended
    position,   \* the position task: between two ticks, inside one, or ended
    renderer,   \* gmediarender runs
    news,       \* the session event that the sync task has still to act upon
    caught      \* main has returned while the monitor was inside a round

serverVars == <<stage, serving, position, renderer, news, caught>>
vars == <<torVars, serverVars>>

Tasks == {"http", "ws", "dlna", "sync"}

Init ==
    /\ TorInit
    /\ stage = "tor"
    /\ serving = {}
    /\ position = "off"
    /\ renderer = FALSE
    /\ news = None
    /\ caught = FALSE

Ended == stage \in {"exit", "failed"}

\* main has returned, and the process is still there.
Leaving == stage \in {"leaving", "dropped"}

Over == Ended \/ Leaving

-----------------------------------------------------------------------------
(***************************************************************************)
(* main, up to the signal.                                                 *)
(***************************************************************************)
StartTor ==
    /\ stage = "tor"
    /\ StartMonitor
    /\ stage' = "build"
    /\ UNCHANGED <<serving, position, renderer, news, caught>>

\* A display that cannot be acquired is only logged.
Build ==
    /\ stage = "build"
    /\ serving' = Tasks
    /\ position' = "idle"
    /\ stage' = "run"
    /\ UNCHANGED <<torVars, renderer, news, caught>>

\* main's future is over, and the runtime drops the tasks at their awaits; the
\* monitor's end is below.
Returns ==
    /\ stage' = "leaving"
    /\ caught' = (monitor \in Round)
    /\ serving' = {} /\ position' = "off" /\ news' = None
    /\ talk' = [c \in Callers |-> "idle"]
    /\ UNCHANGED <<proc, child, owns, auto, lock, monitor, fresh, peer, down,
                   renderer>>

\* The engine, the manager of the sessions or another part cannot be built.
BuildFails == stage = "build" /\ Returns

\* A server that cannot listen or accept exits from the process, and no
\* destructor runs.
ServerFails ==
    /\ serving \cap {"http", "ws"} # {}
    /\ ~Over
    /\ stage' = "failed"
    /\ UNCHANGED <<torVars, serving, position, renderer, news, caught>>

-----------------------------------------------------------------------------
(***************************************************************************)
(* The tasks.                                                              *)
(***************************************************************************)
\* A tick may find work to do: to stop the session, or to load it again.
PositionTick ==
    /\ ~Over
    /\ position = "idle"
    /\ position' = "busy"
    /\ UNCHANGED <<torVars, stage, serving, renderer, news, caught>>

PositionDone ==
    /\ ~Over
    /\ position = "busy"
    /\ position' = "idle"
    /\ UNCHANGED <<torVars, stage, serving, renderer, news, caught>>

\* The channel that stops it is looked at between two ticks.
PositionEnds ==
    /\ ~Over
    /\ position = "idle"
    /\ stage = "position"
    /\ position' = "ended"
    /\ UNCHANGED <<torVars, stage, serving, renderer, news, caught>>

\* A client whose connection is open, or the position task, has the session
\* resolve or stop something, of which the sync task hears.
Command ==
    /\ ~Over
    /\ position # "off"
    /\ news' \in {"stop", "start"}
    /\ UNCHANGED <<torVars, stage, serving, position, renderer, caught>>

\* The task that starts gmediarender when the server starts.
StartRenderer ==
    /\ ~Over
    /\ "dlna" \in serving
    /\ renderer' \in {renderer, TRUE}
    /\ serving' = serving \ {"dlna"}
    /\ UNCHANGED <<torVars, stage, position, news, caught>>

\* run_dlna_sync.
SyncRenderer ==
    /\ ~Over
    /\ news # None
    /\ renderer' = (news = "start")
    /\ news' = None
    /\ UNCHANGED <<torVars, stage, serving, position, caught>>

-----------------------------------------------------------------------------
(***************************************************************************)
(* The shutdown.                                                           *)
(***************************************************************************)
Signal ==
    /\ stage = "run"
    /\ stage' = "position"
    /\ UNCHANGED <<torVars, serving, position, renderer, news, caught>>

AwaitPosition ==
    /\ stage = "position"
    /\ position = "ended"
    /\ stage' = "servers"
    /\ UNCHANGED <<torVars, serving, position, renderer, news, caught>>

\* The broadcast makes the servers leave their loops.
ServerEnds ==
    /\ stage \in {"servers", "engine", "display", "renderer", "down"}
    /\ \E t \in serving \cap {"http", "ws"} : serving' = serving \ {t}
    /\ UNCHANGED <<torVars, stage, position, renderer, news, caught>>

AwaitServers_patient ==
    /\ stage = "servers"
    /\ serving = {}
    /\ stage' = "engine"
    /\ UNCHANGED <<torVars, serving, position, renderer, news, caught>>

\* All of them, or five seconds.
AwaitServers ==
    /\ stage = "servers"
    /\ stage' = "engine"
    /\ UNCHANGED <<torVars, serving, position, renderer, news, caught>>

\* What these two do is PlaybackEngine's; an error is only logged.
StopEngine ==
    /\ stage = "engine"
    /\ stage' = "display"
    /\ UNCHANGED <<torVars, serving, position, renderer, news, caught>>

ReleaseDisplay ==
    /\ stage = "display"
    /\ stage' = "renderer"
    /\ UNCHANGED <<torVars, serving, position, renderer, news, caught>>

StopRenderer ==
    /\ stage = "renderer"
    /\ renderer' = FALSE
    /\ stage' = "down"
    /\ down' = "notify"
    /\ UNCHANGED <<proc, child, owns, auto, lock, monitor, fresh, peer, talk,
                   serving, position, news, caught>>

Exit ==
    /\ stage = "down"
    /\ down = "done"
    /\ Returns

-----------------------------------------------------------------------------
(***************************************************************************)
(* The end of the process, beside a monitor that is in the middle of a     *)
(* round: nothing makes it wait before it has spawned and stored.          *)
(***************************************************************************)
LastRound ==
    /\ Leaving
    /\ monitor \in Round
    /\ Monitor
    /\ UNCHANGED serverVars

\* At the steps that take the mutex it may find it taken for a moment and wait.
DropMonitor ==
    /\ Leaving
    /\ monitor \notin {"decide", "spawn", "ended"}
    /\ monitor' = "ended"
    /\ peer' = None
    /\ UNCHANGED <<proc, child, owns, auto, lock, fresh, talk, down, serverVars>>

\* The last handle of the manager is gone.  The destructor of the renderer makes
\* the future of a kill and drops it.
Destroy ==
    /\ stage = "leaving"
    /\ Drop
    /\ stage' = "dropped"
    /\ UNCHANGED <<child, owns, auto, lock, monitor, fresh, peer, talk, down,
                   serving, position, renderer, news, caught>>

ProcessEnds ==
    /\ stage = "dropped"
    /\ monitor = "ended"
    /\ stage' = "exit"
    /\ UNCHANGED <<torVars, serving, position, renderer, news, caught>>

-----------------------------------------------------------------------------
WindDown ==
    \/ StartTor \/ Build \/ AwaitPosition \/ AwaitServers
    \/ StopEngine \/ ReleaseDisplay \/ StopRenderer \/ Exit
    \/ Destroy \/ DropMonitor \/ ProcessEnds

Work ==
    \/ Command \/ PositionTick \/ PositionDone
    \/ PositionEnds \/ StartRenderer \/ SyncRenderer \/ ServerEnds

\* The manager's tasks run while the process is there.
Manager(A) == A /\ ~Over /\ UNCHANGED serverVars
MonitorStep == Manager(Monitor) \/ LastRound
ShutdownStep == Manager(Shutdown)
GivesUp(c) == Manager(Unanswered(c))

TorStep ==
    \/ Manager(EnsureRunning) \/ MonitorStep \/ ShutdownStep
    \/ \E c \in Callers : Manager(Call(c)) \/ Manager(Answered(c)) \/ GivesUp(c)

\* The processes live on when the server is gone.
TorProcess ==
    /\ \E p \in Pids : Bootstraps(p) \/ Exits(p)
    /\ UNCHANGED serverVars

Next ==
    \/ WindDown \/ BuildFails \/ ServerFails \/ Signal \/ Work
    \/ TorStep \/ TorProcess

Spec == Init /\ [][Next]_vars

\* Every task of the server runs again and again.  The loop of the position task
\* chooses at random among what is ready, so that it notices the end some time,
\* if it is ever between two ticks: its stop and its load need not return, as a
\* CDN may leave the preflight of a load unanswered.  Nothing makes a process
\* start or exit, a client leave, a signal come or a peer answer.
Fairness ==
    /\ WF_vars(WindDown) /\ SF_vars(PositionEnds)
    /\ WF_vars(MonitorStep) /\ WF_vars(ShutdownStep)
    /\ \A c \in Callers : WF_vars(GivesUp(c))

FairSpec == Spec /\ Fairness

-----------------------------------------------------------------------------
\* The types, and what holds between the child slot, its owner flag and the
\* mutex whenever nobody is in the middle of a step.
TypeOK ==
    /\ TorTypeOK
    /\ stage \in {"tor", "build", "run", "position", "servers", "engine",
                  "display", "renderer", "down", "leaving", "dropped", "exit",
                  "failed"}
    /\ serving \subseteq Tasks
    /\ position \in {"off", "idle", "busy", "ended"}
    /\ renderer \in BOOLEAN
    /\ news \in {"stop", "start", None}
    /\ caught \in BOOLEAN

\* The processes that the manager has started, and not told to stop.
Untold == {p \in Alive \ {Foreign} : proc[p] # "told"}

\* The manager has at most one Tor process that it has not told to stop: the one
\* in the child slot, or the one the monitor is about to store there.  And when
\* the process of the server ends there is none, even if the monitor restarted Tor
\* while shutdown was under way.  The exception is the code's: main returned
\* while the monitor was inside a round, which no await ends before it has
\* spawned (shutdown, Drop, start_monitor).
NoTorOutlives ==
    /\ Untold \subseteq {child, fresh}
    /\ child = None \/ fresh = None
    /\ stage = "exit" /\ ~caught => Untold = {}

\* Whoever asks the server to end sees it end, whatever Tor and the clients do,
\* unless the position task is for ever inside the stop and load of a tick, for
\* which main waits (main, shutdown of the Tor manager).
ShutdownEnds ==
    ((stage = "position") ~> Ended) \/ <>[](position = "busy")

\* A health check or a new circuit that is asked for comes to a result, or
\* to an error, though Tor has stopped to answer (socks5_handshake,
\* health_check, new_circuit).
ConversationsEnd ==
    \A c \in Callers : (talk[c] # "idle") ~> (talk[c] = "idle" \/ Ended)
=============================================================================
