------------------------------ MODULE DlnaSync ------------------------------
(***************************************************************************)
(* The DLNA renderer of src/protocols/src/dlna.rs beside the session       *)
(* manager: a gmediarender child process that must be stopped while boGDan *)
(* plays, because both draw through kmssink and only one process can be    *)
(* DRM master, and that must run while boGDan is idle.                     *)
(*                                                                         *)
(* A task reads the session events from a broadcast channel and starts and *)
(* stops the child; the server starts it once at start-up; and a health    *)
(* monitor, which the server does not run, restarts it when it has exited. *)
(* The child's handle has a mutex that start, stop and is_running hold to  *)
(* their end, so each is one action, and a decision made from is_running   *)
(* is carried out in a later one.                                          *)
(*                                                                         *)
(* Every event the manager broadcasts goes through that channel, those the *)
(* task has no use for too, and a full channel drops its oldest.  One life *)
(* of the process is modelled: SessionManager's Restart is left out.       *)
(***************************************************************************)
EXTENDS SessionManager, Sequences

CONSTANTS
    Capacity,      \* of the broadcast channel: the oldest event is lost
    MaxRestarts,   \* MAX_RESTART_ATTEMPTS
    Settings       \* the circumstances that are considered:
                   \*   clients     those that give commands
                   \*   sessions    those that they may load
                   \*   commands    those that they give, by their first steps
                   \*   monitored   start_health_monitor runs
                   \*   inTime      the start-up task runs before a command
                   \*   spawnFails  gmediarender may fail to start
                   \*   exits       it may exit by itself

ASSUME DlnaConstants ==
    /\ Capacity \in Nat \ {0}
    /\ MaxRestarts \in Nat
    /\ Settings \subseteq
         [clients : SUBSET Clients, sessions : SUBSET Sessions, commands : SUBSET Steps,
          monitored : BOOLEAN, inTime : BOOLEAN, spawnFails : BOOLEAN, exits : BOOLEAN]

VARIABLES
    setting,   \* the member of Settings this behaviour lives in
    events,    \* what the task's receiver has not read yet
    told,      \* history: the newest announcement the task reacts to
    lost,      \* history: the channel dropped that one unread
    child,     \* the child slot: no handle, a running or an exited process
    starter,   \* the task of main that starts the renderer
    sync,      \* the step run_dlna_sync is at
    monitor,   \* the step start_health_monitor is at
    restarts   \* restart_count

dlnaVars == <<child, starter, sync, monitor, restarts>>
channel == <<events, told, lost>>
allVars == <<vars, setting, channel, dlnaVars>>

\* The states whose announcement the task reacts to; Idle announces Stopped.
\* All else it receives is Other: Created, Resolved, Buffering, Paused,
\* Seeking, PositionUpdate, VolumeChanged, AudioDeviceError.
Announced == {"Resolving", "Playing", "Idle", "Error"}
Kinds == Announced \cup {"Other"}

DlnaInit ==
    /\ Init
    /\ setting \in Settings
    /\ events = <<>>
    /\ told = None
    /\ lost = FALSE
    /\ child = "none"
    /\ starter = "ready"
    /\ sync = "recv"
    /\ monitor = IF setting.monitored THEN "watch" ELSE "off"
    /\ restarts = 0

-----------------------------------------------------------------------------
Reacted(queue) == \E i \in DOMAIN queue : queue[i] \in Announced

\* event_tx.send: a full channel drops its oldest event, of whatever kind; the
\* receiver is told that it lagged and does nothing about it.
Enqueue(kind) ==
    LET queue == Append(events, kind)
    IN  events' = IF Len(queue) > Capacity THEN Tail(queue) ELSE queue

\* An event the task has no use for may push the newest it reacts to out.
SendOther ==
    /\ Enqueue("Other")
    /\ lost' = (lost \/ (Reacted(events) /\ ~Reacted(events')))
    /\ UNCHANGED told

Send(s, state) ==
    /\ Enqueue(state)
    /\ told' = [id |-> s, state |-> state]
    /\ lost' = FALSE

\* The steps that send an event of their own: Created, Resolved, PositionUpdate
\* (twice) and VolumeChanged; seek sends Seeking after its transition.
Sending ==
    {<<"insert", "begin_resolve">>, <<"store", "acquire">>,
     <<"refresh", "refresh_read">>, <<"poll", "final_read">>,
     <<"volume_engine", "final_read">>}

\* try_transition announces the state it stored; deletes announce nothing.
Announce(c) ==
    LET s == sid[c]
        new == db'[s].state
        moved == Stored(s) /\ new \notin {db[s].state, Absent}
    IN  \/ moved /\ new \in Announced /\ Send(s, new)
        \/ moved /\ new \notin Announced /\ SendOther
        \/ ~moved /\ <<pc[c], pc'[c]>> \in Sending /\ SendOther
        \/ ~moved /\ <<pc[c], pc'[c]>> \notin Sending /\ UNCHANGED channel

SessionBegin(c) ==
    /\ c \in setting.clients
    /\ setting.inTime => starter = "done"
    /\ Begin(c)
    /\ pc'[c] \in setting.commands
    /\ used' \subseteq setting.sessions
    /\ UNCHANGED <<setting, channel, dlnaVars>>

SessionStep(c) ==
    /\ Step(c)
    /\ Announce(c)
    /\ UNCHANGED <<setting, dlnaVars>>

SessionCancel(c) ==
    /\ Cancel(c)
    /\ UNCHANGED <<setting, channel, dlnaVars>>

\* main's playback listener forwards AudioDeviceError while a session is active.
ForwardAudioError ==
    /\ active # None
    /\ SendOther
    /\ UNCHANGED <<vars, setting, dlnaVars>>

-----------------------------------------------------------------------------
(***************************************************************************)
(* DlnaRenderer                                                            *)
(***************************************************************************)
\* start: nothing to do while there is a handle, whatever became of it.
Start ==
    \/ /\ child # "none"
       /\ UNCHANGED <<child, restarts>>
    \/ /\ child = "none"
       /\ child' = "running"
       /\ restarts' = 0
    \/ /\ child = "none" /\ setting.spawnFails
       /\ UNCHANGED <<child, restarts>>

\* stop: SIGTERM, up to three seconds of patience, SIGKILL.
StopChild == child' = "none"

\* is_running and the monitor's check forget a process that has exited.
Reaped == IF child = "exited" THEN "none" ELSE child

ChildExits ==
    /\ setting.exits
    /\ child = "running"
    /\ child' = "exited"
    /\ UNCHANGED <<vars, setting, channel, starter, sync, monitor, restarts>>

StartUp ==
    /\ starter = "ready"
    /\ Start
    /\ starter' = "done"
    /\ UNCHANGED <<vars, setting, channel, sync, monitor>>

-----------------------------------------------------------------------------
(***************************************************************************)
(* run_dlna_sync                                                           *)
(***************************************************************************)
Handle_error_ignored(e) ==
    CASE e \in {"Resolving", "Playing"} -> "check_stop"
      [] e = "Idle" -> "check_start"
      [] OTHER -> "recv"
Handle_no_net(e) ==
    CASE e = "Resolving" -> "check_stop"
      [] e \in {"Idle", "Error"} -> "check_start"
      [] OTHER -> "recv"

\* Resolving and Playing stop the renderer, Stopped and Error start it.
Handle(e) ==
    CASE e \in {"Resolving", "Playing"} -> "check_stop"
      [] e \in {"Idle", "Error"} -> "check_start"
      [] OTHER -> "recv"

Receive ==
    /\ sync = "recv"
    /\ events # <<>>
    /\ events' = Tail(events)
    /\ sync' = Handle(Head(events))
    /\ UNCHANGED <<vars, setting, told, lost, child, starter, monitor, restarts>>

CheckRunning ==
    /\ \/ /\ sync = "check_stop"
          /\ sync' = IF child = "running" THEN "stop" ELSE "recv"
       \/ /\ sync = "check_start"
          /\ sync' = IF child = "running" THEN "recv" ELSE "start"
    /\ child' = Reaped
    /\ UNCHANGED <<vars, setting, channel, starter, monitor, restarts>>

SyncStop ==
    /\ sync = "stop"
    /\ StopChild
    /\ sync' = "recv"
    /\ UNCHANGED <<vars, setting, channel, starter, monitor, restarts>>

SyncStart ==
    /\ sync = "start"
    /\ Start
    /\ sync' = "recv"
    /\ UNCHANGED <<vars, setting, channel, starter, monitor>>

-----------------------------------------------------------------------------
(***************************************************************************)
(* start_health_monitor                                                    *)
(***************************************************************************)
\* Every ten seconds: a process that has exited is restarted, unless it was
\* restarted too often.
MonitorCheck ==
    /\ monitor = "watch"
    /\ child = "exited"
    /\ child' = Reaped
    /\ IF restarts < MaxRestarts
       THEN monitor' = "backoff" /\ restarts' = restarts + 1
       ELSE UNCHANGED <<monitor, restarts>>
    /\ UNCHANGED <<vars, setting, channel, starter, sync>>

\* Five seconds later, whatever has happened in between.
MonitorRestart ==
    /\ monitor = "backoff"
    /\ Start
    /\ monitor' = "watch"
    /\ UNCHANGED <<vars, setting, channel, starter, sync>>

-----------------------------------------------------------------------------
Sync == Receive \/ CheckRunning \/ SyncStop \/ SyncStart
Monitor == MonitorCheck \/ MonitorRestart

DlnaNext ==
    \/ \E c \in Clients : SessionBegin(c) \/ SessionStep(c) \/ SessionCancel(c)
    \/ ForwardAudioError \/ StartUp \/ Sync \/ Monitor \/ ChildExits

\* Every task is scheduled again and again, and no command waits for ever.
DlnaSpec ==
    /\ DlnaInit /\ [][DlnaNext]_allVars
    /\ \A c \in Clients : WF_allVars(SessionStep(c))
    /\ WF_allVars(StartUp) /\ WF_allVars(Sync) /\ WF_allVars(Monitor)

-----------------------------------------------------------------------------
\* The types; no more events wait than the channel holds.
DlnaTypeOK ==
    /\ TypeOK
    /\ setting \in Settings
    /\ events \in Seq(Kinds) /\ Len(events) <= Capacity
    /\ told \in [id : Sessions, state : Announced] \cup {None}
    /\ lost \in BOOLEAN
    /\ child \in {"none", "running", "exited"}
    /\ starter \in {"ready", "done"}
    /\ sync \in {"recv", "check_stop", "stop", "check_start", "start"}
    /\ monitor \in {"off", "watch", "backoff"}
    /\ restarts \in 0 .. MaxRestarts

\* Nothing is on its way to the renderer: no event and no decision of a task.
Handled ==
    /\ events = <<>>
    /\ sync = "recv"
    /\ starter = "done"
    /\ monitor # "backoff"

\* "When boGDan is playing, gmediarender must be stopped": however the commands
\* of any number of clients interleave, once the events have been handled no
\* renderer runs beside the session whose start or end was announced last, as
\* long as that session is live.  Provided that this announcement was not
\* itself dropped, that the start-up task was in time and that no monitor runs.
\* (An older session whose end is announced after this one's start does bring
\* the renderer back: with one command at a time there is none.)
PlayingExcludesRenderer ==
    /\ setting.inTime /\ ~setting.monitored
    /\ Handled
    /\ told # None /\ ~lost
    /\ db[told.id].state \in LiveStates
    => child # "running"

\* The newest announcement was that of an end, and it was not dropped.  (After
\* one command at a time it always was an end; a stop that reads the row before
\* its load begins to resolve ends the session without announcing it.)
EndAnnounced ==
    ~lost /\ (told # None => told.state \in {"Idle", "Error"})

\* "When boGDan is idle, gmediarender should be running": while boGDan stays
\* idle after an announced end the renderer comes back for good, also after a
\* load that failed, provided that it can be started, that it exits by itself
\* only so often, and that the monitor runs if it does.
IdleRendererRuns ==
    /\ ~setting.spawnFails /\ (setting.exits => setting.monitored)
    /\ <>[](active = None /\ Quiescent /\ EndAnnounced)
    /\ <>[][~ChildExits]_allVars
    => <>[](child = "running")
=============================================================================
