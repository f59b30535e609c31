---------------------------- MODULE StallMonitor ----------------------------
(***************************************************************************)
(* The position and stall task of src/server/src/main.rs beside the        *)
(* session manager.  Every two seconds it publishes the position, and when *)
(* it has found three times in a row that a session is active whose        *)
(* download has failed and which does not play, it stops the session and   *)
(* casts its URL again.                                                    *)
(*                                                                         *)
(* The task is one more client of the session manager, with commands that  *)
(* only it gives.  Of the playback engine it reads two flags: what sets    *)
(* is_playing is the subject of PipelineWatch, and here it may change at   *)
(* any time.  The delays of the task have no counterpart: between any two  *)
(* of its steps the other clients may do as much as they like.             *)
(***************************************************************************)
EXTENDS SessionManager

CONSTANTS
    Task,     \* the task, as a client of the session manager
    Urls,     \* what is cast
    Strikes   \* the checks in a row that must find a stall

ASSUME StallAssumption ==
    /\ Task \in Clients /\ Task \notin HttpClients
    /\ Strikes \in Nat \ {0}
    /\ None \notin Urls

VARIABLES
    url,      \* the source_url of each session's row
    errored,  \* download_errored of the pipeline the engine holds
    playing,  \* is_playing
    task,     \* the step the task is at
    count,    \* stall_zero_count
    target,   \* the session whose URL the task is reading
    cast      \* source_url, which the task is about to cast

taskVars == <<task, count, target, cast>>
stallVars == <<vars, url, errored, playing, taskVars>>

Users == Clients \ {Task}

StallInit ==
    /\ Init
    /\ url = [s \in Sessions |-> None]
    /\ errored = FALSE
    /\ playing = FALSE
    /\ task = "tick"
    /\ count = 0
    /\ target = None
    /\ cast = None

-----------------------------------------------------------------------------
\* A pipeline starts with a new download; stopping one clears is_playing, and
\* replacing one does not.
Engine(c) ==
    /\ errored' = (errored /\ pipeline' = pipeline)
    /\ playing' = (playing /\ ~(/\ pc[c] = "stop_engine"
                                /\ pipeline # None /\ pipeline' = None))

\* load(source_url) writes the URL to the row it inserts.
LoadUrl(c, u) ==
    /\ LoadReserve(c)
    /\ url' = [url EXCEPT ![active'] = u]
    /\ UNCHANGED <<errored, playing>>

UserBegins(c) ==
    /\ \/ \E u \in Urls : LoadUrl(c, u)
       \/ /\ PauseBegin(c) \/ ResumeBegin(c) \/ StopBegin(c)
          /\ UNCHANGED <<url, errored, playing>>
    /\ UNCHANGED taskVars

CommandStep(c) ==
    /\ Step(c)
    /\ Engine(c)
    /\ UNCHANGED <<url, taskVars>>

-----------------------------------------------------------------------------
(***************************************************************************)
(* The engine's flags.                                                     *)
(***************************************************************************)
DownloadDies ==
    /\ pipeline # None
    /\ ~errored
    /\ errored' = TRUE
    /\ UNCHANGED <<vars, url, playing, taskVars>>

PlayingChanges ==
    /\ pipeline # None
    /\ playing' = ~playing
    /\ UNCHANGED <<vars, url, errored, taskVars>>

-----------------------------------------------------------------------------
(***************************************************************************)
(* The task.                                                               *)
(***************************************************************************)
TaskAt(step) == task = step /\ pc[Task] = "idle"

\* The tick: the position is published while is_playing.
Tick ==
    /\ TaskAt("tick")
    /\ task' = "active"
    /\ IF playing /\ active # None
       THEN PollBegin(Task)
       ELSE UNCHANGED vars
    /\ UNCHANGED <<url, errored, playing, count, target, cast>>

\* has_active_session
CheckActive ==
    /\ TaskAt("active")
    /\ IF active # None
       THEN task' = "stalled" /\ UNCHANGED count
       ELSE task' = "tick" /\ count' = 0
    /\ UNCHANGED <<vars, url, errored, playing, target, cast>>

\* download_errored takes false for an answer while a command holds the engine.
EngineBusy == \E c \in Users :
    pc[c] \in {"starting", "pause_engine", "resume_engine", "stop_engine",
              "seek_engine", "volume_engine", "refresh"}
ErroredAnswers == IF EngineBusy THEN {errored, FALSE} ELSE {errored}

CheckStalled_inside ==
    /\ TaskAt("stalled")
    /\ IF errored /\ playing
       THEN /\ count' = count + 1
            /\ task' = IF count' >= Strikes THEN "read_id" ELSE "tick"
       ELSE count' = 0 /\ task' = "tick"
    /\ UNCHANGED <<vars, url, errored, playing, target, cast>>

\* download_errored && !is_playing, three times in a row
CheckStalled ==
    /\ TaskAt("stalled")
    /\ \E dead \in ErroredAnswers :
         IF dead /\ ~playing
         THEN /\ count' = count + 1
              /\ task' = IF count' >= Strikes THEN "read_id" ELSE "tick"
         ELSE count' = 0 /\ task' = "tick"
    /\ UNCHANGED <<vars, url, errored, playing, target, cast>>

\* active_session_source_url_public: the slot, and then the row.
ReadId ==
    /\ TaskAt("read_id")
    /\ target' = active
    /\ task' = "read_url"
    /\ UNCHANGED <<vars, url, errored, playing, count, cast>>

ReadUrl ==
    /\ TaskAt("read_url")
    /\ cast' = IF target # None /\ Stored(target) THEN url[target] ELSE None
    /\ task' = "stop"
    /\ UNCHANGED <<vars, url, errored, playing, count, target>>

\* let _ = stop().await: of whatever session is active by now.
StopStalled ==
    /\ TaskAt("stop")
    /\ IF active # None THEN StopBegin(Task) ELSE UNCHANGED vars
    /\ task' = "recast"
    /\ UNCHANGED <<url, errored, playing, count, target, cast>>

\* After half a second load(url).await, which is refused while another session
\* is active.
Recast ==
    /\ TaskAt("recast")
    /\ \/ cast # None /\ LoadUrl(Task, cast)
       \/ /\ cast = None \/ active # None
          /\ UNCHANGED <<vars, url, errored, playing>>
    /\ task' = "tick"
    /\ count' = 0
    /\ cast' = None
    /\ target' = None

TaskStep ==
    Tick \/ CheckActive \/ CheckStalled \/ ReadId \/ ReadUrl
         \/ StopStalled \/ Recast

-----------------------------------------------------------------------------
StallNext ==
    \/ \E c \in Users : UserBegins(c)
    \/ \E c \in Clients : CommandStep(c)
    \/ TaskStep \/ DownloadDies \/ PlayingChanges

\* The interval ticks for ever, and every command keeps taking steps.
StallSpec ==
    /\ StallInit /\ [][StallNext]_stallVars
    /\ WF_stallVars(TaskStep)
    /\ \A c \in Clients : WF_stallVars(CommandStep(c))

-----------------------------------------------------------------------------
\* The types; stall_count never passes the third strike.
StallTypeOK ==
    /\ TypeOK
    /\ url \in [Sessions -> Urls \cup {None}]
    /\ {errored, playing} \subseteq BOOLEAN
    /\ task \in {"tick", "active", "stalled", "read_id", "read_url", "stop",
                 "recast"}
    /\ count \in 0 .. Strikes
    /\ target \in Sessions \cup {None}
    /\ cast \in Urls \cup {None}

\* "If we only check stall inside is_playing(), we never detect the stall and
\* the user sees a frozen screen forever": no session stays active for ever
\* with a dead download while nothing plays, whatever the users do beside it,
\* as long as they do not keep the engine busy for ever.
StallEnds ==
    <>[]~EngineBusy =>
        \A s \in Sessions : ~<>[](active = s /\ errored /\ ~playing)
=============================================================================
