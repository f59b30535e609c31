--------------------------- MODULE SessionManager ---------------------------
(***************************************************************************)
(* The session manager of src/session/src/lib.rs: the one slot for the     *)
(* active session, the SQLite table of sessions, and the commands that     *)
(* protocol handlers run against them concurrently.                        *)
(*                                                                         *)
(* Every command is an async function that the handlers call from tasks of *)
(* a multi-threaded runtime.  The slot and the database have a mutex each  *)
(* and neither is held across another lock or an await, so each critical   *)
(* section and each awaited subsystem call is one action, and commands     *)
(* interleave between them.  A command that its first check rejects        *)
(* changes nothing and is not an action.                                   *)
(*                                                                         *)
(* A session's row is reduced to its state and to whether the resolver's   *)
(* answer has been written to it.  The resolver, the playback engine and   *)
(* the display are their traits of src/session/src/interfaces.rs: a call   *)
(* returns or fails, whichever it likes.                                   *)
(***************************************************************************)
EXTENDS Naturals, PlayerState

CONSTANTS
    Clients,      \* tasks that run commands, one at a time each
    HttpClients,  \* those hyper drops when their connection closes
    Sessions,     \* the UUIDs that load may draw; finite only to bound TLC
    MaxRetries,   \* load's max_retries
    None

ASSUME ConstantsAssumption ==
    /\ HttpClients \subseteq Clients
    /\ MaxRetries \in Nat
    /\ None \notin Sessions
    /\ None \notin PlayerStates

VARIABLES
    \* SessionManager
    active,    \* active_session_id
    used,      \* the UUIDs drawn so far
    db,        \* the sessions table
    watch,     \* the value of the watch channel, seen by its subscribers
    \* the subsystems behind the traits
    pipeline,  \* the session whose pipeline the playback engine holds
    paused,    \* whether that pipeline is paused
    display,   \* whether the display is acquired
    \* the command each client is executing
    pc,        \* its next step
    sid,       \* the session it works on
    attempt,   \* load's attempt counter
    seen       \* the row's state as the command last loaded it

slotVars   == <<active, used>>
engineVars == <<pipeline, paused>>
clientVars == <<pc, sid, attempt, seen>>
vars == <<slotVars, db, watch, engineVars, display, clientVars>>

LoadSteps ==
    {"insert", "begin_resolve", "resolve", "store", "acquire", "begin_buffer",
     "play", "starting", "reresolve", "mark_playing", "fail_mark", "fail_clear"}
StopSteps ==
    {"stop_load", "stop_engine", "stop_display", "stop_mark", "stop_clear",
     "stop_delete", "stop_publish"}
SeekSteps == {"seek_load", "begin_seek", "seek_engine", "seek_done"}
OtherSteps ==
    {"pause_engine", "mark_paused", "resume_engine", "volume_store",
     "volume_engine", "poll"}
PublishSteps ==
    {"refresh", "refresh_read", "refresh_send", "final_read", "final_send"}
Steps ==
    {"idle"} \cup LoadSteps \cup StopSteps \cup SeekSteps \cup OtherSteps
             \cup PublishSteps

\* The steps at which a command is suspended in a subsystem call that an HTTP
\* handler awaits inside its connection (load runs in a task of its own).
AwaitSteps ==
    {"pause_engine", "resume_engine", "seek_engine", "stop_engine",
     "stop_display", "volume_engine", "refresh"}

NoRow == [state |-> Absent, resolved |-> FALSE]
Row == [state : PlayerStates \cup {Absent}, resolved : BOOLEAN]
Stored(s) == db[s].state # Absent

Snapshot == [id : Sessions, state : PlayerStates]

Init ==
    /\ active = None
    /\ used = {}
    /\ db = [s \in Sessions |-> NoRow]
    /\ watch = None
    /\ pipeline = None
    /\ paused = FALSE
    /\ display = FALSE
    /\ pc = [c \in Clients |-> "idle"]
    /\ sid = [c \in Clients |-> None]
    /\ attempt = [c \in Clients |-> 0]
    /\ seen = [c \in Clients |-> None]

-----------------------------------------------------------------------------
(***************************************************************************)
(* Control flow of a command.                                              *)
(***************************************************************************)
Goto(c, step) ==
    /\ pc' = [pc EXCEPT ![c] = step]
    /\ UNCHANGED <<sid, attempt, seen>>

Return(c) ==
    /\ pc' = [pc EXCEPT ![c] = "idle"]
    /\ sid' = [sid EXCEPT ![c] = None]
    /\ attempt' = [attempt EXCEPT ![c] = 0]
    /\ seen' = [seen EXCEPT ![c] = None]

\* A command that starts by reading the active session's id.
Enter(c, step) ==
    /\ pc[c] = "idle"
    /\ active # None
    /\ pc' = [pc EXCEPT ![c] = step]
    /\ sid' = [sid EXCEPT ![c] = active]
    /\ UNCHANGED <<attempt, seen, slotVars, db, watch, engineVars, display>>

\* load_session: the row as it is now.
SeeRow(c, step) ==
    /\ Stored(sid[c])
    /\ seen' = [seen EXCEPT ![c] = db[sid[c]].state]
    /\ pc' = [pc EXCEPT ![c] = step]
    /\ UNCHANGED <<sid, attempt>>

SetState(s, target) == db' = [db EXCEPT ![s].state = target]

\* try_transition(id, target)?
TryTransition(c, target, step) ==
    \/ /\ CanTransition(db[sid[c]].state, target)
       /\ SetState(sid[c], target)
       /\ Goto(c, step)
    \/ /\ ~CanTransition(db[sid[c]].state, target)
       /\ UNCHANGED db
       /\ Return(c)

\* let _ = try_transition(id, target)
AttemptTransition(c, target) ==
    IF CanTransition(db[sid[c]].state, target)
    THEN SetState(sid[c], target)
    ELSE UNCHANGED db

\* UPDATE sessions SET resolved_url = ... WHERE id = ...: no row, no effect.
UpdateResolved_upsert(s) == db' = [db EXCEPT ![s] =
    [state |-> IF Stored(s) THEN db[s].state ELSE "Idle", resolved |-> TRUE]]
UpdateResolved(s) ==
    IF Stored(s) THEN db' = [db EXCEPT ![s].resolved = TRUE] ELSE UNCHANGED db

-----------------------------------------------------------------------------
(***************************************************************************)
(* load                                                                    *)
(***************************************************************************)
\* The check that no session is active and the reservation of the slot.
LoadReserve(c) ==
    /\ pc[c] = "idle"
    /\ active = None
    /\ \E s \in Sessions \ used :
        /\ active' = s
        /\ used' = used \cup {s}
        /\ sid' = [sid EXCEPT ![c] = s]
    /\ pc' = [pc EXCEPT ![c] = "insert"]
    /\ UNCHANGED <<attempt, seen, db, watch, engineVars, display>>

\* insert_session; when the INSERT fails the slot is cleared, whoever has it.
InsertRow(c) ==
    /\ pc[c] = "insert"
    /\ \/ /\ db' = [db EXCEPT
                        ![sid[c]] = [state |-> "Idle", resolved |-> FALSE]]
          /\ Goto(c, "begin_resolve")
          /\ UNCHANGED active
       \/ /\ active' = None
          /\ Return(c)
          /\ UNCHANGED db
    /\ UNCHANGED <<used, watch, engineVars, display>>

BeginResolve(c) ==
    /\ pc[c] = "begin_resolve"
    /\ TryTransition(c, "Resolving", "resolve")
    /\ UNCHANGED <<slotVars, watch, engineVars, display>>

\* resolver.resolve(url).await
Resolve(c) ==
    /\ pc[c] = "resolve"
    /\ \/ Goto(c, "store")
       \/ Goto(c, "fail_mark")
    /\ UNCHANGED <<slotVars, db, watch, engineVars, display>>

StoreResolved_late(c) ==
    /\ pc[c] = "store"
    /\ Goto(c, "acquire")
    /\ UNCHANGED <<db, slotVars, watch, engineVars, display>>

\* The UPDATE of the resolved URL, title and duration.
StoreResolved(c) ==
    /\ pc[c] = "store"
    /\ UpdateResolved(sid[c])
    /\ Goto(c, "acquire")
    /\ UNCHANGED <<slotVars, watch, engineVars, display>>

\* The pause of 300 ms and display.acquire().await
AcquireDisplay(c) ==
    /\ pc[c] = "acquire"
    /\ \/ /\ display' = TRUE
          /\ Goto(c, "begin_buffer")
       \/ /\ Goto(c, "fail_mark")
          /\ UNCHANGED display
    /\ UNCHANGED <<slotVars, db, watch, engineVars>>

BeginBuffer(c) ==
    /\ pc[c] = "begin_buffer"
    /\ TryTransition(c, "Buffering", "play")
    /\ UNCHANGED <<slotVars, watch, engineVars, display>>

\* playback.play(..) starts: the engine drops the pipeline it has.
PlayBegin(c) ==
    /\ pc[c] = "play"
    /\ attempt' = [attempt EXCEPT ![c] = @ + 1]
    /\ pc' = [pc EXCEPT ![c] = "starting"]
    /\ pipeline' = None
    /\ paused' = FALSE
    /\ UNCHANGED <<sid, seen, slotVars, db, watch, display>>

\* A pipeline that fails makes way for a fallback (without audio, in software),
\* which first drops the one that is stored, whosever that is by now.
FallBack(c) ==
    /\ pc[c] = "starting"
    /\ pipeline' = None
    /\ paused' = FALSE
    /\ UNCHANGED <<clientVars, slotVars, db, watch, display>>

\* playback.play(..) returns, having stored the pipeline it built.
PlayOk(c) ==
    /\ pc[c] = "starting"
    /\ pipeline' = sid[c]
    /\ paused' = FALSE
    /\ Goto(c, "mark_playing")
    /\ UNCHANGED <<slotVars, db, watch, display>>

PlayRetryable_late(c) ==
    /\ pc[c] = "starting"
    /\ attempt[c] <= MaxRetries + 1
    /\ Goto(c, "reresolve")
    /\ UNCHANGED <<slotVars, db, watch, engineVars, display>>

PlayRetryable_unbounded(c) ==
    /\ pc[c] = "starting"
    /\ pc' = [pc EXCEPT ![c] = "reresolve"]
    /\ attempt' = [attempt EXCEPT ![c] = 0]
    /\ UNCHANGED <<sid, seen, slotVars, db, watch, engineVars, display>>

\* It fails with an error that re-resolving may cure, and retries are left.
PlayRetryable(c) ==
    /\ pc[c] = "starting"
    /\ attempt[c] <= MaxRetries
    /\ Goto(c, "reresolve")
    /\ UNCHANGED <<slotVars, db, watch, engineVars, display>>

\* It fails with any other error, or retries are exhausted.
PlayFailed(c) ==
    /\ pc[c] = "starting"
    /\ Goto(c, "fail_mark")
    /\ UNCHANGED <<slotVars, db, watch, engineVars, display>>

\* invalidate_cache and re_resolve.
ReResolve(c) ==
    /\ pc[c] = "reresolve"
    /\ \/ UpdateResolved(sid[c]) /\ Goto(c, "play")
       \/ UNCHANGED db /\ Goto(c, "fail_mark")
    /\ UNCHANGED <<slotVars, watch, engineVars, display>>

\* The transition to Playing that ends load and resume.
MarkPlaying(c) ==
    /\ pc[c] = "mark_playing"
    /\ TryTransition(c, "Playing", "refresh")
    /\ UNCHANGED <<slotVars, watch, engineVars, display>>

\* The two steps of load's error paths.
MarkFailed(c) ==
    /\ pc[c] = "fail_mark"
    /\ AttemptTransition(c, "Error")
    /\ Goto(c, "fail_clear")
    /\ UNCHANGED <<slotVars, watch, engineVars, display>>

ClearFailed_skip(c) ==
    /\ pc[c] = "fail_clear"
    /\ Return(c)
    /\ UNCHANGED <<slotVars, db, watch, engineVars, display>>

\* clear_active_session: the slot is cleared without a look at its owner.
ClearFailed(c) ==
    /\ pc[c] = "fail_clear"
    /\ active' = None
    /\ Return(c)
    /\ UNCHANGED <<used, db, watch, engineVars, display>>

-----------------------------------------------------------------------------
(***************************************************************************)
(* pause, resume                                                           *)
(***************************************************************************)
PauseBegin(c) == Enter(c, "pause_engine")

\* playback.pause().await
PauseEngine(c) ==
    /\ pc[c] = "pause_engine"
    /\ \/ /\ pipeline # None
          /\ paused' = TRUE
          /\ Goto(c, "mark_paused")
       \/ /\ UNCHANGED paused
          /\ Return(c)
    /\ UNCHANGED <<slotVars, db, watch, pipeline, display>>

\* The transition to Paused that ends pause, and a seek made while paused.
MarkPaused(c) ==
    /\ pc[c] = "mark_paused"
    /\ TryTransition(c, "Paused", "refresh")
    /\ UNCHANGED <<slotVars, watch, engineVars, display>>

ResumeBegin(c) == Enter(c, "resume_engine")

\* playback.resume().await: an error once the pipeline was told to play.  One
\* that prerolled and was started by its bus watch still counts as Paused, so a
\* resume without a pause may succeed.
ResumeEngine(c) ==
    /\ pc[c] = "resume_engine"
    /\ \/ /\ pipeline # None
          /\ paused' = FALSE
          /\ Goto(c, "mark_playing")
       \/ /\ UNCHANGED paused
          /\ Return(c)
    /\ UNCHANGED <<slotVars, db, watch, pipeline, display>>

-----------------------------------------------------------------------------
(***************************************************************************)
(* stop                                                                    *)
(***************************************************************************)
StopBegin(c) == Enter(c, "stop_load")

StopLoad(c) ==
    /\ pc[c] = "stop_load"
    /\ \/ SeeRow(c, IF db[sid[c]].state \in PipelineStates
                    THEN "stop_engine" ELSE "stop_display")
       \/ ~Stored(sid[c]) /\ Return(c)
    /\ UNCHANGED <<slotVars, db, watch, engineVars, display>>

\* let _ = playback.stop().await
StopEngine(c) ==
    /\ pc[c] = "stop_engine"
    /\ pipeline' = None
    /\ paused' = FALSE
    /\ Goto(c, "stop_display")
    /\ UNCHANGED <<slotVars, db, watch, display>>

\* display.release().await, best effort
ReleaseDisplay(c) ==
    /\ pc[c] = "stop_display"
    /\ display' \in {display, FALSE}
    /\ Goto(c, "stop_mark")
    /\ UNCHANGED <<slotVars, db, watch, engineVars>>

\* The transition to Idle, unless the row was Idle when stop loaded it.
StopMark(c) ==
    /\ pc[c] = "stop_mark"
    /\ IF seen[c] = "Idle" THEN UNCHANGED db ELSE AttemptTransition(c, "Idle")
    /\ Goto(c, "stop_clear")
    /\ UNCHANGED <<slotVars, watch, engineVars, display>>

StopClear_skip(c) ==
    /\ pc[c] = "stop_clear"
    /\ Goto(c, "stop_delete")
    /\ UNCHANGED <<slotVars, db, watch, engineVars, display>>

\* The slot is cleared, whichever session has it by now.
StopClear(c) ==
    /\ pc[c] = "stop_clear"
    /\ active' = None
    /\ Goto(c, "stop_delete")
    /\ UNCHANGED <<used, db, watch, engineVars, display>>

\* delete_session
StopDelete(c) ==
    /\ pc[c] = "stop_delete"
    /\ db' = [db EXCEPT ![sid[c]] = NoRow]
    /\ Goto(c, "stop_publish")
    /\ UNCHANGED <<slotVars, watch, engineVars, display>>

StopPublish_skip(c) ==
    /\ pc[c] = "stop_publish"
    /\ Return(c)
    /\ UNCHANGED <<slotVars, db, watch, engineVars, display>>

\* broadcast_idle
StopPublish(c) ==
    /\ pc[c] = "stop_publish"
    /\ watch' = None
    /\ Return(c)
    /\ UNCHANGED <<slotVars, db, engineVars, display>>

-----------------------------------------------------------------------------
(***************************************************************************)
(* seek, set_volume                                                        *)
(***************************************************************************)
SeekBegin(c) == Enter(c, "seek_load")

SeekLoad(c) ==
    /\ pc[c] = "seek_load"
    /\ \/ SeeRow(c, "begin_seek")
       \/ ~Stored(sid[c]) /\ Return(c)
    /\ UNCHANGED <<slotVars, db, watch, engineVars, display>>

BeginSeek(c) ==
    /\ pc[c] = "begin_seek"
    /\ TryTransition(c, "Seeking", "seek_engine")
    /\ UNCHANGED <<slotVars, watch, engineVars, display>>

\* playback.seek(position_ms).await: on an error the row is left Seeking.
SeekEngine(c) ==
    /\ pc[c] = "seek_engine"
    /\ \/ pipeline # None /\ Goto(c, "seek_done")
       \/ Return(c)
    /\ UNCHANGED <<slotVars, db, watch, engineVars, display>>

SeekDone_forget(c) ==
    /\ pc[c] = "seek_done"
    /\ TryTransition(c, "Playing", "refresh")
    /\ UNCHANGED <<slotVars, watch, engineVars, display>>

\* Back to Playing, and on to Paused if that is where the seek came from.
SeekDone(c) ==
    /\ pc[c] = "seek_done"
    /\ TryTransition(c, "Playing",
                     IF seen[c] = "Paused" THEN "mark_paused" ELSE "refresh")
    /\ UNCHANGED <<slotVars, watch, engineVars, display>>

VolumeBegin(c) == Enter(c, "volume_store")

\* The UPDATE of the volume, which is not part of the reduced row.
VolumeStore(c) ==
    /\ pc[c] = "volume_store"
    /\ Goto(c, "volume_engine")
    /\ UNCHANGED <<slotVars, db, watch, engineVars, display>>

\* playback.set_volume(..).await
VolumeEngine(c) ==
    /\ pc[c] = "volume_engine"
    /\ \/ pipeline # None /\ Goto(c, "final_read")
       \/ Return(c)
    /\ UNCHANGED <<slotVars, db, watch, engineVars, display>>

-----------------------------------------------------------------------------
(***************************************************************************)
(* Publication of the row: load_session, then watch_tx.send.               *)
(***************************************************************************)
\* refresh_playback_position asks the engine, and gives up without an answer.
Refresh(c) ==
    /\ pc[c] = "refresh"
    /\ \/ pipeline # None /\ Goto(c, "refresh_read")
       \/ Goto(c, "final_read")
    /\ UNCHANGED <<slotVars, db, watch, engineVars, display>>

\* refresh_playback_position_public, called by the position task.
PollBegin(c) == Enter(c, "poll")

Poll(c) ==
    /\ pc[c] = "poll"
    /\ \/ pipeline # None /\ Goto(c, "final_read")
       \/ Return(c)
    /\ UNCHANGED <<slotVars, db, watch, engineVars, display>>

ReadSnapshot(c) ==
    /\ \/ pc[c] = "refresh_read" /\ SeeRow(c, "refresh_send")
       \/ pc[c] = "refresh_read" /\ ~Stored(sid[c]) /\ Goto(c, "final_read")
       \/ pc[c] = "final_read" /\ SeeRow(c, "final_send")
       \/ pc[c] = "final_read" /\ ~Stored(sid[c]) /\ Return(c)
    /\ UNCHANGED <<slotVars, db, watch, engineVars, display>>

\* broadcast_state_update
SendSnapshot(c) ==
    /\ \/ pc[c] = "refresh_send" /\ Goto(c, "final_read")
       \/ pc[c] = "final_send" /\ Return(c)
    /\ watch' = [id |-> sid[c], state |-> seen[c]]
    /\ UNCHANGED <<slotVars, db, engineVars, display>>

-----------------------------------------------------------------------------
(***************************************************************************)
(* The environment of a command.                                           *)
(***************************************************************************)
\* hyper drops the handler's future when its client disconnects; load, the
\* only command that counts attempts, runs on.
Cancel(c) ==
    /\ c \in HttpClients
    /\ pc[c] \in AwaitSteps
    /\ attempt[c] = 0
    /\ Return(c)
    /\ UNCHANGED <<slotVars, db, watch, engineVars, display>>

\* cleanup_stale_sessions deletes rows not updated for a day, and
\* recover_crashed_sessions resets the live rows that remain.
Recovered(stale) ==
    [s \in Sessions |->
        IF s \in stale THEN NoRow
        ELSE IF db[s].state \in LiveStates THEN [db[s] EXCEPT !.state = "Idle"]
        ELSE db[s]]

\* The process dies at any moment and SessionManager::new runs again; of the
\* state only the database file survives.
Restart ==
    /\ \E stale \in SUBSET {s \in Sessions : Stored(s)} : db' = Recovered(stale)
    /\ active' = None
    /\ watch' = None
    /\ pipeline' = None
    /\ paused' = FALSE
    /\ display' = FALSE
    /\ pc' = [c \in Clients |-> "idle"]
    /\ sid' = [c \in Clients |-> None]
    /\ attempt' = [c \in Clients |-> 0]
    /\ seen' = [c \in Clients |-> None]
    /\ UNCHANGED used

-----------------------------------------------------------------------------
Begin(c) ==
    \/ LoadReserve(c) \/ PauseBegin(c) \/ ResumeBegin(c) \/ StopBegin(c)
    \/ SeekBegin(c) \/ VolumeBegin(c) \/ PollBegin(c)

Load(c) ==
    \/ InsertRow(c) \/ BeginResolve(c) \/ Resolve(c) \/ StoreResolved(c)
    \/ AcquireDisplay(c) \/ BeginBuffer(c) \/ PlayBegin(c) \/ FallBack(c)
    \/ PlayOk(c) \/ PlayRetryable(c) \/ PlayFailed(c) \/ ReResolve(c) \/ MarkPlaying(c)
    \/ MarkFailed(c) \/ ClearFailed(c)

Stop(c) ==
    \/ StopLoad(c) \/ StopEngine(c) \/ ReleaseDisplay(c) \/ StopMark(c)
    \/ StopClear(c) \/ StopDelete(c) \/ StopPublish(c)

Other(c) ==
    \/ PauseEngine(c) \/ MarkPaused(c) \/ ResumeEngine(c) \/ SeekLoad(c)
    \/ BeginSeek(c) \/ SeekEngine(c) \/ SeekDone(c) \/ VolumeStore(c)
    \/ VolumeEngine(c) \/ Refresh(c) \/ Poll(c) \/ ReadSnapshot(c)
    \/ SendSnapshot(c)

\* A step of the command that client c is executing.
Step(c) == Load(c) \/ Stop(c) \/ Other(c)

Next == (\E c \in Clients : Begin(c) \/ Step(c) \/ Cancel(c)) \/ Restart

Spec == Init /\ [][Next]_vars

\* Tasks are scheduled and subsystem calls return, so that a command which has
\* started keeps taking steps.  Nobody has to start one.  (Resolvers, Tor and
\* child processes are given timeouts; that a CDN which has accepted the
\* connection of a preflight check answers it is assumed.)
FairSpec == Spec /\ \A c \in Clients : WF_vars(Step(c))

-----------------------------------------------------------------------------
(***************************************************************************)
(* Properties of any number of concurrent clients.                         *)
(***************************************************************************)
TypeOK ==
    /\ active \in Sessions \cup {None}
    /\ used \subseteq Sessions
    /\ db \in [Sessions -> Row]
    /\ watch \in Snapshot \cup {None}
    /\ pipeline \in Sessions \cup {None}
    /\ paused \in BOOLEAN
    /\ display \in BOOLEAN
    /\ pc \in [Clients -> Steps]
    /\ sid \in [Clients -> Sessions \cup {None}]
    /\ attempt \in [Clients -> 0 .. MaxRetries + 1]
    /\ seen \in [Clients -> PlayerStates \cup {None}]

Inserting(s) == \E c \in Clients : pc[c] = "insert" /\ sid[c] = s

\* The slot never names a session without a row, except while load is still
\* inserting it: current_status and stop of the active session find it.
ActiveHasRow == active # None => Stored(active) \/ Inserting(active)

\* However commands interleave, a session that other clients can see buffering
\* or further on has had the resolver's answer written to its row.
BufferedIsResolved ==
    \A s \in Sessions : db[s].state \in PipelineStates => db[s].resolved

\* The life of a session, as the abstract specification sees it.
Phase(s) ==
    IF s \notin used THEN "fresh"
    ELSE IF Inserting(s) THEN "reserved"
    ELSE IF Stored(s) THEN "stored"
    ELSE "gone"

Lifecycle == INSTANCE SessionLifecycle WITH
    slot <- active, phase <- [s \in Sessions |-> Phase(s)]

\* The manager implements the lifecycle: a late UPDATE or transition of a load
\* whose session was stopped never brings the session back, and stop never
\* deletes the row of the session in the slot.
LifecycleSpec == Lifecycle!Spec

\* Every command returns, whatever the other clients do: the retry loop of
\* load is bounded, and no step waits for another client.
CommandsReturn == \A c \in Clients : (pc[c] # "idle") ~> (pc[c] = "idle")

-----------------------------------------------------------------------------
(***************************************************************************)
(* Properties of one client that is not cancelled, between its commands.   *)
(***************************************************************************)
Quiescent == \A c \in Clients : pc[c] = "idle"

\* The slot, the table, the pipeline and the display agree, after any sequence
\* of commands, failures and crashes: either nothing is active, no pipeline
\* runs and no row is live, or the active session is the one that is playing.
QuiescentSession ==
    Quiescent =>
        IF active = None
        THEN /\ pipeline = None
             /\ \A s \in Sessions : db[s].state \notin LiveStates
        ELSE /\ db[active].state \in {"Playing", "Paused", "Seeking"}
             /\ \A s \in Sessions \ {active} : db[s].state \notin LiveStates
             /\ pipeline = active
             /\ display

\* The row says Playing only of a running pipeline and Paused only of a paused
\* one, also after a seek, a rejected command or a failed one.
EngineModeAgrees ==
    (Quiescent /\ active # None) =>
        /\ db[active].state = "Playing" => ~paused
        /\ db[active].state = "Paused" => paused

\* Subscribers of the watch channel see the active session in its state, and
\* nothing when no session is active.  (A failed seek is the exception.)
WatchAgrees ==
    Quiescent =>
        /\ active = None => watch = None
        /\ (active # None /\ db[active].state # "Seeking")
              => watch = [id |-> active, state |-> db[active].state]

-----------------------------------------------------------------------------
(***************************************************************************)
(* What the documentation says and the code does not do.                   *)
(***************************************************************************)
\* "Current active session ID (only one session active at a time)": at most
\* one row is live.
SingleSession ==
    \A s, t \in Sessions :
        db[s].state \in LiveStates /\ db[t].state \in LiveStates => s = t
=============================================================================
