--------------------------- MODULE PlaybackEngine ---------------------------
(***************************************************************************)
(* The playback engine of src/playback/src/lib.rs, hw build, with the      *)
(* display manager beside it, as the session manager calls them: a load    *)
(* acquires the display and plays, a stop stops the engine and releases    *)
(* the display.                                                            *)
(*                                                                         *)
(* play builds up to three pipelines one after the other: the configured   *)
(* one, one without audio, and one that decodes in software.  It holds the *)
(* engine's mutex only to tear down and to store, so that a stop, or the   *)
(* play of the next session, runs in between.  What a pipeline does once   *)
(* it is stored is in PipelineWatch and StreamDownload.                    *)
(***************************************************************************)
EXTENDS DisplayManager

CONSTANTS
    Configs,      \* the configurations considered: hw_accel, audio_enabled
    Loaders,      \* the tasks that load
    Stoppers,     \* the tasks that stop
    MaxRetries    \* load's max_retries

\* A pipeline: how it was built, and for which load.
Built == [hw : BOOLEAN, audio : BOOLEAN, load : Clients]

ASSUME EngineAssumption ==
    /\ Configs \subseteq [hw : BOOLEAN, audio : BOOLEAN]
    /\ None \notin Built
    /\ Loaders \cup Stoppers \subseteq Clients
    /\ MaxRetries \in Nat

VARIABLES
    config,     \* the configuration
    pipe,       \* the pipelines that exist, or None
    slot,       \* gst_pipeline
    lock,       \* the task that holds its mutex across a step
    local,      \* the pipeline a play has built and not stored
    mode,       \* what a play tries now: "primary", "no_audio", "software"
    attempt,    \* load's attempt, 0 outside
    target,     \* the session that a stop has found active
    session,    \* active_session_id; a load's id is named like its task
    row         \* the sessions table

engineVars == <<pipe, slot, lock, local>>
sessionVars == <<session, row>>
callVars == <<mode, attempt, target>>
vars == <<pc, displayVars, renderer, master, config, engineVars, callVars,
          sessionVars>>

Modes == {"primary", "no_audio", "software"}
Stoppable == {"Buffering", "Playing"}

Init ==
    /\ DisplayInit
    /\ pc = [c \in Clients |-> "idle"]
    /\ config \in Configs
    /\ pipe = [p \in Pipes |-> None]
    /\ slot = None /\ lock = None
    /\ local = [c \in Clients |-> None]
    /\ mode = [c \in Clients |-> "primary"]
    /\ attempt = [c \in Clients |-> 0]
    /\ target = [c \in Clients |-> None]
    /\ session = None
    /\ row = [c \in Clients |-> "absent"]

-----------------------------------------------------------------------------
(***************************************************************************)
(* The life of a pipeline.                                                 *)
(***************************************************************************)
\* stop, and the Drop of those whose stop has failed or was not called: state
\* Null closes the DRM device.
DropPipes(ps) ==
    /\ pipe' = [p \in Pipes |-> IF p \in ps THEN None ELSE pipe[p]]
    /\ master' = IF master \in ps THEN None ELSE master

\* How GstPipeline::new is told to build the pipeline.
Configured(c) ==
    [hw    |-> config.hw /\ mode[c] # "software",
     audio |-> config.audio /\ mode[c] # "no_audio",
     load  |-> c]

-----------------------------------------------------------------------------
(***************************************************************************)
(* load, up to play                                                        *)
(***************************************************************************)
\* Assumed: the id of a session is not drawn again while a stop means the old
\* one; ids are UUIDs.
LoadBegin(c) ==
    /\ c \in Loaders /\ pc[c] = "idle"
    /\ session = None
    /\ \A d \in Clients : target[d] # c
    /\ session' = c
    /\ row' = [row EXCEPT ![c] = "Resolving"]
    /\ attempt' = [attempt EXCEPT ![c] = 1]
    /\ Goto(c, "acquire")
    /\ UNCHANGED <<displayVars, renderer, master, config, engineVars, mode,
                   target>>

\* The call returns: its local variables are gone.
Return(c) ==
    /\ Goto(c, "idle")
    /\ mode' = [mode EXCEPT ![c] = "primary"]
    /\ attempt' = [attempt EXCEPT ![c] = 0]
    /\ UNCHANGED target

\* A session that was stopped meanwhile ends the load.
BeginBuffer(c) ==
    /\ pc[c] = "acquired"
    /\ \/ /\ row[c] = "Resolving"
          /\ row' = [row EXCEPT ![c] = "Buffering"]
          /\ Goto(c, "play")
          /\ UNCHANGED callVars
       \/ /\ row[c] # "Resolving"
          /\ Return(c)
          /\ UNCHANGED row
    /\ UNCHANGED <<displayVars, renderer, master, config, engineVars, session>>

\* The slot is cleared whoever's it is; the row stays behind as an error that
\* nobody looks at, which is taken for no row.
LoadFails(c) ==
    /\ pc[c] \in {"acquire_failed", "play_failed"}
    /\ session' = None
    /\ row' = [row EXCEPT ![c] = "absent"]
    /\ Return(c)
    /\ UNCHANGED <<displayVars, renderer, master, config, engineVars>>

\* A 403 or a Tor exit that the URL is not bound to: the URL is resolved and
\* played again.
Retry(c) ==
    /\ pc[c] = "play_failed"
    /\ attempt[c] <= MaxRetries
    /\ attempt' = [attempt EXCEPT ![c] = @ + 1]
    /\ mode' = [mode EXCEPT ![c] = "primary"]
    /\ Goto(c, "play")
    /\ UNCHANGED <<displayVars, renderer, master, config, engineVars, target,
                   sessionVars>>

\* The session may be gone, and the pipeline plays all the same.
MarkPlaying(c) ==
    /\ pc[c] = "played"
    /\ row' = IF row[c] = "Buffering" THEN [row EXCEPT ![c] = "Playing"] ELSE row
    /\ Return(c)
    /\ UNCHANGED <<displayVars, renderer, master, config, engineVars, session>>

-----------------------------------------------------------------------------
(***************************************************************************)
(* play                                                                    *)
(***************************************************************************)
StopExisting_late(c) ==
    /\ pc[c] = "play" /\ lock = None
    /\ Goto(c, IF mode[c] = "primary" THEN "check_exit" ELSE "build")
    /\ UNCHANGED <<displayVars, renderer, master, config, engineVars,
                   callVars, sessionVars>>

\* play and both fallbacks first stop the pipeline that is stored.
StopExisting(c) ==
    /\ pc[c] = "play" /\ lock = None
    /\ DropPipes({slot})
    /\ slot' = None
    /\ Goto(c, IF mode[c] = "primary" THEN "check_exit" ELSE "build")
    /\ UNCHANGED <<displayVars, renderer, config, lock, local,
                   callVars, sessionVars>>

\* What an echo service says of Tor's exit: the one that the URL is bound to,
\* another, or nothing: no circuit, no answer in time, or none that has a body.
check_exit_ip == {"bound", "other", None}

\* Where the exit is known, it must be the one the URL is bound to, if it is
\* bound; a direct download is not checked.  The flag that tells the status page
\* of a software fallback is left out.
CheckExit(c) ==
    /\ pc[c] = "check_exit"
    /\ \E exit_ip \in check_exit_ip :
          Goto(c, IF exit_ip = "other" THEN "play_failed" ELSE "build")
    /\ UNCHANGED <<displayVars, renderer, master, config, engineVars, callVars,
                   sessionVars>>

\* What play tries after a failure, "none" after the last.  Only the primary
\* pipeline's failure is looked at.
NextMode(m, negotiation) ==
    IF m = "primary" /\ config.audio /\ ~(config.hw /\ negotiation)
    THEN "no_audio"
    ELSE IF m # "software" /\ config.hw THEN "software" ELSE "none"

FallBack(c, negotiation) ==
    LET m == NextMode(mode[c], negotiation)
    IN  /\ IF m = "none"
           THEN Goto(c, "play_failed") /\ UNCHANGED mode
           ELSE Goto(c, "play") /\ mode' = [mode EXCEPT ![c] = m]
        /\ UNCHANGED <<attempt, target>>

Failed(c) ==
    IF mode[c] = "primary"
    THEN Goto(c, "play_failed") /\ UNCHANGED callVars
    ELSE FallBack(c, FALSE)

\* GstPipeline::new starts with the source of the stream.  A loopback URL,
\* which GStreamer reads by itself, is left out.
StartSource(c) ==
    /\ pc[c] = "build"
    /\ \E p \in Pipes : pipe[p] = None
    /\ LET p == CHOOSE p \in Pipes : pipe[p] = None
       IN  /\ pipe' = [pipe EXCEPT ![p] = Configured(c)]
           /\ local' = [local EXCEPT ![c] = p]
    /\ Goto(c, "preflight")
    /\ UNCHANGED <<displayVars, renderer, master, config, slot, lock, callVars,
                   sessionVars>>

\* The CDN answers the preflight, if it ever does, and the download is started.
Preflight(c) ==
    /\ pc[c] = "preflight"
    /\ Goto(c, "elements")
    /\ UNCHANGED <<displayVars, renderer, master, config, engineVars, callVars,
                   sessionVars>>

\* The elements can be made and linked, from appsrc to both sinks.
Elements(c) ==
    /\ pc[c] = "elements"
    /\ Goto(c, "preroll")
    /\ UNCHANGED <<displayVars, renderer, master, config, engineVars, callVars,
                   sessionVars>>

\* The source does not start, the CDN refuses, or an element is missing: what
\* there is of the pipeline is dropped, and its download with it.  Of the
\* primary pipeline that ends play, of a fallback it is a failure like others.
BuildFails(c) ==
    /\ pc[c] \in {"build", "preflight", "elements"}
    /\ DropPipes({local[c]})
    /\ local' = [local EXCEPT ![c] = None]
    /\ Failed(c)
    /\ UNCHANGED <<displayVars, renderer, config, slot, lock, sessionVars>>

\* set_state(Paused) makes kmssink open the device.
Preroll(c) ==
    /\ pc[c] = "preroll"
    /\ master' = Opened(master, local[c])
    /\ Goto(c, "store") \/ Goto(c, "stop_failed") \/ Goto(c, "not_negotiated")
    /\ UNCHANGED <<displayVars, renderer, config, engineVars, callVars,
                   sessionVars>>

Store_leak(c) ==
    /\ pc[c] = "store" /\ lock = None
    /\ slot' = local[c]
    /\ local' = [local EXCEPT ![c] = None]
    /\ Goto(c, "played")
    /\ UNCHANGED <<pipe, master, displayVars, renderer, config, lock,
                   callVars, sessionVars>>

\* Storing a pipeline drops the one that another play has stored since.
Store(c) ==
    /\ pc[c] = "store" /\ lock = None
    /\ DropPipes({slot})
    /\ slot' = local[c]
    /\ local' = [local EXCEPT ![c] = None]
    /\ Goto(c, "played")
    /\ UNCHANGED <<displayVars, renderer, config, lock, callVars,
                   sessionVars>>

\* A failed pipeline is stopped under the lock.
StopFailed(c) ==
    /\ pc[c] \in {"stop_failed", "not_negotiated"}
    /\ mode[c] # "software" /\ lock = None
    /\ DropPipes({local[c]})
    /\ local' = [local EXCEPT ![c] = None]
    /\ lock' = c
    /\ Goto(c, IF pc[c] = "stop_failed" THEN "unlock" ELSE "unlock_negotiation")
    /\ UNCHANGED <<displayVars, renderer, config, slot, callVars,
                   sessionVars>>

Unlock_kept(c) ==
    /\ pc[c] \in {"unlock", "unlock_negotiation"}
    /\ FallBack(c, pc[c] = "unlock_negotiation")
    /\ UNCHANGED <<displayVars, renderer, master, config, engineVars,
                   sessionVars>>

\* The guard is dropped before a fallback takes the lock in its turn.
Unlock(c) ==
    /\ pc[c] \in {"unlock", "unlock_negotiation"}
    /\ lock' = None
    /\ FallBack(c, pc[c] = "unlock_negotiation")
    /\ UNCHANGED <<displayVars, renderer, master, config, pipe, slot, local,
                   sessionVars>>

\* The software pipeline is dropped where preroll's error is returned.
DropFailed(c) ==
    /\ pc[c] \in {"stop_failed", "not_negotiated"}
    /\ mode[c] = "software"
    /\ DropPipes({local[c]})
    /\ local' = [local EXCEPT ![c] = None]
    /\ FallBack(c, FALSE)
    /\ UNCHANGED <<displayVars, renderer, config, slot, lock,
                   sessionVars>>

-----------------------------------------------------------------------------
(***************************************************************************)
(* stop                                                                    *)
(***************************************************************************)
StopBegin(c) ==
    /\ c \in Stoppers /\ pc[c] = "idle"
    /\ session # None /\ row[session] # "absent"
    /\ target' = [target EXCEPT ![c] = session]
    /\ Goto(c, IF row[session] \in Stoppable THEN "stop_engine" ELSE "release")
    /\ UNCHANGED <<displayVars, renderer, master, config, engineVars, mode,
                   attempt, sessionVars>>

StopEngine(c) ==
    /\ pc[c] = "stop_engine" /\ lock = None
    /\ DropPipes({slot})
    /\ slot' = None
    /\ Goto(c, "release")
    /\ UNCHANGED <<displayVars, renderer, config, lock, local,
                   callVars, sessionVars>>

\* The pipeline refuses the state Null and stays stored; stop goes on.
StopEngineFails(c) ==
    /\ pc[c] = "stop_engine" /\ lock = None
    /\ slot # None
    /\ Goto(c, "release")
    /\ UNCHANGED <<displayVars, renderer, master, config, engineVars, callVars,
                   sessionVars>>

StopClear(c) ==
    /\ pc[c] = "released"
    /\ session' = None
    /\ row' = [row EXCEPT ![target[c]] = "absent"]
    /\ target' = [target EXCEPT ![c] = None]
    /\ Goto(c, "idle")
    /\ UNCHANGED <<displayVars, renderer, master, config, engineVars, mode,
                   attempt>>

-----------------------------------------------------------------------------
Display(c) ==
    /\ Acquire(c) \/ ReleaseDisplay(c)
    /\ UNCHANGED <<renderer, config, engineVars, callVars, sessionVars>>

\* The renderer is started once a session has ended, and stopped some time
\* after the next one has begun.
Renderer ==
    /\ \/ session = None /\ RendererStarts
       \/ session # None /\ RendererStops
    /\ UNCHANGED <<pc, displayVars, config, engineVars, callVars, sessionVars>>

Load(c) ==
    \/ BeginBuffer(c) \/ LoadFails(c) \/ Retry(c) \/ MarkPlaying(c)
    \/ StopExisting(c) \/ CheckExit(c) \/ StartSource(c) \/ Preflight(c)
    \/ Elements(c) \/ BuildFails(c) \/ Preroll(c) \/ Store(c)
    \/ StopFailed(c) \/ Unlock(c) \/ DropFailed(c)

Stop(c) == StopEngine(c) \/ StopEngineFails(c) \/ StopClear(c)

Proceed(c) == Load(c) \/ Stop(c) \/ Display(c)

Next ==
    \/ \E c \in Clients : LoadBegin(c) \/ StopBegin(c) \/ Proceed(c)
    \/ Renderer

Spec == Init /\ [][Next]_vars

\* The runtime polls a task whose timer has fired; tokio's mutexes queue those
\* that wait.  Nothing is assumed of the CDN: the preflight has no timeout, so
\* that neither its answer nor its refusal need ever come.
FairSpec ==
    Spec /\ \A c \in Clients : SF_vars(pc[c] # "preflight" /\ Proceed(c))

-----------------------------------------------------------------------------
(***************************************************************************)
(* Properties.                                                             *)
(***************************************************************************)
\* The variables have their types, the lock is held by a task that is about
\* to drop it, and the display's by one that is inside acquire.
PlaybackTypeOK ==
    /\ {opened, crtc, saved, gbm, renderer} \subseteq BOOLEAN
    /\ master \in Holders
    /\ pipe \in [Pipes -> Built \cup {None}]
    /\ slot \in Pipes \cup {None}
    /\ local \in [Clients -> Pipes \cup {None}]
    /\ mode \in [Clients -> Modes]
    /\ attempt \in [Clients -> 0 .. MaxRetries + 1]
    /\ lock # None => pc[lock] \in {"unlock", "unlock_negotiation"}
    /\ busy # None => pc[busy] \in {"set_master", "enumerate"}

\* Every pipeline that exists, with its download, its bus watch and its hold
\* on the DRM device, can be stopped: it is the stored one or a running play
\* still has it.  And who is DRM master exists.
NoOrphanPipeline ==
    /\ \A p \in Pipes :
        pipe[p] # None => p = slot \/ \E c \in Clients : local[c] = p
    /\ master \in Pipes => pipe[master] # None

\* The claim of acquire and of play: when kmssink opens the device there is
\* no other DRM master, unless another task acts or has acted on the session
\* since, or the renderer is still there.
SinkBecomesMaster ==
    \A c \in Clients :
        /\ pc[c] = "preroll"
        /\ row[c] = "Buffering" /\ session = c
        /\ \A d \in Clients \ {c} : pc[d] = "idle"
        /\ slot = None /\ ~renderer
        => master = None

\* The tasks that are inside play: one that falls back is still there.
InPlay ==
    {"check_exit", "build", "preflight", "elements", "preroll", "store",
     "stop_failed", "not_negotiated", "unlock", "unlock_negotiation"}
Plays(step, m) == step \in InPlay \/ (step = "play" /\ m # "primary")
Playing == {c \in Clients : Plays(pc[c], mode[c])}

Engine == INSTANCE EngineSlot WITH
    Sessions <- Clients,
    held <- IF slot = None THEN None ELSE pipe[slot].load,
    playing <- Playing

\* The engine keeps its promise to the session manager, through every failure
\* and fallback and however stops and other plays come in between: what it holds
\* is the pipeline of the last play that has succeeded, or nothing.
EngineSpec == Engine!Spec

\* Every load and every stop returns, through all fallbacks and retries, but for
\* a load whose own preflight the CDN leaves unanswered.  Such a load keeps
\* nobody else waiting: it holds no lock, and others stop and play beside it.
CallsReturn ==
    \A c \in Clients : []<>(pc[c] = "idle") \/ <>[](pc[c] = "preflight")
=============================================================================
