---------------------------- MODULE PipelineWatch ----------------------------
(***************************************************************************)
(* One playback pipeline of src/playback/src/lib.rs, from play to stop: a  *)
(* GStreamer pipeline that changes state asynchronously, the bus watch     *)
(* that reacts to its messages one after the other, the user's pause and   *)
(* resume, and the task that looks at the pipeline ten seconds after play. *)
(*                                                                         *)
(* GStreamer is external.  set_state only sets a target; the pipeline gets *)
(* there later and posts a StateChanged message, and queue2 posts a        *)
(* BUFFERING message when its fill level changes.  Of the percentage the   *)
(* thresholds tell four levels apart.                                      *)
(***************************************************************************)
EXTENDS Naturals, Sequences

CONSTANTS
    Kinds,        \* the pipelines play may build: "primary" and the two
                  \* fallbacks, "audio_disabled" and "software"
    MaxBus        \* bounds the messages waiting on the bus when an element
                  \* posts one or the user acts; StateChanged always fits

ASSUME KindsAssumption ==
    /\ Kinds \subseteq {"primary", "audio_disabled", "software"}
    /\ MaxBus \in Nat \ {0}

VARIABLES
    kind,        \* which bus watch the pipeline has
    gst,         \* the state the pipeline is in
    target,      \* the state it was last told to reach
    wrapper,     \* GstPipeline.state, what pause and resume have recorded
    bus,         \* messages the watch has not seen yet
    level,       \* queue2: 0 empty, 1 below the pause threshold, 2, 3 full
    download,    \* "alive", "errored", or "forbidden": errored by a 403
    autoPlay,    \* pending_auto_play
    initial,     \* initial_buffering
    isPlaying,   \* is_playing, which the stall task of the server reads
    stall,       \* stall_start: no timer, one that runs, one that is over
    told,        \* cdn_forbidden_emitted
    diag,        \* the diagnostic task: "first", "second" look, or "done"
    userPaused,  \* the user's last wish
    failed       \* a fatal error or the end of the stream was posted

flags == <<autoPlay, initial, isPlaying, stall, told>>
vars == <<kind, gst, target, wrapper, bus, level, download, flags, diag,
          userPaused, failed>>

Levels == 0 .. 3
Messages ==
    [type : {"paused", "playing", "fatal"}] \cup
    [type : {"buffering"}, level : Levels]

\* self.state once preroll has returned; a GstPipeline is built with Null.
Prerolled == "Paused"

\* play has returned: preroll has asked for Paused.  is_playing is the
\* engine's, and the previous pipeline may have left it set.
Init ==
    /\ kind \in Kinds
    /\ gst = "Ready"
    /\ target = "Paused"
    /\ wrapper = Prerolled
    /\ bus = <<>>
    /\ level = 0
    /\ download = "alive"
    /\ autoPlay = TRUE
    /\ initial = (kind = "primary")
    /\ isPlaying \in BOOLEAN
    /\ stall = "off"
    /\ told = FALSE
    /\ diag = IF kind = "primary" THEN "first" ELSE "done"
    /\ userPaused = FALSE
    /\ failed = FALSE

-----------------------------------------------------------------------------
(***************************************************************************)
(* GStreamer and the download.                                             *)
(***************************************************************************)
Room == Len(bus) < MaxBus

\* Assumed: a playing pipeline that is told to pause has paused, within the
\* next buffer, before the watch or the user tells it to play again.
Calm == ~(gst = "Playing" /\ target = "Paused")

Post(type) == bus' = Append(bus, [type |-> type])
PostLevel(l) ==
    /\ level' = l
    /\ bus' = Append(bus, [type |-> "buffering", level |-> l])

\* The pipeline gets one state nearer to its target; preroll needs data.  The
\* watch ignores that it reached Paused on its way to Playing.
Reach ==
    /\ \/ /\ \/ gst = "Ready" /\ level > 0
             \/ gst = "Playing" /\ target = "Paused"
          /\ gst' = "Paused"
          /\ IF target = "Paused" THEN Post("paused") ELSE UNCHANGED bus
       \/ /\ gst = "Paused" /\ target = "Playing"
          /\ gst' = "Playing"
          /\ Post("playing")
    /\ UNCHANGED <<kind, target, wrapper, level, download, flags, diag,
                   userPaused, failed>>

\* Data arrives as long as the download lives.
Fill ==
    /\ Room
    /\ download = "alive"
    /\ \E l \in Levels : l > level /\ PostLevel(l)
    /\ UNCHANGED <<kind, gst, target, wrapper, download, flags, diag,
                   userPaused, failed>>

\* A playing pipeline consumes what is buffered.
Drain ==
    /\ Room
    /\ gst = "Playing"
    /\ \E l \in Levels : l < level /\ PostLevel(l)
    /\ UNCHANGED <<kind, gst, target, wrapper, download, flags, diag,
                   userPaused, failed>>

\* All attempts to reconnect have failed, or the last answer was a 403.
DownloadDies ==
    /\ download = "alive"
    /\ download' \in {"errored", "forbidden"}
    /\ UNCHANGED <<kind, gst, target, wrapper, bus, level, flags, diag,
                   userPaused, failed>>

\* An error that is not the audio sink's, or the end of the stream.
PostFatal ==
    /\ Room
    /\ ~failed
    /\ failed' = TRUE
    /\ Post("fatal")
    /\ UNCHANGED <<kind, gst, target, wrapper, level, download, flags, diag,
                   userPaused>>

TimeoutPasses ==
    /\ stall = "running"
    /\ stall' = "over"
    /\ UNCHANGED <<kind, gst, target, wrapper, bus, level, download, autoPlay,
                   initial, isPlaying, told, diag, userPaused, failed>>

-----------------------------------------------------------------------------
(***************************************************************************)
(* The bus watch.                                                          *)
(***************************************************************************)
\* The pipeline reached Playing: the start-up is over.
OnPlaying ==
    /\ autoPlay' = FALSE
    /\ initial' = FALSE
    /\ isPlaying' = TRUE
    /\ UNCHANGED <<target, stall, told>>

OnPaused_kept ==
    /\ target' = IF autoPlay /\ ~initial THEN "Playing" ELSE target
    /\ UNCHANGED <<isPlaying, autoPlay, initial, stall, told>>
OnPaused_stuck ==
    /\ IF autoPlay
       THEN UNCHANGED <<target, isPlaying>>
       ELSE isPlaying' = FALSE /\ UNCHANGED target
    /\ UNCHANGED <<autoPlay, initial, stall, told>>

\* It reached Paused and nothing is pending: play on if this is the start-up
\* and the buffer was full already, and otherwise call it a pause.
OnPaused ==
    /\ IF autoPlay
       THEN /\ target' = IF initial THEN target ELSE "Playing"
            /\ UNCHANGED isPlaying
       ELSE /\ isPlaying' = FALSE
            /\ UNCHANGED target
    /\ UNCHANGED <<autoPlay, initial, stall, told>>

OnFatal ==
    /\ autoPlay' = FALSE
    /\ isPlaying' = FALSE
    /\ UNCHANGED <<target, initial, stall, told>>

\* The buffer is full enough: start, or resume, whoever had paused.
OnFull ==
    /\ initial' = FALSE
    /\ target' = IF gst = "Paused" THEN "Playing" ELSE target
    /\ UNCHANGED <<autoPlay, isPlaying, stall, told>>

\* The stall timer after a BUFFERING message below the pause threshold.
Started(l) ==
    IF stall = "off" /\ (download # "alive" \/ l = 0) THEN "running" ELSE stall

OnLow_alive_only(l) ==
    /\ target' = IF gst = "Playing" /\ download = "alive"
                 THEN "Paused" ELSE target
    /\ stall' = Started(l)
    /\ UNCHANGED <<autoPlay, initial, isPlaying, told>>

\* During playback a low buffer pauses the pipeline.  A 403 is reported once,
\* and a stall when a message finds the timer over.
OnLow(l) ==
    LET alarm == download = "forbidden" /\ ~told
        stalled == Started(l) = "over"
    IN  /\ target' = IF gst = "Playing" THEN "Paused" ELSE target
        /\ told' = (told \/ alarm)
        /\ stall' = IF stalled THEN "off" ELSE Started(l)
        /\ autoPlay' = (autoPlay /\ ~alarm /\ ~stalled)
        /\ isPlaying' = (isPlaying /\ ~alarm /\ ~stalled)
        /\ UNCHANGED initial

\* Between the thresholds, or still in the initial buffering.
OnRecovering(l) ==
    /\ stall' = IF l > 0 THEN "off" ELSE stall
    /\ UNCHANGED <<target, autoPlay, initial, isPlaying, told>>

OnBuffering(l) ==
    CASE kind = "primary" /\ l = 3 -> OnFull
      [] kind = "primary" /\ l < 2 /\ ~initial -> OnLow(l)
      [] kind = "primary" /\ (l = 2 \/ (l < 2 /\ initial)) -> OnRecovering(l)
      [] kind = "audio_disabled" /\ l = 3 ->
            target' = "Playing" /\ UNCHANGED flags
      [] OTHER -> UNCHANGED <<target, flags>>

Handle ==
    /\ Calm
    /\ bus # <<>>
    /\ bus' = Tail(bus)
    /\ LET message == Head(bus)
       IN  CASE message.type = "playing" -> OnPlaying
             [] message.type = "paused" -> OnPaused
             [] message.type = "fatal" -> OnFatal
             [] message.type = "buffering" -> OnBuffering(message.level)
    /\ UNCHANGED <<kind, gst, wrapper, level, download, diag, userPaused,
                   failed>>

-----------------------------------------------------------------------------
(***************************************************************************)
(* The user and the diagnostic task.                                       *)
(***************************************************************************)
Pause ==
    /\ Room
    /\ target' = "Paused"
    /\ wrapper' = "Paused"
    /\ userPaused' = TRUE
    /\ UNCHANGED <<kind, gst, bus, level, download, flags, diag, failed>>

Resume ==
    /\ Room /\ Calm
    /\ wrapper = "Paused"
    /\ target' = "Playing"
    /\ wrapper' = "Playing"
    /\ userPaused' = FALSE
    /\ UNCHANGED <<kind, gst, bus, level, download, flags, diag, failed>>

\* Ten seconds after play: a pipeline that has not played yet is pushed on,
\* and one that has not even prerolled is looked at again two seconds later.
Diagnose ==
    /\ \/ /\ diag = "first"
          /\ IF gst # "Playing" /\ autoPlay
             THEN IF gst = "Paused"
                  THEN target' = "Playing" /\ diag' = "done"
                  ELSE target' = "Paused" /\ diag' = "second"
             ELSE UNCHANGED target /\ diag' = "done"
       \/ /\ diag = "second"
          /\ target' = IF gst = "Paused" THEN "Playing" ELSE target
          /\ diag' = "done"
    /\ UNCHANGED <<kind, gst, wrapper, bus, level, download, flags, userPaused,
                   failed>>

-----------------------------------------------------------------------------
Next ==
    \/ Reach \/ Fill \/ Drain \/ DownloadDies \/ PostFatal \/ TimeoutPasses
    \/ Handle \/ Pause \/ Resume \/ Diagnose

\* GLib dispatches every message, GStreamer reaches the state it is told to, a
\* playing pipeline consumes its buffer, and time passes.
Spec ==
    /\ Init /\ [][Next]_vars
    /\ WF_vars(Handle) /\ SF_vars(Reach)
    /\ WF_vars(Drain /\ download # "alive") /\ WF_vars(TimeoutPasses)

-----------------------------------------------------------------------------
\* The types of the variables.
TypeOK ==
    /\ kind \in Kinds
    /\ gst \in {"Ready", "Paused", "Playing"}
    /\ target \in {"Paused", "Playing"}
    /\ wrapper \in {"Paused", "Playing"}
    /\ bus \in Seq(Messages)
    /\ level \in Levels
    /\ download \in {"alive", "errored", "forbidden"}
    /\ {autoPlay, initial, isPlaying, told, userPaused, failed}
            \subseteq BOOLEAN
    /\ stall \in {"off", "running", "over"}
    /\ diag \in {"first", "second", "done"}

\* Nothing is under way: no message, and no state change.
Settled == bus = <<>> /\ gst = target

\* is_playing is what the server's stall task goes by: once the pipeline has
\* played it says whether the pipeline plays, however pauses, resumes and
\* buffering overlap with state changes that are still being reported.
IsPlayingTracks ==
    Settled /\ ~autoPlay /\ ~failed => (isPlaying <=> gst = "Playing")

\* The pipeline starts by itself whichever comes first, the preroll or the
\* full buffer, and plays on after every dip of the buffer that ends.
FullBufferPlays ==
    <>[](level = 3 /\ ~userPaused /\ ~failed) => <>[](gst = "Playing")

\* "When the pipeline stalls (buffer depletion causes GStreamer to pause),
\* is_playing() returns false": a pipeline that plays the last of a dead
\* download tells the server's stall task so.
DepletionIsNoticed ==
    (kind = "primary" /\ gst = "Playing" /\ ~autoPlay /\ download # "alive"
        /\ \E i \in DOMAIN bus : bus[i] = [type |-> "buffering", level |-> 0])
    ~> ~isPlaying
=============================================================================
