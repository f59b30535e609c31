--------------------------- MODULE StreamDownload ---------------------------
(***************************************************************************)
(* How the data of a stream gets into a pipeline: the download task of     *)
(* src/playback/src/stream_source.rs, which reconnects when the CDN hangs  *)
(* up, a bounded channel, and the push thread of pipeline.rs that feeds    *)
(* GStreamer's appsrc.                                                     *)
(*                                                                         *)
(* The file is a row of chunks 1 .. Size.  As an MP4 it is downloaded with *)
(* one request, resumed with a Range header; as an HLS stream it is a      *)
(* sequence of segments with a request each.  A body that is not the       *)
(* file's, such as an error page, is chunk 0.  Before the download a       *)
(* preflight asks the CDN for the first byte, or for the playlists.        *)
(***************************************************************************)
EXTENDS Naturals, Sequences

CONSTANTS
    Modes,           \* the download modes considered, "mp4" and "hls"
    Ends,            \* the last chunk of each HLS segment
    Capacity,        \* CHANNEL_CAPACITY
    MaxReconnects,   \* MAX_CDN_RECONNECT_ATTEMPTS
    Unknown          \* the length of a body that does not tell

Size == Ends[Len(Ends)]

ASSUME StreamAssumption ==
    /\ Modes \subseteq {"mp4", "hls"}
    /\ Ends \in Seq(Nat \ {0}) /\ Ends # <<>>
    /\ \A i, j \in 1 .. Len(Ends) : i < j => Ends[i] < Ends[j]
    /\ Capacity \in Nat \ {0}
    /\ MaxReconnects \in Nat \ {0}
    /\ Unknown \notin 0 .. Size

VARIABLES
    mode,       \* DownloadMode
    honest,     \* whether the CDN heeds the Range header and has the file
    \* the download task
    step,       \* "preflight", "request", "body", "send" of a chunk, "done",
                \* or "dropped": there is no one to send to
    next,       \* the chunk that the body yields next
    last,       \* the last chunk of the body
    offset,     \* total_offset
    attempt,    \* attempt
    part,       \* segments_downloaded
    hadError,   \* had_error
    \* ProgressState
    expected,   \* total_bytes
    errored,    \* download_errored
    forbidden,  \* cdn_forbidden
    \* the channel and the push thread
    channel,
    pusher,     \* "recv", "push", or "gone" with the source it owns
    hand,       \* the chunk it has received
    pushed,     \* what appsrc has accepted
    eos,        \* end-of-stream was emitted
    stopped     \* GstPipeline::stop: push_cancel is set and appsrc flushes

setting == <<mode, honest>>
bodyVars == <<next, last>>
counters == <<attempt, part, hadError>>
progress == <<expected, errored, forbidden>>
pushVars == <<pusher, hand, pushed, eos>>
vars == <<setting, step, bodyVars, offset, counters, progress, channel,
          pushVars, stopped>>

\* StreamSource::start.
Init ==
    /\ mode \in Modes
    /\ honest \in BOOLEAN
    /\ step = "preflight"
    /\ next = 1 /\ last = 0
    /\ offset = 0
    /\ attempt = 0 /\ part = 0 /\ hadError = FALSE
    /\ expected = Unknown
    /\ errored = FALSE /\ forbidden = FALSE
    /\ channel = <<>>
    /\ pusher = "recv" /\ hand = 0 /\ pushed = <<>> /\ eos = FALSE
    /\ stopped = FALSE

-----------------------------------------------------------------------------
(***************************************************************************)
(* The preflight.  It only looks whether the CDN answers: what it says of  *)
(* the length is overwritten by the first answer to the download.          *)
(***************************************************************************)
\* preflight_mp4: the length comes with the first byte, or with a page.  A
\* refusal, or no answer, is an error.
PreflightMp4(learnt) ==
    learnt \in {Size, Unknown} \cup IF honest THEN {} ELSE {1}

\* preflight_hls fetches the master playlist and that of its fastest variant,
\* and leaves the length unknown.
PreflightHls(learnt) == learnt = Unknown

\* fetch_playlist_text and the parsers fail, or the first byte is refused:
\* GstPipeline::new returns, and what there is of the pipeline goes with it.
PreflightFails ==
    /\ step = "preflight"
    /\ step' = "dropped"
    /\ pusher' = "gone"
    /\ UNCHANGED <<setting, bodyVars, offset, counters, progress, channel, hand,
                   pushed, eos, stopped>>

\* start_download follows without a wait, with fresh marks.
Preflight ==
    /\ step = "preflight"
    /\ IF mode = "mp4" THEN PreflightMp4(expected') ELSE PreflightHls(expected')
    /\ step' = "request"
    /\ errored' = FALSE /\ forbidden' = FALSE
    /\ UNCHANGED <<setting, bodyVars, offset, counters, channel, pushVars,
                   stopped>>

-----------------------------------------------------------------------------
(***************************************************************************)
(* The end of a download.                                                  *)
(***************************************************************************)
Complete_trusting ==
    IF mode = "mp4" THEN expected' # Unknown => offset >= expected'
    ELSE ~hadError' /\ part' = Len(Ends)

\* download_complete of the MP4 task; the test at the end of the HLS task.
Complete ==
    IF mode = "hls" THEN ~hadError' /\ part' = Len(Ends)
    ELSE IF expected' = Unknown THEN attempt' <= 1
    ELSE offset >= expected'

Finish ==
    /\ step' = "done"
    /\ errored' = ~Complete

\* The receiver is gone, or Drop has set the cancel token: return at once.
Drop == step' = "dropped" /\ UNCHANGED errored

-----------------------------------------------------------------------------
(***************************************************************************)
(* The MP4 task.                                                           *)
(***************************************************************************)
\* Another attempt, if there are bytes to resume from and attempts are left.
Reconnect ==
    IF offset > 0 /\ attempt' <= MaxReconnects
    THEN step' = "request" /\ UNCHANGED errored
    ELSE Finish

\* The first response tells the length, of whatever it carries.
Learn(length) ==
    IF attempt = 0 THEN expected' \in {length, Unknown} ELSE UNCHANGED expected

Resumed_restart == 1

\* Where the body of a request for the rest of the file starts.
Resumed == offset + 1

Answered(from, to) ==
    /\ next' = from
    /\ last' = to
    /\ step' = "body"
    /\ UNCHANGED <<errored, forbidden>>

\* The status is looked at only for a 403.  A request for what comes after the
\* end of the file is answered with a page that says so.
Mp4Request ==
    /\ mode = "mp4" /\ step = "request"
    /\ attempt' = attempt + 1
    /\ \/ Resumed <= Size /\ Learn(Size) /\ Answered(Resumed, Size)
       \/ ~honest /\ Learn(Size) /\ Answered(1, Size)
       \/ (~honest \/ Resumed > Size) /\ Learn(1) /\ Answered(0, 0)
       \/ /\ \E length \in {0, 1} : Learn(length)
          /\ Finish
          /\ forbidden' = TRUE
          /\ UNCHANGED bodyVars
       \/ /\ UNCHANGED <<bodyVars, expected, forbidden>>
          /\ Reconnect
    /\ UNCHANGED <<setting, offset, part, hadError, channel, pushVars, stopped>>

-----------------------------------------------------------------------------
(***************************************************************************)
(* The HLS task: a segment that cannot be requested ends the download, one *)
(* that breaks off is left for the next.                                   *)
(***************************************************************************)
HlsRequest ==
    /\ mode = "hls" /\ step = "request"
    /\ UNCHANGED <<setting, offset, attempt, part, expected, channel, pushVars,
                   stopped>>
    /\ \/ /\ pusher = "gone" /\ Drop
          /\ UNCHANGED <<bodyVars, hadError, forbidden>>
       \/ /\ pusher # "gone"
          /\ Answered(IF part = 0 THEN 1 ELSE Ends[part] + 1, Ends[part + 1])
          /\ UNCHANGED hadError
       \/ /\ pusher # "gone"
          /\ hadError' = TRUE
          /\ Finish
          /\ UNCHANGED <<bodyVars, forbidden>>

HlsNext ==
    /\ part' = part + 1
    /\ IF part' = Len(Ends)
       THEN Finish
       ELSE step' = "request" /\ UNCHANGED errored

-----------------------------------------------------------------------------
(***************************************************************************)
(* The body of a response.                                                 *)
(***************************************************************************)
\* A chunk has been read; the cancel token is looked at first.
Chunk ==
    /\ step = "body" /\ next <= last
    /\ \/ pusher = "gone" /\ Drop
       \/ pusher # "gone" /\ step' = "send" /\ UNCHANGED errored
    /\ UNCHANGED <<setting, bodyVars, offset, counters, expected, forbidden,
                   channel, pushVars, stopped>>

\* data_tx.send(chunk).await, which waits for room in the channel.
Send ==
    /\ step = "send"
    /\ \/ /\ pusher = "gone" /\ Drop
          /\ UNCHANGED <<bodyVars, offset, channel>>
       \/ /\ pusher # "gone"
          /\ Len(channel) < Capacity
          /\ channel' = Append(channel, next)
          /\ next' = next + 1
          /\ offset' = offset + 1
          /\ step' = "body"
          /\ UNCHANGED <<last, errored>>
    /\ UNCHANGED <<setting, counters, expected, forbidden, pushVars, stopped>>

BodyEnds ==
    /\ step = "body" /\ next > last
    /\ UNCHANGED <<setting, bodyVars, offset, attempt, hadError, expected,
                   forbidden, channel, pushVars, stopped>>
    /\ \/ mode = "mp4" /\ UNCHANGED part /\ Finish
       \/ mode = "hls" /\ HlsNext

\* The connection breaks off: before the last byte, or after it if only the
\* end of the connection ends the body.
BodyFails ==
    /\ step = "body" /\ (next <= last \/ expected = Unknown)
    /\ UNCHANGED <<setting, bodyVars, offset, attempt, expected, forbidden,
                   channel, pushVars, stopped>>
    /\ \/ pusher = "gone" /\ UNCHANGED <<part, hadError>> /\ Drop
       \/ /\ pusher # "gone" /\ mode = "mp4"
          /\ UNCHANGED <<part, hadError>>
          /\ Reconnect
       \/ /\ pusher # "gone" /\ mode = "hls"
          /\ hadError' = TRUE
          /\ HlsNext

-----------------------------------------------------------------------------
(***************************************************************************)
(* The push thread.                                                        *)
(***************************************************************************)
\* The source keeps a sender beside the download task's.
ChannelOpen == pusher # "gone" \/ step \in {"request", "body", "send"}

\* recv_chunk: None once the channel is closed and empty.
Receive ==
    /\ pusher = "recv"
    /\ IF channel # <<>>
       THEN /\ hand' = Head(channel)
            /\ channel' = Tail(channel)
            /\ pusher' = "push"
            /\ UNCHANGED eos
       ELSE /\ ~ChannelOpen
            /\ pusher' = "gone"
            /\ eos' = ~errored
            /\ UNCHANGED <<hand, channel>>
    /\ UNCHANGED <<setting, step, bodyVars, offset, counters, progress, pushed,
                   stopped>>

\* push-buffer, which blocks for as long as appsrc is full.
Push ==
    /\ pusher = "push" /\ ~stopped
    /\ pushed' = Append(pushed, hand)
    /\ hand' = 0
    /\ pusher' = "recv"
    /\ UNCHANGED <<setting, step, bodyVars, offset, counters, progress, channel,
                   eos, stopped>>

Leave_only_refused ==
    /\ pusher = "push" /\ ~stopped
    /\ pusher' = "gone"
    /\ hand' = 0
    /\ channel' = <<>>
    /\ UNCHANGED <<setting, step, bodyVars, offset, counters, progress, pushed,
                   eos, stopped>>

\* The thread ends, and drops the source and its receiver, when it finds that
\* it was cancelled or appsrc refuses the buffer: it is flushing, or an element
\* downstream has failed.
Leave ==
    /\ pusher = "push"
    /\ pusher' = "gone"
    /\ hand' = 0
    /\ channel' = <<>>
    /\ UNCHANGED <<setting, step, bodyVars, offset, counters, progress, pushed,
                   eos, stopped>>

Stop ==
    /\ ~stopped /\ step # "preflight"
    /\ stopped' = TRUE
    /\ UNCHANGED <<setting, step, bodyVars, offset, counters, progress, channel,
                   pushVars>>

-----------------------------------------------------------------------------
Download == Mp4Request \/ HlsRequest \/ Chunk \/ Send \/ BodyEnds \/ BodyFails
Next == Preflight \/ PreflightFails \/ Download \/ Receive \/ Push \/ Leave \/ Stop

\* Task and thread are scheduled.  Nothing says that the CDN ever answers or
\* goes on, for only connecting has a timeout, nor that appsrc ever has room,
\* until it flushes.
Spec ==
    /\ Init /\ [][Next]_vars
    /\ WF_vars(Send) /\ WF_vars(Receive) /\ WF_vars(stopped /\ Leave)

-----------------------------------------------------------------------------
Chunks == 0 .. Size

\* The types; no more chunks wait than the channel holds, and no more attempts
\* are made than MAX_RECONNECT_ATTEMPTS allows.
StreamTypeOK ==
    /\ mode \in Modes /\ honest \in BOOLEAN
    /\ step \in {"preflight", "request", "body", "send", "done", "dropped"}
    /\ next \in 0 .. Size + 1 /\ last \in Chunks
    /\ offset \in Nat
    /\ attempt \in 0 .. MaxReconnects + 1
    /\ part \in 0 .. Len(Ends)
    /\ expected \in Chunks \cup {Unknown}
    /\ {hadError, errored, forbidden, eos, stopped} \subseteq BOOLEAN
    /\ channel \in Seq(Chunks) /\ Len(channel) <= Capacity
    /\ pusher \in {"recv", "push", "gone"}
    /\ hand \in Chunks
    /\ pushed \in Seq(Chunks)

\* What the pipeline has got and is about to get.
Delivered ==
    pushed \o (IF pusher = "push" THEN <<hand>> ELSE <<>>) \o channel

\* "Range resume": from a CDN that heeds the Range header, however often the
\* connection breaks off, a pipeline gets the chunks of the file in order and
\* once each, and an MP4 without a gap.
DeliveredInOrder ==
    honest =>
        \A j \in DOMAIN Delivered :
            Delivered[j] # 0 =>
                /\ \A i \in 1 .. j - 1 : Delivered[i] < Delivered[j]
                /\ mode = "mp4" => Delivered[j] = j

\* "Whether the download completed with an error (mid-stream disconnect)": a
\* download that has begun to deliver and ends short of the file is marked,
\* whether or not its length is known.
ShortIsMarked ==
    (honest /\ step = "done" /\ pusher # "gone" /\ Delivered # <<>>)
        => errored \/ \A k \in 1 .. Size : \E i \in DOMAIN Delivered :
                          Delivered[i] = k

\* "Signal the appsrc push task to stop downloading": some time after stop the
\* push thread is no longer blocked in a push and the download no longer waits
\* for room in the channel, whichever was waiting for the other, and so it stays.
StopUnblocks == stopped ~> [](step # "send" /\ pusher # "push")
=============================================================================
