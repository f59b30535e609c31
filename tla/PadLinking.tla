------------------------------ MODULE PadLinking ------------------------------
(***************************************************************************)
(* Which streams of a file are played: the pad-added callback of           *)
(* src/playback/src/pipeline.rs, which GstPipeline::new connects to        *)
(* parsebin.  A function of the pad and of what the pads before it took.   *)
(*                                                                         *)
(* A pad is what its stream is, and whether its caps tell so when it is    *)
(* added.  GStreamer refuses a link whose caps do not meet; elements that  *)
(* exist are taken to fit each other.  Properties of the elements are left *)
(* out, and so are build_hw_video_bin and its like, which nothing calls.   *)
(***************************************************************************)
EXTENDS Naturals, Sequences

Nothing == "nothing"
Video == {"h264", "h265", "vp9"}
Audio == {"aac", "opus"}
Pads == [is : Video \cup Audio \cup {"text"}, seen : BOOLEAN]

\* hw_accel, the feature hevc, and the GStreamer elements that are installed.
Elements == {"v4l2h264dec", "v4l2slh265dec", "v4l2convert", "avdec_h264",
             "avdec_h265", "videoconvert", "aac decoder", "fakesink"}
Installations == [hw : BOOLEAN, hevc : BOOLEAN, have : SUBSET Elements]

\* What each sink gets: the decoder kmssink is linked to, the pads that are
\* linked to the two chains, and those that are linked to nothing.
Unlinked == [decoder |-> Nothing, video |-> {}, audio |-> {},
             loose |-> {}]

Loose(links, pad) == [links EXCEPT !.loose = @ \cup {pad}]

\* External: the caps of the pad and of the decoder behind the queue meet.
Decodes(decoder, pad) ==
    \/ decoder \in {"v4l2h264dec", "avdec_h264"} /\ pad.is = "h264"
    \/ decoder \in {"v4l2slh265dec", "avdec_h265"} /\ pad.is = "h265"
    \/ decoder = "aac decoder" /\ (pad.is = "aac" \/ ~pad.seen)

Available(installed, e) == IF e \in installed.have THEN e ELSE Nothing

\* In software whichever decoder there is, whatever the codec.
VideoDecoder(installed, pad) ==
    IF installed.hw /\ pad.is = "h265" /\ installed.hevc
      THEN Available(installed, "v4l2slh265dec")
    ELSE IF installed.hw /\ pad.is # "h265"
      THEN Available(installed, "v4l2h264dec")
    ELSE IF "avdec_h264" \in installed.have THEN "avdec_h264"
    ELSE Available(installed, "avdec_h265")

Converter(installed, pad) ==
    IF installed.hw /\ (pad.is = "h265" => installed.hevc)
      THEN "v4l2convert" ELSE "videoconvert"

\* The chain stays linked to kmssink when the pad then refuses it.
LinkVideo(installed, links, pad) ==
    LET decoder == VideoDecoder(installed, pad)
        tried   == [links EXCEPT !.decoder = decoder]
    IN  IF \/ links.decoder # Nothing \/ decoder = Nothing
           \/ Converter(installed, pad) \notin installed.have
          THEN Loose(links, pad)
        ELSE IF Decodes(decoder, pad) THEN [tried EXCEPT !.video = {pad}]
        ELSE Loose(tried, pad)

\* A sink of its own, which throws the stream away.
Discard(installed, links, pad) ==
    IF "fakesink" \in installed.have THEN links ELSE Loose(links, pad)

FitsAudio(installed, pad) == Decodes(Available(installed, "aac decoder"), pad)

LinkAudio_taken(installed, links, pad) ==
    IF links.audio # {} THEN Loose(links, pad)
    ELSE [links EXCEPT !.audio = {pad}]

LinkAudio(installed, links, pad) ==
    IF links.audio # {} THEN Loose(links, pad)
    ELSE IF FitsAudio(installed, pad) THEN [links EXCEPT !.audio = {pad}]
    ELSE Discard(installed, links, pad)

\* Subtitles, and any stream whose caps are not known yet.
LinkUnknown(installed, links, pad) ==
    IF links.audio = {} /\ FitsAudio(installed, pad)
      THEN [links EXCEPT !.audio = {pad}]
      ELSE Discard(installed, links, pad)

pad_added(installed, links, pad) ==
    IF pad.seen /\ pad.is \in Video THEN LinkVideo(installed, links, pad)
    ELSE IF pad.seen /\ pad.is \in Audio THEN LinkAudio(installed, links, pad)
    ELSE LinkUnknown(installed, links, pad)
=============================================================================
