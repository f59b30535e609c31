---------------------------- MODULE MediaDecision ----------------------------
(***************************************************************************)
(* The choices of MediaChoice, each made of one input, and the streams of  *)
(* a file, whose pads come to PadLinking one at a time:                    *)
(*   menu     qualities and the rates that their CDN grants                *)
(*   page     what the methods for Voe find in a page                      *)
(*   player   an object of a page's script, and the text after it          *)
(*   youtube  the formats of a player response                             *)
(*   ytdlp    what yt-dlp prints                                           *)
(*   streams  the elements that are installed                              *)
(***************************************************************************)
EXTENDS MediaChoice, PadLinking

CONSTANTS
    MenuInputs, PageInputs, PlayerInputs, YouTubeInputs, YtdlpInputs,
    Installed,  \* installations
    MaxPads     \* bounds the streams of a file

IsMenu(menu) ==
    DOMAIN menu \subseteq Qualities /\ menu \in [DOMAIN menu -> Links(Nat)]

AreLinks(links) == links \in Seq(Links(Nat))
IsPage(page) ==
    /\ AreLinks(page.links)
    /\ \A i \in DOMAIN page.m8 : AreLinks(page.m8[i].links)
    /\ DOMAIN page.m8 = 1 .. Len(page.m8) /\ Len(page.m8) \in Nat
    /\ \A text \in {page.m7, page.m6} \ {None} : AreLinks(text.links)

ASSUME MediaAssumption ==
    /\ None \notin Links(Nat) \cup Qualities \cup Requested
    /\ None \notin Formats({"avc1", "mp4v", "vp9", "mp4a"}, Nat)
    /\ \A menu \in MenuInputs : IsMenu(menu)
    /\ \A page \in PageInputs : IsPage(page)
    /\ YouTubeInputs \subseteq
         [formats : Seq(Formats({"avc1", "mp4v", "vp9"}, Nat)),
          adaptive : Seq(Formats({"avc1", "vp9", "mp4a"}, Nat))]
    /\ YtdlpInputs \subseteq [url : BOOLEAN, requested : Seq(Requested)]
    /\ Installed \subseteq Installations
    /\ MaxPads \in Nat

VARIABLES
    kind, input,
    done,       \* the choice has been made
    chosen,     \* what it was, or the links of the pads that have come
    came        \* those pads
vars == <<kind, input, done, chosen, came>>

Init ==
    /\ \/ kind = "menu" /\ input \in MenuInputs
       \/ kind = "page" /\ input \in PageInputs
       \/ kind = "player" /\ input \in PlayerInputs
       \/ kind = "youtube" /\ input \in YouTubeInputs
       \/ kind = "ytdlp" /\ input \in YtdlpInputs
       \/ kind = "streams" /\ input \in Installed
    /\ done = FALSE
    /\ chosen = IF kind = "streams" THEN Unlinked ELSE None
    /\ came = <<>>

Answers(k, answer) ==
    /\ kind = k /\ ~done
    /\ done' = TRUE /\ chosen' = answer
    /\ UNCHANGED <<kind, input, came>>

Choose ==
    \/ Answers("menu", IF DOMAIN input = {} THEN None ELSE BestQuality(input))
    \/ Answers("page", VoeChoice(input))
    \/ Answers("player", extract_player_response(input[1] \o input[2]))
    \/ Answers("youtube", YouTubeChoice(input))
    \/ Answers("ytdlp", resolve_urls(input))

PadAdded(pad) ==
    /\ kind = "streams" /\ Len(came) < MaxPads
    /\ chosen' = pad_added(input, chosen, pad)
    /\ came' = Append(came, pad)
    /\ UNCHANGED <<kind, input, done>>

Next == Choose \/ \E pad \in Pads : PadAdded(pad)

Spec == Init /\ [][Next]_vars

Chosen(k) == kind = k /\ done /\ chosen # None

-----------------------------------------------------------------------------
\* If the CDN can deliver one of the files as fast as it plays, the one that
\* is chosen is such a file, and 1080p only if nothing that is known to be
\* lower is; a playlist is never chosen over a file
\* (extract_media_from_json_value).
SteadyIfAny ==
    Chosen("menu") =>
        LET steady == {q \in DOMAIN input :
                         /\ ~input[q].hls
                         /\ \/ input[q].rate = None
                            \/ input[q].rate >= typical_bitrate_kbps(q)}
        IN  /\ steady # {} => chosen \in steady
            /\ chosen = "1080" => steady \subseteq {"1080", "other"}
            /\ input[chosen].hls => \A q \in DOMAIN input : input[q].hls

\* Nothing that these keys or this search could give but decoys.
KeysBait(obj) ==
    obj # None => \A l \in {obj.direct, obj.source, obj.hls} \ {None} : l.bait
LinksBait(links) ==
    \A i \in DOMAIN links : links[i].mp4 \/ links[i].hls => links[i].bait

\* Whatever the method, a known decoy is never what is played, nor does it
\* hide a real link that stands beside it in what method 7 or 6 deciphers or in
\* clear text (try_method8, try_method7, try_method6, try_fallback_urls).
DecoysAreAvoided ==
    /\ Chosen("page") => ~chosen.bait
    /\ (kind = "page" /\ done /\ chosen = None) =>
        /\ \A text \in {input.m7, input.m6} \ {None} :
              KeysBait(text.json) /\ LinksBait(text.links)
        /\ input.source # None => input.source.bait \/ input.source.hls
        /\ \A i \in DOMAIN input.links : input.links[i].mp4 => input.links[i].bait

\* Of the text after the assignment exactly the object is taken, wherever its
\* strings have braces and escaped quotes (extract_player_response).
PlayerResponseWhole ==
    kind = "player" /\ done => chosen = input[1]

\* What resolve_youtube chooses has a url and is H.264 of 1080 lines at most, given
\* that the combined formats are: of those it takes MPEG-4 Visual as well, which
\* nothing here decodes, and any height; of the separate ones it takes no other.
\* And a picture without sound comes with the sound if that can be had: if the
\* best sound has a url.  Of what yt-dlp prints, the picture and, if there is one
\* with a url, the sound are chosen.
Sounds == {f \in Range(input.adaptive) : f.codec = "mp4a"}

PictureAndSound ==
    /\ Chosen("youtube") =>
          /\ chosen.video.url /\ chosen.video.codec \in {"avc1", "mp4v"}
          /\ \/ chosen.video \notin Range(input.formats)
             \/ \A f \in Range(input.formats) : f.codec # "mp4v" /\ f.height <= 1080
             => chosen.video.codec = "avc1" /\ chosen.video.height <= 1080
          /\ chosen.audio = None /\ chosen.video \notin Range(input.formats) =>
                Sounds = {} \/ \E f \in Sounds :
                                  /\ ~f.url
                                  /\ \A o \in Sounds : f.height >= o.height
    /\ Chosen("ytdlp") /\ ~input.url =>
          /\ "video" \in chosen.video.tracks
          /\ "audio" \notin chosen.video.tracks =>
                (chosen.audio = None =>
                    \A f \in Range(input.requested) : ~f.url \/ "audio" \notin f.tracks)

\* The first stream that is seen to be video is shown, whatever comes before and
\* after it, if it is H.264, or H.265 where the hardware decodes it, and the
\* elements for it are installed (connect_pad_added).
FirstOfSort(sort, i) ==
    /\ came[i].seen /\ came[i].is \in sort
    /\ \A j \in 1 .. (i - 1) : ~(came[j].seen /\ came[j].is \in sort)

Shown(installed, codec) ==
    \/ /\ codec = "h264" /\ installed.hw
       /\ {"v4l2h264dec", "v4l2convert"} \subseteq installed.have
    \/ /\ codec = "h264" /\ ~installed.hw
       /\ {"avdec_h264", "videoconvert"} \subseteq installed.have
    \/ /\ codec = "h265" /\ installed.hw /\ installed.hevc
       /\ {"v4l2slh265dec", "v4l2convert"} \subseteq installed.have

PictureIsShown ==
    \A i \in DOMAIN came :
        FirstOfSort(Video, i) /\ Shown(input, came[i].is)
            => chosen.video = {came[i]}

\* The first AAC stream is heard, whatever other sound comes before it, unless a
\* stream that is not seen to be anything has taken its place.
SoundIsHeard ==
    "aac decoder" \in input.have =>
        \A i \in DOMAIN came :
            /\ FirstOfSort({"aac"}, i)
            /\ \A j \in 1 .. (i - 1) : came[j].seen
            => chosen.audio = {came[i]}

\* Both hold of every file: what one stream takes is not missing to the other.
StreamsArePlayed ==
    kind = "streams" => PictureIsShown /\ SoundIsHeard
=============================================================================
