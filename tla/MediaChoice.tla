----------------------------- MODULE MediaChoice -----------------------------
(***************************************************************************)
(* Which of the links that a page offers the extractors of                 *)
(* src/resolver/src/custom.rs and ytdlp.rs choose.  Pure functions; the    *)
(* resolver that calls them is UrlResolver.                                *)
(*                                                                         *)
(* A link is what the choice depends on: whether it has .m3u8 and .mp4 in  *)
(* it, whether it is one of the known decoys, and the rate its CDN grants  *)
(* it (sp=, in kbps).  A menu maps the qualities that are offered to       *)
(* links; a lone link is a menu with one entry.  The request token that    *)
(* method 8 appends to a link, metadata and MIME types are left out.       *)
(***************************************************************************)
EXTENDS Naturals, SequencesExt, FiniteSetsExt

CONSTANT None

Links(rates) ==
    [hls : BOOLEAN, mp4 : BOOLEAN, bait : BOOLEAN, rate : rates \cup {None}]

Qualities == {"240", "360", "480", "720", "1080", "other"}
Menus(qs, links) == UNION {[some -> links] : some \in SUBSET qs}

\* A format of a player response, and of yt-dlp.
Formats(cs, hs) == [codec : cs, height : hs, url : BOOLEAN]
Requested == [tracks : SUBSET {"video", "audio"}, url : BOOLEAN]

-----------------------------------------------------------------------------
(***************************************************************************)
(* extract_media_from_json_value                                           *)
(***************************************************************************)
typical_bitrate_kbps(q) ==
    CASE q = "240" -> 400
      [] q = "360" -> 800
      [] q = "480" -> 1500
      [] q = "720" -> 3000
      [] q = "1080" -> 6000
      [] OTHER -> 0

quality_rank(q) ==
    CASE q = "720" -> 0
      [] q = "480" -> 1
      [] q = "360" -> 2
      [] q = "240" -> 3
      [] q = "1080" -> 4
      [] OTHER -> 5

Granted(link) == IF link.rate = None THEN 0 ELSE link.rate

Sustainable_always(q, link) == TRUE
Sustainable(q, link) ==
    link.rate = None \/ link.rate >= typical_bitrate_kbps(q)

\* The first of qs in the order of preference.
Preferred(qs) == CHOOSE q \in qs : \A o \in qs : quality_rank(q) <= quality_rank(o)

\* Playlists only when there is nothing else; what the CDN is fast enough for
\* before what it is not; and otherwise what it is fastest for.
BestQuality(menu) ==
    LET files  == {q \in DOMAIN menu : ~menu[q].hls}
        steady == {q \in files : Sustainable(q, menu[q])}
        most   == {q \in files : \A o \in files : Granted(menu[q]) >= Granted(menu[o])}
    IN  Preferred(IF files = {} THEN DOMAIN menu
                  ELSE IF steady # {} THEN steady ELSE most)

FromMenu(menu) ==
    IF DOMAIN menu = {} THEN None ELSE menu[BestQuality(menu)]

-----------------------------------------------------------------------------
(***************************************************************************)
(* The methods for the pages of Voe.  What a method deciphers is a text,   *)
(* of which the choice depends on the object that it is, or None, with the *)
(* keys direct_access_url, source, mp4 and hls, and on the links that a    *)
(* search of the text finds; a link with a slash that is escaped is no     *)
(* such link.  A page carries any number of texts for method 8, one or     *)
(* none for each of the others, and in clear text the first assignment to  *)
(* a variable source, or none, and links.                                  *)
(***************************************************************************)
is_bait_source(link) == link.bait

FirstAt(s, places) == IF places = {} THEN None ELSE s[Min(places)]
FirstOf(links) == FirstAt(links, {i \in DOMAIN links : links[i] # None})

Real(link) == IF link = None \/ is_bait_source(link) THEN None ELSE link

extract_mp4_url_from_text(links) ==
    FirstAt(links, {i \in DOMAIN links : links[i].mp4 /\ ~is_bait_source(links[i])})
extract_m3u8_url_from_text(links) ==
    FirstAt(links, {i \in DOMAIN links : links[i].hls /\ ~is_bait_source(links[i])})

\* A file before a playlist.
FromText(links) ==
    FirstOf(<<extract_mp4_url_from_text(links), extract_m3u8_url_from_text(links)>>)

\* The text is searched if its object has none of the keys.
deobfuscate_embedded_json(text) ==
    LET obj    == text.json
        direct == IF obj.direct # None /\ obj.direct.hls THEN None ELSE obj.direct
        keys   == IF obj = None THEN None
                  ELSE FirstOf(<<direct, obj.source, FromMenu(obj.mp4), obj.hls>>)
    IN  FirstOf(<<keys, FromText(text.links)>>)

\* The decoy is only looked for when the choice from a text is made.
try_method8(texts) ==
    FirstOf([i \in DOMAIN texts |-> Real(deobfuscate_embedded_json(texts[i]))])

FromObject_first(obj) ==
    IF obj = None THEN None
    ELSE Real(FirstOf(<<obj.source, FromMenu(obj.mp4), obj.direct, obj.hls>>))
FromObject(obj) ==
    IF obj = None THEN None
    ELSE FirstOf(<<Real(obj.source), Real(FromMenu(obj.mp4)),
                   Real(obj.direct), Real(obj.hls)>>)

\* Methods 7 and 6 look at every key and then at the text; they differ in the
\* cipher.
FromDeciphered(text) ==
    IF text = None THEN None
    ELSE FirstOf(<<FromObject(text.json), FromText(text.links)>>)
try_method7(text) == FromDeciphered(text)
try_method6(text) == FromDeciphered(text)

\* In clear text a playlist is passed over if it is the variable's, and not if it
\* has .mp4 in it as well.
FromSource(source) ==
    IF source = None \/ is_bait_source(source) \/ source.hls THEN None ELSE source
try_fallback_urls(page) ==
    FirstOf(<<FromSource(page.source), extract_mp4_url_from_text(page.links)>>)

VoeChoice(page) ==
    FirstOf(<<try_method8(page.m8), try_method7(page.m7), try_method6(page.m6),
              try_fallback_urls(page)>>)

-----------------------------------------------------------------------------
(***************************************************************************)
(* resolve_youtube: the formats of a player response, each with the        *)
(* height, the codec and, unless the link is ciphered, a url.              *)
(***************************************************************************)
\* max_by_key returns the last of the greatest, here of those at some places, by
\* height or, of the audio, by the bit rate that stands in its place.
Greatest(formats, places) ==
    LET best == {i \in places :
                    \A j \in places : formats[i].height >= formats[j].height}
    IN  IF places = {} THEN None ELSE formats[Max(best)]

WithUrl(format) == IF format = None \/ ~format.url THEN None ELSE format

best_combined(formats) ==
    WithUrl(Greatest(formats,
                     {i \in DOMAIN formats : formats[i].codec \in {"avc1", "mp4v"}}))

best_video_uncapped(formats) == best_combined(formats)
best_video(formats) ==
    WithUrl(Greatest(formats,
                     {i \in DOMAIN formats :
                        formats[i].codec = "avc1" /\ formats[i].height <= 1080}))

best_audio(formats) ==
    WithUrl(Greatest(formats, {i \in DOMAIN formats : formats[i].codec = "mp4a"}))

\* A combined format before two that are separate; a video without a url of
\* its own ends the attempt, an audio without one is done without.
YouTubeChoice(player) ==
    LET whole == best_combined(player.formats)
        video == best_video(player.adaptive)
    IN  IF whole # None THEN [video |-> whole, audio |-> None]
        ELSE IF video # None
        THEN [video |-> video, audio |-> best_audio(player.adaptive)]
        ELSE None

(***************************************************************************)
(* extract_player_response: the text from the opening brace on, one        *)
(* character at a time: a brace, a quote, a backslash or anything else.    *)
(***************************************************************************)
Start == [depth |-> 0, string |-> FALSE, escape |-> FALSE, len |-> 0, end |-> 0]

Scan_no_escape(s, ch) ==
    LET t == [s EXCEPT !.len = @ + 1] IN
    IF s.end # 0 THEN s
    ELSE IF ch = "quote" THEN [t EXCEPT !.string = ~@]
    ELSE IF s.string THEN t
    ELSE IF ch = "{" THEN [t EXCEPT !.depth = @ + 1]
    ELSE IF ch = "}" THEN [t EXCEPT !.depth = @ - 1,
                                    !.end = IF s.depth = 1 THEN t.len ELSE 0]
    ELSE t
Scan(s, ch) ==
    LET t == [s EXCEPT !.len = @ + 1] IN
    IF s.end # 0 THEN s
    ELSE IF s.escape THEN [t EXCEPT !.escape = FALSE]
    ELSE IF ch = "backslash" /\ s.string THEN [t EXCEPT !.escape = TRUE]
    ELSE IF ch = "quote" THEN [t EXCEPT !.string = ~@]
    ELSE IF s.string THEN t
    ELSE IF ch = "{" THEN [t EXCEPT !.depth = @ + 1]
    ELSE IF ch = "}" THEN [t EXCEPT !.depth = @ - 1,
                                    !.end = IF s.depth = 1 THEN t.len ELSE 0]
    ELSE t

extract_player_response(text) ==
    LET s == FoldLeft(Scan, Start, text)
    IN  IF text = <<>> \/ Head(text) # "{" \/ s.end = 0 THEN None
        ELSE SubSeq(text, 1, s.end)

-----------------------------------------------------------------------------
(***************************************************************************)
(* YtdlpOutput::resolve_urls: one link for both, or of the requested       *)
(* formats the first that has a picture and the first that has sound.      *)
(***************************************************************************)
resolve_urls(output) ==
    LET With(track) == FirstAt(output.requested,
                               {i \in DOMAIN output.requested :
                                  /\ output.requested[i].url
                                  /\ track \in output.requested[i].tracks})
    IN  IF output.url THEN [video |-> "merged", audio |-> None]
        ELSE IF With("video") = None THEN None
        ELSE [video |-> With("video"), audio |-> With("audio")]
=============================================================================
