---------------------------- MODULE MCMediaChoice ----------------------------
(***************************************************************************)
(* The choices of MediaDecision on every input of a bounded kind:          *)
(*   menu     of up to five qualities, at rates below, between and above   *)
(*            the typical ones                                             *)
(*   page     with one or two enciphered texts, or links in clear text     *)
(*   player   every object of nested objects and strings, where a string   *)
(*            may contain braces, quotes and backslashes, and what follows *)
(*   youtube  up to two formats of each sort                               *)
(*   ytdlp    up to three formats                                          *)
(*   streams  up to three pads, with all elements but one installed        *)
(***************************************************************************)
EXTENDS MediaDecision

UpTo(n, S) == UNION {[1 .. k -> S] : k \in 0 .. n}

MCMenuInputs ==
    Menus({"360", "480", "720", "1080", "other"},
          {[hls |-> h, mp4 |-> TRUE, bait |-> FALSE, rate |-> r] :
               h \in BOOLEAN, r \in {None, 1000, 3000}})

PageLinks == {l \in Links({}) : l.mp4 \/ l.hls}
KeyLinks == {l \in Links({}) : l.mp4 # l.hls}
Lone == {[q \in {"other"} |-> l] : l \in KeyLinks} \cup {<<>>}
Objects == [direct : KeyLinks \cup {None}, source : KeyLinks \cup {None},
            mp4 : Lone, hls : {None} \cup {l \in KeyLinks : l.hls}]
NoKeys == [direct |-> None, source |-> None, mp4 |-> <<>>, hls |-> None]
Texts == [json : Objects, links : UpTo(1, PageLinks)]
         \cup [json : {None, NoKeys}, links : UpTo(2, PageLinks)]
ShortTexts == [json : {None} \cup {[NoKeys EXCEPT !.source = l] : l \in KeyLinks},
               links : UpTo(1, PageLinks)]
Bare == [m8 |-> <<>>, m7 |-> None, m6 |-> None, source |-> None, links |-> <<>>]
MCPageInputs ==
    {[Bare EXCEPT !.m8 = <<x>>] : x \in Texts}
    \cup {[Bare EXCEPT !.m7 = x] : x \in Texts}
    \cup {[Bare EXCEPT !.m6 = x] : x \in Texts}
    \cup {[Bare EXCEPT !.m8 = <<x, y>>] : x, y \in ShortTexts}
    \cup {[Bare EXCEPT !.m8 = <<x>>, !.m7 = y] : x, y \in ShortTexts}
    \cup {[Bare EXCEPT !.m6 = x, !.links = t] : x \in ShortTexts, t \in UpTo(1, PageLinks)}
    \cup {[Bare EXCEPT !.source = l, !.links = t] :
              l \in Links({}) \cup {None}, t \in UpTo(3, PageLinks)}

Pieces == {<<"x">>, <<"{">>, <<"}">>, <<"backslash", "quote">>,
           <<"backslash", "backslash">>}
Strings == {<<"quote">> \o FlattenSeq(p) \o <<"quote">> : p \in UpTo(2, Pieces)}
Flat == {<<"{">> \o FlattenSeq(p) \o <<"}">> : p \in UpTo(1, Strings)}
PlayerObjects ==
    {<<"{">> \o FlattenSeq(p) \o <<"}">> : p \in UpTo(2, Strings)}
    \cup {<<"{">> \o f \o g \o <<"}">> : f \in Flat, g \in Strings \cup Flat}
Tails == {<<>>, <<"x">>, <<"}">>, <<"{">>, <<"quote", "}">>}
MCPlayerInputs == PlayerObjects \X Tails

MCYouTubeInputs ==
    [formats : UpTo(2, Formats({"avc1", "mp4v", "vp9"}, {720, 1440})),
     adaptive : {v \o s : v \in UpTo(2, Formats({"avc1", "vp9"}, {720, 1080, 2160})),
                          s \in UpTo(2, Formats({"mp4a"}, {64, 128}))}]

MCYtdlpInputs == [url : BOOLEAN, requested : UpTo(3, Requested)]

MCInstalled ==
    [hw : BOOLEAN, hevc : BOOLEAN,
     have : {Elements} \cup {Elements \ {e} : e \in Elements}]
=============================================================================
