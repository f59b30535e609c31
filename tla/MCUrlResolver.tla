---------------------------- MODULE MCUrlResolver ----------------------------
(***************************************************************************)
(* Two loads; a URL of each kind that resolve tells apart, of which a run  *)
(* has some; pages with and without a link, with an iframe and with a      *)
(* redirect; responses of YouTube and of yt-dlp with and without a link.   *)
(***************************************************************************)
EXTENDS UrlResolver, TLC

CONSTANTS a, b, page, moved, tube, dood, onion, file, magnet

MCCasts == {{page, moved}, {dood}, {tube}, {onion, magnet}, {file}}

MCLinks == (a :> 2) @@ (b :> 1)

Plain == [host |-> "other", magnet |-> FALSE, ext |-> "other", d_path |-> FALSE]

MCLook ==
    [u \in Urls |->
        CASE u = tube -> [Plain EXCEPT !.host = "youtube"]
          [] u = dood -> [Plain EXCEPT !.host = "doodstream", !.d_path = TRUE]
          [] u = onion -> [Plain EXCEPT !.host = "onion"]
          [] u = file -> [Plain EXCEPT !.ext = "media"]
          [] u = magnet -> [Plain EXCEPT !.magnet = TRUE]
          [] OTHER -> Plain]

File == [hls |-> FALSE, mp4 |-> TRUE, bait |-> FALSE, rate |-> None]
Empty == [to |-> None, iframe |-> FALSE, pass |-> FALSE,
          m8 |-> <<>>, m7 |-> None, m6 |-> None, source |-> None, links |-> <<>>]
MCPages ==
    {Empty, [Empty EXCEPT !.links = <<File>>], [Empty EXCEPT !.iframe = TRUE],
     [Empty EXCEPT !.pass = TRUE]}
    \cup {[Empty EXCEPT !.to = u] : u \in Urls \cap {moved}}

Picture == [codec |-> "avc1", height |-> 720, url |-> TRUE]
MCPlayers == {[formats |-> f, adaptive |-> <<>>] : f \in {<<>>, <<Picture>>}}
MCOutputs == [url : BOOLEAN, requested : {<<>>}]
=============================================================================
