---------------------------- MODULE UrlResolver ----------------------------
(***************************************************************************)
(* The resolver of src/resolver/src/lib.rs, as loads call it: resolve, and *)
(* when the CDN refuses the link, invalidate_cache and resolve again.      *)
(*                                                                         *)
(* A URL is classified and looked up in the cache; a web page is then      *)
(* given to the extractor for its site, and to yt-dlp when that fails, and *)
(* what is found is put into the cache.  The cache's lock is not held in   *)
(* between, so that two loads may resolve one URL at the same time.        *)
(*                                                                         *)
(* The extractors fetch their pages through a forwarder of their own       *)
(* (resolver_socks.rs), which speaks SOCKS5 with Tor and has no timeouts:  *)
(* those of the HTTP client end a fetch.  Tor, the sites and yt-dlp are    *)
(* external: they answer, refuse, or say nothing.  The registry of         *)
(* providers is empty in the server and is left out.                       *)
(***************************************************************************)
EXTENDS ResolveCache

CONSTANTS
    Tasks,      \* the loads
    Casts,      \* the sets of URLs of which one is cast
    Look,       \* what there is to see in a URL: host, scheme, extension, path
    Pages,      \* what a web page may contain
    Players,    \* the player responses considered
    Outputs,    \* what yt-dlp may print
    MaxLinks,   \* bounds the links that each task finds
    MaxRetries  \* of a load

\* What is found, by which task and as which of its links (by no task when the
\* URL is a file itself); and a row of the cache.
Link == [source : Urls, by : Tasks \cup {None}, nth : Nat]
Row == [link : Link, at : Nat]

ASSUME ResolverAssumption ==
    /\ None \notin Tasks \cup Link \cup Row \cup Nat
    /\ \A u \in Urls : Look[u] \in
         [host : {"onion", "youtube", "doodstream", "listed", "voe", "other"},
          magnet : BOOLEAN, ext : {"m3u8", "mpd", "media", "other"},
          d_path : BOOLEAN]
    /\ \A p \in Pages : p.to \in Urls \cup {None} /\ p.iframe \in BOOLEAN
    /\ Casts \subseteq SUBSET Urls
    /\ MaxLinks \in [Tasks -> Nat] /\ MaxRetries \in Nat

VARIABLES
    cast,       \* the URLs that are cast, which bounds the states
    pc,         \* what each task does next
    url,        \* the URL it was given
    final,      \* the URL after a redirect by the page's script
    got,        \* the link it has found
    attempt,    \* of the load
    refused,    \* the links the CDN has refused it in this load
    made,       \* how many links it has found so far
    forwarder,  \* its proxy: none, one of ours, or the client's own SOCKS5
    conn,       \* how far the connection through Tor is
    named,      \* the user name that isolates the circuit was sent
    known       \* when a URL was last resolved, until it is invalidated

Choice == INSTANCE MediaChoice

netVars == <<forwarder, conn, named>>
loadVars == <<cast, url, attempt, refused>>
vars == <<clock, table, pc, final, got, made, netVars, loadVars, known>>

Fetches == {"youtube", "dood_main", "dood_embed", "voe", "voe_redirected",
            "voe_update"}

Init ==
    /\ CacheInit
    /\ cast \in Casts
    /\ pc = [t \in Tasks |-> "idle"]
    /\ url = [t \in Tasks |-> None] /\ final = url /\ got = url
    /\ attempt = [t \in Tasks |-> 0] /\ made = attempt
    /\ refused = [t \in Tasks |-> {}]
    /\ forwarder = [t \in Tasks |-> "none"] /\ conn = forwarder
    /\ named = [t \in Tasks |-> FALSE]
    /\ known = [u \in Urls |-> None]

Goto(t, step) == pc' = [pc EXCEPT ![t] = step]

\* A fetch begins with a new connection.
Fetch(t, step) ==
    /\ Goto(t, step)
    /\ conn' = [conn EXCEPT ![t] = "none"]
    /\ named' = [named EXCEPT ![t] = FALSE]

\* An extractor returns: its client and its forwarder are dropped.
Leave(t, step) ==
    /\ Fetch(t, step)
    /\ forwarder' = [forwarder EXCEPT ![t] = "none"]

Found(t, source) ==
    /\ got' = [got EXCEPT ![t] = [source |-> source, by |-> t, nth |-> made[t] + 1]]
    /\ made' = [made EXCEPT ![t] = @ + 1]

-----------------------------------------------------------------------------
(***************************************************************************)
(* classify_url                                                            *)
(***************************************************************************)
classify_url(u) ==
    LET look == Look[u]
    IN  IF look.host = "onion" THEN "onion"
        ELSE IF look.magnet THEN "magnet"
        ELSE IF look.host # "other" THEN "web_page"
        ELSE CASE look.ext = "m3u8" -> "hls_manifest"
               [] look.ext = "mpd" -> "dash_manifest"
               [] look.ext = "media" -> "direct_media"
               [] OTHER -> "web_page"

\* What resolve tries first, on a miss.
FirstTry(u) ==
    CASE classify_url(u) = "magnet" -> "failed"
      [] classify_url(u) = "onion" -> "ytdlp"
      [] classify_url(u) = "web_page" -> "client"
      [] OTHER -> "direct"

-----------------------------------------------------------------------------
(***************************************************************************)
(* The load                                                                *)
(***************************************************************************)
LoadBegin(t) ==
    /\ pc[t] = "idle"
    /\ made[t] < MaxLinks[t]
    /\ \E u \in cast : url' = [url EXCEPT ![t] = u]
    /\ attempt' = [attempt EXCEPT ![t] = 1]
    /\ Goto(t, "lookup")
    /\ UNCHANGED <<cacheVars, final, got, made, netVars, cast, refused, known>>

\* The link plays, or nothing was found.
LoadEnds(t) ==
    /\ pc[t] \in {"found", "failed"}
    /\ Goto(t, "idle")
    /\ url' = [url EXCEPT ![t] = None]
    /\ got' = [got EXCEPT ![t] = None]
    /\ attempt' = [attempt EXCEPT ![t] = 0]
    /\ refused' = [refused EXCEPT ![t] = {}]
    /\ final' = [final EXCEPT ![t] = None]
    /\ UNCHANGED <<cacheVars, cast, made, netVars, known>>

\* The CDN answers 403: invalidate_cache, and the URL is resolved again.
Refused(t) ==
    /\ pc[t] = "found"
    /\ attempt[t] <= MaxRetries /\ made[t] < MaxLinks[t]
    /\ attempt' = [attempt EXCEPT ![t] = @ + 1]
    /\ refused' = [refused EXCEPT ![t] = @ \cup {got[t]}]
    /\ delete(url[t])
    /\ known' = [known EXCEPT ![url[t]] = None]
    /\ got' = [got EXCEPT ![t] = None]
    /\ Goto(t, "lookup")
    /\ UNCHANGED <<clock, cast, url, final, made, netVars>>

-----------------------------------------------------------------------------
(***************************************************************************)
(* resolve                                                                 *)
(***************************************************************************)
Hit(t) ==
    /\ pc[t] = "lookup"
    /\ get(url[t]) # None
    /\ got' = [got EXCEPT ![t] = get(url[t])]
    /\ Goto(t, "found")
    /\ UNCHANGED <<cacheVars, final, made, netVars, loadVars, known>>

Miss(t) ==
    /\ pc[t] = "lookup"
    /\ get(url[t]) = None
    /\ final' = [final EXCEPT ![t] = url[t]]
    /\ Goto(t, FirstTry(url[t]))
    /\ UNCHANGED <<cacheVars, got, made, netVars, loadVars, known>>

Direct(t) ==
    /\ pc[t] = "direct"
    /\ got' = [got EXCEPT ![t] = [source |-> url[t], by |-> None, nth |-> 0]]
    /\ Goto(t, "insert")
    /\ UNCHANGED <<cacheVars, final, made, netVars, loadVars, known>>

Insert(t) ==
    /\ pc[t] = "insert"
    /\ insert(got[t])
    /\ known' = IF got[t].source = url[t]
                THEN [known EXCEPT ![url[t]] = clock] ELSE known
    /\ Goto(t, "found")
    /\ UNCHANGED <<clock, final, got, made, netVars, loadVars>>

\* Each extractor builds a client of its own.  A forwarder that cannot be
\* started gives way to the SOCKS5 of the client.
BuildClient(t) ==
    /\ pc[t] \in {"client", "client_voe"}
    /\ \E proxy \in {"forwarder", "builtin"} :
          forwarder' = [forwarder EXCEPT ![t] = proxy]
    /\ Fetch(t, IF pc[t] = "client_voe" THEN "voe"
                ELSE CASE Look[url[t]].host = "youtube" -> "youtube"
                       [] Look[url[t]].host = "doodstream" -> "dood_main"
                       [] OTHER -> "voe")
    /\ UNCHANGED <<cacheVars, final, got, made, loadVars, known>>

\* Where resolve goes when an extractor or yt-dlp fails.
AfterFailure(step) ==
    CASE step = "youtube" -> "client_voe"
      [] step \in {"voe", "voe_redirected"} -> "ytdlp"
      [] OTHER -> "failed"

-----------------------------------------------------------------------------
(***************************************************************************)
(* The forwarder: socks5_connect, one exchange with Tor a step.            *)
(***************************************************************************)
Dial(t) ==
    /\ pc[t] \in Fetches /\ conn[t] = "none"
    /\ forwarder[t] = "forwarder"
    /\ conn' = [conn EXCEPT ![t] = "greeting"]
    /\ UNCHANGED <<cacheVars, pc, final, got, made, forwarder, named, loadVars, known>>

\* Offered the choice, Tor may do without a name.
DialBuiltin(t) ==
    /\ pc[t] \in Fetches /\ conn[t] = "none"
    /\ forwarder[t] = "builtin"
    /\ conn' = [conn EXCEPT ![t] = "open"]
    /\ \E sent \in BOOLEAN : named' = [named EXCEPT ![t] = sent]
    /\ UNCHANGED <<cacheVars, pc, final, got, made, forwarder, loadVars, known>>

Greet_both(t) ==
    /\ conn[t] = "greeting"
    /\ \E next \in {"auth", "request"} : conn' = [conn EXCEPT ![t] = next]
    /\ UNCHANGED <<cacheVars, pc, final, got, made, forwarder, named, loadVars, known>>

\* The one method that is offered is the one with a name, and only its choice
\* is accepted.
Greet(t) ==
    /\ conn[t] = "greeting"
    /\ conn' = [conn EXCEPT ![t] = "auth"]
    /\ UNCHANGED <<cacheVars, pc, final, got, made, forwarder, named, loadVars, known>>

Authenticate(t) ==
    /\ conn[t] = "auth"
    /\ named' = [named EXCEPT ![t] = TRUE]
    /\ conn' = [conn EXCEPT ![t] = "request"]
    /\ UNCHANGED <<cacheVars, pc, final, got, made, forwarder, loadVars, known>>

\* Tor reaches the host, and the client is told so.
Tunnel(t) ==
    /\ conn[t] = "request"
    /\ conn' = [conn EXCEPT ![t] = "open"]
    /\ UNCHANGED <<cacheVars, pc, final, got, made, forwarder, named, loadVars, known>>

Forwarder(t) == Dial(t) \/ DialBuiltin(t) \/ Greet(t) \/ Authenticate(t) \/ Tunnel(t)

-----------------------------------------------------------------------------
(***************************************************************************)
(* The extractors                                                          *)
(***************************************************************************)
Open(t, step) == pc[t] = step /\ conn[t] = "open"

\* The page redirects by its script, or it is the one to look at.
VoeFetched(t) ==
    /\ Open(t, "voe")
    /\ \E page \in Pages :
        \/ /\ page.to \notin {None, url[t]}
           /\ final' = [final EXCEPT ![t] = page.to]
           /\ Fetch(t, "voe_redirected")
           /\ UNCHANGED <<got, made, forwarder>>
        \/ /\ page.to \in {None, url[t]}
           /\ IF Choice!VoeChoice(page) # None
              THEN Found(t, url[t]) /\ Fetch(t, "voe_update") /\ UNCHANGED forwarder
              ELSE Leave(t, "ytdlp") /\ UNCHANGED <<got, made>>
           /\ UNCHANGED final
    /\ UNCHANGED <<cacheVars, loadVars, known>>

\* A redirect is followed once.  The result's source_url is the new one.
VoeRedirected(t) ==
    /\ Open(t, "voe_redirected")
    /\ \E page \in Pages :
          IF Choice!VoeChoice(page) # None
          THEN Found(t, final[t]) /\ Fetch(t, "voe_update") /\ UNCHANGED forwarder
          ELSE Leave(t, "ytdlp") /\ UNCHANGED <<got, made>>
    /\ UNCHANGED <<cacheVars, final, loadVars, known>>

\* voe_engine_update: whatever comes of it.
VoeUpdated(t) ==
    /\ Open(t, "voe_update")
    /\ Leave(t, "insert")
    /\ UNCHANGED <<cacheVars, final, got, made, loadVars, known>>

DoodFinds(t, page) == Choice!try_fallback_urls(page) # None

\* The main page has the link, or an iframe with the page that has it, or
\* its address is derived from the URL.
DoodMain(t) ==
    /\ Open(t, "dood_main")
    /\ \E page \in Pages :
          IF DoodFinds(t, page)
          THEN Found(t, url[t]) /\ Leave(t, "insert")
          ELSE /\ IF page.iframe \/ Look[url[t]].d_path
                  THEN Fetch(t, "dood_embed") /\ UNCHANGED forwarder
                  ELSE Leave(t, "failed")
               /\ UNCHANGED <<got, made>>
    /\ UNCHANGED <<cacheVars, final, loadVars, known>>

\* The link or a pass_md5 path, of which the path is returned as it is.
DoodEmbed(t) ==
    /\ Open(t, "dood_embed")
    /\ \E page \in Pages :
          IF \/ page.pass
             \/ Choice!extract_mp4_url_from_text(page.links) # None
             \/ DoodFinds(t, page)
          THEN Found(t, url[t]) /\ Leave(t, "insert")
          ELSE Leave(t, "failed") /\ UNCHANGED <<got, made>>
    /\ UNCHANGED <<cacheVars, final, loadVars, known>>

YouTubeFetched(t) ==
    /\ Open(t, "youtube")
    /\ \E player \in Players :
          IF Choice!YouTubeChoice(player) # None
          THEN Found(t, url[t]) /\ Leave(t, "insert")
          ELSE Leave(t, AfterFailure("youtube")) /\ UNCHANGED <<got, made>>
    /\ UNCHANGED <<cacheVars, final, loadVars, known>>

Ytdlp(t) ==
    /\ pc[t] = "ytdlp"
    /\ \E output \in Outputs :
          IF Choice!resolve_urls(output) # None
          THEN Found(t, url[t]) /\ Goto(t, "insert")
          ELSE Goto(t, "failed") /\ UNCHANGED <<got, made>>
    /\ UNCHANGED <<cacheVars, final, netVars, loadVars, known>>

GivesUp_but_not_update(t) ==
    /\ pc[t] \in Fetches \ {"voe_update"}
    /\ Leave(t, AfterFailure(pc[t]))
    /\ UNCHANGED <<cacheVars, final, got, made, loadVars, known>>

\* Tor or the site refuses, answers with an error, or is silent for fifteen
\* seconds; yt-dlp fails, or is killed after thirty.
GivesUp(t) ==
    /\ pc[t] \in Fetches \cup {"ytdlp"}
    /\ CASE pc[t] = "voe_update" -> Leave(t, "insert")
         [] pc[t] = "dood_main" /\ Look[url[t]].d_path ->
              Fetch(t, "dood_embed") /\ UNCHANGED forwarder
         [] OTHER -> Leave(t, AfterFailure(pc[t]))
    /\ UNCHANGED <<cacheVars, final, got, made, loadVars, known>>

Extract(t) ==
    \/ VoeFetched(t) \/ VoeRedirected(t) \/ VoeUpdated(t)
    \/ DoodMain(t) \/ DoodEmbed(t) \/ YouTubeFetched(t) \/ Ytdlp(t)

-----------------------------------------------------------------------------
Restart_in_memory ==
    /\ \E t \in Tasks : pc[t] # "idle"
    /\ pc' = [t \in Tasks |-> "idle"]
    /\ url' = [t \in Tasks |-> None] /\ final' = url' /\ got' = url'
    /\ attempt' = [t \in Tasks |-> 0]
    /\ refused' = [t \in Tasks |-> {}]
    /\ forwarder' = [t \in Tasks |-> "none"] /\ conn' = forwarder'
    /\ named' = [t \in Tasks |-> FALSE]
    /\ table' = [u \in Urls |-> None]
    /\ UNCHANGED <<clock, cast, made, known>>

\* The process crashes and is started again on the same database.
Restart ==
    /\ \E t \in Tasks : pc[t] # "idle"
    /\ pc' = [t \in Tasks |-> "idle"]
    /\ url' = [t \in Tasks |-> None] /\ final' = url' /\ got' = url'
    /\ attempt' = [t \in Tasks |-> 0]
    /\ refused' = [t \in Tasks |-> {}]
    /\ forwarder' = [t \in Tasks |-> "none"] /\ conn' = forwarder'
    /\ named' = [t \in Tasks |-> FALSE]
    /\ UNCHANGED <<cacheVars, cast, made, known>>

Clock ==
    /\ Tick
    /\ UNCHANGED <<pc, final, got, made, netVars, loadVars, known>>

\* What the task does by itself, and the timeouts.
Resolve(t) == Hit(t) \/ Miss(t) \/ Direct(t) \/ Insert(t) \/ BuildClient(t) \/ GivesUp(t)

Next ==
    \/ Clock \/ Restart
    \/ \E t \in Tasks :
          \/ LoadBegin(t) \/ LoadEnds(t) \/ Refused(t)
          \/ Resolve(t) \/ Forwarder(t) \/ Extract(t)

Spec == Init /\ [][Next]_vars

\* A task runs again and again, and its timers fire.  That Tor or a site
\* answers is not assumed.
FairSpec == Spec /\ \A t \in Tasks : WF_vars(Resolve(t))

-----------------------------------------------------------------------------
(***************************************************************************)
(* Properties                                                              *)
(***************************************************************************)
\* The types; a link is there exactly while it is needed; a forwarder lives
\* as long as the extractor that started it.
ResolverTypeOK ==
    /\ \A u \in Urls : table[u] # None => table[u].at <= clock /\ table[u].link.source = u
    /\ \A t \in Tasks :
        /\ pc[t] \in {"voe_update", "insert", "found"} <=> got[t] # None
        /\ pc[t] \in Fetches <=> forwarder[t] # "none"
        /\ conn[t] # "none" => pc[t] \in Fetches
        /\ made[t] \in 0 .. MaxLinks[t]
        /\ attempt[t] \in 0 .. MaxRetries + 1

\* Through our own forwarder no request is sent on a circuit that is not the
\* isolated one of the host, which is what resolver_socks.rs is for.
IsolatedStreams ==
    \A t \in Tasks :
        conn[t] = "open" /\ forwarder[t] = "forwarder" => named[t]

\* A link that the CDN has refused is not given to the same load again,
\* whoever resolves the same URL meanwhile (invalidate_cache, delete).
RefusedLinkIsGone ==
    \A t \in Tasks :
        pc[t] = "found" /\ got[t].by # None => got[t] \notin refused[t]

\* A URL is fetched only if nobody has resolved it within the TTL, or its
\* entry has been invalidated, also after a restart (resolve, cache.rs).  Of
\* a page that redirects this is not so: see README.
MissMeansNew ==
    [][\A t \in Tasks :
          Miss(t) => known[url[t]] = None \/ known[url[t]] + TTL <= clock]_vars

\* Every resolve returns, though Tor, the site or yt-dlp fall silent.
ResolveReturns ==
    \A t \in Tasks : (pc[t] = "lookup") ~> (pc[t] \in {"idle", "found", "failed"})
=============================================================================
