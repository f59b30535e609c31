------------------------- MODULE UrlResolverProofs --------------------------
(***************************************************************************)
(* Safety of the resolver and its cache, for any number of loads, any      *)
(* URLs, pages and outputs, and any times and bounds.                      *)
(***************************************************************************)
EXTENDS UrlResolver, TLAPS

\* The task has found a link in this attempt and has not stored it.
Holding == {"voe_update", "insert"}

\* The task has still to find its link.
Seeking == {"lookup", "direct", "client", "client_voe", "ytdlp"}
               \cup (Fetches \ {"voe_update"})

Steps == {"idle", "failed", "found"} \cup Holding \cup Seeking

TypeInv ==
    /\ clock \in Nat
    /\ table \in [Urls -> Row \cup {None}]
    /\ cast \subseteq Urls
    /\ pc \in [Tasks -> Steps]
    /\ url \in [Tasks -> Urls \cup {None}]
    /\ final \in [Tasks -> Urls \cup {None}]
    /\ got \in [Tasks -> Link \cup {None}]
    /\ attempt \in [Tasks -> Nat] /\ made \in [Tasks -> Nat]
    /\ refused \in [Tasks -> SUBSET Link]
    /\ forwarder \in [Tasks -> {"none", "forwarder", "builtin"}]
    /\ conn \in [Tasks -> {"none", "greeting", "auth", "request", "open"}]
    /\ named \in [Tasks -> BOOLEAN]
    /\ known \in [Urls -> Nat \cup {None}]

\* What a task has at each of its steps: ResolverTypeOK and IsolatedStreams for
\* one task, with what they rest on.
TaskInv(t) ==
    /\ pc[t] # "idle" => url[t] \in Urls
    /\ pc[t] = "idle" => refused[t] = {}
    /\ pc[t] = "voe_redirected" => final[t] \in Urls
    /\ pc[t] \in Seeking => made[t] < MaxLinks[t]
    /\ conn[t] \in {"greeting", "auth", "request"} => forwarder[t] = "forwarder"
    /\ conn[t] = "request" => named[t]
    /\ conn[t] = "open" /\ forwarder[t] = "forwarder" => named[t]
    /\ pc[t] \in {"voe_update", "insert", "found"} <=> got[t] # None
    /\ pc[t] \in Fetches <=> forwarder[t] # "none"
    /\ conn[t] # "none" => pc[t] \in Fetches
    /\ made[t] \in 0 .. MaxLinks[t]
    /\ attempt[t] \in 0 .. MaxRetries + 1

RowsInv == \A u \in Urls :
    table[u] # None => table[u].at <= clock /\ table[u].link.source = u

\* A link that is out of the hands of the task that found it: not the one
\* that this task has in hand, and not one that it is yet to find.
Given(l) ==
    l.by # None =>
        /\ l.nth <= made[l.by]
        /\ pc[l.by] \in Holding => l # got[l.by]

LinkInv ==
    /\ \A t \in Tasks :
        /\ pc[t] \in Holding /\ got[t].by # None =>
             got[t].by = t /\ got[t].nth = made[t]
        /\ pc[t] = "found" => Given(got[t])
        /\ \A l \in refused[t] : Given(l)
    /\ \A u \in Urls : table[u] # None => Given(table[u].link)

\* The cache does not hold, under the URL of a load, a link that it was refused.
RefusedInv ==
    \A t \in Tasks : pc[t] # "idle" /\ table[url[t]] # None =>
        LET link == table[url[t]].link
        IN  link.by # None => link \notin refused[t]

\* A URL that was resolved within the TTL has its row.
KnownInv ==
    \A u \in Urls : known[u] # None =>
        /\ known[u] <= clock
        /\ \/ known[u] + TTL <= clock
           \/ table[u] # None /\ known[u] <= table[u].at

-----------------------------------------------------------------------------
LEMMA TypeInvInit == Init => TypeInv
BY CacheAssumption, ResolverAssumption
   DEF Init, CacheInit, TypeInv, Steps, Holding, Seeking, Fetches

LEMMA GetTyped ==
    ASSUME TypeInv, NEW u \in Urls, get(u) # None
    PROVE  /\ table[u] # None /\ table[u] \in Row /\ get(u) = table[u].link
           /\ get(u) \in Link
BY DEF TypeInv, get, Row

LEMMA InsertTyped ==
    ASSUME TypeInv, NEW l \in Link, insert(l)
    PROVE  table' \in [Urls -> Row \cup {None}]
BY DEF TypeInv, insert, cleanup_stale, Row, Link

LEMMA FoundTyped ==
    ASSUME TypeInv, NEW t \in Tasks, NEW u \in Urls, Found(t, u)
    PROVE  got' \in [Tasks -> Link \cup {None}] /\ made' \in [Tasks -> Nat]
<1>1. [source |-> u, by |-> t, nth |-> made[t] + 1] \in Link
  BY DEF TypeInv, Link
<1> QED BY <1>1 DEF TypeInv, Found

\* The network and the next step of a task, however it goes on.
LEMMA LeaveTyped ==
    ASSUME TypeInv, NEW t \in Tasks, NEW step \in Steps,
           \/ Fetch(t, step) /\ UNCHANGED forwarder
           \/ Leave(t, step)
           \/ Goto(t, step) /\ UNCHANGED netVars
    PROVE  /\ pc' \in [Tasks -> Steps]
           /\ forwarder' \in [Tasks -> {"none", "forwarder", "builtin"}]
           /\ conn' \in [Tasks -> {"none", "greeting", "auth", "request", "open"}]
           /\ named' \in [Tasks -> BOOLEAN]
BY DEF TypeInv, Leave, Fetch, Goto, netVars

LEMMA TypeInvStep ==
    ASSUME TypeInv, \A t \in Tasks : TaskInv(t), [Next]_vars
    PROVE  TypeInv'
<1> USE CacheAssumption, ResolverAssumption DEF TypeInv, Steps, Holding, Seeking, Fetches,
        cacheVars, netVars, loadVars
<1>1. ASSUME NEW t \in Tasks, LoadBegin(t) PROVE TypeInv'
  BY <1>1 DEF LoadBegin, Goto
<1>2. ASSUME NEW t \in Tasks, LoadEnds(t) PROVE TypeInv'
  BY <1>2 DEF LoadEnds, Goto
<1>3. ASSUME NEW t \in Tasks, Refused(t) PROVE TypeInv'
  BY <1>3 DEF Refused, delete, TaskInv, Goto
<1>4. ASSUME NEW t \in Tasks, Hit(t) PROVE TypeInv'
  BY <1>4, GetTyped DEF Hit, TaskInv, Goto
<1>5. ASSUME NEW t \in Tasks, Miss(t) PROVE TypeInv'
  BY <1>5 DEF Miss, TaskInv, FirstTry, Goto
<1>6. ASSUME NEW t \in Tasks, Direct(t) PROVE TypeInv'
  BY <1>6 DEF Direct, Link, TaskInv, Goto
<1>7. ASSUME NEW t \in Tasks, Insert(t) PROVE TypeInv'
  BY <1>7, InsertTyped DEF Insert, TaskInv, Goto
<1>8. ASSUME NEW t \in Tasks, BuildClient(t) PROVE TypeInv'
  BY <1>8 DEF BuildClient, Fetch, Goto
<1>9. ASSUME NEW t \in Tasks, GivesUp(t) PROVE TypeInv'
  BY <1>9, LeaveTyped DEF GivesUp, AfterFailure
<1>10. ASSUME NEW t \in Tasks, Dial(t) PROVE TypeInv'
  BY <1>10 DEF Dial, Goto
<1>11. ASSUME NEW t \in Tasks, DialBuiltin(t) PROVE TypeInv'
  BY <1>11 DEF DialBuiltin, Goto
<1>12. ASSUME NEW t \in Tasks, Greet(t) PROVE TypeInv'
  BY <1>12 DEF Greet, Goto
<1>13. ASSUME NEW t \in Tasks, Authenticate(t) PROVE TypeInv'
  BY <1>13 DEF Authenticate, Goto
<1>14. ASSUME NEW t \in Tasks, Tunnel(t) PROVE TypeInv'
  BY <1>14 DEF Tunnel, Goto
<1>15. ASSUME NEW t \in Tasks, VoeFetched(t) PROVE TypeInv'
  <2>1. url[t] \in Urls
    BY <1>15 DEF VoeFetched, Open, TaskInv
  <2>2. final' \in [Tasks -> Urls \cup {None}]
    BY <1>15 DEF VoeFetched
  <2> QED BY <1>15, <2>1, <2>2, FoundTyped, LeaveTyped DEF VoeFetched
<1>16. ASSUME NEW t \in Tasks, VoeRedirected(t) PROVE TypeInv'
  <2>1. final[t] \in Urls
    BY <1>16 DEF VoeRedirected, Open, TaskInv
  <2> QED BY <1>16, <2>1, FoundTyped, LeaveTyped DEF VoeRedirected
<1>17. ASSUME NEW t \in Tasks, VoeUpdated(t) PROVE TypeInv'
  BY <1>17, LeaveTyped DEF VoeUpdated
<1>18. ASSUME NEW t \in Tasks, DoodMain(t) PROVE TypeInv'
  <2>1. url[t] \in Urls
    BY <1>18 DEF DoodMain, Open, TaskInv
  <2> QED BY <1>18, <2>1, FoundTyped, LeaveTyped DEF DoodMain
<1>19. ASSUME NEW t \in Tasks, DoodEmbed(t) PROVE TypeInv'
  <2>1. url[t] \in Urls
    BY <1>19 DEF DoodEmbed, Open, TaskInv
  <2> QED BY <1>19, <2>1, FoundTyped, LeaveTyped DEF DoodEmbed
<1>20. ASSUME NEW t \in Tasks, YouTubeFetched(t) PROVE TypeInv'
  <2>1. url[t] \in Urls
    BY <1>20 DEF YouTubeFetched, Open, TaskInv
  <2> QED BY <1>20, <2>1, FoundTyped, LeaveTyped DEF YouTubeFetched, AfterFailure
<1>21. ASSUME NEW t \in Tasks, Ytdlp(t) PROVE TypeInv'
  <2>1. url[t] \in Urls
    BY <1>21 DEF Ytdlp, Open, TaskInv
  <2> QED BY <1>21, <2>1, FoundTyped, LeaveTyped DEF Ytdlp
<1>22. CASE Clock
  BY <1>22 DEF Clock, Tick
<1>23. CASE Restart
  BY <1>23 DEF Restart
<1>24. CASE UNCHANGED vars
  BY <1>24 DEF vars
<1> QED
  BY <1>1, <1>2, <1>3, <1>4, <1>5, <1>6, <1>7, <1>8, <1>9, <1>10, <1>11, <1>12, <1>13, <1>14, <1>15, <1>16, <1>17, <1>18, <1>19, <1>20, <1>21, <1>22, <1>23, <1>24
  DEF Next, Resolve, Forwarder, Extract

-----------------------------------------------------------------------------
\* A step of t leaves the other tasks alone.
OthersStay(t) == \A s \in Tasks \ {t} :
    /\ pc'[s] = pc[s] /\ url'[s] = url[s] /\ final'[s] = final[s]
    /\ got'[s] = got[s] /\ attempt'[s] = attempt[s] /\ made'[s] = made[s]
    /\ refused'[s] = refused[s] /\ forwarder'[s] = forwarder[s]
    /\ conn'[s] = conn[s] /\ (named'[s] <=> named[s])

TaskStep(t) ==
    \/ LoadBegin(t) \/ LoadEnds(t) \/ Refused(t)
    \/ Resolve(t) \/ Forwarder(t) \/ Extract(t)

LEMMA StepOthers ==
    ASSUME TypeInv, NEW t \in Tasks, TaskStep(t)
    PROVE  OthersStay(t)
<1> USE DEF TypeInv, OthersStay, cacheVars, netVars, loadVars, Goto, Fetch, Leave, Found
<1>1. CASE LoadBegin(t)
  BY <1>1 DEF LoadBegin
<1>2. CASE LoadEnds(t)
  BY <1>2 DEF LoadEnds
<1>3. CASE Refused(t)
  BY <1>3 DEF Refused
<1>4. CASE Hit(t)
  BY <1>4 DEF Hit
<1>5. CASE Miss(t)
  BY <1>5 DEF Miss
<1>6. CASE Direct(t)
  BY <1>6 DEF Direct
<1>7. CASE Insert(t)
  BY <1>7 DEF Insert
<1>8. CASE BuildClient(t)
  BY <1>8 DEF BuildClient
<1>9. CASE GivesUp(t)
  BY <1>9 DEF GivesUp
<1>10. CASE Dial(t)
  BY <1>10 DEF Dial
<1>11. CASE DialBuiltin(t)
  BY <1>11 DEF DialBuiltin
<1>12. CASE Greet(t)
  BY <1>12 DEF Greet
<1>13. CASE Authenticate(t)
  BY <1>13 DEF Authenticate
<1>14. CASE Tunnel(t)
  BY <1>14 DEF Tunnel
<1>15. CASE VoeFetched(t)
  BY <1>15 DEF VoeFetched
<1>16. CASE VoeRedirected(t)
  BY <1>16 DEF VoeRedirected
<1>17. CASE VoeUpdated(t)
  BY <1>17 DEF VoeUpdated
<1>18. CASE DoodMain(t)
  BY <1>18 DEF DoodMain
<1>19. CASE DoodEmbed(t)
  BY <1>19 DEF DoodEmbed
<1>20. CASE YouTubeFetched(t)
  BY <1>20 DEF YouTubeFetched
<1>21. CASE Ytdlp(t)
  BY <1>21 DEF Ytdlp
<1> QED BY <1>1, <1>2, <1>3, <1>4, <1>5, <1>6, <1>7, <1>8, <1>9, <1>10, <1>11, <1>12, <1>13, <1>14, <1>15, <1>16, <1>17, <1>18, <1>19, <1>20, <1>21
  DEF TaskStep, Resolve, Forwarder, Extract

\* How an extractor or yt-dlp goes on: it has found a link, looks elsewhere,
\* or is done with what follows upon a link.
Finds(t) ==
    /\ pc[t] \in Seeking \ {"lookup", "direct"}
    /\ \E u \in Urls : Found(t, u)
    /\ \/ pc[t] \in Fetches /\ Fetch(t, "voe_update") /\ UNCHANGED forwarder
       \/ pc[t] \in Fetches /\ Leave(t, "insert")
       \/ pc[t] = "ytdlp" /\ Goto(t, "insert") /\ UNCHANGED netVars

Turns(t) ==
    /\ pc[t] \in Seeking \ {"lookup", "direct"}
    /\ UNCHANGED <<got, made>>
    /\ \/ /\ pc[t] \in Fetches /\ UNCHANGED forwarder
          /\ \/ Fetch(t, "dood_embed")
             \/ Fetch(t, "voe_redirected") /\ final'[t] \in Urls
       \/ \E step \in {"client_voe", "ytdlp", "failed"} : Leave(t, step)
       \/ pc[t] = "ytdlp" /\ Goto(t, "failed") /\ UNCHANGED netVars

Stores(t) == pc[t] = "voe_update" /\ Leave(t, "insert") /\ UNCHANGED <<got, made>>

LEMMA ExtractShape ==
    ASSUME TypeInv, NEW t \in Tasks, TaskInv(t), Extract(t) \/ GivesUp(t)
    PROVE  /\ Finds(t) \/ Turns(t) \/ Stores(t)
           /\ UNCHANGED <<cacheVars, loadVars, known>>
<1> USE ResolverAssumption DEF Seeking, Fetches, Open
<1> url[t] \in Urls \/ pc[t] = "idle"
  BY DEF TaskInv
<1> pc[t] = "voe_redirected" => final[t] \in Urls
  BY DEF TaskInv
<1>1. CASE VoeFetched(t)
  <2> PICK page \in Pages :
        \/ /\ page.to \notin {None, url[t]}
           /\ final' = [final EXCEPT ![t] = page.to]
           /\ Fetch(t, "voe_redirected")
           /\ UNCHANGED <<got, made, forwarder>>
        \/ IF Choice!VoeChoice(page) # None
           THEN Found(t, url[t]) /\ Fetch(t, "voe_update") /\ UNCHANGED forwarder
           ELSE Leave(t, "ytdlp") /\ UNCHANGED <<got, made>>
    BY <1>1 DEF VoeFetched
  <2>1. page.to \notin {None} /\ final' = [final EXCEPT ![t] = page.to] => final'[t] \in Urls
    BY DEF TypeInv
  <2>2. Finds(t) \/ Turns(t)
    BY <1>1, <2>1 DEF VoeFetched, Finds, Turns
  <2> QED BY <1>1, <2>2 DEF VoeFetched
<1>2. CASE VoeRedirected(t)
  BY <1>2 DEF VoeRedirected, Finds, Turns
<1>3. CASE VoeUpdated(t)
  BY <1>3 DEF VoeUpdated, Stores
<1>4. CASE DoodMain(t)
  BY <1>4 DEF DoodMain, Finds, Turns
<1>5. CASE DoodEmbed(t)
  BY <1>5 DEF DoodEmbed, Finds, Turns
<1>6. CASE YouTubeFetched(t)
  BY <1>6 DEF YouTubeFetched, AfterFailure, Finds, Turns
<1>7. CASE Ytdlp(t)
  BY <1>7 DEF Ytdlp, Finds, Turns
<1>8. CASE GivesUp(t)
  BY <1>8 DEF GivesUp, AfterFailure, Turns, Stores
<1> QED BY <1>1, <1>2, <1>3, <1>4, <1>5, <1>6, <1>7, <1>8 DEF Extract

LEMMA TaskInvStep ==
    ASSUME TypeInv, NEW t \in Tasks, TaskInv(t), TaskStep(t)
    PROVE  TaskInv(t)'
<1> USE CacheAssumption, ResolverAssumption
    DEF TypeInv, TaskInv, cacheVars, netVars, loadVars, Goto, Fetch, Leave,
        Steps, Holding, Seeking, Fetches
<1>1. CASE LoadBegin(t)
  BY <1>1 DEF LoadBegin
<1>2. CASE LoadEnds(t)
  BY <1>2 DEF LoadEnds
<1>3. CASE Refused(t)
  BY <1>3 DEF Refused
<1>4. CASE Hit(t)
  BY <1>4, GetTyped DEF Hit
<1>5. CASE Miss(t)
  BY <1>5 DEF Miss, FirstTry
<1>6. CASE Direct(t)
  BY <1>6 DEF Direct, Link
<1>7. CASE Insert(t)
  BY <1>7 DEF Insert
<1>8. CASE BuildClient(t)
  BY <1>8 DEF BuildClient
<1>9. CASE Dial(t)
  BY <1>9 DEF Dial
<1>10. CASE DialBuiltin(t)
  BY <1>10 DEF DialBuiltin
<1>11. CASE Greet(t)
  BY <1>11 DEF Greet
<1>12. CASE Authenticate(t)
  BY <1>12 DEF Authenticate
<1>13. CASE Tunnel(t)
  BY <1>13 DEF Tunnel
<1>14. ASSUME Extract(t) \/ GivesUp(t) PROVE TaskInv(t)'
  <2>1. CASE Finds(t)
    <3>1. got'[t] # None
      BY <2>1, FoundTyped DEF Finds, Found, Link
    <3> QED BY <1>14, <2>1, <3>1, ExtractShape DEF Finds, Found
  <2>2. CASE Turns(t)
    BY <1>14, <2>2, ExtractShape DEF Turns
  <2>3. CASE Stores(t)
    <3>1. /\ pc[t] = "voe_update" /\ pc'[t] = "insert"
          /\ forwarder'[t] = "none" /\ conn'[t] = "none"
      BY <2>3 DEF Stores
    <3>2. UNCHANGED <<got, made, loadVars>>
      BY <1>14, <2>3, ExtractShape DEF Stores
    <3> QED BY <3>1, <3>2
  <2> QED BY <1>14, <2>1, <2>2, <2>3, ExtractShape
<1> QED BY <1>1, <1>2, <1>3, <1>4, <1>5, <1>6, <1>7, <1>8, <1>9, <1>10, <1>11, <1>12, <1>13, <1>14
  DEF TaskStep, Resolve, Forwarder, Extract

-----------------------------------------------------------------------------
\* A step between the look into the cache and the insertion; if the task has
\* a link afterwards, it is the one it had or a new one.
Quiet(t) ==
    /\ UNCHANGED <<cacheVars, loadVars, known>>
    /\ pc[t] \notin {"idle", "found", "insert", "failed"}
    /\ pc'[t] \notin {"idle", "found"}
    /\ made'[t] >= made[t]
    /\ pc'[t] \in Holding =>
         \/ pc[t] \in Holding /\ got'[t] = got[t] /\ made'[t] = made[t]
         \/ got'[t].by = None
         \/ got'[t].by = t /\ got'[t].nth = made'[t] /\ made'[t] > made[t]

LEMMA QuietSteps ==
    ASSUME TypeInv, NEW t \in Tasks, TaskInv(t), TaskStep(t)
    PROVE  \/ LoadBegin(t) \/ LoadEnds(t) \/ Refused(t)
           \/ Hit(t) \/ Insert(t) \/ Quiet(t)
<1> USE DEF TypeInv, cacheVars, netVars, loadVars, Goto, Fetch, Leave, Quiet,
            Steps, Holding, Seeking, Fetches
<1>1. CASE Miss(t)
  BY <1>1 DEF Miss, FirstTry
<1>2. CASE Direct(t)
  BY <1>2 DEF Direct
<1>3. CASE BuildClient(t)
  BY <1>3 DEF BuildClient
<1>4. CASE Forwarder(t)
  <2>1. pc[t] \in Fetches /\ UNCHANGED <<pc, got, made, cacheVars, loadVars, known>>
    BY <1>4 DEF Forwarder, Dial, DialBuiltin, Greet, Authenticate, Tunnel, TaskInv
  <2> QED BY <2>1
<1>5. CASE Extract(t) \/ GivesUp(t)
  <2>1. CASE Finds(t)
    <3>1. /\ made'[t] = made[t] + 1 /\ made[t] \in Nat
          /\ got'[t].by = t /\ got'[t].nth = made[t] + 1
      BY <2>1 DEF Finds, Found
    <3>2. pc[t] \notin {"idle", "found", "insert", "failed"} /\ pc'[t] \in Holding
      BY <2>1 DEF Finds
    <3>3. UNCHANGED <<cacheVars, loadVars, known>>
      BY <1>5, ExtractShape
    <3> QED BY <3>1, <3>2, <3>3
  <2>2. CASE Turns(t)
    BY <1>5, <2>2, ExtractShape DEF Turns
  <2>3. CASE Stores(t)
    <3>1. /\ pc[t] = "voe_update" /\ pc'[t] = "insert"
          /\ UNCHANGED <<got, made>> /\ made[t] \in Nat
      BY <2>3 DEF Stores
    <3>2. UNCHANGED <<cacheVars, loadVars, known>>
      BY <1>5, ExtractShape
    <3> QED BY <3>1, <3>2
  <2> QED BY <1>5, <2>1, <2>2, <2>3, ExtractShape
<1> QED BY <1>1, <1>2, <1>3, <1>4, <1>5 DEF TaskStep, Resolve

\* A link stays given: its task has it no more, and makes others.
LEMMA GivenStays ==
    ASSUME TypeInv, TypeInv', NEW t \in Tasks, OthersStay(t), made'[t] >= made[t],
           pc'[t] \in Holding =>
               \/ pc[t] \in Holding /\ got'[t] = got[t]
               \/ got'[t].by # t
               \/ got'[t].nth > made[t],
           NEW l \in Link, Given(l)
    PROVE  Given(l)'
<1>1. l.by \in Tasks \cup {None} /\ l.nth \in Nat
  BY DEF Link
<1> USE DEF TypeInv, Given
<1>2. CASE l.by \in Tasks \ {t}
  <2>1. /\ made'[l.by] = made[l.by] /\ pc'[l.by] = pc[l.by]
        /\ got'[l.by] = got[l.by]
    BY <1>2 DEF OthersStay
  <2> QED BY <1>2, <2>1
<1>3. CASE l.by = t
  <2>1. l.nth <= made[t] /\ (pc[t] \in Holding => l # got[t])
    BY <1>3, ResolverAssumption
  <2>2. l.nth <= made'[t]
    BY <1>1, <2>1
  <2>3. pc'[t] \in Holding => l # got'[t]
    <3>1. got'[t].nth > made[t] => l.nth # got'[t].nth
      BY <1>1, <2>1
    <3> QED BY <1>3, <2>1, <3>1
  <2> QED BY <1>3, <2>2, <2>3
<1> QED BY <1>1, <1>2, <1>3

LEMMA InsertRows ==
    ASSUME TypeInv, NEW l \in Link, insert(l), NEW u \in Urls
    PROVE  \/ table'[u] = None
           \/ table'[u] = table[u]
           \/ u = l.source /\ table'[u] = [link |-> l, at |-> clock]
BY DEF TypeInv, insert, cleanup_stale, Link

\* What a step of t does to the rows.
LEMMA RowsStep ==
    ASSUME TypeInv, NEW t \in Tasks, TaskInv(t), TaskStep(t), NEW u \in Urls
    PROVE  \/ table'[u] = None
           \/ table'[u] = table[u]
           \/ /\ Insert(t) /\ got[t] \in Link /\ u = got[t].source
              /\ table'[u] = [link |-> got[t], at |-> clock]
<1>1. CASE Insert(t)
  BY <1>1, InsertRows DEF Insert, TaskInv, TypeInv
<1>2. CASE Refused(t)
  BY <1>2 DEF Refused, delete, TypeInv
<1> QED BY <1>1, <1>2, QuietSteps
        DEF LoadBegin, LoadEnds, Hit, Quiet, cacheVars

LEMMA LinkInvStep ==
    ASSUME TypeInv, TypeInv', LinkInv, \A s \in Tasks : TaskInv(s),
           NEW t \in Tasks, TaskStep(t)
    PROVE  LinkInv'
<1> USE DEF Holding
<1>0. OthersStay(t)
  BY StepOthers
<1>1. ASSUME NEW l \in Link, Given(l) PROVE Given(l)'
  <2>1. /\ made'[t] >= made[t]
        /\ pc'[t] \in Holding =>
               \/ pc[t] \in Holding /\ got'[t] = got[t]
               \/ got'[t].by # t
               \/ got'[t].nth > made[t]
    <3>1. CASE Quiet(t)
      BY <3>1, ResolverAssumption DEF Quiet, TypeInv
    <3>2. CASE LoadBegin(t) \/ LoadEnds(t) \/ Refused(t) \/ Hit(t) \/ Insert(t)
      BY <3>2 DEF LoadBegin, LoadEnds, Refused, Hit, Insert, Goto, TypeInv
    <3> QED BY <3>1, <3>2, QuietSteps
  <2> QED BY <1>0, <1>1, <2>1, GivenStays
<1>2. ASSUME NEW s \in Tasks, pc'[s] \in Holding, got'[s].by # None
      PROVE  got'[s].by = s /\ got'[s].nth = made'[s]
  <2>1. CASE s # t
    BY <1>0, <1>2, <2>1 DEF OthersStay, LinkInv
  <2>2. CASE s = t
    <3>1. Quiet(t)
      BY <1>2, <2>2, QuietSteps
         DEF LoadBegin, LoadEnds, Refused, Hit, Insert, Goto, TypeInv
    <3> QED BY <1>2, <2>2, <3>1 DEF Quiet, LinkInv
  <2> QED BY <2>1, <2>2
<1>3. ASSUME NEW s \in Tasks, pc'[s] = "found"
      PROVE  Given(got[s])'
  <2>1. CASE s # t
    <3>1. got'[s] = got[s] /\ pc[s] = "found"
      BY <1>0, <1>3, <2>1 DEF OthersStay
    <3>2. got[s] \in Link /\ Given(got[s])
      BY <3>1 DEF TaskInv, TypeInv, LinkInv
    <3> QED BY <1>1, <3>1, <3>2
  <2>2. CASE s = t /\ Hit(t)
    <3>1. url[t] \in Urls /\ get(url[t]) # None /\ got'[t] = get(url[t])
      BY <2>2 DEF Hit, TaskInv, TypeInv
    <3>2. got'[t] \in Link /\ Given(got'[t])
      BY <3>1, GetTyped DEF LinkInv
    <3> QED BY <1>1, <2>2, <3>2
  <2>3. CASE s = t /\ Insert(t)
    <3>1. /\ got' = got /\ made' = made /\ pc'[t] = "found"
          /\ got[t].by # None => got[t].by = t /\ got[t].nth = made[t]
          /\ made[t] \in Nat
      BY <2>3 DEF Insert, Goto, TypeInv, LinkInv
    <3> QED BY <2>3, <3>1 DEF Given
  <2>4. s = t => Hit(t) \/ Insert(t)
    BY <1>3, QuietSteps DEF Quiet, LoadBegin, LoadEnds, Refused, Goto, TypeInv
  <2> QED BY <2>1, <2>2, <2>3, <2>4
<1>4. ASSUME NEW s \in Tasks, NEW l \in refused'[s]
      PROVE  Given(l)'
  <2>1. l \in Link
    BY <1>4 DEF TypeInv
  <2>2. l \in refused[s] \/ (s = t /\ Refused(t) /\ l = got[t])
    <3>1. CASE s # t
      <4>1. refused'[s] = refused[s]
        BY <1>0, <3>1 DEF OthersStay
      <4> QED BY <4>1
    <3>2. CASE s = t
      <4>1. \/ refused'[t] = refused[t] \/ refused'[t] = {}
            \/ Refused(t) /\ refused'[t] = refused[t] \cup {got[t]}
        BY QuietSteps
           DEF Quiet, LoadBegin, LoadEnds, Refused, Hit, Insert, loadVars, TypeInv
      <4> QED BY <3>2, <4>1
    <3> QED BY <3>1, <3>2
  <2>3. Given(l)
    BY <2>2 DEF LinkInv, Refused
  <2> QED BY <1>1, <2>1, <2>3
<1>5. ASSUME NEW u \in Urls, table'[u] # None
      PROVE  Given(table[u].link)'
  <2>1. CASE table'[u] = table[u]
    <3>1. table[u].link \in Link /\ Given(table[u].link)
      BY <1>5, <2>1 DEF TypeInv, Row, LinkInv
    <3> QED BY <1>1, <2>1, <3>1
  <2>2. CASE Insert(t) /\ table'[u].link = got[t]
    <3>1. pc'[t] = "found" /\ got' = got
      BY <2>2 DEF Insert, Goto, TypeInv
    <3> QED BY <1>3, <2>2, <3>1
  <2>3. table'[u] = table[u] \/ (Insert(t) /\ table'[u] = [link |-> got[t], at |-> clock])
    BY <1>5, RowsStep
  <2> QED BY <2>1, <2>2, <2>3
<1> QED BY <1>2, <1>3, <1>4, <1>5 DEF LinkInv

\* The link that a task is about to store has been refused to nobody.
LEMMA HeldIsNotRefused ==
    ASSUME TypeInv, LinkInv, NEW t \in Tasks, pc[t] \in Holding,
           got[t].by # None, NEW s \in Tasks
    PROVE  got[t] \notin refused[s]
<1>1. got[t].by = t
  BY DEF LinkInv
<1>2. \A l \in refused[s] : Given(l)
  BY DEF LinkInv
<1> QED BY <1>1, <1>2 DEF Given

LEMMA RefusedInvStep ==
    ASSUME TypeInv, LinkInv, RefusedInv, \A s \in Tasks : TaskInv(s),
           NEW t \in Tasks, TaskStep(t)
    PROVE  RefusedInv'
<1> SUFFICES ASSUME NEW s \in Tasks, pc'[s] # "idle", table'[url'[s]] # None,
                    table'[url'[s]].link.by # None
             PROVE  table'[url'[s]].link \notin refused'[s]
  BY DEF RefusedInv
<1>0. OthersStay(t)
  BY StepOthers
<1>1. CASE LoadBegin(t) /\ s = t
  BY <1>1 DEF LoadBegin, TaskInv
<1>2. CASE Refused(t) /\ s = t
  BY <1>2 DEF Refused, delete, TaskInv, TypeInv
<1>3. CASE ~(LoadBegin(t) /\ s = t) /\ ~(Refused(t) /\ s = t)
  <2>1. /\ url'[s] = url[s] /\ refused'[s] = refused[s]
        /\ pc[s] # "idle" /\ url[s] \in Urls
    <3>1. CASE s # t
      <4>1. pc'[s] = pc[s] /\ url'[s] = url[s] /\ refused'[s] = refused[s]
        BY <1>0, <3>1 DEF OthersStay
      <4> QED BY <4>1 DEF TaskInv
    <3>2. CASE s = t
      <4>1. Hit(t) \/ Insert(t) \/ Quiet(t)
        BY <1>3, <3>2, QuietSteps DEF LoadEnds, Goto, TypeInv
      <4> QED BY <3>2, <4>1 DEF Hit, Insert, Quiet, loadVars, TaskInv
    <3> QED BY <3>1, <3>2
  <2>2. CASE table'[url[s]] = table[url[s]]
    BY <2>1, <2>2 DEF RefusedInv
  <2>3. CASE Insert(t) /\ table'[url[s]] = [link |-> got[t], at |-> clock]
    <3>1. pc[t] \in Holding /\ table'[url[s]].link = got[t]
      BY <2>3 DEF Insert, Holding
    <3> QED BY <2>1, <3>1, HeldIsNotRefused
  <2> QED BY <2>1, <2>2, <2>3, RowsStep
<1> QED BY <1>1, <1>2, <1>3

LEMMA RefusedLinkStep ==
    ASSUME TypeInv, LinkInv, RefusedInv, RefusedLinkIsGone,
           \A s \in Tasks : TaskInv(s), NEW t \in Tasks, TaskStep(t)
    PROVE  RefusedLinkIsGone'
<1> SUFFICES ASSUME NEW s \in Tasks, pc'[s] = "found", got'[s].by # None
             PROVE  got'[s] \notin refused'[s]
  BY DEF RefusedLinkIsGone
<1>1. CASE s # t
  <2>1. pc'[s] = pc[s] /\ got'[s] = got[s] /\ refused'[s] = refused[s]
    BY <1>1, StepOthers DEF OthersStay
  <2> QED BY <2>1 DEF RefusedLinkIsGone
<1>2. CASE s = t /\ Hit(t)
  <2>1. /\ url[t] \in Urls /\ get(url[t]) # None /\ got'[t] = get(url[t])
        /\ refused'[t] = refused[t] /\ pc[t] # "idle"
    BY <1>2 DEF Hit, TaskInv, TypeInv, loadVars
  <2> QED BY <1>2, <2>1, GetTyped DEF RefusedInv
<1>3. CASE s = t /\ Insert(t)
  <2>1. pc[t] \in Holding /\ got' = got /\ refused' = refused
    BY <1>3 DEF Insert, Holding, loadVars
  <2> QED BY <1>3, <2>1, HeldIsNotRefused
<1>4. s = t => Hit(t) \/ Insert(t)
  BY QuietSteps DEF Quiet, LoadBegin, LoadEnds, Refused, Goto, TypeInv
<1> QED BY <1>1, <1>2, <1>3, <1>4

-----------------------------------------------------------------------------
LEMMA RowsInvStep ==
    ASSUME TypeInv, RowsInv, NEW t \in Tasks, TaskInv(t), TaskStep(t)
    PROVE  RowsInv'
<1>1. clock' = clock
  BY QuietSteps DEF LoadBegin, LoadEnds, Refused, Hit, Insert, Quiet, cacheVars
<1>2. ASSUME NEW u \in Urls, table'[u] # None
      PROVE  table'[u].at <= clock /\ table'[u].link.source = u
  <2>1. CASE table'[u] = [link |-> got[t], at |-> clock] /\ u = got[t].source
    BY <2>1 DEF TypeInv
  <2> QED BY <1>2, <2>1, RowsStep DEF RowsInv
<1> QED BY <1>1, <1>2 DEF RowsInv

\* A row that the clean-up throws away is older than the TTL.
LEMMA KnownInvStep ==
    ASSUME TypeInv, RowsInv, KnownInv, NEW t \in Tasks, TaskInv(t), TaskStep(t)
    PROVE  KnownInv'
<1> USE CacheAssumption, ResolverAssumption
<1>1. CASE Insert(t)
  <2>1. /\ got[t] \in Link /\ insert(got[t]) /\ clock' = clock /\ clock \in Nat
        /\ url[t] \in Urls
    BY <1>1 DEF Insert, TaskInv, TypeInv
  <2>2. ASSUME NEW u \in Urls, known'[u] # None
        PROVE  /\ known'[u] <= clock
               /\ \/ known'[u] + TTL <= clock
                  \/ table'[u] # None /\ known'[u] <= table'[u].at
    <3>1. CASE u = got[t].source
      <4>1. table'[u] = [link |-> got[t], at |-> clock]
        BY <2>1, <3>1 DEF insert, cleanup_stale, Older, TypeInv
      <4>2. table'[u] \in Row /\ table'[u].at = clock
        BY <2>1, <4>1 DEF Row
      <4>3. known'[u] = clock \/ known'[u] = known[u]
        BY <1>1 DEF Insert, TypeInv
      <4>4. known'[u] <= clock
        BY <2>1, <2>2, <4>3 DEF KnownInv
      <4> QED BY <4>2, <4>4
    <3>2. CASE u # got[t].source
      <4>1. known'[u] = known[u] /\ known[u] \in Nat
        BY <1>1, <2>2, <3>2 DEF Insert, TypeInv
      <4>2. table'[u] = IF Older(table[u], CleanupAge) THEN None ELSE table[u]
        BY <2>1, <3>2 DEF insert, cleanup_stale, TypeInv
      <4>3. CASE table[u] # None /\ known[u] <= table[u].at
        <5>1. table[u].at \in Nat
          BY <4>3 DEF TypeInv, Row
        <5>2. Older(table[u], CleanupAge) => known[u] + TTL <= clock
          BY <2>1, <4>1, <4>3, <5>1 DEF Older
        <5> QED BY <2>2, <4>1, <4>2, <4>3, <5>2 DEF KnownInv
      <4> QED BY <2>2, <4>1, <4>3 DEF KnownInv
    <3> QED BY <3>1, <3>2
  <2> QED BY <2>1, <2>2 DEF KnownInv
<1>2. CASE Refused(t)
  <2>1. url[t] \in Urls /\ clock' = clock
    BY <1>2 DEF Refused, TaskInv
  <2> QED BY <1>2, <2>1 DEF Refused, delete, TypeInv, KnownInv
<1>3. CASE LoadBegin(t) \/ LoadEnds(t) \/ Hit(t) \/ Quiet(t)
  <2>1. UNCHANGED <<clock, table, known>>
    BY <1>3 DEF LoadBegin, LoadEnds, Hit, Quiet, cacheVars
  <2> QED BY <2>1 DEF KnownInv
<1> QED BY <1>1, <1>2, <1>3, QuietSteps

-----------------------------------------------------------------------------
Inv ==
    /\ TypeInv /\ RowsInv /\ \A t \in Tasks : TaskInv(t)
    /\ LinkInv /\ RefusedInv /\ RefusedLinkIsGone /\ KnownInv

LEMMA InvInit == Init => Inv
<1> SUFFICES ASSUME Init PROVE Inv
  OBVIOUS
<1> USE CacheAssumption, ResolverAssumption DEF Init, CacheInit
<1>1. TypeInv
  BY TypeInvInit
<1>2. RowsInv /\ KnownInv
  BY DEF RowsInv, KnownInv
<1>3. \A t \in Tasks : TaskInv(t)
  BY DEF TaskInv, Seeking, Fetches
<1>4. LinkInv /\ RefusedInv /\ RefusedLinkIsGone
  BY DEF LinkInv, RefusedInv, RefusedLinkIsGone, Holding
<1> QED BY <1>1, <1>2, <1>3, <1>4 DEF Inv

LEMMA InvTask ==
    ASSUME Inv, TypeInv', NEW t \in Tasks, TaskStep(t)
    PROVE  Inv'
<1> USE DEF Inv
<1>1. RowsInv' /\ KnownInv' /\ LinkInv' /\ RefusedInv' /\ RefusedLinkIsGone'
  BY RowsInvStep, KnownInvStep, LinkInvStep, RefusedInvStep, RefusedLinkStep
<1>2. ASSUME NEW s \in Tasks PROVE TaskInv(s)'
  <2>1. CASE s = t
    BY <2>1, TaskInvStep
  <2>2. CASE s # t
    <3>1. OthersStay(t)
      BY StepOthers
    <3> QED BY <2>2, <3>1 DEF OthersStay, TaskInv
  <2> QED BY <2>1, <2>2
<1> QED BY <1>1, <1>2

LEMMA InvStep == Inv /\ [Next]_vars => Inv'
<1> SUFFICES ASSUME Inv, [Next]_vars PROVE Inv'
  OBVIOUS
<1> USE CacheAssumption, ResolverAssumption
<1>1. TypeInv'
  BY TypeInvStep DEF Inv
<1>2. ASSUME NEW t \in Tasks, TaskStep(t) PROVE Inv'
  BY <1>1, <1>2, InvTask
<1>3. CASE Clock
  <2>1. /\ clock' = clock + 1 /\ clock \in Nat
        /\ UNCHANGED <<table, pc, final, got, made, netVars, loadVars, known>>
    BY <1>3 DEF Clock, Tick, Inv, TypeInv
  <2>2. (\A t \in Tasks : TaskInv(t))' /\ LinkInv' /\ RefusedInv' /\ RefusedLinkIsGone'
    BY <2>1 DEF Inv, TaskInv, LinkInv, Given, RefusedInv, RefusedLinkIsGone,
                netVars, loadVars
  <2>3. RowsInv'
    BY <2>1 DEF Inv, RowsInv, TypeInv, Row
  <2>4. KnownInv'
    BY <2>1 DEF Inv, KnownInv, TypeInv
  <2> QED BY <1>1, <2>2, <2>3, <2>4 DEF Inv
<1>4. CASE Restart
  <2>1. (\A t \in Tasks : TaskInv(t))'
    BY <1>4 DEF Restart, Inv, TaskInv, TypeInv, Seeking, Fetches
  <2>2. LinkInv'
    BY <1>4 DEF Restart, Inv, LinkInv, Given, Holding, TypeInv, Row, Link, cacheVars
  <2>3. RefusedInv' /\ RefusedLinkIsGone'
    BY <1>4 DEF Restart, RefusedInv, RefusedLinkIsGone
  <2>4. RowsInv' /\ KnownInv'
    BY <1>4 DEF Restart, Inv, RowsInv, KnownInv, cacheVars
  <2> QED BY <1>1, <2>1, <2>2, <2>3, <2>4 DEF Inv
<1>5. CASE UNCHANGED vars
  <2>1. UNCHANGED <<clock, table, pc, final, got, made, forwarder, conn, named,
                    cast, url, attempt, refused, known>>
    BY <1>5 DEF vars, netVars, loadVars
  <2>2. (\A t \in Tasks : TaskInv(t))' /\ RowsInv' /\ KnownInv'
    BY <2>1 DEF Inv, TaskInv, RowsInv, KnownInv
  <2>3. LinkInv' /\ RefusedInv' /\ RefusedLinkIsGone'
    BY <2>1 DEF Inv, LinkInv, Given, RefusedInv, RefusedLinkIsGone
  <2> QED BY <1>1, <2>2, <2>3 DEF Inv
<1> QED BY <1>2, <1>3, <1>4, <1>5 DEF Next, TaskStep

LEMMA Invariance == Spec => []Inv
<1> QED BY InvInit, InvStep, PTL DEF Spec

\* A link is there exactly while it is needed, a forwarder lives as long as
\* the extractor that started it, and what a load finds and retries is bounded
\* (resolve, ResolverSocksForwarder, SessionManager::load).
THEOREM ResolverTypeCorrect == Spec => []ResolverTypeOK
<1>1. Inv => ResolverTypeOK
  BY DEF Inv, RowsInv, TaskInv, ResolverTypeOK
<1> QED BY <1>1, Invariance, PTL

\* However Tor, the sites and the loads interleave, nothing is fetched through
\* our forwarder on a circuit without the name that isolates it
\* (resolver_socks.rs, socks5_connect).
THEOREM StreamsAreIsolated == Spec => []IsolatedStreams
<1>1. Inv => IsolatedStreams
  BY DEF Inv, TaskInv, IsolatedStreams
<1> QED BY <1>1, Invariance, PTL

\* A load is not given again a link that the CDN has refused it, however many
\* loads resolve the same URLs meanwhile (Resolver::invalidate_cache).
THEOREM RefusedStaysAway == Spec => []RefusedLinkIsGone
<1>1. Inv => RefusedLinkIsGone
  BY DEF Inv
<1> QED BY <1>1, Invariance, PTL

\* A URL that was resolved within the TTL and not invalidated since is not
\* resolved again, whatever the clean-up and restarts do (cache.rs).
THEOREM NothingIsFetchedTwice == Spec => MissMeansNew
<1>1. ASSUME Inv, [Next]_vars, NEW t \in Tasks, Miss(t)
      PROVE  known[url[t]] = None \/ known[url[t]] + TTL <= clock
  <2>1. url[t] \in Urls /\ get(url[t]) = None
    BY <1>1 DEF Miss, Inv, TaskInv
  <2>2. table[url[t]] # None => table[url[t]].at \in Nat /\ table[url[t]] \in Row
    BY <1>1, <2>1 DEF Inv, TypeInv, Row
  <2>3. table[url[t]] # None => table[url[t]].link \in Link
    BY <2>2 DEF Row
  <2>4. table[url[t]] # None => table[url[t]].at + TTL <= clock
    BY <1>1, <2>1, <2>2, <2>3, CacheAssumption, ResolverAssumption
       DEF get, Inv, TypeInv
  <2>5. CASE known[url[t]] # None
    BY <1>1, <2>1, <2>2, <2>4, <2>5, CacheAssumption DEF Inv, KnownInv, TypeInv
  <2> QED BY <2>5
<1>2. Inv /\ [Next]_vars =>
        [\A t \in Tasks :
            Miss(t) => known[url[t]] = None \/ known[url[t]] + TTL <= clock]_vars
  BY <1>1
<1> QED BY <1>2, Invariance, PTL DEF Spec, MissMeansNew
=============================================================================
