# boGDan in TLA+

boGDan turns a Raspberry Pi into a cast receiver: a browser extension or an
HTTP, WebSocket or DLNA client casts a URL, boGDan resolves it through Tor,
acquires the display through DRM/KMS and plays it with GStreamer. This directory
holds TLA+ specifications of that program, the TLC configurations that check
them and proofs about them that TLAPS checks.

    tlc -config session_concurrent.cfg MCSessionManager     # check a run
    tlapm SessionManagerProofs.tla                          # check proofs

## 1. The system

| part | source | state | operations |
|---|---|---|---|
| session manager | `src/session/src/lib.rs` | slot of the active session, SQLite table of sessions, event broadcast, watch channel | load, pause, resume, stop, seek, set_volume, refresh, recovery at start |
| session FSM | `src/session/src/state_machine.rs` | one session's state, position, volume under one mutex | load, resolve_ok/err, buffer_full, pause, resume, seek, seek_done, stop, reset, fail |
| playback engine | `src/playback/src/lib.rs`, `pipeline.rs` | at most one GStreamer pipeline, flags of the bus watch | play, pause, resume, stop, seek, volume; the bus watch (buffering, errors, EOS) |
| stream download | `src/playback/src/stream_source.rs`, push thread of `pipeline.rs` | download position, reconnect attempts, chunk channel | download, reconnect, resume, HLS segments, EOS |
| SOCKS forwarders | `src/playback/src/socks_forwarder.rs`, `src/resolver/src/resolver_socks.rs` | listener, tunnels | CONNECT to SOCKS5 |
| resolver | `src/resolver/src/*` | SQLite cache with a memory front, providers | resolve (direct, provider, yt-dlp), invalidate, evict |
| Tor manager | `src/tor/src/lib.rs` | tor child process, restart counter, control connection | ensure_running, monitor, new_circuit, shutdown |
| display manager | `src/display/src/lib.rs` | DRM fd, active CRTC, saved CRTC | acquire, release |
| HTTP API | `src/protocols/src/http.rs` | rate limiter | REST commands, one task per connection |
| WebSocket API | `src/protocols/src/ws.rs` | per-client event queue | commands, event stream |
| DLNA renderer | `src/protocols/src/dlna.rs` | gmediarender child process | start, stop, health monitor, sync with session events |
| server | `src/server/src/main.rs` | background tasks | wiring, position and stall task, shutdown |
| VideoCore power | `src/v3d/src/lib.rs` | power state of the GPU | boost, restore |
| browser extension | `src/extension/*` | detected media, casting status | detect, cast, poll |

Everything in the Rust part is one process on a multi-threaded tokio runtime.
Protocol handlers call the session manager directly; the manager calls the
resolver, the engine, the display and Tor through the traits of
`src/session/src/interfaces.rs`; it announces what it does on a broadcast
channel that the WebSocket clients and the DLNA task read; and the stall task of
the server reads the engine's flags and issues commands like any client.

### What is hard in it

* **Commands interleave.** A command of the session manager is an async function
  of up to a dozen critical sections with awaits between them; the slot and the
  database have separate mutexes that are never held together, so a stop, a
  second load or a seek may run between any two of them.
* **Commands are cut off.** hyper drops a handler's future when its client
  disconnects (all but `load`, which the handler spawns), and the process may
  crash; only the database survives.
* **Decisions outlive what they were made from.** The DLNA task, the stall task,
  the bus watch and the diagnostic task read a flag or a state, let go of it, and
  act later.
* **Messages lag and are lost.** The event broadcast drops its oldest events for
  a slow reader; GStreamer reports state changes that later ones have overtaken.
* **Waiting.** A retry loop around playback, an unbounded stall, child processes
  that may not exit.

### What makes each part correct

| part | properties | where |
|---|---|---|
| session manager | one active session with a row; nothing plays unresolved; slot, table, engine, display and watch channel agree between commands; every command returns; a session that is gone stays gone | `SessionManager`, `SessionLifecycle` |
| DLNA renderer | once the events are handled, not beside the session announced last; again while idle after an announced end | `DlnaSync` |
| one pipeline | `is_playing` tells the truth; a full buffer plays; depletion is noticed | `PipelineWatch` |
| its streams | a picture and a sound that can be decoded are shown and heard, in whatever order they come | `PadLinking`, `MediaDecision` |
| stall task | a stall ends, and so does every command beside it | `StallMonitor` |
| playback engine, display manager | what is stored is the pipeline of the last play to succeed; no pipeline is lost; kmssink becomes DRM master; every call returns | `PlaybackEngine`, `EngineSlot`, `DisplayManager` |
| stream download | chunks are pushed once and in order; a short download is marked; stop unblocks both sides | `StreamDownload` |
| resolver and cache | no refused link is used again; a lookup misses only what is new; no stream leaves its circuit; every resolve returns | `UrlResolver`, `ResolveCache` |
| extractors | the link that is chosen is fast enough, and no decoy; a picture comes with its sound | `MediaChoice`, `MediaDecision` |
| Tor manager, server | no Tor process is lost, but to a monitor caught in a round; the shutdown ends; every conversation ends | `TorManager`, `ServerShutdown` |
| HTTP, WebSocket | the rate limit holds; connections give their permits back; a client is told of every end that is announced | `RemoteServer` |
| browser extension | one socket, kept open; what it believes is so; a cast returns | `ServiceWorker` |
| session FSM | refines the table `PlayerState` | not modelled |

## 2. Modules

| module | what it is | extends |
|---|---|---|
| `PlayerState` | the seven states and the transition table | |
| `SessionManager` | the session manager with any number of clients | `PlayerState` |
| `SessionLifecycle` | what the session manager promises about a session's life | |
| `DlnaSync` | the DLNA renderer and its three tasks, composed with the session manager | `SessionManager` |
| `StallMonitor` | the server's stall task as a client of the session manager | `SessionManager` |
| `SessionManagerProofs` | the proofs about these four: any number of clients, one client, the renderer and the stall task beside any number | `DlnaSync`, `StallMonitor` |
| `EngineSlot` | what the playback engine promises the session manager | |
| `PipelineWatch` | one GStreamer pipeline, its bus watches and its user | |
| `PipelineWatchProofs` | the proof about it | `PipelineWatch` |
| `PadLinking` | which streams of a file a pipeline plays: a function | |
| `StreamDownload` | the preflight, the download task, its channel and the push thread | |
| `StreamDownloadProofs` | the proofs about it | `StreamDownload` |
| `DisplayManager` | the DRM device: acquire and release, and who is its master | |
| `PlaybackEngine` | play with its fallbacks, stop, and the pipelines they leave, composed with the display | `DisplayManager` |
| `PlaybackEngineProofs` | the proofs about both | `PlaybackEngine` |
| `TorManager` | the Tor processes, the monitor, conversations, shutdown | |
| `ServerShutdown` | `main` from its start to its end, composed with Tor | `TorManager` |
| `ServerShutdownProofs` | the proofs about it | `ServerShutdown` |
| `ResolveCache` | the table of resolved URLs | |
| `MediaChoice` | which link the extractors choose: functions | |
| `MediaDecision` | each choice made of one input, and the pads of a file as they come: a specification around these functions | `MediaChoice`, `PadLinking` |
| `MediaDecisionProofs` | the proofs about it | `MediaDecision` |
| `UrlResolver` | resolve, its fetches through the forwarder, and the loads that call it, composed with the cache | `ResolveCache`, `MediaChoice` |
| `UrlResolverProofs` | the proofs about both | `UrlResolver` |
| `RemoteServer` | the HTTP API with its rate limiter, and the WebSocket server | |
| `ServiceWorker` | the browser extension's worker as a client of these | `RemoteServer` |
| `ServiceWorkerProofs` | the proofs about both | `ServiceWorker` |
| `MC...` | bounds, symmetry and constants for TLC | the module they are named after (`MCMediaChoice`: `MediaDecision`) |

Definitions whose name has a lower-case suffix (`StopClear_skip`,
`Handle_no_net`, ...) are deliberately wrong variants of the definition they
follow. The specifications do not use them: substituted for the original, each
makes one of the properties fail, which shows that the property depends on that
piece of code.

### SessionManager

The state is the code's: `active` is `active_session_id`, `db` the table, `watch`
the value in the watch channel; `pipeline`, `paused` and `display` are what is
behind the traits of `interfaces.rs`. `pc`, `sid`, `attempt` and `seen` are the
local variables of the command that each client is executing. One action is one
critical section or one awaited call: `LoadReserve` is the block under the slot's
mutex at `lib.rs:690-702`, `InsertRow` the INSERT and its error path, `Resolve`
the awaited call, and so on down to the publication of the row, which is two
actions because `load_session` and `send` are two steps. A step name in `pc` says
what the command does next. `?` is `Return`, `let _ =` is `AttemptTransition`.

Abstracted or assumed:

* A row is its state and whether the resolver's answer was written to it.
  Position, duration, volume and title are left out, and so are the steps that
  only write them; the steps that publish them are kept.
* A subsystem call may succeed or fail whenever the code can see either, and it
  eventually returns: the resolvers, yt-dlp, Tor's control port and child
  processes are given timeouts, the CDN's answer to the preflight check is not.
  The engine's `stop` does not fail: it fails only with a state change of GStreamer,
  and a change to Null always succeeds.
* The engine is reduced to what `EngineSlot` says of it: `PlayBegin`, `FallBack`
  (a fallback inside `play`, which again drops what is stored), `PlayOk`, and the
  two ways to fail. `EngineAsPromised` and `EngineKeepsPromise` (section 5) show that
  the two sides agree.
* SQLite statements succeed, except the INSERT of `load`, whose error path is
  modelled. UUIDs are never drawn twice. No mutex is poisoned. The watch channel
  has a subscriber.
* A command that its first check rejects changes nothing and is not an action.
* A crash is possible at any moment (`Restart`); rows older than a day may be
  deleted then, live rows become Idle.

### SessionLifecycle

Five operations on a slot and the phase of each session (fresh, reserved,
stored, gone). `SessionManager` implements it under the mapping `slot <- active`
and `phase <- Phase`: a late UPDATE of a load whose session has been stopped
must not bring its row back, and `stop` must not delete the row of the session in
the slot. The abstract specification lets anyone free the slot at any time; that
the code does so for a slot which is somebody else's is the finding of section 6.

### EngineSlot

What is held, and which plays are under way. A play begins by taking away what is
held, and ends by putting its own pipeline there or by failing; a stop takes away
what is held. `PlaybackEngine` implements it under the mapping of its slot to the
load that the stored pipeline was built for, and of `playing` to the tasks inside
`play` (which the step and the mode tell). `SessionManager` implements it too, with
its `pipeline` and the sessions whose command waits for `play`: so what the manager
assumes of the engine is what the engine does.

### DlnaSync

Every event that the manager sends goes through the queue of `Capacity`, which drops
its oldest: those of `try_transition`, the further ones that its operations send
(`Sending`: Created, Resolved, Seeking, PositionUpdate, VolumeChanged) and the audio errors that
`main` forwards. Those to which `run_dlna_sync` does not react are one kind, `Other`;
they too push older events out. Two history variables say what a property may
expect: `told` is the newest announcement the task reacts to, `lost` that the channel
has dropped it. The child process is `none`, `running` or `exited` (a handle that nobody
has reaped). `start`, `stop` and `is_running` hold the child's mutex to their end and
are one action each; the synchroniser and the monitor act one step after they
looked. `Settings` lists the circumstances considered: which clients give which
commands on which sessions, whether `start_health_monitor` runs (no caller in the
repository starts it), whether the start-up task of `main` runs before the first
command, whether a spawn may fail and whether the renderer may exit by itself.
Clients may leave in the middle of a command (`SessionCancel`). One life of the
process is modelled, without `Restart`.

### PipelineWatch

GStreamer is external: `set_state` sets a target, the pipeline gets there in its
own time and posts a message, `queue2` posts BUFFERING when its level changes.
The percentage is reduced to the four ranges that the thresholds tell apart.
`kind` selects one of the three bus watches (primary, audio disabled, software
fallback). `Handle` runs the code of the watch for one message; `Pause` and
`Resume` are the user's, `Diagnose` is the task that looks at the pipeline ten
seconds after play. `wrapper` is `GstPipeline.state`, which only `preroll`,
`pause` and `resume` write.

`Calm` is an assumption about the environment: a pipeline that was told to pause
has paused before anyone tells it to play again. Without it, see section 6.

### StallMonitor

The task is a client of `SessionManager` with a program of its own (`task`), and
shares the engine's two flags with the rest of the world: `errored`
(`download_errored` of the current pipeline, false for a new one, and read as
false while a command holds the engine's mutex, because the code uses
`try_lock`) and `playing` (`is_playing`, cleared by `stop` and otherwise free to
change, which covers whatever `PipelineWatch` does). Both branches of the code,
403 or not, do the same and are one. Users load, pause, resume and stop; seek and
volume do not touch what the task reads.

### StreamDownload

The file is a row of chunks, and what arrives is recorded chunk by chunk. `step`
is where the download task is, `channel` the bounded channel, `pusher` the push
thread. `Mp4Request` and `HlsRequest` cover what a CDN may answer: the rest of
the file, the whole file although the rest was asked for (if it is not `honest`),
a page that is not the file, 403, no answer at all; a body may break off before
any chunk (`BodyFails`). The first response may tell a length or not (`Learn`).
`Drop` is what the task does when the receiver is gone or the cancel token set,
which `StreamSource`'s `Drop` does together. `Leave` covers the cancel flag,
flushing and every other result of `push-buffer` that ends the thread.
`Receive` has the code's branch for a closed channel, which is never taken
(section 6).

A download begins with `Preflight`, which may fail (`PreflightFails`) or learn a
length, from the file or from a page that took its place; the first answer to the
download overwrites it. What the parsers of playlists make of a text is left out,
and so are the waiting times between attempts.

### DisplayManager and PlaybackEngine

The kernel's part is three operators: whoever opens the card node while there is
no master becomes master, closing gives that up, and `drmSetMaster` fails while
somebody else is master. `AcquireOpen`, `SetMaster` and `Enumerate` are the three
stretches of `acquire` between which other holders come and go; each has an
action for its error, because the errors differ in what they leave open. `busy`
is the mutex of the adapter in `main.rs`. At the start the display has been
acquired, or has failed half-way.

`PlaybackEngine` has loads and stops of the session manager in the few steps that
matter to the engine, and under them `play`: `StopExisting`, `CheckExit`,
`StartSource`, `Preflight`, `Elements`, `Preroll`, `Store`, and for each thing
that fails the way on to the next `mode` (primary, without audio, in software).
A pipeline exists from `StartSource` on, because `StreamSource::start` spawns its
download; it carries the load that it was built for, and is in `local` until it is in `slot`. `lock` is the engine's mutex where
it is held across a step. `CheckExit` compares Tor's exit with the address a URL is bound to: an exit that is
known and another one ends the play. `sw_fallback` and `is_playing` are left out, as
are `seek` and `set_volume`, which work on the stored pipeline under the mutex.

### PadLinking

The callback for `pad-added` as a function from what is installed (hardware
decoding, the feature `hevc`, each GStreamer element), what the pads before have
been linked to, and the pad, to what is linked then. A pad is what its
stream is and whether its caps say so. That two elements which exist can be linked
is assumed.

### TorManager and ServerShutdown

Tor processes are external: one that starts fails when the port is taken, any
may crash or stop answering, and one that has been sent SIGTERM may take for
ever. The monitor's round begins with `MonitorFires`; from there it comes to no
await but that of the child's mutex until it has stored what it spawned (`Round`:
`MonitorTick`, `MonitorDecide`, `MonitorSpawn`, `MonitorStore`), and then to the three
waits of the health query. `talk` is the read for which a `health_check` or
`new_circuit` is waiting, each of which has a timeout (`Unanswered`). `down` is how far
`shutdown` has got; it holds the child's mutex while it waits (`lock`).

`ServerShutdown` adds `main`: what it starts, what may fail before it runs, and the
order in which it waits for its tasks. When it returns, the runtime drops each task
at its next await (`leaving`): a monitor that waits ends at once (`DropMonitor`), one
that is inside a round goes on (`LastRound`) beside the destructor (`Destroy`, stage
`dropped`), and the process ends when it is gone. `caught` records that `main` returned
during a round. A listener that fails calls `exit` instead, without a destructor.
The position task may be inside a stop and a load for ever.

### ResolveCache, UrlResolver

A row is the link and when it was stored. Each operation of the cache is one
step under its mutex; `resolve` gives the mutex up between `Lookup` and `Insert`.
A link carries which load made it, so that a refused link can be told from a
new one with the same URL. The resolvers of the three sites are the fetches they
make in their order; each fetch may fail or time out, and what it finds is a
choice from `Pages`, `Players` and `Outputs`, out of which the functions of
`MediaChoice` choose. `forwarder` and `conn` are the resolver's SOCKS forwarder and
the connection through it: `Greet` is its handshake with Tor, which names the
host to get a circuit of its own. A load resolves, is refused or not, invalidates
and resolves again. `Restart` keeps the table only. `known` is a history variable
for `MissMeansNew`: the last insert under each URL that nobody has taken back.

### MediaChoice

The functions that choose: the quality out of a menu (`BestQuality`), the link out
of a Voe page by the four methods (`VoeChoice`), the formats out of a player
response (`YouTubeChoice`) or out of yt-dlp's answer (`resolve_urls`), and the
scanner that cuts the player response out of a page (`extract_player_response`).
Links are what the choice depends on, without their text; ciphers and regular
expressions are left out. What a method deciphers is a text: the object that it parses
as, if it does, with its keys, and the links that a search of it finds, which is
what the methods fall back to (`FromText`). A page has any number of such texts for
method 8, one or none for methods 7 and 6, and in clear text the first `var source`
and the links that the last search finds.

`MediaDecision` makes them a state machine, so that what holds of them is a property
of a specification: one input of one kind, and the step `Choose` that answers it; or
an installation, and a `PadAdded` for each stream, in any order, of a file.

### RemoteServer and ServiceWorker

The session is reduced to what clients see of it: `none`, `resolving`, `playing`,
`paused`, and the events each operation publishes, in order. `conn` is where the
handler of a connection is; it takes a permit before the handshake, waits for the
load that it has been asked for, and meanwhile neither reads commands nor
forwards events. `rx` is its end of the bounded broadcast channel, `told` what is
under way to the client. The rate limiter is `check`, with the window that begins at a
client's first request.

A load is named after the connection or the number of the HTTP request that it is
for. It takes the slot (`Load`), leaves Idle (`LoadBegins`) and returns (`LoadPlays`,
`LoadFails`). `fresh` are those still at Idle: a stop that finds one there announces
nothing. `orphans` lost their session to a stop, and when one of them fails it frees
the slot of whoever has it, again without a word (`OrphanReturns`); `unseated` lost the
slot in this way, or to a load that failed beside them. `owed` are the clients that
were connected when a session ended, however it did; `hushed` those to whom such
an end was never announced.

`ServiceWorker` is JavaScript: a callback is one step and an `await` ends one. Its
variables have the names they have in the code. The browser may stop the worker
at any time, which closes its socket and forgets all of its variables; the alarm
wakes it. Requests, responses and connections get lost. The head of a response and
its body are two awaits (`Answered`, `BodyRead`): the timeout ends with the first, and
nothing says that the second comes. Beside the worker, other clients use the API in
each of the worlds that `Reach` lists: those where the worker reaches the WebSocket
port, the API, or both.

## 3. Runs

| run | bounds | checks | states |
|---|---|---|---|
| `session_concurrent` | 2 HTTP clients, 2 UUIDs, 2 retries, crashes, cut-offs | `TypeOK`, `ActiveHasRow`, `BufferedIsResolved`, `LifecycleSpec` | 906,439 (symmetry) |
| `session_single` | 1 client, 3 UUIDs, 2 retries, crashes | `QuiescentSession`, `EngineModeAgrees`, `WatchAgrees` | 24,344 |
| `dlna` | 1 client with 2 UUIDs, or 2 clients on one; a channel of 2, 3 restarts, 3 settings | `PlayingExcludesRenderer`, `IdleRendererRuns` | 493,215 |
| `pipeline` | 3 kinds, elements and the user act while fewer than 2 messages wait | `IsPlayingTracks`, `FullBufferPlays`, `DepletionIsNoticed` | 67,742 |
| `stall` | the task and 1 user who may be cut off, 2 UUIDs, 1 URL, 1 retry, 3 strikes | `StallEnds`, `CommandsReturn` | 410,949 |
| `stream` | both modes, 4 chunks, segments of 1, 2 and 1, a channel of 2, 3 reconnections | `DeliveredInOrder`, `ShortIsMarked`, `StopUnblocks` | 111,856 |
| `playback` | 2 tasks of which both load and one stops, 3 pipelines, 1 retry, hardware and audio | `NoOrphanPipeline`, `SinkBecomesMaster`, `EngineSpec`, `CallsReturn` | 441,291 |
| `shutdown` | 3 Tor processes, one of them foreign, 1 caller | `NoTorOutlives`, `ShutdownEnds`, `ConversationsEnd` | 849,608 |
| `media` | every input of six bounded kinds | `SteadyIfAny`, `DecoysAreAvoided`, `PlayerResponseWhole`, `PictureAndSound`, `StreamsArePlayed` | 1,195,368 |
| `resolver` | 2 loads of up to 2 links, a URL of each kind, a TTL of 1 in a time of 2, 1 retry | `IsolatedStreams`, `RefusedLinkIsGone`, `MissMeansNew`, `ResolveReturns` | 344,149 |
| `remote` | 2 sockets of the extension, 1 of a guest, 2 permits, 2 requests in 2 units of a time of 3, 4 requests of the worker and 2 of other clients on their way; the port, the API or both in reach, with 3, 2 and 1 faults and users' acts | `RemoteTypeOK`, `OneSocket`, `ConnectedIsTrue`, `LimitIsKept`, `WorkerGetsIn`, `CastReturns`, `EndIsTold` | 540,730 |
| `session_bug_single` | 2 clients, 3 UUIDs | `SingleSession`: violated | |

Modules whose type invariant is not in this table state one all the same
(`DlnaTypeOK`, `StallTypeOK`, `StreamTypeOK`, `PlaybackTypeOK`, `ResolverTypeOK`,
`PipelineWatch`'s and `ServerShutdown`'s `TypeOK`): it tells the reader what the
variables hold, and is where a proof begins. No run repeats it.

**Why the bounds are enough.** What goes wrong between commands goes wrong
between two of them: a command reads only what is shared, never another
command. Two clients give every pair of commands in every interleaving, and
two UUIDs let a load follow a stop while the first load is still on its way; three
are needed for two live rows at once (`session_bug_single`). For the invariants
of `session_concurrent` the proofs of section 5 remove the bounds altogether.
`MaxRetries = 2` is the code's value. Three sessions in a row let one client meet
its own leftovers twice. The DLNA channel holds 2 events and not the code's 128,
which makes losing events, the newest among them, common; `MaxRestarts = 3` is the code's value. Two
sessions give load after stop, stop after load, and failure after both; in the third setting
two clients load, stop and poll one session at the same time. A second
URL in `stall` would only be copied. In `stream` a file of four chunks is longer
than the channel together with the chunk in the thread's hand, so that everybody
waits for everybody; it can break off before, inside and after its last chunk,
and three reconnections can be used up at any of them. The code's 128 and 30 would
add more of the same.

In `playback` two tasks give a stop, and the play of the next session, between any
two steps of a play; three pipelines are one stored and one in the making for
each. With hardware decoding and audio every fallback is tried. `shutdown` has a
Tor that somebody else started, the one the manager spawns and the one that
replaces it; what happens at a second replacement is what happens at the first.
In `resolver` the URLs come in five groups, each with one URL or two that interact
(a page and the one it redirects to; an onion page and a magnet link); with a time
of two and a TTL of one an entry is fresh, expired and cleaned up. One retry is
enough for a refused link to be resolved anew while the other load resolves the
same URL. In `remote` the extension needs a second socket to have two at once, a
guest takes permits from it, and a limit of two in two units of time has a first
request, a last one that passes, one that is refused, and a burst on both sides
of the end of a window. Four requests are a cast and a second one with both of its
retries, so that it is the code's bound and not the run's that ends the retries. Three faults are enough to break a connection, lose a
request and stop the worker in one behaviour, or to cast, stop and cast again over
the API while the worker listens; where both ports are in reach there are so many
interleavings that one must do. `media` tries menus of up to five
qualities, an unknown one among them, at rates below, between and above the typical
ones, pages with one enciphered text or two, whose objects may lack any of their
keys and in which a search finds up to two links, pages with up to three links in
clear text, player responses of nested objects and strings with braces, quotes and
backslashes, up to two formats of each sort, sounds of two bit rates included, and up
to three pads with all elements but one installed.

**Deadlock.** `Restart` is always enabled, so that the session runs cannot
deadlock; that no command gets stuck is `CommandsReturn`. `playback` and `pipeline`
are checked for deadlock too. `dlna` and `stall` run out of UUIDs, `stream` reaches
the end of a file, `shutdown` the end of the process, `media` its one answer,
`resolver` the end of time and of its loads and `remote` of what may happen, and
then may rightly stop: their configurations do not check for deadlock.

**Fairness.** `WF(Step(c))`: tokio schedules every task that is ready, and the
subsystem calls are assumed to return (section 2), so a command that has begun
goes on; no
fairness is put on beginning one, on `Cancel` or on `Restart`. In `DlnaSync` and
`StallMonitor` the tasks are loops over a channel or an interval and are
scheduled like any other. In `PipelineWatch` GLib dispatches every message (`WF`),
a pipeline that keeps being told to reach a state gets there although commands in
between may turn it around (`SF(Reach)`), a playing pipeline consumes its buffer
when no more data comes, and time passes. The user, the network and the
diagnostic task have no fairness. In `StreamDownload` the task and the thread are
scheduled and appsrc returns from a push once it flushes; the CDN may keep a
request or a body waiting for ever, since only connecting has a timeout.

In `PlaybackEngine` every step of a call that has begun goes on, but for the
preflight, which has no timeout: the CDN need not answer it. `busy`'s loop in
`acquire` ends by itself. In `ServerShutdown` the server's tasks are scheduled, and the
position task, which chooses at random among what is ready (`tokio::select!`), some
time chooses the end if it is ever between two ticks (`SF(PositionEnds)`); that its
stop and its load return is not assumed, and nothing makes a process start or exit, a
client leave or a peer answer. In `UrlResolver` whatever has a timeout comes to its
end through it, and nothing answers. In `ServiceWorker` the timers, the alarm and the
callbacks of sockets come, the server accepts, reads commands, forwards events and
notices the end of a client to which it sends something; a request is answered or
times out. The handshake of a worker's socket completes as long as the socket is
there. Nothing is assumed of what the code sets no limit to: a load, a handshake whose
client is gone or silent, the body of an answer, a guest that does not read.

## 4. Properties worth a word

* `QuiescentSession`, `EngineModeAgrees` and `WatchAgrees` are stated for one
  client, because with two they fail (the finding of section 6 and the first two
  entries of the list after it). They are what the code guarantees when commands
  do not overlap, over every failure of every subsystem, every retry and every
  crash.
* `PlayingExcludesRenderer` needs the Playing event as a safety net: a start that
  follows a Resolving it overtook, or a Resolving that the channel lost, would
  otherwise leave the renderer running beside the session. It speaks of the
  session announced last (`told`), because the Error or Idle of an older one, when
  clients overlap, may be announced after the Playing of the next; and only as long
  as the channel has not dropped that announcement (`lost`), which the many events
  that the task does not react to can make it do. It assumes the start-up task was
  in time and no monitor runs. Section 6 has what happens otherwise.
* `IdleRendererRuns` covers a load that fails (which announces Error, not
  Stopped), a late start-up task, and the monitor, for a renderer that can be
  started and that exits only finitely often. It asks for an announced end
  (`EndAnnounced`): a stop that overtakes the first transition of its load announces none.
* `FullBufferPlays` holds although the two handlers that can start the pipeline
  (the one for the full buffer and the one for the end of the preroll) each rely
  on a flag that the other sets, in either order.
* `StallEnds` is the comment at `main.rs:562-566`; its wrong variant is the check
  inside `is_playing()` that the comment warns of.
* `DeliveredInOrder` concerns the offset across reconnections: chunks are counted
  when the channel has taken them, not when they were read, and a failed request
  must not disturb the count. It is restricted to a CDN that heeds the Range header.
* `ShortIsMarked` is what `StallMonitor` builds on: it re-casts marked downloads
  only.
* `StopUnblocks` is needed because `stop` only sets a flag: the thread reads it
  after the next chunk, its own push must first be refused, and only its return
  drops the receiver on which the download may be waiting.
* `NoOrphanPipeline` is about `play`, which tears down, sleeps, builds and stores
  under a mutex that it gives up in between: a pipeline that is overwritten in the
  slot must have been stopped, and one that fails after its download was spawned
  must be dropped.
* `EngineSpec` is about the same gaps in `play`: after any of them, what is stored may
  be another's, and the fallback must take it away before it stores its own.
* `SinkBecomesMaster` is what `acquire` closes the device for. It is stated for a
  load that nobody disturbs; the renderer is excluded, because nothing in a load
  waits for it to end (section 6).
* `CallsReturn` lets a load wait for ever for its own preflight, and says that no
  other load and no stop waits with it.
* `NoTorOutlives` holds although the monitor may restart Tor while `shutdown` runs:
  `shutdown` first forbids restarts, and what was spawned before is found in the
  slot by the destructor. It excepts the monitor that had decided to spawn before
  that and has not stored by the time `main` has returned (`caught`): section 6.
* `ShutdownEnds` excepts a position task that is for ever inside the load of one tick,
  which `main` awaits without a limit.
* `IsolatedStreams` has the forwarder name the host to Tor before anything is sent,
  whatever the client behind it does first.
* `RefusedLinkIsGone` and not "nobody gets a refused link": another load that was
  resolving the same URL may insert it again after the invalidation, and a third
  load gets it then.
* `MissMeansNew` fails for a page that redirects (section 6), and is restricted to
  the URLs that do not.
* `ConnectedIsTrue` is weaker than its name would like: an old socket's `onclose`
  that comes after the new one's `onopen` leaves `isConnected` false although the
  new socket is open (section 6).
* `WorkerGetsIn` fails only if every permit is with a guest, or with a handshake of the
  worker's own sockets that broke without a word: then, and only then, the worker is
  refused for ever.
* `CastReturns` fails only for an answer whose body never ends.
* `EndIsTold` is about every end of a session, whoever brought it about, and makes
  explicit who is not told: those for whom the end was one of the two that the code
  does not announce (`hushed`), those who lag so far that the channel drops it (a `Lagged`
  releases the obligation: what is dropped is never sent again), and those whose own
  handler waits in a load or in a send.
* `LimitIsKept` bounds both errors of a fixed window: it refuses nobody who kept
  the limit in the last window, and lets through less than twice the limit. It reads
  `allowed`, a history variable with the times at which each client was let through.
* `SteadyIfAny` says what it does of 1080p because the code ranks it below every
  other quality it knows, but above those it does not know ("other").
* `DecoysAreAvoided` says of methods 7 and 6 that a decoy under one key hides neither
  another key nor the links of the text. Of method 8 it says only that no decoy is
  chosen: it looks for one when it has made its choice.
* `PictureAndSound` excuses a picture without sound if the best sound has no url:
  `best_audio` looks at no other. That the picture is H.264 of 1080 lines at most, as
  the docs promise, holds of the separate formats; of the combined ones it is assumed,
  because `best_combined` takes MPEG-4 Visual too, and any height (section 6).

## 5. Proofs

TLAPS proves, for every value of the constants that the assumptions allow (any
sets of clients, UUIDs, processes, tasks, sockets, URLs; any capacities, retries,
times and limits; any inputs, of any length):

| theorem | says | module |
|---|---|---|
| `TypeCorrect` | `Spec => []TypeOK` | `SessionManagerProofs` |
| `SlotHasRow` | `Spec => []ActiveHasRow` | |
| `ResolvedBeforeBuffering` | `Spec => []BufferedIsResolved` | |
| `ImplementsLifecycle` | `Spec => LifecycleSpec` | |
| `EngineAsPromised` | `Spec` implies that of `EngineSlot` | |
| `RestIsConsistent` | one client: `Spec => []QuiescentSession` | |
| `RowAgreesWithEngine` | one client: `Spec => []EngineModeAgrees` | |
| `WatchersSeeTheSession` | one client: `Spec => []WatchAgrees` | |
| `RendererGivesWay` | `DlnaSpec => []PlayingExcludesRenderer` | |
| `RendererKeepsManager` | `DlnaSpec => [](DlnaTypeOK /\ ManagerSafe) /\ LifecycleSpec` | |
| `StallTaskKeepsManager` | `StallSpec => [](StallTypeOK /\ ManagerSafe /\ RecastsOnly) /\ LifecycleSpec` | |
| `IsPlayingIsTrue` | `Spec => []IsPlayingTracks` | `PipelineWatchProofs` |
| `StreamTypeCorrect` | `Spec => []StreamTypeOK` | `StreamDownloadProofs` |
| `InOrder` | `Spec => []DeliveredInOrder` | |
| `ShortDownloadIsMarked` | `Spec => []ShortIsMarked` | |
| `PlaybackTypeCorrect` | `Spec => []PlaybackTypeOK` | `PlaybackEngineProofs` |
| `NoPipelineIsLost` | `Spec => []NoOrphanPipeline` | |
| `SinkIsMaster` | with a render node: `Spec => []SinkBecomesMaster` | |
| `SinkIsMasterOrGbm` | `Spec => [](gbm \/ SinkBecomesMaster)` | |
| `EngineKeepsPromise` | `Spec => EngineSpec` | |
| `ShutdownTypeCorrect` | `Spec => []TypeOK` | `ServerShutdownProofs` |
| `TorIsNotLost` | `Spec => []NoTorOutlives` | |
| `ResolverTypeCorrect` | `Spec => []ResolverTypeOK` | `UrlResolverProofs` |
| `StreamsAreIsolated` | `Spec => []IsolatedStreams` | |
| `RefusedStaysAway` | `Spec => []RefusedLinkIsGone` | |
| `NothingIsFetchedTwice` | `Spec => MissMeansNew`, an action property | |
| `RemoteTypeCorrect` | `Spec => []RemoteTypeOK` | `ServiceWorkerProofs` |
| `NeverTwoSockets` | `Spec => []OneSocket` | |
| `BelievesTheTruth` | `Spec => []ConnectedIsTrue` | |
| `PermitsComeBack` | every permit is free or with one handler | |
| `LoadersAreKnown` | who waits for a load is known: `LoadInv` and `HandlerInv` | |
| `LimitHolds` | `Spec => []LimitIsKept` | |
| `SteadyChosen` | `Spec => []SteadyIfAny` | `MediaDecisionProofs` |
| `DecoyNeverChosen` | `Spec => []DecoysAreAvoided` | |
| `PictureHasSound` | `Spec => []PictureAndSound` | |
| `StreamsAlwaysPlayed` | `Spec => []StreamsArePlayed` | |

They assume what the modules assume of their constants (`ConstantsAssumption`,
`DlnaConstants`, `StallAssumption`, `KindsAssumption`, `StreamAssumption`, `DisplayAssumption`,
`EngineAssumption`, `TorAssumption`, `CacheAssumption`, `ResolverAssumption`,
`RemoteAssumption`, `MediaAssumption`), which TLC evaluates in every run of their modules. These say
that names of different things differ, that bounds are numbers, and, in
`StreamAssumption`, that the segments of a file follow one another, and, in
`MediaAssumption`, that the inputs are of their kind. What a theorem
assumes beyond that is in its statement: one client that is not cut off (the three
marked so), a render node (`SinkIsMaster`).

**The session manager, any number of clients.** *`TypeOK`* is not inductive: a
command works on `sid[c]`, which must be a UUID, and `PlayBegin` counts one
attempt more. `TypeInv` adds that a busy client's `sid` is a UUID that was drawn,
that the slot holds such a UUID, that `attempt` is still below its bound where it
is incremented, and that `seen` is a state where it is used.

*`ActiveHasRow`* says of the slot and the table together that the first never
points outside the second, while inserting, clearing and deleting are steps of
different commands. `RowInv` adds what the code takes for granted: only the load
that drew a UUID inserts its row, no command has got to a step that needs the row
before (`InsertInv`), and `stop` deletes a row only of a session that is not in the
slot (`DeleteInv`), which holds because the slot is cleared first and UUIDs are
drawn once. Nearly all actions are *quiet*: they change neither the slot nor the
set of rows. `QuietSteps` sorts them, `RowInvQuiet` treats all quiet ones at once,
and `RowInvStep` goes through the other five and `Restart`.

*`BufferedIsResolved`* needs `AcquireInv`: a load past `StoreResolved` has its
answer in the row, if there still is one. Only a transition to Buffering can
disturb it, and from Buffering on the transition table stays among resolved rows.

*`ImplementsLifecycle`* maps every step with `RowInv`: the quiet ones stutter,
`LoadReserve`, `InsertRow`, `ClearFailed`, `StopClear`, `StopDelete` and `Restart`
are the abstract actions.

*`EngineAsPromised`* needs that two commands never play one session at a time, or
the end of one play would be taken for the end of the other: `LoadsDiffer`, which
holds because a load draws a UUID that no command works on.

**One client.** The three properties speak of the moments between commands, so
`SingleInv` says for every step of every command what it finds: `LoadInv` and
`PlayerInv` give the state of the row, the pipeline, the display and the watch
channel at each step, and `IdleInv` the two states in which a command can leave
them, nothing at all or a session `AtRest`. Each way out of a command, the failures
included, must lead to one of the two.

**The tasks beside the manager.** `DlnaStep` and `StallStep` map each step of the
composed systems to a step of the manager or to none; hence *`RendererKeepsManager`*
and *`StallTaskKeepsManager`*: what was proved of the manager for any clients
(`ManagerSafe`: `TypeOK`, `ActiveHasRow` and `BufferedIsResolved`; and the lifecycle) holds beside
the renderer and the stall task too, however many users there are. `RendererTyped` adds the types
of the renderer's variables, and that the channel never exceeds its capacity
(`Enqueued`). `TaskInv` says what the stall task knows at each step: its count of strikes is
full exactly from the decision on, and the URL that it is about to cast is that of a
row, where `UrlsKnown` has that a UUID has a URL exactly once it was drawn.

*`PlayingExcludesRenderer`*, for any number of clients: if the newest announcement was
that of a start, then the renderer is stopped, or the synchroniser has an event or a
decision before it that will stop it, and none after that (`WillStop`). The event is
in the queue as the newest of those the task reacts to (`StartIsNewest`) until the task
has read it, or it was dropped, which is what `lost` says. That the session of `told` is
live only if it was announced as started is `RowMoves`: a row becomes live only by a
transition that announces Resolving or Playing, and leaves only by one that announces
its end, by a deletion, or not at all.

**One pipeline.** *`IsPlayingTracks`* is a property of a settled pipeline with an
empty bus, and settled only by messages. `PlayingInv` and `PausedInv` say that the
last message about the state that waits (`News`) is the pipeline's state, or, when
none waits (`NoNews`), that `isPlaying` is right already, unless the pipeline is still
starting up or has been told to pause, both of which end in news.

**The download.** `Mp4Inv` has the file delivered up to `offset`, where every body
begins, and `HlsInv` the segments up to the end of those that are finished, without
a gap while no error was noted. `Fresh` says that the preflight sends nothing, and
`Bounds` (in `TypeInv`) that there is an attempt or a segment left where a request
is made. `SendDelivers`, `DeliveredParts` and their neighbours move a chunk from the
download through the channel and the thread's hand to the pipeline: what is
delivered grows by one at the end or stays the same.

**The engine and the display.** `PipeInv`: a play has a pipeline exactly where it
makes one, no two plays have the same one, it is not the stored one, and a sink
that has not yet opened the device is not its master. `MasterInv`: the display
stays acquired for the load whose session is active until a stop begins, and an
acquired display does not hold the device. `LockInv` (in `TypeInv`) has both mutexes
held only where the code holds them across a step. Where GBM finds only the card it
opens it and becomes master itself; hence the assumption of `SinkIsMaster`.

*`EngineKeepsPromise`* maps a task that is inside `play` to a play under way. That is
to be seen from its step and its mode, so `ModeInv` has every task outside `play` in
the primary mode: a call must not return with a fallback's mode left behind. `OwnerInv`
has the pipeline in a task's hands built for that task, so that what `Store` puts
into the slot is its own. `QuietTurn` treats every step that leaves the slot alone: it
stutters, or is a `Fail`.

**Tor and the shutdown.** *`NoTorOutlives`* needs `SlotInv`: a monitor that is
about to replace the child has forgotten it, so that `MonitorStore` overwrites
nothing; `shutdown` holds the mutex only for a child, which stays in the slot until
it has exited; `main` reaches its end with nobody inside `shutdown`; and unless it has
caught the monitor in a round, there is none from then on, so that `Drop` finds the
mutex free and the child, and nothing is spawned behind it. `TypeOK` itself says that
the owner flag is set exactly while there is a child, without which `Drop` would pass it
over. The steps of `main` and its tasks that leave Tor alone are `Quiet`; the others
have a lemma each.

**The resolver.** *`RefusedLinkIsGone`* is about links that go from a load through
the cache to another load and back. `LinkInv` follows them: a link that is out of
the hands of the task that found it (`Given`) is neither the one that this task holds
now nor one it is yet to find, so an insert never brings back what was refused to
the same load. `RefusedInv` states it for the row under every load's URL, also while
the load resolves. *`MissMeansNew`* needs `KnownInv`: a URL that was resolved within
the TTL has a row that is at least as young, which `cleanup_stale` leaves because
the age of clean-up is not below the TTL, and `Restart` leaves because the table is
a file.

**The remote control.** *`OneSocket`* and *`ConnectedIsTrue`* need `SocketInv`: a live
socket is the one the worker holds in `ws`, and has its callbacks. The worker lets
go of a socket only by closing it, and `connectWebSocket` looks again at the one it
holds after its await, so a second call that ran meanwhile leaves nothing behind.
The server never touches the client's end (`ServerKeepsReady`).

*`RemoteTypeOK`* follows the loads. `LoadInv` says that each is on its way, or has the
slot, or lost its session, or lost the slot, and never two of these: so a load returns
once, whoever's slot it frees. The numbers of requests are what keeps those of the
worker apart from those of other clients and from connections (`NumbersApart`), and
`WorkerInv` bounds those that were sent. `HandlerInv` says that a handler is suspended in
a load exactly while that load has not returned, `PermitInv` counts the handlers, and
`Kept` bounds the queue that the channel leaves a subscriber.

*`LimitIsKept`* speaks of the times at which a client was let through (`allowed`).
`LimiterInv` says of them and of the client's entry that the entry counts the last
requests (`WindowOf`), the first of which set its start, that all before are older than
that start, and that twice the limit never passed within a window (`Spaced`); a new
entry is begun only when a whole window has gone by since the last one's start
(`PrunedAt`), which keeps it so.

**The choices.** The choices are made by `CHOOSE`, `Min` and `Max` over places or
qualities, and the lemmas of `MediaDecisionProofs` say what each returns
(`PreferredIs`, `BestIs`, `FirstOfIs`, `SearchIs`, `DecipheredIs`, `Method8Is`, `FallbackIs`,
`VoeIs`, `BestFormatIs`, `YouTubeIs`, `YtdlpIs`) from the existence of a least and a greatest element of a set of numbers
(`LeastExists`, `GreatestExists`), for inputs of any length and any rates. `MediaInv` has the
answer be the function of the input. *`StreamsArePlayed`* needs `PadsInv`: what each
chain holds, in terms of the pads that have come; `PadEffect` says what one more pad
may change, and `PadChanges` that `pad_added` does that and no more.

**Only model-checked.** Everything about liveness (`CommandsReturn`,
`IdleRendererRuns`, `FullBufferPlays`, `DepletionIsNoticed`, `StallEnds`,
`StopUnblocks`, `CallsReturn`, `ShutdownEnds`, `ConversationsEnd`, `ResolveReturns`,
`WorkerGetsIn`, `CastReturns`, `EndIsTold`), which TLAPS cannot prove. `PlayerResponseWhole`: the
scanner is a fold over the text, and what a fold computes of every text takes
induction over data, which needs theorems that take an operator as a parameter. And `SingleSession`, which fails.

## 6. Findings

`session_bug_single`: `clear_active_session` clears the slot of whoever has it. A
load whose session was stopped, and which then fails, clears the reservation of
the next load; a third starts beside it (`lib.rs:1158`, against `lib.rs:319`). TLC
shows it in the counterexample of the run.

Met while modelling, without a run of their own.

Session, playback and download:

* `stop` decides from the row it read whether there is a pipeline. During
  resolution there is none yet, and `load` builds one afterwards, for a session
  that no longer exists (`lib.rs:1006`).
* With two clients, a row read before a stop can be published after it, so that
  subscribers see a session when none is active (`lib.rs:937`).
* `StreamSource` keeps a sender of the channel that the push thread waits to see
  closed, and that thread owns the source. After a complete download it waits for
  ever, and end-of-stream is never emitted (`stream_source.rs:113`,
  `pipeline.rs:1112`, against `pipeline.rs:1091`).
* A full buffer resumes a pipeline that the user has paused
  (`playback/src/lib.rs:1469`, against the comment at line 1213).
* The stall task takes a paused session whose download has failed for a stalled
  one, stops it and casts it again from the start (`main.rs:572`).
* The listener of the playback events only logs the end of the stream and errors:
  the session stays Playing (`main.rs:475`).
* The diagnostic task sets the pipeline to Playing ten seconds after play from a
  state it has read, beside the bus watch and the user
  (`playback/src/lib.rs:1696`); `PipelineWatch` has it as `Diagnose`.
* A seek that the engine refuses leaves the row in Seeking (`lib.rs:1075`, against
  the comment five lines above it).
* `pause` pauses the engine and then checks the state, so that a session that is
  Seeking is left with a paused pipeline and an error (`lib.rs:952`).
* The synchroniser's 128-slot channel carries every event, position updates and
  changes of the volume among them, and a `Lagged` is ignored: when that many pile up
  behind a slow stop or start, the newest Playing or Stopped itself may be dropped, and
  the renderer stays as it was (`dlna.rs:497`).
* With two clients, the Error or Idle of a session that has lost the slot may be
  announced after the Playing of the next, and starts the renderer beside it
  (`lib.rs:792`, `dlna.rs:497`).
* A stop that reads the row at Idle, before its load begins to resolve, announces
  nothing (`lib.rs:1026`): subscribers never hear that the session ended, and the
  renderer, if something stopped it, is not started again.
* `load` waits 300 ms before it acquires the display, while `DlnaRenderer::stop`
  may wait three seconds for gmediarender (`lib.rs:788`, `dlna.rs:304`).
* The health monitor sleeps five seconds between its decision and the restart
  and does not look again; and `start` resets the count of restarts, so that its
  give-up branch is never reached (`dlna.rs:259`, `dlna.rs:207`).
* Without `Calm`: a full buffer seen while a pause is still under way is "already
  playing", and the pipeline then stays paused (`playback/src/lib.rs:1463`).
* The stall timer of the primary watch is not cleared by a full buffer and is
  looked at only when a BUFFERING message comes, of which a stalled `queue2`
  posts none (`playback/src/lib.rs:1439`, `1571`).
* The two fallback watches never pause on an empty buffer, so that `is_playing`
  stays set and the stall task sees nothing (`playback/src/lib.rs:2186`, `2347`).
* The header comment of the stall task says that a download that failed without
  a 403 stops the session; the code casts it again (`main.rs:538`, `601`).
* An MP4 request that fails outright, or is refused with 403, as the first of a
  download of unknown length counts as a complete download: one attempt was made
  and no error is recorded (`stream_source.rs:928`).
* A download of unknown length that was resumed is marked as failed even when it
  got everything (same line).
* Only the status 403 is looked at: any other answer is streamed as data, the
  whole file in answer to a Range request included (`stream_source.rs:777`).
* An HLS segment that breaks off is followed by the next one, without a retry
  (`stream_source.rs:1158`).
* A CDN that stalls without closing the connection is never noticed: reading has
  no timeout, the download is not marked, and the stall task sees nothing
  (`stream_source.rs:235`, `main.rs:571`). For the same reason a preflight check,
  and with it a load, may wait for ever (`stream_source.rs:257`).
* A push thread that waits for data when its download has ended does not notice
  the cancel flag: the thread and its source stay for the life of the process
  (`pipeline.rs:1112`).

Engine and display:

* An `acquire` that fails after it opened the device keeps it open, and with it DRM
  master; so does the one at start-up. The next `acquire` starts from there, but
  until then no renderer can show anything (`display/src/lib.rs:597-841`).
* A `play` that fails for good leaves the display acquired.
* A release that cannot open the device again returns with the CRTC still recorded,
  so that the next `acquire` does nothing (`display/src/lib.rs:983`); since the
  device is closed, kmssink still becomes master.
* The choice of the connector uses `max_by` on an order in which HDMI is less
  than the rest (`display/src/lib.rs:719-731`).
* An audio chain that cannot be linked leaves its sink in the pipeline without data;
  preroll then waits for it until the fallback without audio.

Streams:

* Without hardware decoding `avdec_h264` is tried before `avdec_h265` whatever the
  codec: H.265 is not decoded where both are installed (`pipeline.rs:773-893`).
* A video pad that its chain refuses leaves the chain linked to kmssink, and a later
  pad that would fit is not looked at.
* A pad whose caps say nothing takes the audio chain from the sound after it
  (`pipeline.rs:1021`).
* Further tracks stay unlinked, where the comment has them go to a fakesink
  (`pipeline.rs:962`), and so does a picture that cannot be decoded.
* `build_hw_video_bin`, `build_hevc_video_bin` and `build_sw_video_bin` are never called.

Tor and shutdown:

* The server never calls `ensure_running`: it relies on a Tor that is there.
* Two concurrent `ensure_running` would overwrite the child slot and lose a process
  (`tor/src/lib.rs:280`); `TorManager` has one caller, as the doc asks.
* The loop that reads the circuits spins when the control port closes
  (`tor/src/lib.rs:942-960`), and a monitor that is inside a query misses the
  notification of the shutdown, against the comment at `main.rs:285-286`. The
  process ends all the same.
* `libc_kill(child.id().unwrap_or(0))` signals the server's own process group if the
  child has been reaped.
* `Drop` of the DLNA renderer drops the future of `kill` without polling it: a
  gmediarender that was not stopped outlives the server (`dlna.rs:349-363`).
* A monitor that has read `auto_restart` comes to no await before it has spawned
  (`tor/src/lib.rs:382-411`): beside a shutdown that finds no child and returns
  (`:760`), and the destructor, it starts a Tor that outlives the server.
* The position task is awaited without a limit (`main.rs:640`), while a load of its own
  may wait for ever for its preflight: the shutdown then never ends.
* A listener that fails ends the process with `exit(1)`, which runs no destructor.
* The DLNA sync task never ends by itself, so that every shutdown waits the full
  five seconds for it. HTTP and WebSocket connections are not waited for.

Resolver and extractors:

* The result of a page that redirects carries the final URL as its `source_url`,
  under which it is cached: it is never found again under its own, and
  `invalidate_cache` of its own URL deletes nothing.
* A hit of the cache has lost the cookies of the result. Ages are of the wall clock.
* The forwarder's handshake has no timeout of its own; the request's ends it.
* Method 8 looks for decoys only after it has chosen a link, and then gives up the
  method (`custom.rs:908-1009`).
* When no quality is sustainable and rates tie, 720 comes first, where the doc says
  the lower one. The comment that playlists are never returned is out of date.
* The combined YouTube formats are neither limited to 1080 lines nor to H.264:
  MPEG-4 Visual is taken too, which nothing here decodes (`custom.rs:3212`, against
  `custom.rs:3110`, `3114` and `3206`). A best video whose link is
  enciphered ends the attempt, though a lower one has a link.
* The extractor of Doodstream returns the address of `pass_md5` without fetching
  it. The fallback passes over a playlist in
  `var source`, but takes a link that has `.mp4` in it whether or not it is one
  (`custom.rs:1229`, against `1209-1210`).

Remote control:

* A position update is reported as playing, whatever the state (`ws.rs:527`, `536`,
  against the doc at `ws.rs:470-475`); `pause` and `seek` send one, so that a client
  hears `paused` and then `playing`.
* The position task may publish a position after Stopped was announced.
* The extension sends `{type: "ping"}` in lower case, which the server's enum does
  not know: every thirty seconds it answers with an error, upon which the extension
  resets its session and shows a notification.
* A cast that is sent again after a timeout is refused with 409 although the first
  one succeeded, or casts again what was stopped meanwhile. The body of an answer is
  read after the timeout was cleared (`service-worker.js:186`, `189`, `198`): one that
  never ends keeps the cast waiting for ever. Two casts at once both
  get a 202, whose id is not that of the session (`http.rs:359-425`).
* A load that fails before its 202 has arrived leaves `hasActiveSession` set.
* A discovery that fails sets `isConnected` to false while the socket is open, and an
  old socket's `onclose` that comes after the new one's `onopen` does too and stops
  the ping; nothing sets it back until the socket closes.
* A client that casts over the WebSocket can neither stop nor ping before `load`
  returns (`ws.rs:336`). The handshake has no timeout, while it holds a permit, so that
  silent clients can take them all for good (`ws.rs:184-216`); nor has a send to a
  client that does not read.
* A load whose session was stopped, and which then fails, ends the next session
  without announcing it (`lib.rs:1158`): no client is told.
* Without `X-Forwarded-For` all clients share the key "unknown" of the rate limiter.
  The branch that resets an entry is never reached after the pruning.
* A volume that is debounced leaves the promises of the earlier ones unsettled.

## 7. Not modelled

* The session FSM (`state_machine.rs`): the server does not use it, the session
  manager has its own transitions.
* `v3d`: hardware probing that nothing else depends on. `config.rs`, `tls.rs`: read
  once at start-up. `events.rs`: plain data, only logged.
* The properties of GStreamer elements, the choice of mode, connector and plane:
  configuration of external libraries, without state of its own.
* Ciphers and regular expressions of the extractors; `provider.rs` and
  `deobfuscation.rs`, whose registry the server leaves empty; `resolve_direct`,
  `get_or_insert_with`, `evict_expired` and `clear`, which it does not call.
* `playback/src/socks_forwarder.rs`: to the pipeline it is part of a CDN that may fail
  or fall silent, which `StreamDownload` has. The resolver's forwarder is modelled.
* The mock engine (builds without the `hw` feature), whose state is a set of
  flags for tests.
* Status, seek, volume and audio devices of the remote protocols, beyond what
  `SessionManager` has of them; in the extension the badge, the queues of detected
  media, automatic casts, the popups' copy of the status, the pages, and commands
  over HTTP when there is no socket (the server's side of which is `ApiCommand`).
* A power failure under SQLite's `synchronous=NORMAL`, which may lose the last
  transactions.

## 8. Plan

1. The composition of `StreamDownload`, `PipelineWatch` and `StallMonitor`: from
   the CDN's last byte to the re-cast. Abstractly, a prefix of the file. It would
   also cover the user who resumes an empty, dead pipeline (`main.rs:557`).
2. `SessionFSM`, which refines `PlayerState`'s table, if a caller appears.
