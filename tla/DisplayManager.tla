--------------------------- MODULE DisplayManager ---------------------------
(***************************************************************************)
(* The display manager of src/display/src/lib.rs, hw build: it opens the   *)
(* DRM device, notes connector and CRTC, and closes the device again so    *)
(* that the kmssink of a pipeline can become DRM master.                   *)
(*                                                                         *)
(* The kernel is external.  The device has one master at a time; whoever   *)
(* opens the card node while there is none becomes master, and a master    *)
(* that closes the device ceases to be.  drmSetMaster fails with EBUSY     *)
(* while another process is master.  The server keeps the manager behind   *)
(* a mutex that is held for a whole acquire, which may sleep for fourteen  *)
(* seconds in its loop.                                                    *)
(***************************************************************************)
EXTENDS Naturals

CONSTANTS
    Clients,    \* the tasks that load and stop
    Pipes,      \* names of GStreamer pipelines; finite only to bound TLC
    GbmNodes,   \* what GBM finds in /dev/dri: "render", or only the "card"
    None

ASSUME DisplayAssumption ==
    /\ GbmNodes \subseteq {"render", "card"} /\ GbmNodes # {}
    /\ None \notin Clients \cup Pipes
    /\ {"display", "gbm", "renderer"} \cap (Pipes \cup {None}) = {}

VARIABLES
    pc,         \* what each task does next
    opened,     \* drm_fd is Some
    crtc,       \* active_crtc is Some
    saved,      \* saved_crtc is Some
    gbm,        \* gbm_device has the card node open
    busy,       \* the task that holds the mutex
    renderer,   \* gmediarender runs
    master      \* who is DRM master: "display", "gbm", "renderer", a pipeline

displayVars == <<opened, crtc, saved, gbm, busy>>

Holders == {"display", "gbm", "renderer", None} \cup Pipes

\* The server has acquired the display at start, which leaves the device open
\* when it fails; the renderer is started later.
DisplayInit ==
    /\ \/ opened = FALSE /\ crtc = TRUE /\ saved = TRUE /\ master = None
       \/ opened = TRUE /\ crtc = FALSE /\ saved = FALSE /\ master = "display"
    /\ gbm = FALSE
    /\ busy = None
    /\ renderer = FALSE

Goto(c, step) == pc' = [pc EXCEPT ![c] = step]

-----------------------------------------------------------------------------
(***************************************************************************)
(* The kernel: m is who is master.                                         *)
(***************************************************************************)
Opened(m, who) == IF m = None THEN who ELSE m
Closed(m, who) == IF m = who THEN None ELSE m
CanSetMaster(m, who) == m \in {None, who}

RendererStarts ==
    /\ ~renderer
    /\ renderer' = TRUE
    /\ master' = Opened(master, "renderer")

RendererStops ==
    /\ renderer
    /\ renderer' = FALSE
    /\ master' = Closed(master, "renderer")

-----------------------------------------------------------------------------
(***************************************************************************)
(* acquire                                                                 *)
(***************************************************************************)
\* A display that is acquired already stays as it is.
AcquireSkip(c) ==
    /\ pc[c] = "acquire" /\ busy = None
    /\ crtc
    /\ Goto(c, "acquired")
    /\ UNCHANGED <<displayVars, master>>

AcquireOpen(c) ==
    /\ pc[c] = "acquire" /\ busy = None
    /\ ~crtc
    /\ opened' = TRUE
    /\ master' = IF opened THEN master ELSE Opened(master, "display")
    /\ busy' = c
    /\ Goto(c, "set_master")
    /\ UNCHANGED <<crtc, saved, gbm>>

AcquireOpenFails(c) ==
    /\ pc[c] = "acquire" /\ busy = None
    /\ ~crtc /\ ~opened
    /\ Goto(c, "acquire_failed")
    /\ UNCHANGED <<displayVars, master>>

\* One of ten attempts succeeds.
SetMaster(c) ==
    /\ pc[c] = "set_master"
    /\ CanSetMaster(master, "display")
    /\ master' = "display"
    /\ Goto(c, "enumerate")
    /\ UNCHANGED displayVars

\* All ten have met another master.
SetMasterFails(c) ==
    /\ pc[c] = "set_master"
    /\ ~CanSetMaster(master, "display")
    /\ Goto(c, "enumerate")
    /\ UNCHANGED <<displayVars, master>>

\* No connector, mode or CRTC, or an ioctl fails: the device stays open.
EnumerateFails(c) ==
    /\ pc[c] = "enumerate"
    /\ busy' = None
    /\ Goto(c, "acquire_failed")
    /\ UNCHANGED <<opened, crtc, saved, gbm, master>>

\* init_gbm prefers a render node, which does not matter to the card's master.
InitGbm(m) ==
    \E node \in GbmNodes :
        /\ gbm' = (node = "card")
        /\ master' = IF node = "card" THEN Opened(m, "gbm") ELSE m

Enumerate_kept(c) ==
    /\ pc[c] = "enumerate"
    /\ crtc' = TRUE
    /\ saved' = (saved \/ master = "display")
    /\ opened' = TRUE
    /\ InitGbm(master)
    /\ busy' = None
    /\ Goto(c, "acquired")

\* With master the CRTC's state is saved.  Master is dropped and the device
\* closed for the sake of kmssink.
Enumerate(c) ==
    /\ pc[c] = "enumerate"
    /\ crtc' = TRUE
    /\ saved' = (saved \/ master = "display")
    /\ opened' = FALSE
    /\ InitGbm(Closed(master, "display"))
    /\ busy' = None
    /\ Goto(c, "acquired")

-----------------------------------------------------------------------------
(***************************************************************************)
(* release: one step, for it neither waits nor retries.                    *)
(***************************************************************************)
Forget ==
    /\ crtc' = FALSE
    /\ saved' = FALSE
    /\ gbm' = FALSE

\* Nothing was saved.
ReleaseUnsaved(c) ==
    /\ pc[c] = "release" /\ busy = None
    /\ ~saved
    /\ Forget
    /\ master' = Closed(master, "gbm")
    /\ Goto(c, "released")
    /\ UNCHANGED <<opened, busy>>

\* With master the saved CRTC is restored, and without it is not; master is
\* dropped, and the device stays open.
Release(c) ==
    /\ pc[c] = "release" /\ busy = None
    /\ saved
    /\ opened' = TRUE
    /\ master' = IF master = "gbm" THEN None ELSE Closed(master, "display")
    /\ Forget
    /\ Goto(c, "released")
    /\ UNCHANGED busy

\* The device cannot be opened again: the CRTC stays recorded as acquired.
ReleaseOpenFails(c) ==
    /\ pc[c] = "release" /\ busy = None
    /\ saved /\ ~opened
    /\ Goto(c, "released")
    /\ UNCHANGED <<displayVars, master>>

Acquire(c) ==
    \/ AcquireSkip(c) \/ AcquireOpen(c) \/ AcquireOpenFails(c)
    \/ SetMaster(c) \/ SetMasterFails(c)
    \/ EnumerateFails(c) \/ Enumerate(c)

ReleaseDisplay(c) == ReleaseUnsaved(c) \/ Release(c) \/ ReleaseOpenFails(c)
=============================================================================
