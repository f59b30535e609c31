----------------------------- MODULE EngineSlot -----------------------------
(***************************************************************************)
(* What the playback engine promises the session manager: it holds at most *)
(* one pipeline, that of the last play to succeed.  A play begins by       *)
(* taking away whatever is held, puts a pipeline there only as it ends and *)
(* only its own, and leaves nothing behind when it fails; plays of several *)
(* sessions may overlap.                                                   *)
(*                                                                         *)
(* PlaybackEngine implements this as the engine is, SessionManager as it   *)
(* is used.                                                                *)
(***************************************************************************)
CONSTANTS Sessions, None

VARIABLES
    held,     \* the session whose pipeline is stored, or None
    playing   \* the sessions whose play has begun and not returned

vars == <<held, playing>>

Init == held = None /\ playing = {}

Begin(s) ==
    /\ s \notin playing
    /\ playing' = playing \cup {s}
    /\ held' = None

Succeed(s) ==
    /\ s \in playing
    /\ playing' = playing \ {s}
    /\ held' = s

Fail(s) ==
    /\ s \in playing
    /\ playing' = playing \ {s}
    /\ UNCHANGED held

\* A stop; and a play that tries again with a fallback.
TakeAway == held' = None /\ UNCHANGED playing

Crash == held' = None /\ playing' = {}

Next ==
    \/ \E s \in Sessions : Begin(s) \/ Succeed(s) \/ Fail(s)
    \/ TakeAway
    \/ Crash

Spec == Init /\ [][Next]_vars
=============================================================================
