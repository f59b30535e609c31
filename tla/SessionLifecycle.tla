-------------------------- MODULE SessionLifecycle --------------------------
(***************************************************************************)
(* What the session manager promises about the life of a session, whatever *)
(* its clients do: a UUID is reserved once, while the slot is free; its    *)
(* row is written once and deleted once, never while the session holds the *)
(* slot; and a session that is gone never comes back.  SessionManager      *)
(* implements this.                                                        *)
(***************************************************************************)
CONSTANTS Sessions, None

VARIABLES
    slot,   \* the active session, or None
    phase   \* the phase of each session's life

vars == <<slot, phase>>

Phases == {"fresh", "reserved", "stored", "gone"}

Init ==
    /\ slot = None
    /\ phase = [s \in Sessions |-> "fresh"]

Move(s, from, to) ==
    /\ phase[s] = from
    /\ phase' = [phase EXCEPT ![s] = to]

Reserve(s) == slot = None /\ slot' = s /\ Move(s, "fresh", "reserved")

Store(s) == Move(s, "reserved", "stored") /\ UNCHANGED slot

\* The row could not be written.
Abandon(s) == slot' = None /\ Move(s, "reserved", "gone")

\* A command ends the active session, or one that used to be.
Free == slot' = None /\ UNCHANGED phase

Delete(s) == slot # s /\ Move(s, "stored", "gone") /\ UNCHANGED slot

\* The process restarts: reservations are lost, and some rows are cleaned up.
Crash ==
    /\ slot' = None
    /\ \E stale \in SUBSET {s \in Sessions : phase[s] = "stored"} :
         phase' = [s \in Sessions |->
            IF s \in stale \/ phase[s] = "reserved" THEN "gone" ELSE phase[s]]

Next ==
    \/ \E s \in Sessions : Reserve(s) \/ Store(s) \/ Abandon(s) \/ Delete(s)
    \/ Free
    \/ Crash

Spec == Init /\ [][Next]_vars
=============================================================================
