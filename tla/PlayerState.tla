---------------------------- MODULE PlayerState ----------------------------
(***************************************************************************)
(* The states of the media player and the transitions between them that    *)
(* the session database accepts: PlayerState and can_transition_to of      *)
(* src/session/src/lib.rs.                                                 *)
(***************************************************************************)

PlayerStates ==
    {"Idle", "Resolving", "Buffering", "Playing", "Paused", "Seeking", "Error"}

\* can_transition_to, as the set of targets of each state.
Targets == [from \in PlayerStates |->
    CASE from = "Idle"      -> {"Resolving", "Error"}
      [] from = "Resolving" -> {"Buffering", "Error", "Idle"}
      [] from = "Buffering" -> {"Playing", "Paused", "Error", "Idle"}
      [] from = "Playing"   -> {"Paused", "Seeking", "Buffering", "Error", "Idle"}
      [] from = "Paused"    -> {"Playing", "Seeking", "Error", "Idle"}
      [] from = "Seeking"   -> {"Playing", "Error", "Idle"}
      [] from = "Error"     -> {"Idle"}]

\* The state of a session whose row is not in the database.
Absent == "Absent"

\* try_transition: the row must exist, and the table must allow the target.
CanTransition(from, to) == from \in PlayerStates /\ to \in Targets[from]

\* The states in which SessionManager::stop stops the pipeline.
PipelineStates == {"Playing", "Paused", "Buffering", "Seeking"}

\* A session that recover_crashed_sessions has to reset.
LiveStates == PlayerStates \ {"Idle", "Error"}
=============================================================================
