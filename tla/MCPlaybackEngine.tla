-------------------------- MODULE MCPlaybackEngine --------------------------
(***************************************************************************)
(* Bounds for TLC: two tasks, which are enough for a stop and the next     *)
(* load to overtake a play, and three pipelines: one stored and one in the *)
(* making for each.  With decoding in hardware and audio every fallback is *)
(* tried; the other configurations leave some of them out.                 *)
(***************************************************************************)
EXTENDS PlaybackEngine

Everything == {[hw |-> TRUE, audio |-> TRUE]}
=============================================================================
