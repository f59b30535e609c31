--------------------------- MODULE MCStallMonitor ---------------------------
(***************************************************************************)
(* Bounds for TLC: one user beside the task, one URL.  A second URL would  *)
(* only be copied.                                                         *)
(***************************************************************************)
EXTENDS StallMonitor
=============================================================================
