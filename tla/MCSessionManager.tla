-------------------------- MODULE MCSessionManager --------------------------
(***************************************************************************)
(* Bounds for TLC: the sets of clients and sessions are model values; the  *)
(* sessions are interchangeable, and so are clients that are all cancelled *)
(* or none.                                                                *)
(***************************************************************************)
EXTENDS SessionManager, TLC

SymmetrySessions == Permutations(Sessions)
SymmetryAll == Permutations(Sessions) \cup Permutations(Clients)
=============================================================================
