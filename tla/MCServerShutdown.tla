------------------------- MODULE MCServerShutdown --------------------------
(***************************************************************************)
(* The server's life with one Tor of somebody else's and two that the      *)
(* manager may spawn: the first, and the one that replaces it.             *)
(***************************************************************************)
EXTENDS ServerShutdown, TLC

=============================================================================
