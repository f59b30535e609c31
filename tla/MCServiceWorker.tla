--------------------------- MODULE MCServiceWorker ---------------------------
(***************************************************************************)
(* Two sockets of the extension, one of another client, two permits; a     *)
(* rate limit of two requests in two units of time.  The server is in reach*)
(* by its sockets, by its API, or by both.                                 *)
(***************************************************************************)
EXTENDS ServiceWorker

MCReach == {{"ws"}, {"http"}, {"ws", "http"}}
MCMaxEvents == [ports \in MCReach |-> 4 - Cardinality(ports) - (IF "http" \in ports THEN 1 ELSE 0)]
=============================================================================
