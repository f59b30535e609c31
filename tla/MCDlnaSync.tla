----------------------------- MODULE MCDlnaSync -----------------------------
(***************************************************************************)
(* Bounds for TLC: the server as it is wired, with a renderer that fails;  *)
(* a server that runs the health monitor too; and two clients that command *)
(* one session at the same time.                                           *)
(***************************************************************************)
EXTENDS DlnaSync
CONSTANTS c1, s1

AsWired ==
    [clients |-> {c1}, sessions |-> Sessions, commands |-> Steps,
     monitored |-> FALSE, inTime |-> TRUE, spawnFails |-> TRUE, exits |-> TRUE]
WithMonitor ==
    [clients |-> {c1}, sessions |-> Sessions, commands |-> Steps,
     monitored |-> TRUE, inTime |-> FALSE, spawnFails |-> FALSE, exits |-> TRUE]
TwoAtOnce ==
    [clients |-> Clients, sessions |-> {s1}, commands |-> {"insert", "stop_load", "poll"},
     monitored |-> FALSE, inTime |-> TRUE, spawnFails |-> FALSE, exits |-> FALSE]
AllSettings == {AsWired, WithMonitor, TwoAtOnce}
=============================================================================
