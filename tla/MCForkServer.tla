---------------------------- MODULE MCForkServer ----------------------------
(* ForkServer for TLC. *)
EXTENDS ForkServer

CONSTANTS c1, c2, p1, p2, main_pid

MCClients == {c1, c2}
MCPids == {p1, p2}

=============================================================================
