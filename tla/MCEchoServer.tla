---------------------------- MODULE MCEchoServer ----------------------------
(* EchoServer for TLC. *)
EXTENDS EchoServer

CONSTANTS c1, c2

MCClients == {c1, c2}

=============================================================================
