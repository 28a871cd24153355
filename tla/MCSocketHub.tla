---------------------------- MODULE MCSocketHub ----------------------------
(***************************************************************************)
(* SocketHub for TLC: a client without callbacks and a server that may     *)
(* use them.                                                               *)
(***************************************************************************)
EXTENDS SocketHub

CONSTANTS client, server

Hosts == {client, server}
=============================================================================
