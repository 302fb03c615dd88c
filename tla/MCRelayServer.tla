---------------------------- MODULE MCRelayServer ----------------------------
(* RelayServer on small instances. *)
EXTENDS RelayServer
=============================================================================
