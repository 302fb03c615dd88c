---------------------------- MODULE MCSessionPair ----------------------------
(* SessionPair on small instances. *)
EXTENDS SessionPair
=============================================================================
