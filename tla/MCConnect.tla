------------------------------ MODULE MCConnect ------------------------------
(* Connect on small instances. *)
EXTENDS Connect
=============================================================================
