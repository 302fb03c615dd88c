---------------------------- MODULE MCSendCounter ----------------------------
(* SendCounter for TLC: chunk blocks of 2, counters up to 3, one rekey.   *)
EXTENDS SendCounter
=============================================================================
