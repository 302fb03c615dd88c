------------------------------- MODULE MCLimits -------------------------------
(* Limits for TLC: an IPv4 address and two IPv6 networks that differ in a zero. *)
EXTENDS Limits

MCNetwork == {<<0, 0, 1, 0>>, <<0, 0, 0, 1>>}
MCHost == {<<0, 0, 0, 1>>, <<1, 0, 0, 0>>}
=============================================================================
