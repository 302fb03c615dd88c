-------------------------------- MODULE MCWire --------------------------------
(* Wire for TLC: texts and files at the limits and one off them. *)
EXTENDS Wire

MCDrafts ==
  {OfPlain(1), [OfPlain(4096) EXCEPT !.blank = 9], OfPlain(4097),
   [OfPlain(1) EXCEPT !.wide = 1365], [OfPlain(2) EXCEPT !.wide = 1365],
   [OfPlain(0) EXCEPT !.quoted = 4096],
   [OfPlain(3186) EXCEPT !.control = 910], [OfPlain(3185) EXCEPT !.control = 911]}
MCFileSizes == {1, 8691, 8692, 8693, 17384, 17385}
MCReadSizes == {1, 8691, 8692, 8693}
===============================================================================
