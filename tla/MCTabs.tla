-------------------------------- MODULE MCTabs --------------------------------
(* Tabs on small instances. *)
EXTENDS Tabs, TLC

\* Tabs are alike.  (For the run of the invariants; not for the temporal one.)
TabSymmetry == Permutations(Tab)
=============================================================================
