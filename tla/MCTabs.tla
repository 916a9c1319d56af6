-------------------------------- MODULE MCTabs --------------------------------
(* Symmetry for the TLC runs of Tabs. *)
EXTENDS Tabs, TLC

NodeSymmetry == Permutations(Node)
===============================================================================
