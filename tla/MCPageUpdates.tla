---------------------------- MODULE MCPageUpdates ----------------------------
(* Symmetry for the TLC runs of PageUpdates: rounds are interchangeable. *)
EXTENDS PageUpdates, TLC

RoundSymmetry == Permutations(Round)
==============================================================================
