---------------------------- MODULE MCKnownHosts ----------------------------
(* An instance of KnownHosts for TLC.                                      *)
EXTENDS KnownHosts, TLC

Symmetry == Permutations(Checks) \cup Permutations(Keys)
=============================================================================
