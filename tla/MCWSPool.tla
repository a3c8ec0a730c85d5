------------------------------ MODULE MCWSPool ------------------------------
(* A small instance of WSPool for TLC.                                     *)
EXTENDS WSPool, TLC

Symmetry ==
  Permutations(Goroutines) \cup Permutations(Conns) \cup Permutations(Entries)

=============================================================================
