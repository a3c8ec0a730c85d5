------------------------ MODULE MCChannelConcurrency ------------------------
(* A small instance of ChannelConcurrency for TLC.                         *)
EXTENDS ChannelConcurrency, TLC

Symmetry == Permutations(Goroutines) \cup Permutations(Counters)
=============================================================================
