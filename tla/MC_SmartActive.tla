---------------------------- MODULE MC_SmartActive ----------------------------
(* Two servers and two goroutines of cycles, which are interchangeable.     *)
EXTENDS SmartActive, TLC

Symmetry == Permutations(Servers) \cup Permutations(Loops)
=============================================================================
