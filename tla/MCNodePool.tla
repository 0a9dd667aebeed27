------------------------------ MODULE MCNodePool ------------------------------
(* Goroutines are interchangeable.                                         *)
EXTENDS NodePool, TLC

Symmetry == Permutations(Thread)
=============================================================================
