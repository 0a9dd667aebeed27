---------------------------- MODULE MCRequestRetry ----------------------------
(* RequestRetry for TLC: nodes and handlers are interchangeable.            *)
EXTENDS RequestRetry, TLC

Symmetry == Permutations(Node) \cup Permutations(Request)
=============================================================================
