---------------------------- MODULE MCProbeCaches ----------------------------
(* Small timeouts in the order of the code's.                              *)
EXTENDS ProbeCaches, TLC

Timeouts == [tailnet |-> 2, updates |-> 3]
Periods == [tailnet |-> 6, updates |-> 8]

Symmetry == Permutations(Loads)
=============================================================================
