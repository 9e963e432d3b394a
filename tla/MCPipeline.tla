---- MODULE MCPipeline ----
(* A small instance of Pipeline: two replicas serve one client and one user. *)
EXTENDS Pipeline, TLC

CONSTANTS r1, r2, a, b, c1, u1

MCLimit == [global |-> 2, auth |-> 1]
Symmetry == Permutations(Requests) \cup Permutations(Replicas)
====
