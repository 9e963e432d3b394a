---- MODULE MCStorage ----
(* A small instance of Storage: a safe and an unsafe folder and extension. *)
EXTENDS Storage, TLC

CONSTANTS r1, r2, r3, id1, id2, id3

Symmetry == Permutations(Requests) \cup Permutations(Ids)
====
