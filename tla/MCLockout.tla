---- MODULE MCLockout ----
(* A small instance of LateLocks: one account, its owner and others guessing. *)
EXTENDS LateLocks, TLC

CONSTANTS u1, r1, r2

MCLowerCase == [e \in Addresses |-> e]
MCSeedUsers == [u \in UserIds |-> NewUser("ann@", "right", None)]
Symmetry == Permutations(Requests)
====
