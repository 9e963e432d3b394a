---- MODULE MCSessions ----
(* A small instance of Sessions: the accounts of two users. *)
EXTENDS Sessions, TLC

CONSTANTS u1, u2, r1, r2, r3, t1, t2, t3, t4

MCLowerCase == [e \in Addresses |-> e]
MCSeedUsers == [u \in UserIds |->
    NewUser(IF u = u1 THEN "ann@" ELSE "bob@", "right", None)]
Symmetry == Permutations(Requests) \cup Permutations(Tokens)
====
