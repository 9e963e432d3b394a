---- MODULE MCBrowser ----
(* A small instance of Browser: one account on two devices. *)
EXTENDS Browser, TLC

CONSTANTS u1, r1, r2, b1, b2, t1, t2, t3, t4

MCLowerCase == [e \in Addresses |-> e]
MCSeedUsers == [u \in UserIds |-> NewUser("ann@", "right", None)]
Symmetry == Permutations(Requests) \cup Permutations(Tokens) \cup Permutations(Browsers)
====
