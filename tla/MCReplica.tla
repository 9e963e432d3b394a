---- MODULE MCReplica ----
(* A small instance of Replica: more requests than connections. *)
EXTENDS Replica

CONSTANTS p1, p2, c1, c2
====
