---- MODULE MCSettings ----
(* A small instance of Settings and the gates that read it. *)
EXTENDS Gates

CONSTANTS r1, r2, r3
====
