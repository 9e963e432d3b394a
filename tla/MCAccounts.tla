---- MODULE MCAccounts ----
(* Small instances of Accounts, one for each way to prove who one is. *)
EXTENDS Accounts, TLC

CONSTANTS u1, u2, r1, r2, g1, g2, t1, t2, t3, t4

\* "Ann@" and "ann@" are one mailbox.
MCLowerCase == [e \in Addresses |-> IF e = "Ann@" THEN "ann@" ELSE e]
Absent == [NewUser(None, None, None) EXCEPT !.isActive = FALSE]
MCSeedUsers == [u \in UserIds |->
    IF u = u1 THEN NewUser("ann@", "right", None) ELSE Absent]
RequestsAndTokens == Permutations(Requests) \cup Permutations(Tokens)
RequestsAndKeys == Permutations(Requests) \cup Permutations(Tokens)
                     \cup Permutations(GoogleIds)
====
