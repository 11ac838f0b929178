---------------------------- MODULE MCLockManager ----------------------------
(* Instances of LockManager for TLC.                                       *)
EXTENDS LockManager, TLC

CONSTANTS t1, t2, t3

\* t3 started in the same second as t2, after t1.
MCStartTime == [t \in Txns |-> IF t = t1 THEN 1 ELSE 2]

OffOnly == {FALSE}

\* Requests are interchangeable addresses; t2 and t3 differ in nothing.
Symmetry == Permutations(Requests) \cup Permutations(Keys) \cup Permutations({t2, t3})
=============================================================================
