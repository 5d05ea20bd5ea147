---------------------------- MODULE MCDmDelivery ----------------------------
(* Small instances of DmDelivery. *)
EXTENDS DmDelivery, TLC

CONSTANTS m1, m2, r1, r2, u1, u2

\* Every retry is about the first message.
RetryOfOne == [r \in Retries |-> m1]

Interchangeable == Permutations(Retries) \cup Permutations(Users)
=============================================================================
