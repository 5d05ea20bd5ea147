---------------------------- MODULE MCRadioLink ----------------------------
(* Small instances of RadioLink. *)
EXTENDS RadioLink, TLC

CONSTANTS st, mo, wd, o1, o2, u1, x, y

\* Requests of the operator are alike, and so are MeshCore instances.
Alike == Permutations(Operators) \cup Permutations(Transports)
=============================================================================
