---------------------------- MODULE MCSessions ----------------------------
(* Instances of Sessions for TLC. *)
EXTENDS Sessions, TLC

CONSTANTS r1, r2, t1, t2, t3

\* Tokens are random and requests alike.
Alike == Permutations({r1, r2}) \cup Permutations({t1, t2, t3})
=============================================================================
