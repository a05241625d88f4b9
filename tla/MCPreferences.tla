--------------------------- MODULE MCPreferences ---------------------------
(* Two requests on one profile and the styles of two users.                  *)
EXTENDS Preferences, TLC

CONSTANTS e1, e2, u1, u2, p1, s1, s2, formal, casual

Symmetric == Permutations({e1, e2}) \cup Permutations({s1, s2}) \cup Permutations({u1, u2})
=============================================================================
