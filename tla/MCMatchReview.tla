---------------------------- MODULE MCMatchReview ----------------------------
(* Instances of MatchReview for TLC: one match with its owner and a stranger. *)
EXTENDS MatchReview, TLC

CONSTANTS m1, u1, u2

MCOwner == [m \in Matches |-> u1]

Cmd(n, u) == [name |-> n, match |-> m1, user |-> u]

\* The decisions of the owner, and an accept by somebody else.
AllCommands == {Cmd(n, u1) : n \in DOMAIN Decision} \cup {Cmd("accept", u2)}

\* Scorers differ in nothing but their passes; for the run without liveness only.
EqualScorers == Permutations(Scorers)
=============================================================================
