----------------------------- MODULE MCScoring -----------------------------
(* Two profiles of one user meet one vacancy; the experiment x3 is not      *)
(* well-formed.                                                             *)
EXTENDS Scoring, TLC

CONSTANTS p1, p2, v1, u1, i1, i2, s1, a1, a2, n1, x1, x2, x3

MCOwner == [p \in {p1, p2} |-> u1]
MCBucket == [u \in {u1} |-> 1]
Variant(name, weight) == [name |-> name, weight |-> weight]
MCVariants ==
  (x1 :> <<Variant("a", 2), Variant("b", 2)>>) @@ (x2 :> <<Variant("a", 1), Variant("b", 3)>>)
    @@ (x3 :> <<Variant("a", 2), Variant("a", 2)>>)

Symmetric == Permutations({p1, p2}) \cup Permutations({a1, a2})
=============================================================================
