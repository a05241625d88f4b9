------------------------------ MODULE MCIntake ------------------------------
(* Instances of Intake for TLC. *)
EXTENDS Intake

CONSTANTS channel, page, one, two, a, b, c, d

\* A post a that is posted again as b and stands on a page as c, where d
\* replaces it.
MCPostings == {a, b, c, d}
MCSourceOf == [v \in MCPostings |-> IF v \in {a, b} THEN "telegram" ELSE "careers"]
MCIdOf == [v \in MCPostings |-> IF v = b THEN 2 ELSE 1]
MCHashOf == [v \in MCPostings |-> IF v = d THEN 2 ELSE 1]
MCOfferedTo ==
  [p \in Pollers |-> CASE p = channel -> {a} [] p = page -> {c}
                       [] p = one -> {a, b, c} [] OTHER -> {b, c, d}]
=============================================================================
