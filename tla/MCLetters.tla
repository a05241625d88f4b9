----------------------------- MODULE MCLetters -----------------------------
(* Instances of Letters for TLC. *)
EXTENDS Letters

CONSTANTS first, second

\* A vacancy with two screening questions, of one user.
MCForm == <<first, second>>
=============================================================================
