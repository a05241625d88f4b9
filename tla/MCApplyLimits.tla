---------------------------- MODULE MCApplyLimits ----------------------------
(* Instances of ApplyLimits for TLC. *)
EXTENDS ApplyLimits

CONSTANTS r1, r2, u1

MCUserOf == [r \in Requests |-> u1]
=============================================================================
