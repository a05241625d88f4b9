-------------------------- MODULE MCCircuitBreaker --------------------------
(* Instances of CircuitBreaker for TLC: the cfgs beside this module fill it in. *)
EXTENDS CircuitBreaker
=============================================================================
