---------------------------- MODULE MCApplyQueue ----------------------------
(* Instances of ApplyQueue for TLC: the cfgs beside this module fill it in. *)
EXTENDS ApplyQueue
=============================================================================
