-------------------------- MODULE MCChatAccounts --------------------------
(* Instances of ChatAccounts for TLC. *)
EXTENDS ChatAccounts
=============================================================================
