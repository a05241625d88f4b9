---------------------------- MODULE MCHHSubmit ----------------------------
(* Instances of HHSubmit for TLC: two jobs for one vacancy, and one whose    *)
(* letter is empty.                                                          *)
EXTENDS HHSubmit

CONSTANTS j3, v1, v2, hello

MCVacancy == [j \in Jobs |-> IF j = j3 THEN v2 ELSE v1]
MCLetter == [j \in Jobs |-> IF j = j3 THEN NoLetter ELSE hello]
=============================================================================
