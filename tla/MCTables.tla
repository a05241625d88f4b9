----------------------------- MODULE MCTables ------------------------------
(* The components that write a table in several transactions of one call:    *)
(* sessions and vacancies.  They share no variable here, so a behaviour is   *)
(* one of a single component, chosen at the start; the other one stays as it *)
(* is.                                                                       *)
EXTENDS MCSessions, MCIntake

VARIABLE part    \* the component that moves

TablesInit ==
  /\ part \in {"sessions", "intake"}
  /\ Init /\ IntakeInit

TablesNext ==
  /\ UNCHANGED part
  /\ \/ part = "sessions" /\ Next /\ UNCHANGED intakeVars
     \/ part = "intake" /\ IntakeNext /\ UNCHANGED vars

TablesSpec == TablesInit /\ [][TablesNext]_<<part, vars, intakeVars>>
=============================================================================
