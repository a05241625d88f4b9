------------------------------ MODULE MCTexts ------------------------------
(* Rows that overlapping calls read before a wait and write after it: letters *)
(* and answers, profiles and styles.  The two components share no variable    *)
(* here, so a behaviour is one of a single component, chosen at the start;    *)
(* the other one stays as it is.                                              *)
EXTENDS MCLetters, MCPreferences

VARIABLE part    \* the component that moves

TextsInit ==
  /\ part \in {"letters", "preferences"}
  /\ Init /\ PreferencesInit

TextsNext ==
  /\ UNCHANGED part
  /\ \/ part = "letters" /\ Next /\ UNCHANGED preferencesVars
     \/ part = "preferences" /\ PreferencesNext /\ UNCHANGED vars

TextsSpec == TextsInit /\ [][TextsNext]_<<part, vars, preferencesVars>>
=============================================================================
