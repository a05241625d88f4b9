----------------------------- MODULE ApplyLease -----------------------------
(***************************************************************************)
(* What is promised about an application, whatever requests race with the  *)
(* workers and whichever of them dies: a job is in the hands of one worker *)
(* at a time, only a worker that holds it can make the source take the     *)
(* application, a job is done only if the source has it, and nobody picks  *)
(* up a job that is done.                                                  *)
(*                                                                         *)
(* The queue keeps this with the rows it stores, the adapter for hh.ru     *)
(* with what it reports; each of them implements this module.              *)
(***************************************************************************)
CONSTANTS
  Jobs, Workers,
  Target    \* what a job applies for at the source

VARIABLES
  holders,  \* the workers processing a job
  taken,    \* targets the source has an application for
  done      \* jobs with a success recorded or reported

vars == <<holders, taken, done>>

Init ==
  /\ holders = [j \in Jobs |-> {}]
  /\ taken = {}
  /\ done = {}

Acquire(w, j) ==
  /\ holders[j] = {}
  /\ j \notin done
  /\ holders' = [holders EXCEPT ![j] = {w}]
  /\ UNCHANGED <<taken, done>>

\* The source takes the application; its holder need not learn of it.
Take(w, j) ==
  /\ w \in holders[j]
  /\ taken' = taken \cup {Target[j]}
  /\ UNCHANGED <<holders, done>>

\* Given back for a retry, given up for good, or lost with the worker, perhaps
\* at the very answer that says that the application was taken.
Release(w, j) ==
  /\ w \in holders[j]
  /\ holders' = [holders EXCEPT ![j] = {}]
  /\ taken' \in {taken, taken \cup {Target[j]}}
  /\ UNCHANGED done

Finish(w, j) ==
  /\ w \in holders[j]
  /\ Target[j] \in taken
  /\ holders' = [holders EXCEPT ![j] = {}]
  /\ done' = done \cup {j}
  /\ UNCHANGED taken

Next ==
  \E w \in Workers, j \in Jobs :
    Acquire(w, j) \/ Take(w, j) \/ Release(w, j) \/ Finish(w, j)

Spec == Init /\ [][Next]_vars
=============================================================================
