------------------------------ MODULE ApplyRow ------------------------------
(***************************************************************************)
(* The job of a match as the rest of the program meets it: the status of   *)
(* its row, what a worker is doing with it, and how often a success was    *)
(* recorded.  Attempts, backoffs, timelines and the number of workers and  *)
(* requests do not show here.                                              *)
(*                                                                         *)
(* MatchReview is built from these actions; ApplyQueue, with all of its    *)
(* commits, implements them.                                               *)
(***************************************************************************)
EXTENDS Naturals

CONSTANT Matches

VARIABLES
  job,          \* the status of the row, or "absent"
  hold,         \* what a worker is doing with it
  applications  \* successes recorded for the match

vars == <<job, hold, applications>>

Init ==
  /\ job = [m \in Matches |-> "absent"]
  /\ hold = [m \in Matches |-> "none"]
  /\ applications = [m \in Matches |-> 0]

Insert(m) ==
  /\ job[m] = "absent"
  /\ job' = [job EXCEPT ![m] = "queued"]
  /\ UNCHANGED <<hold, applications>>

\* The check of a cancel may be arbitrarily stale when the cancel is written.
Cancel(m) ==
  /\ job[m] # "absent"
  /\ job' = [job EXCEPT ![m] = "cancelled"]
  /\ UNCHANGED <<hold, applications>>

Claim(m) ==
  /\ job[m] = "queued"
  /\ job' = [job EXCEPT ![m] = "running"]
  /\ hold' = [hold EXCEPT ![m] = "submitting"]
  /\ UNCHANGED applications

\* The success goes to the row first and to the match later.
Complete(m) ==
  /\ hold[m] = "submitting"
  /\ job' = [job EXCEPT ![m] = "succeeded"]
  /\ hold' = [hold EXCEPT ![m] = "flipping"]
  /\ applications' = [applications EXCEPT ![m] = @ + 1]

Fail(m) ==
  /\ hold[m] = "submitting"
  /\ \E s \in {"queued", "dead_letter"} : job' = [job EXCEPT ![m] = s]
  /\ hold' = [hold EXCEPT ![m] = "none"]
  /\ UNCHANGED applications

LetGo(m) ==
  /\ hold' = [hold EXCEPT ![m] = "none"]
  /\ UNCHANGED <<job, applications>>

\* The row was cancelled under the worker, or the worker is through with it.
Drop(m) ==
  /\ \/ hold[m] = "submitting" /\ job[m] = "cancelled"
     \/ hold[m] = "flipping"
  /\ LetGo(m)

\* The process dies with the job in hand.
Die(m) == hold[m] # "none" /\ LetGo(m)

Next ==
  \E m \in Matches :
    Insert(m) \/ Cancel(m) \/ Claim(m) \/ Complete(m) \/ Fail(m) \/ Drop(m) \/ Die(m)

Spec == Init /\ [][Next]_vars
=============================================================================
