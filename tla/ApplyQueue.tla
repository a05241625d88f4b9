----------------------------- MODULE ApplyQueue -----------------------------
(***************************************************************************)
(* The apply_jobs table, the API requests that enqueue and cancel jobs,    *)
(* and the workers that drain it (features/apply_worker).  Every          *)
(* repository call commits on its own, so each action below is the code    *)
(* between two commits; requests, workers and faults interleave there.    *)
(*                                                                         *)
(* UNIQUE(match_id) makes a job the row of its match, so rows are indexed  *)
(* by match.  Wall-clock time is reduced to `due': next_run_at is NULL or  *)
(* in the past.                                                            *)
(***************************************************************************)
EXTENDS Naturals, Sequences

CONSTANTS
  Matches,           \* vacancy matches; each owns at most one job row
  Workers,           \* ApplyWorkerProcess instances
  Clients,           \* concurrent requests calling the ApplyJobService
  MaxAttempts,       \* ApplyWorker(max_attempts=...)
  PolicyAttempts,    \* RetryPolicy.max_attempts of the service
  MaxFaults,         \* bound on process deaths and raising notifiers
  NoMatch            \* no job in hand

ASSUME QueueAssumption ==
  /\ MaxAttempts \in Nat \ {0}
  /\ PolicyAttempts \in Nat \ {0}
  /\ MaxFaults \in Nat
  /\ NoMatch \notin Matches

VARIABLES
  status, attempts, due, external,       \* the apply_jobs rows, by match
  created,                               \* matches in created_at order of their rows
  history,                               \* apply_status_history rows per match
  match,                                 \* vacancy_matches.status, as the worker writes it
  wpc, wjob, wattempts, wresult, wfrom,  \* what a worker iteration holds
  cpc, cjob, cfrom,                      \* what a request holds
  accepted,                              \* matches the source took the application for
  tries,                                 \* adapter calls per match
  faults                                 \* deaths and raising notifiers so far

rowVars == <<status, attempts, due, external, created>>
workerVars == <<wpc, wjob, wattempts, wresult, wfrom>>
clientVars == <<cpc, cjob, cfrom>>
outside == <<accepted, tries>>
vars == <<rowVars, history, match, workerVars, clientVars, outside, faults>>

-----------------------------------------------------------------------------

Terminal == {"succeeded", "cancelled", "dead_letter"}

Cancellable == {"queued", "failed"}

JobStatus == {"queued", "running", "failed"} \cup Terminal

HistoryRow == [from: JobStatus \cup {"none"}, to: JobStatus]

Result == {"success", "retryable", "permanent"}

\* The positions between two commits, named for the commit just made or due.
WorkerPC == {"idle", "claimed", "ready", "submitting", "completing", "completed",
             "flipping", "failing", "marked", "requeued", "parked"}

ClientPC == {"idle", "inserting", "inserted", "cancelling", "cancelled"}

\* Rows: "absent" stands for no row, `external' is external_application_id #
\* NULL.  last_error and the lifecycle timestamps are left out: nothing reads
\* them back.  Workers: the job in hand, the attempts of the claimed object,
\* the adapter's result and the status re-read before the last write.
Init ==
  /\ status = [m \in Matches |-> "absent"]
  /\ attempts = [m \in Matches |-> 0]
  /\ due = [m \in Matches |-> TRUE]
  /\ external = [m \in Matches |-> FALSE]
  /\ created = <<>>
  /\ history = [m \in Matches |-> <<>>]
  /\ match = [m \in Matches |-> "accepted"]
  /\ wpc = [w \in Workers |-> "idle"]
  /\ wjob = [w \in Workers |-> NoMatch]
  /\ wattempts = [w \in Workers |-> 0]
  /\ wresult = [w \in Workers |-> "retryable"]
  /\ wfrom = [w \in Workers |-> "running"]
  /\ cpc = [c \in Clients |-> "idle"]
  /\ cjob = [c \in Clients |-> NoMatch]
  /\ cfrom = [c \in Clients |-> "queued"]
  /\ accepted = {}
  /\ tries = [m \in Matches |-> 0]
  /\ faults = 0

-----------------------------------------------------------------------------
\* Requests: enqueue_for_match and cancel.

\* Mutant: from and to swapped.
SwappedTransition(m, from, to) ==
  history' = [history EXCEPT ![m] = Append(@, [from |-> to, to |-> from])]

\* One history row, committed after the status it describes.
RecordTransition(m, from, to) ==
  history' = [history EXCEPT ![m] = Append(@, [from |-> from, to |-> to])]

EndRequest(c) ==
  /\ cpc' = [cpc EXCEPT ![c] = "idle"]
  /\ cjob' = [cjob EXCEPT ![c] = NoMatch]
  /\ UNCHANGED cfrom

\* get_by_match found no row; a request that finds one returns it unchanged.
LookupForEnqueue(c, m) ==
  /\ cpc[c] = "idle"
  /\ status[m] = "absent"
  /\ cpc' = [cpc EXCEPT ![c] = "inserting"]
  /\ cjob' = [cjob EXCEPT ![c] = m]
  /\ UNCHANGED <<rowVars, history, match, workerVars, cfrom, outside, faults>>

\* Mutant: no unique constraint on match_id.
InsertDuplicate(c) ==
  /\ cpc[c] = "inserting"
  /\ status' = [status EXCEPT ![cjob[c]] = "queued"]
  /\ created' = Append(created, cjob[c])
  /\ cpc' = [cpc EXCEPT ![c] = "inserted"]
  /\ UNCHANGED <<attempts, due, external, history, match, workerVars, cjob, cfrom,
                 outside, faults>>

InsertJob(c) ==
  /\ cpc[c] = "inserting"
  /\ status[cjob[c]] = "absent"
  /\ status' = [status EXCEPT ![cjob[c]] = "queued"]
  /\ created' = Append(created, cjob[c])
  /\ cpc' = [cpc EXCEPT ![c] = "inserted"]
  /\ UNCHANGED <<attempts, due, external, history, match, workerVars, cjob, cfrom,
                 outside, faults>>

\* The UNIQUE constraints reject the second of two racing INSERTs.
RejectInsert(c) ==
  /\ cpc[c] = "inserting"
  /\ status[cjob[c]] # "absent"
  /\ EndRequest(c)
  /\ UNCHANGED <<rowVars, history, match, workerVars, outside, faults>>

RecordEnqueue(c) ==
  /\ cpc[c] = "inserted"
  /\ RecordTransition(cjob[c], "none", "queued")
  /\ EndRequest(c)
  /\ UNCHANGED <<rowVars, match, workerVars, outside, faults>>

\* cancel() reads the row and checks the status it read ...
CheckCancellable(c, m) ==
  /\ cpc[c] = "idle"
  /\ status[m] \in Cancellable
  /\ cpc' = [cpc EXCEPT ![c] = "cancelling"]
  /\ cjob' = [cjob EXCEPT ![c] = m]
  /\ cfrom' = [cfrom EXCEPT ![c] = status[m]]
  /\ UNCHANGED <<rowVars, history, match, workerVars, outside, faults>>

\* ... and then writes CANCELLED whatever the row holds by now.
WriteCancelled(c) ==
  /\ cpc[c] = "cancelling"
  /\ status' = [status EXCEPT ![cjob[c]] = "cancelled"]
  /\ cpc' = [cpc EXCEPT ![c] = "cancelled"]
  /\ UNCHANGED <<attempts, due, external, created, history, match, workerVars,
                 cjob, cfrom, outside, faults>>

RecordCancel(c) ==
  /\ cpc[c] = "cancelled"
  /\ RecordTransition(cjob[c], cfrom[c], "cancelled")
  /\ EndRequest(c)
  /\ UNCHANGED <<rowVars, match, workerVars, outside, faults>>

-----------------------------------------------------------------------------
\* The worker: process_one.

\* Mutant: claims that also sweep up rows left running.
ClaimableOrRunning(m) == status[m] \in {"queued", "running"} /\ due[m]

Claimable(m) == status[m] = "queued" /\ due[m]

EndIteration(w) ==
  /\ wpc' = [wpc EXCEPT ![w] = "idle"]
  /\ wjob' = [wjob EXCEPT ![w] = NoMatch]
  /\ wattempts' = [wattempts EXCEPT ![w] = 0]
  /\ UNCHANGED <<wresult, wfrom>>

\* SELECT ... FOR UPDATE SKIP LOCKED, status, attempts and started_at in one
\* transaction.
Claim(w, m) ==
  /\ wpc[w] = "idle"
  /\ Claimable(m)
  /\ status' = [status EXCEPT ![m] = "running"]
  /\ attempts' = [attempts EXCEPT ![m] = @ + 1]
  /\ wpc' = [wpc EXCEPT ![w] = "claimed"]
  /\ wjob' = [wjob EXCEPT ![w] = m]
  /\ wattempts' = [wattempts EXCEPT ![w] = attempts[m] + 1]
  /\ UNCHANGED <<due, external, created, history, match, wresult, wfrom,
                 clientVars, outside, faults>>

\* ORDER BY created_at LIMIT 1.
ClaimNext(w) ==
  \E i \in DOMAIN created : /\ \A k \in 1 .. i - 1 : ~Claimable(created[k])
                            /\ Claim(w, created[i])

RecordClaim(w) ==
  /\ wpc[w] = "claimed"
  /\ RecordTransition(wjob[w], "queued", "running")
  /\ wpc' = [wpc EXCEPT ![w] = "ready"]
  /\ UNCHANGED <<rowVars, match, wjob, wattempts, wresult, wfrom, clientVars,
                 outside, faults>>

\* Mutant: any answer but a permanent failure counts as a success.
ConcludeOptimist(w, r) ==
  \/ status[wjob[w]] \in Terminal /\ EndIteration(w)
  \/ /\ status[wjob[w]] \notin Terminal
     /\ wpc' = [wpc EXCEPT ![w] = IF r # "permanent" THEN "completing" ELSE "failing"]
     /\ wresult' = [wresult EXCEPT ![w] = r]
     /\ wfrom' = [wfrom EXCEPT ![w] = status[wjob[w]]]
     /\ UNCHANGED <<wjob, wattempts>>

\* complete() and fail() re-read the row; a terminal one makes them raise, which
\* ends the iteration.
Conclude(w, r) ==
  \/ status[wjob[w]] \in Terminal /\ EndIteration(w)
  \/ /\ status[wjob[w]] \notin Terminal
     /\ wpc' = [wpc EXCEPT ![w] = IF r = "success" THEN "completing" ELSE "failing"]
     /\ wresult' = [wresult EXCEPT ![w] = r]
     /\ wfrom' = [wfrom EXCEPT ![w] = status[wjob[w]]]
     /\ UNCHANGED <<wjob, wattempts>>

\* The vacancy is gone or no adapter serves its source: fail(retryable=False).
NoRoute(w) ==
  /\ wpc[w] = "ready"
  /\ Conclude(w, "permanent")
  /\ UNCHANGED <<rowVars, history, match, clientVars, outside, faults>>

Submit(w) ==
  /\ wpc[w] = "ready"
  /\ wpc' = [wpc EXCEPT ![w] = "submitting"]
  /\ tries' = [tries EXCEPT ![wjob[w]] = @ + 1]
  /\ UNCHANGED <<rowVars, history, match, wjob, wattempts, wresult, wfrom,
                 clientVars, accepted, faults>>

\* ApplyResult, or an exception of the adapter normalised to a retryable one.
\* External: the source may take the application and the answer still get lost.
Answer(w, r) ==
  /\ wpc[w] = "submitting"
  /\ accepted' \in {accepted, accepted \cup {wjob[w]}}
  /\ r = "success" => wjob[w] \in accepted'
  /\ Conclude(w, r)
  /\ UNCHANGED <<rowVars, history, match, clientVars, tries, faults>>

WriteSucceeded(w) ==
  /\ wpc[w] = "completing"
  /\ status' = [status EXCEPT ![wjob[w]] = "succeeded"]
  /\ external' = [external EXCEPT ![wjob[w]] = TRUE]
  /\ wpc' = [wpc EXCEPT ![w] = "completed"]
  /\ UNCHANGED <<attempts, due, created, history, match, wjob, wattempts, wresult,
                 wfrom, clientVars, outside, faults>>

\* Mutant: a success whose row was cancelled meanwhile is not carried to the match.
RecordSucceededIfCurrent(w) ==
  /\ wpc[w] = "completed"
  /\ RecordTransition(wjob[w], wfrom[w], "succeeded")
  /\ IF status[wjob[w]] = "succeeded"
       THEN /\ wpc' = [wpc EXCEPT ![w] = "flipping"]
            /\ UNCHANGED <<wjob, wattempts, wresult, wfrom>>
       ELSE EndIteration(w)
  /\ UNCHANGED <<rowVars, match, clientVars, outside, faults>>

RecordSucceeded(w) ==
  /\ wpc[w] = "completed"
  /\ RecordTransition(wjob[w], wfrom[w], "succeeded")
  /\ wpc' = [wpc EXCEPT ![w] = "flipping"]
  /\ UNCHANGED <<rowVars, match, wjob, wattempts, wresult, wfrom, clientVars,
                 outside, faults>>

\* A notifier that raises takes the worker out of process_one before the flip;
\* the run loop logs it and goes on.
NotifierRaises(w) ==
  /\ faults < MaxFaults
  /\ wpc[w] = "flipping"
  /\ EndIteration(w)
  /\ faults' = faults + 1
  /\ UNCHANGED <<rowVars, history, match, clientVars, outside>>

\* match_service.update_status(match_id, "applied"), without any guard.
FlipMatch(w) ==
  /\ wpc[w] = "flipping"
  /\ match' = [match EXCEPT ![wjob[w]] = "applied"]
  /\ EndIteration(w)
  /\ UNCHANGED <<rowVars, history, clientVars, outside, faults>>

MarkAttempt(w) ==
  /\ wpc[w] = "failing"
  /\ attempts' = [attempts EXCEPT ![wjob[w]] = @ + 1]
  /\ wpc' = [wpc EXCEPT ![w] = "marked"]
  /\ UNCHANGED <<status, due, external, created, history, match, wjob, wattempts,
                 wresult, wfrom, clientVars, outside, faults>>

\* Mutant: the policy is not asked, and the worker's limit is off by one.
RetriesOnceMore(w) ==
  /\ wresult[w] = "retryable"
  /\ wattempts[w] <= MaxAttempts

\* _handle_failure asks for a retry by the attempts of the claimed object, the
\* policy grants it by the attempts of the re-read row.
Retries(w) ==
  /\ wresult[w] = "retryable"
  /\ wattempts[w] < MaxAttempts
  /\ attempts[wjob[w]] < PolicyAttempts

\* Mutant: a retryable failure leaves the row in FAILED.
RequeueAsFailed(w) ==
  /\ wpc[w] = "marked"
  /\ Retries(w)
  /\ status' = [status EXCEPT ![wjob[w]] = "failed"]
  /\ due' = [due EXCEPT ![wjob[w]] = FALSE]
  /\ wpc' = [wpc EXCEPT ![w] = "requeued"]
  /\ UNCHANGED <<attempts, external, created, history, match, wjob, wattempts,
                 wresult, wfrom, clientVars, outside, faults>>

Requeue(w) ==
  /\ wpc[w] = "marked"
  /\ Retries(w)
  /\ status' = [status EXCEPT ![wjob[w]] = "queued"]
  /\ due' = [due EXCEPT ![wjob[w]] = FALSE]
  /\ wpc' = [wpc EXCEPT ![w] = "requeued"]
  /\ UNCHANGED <<attempts, external, created, history, match, wjob, wattempts,
                 wresult, wfrom, clientVars, outside, faults>>

DeadLetter(w) ==
  /\ wpc[w] = "marked"
  /\ ~Retries(w)
  /\ status' = [status EXCEPT ![wjob[w]] = "dead_letter"]
  /\ wpc' = [wpc EXCEPT ![w] = "parked"]
  /\ UNCHANGED <<attempts, due, external, created, history, match, wjob, wattempts,
                 wresult, wfrom, clientVars, outside, faults>>

\* The notifier, raising or not, is the last call of the iteration.
RecordFailed(w) ==
  /\ wpc[w] \in {"requeued", "parked"}
  /\ RecordTransition(wjob[w], wfrom[w],
                      IF wpc[w] = "requeued" THEN "queued" ELSE "dead_letter")
  /\ EndIteration(w)
  /\ UNCHANGED <<rowVars, match, clientVars, outside, faults>>

-----------------------------------------------------------------------------
\* Time and process deaths.

BackoffElapses(m) ==
  /\ ~due[m]
  /\ due' = [due EXCEPT ![m] = TRUE]
  /\ UNCHANGED <<status, attempts, external, created, history, match, workerVars,
                 clientVars, outside, faults>>

CrashWorker(w) ==
  /\ faults < MaxFaults
  /\ wpc[w] # "idle"
  /\ EndIteration(w)
  /\ faults' = faults + 1
  /\ UNCHANGED <<rowVars, history, match, clientVars, outside>>

CrashClient(c) ==
  /\ faults < MaxFaults
  /\ cpc[c] # "idle"
  /\ EndRequest(c)
  /\ faults' = faults + 1
  /\ UNCHANGED <<rowVars, history, match, workerVars, outside>>

-----------------------------------------------------------------------------

WorkerStep(w) ==
  \/ ClaimNext(w) \/ RecordClaim(w)
  \/ NoRoute(w) \/ Submit(w) \/ (\E r \in Result : Answer(w, r))
  \/ WriteSucceeded(w) \/ RecordSucceeded(w) \/ NotifierRaises(w)
  \/ FlipMatch(w)
  \/ MarkAttempt(w) \/ Requeue(w) \/ DeadLetter(w) \/ RecordFailed(w)

\* A request that has started runs to its end.
ClientStep(c) ==
  \/ InsertJob(c) \/ RejectInsert(c) \/ RecordEnqueue(c)
  \/ WriteCancelled(c) \/ RecordCancel(c)

Request(c) == \E m \in Matches : LookupForEnqueue(c, m) \/ CheckCancellable(c, m)

Crash == (\E w \in Workers : CrashWorker(w)) \/ (\E c \in Clients : CrashClient(c))

Next ==
  \/ \E w \in Workers : WorkerStep(w)
  \/ \E c \in Clients : ClientStep(c) \/ Request(c)
  \/ \E m \in Matches : BackoffElapses(m)
  \/ Crash

Spec == Init /\ [][Next]_vars

\* The run loop polls until shutdown and swallows the exceptions of an
\* iteration; adapters answer or raise (their HTTP clients have timeouts);
\* time passes.
Fairness ==
  /\ \A w \in Workers : WF_vars(WorkerStep(w))
  /\ \A c \in Clients : WF_vars(ClientStep(c))
  /\ \A m \in Matches : WF_vars(BackoffElapses(m))

FairSpec == Spec /\ Fairness

-----------------------------------------------------------------------------
\* Properties.

\* Every variable stays in the range its column or local can take.
TypeOK ==
  /\ status \in [Matches -> JobStatus \cup {"absent"}]
  /\ attempts \in [Matches -> Nat]
  /\ due \in [Matches -> BOOLEAN]
  /\ external \in [Matches -> BOOLEAN]
  /\ created \in Seq(Matches)
  /\ history \in [Matches -> Seq(HistoryRow)]
  /\ match \in [Matches -> {"accepted", "applied"}]
  /\ wpc \in [Workers -> WorkerPC]
  /\ wjob \in [Workers -> Matches \cup {NoMatch}]
  /\ wattempts \in [Workers -> Nat]
  /\ wresult \in [Workers -> Result]
  /\ wfrom \in [Workers -> JobStatus]
  /\ cpc \in [Clients -> ClientPC]
  /\ cjob \in [Clients -> Matches \cup {NoMatch}]
  /\ cfrom \in [Clients -> JobStatus]
  /\ accepted \subseteq Matches
  /\ tries \in [Matches -> Nat]
  /\ faults \in Nat

\* A worker has the job in hand from the claim to the write that ends or
\* requeues it.
Holding == {"claimed", "ready", "submitting", "completing", "failing", "marked"}

Holders == [m \in Matches |-> {w \in Workers : wpc[w] \in Holding /\ wjob[w] = m}]

Done == {m \in Matches : external[m]}

Lease == INSTANCE ApplyLease
           WITH Jobs <- Matches, Target <- [m \in Matches |-> m],
                holders <- Holders, taken <- accepted, done <- Done

\* Claims, requeues, racing cancels and faults never put one job in the hands
\* of two workers, a success is recorded only of an application that the source
\* took, and a job with a recorded success is never picked up again
\* (claim_next, fail, cancel, complete).
ImplementsLease == Lease!Spec

\* What a worker is doing with the job of a match, and the successes on its row.
Hold ==
  [m \in Matches |->
    CASE \E w \in Workers : wpc[w] \in Holding /\ wjob[w] = m -> "submitting"
      [] \E w \in Workers : wpc[w] \in {"completed", "flipping"} /\ wjob[w] = m -> "flipping"
      [] OTHER -> "none"]

Successes == [m \in Matches |-> IF external[m] THEN 1 ELSE 0]

Row == INSTANCE ApplyRow WITH job <- status, hold <- Hold, applications <- Successes

\* Seen from outside, all commits of requests and workers are steps of one row per
\* match: a worker lets go of a row that was not cancelled only by concluding it,
\* and a success is written once (process_one, cancel, enqueue_for_match).
ImplementsRow == Row!Spec

\* claim_next and mark_attempt both bump `attempts', so every run spends two: the
\* adapter is called at most (PolicyAttempts + 1) \div 2 and (MaxAttempts + 2) \div 2
\* times for a job, however cancels and claims race (fail, should_retry).
SubmissionBudget ==
  \A m \in Matches : /\ 2 * tries[m] <= PolicyAttempts + 1
                     /\ 2 * tries[m] <= MaxAttempts + 2

\* A match shows `applied' only when the source took the application and the
\* success is on the job row: complete() before the flip, success only for an
\* accepted application (_handle_success).
AppliedWasAccepted ==
  \A m \in Matches : match[m] = "applied" => m \in accepted /\ external[m]

\* However enqueues race, one row opens the timeline of a job, "the only row
\* with from_status=None" (enqueue_for_match, UNIQUE(match_id)).
OneOpeningRow ==
  \A m \in Matches : \A i, j \in DOMAIN history[m] :
    history[m][i].from = "none" /\ history[m][j].from = "none" => i = j

\* Someone has written status s on the row of m and not yet its history row.
AboutToRecord(m, s) ==
  \/ \E w \in Workers : /\ wjob[w] = m
                        /\ <<wpc[w], s>> \in {<<"claimed", "running">>,
                                              <<"completed", "succeeded">>,
                                              <<"requeued", "queued">>,
                                              <<"parked", "dead_letter">>}
  \/ \E c \in Clients : /\ cjob[c] = m
                        /\ <<cpc[c], s>> \in {<<"inserted", "queued">>,
                                              <<"cancelled", "cancelled">>}

\* Unless a process dies, the status a row shows is in its timeline or about
\* to be, whichever of the racing writers came last (claim_next, complete, fail,
\* cancel: each writes its history row after its status).
StatusInTimeline ==
  faults = 0 => \A m \in Matches : status[m] # "absent" =>
    \/ \E i \in DOMAIN history[m] : history[m][i].to = status[m]
    \/ AboutToRecord(m, status[m])

\* Unless a process dies, every job that is enqueued is decided: retries,
\* backoff and racing cancels leave none queued or running (process_one, fail).
EveryJobSettles ==
  \A m \in Matches : status[m] # "absent" ~> status[m] \in Terminal \/ faults > 0

\* Unless a process dies or the notifier raises, a recorded success reaches the
\* match, so the dashboard shows it (_handle_success), even when a stale cancel
\* overwrites the row.
SuccessIsShown ==
  \A m \in Matches : external[m] ~> match[m] = "applied" \/ faults > 0

-----------------------------------------------------------------------------
\* What the code says of itself and does not hold.

\* "succeeded / cancelled / dead_letter are final; the only acceptable
\* follow-up is a manual re-queue" (ApplyJobAlreadyTerminalError).
TerminalIsFinal ==
  [][\A m \in Matches : status[m] \in Terminal => status'[m] = status[m]]_vars

=============================================================================
