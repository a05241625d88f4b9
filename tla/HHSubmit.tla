------------------------------ MODULE HHSubmit ------------------------------
(***************************************************************************)
(* One submission to hh.ru below the queue's worker: HHApplyAdapter.submit  *)
(* with its idempotency tracker, apply_once with its retries, and           *)
(* HHApplyClient with the renewal of the XSRF token after a 401.            *)
(*                                                                          *)
(* Each worker process has a tracker of its own, in memory.  The effect of  *)
(* a POST on hh.ru and the arrival of its answer are two steps: between     *)
(* them the connection may break, the process die, or another worker post.  *)
(***************************************************************************)
EXTENDS Naturals, FiniteSets

CONSTANTS
  Workers,
  Jobs,
  Vacancy,        \* what a job applies to; the resume is the same for all
  Letter,         \* the rendered message of a job
  NoLetter,       \* the empty message, which _default_cover_letter renders
  MaxRetries,     \* HHApplySettings.max_retries
  MaxSubmits,     \* bound: how often the queue hands a job to an adapter
  MaxCrashes      \* bound on process deaths

ASSUME SubmitAssumption ==
  /\ Jobs # {} /\ DOMAIN Vacancy = Jobs /\ DOMAIN Letter = Jobs
  /\ MaxRetries \in Nat \ {0} /\ MaxSubmits \in Nat /\ MaxCrashes \in Nat

VARIABLES
  pc,          \* where a worker is in submit
  job,         \* the job it submits
  attempt,     \* the attempt of apply_once
  posts,       \* requests sent to hh.ru by this submission
  answer,      \* the answer on its way to the worker
  tracker,     \* keys for which record_success was called in this process
  negotiated,  \* vacancies with an application of ours at hh.ru
  result,      \* the last ApplyResult for the job
  confirmed,   \* jobs for which hh.ru said that an application exists
  submits, crashes

call == <<pc, job, attempt, posts, answer>>
vars == <<call, tracker, negotiated, result, confirmed, submits, crashes>>

PC == {"idle", "replay", "post", "reply", "renew", "repost", "rereply"}

\* HTTP statuses told apart by apply_once; "broken" is an exception of the
\* transport and "other" any status that the contract does not name.
Replies == {"201", "400", "401", "409", "429", "5xx", "other", "broken"}

\* _build_idempotency_key hashes tenant, vacancy, resume and letter.
Key(j) == <<Vacancy[j], Letter[j]>>

-----------------------------------------------------------------------------

AnyJob == CHOOSE j \in Jobs : TRUE

\* submit returns or dies; its locals are gone.
Leave(w) ==
  /\ pc' = [pc EXCEPT ![w] = "idle"]
  /\ job' = [job EXCEPT ![w] = AnyJob]
  /\ attempt' = [attempt EXCEPT ![w] = 0]
  /\ posts' = [posts EXCEPT ![w] = 0]
  /\ answer' = [answer EXCEPT ![w] = "none"]

Init ==
  /\ pc = [w \in Workers |-> "idle"]
  /\ job = [w \in Workers |-> AnyJob]
  /\ attempt = [w \in Workers |-> 0]
  /\ posts = [w \in Workers |-> 0]
  /\ answer = [w \in Workers |-> "none"]
  /\ tracker = [w \in Workers |-> {}]
  /\ negotiated = {}
  /\ result = [j \in Jobs |-> "none"]
  /\ confirmed = {}
  /\ submits = [j \in Jobs |-> 0]
  /\ crashes = 0

InHand(j) == \E w \in Workers : pc[w] # "idle" /\ job[w] = j

\* The queue gives a job to one worker at a time, again after a retryable result.
Submit(w, j) ==
  /\ pc[w] = "idle"
  /\ ~InHand(j) /\ submits[j] < MaxSubmits
  /\ result[j] \in {"none", "retryable"}
  /\ pc' = [pc EXCEPT ![w] = "replay"]
  /\ job' = [job EXCEPT ![w] = j]
  /\ submits' = [submits EXCEPT ![j] = @ + 1]
  /\ attempt' = [attempt EXCEPT ![w] = 1]
  /\ UNCHANGED <<posts, answer, tracker, negotiated, result, confirmed, crashes>>

\* Mutant: a submission whose attempts were used up is stamped as well.
ReturnStamped(w, outcome) ==
  /\ result' = [result EXCEPT ![job[w]] = outcome]
  /\ tracker' = [tracker EXCEPT ![w] = IF outcome # "failed" THEN @ \cup {Key(job[w])} ELSE @]
  /\ Leave(w)

\* What submit returns to the worker: the tracker is stamped with a success first.
Return(w, outcome) ==
  /\ result' = [result EXCEPT ![job[w]] = outcome]
  /\ tracker' = [tracker EXCEPT ![w] = IF outcome = "success" THEN @ \cup {Key(job[w])} ELSE @]
  /\ Leave(w)

\* has_successful: a success of this process is replayed.  apply_once refuses
\* an empty message by an exception, which the adapter turns into a failure.
Replay(w) ==
  /\ pc[w] = "replay"
  /\ \/ Key(job[w]) \in tracker[w] /\ Return(w, "success")
     \/ Key(job[w]) \notin tracker[w] /\ Letter[job[w]] = NoLetter /\ Return(w, "failed")
     \/ /\ Key(job[w]) \notin tracker[w] /\ Letter[job[w]] # NoLetter
        /\ pc' = [pc EXCEPT ![w] = "post"]
        /\ UNCHANGED <<job, attempt, posts, answer, tracker, result>>
  /\ UNCHANGED <<negotiated, confirmed, submits, crashes>>

\* hh.ru takes the first application for a vacancy and refuses the others by a
\* 409; an error or a broken connection may hide that it took one.
Serve(v, reply) ==
  \/ reply = "201" /\ v \notin negotiated /\ negotiated' = negotiated \cup {v}
  \/ reply = "409" /\ v \in negotiated /\ UNCHANGED negotiated
  \/ reply \in {"5xx", "broken"} /\ negotiated' \in {negotiated, negotiated \cup {v}}
  \/ reply \in {"400", "401", "429", "other"} /\ UNCHANGED negotiated

Post(w) ==
  /\ pc[w] \in {"post", "repost"}
  /\ \E reply \in Replies :
       /\ Serve(Vacancy[job[w]], reply)
       /\ answer' = [answer EXCEPT ![w] = reply]
  /\ posts' = [posts EXCEPT ![w] = @ + 1]
  /\ pc' = [pc EXCEPT ![w] = IF @ = "post" THEN "reply" ELSE "rereply"]
  /\ UNCHANGED <<job, attempt, tracker, result, confirmed, submits, crashes>>

\* Mutant: "already applied" is a refusal.
SuccessfulIfNew == {"201"}

\* Statuses that end a submission with success.
Successful == {"201", "409"}

\* Mutant: a broken connection starts the submission over.
TryAgainFromStart(w) ==
  \/ /\ attempt[w] < MaxRetries
     /\ attempt' = [attempt EXCEPT ![w] = IF answer[w] = "broken" THEN 1 ELSE @ + 1]
     /\ posts' = [posts EXCEPT ![w] = IF answer[w] = "broken" THEN 0 ELSE @]
     /\ pc' = [pc EXCEPT ![w] = "post"]
     /\ answer' = [answer EXCEPT ![w] = "none"]
     /\ UNCHANGED <<job, tracker, result>>
  \/ attempt[w] = MaxRetries /\ Return(w, "retryable")

\* After the last attempt apply_once gives up: rate_limited or upstream_error,
\* both of them retryable for the queue.
TryAgain(w) ==
  \/ /\ attempt[w] < MaxRetries
     /\ attempt' = [attempt EXCEPT ![w] = @ + 1]
     /\ pc' = [pc EXCEPT ![w] = "post"]
     /\ answer' = [answer EXCEPT ![w] = "none"]
     /\ UNCHANGED <<job, posts, tracker, result>>
  \/ attempt[w] = MaxRetries /\ Return(w, "retryable")

\* The answer reaches apply_once.
Conclude(w) ==
  \/ answer[w] \in Successful /\ Return(w, "success")
  \/ answer[w] \in {"429", "5xx", "broken"} /\ TryAgain(w)
  \/ answer[w] \notin Successful \cup {"429", "5xx", "broken"} /\ Return(w, "failed")

\* The first 401 of a request asks for a new token before anything else.
Receive(w) ==
  /\ pc[w] \in {"reply", "rereply"}
  /\ confirmed' = IF answer[w] \in {"201", "409"} THEN confirmed \cup {job[w]} ELSE confirmed
  /\ \/ /\ pc[w] = "reply" /\ answer[w] = "401"
        /\ pc' = [pc EXCEPT ![w] = "renew"]
        /\ UNCHANGED <<job, attempt, posts, answer, tracker, result>>
     \/ (pc[w] = "rereply" \/ answer[w] # "401") /\ Conclude(w)
  /\ UNCHANGED <<negotiated, submits, crashes>>

\* fetch_xsrf_token yields a token and the request is repeated, or it raises
\* and the original 401 stands.
Renew(w) ==
  /\ pc[w] = "renew"
  /\ \/ /\ pc' = [pc EXCEPT ![w] = "repost"]
        /\ UNCHANGED <<job, attempt, posts, answer, tracker, result>>
     \/ Conclude(w)
  /\ UNCHANGED <<negotiated, confirmed, submits, crashes>>

\* The process dies.  Its tracker goes with it.
Crash(w) ==
  /\ crashes < MaxCrashes
  /\ crashes' = crashes + 1
  /\ tracker' = [tracker EXCEPT ![w] = {}]
  /\ Leave(w)
  /\ UNCHANGED <<negotiated, result, confirmed, submits>>

Step(w) == Replay(w) \/ Post(w) \/ Receive(w) \/ Renew(w)

Next == \E w \in Workers : Step(w) \/ Crash(w) \/ \E j \in Jobs : Submit(w, j)

Spec == Init /\ [][Next]_vars

\* The client has a timeout, so every request is answered or breaks.
FairSpec == Spec /\ \A w \in Workers : WF_vars(Step(w))

-----------------------------------------------------------------------------
\* Properties.

TypeOK ==
  /\ pc \in [Workers -> PC]
  /\ job \in [Workers -> Jobs]
  /\ attempt \in [Workers -> 0 .. MaxRetries]
  /\ posts \in [Workers -> Nat]
  /\ answer \in [Workers -> Replies \cup {"none"}]
  /\ tracker \in [Workers -> SUBSET {Key(j) : j \in Jobs}]
  /\ negotiated \subseteq {Vacancy[j] : j \in Jobs}
  /\ result \in [Jobs -> {"none", "success", "failed", "retryable"}]
  /\ confirmed \subseteq Jobs
  /\ submits \in [Jobs -> Nat] /\ crashes \in Nat

\* A job reported as sent has an application at hh.ru, be the success new,
\* a 409 or replayed from the tracker for another job with the same key.
SuccessIsReal == \A j \in Jobs : result[j] = "success" => Vacancy[j] \in negotiated

Holders == [j \in Jobs |-> {w \in Workers : pc[w] # "idle" /\ job[w] = j}]

Sent == {j \in Jobs : result[j] = "success"}

Lease == INSTANCE ApplyLease
           WITH Target <- Vacancy, holders <- Holders, taken <- negotiated, done <- Sent

\* The adapter keeps the promise the queue makes: whatever hh.ru answers and
\* whichever process dies, only the worker that holds a job applies for its
\* vacancy, and it reports a success only if the application is there, be it by
\* a 201, a 409 or a replay of the tracker (HHApplyAdapter.submit, apply_once).
ImplementsLease == Lease!Spec

\* Once hh.ru has said that the application of a job exists, the job is never
\* reported as failed, nor handed back for another try.
ConfirmedIsNotFailed == \A j \in confirmed : result[j] \notin {"failed", "retryable"}

\* A submission sends one request per attempt and at most one more for each
\* renewed token, so hh.ru is never asked more often than the settings allow.
PostsWithinBudget == \A w \in Workers : posts[w] <= 2 * MaxRetries

\* Every submission ends, whatever hh.ru answers.
SubmissionEnds == \A w \in Workers : pc[w] # "idle" ~> pc[w] = "idle"
=============================================================================
