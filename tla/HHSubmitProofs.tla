--------------------------- MODULE HHSubmitProofs ---------------------------
(***************************************************************************)
(* Proofs about HHSubmit, for any number of workers and jobs, any letters,  *)
(* attempts and crashes.                                                    *)
(***************************************************************************)
EXTENDS HHSubmit, TLAPS

\* A worker that was told of an application, or remembers one, is right: the
\* application is at hh.ru.
ToldTruth ==
  \A w \in Workers :
    /\ pc[w] = "idle" => answer[w] = "none"
    /\ answer[w] \in {"201", "409"} => Vacancy[job[w]] \in negotiated
    /\ \A j \in Jobs : Key(j) \in tracker[w] => Vacancy[j] \in negotiated

\* A job is in one worker's hands, and a job that has been sent in nobody's.
InOneHand ==
  \A w \in Workers : pc[w] # "idle" =>
    /\ result[job[w]] \in {"none", "retryable"}
    /\ \A q \in Workers : pc[q] # "idle" /\ job[q] = job[w] => q = w

\* What hh.ru confirmed is what the queue was told.
ConfirmedIsSent == \A j \in confirmed : result[j] = "success"

\* Every attempt but the current one has spent two requests at most.
Spent ==
  \A w \in Workers :
    /\ attempt[w] = 0 <=> pc[w] = "idle"
    /\ pc[w] \in {"idle", "replay"} => posts[w] = 0
    /\ pc[w] = "post" => posts[w] <= 2 * attempt[w] - 2
    /\ pc[w] \in {"reply", "renew", "repost"} => posts[w] <= 2 * attempt[w] - 1
    /\ pc[w] = "rereply" => posts[w] <= 2 * attempt[w]

IInv == TypeOK /\ ToldTruth /\ SuccessIsReal /\ InOneHand /\ ConfirmedIsSent /\ Spent

-----------------------------------------------------------------------------

\* There is a job to name when a worker has none.
LEMMA AnyJobIsJob == AnyJob \in Jobs
BY SubmitAssumption DEF AnyJob

\* Every step keeps the variables in range.
LEMMA TypeStep == TypeOK /\ [Next]_vars => TypeOK'
<1>. SUFFICES ASSUME TypeOK, [Next]_vars PROVE TypeOK'
  OBVIOUS
<1>. USE SubmitAssumption, AnyJobIsJob DEF TypeOK, PC, Replies, Key
<1>0. CASE UNCHANGED vars
  BY <1>0 DEF vars, call
<1>1. ASSUME NEW w \in Workers, NEW j \in Jobs, Submit(w, j) PROVE TypeOK'
  <2>1. 1 \in 0 .. MaxRetries /\ submits[j] + 1 \in Nat
    OBVIOUS
  <2>. QED  BY <1>1, <2>1 DEF Submit
<1>2. ASSUME NEW w \in Workers, Replay(w) PROVE TypeOK'
  BY <1>2 DEF Replay, Return, Leave
<1>3. ASSUME NEW w \in Workers, Post(w) PROVE TypeOK'
  BY <1>3 DEF Post, Serve
<1>4. ASSUME NEW w \in Workers, Receive(w) PROVE TypeOK'
  BY <1>4 DEF Receive, Conclude, TryAgain, Return, Leave, Successful
<1>5. ASSUME NEW w \in Workers, Renew(w) PROVE TypeOK'
  BY <1>5 DEF Renew, Conclude, TryAgain, Return, Leave, Successful
<1>6. ASSUME NEW w \in Workers, Crash(w) PROVE TypeOK'
  BY <1>6 DEF Crash, Leave
<1>. QED  BY <1>0, <1>1, <1>2, <1>3, <1>4, <1>5, <1>6
         DEF Next, Step

\* hh.ru confirms what it holds, and only a success is remembered.
LEMMA ToldStep == TypeOK /\ ToldTruth /\ [Next]_vars => ToldTruth'
<1>. SUFFICES ASSUME TypeOK, ToldTruth, [Next]_vars PROVE ToldTruth'
  OBVIOUS
<1>. USE SubmitAssumption, AnyJobIsJob DEF TypeOK, PC, Replies, ToldTruth, Key
<1>0. CASE UNCHANGED vars
  BY <1>0 DEF vars, call
<1>1. ASSUME NEW w \in Workers, NEW j \in Jobs, Submit(w, j) PROVE ToldTruth'
  BY <1>1 DEF Submit, InHand
<1>2. ASSUME NEW w \in Workers, Replay(w) PROVE ToldTruth'
  BY <1>2 DEF Replay, Return, Leave
<1>3. ASSUME NEW w \in Workers, Post(w) PROVE ToldTruth'
  BY <1>3 DEF Post, Serve
<1>4. ASSUME NEW w \in Workers, Receive(w) PROVE ToldTruth'
  BY <1>4 DEF Receive, Conclude, TryAgain, Return, Leave, Successful
<1>5. ASSUME NEW w \in Workers, Renew(w) PROVE ToldTruth'
  BY <1>5 DEF Renew, Conclude, TryAgain, Return, Leave, Successful
<1>6. ASSUME NEW w \in Workers, Crash(w) PROVE ToldTruth'
  BY <1>6 DEF Crash, Leave
<1>. QED  BY <1>0, <1>1, <1>2, <1>3, <1>4, <1>5, <1>6
         DEF Next, Step

\* A success is reported after such an answer or out of the tracker.
LEMMA SuccessStep == TypeOK /\ ToldTruth /\ SuccessIsReal /\ [Next]_vars => SuccessIsReal'
<1>. SUFFICES ASSUME TypeOK, ToldTruth, SuccessIsReal, [Next]_vars PROVE SuccessIsReal'
  OBVIOUS
<1>. USE SubmitAssumption, AnyJobIsJob DEF TypeOK, PC, Replies, ToldTruth, SuccessIsReal
<1>0. CASE UNCHANGED vars
  BY <1>0 DEF vars, call
<1>1. ASSUME NEW w \in Workers, NEW j \in Jobs, Submit(w, j) PROVE SuccessIsReal'
  BY <1>1 DEF Submit, InHand
<1>2. ASSUME NEW w \in Workers, Replay(w) PROVE SuccessIsReal'
  BY <1>2 DEF Replay, Return, Leave
<1>3. ASSUME NEW w \in Workers, Post(w) PROVE SuccessIsReal'
  BY <1>3 DEF Post, Serve
<1>4. ASSUME NEW w \in Workers, Receive(w) PROVE SuccessIsReal'
  BY <1>4 DEF Receive, Conclude, TryAgain, Return, Leave, Successful
<1>5. ASSUME NEW w \in Workers, Renew(w) PROVE SuccessIsReal'
  BY <1>5 DEF Renew, Conclude, TryAgain, Return, Leave, Successful
<1>6. ASSUME NEW w \in Workers, Crash(w) PROVE SuccessIsReal'
  BY <1>6 DEF Crash, Leave
<1>. QED  BY <1>0, <1>1, <1>2, <1>3, <1>4, <1>5, <1>6
         DEF Next, Step

\* The queue takes neither a job that is held nor one that is done.
LEMMA HandStep == TypeOK /\ InOneHand /\ [Next]_vars => InOneHand'
<1>. SUFFICES ASSUME TypeOK, InOneHand, [Next]_vars PROVE InOneHand'
  OBVIOUS
<1>. USE SubmitAssumption, AnyJobIsJob DEF TypeOK, PC, Replies, InOneHand
<1>0. CASE UNCHANGED vars
  BY <1>0 DEF vars, call
<1>1. ASSUME NEW w \in Workers, NEW j \in Jobs, Submit(w, j) PROVE InOneHand'
  BY <1>1 DEF Submit, InHand
<1>2. ASSUME NEW w \in Workers, Replay(w) PROVE InOneHand'
  BY <1>2 DEF Replay, Return, Leave
<1>3. ASSUME NEW w \in Workers, Post(w) PROVE InOneHand'
  BY <1>3 DEF Post, Serve
<1>4. ASSUME NEW w \in Workers, Receive(w) PROVE InOneHand'
  BY <1>4 DEF Receive, Conclude, TryAgain, Return, Leave, Successful
<1>5. ASSUME NEW w \in Workers, Renew(w) PROVE InOneHand'
  BY <1>5 DEF Renew, Conclude, TryAgain, Return, Leave, Successful
<1>6. ASSUME NEW w \in Workers, Crash(w) PROVE InOneHand'
  BY <1>6 DEF Crash, Leave
<1>. QED  BY <1>0, <1>1, <1>2, <1>3, <1>4, <1>5, <1>6
         DEF Next, Step

\* The answer that confirms an application is the one that is reported.
LEMMA ConfirmedStep == TypeOK /\ InOneHand /\ ConfirmedIsSent /\ [Next]_vars => ConfirmedIsSent'
<1>. SUFFICES ASSUME TypeOK, InOneHand, ConfirmedIsSent, [Next]_vars PROVE ConfirmedIsSent'
  OBVIOUS
<1>. USE SubmitAssumption, AnyJobIsJob DEF TypeOK, PC, Replies, InOneHand, ConfirmedIsSent
<1>0. CASE UNCHANGED vars
  BY <1>0 DEF vars, call
<1>1. ASSUME NEW w \in Workers, NEW j \in Jobs, Submit(w, j) PROVE ConfirmedIsSent'
  BY <1>1 DEF Submit, InHand
<1>2. ASSUME NEW w \in Workers, Replay(w) PROVE ConfirmedIsSent'
  BY <1>2 DEF Replay, Return, Leave
<1>3. ASSUME NEW w \in Workers, Post(w) PROVE ConfirmedIsSent'
  BY <1>3 DEF Post, Serve
<1>4. ASSUME NEW w \in Workers, Receive(w) PROVE ConfirmedIsSent'
  BY <1>4 DEF Receive, Conclude, TryAgain, Return, Leave, Successful
<1>5. ASSUME NEW w \in Workers, Renew(w) PROVE ConfirmedIsSent'
  BY <1>5 DEF Renew, Conclude, TryAgain, Return, Leave, Successful
<1>6. ASSUME NEW w \in Workers, Crash(w) PROVE ConfirmedIsSent'
  BY <1>6 DEF Crash, Leave
<1>. QED  BY <1>0, <1>1, <1>2, <1>3, <1>4, <1>5, <1>6
         DEF Next, Step

\* An attempt posts once, and once more after a renewed token.
LEMMA SpentStep == TypeOK /\ Spent /\ [Next]_vars => Spent'
<1>. SUFFICES ASSUME TypeOK, Spent, [Next]_vars PROVE Spent'
  OBVIOUS
<1>. USE SubmitAssumption, AnyJobIsJob DEF TypeOK, PC, Replies, Spent
<1>0. CASE UNCHANGED vars
  BY <1>0 DEF vars, call
<1>1. ASSUME NEW w \in Workers, NEW j \in Jobs, Submit(w, j) PROVE Spent'
  BY <1>1 DEF Submit, InHand
<1>2. ASSUME NEW w \in Workers, Replay(w) PROVE Spent'
  BY <1>2 DEF Replay, Return, Leave
<1>3. ASSUME NEW w \in Workers, Post(w) PROVE Spent'
  BY <1>3 DEF Post, Serve
<1>4. ASSUME NEW w \in Workers, Receive(w) PROVE Spent'
  BY <1>4 DEF Receive, Conclude, TryAgain, Return, Leave, Successful
<1>5. ASSUME NEW w \in Workers, Renew(w) PROVE Spent'
  BY <1>5 DEF Renew, Conclude, TryAgain, Return, Leave, Successful
<1>6. ASSUME NEW w \in Workers, Crash(w) PROVE Spent'
  BY <1>6 DEF Crash, Leave
<1>. QED  BY <1>0, <1>1, <1>2, <1>3, <1>4, <1>5, <1>6
         DEF Next, Step

-----------------------------------------------------------------------------

\* Nothing is sent and nobody is at work at first.
LEMMA InitInv == Init => IInv
<1>. SUFFICES ASSUME Init PROVE IInv
  OBVIOUS
<1>1. TypeOK
  BY SubmitAssumption, AnyJobIsJob DEF Init, TypeOK, PC, Replies
<1>2. ToldTruth /\ SuccessIsReal /\ InOneHand /\ ConfirmedIsSent
  BY SubmitAssumption DEF Init, ToldTruth, SuccessIsReal, InOneHand, ConfirmedIsSent
<1>3. Spent
  BY SubmitAssumption DEF Init, Spent
<1>. QED  BY <1>1, <1>2, <1>3 DEF IInv

\* The invariant is inductive.
LEMMA StepInv == IInv /\ [Next]_vars => IInv'
BY TypeStep, ToldStep, SuccessStep, HandStep, ConfirmedStep, SpentStep DEF IInv

\* It holds throughout every behaviour.
LEMMA Inductive == Spec => []IInv
<1>. QED  BY InitInv, StepInv, PTL DEF Spec

\* The locals of submit and apply_once, the tracker and the results stay in range.
THEOREM TypeCorrect == Spec => []TypeOK
<1>1. IInv => TypeOK
  BY DEF IInv
<1>. QED  BY <1>1, Inductive, PTL

\* A job that HHApplyAdapter.submit reports as sent has its application at hh.ru,
\* whichever of a 201, a 409 and the tracker the report came from.
THEOREM SentIsSent == Spec => []SuccessIsReal
<1>1. IInv => SuccessIsReal
  BY DEF IInv
<1>. QED  BY <1>1, Inductive, PTL

\* Once hh.ru has confirmed the application of a job, neither a crash nor a later
\* submission reports it as failed or hands it back (apply_once, submit).
THEOREM ConfirmationStands == Spec => []ConfirmedIsNotFailed
<1>1. IInv => ConfirmedIsNotFailed
  BY DEF IInv, ConfirmedIsSent, ConfirmedIsNotFailed
<1>. QED  BY <1>1, Inductive, PTL

\* A submission posts at most twice per attempt (apply_once, HHApplyClient).
THEOREM PostsBounded == Spec => []PostsWithinBudget
<1>1. IInv => PostsWithinBudget
  <2>. SUFFICES ASSUME IInv, NEW w \in Workers PROVE posts[w] <= 2 * MaxRetries
    BY DEF PostsWithinBudget
  <2>1. pc[w] \in PC /\ attempt[w] \in 0 .. MaxRetries /\ posts[w] \in Nat
    BY DEF IInv, TypeOK
  <2>. QED  BY <2>1, SubmitAssumption DEF IInv, Spent, PC
<1>. QED  BY <1>1, Inductive, PTL

-----------------------------------------------------------------------------
\* The refinement of ApplyLease.

\* A worker that returns or dies leaves its job to nobody.
LEMMA LetsGo ==
  ASSUME TypeOK, InOneHand, NEW w \in Workers, pc[w] # "idle", Leave(w)
  PROVE  w \in Holders[job[w]] /\ Holders' = [Holders EXCEPT ![job[w]] = {}]
<1>. USE DEF TypeOK, Leave
<1>1. w \in Holders[job[w]]
  BY DEF Holders
<1>2. ASSUME NEW j \in Jobs
      PROVE  Holders'[j] = IF j = job[w] THEN {} ELSE Holders[j]
  <2>1. \A q \in Workers : (pc'[q] # "idle" /\ job'[q] = j)
                             <=> (j # job[w] /\ pc[q] # "idle" /\ job[q] = j)
    BY DEF InOneHand
  <2>. QED  BY <2>1 DEF Holders
<1>3. /\ Holders = [j \in Jobs |-> Holders[j]]
      /\ Holders' = [j \in Jobs |-> Holders'[j]]
  BY DEF Holders
<1>. QED  BY <1>1, <1>2, <1>3

\* A submission under way stays with its worker.
LEMMA KeepsJob ==
  ASSUME TypeOK, NEW w \in Workers, NEW p \in PC \ {"idle"}, pc[w] # "idle",
         pc' = [pc EXCEPT ![w] = p], UNCHANGED job
  PROVE  Holders' = Holders
BY DEF TypeOK, Holders

\* What is returned is a success only if hh.ru has the application.
LEMMA ReturnStep ==
  ASSUME TypeOK, InOneHand, NEW w \in Workers, pc[w] # "idle",
         NEW outcome \in {"success", "failed", "retryable"}, Return(w, outcome),
         outcome = "success" => Vacancy[job[w]] \in negotiated,
         UNCHANGED negotiated
  PROVE  [Lease!Next]_(Lease!vars)
<1>1. /\ job[w] \in Jobs /\ Leave(w) /\ result[job[w]] # "success"
      /\ result' = [result EXCEPT ![job[w]] = outcome]
  BY DEF TypeOK, InOneHand, Return
<1>2. w \in Holders[job[w]] /\ Holders' = [Holders EXCEPT ![job[w]] = {}]
  BY <1>1, LetsGo
<1>3. CASE outcome = "success"
  <2>1. Sent' = Sent \cup {job[w]}
    BY <1>1, <1>3 DEF Sent, TypeOK
  <2>2. Lease!Finish(w, job[w])
    BY <1>2, <1>3, <2>1 DEF Lease!Finish
  <2>. QED  BY <1>1, <2>2 DEF Lease!Next
<1>4. CASE outcome # "success"
  <2>1. Sent' = Sent
    BY <1>1, <1>4 DEF Sent, TypeOK
  <2>2. Lease!Release(w, job[w])
    BY <1>2, <2>1 DEF Lease!Release
  <2>. QED  BY <1>1, <2>2 DEF Lease!Next
<1>. QED  BY <1>3, <1>4

\* An answer ends the submission or starts the next attempt.
LEMMA ConcludeStep ==
  ASSUME TypeOK, ToldTruth, InOneHand, NEW w \in Workers, pc[w] # "idle", Conclude(w),
         UNCHANGED negotiated
  PROVE  [Lease!Next]_(Lease!vars)
<1>1. CASE answer[w] \in Successful /\ Return(w, "success")
  <2>1. Vacancy[job[w]] \in negotiated
    BY <1>1 DEF ToldTruth, Successful
  <2>. QED  BY <1>1, <2>1, ReturnStep
<1>2. CASE Return(w, "retryable") \/ Return(w, "failed")
  BY <1>2, ReturnStep
<1>3. CASE pc' = [pc EXCEPT ![w] = "post"] /\ UNCHANGED <<job, result>>
  <2>1. Holders' = Holders
    BY <1>3, KeepsJob DEF PC
  <2>. QED  BY <1>3, <2>1 DEF Lease!vars, Sent
<1>. QED  BY <1>1, <1>2, <1>3 DEF Conclude, TryAgain

\* Every step of a submission is a step of the lease or leaves it alone.
LEMMA LeaseStep == IInv /\ [Next]_vars => [Lease!Next]_(Lease!vars)
<1>. SUFFICES ASSUME IInv, [Next]_vars PROVE [Lease!Next]_(Lease!vars)
  OBVIOUS
<1>. USE DEF PC
<1>a. TypeOK /\ ToldTruth /\ InOneHand
  BY DEF IInv
<1>b. \A w \in Workers : job[w] \in Jobs
  BY <1>a DEF TypeOK
<1>0. CASE UNCHANGED vars
  BY <1>0 DEF vars, call, Lease!vars, Holders, Sent
<1>1. ASSUME NEW w \in Workers, NEW j \in Jobs, Submit(w, j) PROVE Lease!Next
  <2>1. \A q \in Workers : pc[q] # "idle" => job[q] # j
    BY <1>1 DEF Submit, InHand
  <2>2. pc[w] = "idle" /\ pc' = [pc EXCEPT ![w] = "replay"] /\ job' = [job EXCEPT ![w] = j]
    BY <1>1 DEF Submit
  <2>3. ASSUME NEW i \in Jobs
        PROVE  Holders'[i] = IF i = j THEN {w} ELSE Holders[i]
    BY <1>a, <2>1, <2>2 DEF TypeOK, Holders
  <2>4. Holders[j] = {}
    BY <2>1 DEF Holders
  <2>5. /\ Holders = [i \in Jobs |-> Holders[i]]
        /\ Holders' = [i \in Jobs |-> Holders'[i]]
    BY DEF Holders
  <2>6. Holders' = [Holders EXCEPT ![j] = {w}]
    BY <2>3, <2>5
  <2>7. j \notin Sent /\ UNCHANGED <<Sent, negotiated>>
    BY <1>1 DEF Submit, Sent
  <2>8. Lease!Acquire(w, j)
    BY <2>4, <2>6, <2>7 DEF Lease!Acquire
  <2>. QED  BY <2>8 DEF Lease!Next
<1>2. ASSUME NEW w \in Workers, Replay(w) PROVE [Lease!Next]_(Lease!vars)
  <2>1. pc[w] = "replay" /\ pc[w] # "idle" /\ UNCHANGED negotiated
    BY <1>2 DEF Replay
  <2>2. CASE Key(job[w]) \in tracker[w] /\ Return(w, "success")
    <3>1. Vacancy[job[w]] \in negotiated
      BY <1>a, <1>b, <2>2 DEF ToldTruth
    <3>. QED  BY <1>a, <2>1, <2>2, <3>1, ReturnStep
  <2>3. CASE Return(w, "failed")
    BY <1>a, <2>1, <2>3, ReturnStep
  <2>4. CASE pc' = [pc EXCEPT ![w] = "post"] /\ UNCHANGED <<job, result>>
    <3>1. Holders' = Holders
      BY <1>a, <2>1, <2>4, KeepsJob
    <3>. QED  BY <2>1, <2>4, <3>1 DEF Lease!vars, Sent
  <2>. QED  BY <1>2, <2>2, <2>3, <2>4 DEF Replay
<1>3. ASSUME NEW w \in Workers, Post(w) PROVE [Lease!Next]_(Lease!vars)
  <2>1. /\ pc[w] # "idle" /\ UNCHANGED <<job, result>>
        /\ negotiated' \in {negotiated, negotiated \cup {Vacancy[job[w]]}}
    BY <1>3 DEF Post, Serve
  <2>2. PICK p \in PC \ {"idle"} : pc' = [pc EXCEPT ![w] = p]
    BY <1>a, <1>3 DEF Post, TypeOK
  <2>3. UNCHANGED <<Holders, Sent>>
    BY <1>a, <2>1, <2>2, KeepsJob DEF Sent
  <2>4. CASE UNCHANGED negotiated
    BY <2>3, <2>4 DEF Lease!vars
  <2>5. CASE negotiated' = negotiated \cup {Vacancy[job[w]]}
    <3>1. w \in Holders[job[w]]
      BY <1>b, <2>1 DEF Holders
    <3>2. Lease!Take(w, job[w])
      BY <2>3, <2>5, <3>1 DEF Lease!Take
    <3>. QED  BY <1>b, <3>2 DEF Lease!Next
  <2>. QED  BY <2>1, <2>4, <2>5
<1>4. ASSUME NEW w \in Workers, Receive(w) \/ Renew(w) PROVE [Lease!Next]_(Lease!vars)
  <2>1. pc[w] # "idle" /\ UNCHANGED negotiated
    BY <1>4 DEF Receive, Renew
  <2>2. CASE Conclude(w)
    BY <1>a, <2>1, <2>2, ConcludeStep
  <2>3. ASSUME NEW p \in {"renew", "repost"}, pc' = [pc EXCEPT ![w] = p],
               UNCHANGED <<job, result>>
        PROVE  [Lease!Next]_(Lease!vars)
    <3>1. Holders' = Holders
      BY <1>a, <2>1, <2>3, KeepsJob
    <3>. QED  BY <2>1, <2>3, <3>1 DEF Lease!vars, Sent
  <2>. QED  BY <1>4, <2>2, <2>3 DEF Receive, Renew
<1>5. ASSUME NEW w \in Workers, Crash(w) PROVE [Lease!Next]_(Lease!vars)
  <2>1. Leave(w) /\ UNCHANGED <<negotiated, Sent>>
    BY <1>5 DEF Crash, Sent
  <2>2. CASE pc[w] = "idle"
    <3>1. Holders' = Holders
      BY <1>a, <2>1, <2>2 DEF TypeOK, Leave, Holders
    <3>. QED  BY <2>1, <3>1 DEF Lease!vars
  <2>3. CASE pc[w] # "idle"
    <3>1. w \in Holders[job[w]] /\ Holders' = [Holders EXCEPT ![job[w]] = {}]
      BY <1>a, <2>1, <2>3, LetsGo
    <3>2. Lease!Release(w, job[w])
      BY <2>1, <3>1 DEF Lease!Release
    <3>. QED  BY <1>b, <3>2 DEF Lease!Next
  <2>. QED  BY <2>2, <2>3
<1>. QED  BY <1>0, <1>1, <1>2, <1>3, <1>4, <1>5 DEF Next, Step

\* The adapter implements the lease that the queue implements too: an application goes
\* out only from the worker that holds its job, and a success is reported only if
\* hh.ru has the application, for any answers, replays, retries and crashes
\* (HHApplyAdapter.submit, apply_once).
THEOREM SubmissionImplementsLease == Spec => ImplementsLease
<1>1. Init => Lease!Init
  BY DEF Init, Lease!Init, Holders, Sent
<1>. QED  BY <1>1, LeaseStep, Inductive, PTL DEF Spec, ImplementsLease, Lease!Spec

=============================================================================
