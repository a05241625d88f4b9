--------------------------- MODULE ApplyQueueProofs ---------------------------
(***************************************************************************)
(* Theorems about ApplyQueue, for every set of matches, workers and        *)
(* requests, every attempt limit and any number of crashes.                *)
(***************************************************************************)
EXTENDS ApplyQueue, TLAPS

\* A process at work has a match in hand.
InHand ==
  /\ \A w \in Workers : wpc[w] # "idle" => wjob[w] \in Matches
  /\ \A c \in Clients : cpc[c] # "idle" => cjob[c] \in Matches

\* A job in hand runs, or a stale cancel overwrote it; nobody else holds it.
HeldJobs ==
  /\ \A w \in Workers : wpc[w] \in Holding =>
       /\ status[wjob[w]] \in {"running", "cancelled"}
       /\ ~external[wjob[w]]
  /\ \A v, w \in Workers :
       wpc[v] \in Holding /\ wpc[w] \in Holding /\ wjob[v] = wjob[w] => v = w

\* A recorded success leaves `succeeded' only for `cancelled'.
RecordedSuccess ==
  \A m \in Matches : external[m] => status[m] \in {"succeeded", "cancelled"}

\* Where the two bumps of `attempts' stand against the adapter calls.
RowBudget(m) ==
  /\ 2 * tries[m] <= PolicyAttempts + 1
  /\ 2 * tries[m] <= MaxAttempts + 2
  /\ status[m] = "absent" => tries[m] = 0 /\ attempts[m] = 0
  /\ status[m] = "queued" => /\ 2 * tries[m] <= attempts[m]
                             /\ attempts[m] < PolicyAttempts
                             /\ attempts[m] <= MaxAttempts

WorkerBudget(w) ==
  /\ wpc[w] \in Holding \ {"marked"} =>
       /\ wattempts[w] = attempts[wjob[w]]
       /\ attempts[wjob[w]] <= PolicyAttempts
       /\ attempts[wjob[w]] <= MaxAttempts + 1
  /\ wpc[w] \in {"claimed", "ready"} => 2 * tries[wjob[w]] + 1 <= attempts[wjob[w]]
  /\ wpc[w] \in {"submitting", "completing", "failing"} =>
       2 * tries[wjob[w]] <= attempts[wjob[w]] + 1
  /\ wpc[w] = "marked" => /\ wattempts[w] + 1 = attempts[wjob[w]]
                          /\ 2 * tries[wjob[w]] <= attempts[wjob[w]]

Budget == (\A m \in Matches : RowBudget(m)) /\ (\A w \in Workers : WorkerBudget(w))

\* What a worker may still show on the match is recorded and accepted.
Shown ==
  /\ \A m \in Matches : external[m] => m \in accepted
  /\ \A m \in Matches : match[m] = "applied" => external[m]
  /\ \A w \in Workers :
       /\ wpc[w] = "completing" => wjob[w] \in accepted
       /\ wpc[w] \in {"completed", "flipping"} => external[wjob[w]]

\* Whoever works on a row finds it there; one request inserted it.
Worked ==
  /\ \A w \in Workers : wpc[w] # "idle" => status[wjob[w]] # "absent"
  /\ \A c \in Clients :
       cpc[c] \in {"inserted", "cancelling", "cancelled"} => status[cjob[c]] # "absent"
  /\ \A c, d \in Clients :
       cpc[c] = "inserted" /\ cpc[d] = "inserted" /\ cjob[c] = cjob[d] => c = d

\* The opening history row of a job exists, or one request is about to write it,
\* never both.
Opening ==
  /\ \A m \in Matches : status[m] = "absent" => history[m] = <<>>
  /\ \A c \in Clients : cpc[c] = "inserted" =>
       \A i \in DOMAIN history[cjob[c]] : history[cjob[c]][i].from # "none"
  /\ OneOpeningRow

IInv == TypeOK /\ InHand /\ HeldJobs /\ RecordedSuccess /\ Budget /\ Shown /\ Worked /\ Opening

-----------------------------------------------------------------------------

\* The empty queue satisfies the invariant.
LEMMA InitIInv == Init => IInv
BY QueueAssumption DEF Init, IInv, TypeOK, InHand, HeldJobs, RecordedSuccess, Budget,
    RowBudget, WorkerBudget, Shown,
   Worked, Opening, OneOpeningRow, JobStatus, Terminal, Cancellable,
   HistoryRow, Result, WorkerPC, ClientPC, Holding

\* Arithmetic of a claim: the bump of a queued row stays within the limits.
LEMMA Bump ==
  ASSUME NEW a \in Nat, NEW t \in Nat, NEW p \in Nat, NEW x \in Nat,
         2 * t <= a, a < p, a <= x
  PROVE  a + 1 <= p /\ a + 1 <= x + 1 /\ 2 * t + 1 <= a + 1
OBVIOUS

\* A row recorded for an existing job opens no timeline.
LEMMA RecordKeepsOpening ==
  ASSUME TypeOK, NEW m \in Matches, NEW from \in JobStatus, NEW to \in JobStatus,
         RecordTransition(m, from, to)
  PROVE  /\ \A n \in Matches \ {m} : history'[n] = history[n]
         /\ \A n \in Matches : \A i \in DOMAIN history'[n] :
              history'[n][i].from = "none" =>
                i \in DOMAIN history[n] /\ history[n][i].from = "none"
<1>1. \A n \in Matches \ {m} : history'[n] = history[n]
  BY DEF RecordTransition, TypeOK
<1>2. /\ history[m] \in Seq(HistoryRow)
      /\ history'[m] = Append(history[m], [from |-> from, to |-> to])
      /\ [from |-> from, to |-> to] \in HistoryRow
  BY DEF RecordTransition, TypeOK, HistoryRow
<1>3. /\ DOMAIN history[m] = 1 .. Len(history[m])
      /\ DOMAIN history'[m] = 1 .. Len(history[m]) + 1
      /\ \A i \in 1 .. Len(history[m]) : history'[m][i] = history[m][i]
      /\ history'[m][Len(history[m]) + 1] = [from |-> from, to |-> to]
      /\ Len(history[m]) \in Nat
  BY <1>2
<1>4. from # "none"
  BY DEF JobStatus, Terminal
<1>. QED  BY <1>1, <1>3, <1>4

\* Appended to a timeline without an opening row, one opening row is the only one.
LEMMA OneAppended ==
  ASSUME NEW h \in Seq(HistoryRow), NEW e \in HistoryRow,
         \A i \in DOMAIN h : h[i].from # "none"
  PROVE  \A i \in DOMAIN Append(h, e) : Append(h, e)[i].from = "none" => i = Len(h) + 1
<1>1. /\ DOMAIN h = 1 .. Len(h) /\ Len(h) \in Nat
      /\ DOMAIN Append(h, e) = 1 .. Len(h) + 1
      /\ \A i \in 1 .. Len(h) : Append(h, e)[i] = h[i]
  OBVIOUS
<1>2. \A i \in 1 .. Len(h) + 1 : i \in 1 .. Len(h) \/ i = Len(h) + 1
  BY <1>1
<1>. QED  BY <1>1, <1>2

\* Opening survives a step that creates no row and adds no opening history row.
LEMMA KeepOpening ==
  ASSUME TypeOK, Opening,
         \A n \in Matches : status'[n] = "absent" =>
           status[n] = "absent" /\ history'[n] = history[n],
         \A d \in Clients : cpc'[d] = "inserted" =>
           cpc[d] = "inserted" /\ cjob'[d] = cjob[d] /\ cjob[d] \in Matches,
         \A n \in Matches : \A i \in DOMAIN history'[n] :
           history'[n][i].from = "none" =>
             i \in DOMAIN history[n] /\ history[n][i].from = "none"
  PROVE  Opening'
<1>1. \A m \in Matches : status'[m] = "absent" => history'[m] = <<>>
  BY DEF Opening
<1>2. \A c \in Clients : cpc'[c] = "inserted" =>
        \A i \in DOMAIN history'[cjob'[c]] : history'[cjob'[c]][i].from # "none"
  BY DEF Opening
<1>3. OneOpeningRow'
  BY DEF Opening, OneOpeningRow
<1>. QED  BY <1>1, <1>2, <1>3 DEF Opening

\* Every step keeps every variable in its range.
LEMMA TypeStep == TypeOK /\ InHand /\ HeldJobs /\ [Next]_vars => TypeOK'
<1> SUFFICES ASSUME TypeOK, InHand, HeldJobs, [Next]_vars PROVE TypeOK'
  OBVIOUS
<1> USE QueueAssumption DEF TypeOK, JobStatus, Terminal, Cancellable, HistoryRow,
    Result, WorkerPC, ClientPC, Holding, InHand, HeldJobs, rowVars, workerVars,
    clientVars, outside
<1>1. CASE UNCHANGED vars
  BY <1>1 DEF vars
<1>2. ASSUME NEW c \in Clients, ClientStep(c) \/ Request(c) PROVE TypeOK'
  <2>1. CASE \E m \in Matches : LookupForEnqueue(c, m)
    BY <2>1 DEF LookupForEnqueue
  <2>2. CASE \E m \in Matches : CheckCancellable(c, m)
    BY <2>2 DEF CheckCancellable
  <2>3. CASE InsertJob(c)
    BY <2>3 DEF InsertJob
  <2>4. CASE RejectInsert(c)
    BY <2>4 DEF RejectInsert, EndRequest
  <2>5. CASE RecordEnqueue(c)
    BY <2>5 DEF RecordEnqueue, RecordTransition, EndRequest
  <2>6. CASE WriteCancelled(c)
    BY <2>6 DEF WriteCancelled
  <2>7. CASE RecordCancel(c)
    BY <2>7 DEF RecordCancel, RecordTransition, EndRequest
  <2>. QED  BY <1>2, <2>1, <2>2, <2>3, <2>4, <2>5, <2>6, <2>7 DEF ClientStep, Request
<1>3. ASSUME NEW w \in Workers, WorkerStep(w) PROVE TypeOK'
  <2>1. CASE ClaimNext(w)
    <3>1. PICK i \in DOMAIN created : Claim(w, created[i])
      BY <2>1 DEF ClaimNext
    <3>. DEFINE m == created[i]
    <3>2. m \in Matches
      BY <3>1
    <3>. HIDE DEF m
    <3>3. Claim(w, m)
      BY <3>1 DEF m
    <3>. USE <3>2, <3>3 DEF Claim
    <3>4. status' \in [Matches -> JobStatus \cup {"absent"}]
      OBVIOUS
    <3>5. attempts' \in [Matches -> Nat]
      BY SMTT(20)
    <3>6. wpc' \in [Workers -> WorkerPC]
      BY SMTT(20)
    <3>7. wjob' \in [Workers -> Matches \cup {NoMatch}] /\ wattempts' \in [Workers -> Nat]
      BY SMTT(20)
    <3>. QED  BY <3>4, <3>5, <3>6, <3>7
  <2>2. CASE RecordClaim(w)
    BY <2>2, SMTT(20) DEF RecordClaim, RecordTransition
  <2>3. CASE NoRoute(w)
    <3> DEFINE r == "permanent"
    <3>1. NoRoute(w)
      BY <2>3
    <3>2. CASE status[wjob[w]] \in Terminal
      <4>1. EndIteration(w)
        BY <3>1, <3>2 DEF NoRoute, Conclude
      <4>2. /\ wpc[w] = "ready" /\ wjob[w] \in Matches
            /\ UNCHANGED <<rowVars, history, match, clientVars, outside, faults>>
        BY <3>1 DEF NoRoute
      <4>. QED  BY <4>1, <4>2 DEF EndIteration
    <3>3. CASE status[wjob[w]] \notin Terminal
      <4>1. /\ wpc' = [wpc EXCEPT ![w] = IF r = "success" THEN "completing" ELSE "failing"]
            /\ wresult' = [wresult EXCEPT ![w] = r]
            /\ wfrom' = [wfrom EXCEPT ![w] = status[wjob[w]]]
            /\ UNCHANGED <<wjob, wattempts>>
        BY <3>1, <3>3 DEF NoRoute, Conclude
      <4>2. /\ wpc[w] = "ready" /\ wjob[w] \in Matches
            /\ UNCHANGED <<rowVars, history, match, clientVars, outside, faults>>
        BY <3>1 DEF NoRoute
      <4>. QED  BY <3>1, <3>3, <4>1, <4>2
    <3>. QED  BY <3>2, <3>3
  <2>4. CASE Submit(w)
    BY <2>4 DEF Submit
  <2>5. CASE \E r \in Result : Answer(w, r)
    <3>1. PICK r \in Result : Answer(w, r)
      BY <2>5
    <3>2. CASE status[wjob[w]] \in Terminal
      <4>1. EndIteration(w)
        BY <3>1, <3>2 DEF Answer, Conclude
      <4>2. /\ wpc[w] = "submitting" /\ wjob[w] \in Matches
            /\ UNCHANGED <<rowVars, history, match, clientVars, tries, faults>>
            /\ accepted' \in {accepted, accepted \cup {wjob[w]}}
            /\ r = "success" => wjob[w] \in accepted'
        BY <3>1 DEF Answer
      <4>3. accepted' \subseteq Matches
        BY <4>2
      <4>. QED  BY <4>1, <4>2, <4>3 DEF EndIteration
    <3>3. CASE status[wjob[w]] \notin Terminal
      <4>1. /\ wpc' = [wpc EXCEPT ![w] = IF r = "success" THEN "completing" ELSE "failing"]
            /\ wresult' = [wresult EXCEPT ![w] = r]
            /\ wfrom' = [wfrom EXCEPT ![w] = status[wjob[w]]]
            /\ UNCHANGED <<wjob, wattempts>>
        BY <3>1, <3>3 DEF Answer, Conclude
      <4>2. /\ wpc[w] = "submitting" /\ wjob[w] \in Matches
            /\ UNCHANGED <<rowVars, history, match, clientVars, tries, faults>>
            /\ accepted' \in {accepted, accepted \cup {wjob[w]}}
            /\ r = "success" => wjob[w] \in accepted'
        BY <3>1 DEF Answer
      <4>. QED  BY <3>3, <4>1, <4>2
    <3>. QED  BY <3>2, <3>3
  <2>6. CASE WriteSucceeded(w)
    BY <2>6 DEF WriteSucceeded
  <2>7. CASE RecordSucceeded(w)
    BY <2>7 DEF RecordSucceeded, RecordTransition
  <2>8. CASE NotifierRaises(w)
    BY <2>8 DEF NotifierRaises, EndIteration
  <2>9. CASE FlipMatch(w)
    BY <2>9 DEF FlipMatch, EndIteration
  <2>10. CASE MarkAttempt(w)
    BY <2>10 DEF MarkAttempt
  <2>11. CASE Requeue(w)
    BY <2>11 DEF Requeue, Retries
  <2>12. CASE DeadLetter(w)
    BY <2>12 DEF DeadLetter, Retries
  <2>13. CASE RecordFailed(w)
    BY <2>13 DEF RecordFailed, RecordTransition, EndIteration
    <2>. QED  BY <1>3, <2>1, <2>2, <2>3, <2>4, <2>5, <2>6, <2>7, <2>8, <2>9, <2>10,
      <2>11, <2>12, <2>13 DEF WorkerStep
<1>4. ASSUME NEW m \in Matches, BackoffElapses(m) PROVE TypeOK'
  BY <1>4 DEF BackoffElapses
<1>5. ASSUME NEW w \in Workers, CrashWorker(w) PROVE TypeOK'
  BY <1>5 DEF CrashWorker, EndIteration
<1>6. ASSUME NEW c \in Clients, CrashClient(c) PROVE TypeOK'
  BY <1>6 DEF CrashClient, EndRequest
<1>. QED  BY <1>1, <1>2, <1>3, <1>4, <1>5, <1>6 DEF Next, Crash

\* A worker or a request gets a match with its first step and drops it with the last.
LEMMA InHandStep == TypeOK /\ InHand /\ [Next]_vars => InHand'
<1> SUFFICES ASSUME TypeOK, InHand, [Next]_vars PROVE InHand'
  OBVIOUS
<1> USE QueueAssumption DEF TypeOK, JobStatus, Terminal, Cancellable, HistoryRow,
    Result, WorkerPC, ClientPC, Holding, InHand, rowVars, workerVars, clientVars,
    outside
<1>1. CASE UNCHANGED vars
  BY <1>1 DEF vars
<1>2. ASSUME NEW c \in Clients, ClientStep(c) \/ Request(c) PROVE InHand'
  <2>1. CASE \E m \in Matches : LookupForEnqueue(c, m)
    BY <2>1 DEF LookupForEnqueue
  <2>2. CASE \E m \in Matches : CheckCancellable(c, m)
    BY <2>2 DEF CheckCancellable
  <2>3. CASE InsertJob(c)
    BY <2>3 DEF InsertJob
  <2>4. CASE RejectInsert(c)
    BY <2>4 DEF RejectInsert, EndRequest
  <2>5. CASE RecordEnqueue(c)
    BY <2>5 DEF RecordEnqueue, RecordTransition, EndRequest
  <2>6. CASE WriteCancelled(c)
    BY <2>6 DEF WriteCancelled
  <2>7. CASE RecordCancel(c)
    BY <2>7 DEF RecordCancel, RecordTransition, EndRequest
  <2>. QED  BY <1>2, <2>1, <2>2, <2>3, <2>4, <2>5, <2>6, <2>7 DEF ClientStep, Request
<1>3. ASSUME NEW w \in Workers, WorkerStep(w) PROVE InHand'
  <2>1. CASE ClaimNext(w)
    <3>1. PICK i \in DOMAIN created : Claim(w, created[i])
      BY <2>1 DEF ClaimNext
    <3>2. created[i] \in Matches
      BY <3>1
    <3>. DEFINE m == created[i]
    <3>. HIDE DEF m
    <3>3. m \in Matches /\ Claim(w, m)
      BY <3>1, <3>2 DEF m
    <3>. QED  BY <3>3 DEF Claim, Claimable
  <2>2. CASE RecordClaim(w)
    BY <2>2 DEF RecordClaim, RecordTransition
  <2>3. CASE NoRoute(w)
    <3> DEFINE r == "permanent"
    <3>1. NoRoute(w)
      BY <2>3
    <3>2. CASE status[wjob[w]] \in Terminal
      <4>1. EndIteration(w)
        BY <3>1, <3>2 DEF NoRoute, Conclude
      <4>2. /\ wpc[w] = "ready" /\ wjob[w] \in Matches
            /\ UNCHANGED <<rowVars, history, match, clientVars, outside, faults>>
        BY <3>1 DEF NoRoute
      <4>. QED  BY <4>1, <4>2 DEF EndIteration
    <3>3. CASE status[wjob[w]] \notin Terminal
      <4>1. /\ wpc' = [wpc EXCEPT ![w] = IF r = "success" THEN "completing" ELSE "failing"]
            /\ wresult' = [wresult EXCEPT ![w] = r]
            /\ wfrom' = [wfrom EXCEPT ![w] = status[wjob[w]]]
            /\ UNCHANGED <<wjob, wattempts>>
        BY <3>1, <3>3 DEF NoRoute, Conclude
      <4>2. /\ wpc[w] = "ready" /\ wjob[w] \in Matches
            /\ UNCHANGED <<rowVars, history, match, clientVars, outside, faults>>
        BY <3>1 DEF NoRoute
      <4>. QED  BY <3>1, <3>3, <4>1, <4>2
    <3>. QED  BY <3>2, <3>3
  <2>4. CASE Submit(w)
    BY <2>4 DEF Submit
  <2>5. CASE \E r \in Result : Answer(w, r)
    <3>1. PICK r \in Result : Answer(w, r)
      BY <2>5
    <3>2. CASE status[wjob[w]] \in Terminal
      <4>1. EndIteration(w)
        BY <3>1, <3>2 DEF Answer, Conclude
      <4>2. /\ wpc[w] = "submitting" /\ wjob[w] \in Matches
            /\ UNCHANGED <<rowVars, history, match, clientVars, tries, faults>>
            /\ accepted' \in {accepted, accepted \cup {wjob[w]}}
            /\ r = "success" => wjob[w] \in accepted'
        BY <3>1 DEF Answer
      <4>. QED  BY <4>1, <4>2 DEF EndIteration
    <3>3. CASE status[wjob[w]] \notin Terminal
      <4>1. /\ wpc' = [wpc EXCEPT ![w] = IF r = "success" THEN "completing" ELSE "failing"]
            /\ wresult' = [wresult EXCEPT ![w] = r]
            /\ wfrom' = [wfrom EXCEPT ![w] = status[wjob[w]]]
            /\ UNCHANGED <<wjob, wattempts>>
        BY <3>1, <3>3 DEF Answer, Conclude
      <4>2. /\ wpc[w] = "submitting" /\ wjob[w] \in Matches
            /\ UNCHANGED <<rowVars, history, match, clientVars, tries, faults>>
            /\ accepted' \in {accepted, accepted \cup {wjob[w]}}
            /\ r = "success" => wjob[w] \in accepted'
        BY <3>1 DEF Answer
      <4>. QED  BY <3>1, <3>3, <4>1, <4>2
    <3>. QED  BY <3>2, <3>3
  <2>6. CASE WriteSucceeded(w)
    BY <2>6 DEF WriteSucceeded
  <2>7. CASE RecordSucceeded(w)
    BY <2>7 DEF RecordSucceeded, RecordTransition
  <2>8. CASE NotifierRaises(w)
    BY <2>8 DEF NotifierRaises, EndIteration
  <2>9. CASE FlipMatch(w)
    BY <2>9 DEF FlipMatch, EndIteration
  <2>10. CASE MarkAttempt(w)
    BY <2>10 DEF MarkAttempt
  <2>11. CASE Requeue(w)
    BY <2>11 DEF Requeue, Retries
  <2>12. CASE DeadLetter(w)
    BY <2>12 DEF DeadLetter, Retries
  <2>13. CASE RecordFailed(w)
    BY <2>13 DEF RecordFailed, RecordTransition, EndIteration
    <2>. QED  BY <1>3, <2>1, <2>2, <2>3, <2>4, <2>5, <2>6, <2>7, <2>8, <2>9, <2>10,
      <2>11, <2>12, <2>13 DEF WorkerStep
<1>4. ASSUME NEW m \in Matches, BackoffElapses(m) PROVE InHand'
  BY <1>4 DEF BackoffElapses
<1>5. ASSUME NEW w \in Workers, CrashWorker(w) PROVE InHand'
  BY <1>5 DEF CrashWorker, EndIteration
<1>6. ASSUME NEW c \in Clients, CrashClient(c) PROVE InHand'
  BY <1>6 DEF CrashClient, EndRequest
<1>. QED  BY <1>1, <1>2, <1>3, <1>4, <1>5, <1>6 DEF Next, Crash

\* A claimed job was QUEUED, so nobody held it: the claimer is its only holder.
LEMMA OneHolderAfterClaim ==
  ASSUME TypeOK, HeldJobs, NEW w \in Workers, NEW m \in Matches, Claim(w, m),
         NEW u \in Workers, NEW v \in Workers,
         wpc'[u] \in Holding, wpc'[v] \in Holding, wjob'[u] = wjob'[v]
  PROVE  u = v
<1>1. \A x \in Workers : wpc[x] \in Holding => wjob[x] # m
  BY DEF HeldJobs, Claim, Claimable
<1>2. wjob'[w] = m
  BY DEF Claim, TypeOK
<1>3. \A x \in Workers \ {w} : wpc'[x] = wpc[x] /\ wjob'[x] = wjob[x]
  BY DEF Claim, TypeOK
<1>4. CASE u = w \/ v = w
  BY <1>1, <1>2, <1>3, <1>4
<1>5. CASE u # w /\ v # w
  BY <1>3, <1>5 DEF HeldJobs
<1>. QED  BY <1>4, <1>5

\* A claim takes a job nobody holds; a stale cancel is the one write to a held row.
LEMMA HeldJobsStep ==
  TypeOK /\ InHand /\ HeldJobs /\ RecordedSuccess /\ [Next]_vars => HeldJobs'
<1> SUFFICES ASSUME TypeOK, InHand, HeldJobs, RecordedSuccess, [Next]_vars PROVE
    HeldJobs'
  OBVIOUS
<1> USE QueueAssumption DEF TypeOK, JobStatus, Terminal, Cancellable, HistoryRow,
    Result, WorkerPC, ClientPC, Holding, InHand, HeldJobs, RecordedSuccess, rowVars,
    workerVars, clientVars, outside
<1>1. CASE UNCHANGED vars
  BY <1>1 DEF vars
<1>2. ASSUME NEW c \in Clients, ClientStep(c) \/ Request(c) PROVE HeldJobs'
  <2>1. CASE \E m \in Matches : LookupForEnqueue(c, m)
    BY <2>1 DEF LookupForEnqueue
  <2>2. CASE \E m \in Matches : CheckCancellable(c, m)
    BY <2>2 DEF CheckCancellable
  <2>3. CASE InsertJob(c)
    BY <2>3 DEF InsertJob
  <2>4. CASE RejectInsert(c)
    BY <2>4 DEF RejectInsert, EndRequest
  <2>5. CASE RecordEnqueue(c)
    BY <2>5 DEF RecordEnqueue, RecordTransition, EndRequest
  <2>6. CASE WriteCancelled(c)
    BY <2>6 DEF WriteCancelled
  <2>7. CASE RecordCancel(c)
    BY <2>7 DEF RecordCancel, RecordTransition, EndRequest
  <2>. QED  BY <1>2, <2>1, <2>2, <2>3, <2>4, <2>5, <2>6, <2>7 DEF ClientStep, Request
<1>3. ASSUME NEW w \in Workers, WorkerStep(w) PROVE HeldJobs'
  <2>0. TypeOK /\ HeldJobs
    OBVIOUS
  <2>1. CASE ClaimNext(w)
    <3>1. PICK i \in DOMAIN created : Claim(w, created[i])
      BY <2>1 DEF ClaimNext
    <3>. DEFINE m == created[i]
    <3>2. m \in Matches
      BY <3>1
    <3>. HIDE DEF m
    <3>3. Claim(w, m)
      BY <3>1 DEF m
    <3>. USE <3>2, <3>3 DEF Claim, Claimable
    <3>4. ~external[m] /\ \A v \in Workers : wpc[v] \in Holding => wjob[v] # m
      OBVIOUS
    <3>5. ASSUME NEW v \in Workers, wpc'[v] \in Holding
          PROVE  status'[wjob'[v]] \in {"running", "cancelled"} /\ ~external'[wjob'[v]]
      <4>1. CASE v = w
        BY <4>1, <3>4
      <4>2. CASE v # w
        <5>1. wpc'[v] = wpc[v] /\ wjob'[v] = wjob[v]
          BY <4>2
        <5>. QED  BY <3>4, <3>5, <5>1, SMTT(20)
      <4>. QED  BY <4>1, <4>2
    <3>6. ASSUME NEW u \in Workers, NEW v \in Workers,
                 wpc'[u] \in Holding, wpc'[v] \in Holding, wjob'[u] = wjob'[v]
          PROVE  u = v
      BY <2>0, <3>2, <3>3, <3>6, OneHolderAfterClaim
    <3>. QED  BY <3>5, <3>6
  <2>2. CASE RecordClaim(w)
    BY <2>2 DEF RecordClaim, RecordTransition
  <2>3. CASE NoRoute(w)
    <3> DEFINE r == "permanent"
    <3>1. NoRoute(w)
      BY <2>3
    <3>2. CASE status[wjob[w]] \in Terminal
      <4>1. EndIteration(w)
        BY <3>1, <3>2 DEF NoRoute, Conclude
      <4>2. /\ wpc[w] = "ready" /\ wjob[w] \in Matches
            /\ UNCHANGED <<rowVars, history, match, clientVars, outside, faults>>
        BY <3>1 DEF NoRoute
      <4>. QED  BY <4>1, <4>2 DEF EndIteration
    <3>3. CASE status[wjob[w]] \notin Terminal
      <4>1. /\ wpc' = [wpc EXCEPT ![w] = IF r = "success" THEN "completing" ELSE "failing"]
            /\ wresult' = [wresult EXCEPT ![w] = r]
            /\ wfrom' = [wfrom EXCEPT ![w] = status[wjob[w]]]
            /\ UNCHANGED <<wjob, wattempts>>
        BY <3>1, <3>3 DEF NoRoute, Conclude
      <4>2. /\ wpc[w] = "ready" /\ wjob[w] \in Matches
            /\ UNCHANGED <<rowVars, history, match, clientVars, outside, faults>>
        BY <3>1 DEF NoRoute
      <4>. QED  BY <3>1, <3>3, <4>1, <4>2
    <3>. QED  BY <3>2, <3>3
  <2>4. CASE Submit(w)
    BY <2>4 DEF Submit
  <2>5. CASE \E r \in Result : Answer(w, r)
    <3>1. PICK r \in Result : Answer(w, r)
      BY <2>5
    <3>2. CASE status[wjob[w]] \in Terminal
      <4>1. EndIteration(w)
        BY <3>1, <3>2 DEF Answer, Conclude
      <4>2. /\ wpc[w] = "submitting" /\ wjob[w] \in Matches
            /\ UNCHANGED <<rowVars, history, match, clientVars, tries, faults>>
            /\ accepted' \in {accepted, accepted \cup {wjob[w]}}
            /\ r = "success" => wjob[w] \in accepted'
        BY <3>1 DEF Answer
      <4>. QED  BY <4>1, <4>2 DEF EndIteration
    <3>3. CASE status[wjob[w]] \notin Terminal
      <4>1. /\ wpc' = [wpc EXCEPT ![w] = IF r = "success" THEN "completing" ELSE "failing"]
            /\ wresult' = [wresult EXCEPT ![w] = r]
            /\ wfrom' = [wfrom EXCEPT ![w] = status[wjob[w]]]
            /\ UNCHANGED <<wjob, wattempts>>
        BY <3>1, <3>3 DEF Answer, Conclude
      <4>2. /\ wpc[w] = "submitting" /\ wjob[w] \in Matches
            /\ UNCHANGED <<rowVars, history, match, clientVars, tries, faults>>
            /\ accepted' \in {accepted, accepted \cup {wjob[w]}}
            /\ r = "success" => wjob[w] \in accepted'
        BY <3>1 DEF Answer
      <4>. QED  BY <3>1, <3>3, <4>1, <4>2
    <3>. QED  BY <3>2, <3>3
  <2>6. CASE WriteSucceeded(w)
    BY <2>6 DEF WriteSucceeded
  <2>7. CASE RecordSucceeded(w)
    BY <2>7 DEF RecordSucceeded, RecordTransition
  <2>8. CASE NotifierRaises(w)
    BY <2>8 DEF NotifierRaises, EndIteration
  <2>9. CASE FlipMatch(w)
    BY <2>9 DEF FlipMatch, EndIteration
  <2>10. CASE MarkAttempt(w)
    BY <2>10 DEF MarkAttempt
  <2>11. CASE Requeue(w)
    BY <2>11 DEF Requeue, Retries
  <2>12. CASE DeadLetter(w)
    BY <2>12 DEF DeadLetter, Retries
  <2>13. CASE RecordFailed(w)
    BY <2>13 DEF RecordFailed, RecordTransition, EndIteration
    <2>. QED  BY <1>3, <2>1, <2>2, <2>3, <2>4, <2>5, <2>6, <2>7, <2>8, <2>9, <2>10,
      <2>11, <2>12, <2>13 DEF WorkerStep
<1>4. ASSUME NEW m \in Matches, BackoffElapses(m) PROVE HeldJobs'
  BY <1>4 DEF BackoffElapses
<1>5. ASSUME NEW w \in Workers, CrashWorker(w) PROVE HeldJobs'
  BY <1>5 DEF CrashWorker, EndIteration
<1>6. ASSUME NEW c \in Clients, CrashClient(c) PROVE HeldJobs'
  BY <1>6 DEF CrashClient, EndRequest
<1>. QED  BY <1>1, <1>2, <1>3, <1>4, <1>5, <1>6 DEF Next, Crash

\* complete() sets the external id; a row with one is not queued or running again.
LEMMA RecordedStep ==
  TypeOK /\ InHand /\ HeldJobs /\ RecordedSuccess /\ [Next]_vars => RecordedSuccess'
<1> SUFFICES ASSUME TypeOK, InHand, HeldJobs, RecordedSuccess, [Next]_vars PROVE
    RecordedSuccess'
  OBVIOUS
<1> USE QueueAssumption DEF TypeOK, JobStatus, Terminal, Cancellable, HistoryRow,
    Result, WorkerPC, ClientPC, Holding, InHand, HeldJobs, RecordedSuccess, rowVars,
    workerVars, clientVars, outside
<1>1. CASE UNCHANGED vars
  BY <1>1 DEF vars
<1>2. ASSUME NEW c \in Clients, ClientStep(c) \/ Request(c) PROVE RecordedSuccess'
  <2>1. CASE \E m \in Matches : LookupForEnqueue(c, m)
    BY <2>1 DEF LookupForEnqueue
  <2>2. CASE \E m \in Matches : CheckCancellable(c, m)
    BY <2>2 DEF CheckCancellable
  <2>3. CASE InsertJob(c)
    BY <2>3 DEF InsertJob
  <2>4. CASE RejectInsert(c)
    BY <2>4 DEF RejectInsert, EndRequest
  <2>5. CASE RecordEnqueue(c)
    BY <2>5 DEF RecordEnqueue, RecordTransition, EndRequest
  <2>6. CASE WriteCancelled(c)
    BY <2>6 DEF WriteCancelled
  <2>7. CASE RecordCancel(c)
    BY <2>7 DEF RecordCancel, RecordTransition, EndRequest
  <2>. QED  BY <1>2, <2>1, <2>2, <2>3, <2>4, <2>5, <2>6, <2>7 DEF ClientStep, Request
<1>3. ASSUME NEW w \in Workers, WorkerStep(w) PROVE RecordedSuccess'
  <2>1. CASE ClaimNext(w)
    <3>1. PICK i \in DOMAIN created : Claim(w, created[i])
      BY <2>1 DEF ClaimNext
    <3>2. created[i] \in Matches
      BY <3>1
    <3>. DEFINE m == created[i]
    <3>. HIDE DEF m
    <3>3. m \in Matches /\ Claim(w, m)
      BY <3>1, <3>2 DEF m
    <3>. QED  BY <3>3 DEF Claim, Claimable
  <2>2. CASE RecordClaim(w)
    BY <2>2 DEF RecordClaim, RecordTransition
  <2>3. CASE NoRoute(w)
    <3> DEFINE r == "permanent"
    <3>1. NoRoute(w)
      BY <2>3
    <3>2. CASE status[wjob[w]] \in Terminal
      <4>1. EndIteration(w)
        BY <3>1, <3>2 DEF NoRoute, Conclude
      <4>2. /\ wpc[w] = "ready" /\ wjob[w] \in Matches
            /\ UNCHANGED <<rowVars, history, match, clientVars, outside, faults>>
        BY <3>1 DEF NoRoute
      <4>. QED  BY <4>1, <4>2 DEF EndIteration
    <3>3. CASE status[wjob[w]] \notin Terminal
      <4>1. /\ wpc' = [wpc EXCEPT ![w] = IF r = "success" THEN "completing" ELSE "failing"]
            /\ wresult' = [wresult EXCEPT ![w] = r]
            /\ wfrom' = [wfrom EXCEPT ![w] = status[wjob[w]]]
            /\ UNCHANGED <<wjob, wattempts>>
        BY <3>1, <3>3 DEF NoRoute, Conclude
      <4>2. /\ wpc[w] = "ready" /\ wjob[w] \in Matches
            /\ UNCHANGED <<rowVars, history, match, clientVars, outside, faults>>
        BY <3>1 DEF NoRoute
      <4>. QED  BY <3>1, <3>3, <4>1, <4>2
    <3>. QED  BY <3>2, <3>3
  <2>4. CASE Submit(w)
    BY <2>4 DEF Submit
  <2>5. CASE \E r \in Result : Answer(w, r)
    <3>1. PICK r \in Result : Answer(w, r)
      BY <2>5
    <3>2. CASE status[wjob[w]] \in Terminal
      <4>1. EndIteration(w)
        BY <3>1, <3>2 DEF Answer, Conclude
      <4>2. /\ wpc[w] = "submitting" /\ wjob[w] \in Matches
            /\ UNCHANGED <<rowVars, history, match, clientVars, tries, faults>>
            /\ accepted' \in {accepted, accepted \cup {wjob[w]}}
            /\ r = "success" => wjob[w] \in accepted'
        BY <3>1 DEF Answer
      <4>. QED  BY <4>1, <4>2 DEF EndIteration
    <3>3. CASE status[wjob[w]] \notin Terminal
      <4>1. /\ wpc' = [wpc EXCEPT ![w] = IF r = "success" THEN "completing" ELSE "failing"]
            /\ wresult' = [wresult EXCEPT ![w] = r]
            /\ wfrom' = [wfrom EXCEPT ![w] = status[wjob[w]]]
            /\ UNCHANGED <<wjob, wattempts>>
        BY <3>1, <3>3 DEF Answer, Conclude
      <4>2. /\ wpc[w] = "submitting" /\ wjob[w] \in Matches
            /\ UNCHANGED <<rowVars, history, match, clientVars, tries, faults>>
            /\ accepted' \in {accepted, accepted \cup {wjob[w]}}
            /\ r = "success" => wjob[w] \in accepted'
        BY <3>1 DEF Answer
      <4>. QED  BY <3>1, <3>3, <4>1, <4>2
    <3>. QED  BY <3>2, <3>3
  <2>6. CASE WriteSucceeded(w)
    BY <2>6 DEF WriteSucceeded
  <2>7. CASE RecordSucceeded(w)
    BY <2>7 DEF RecordSucceeded, RecordTransition
  <2>8. CASE NotifierRaises(w)
    BY <2>8 DEF NotifierRaises, EndIteration
  <2>9. CASE FlipMatch(w)
    BY <2>9 DEF FlipMatch, EndIteration
  <2>10. CASE MarkAttempt(w)
    BY <2>10 DEF MarkAttempt
  <2>11. CASE Requeue(w)
    BY <2>11 DEF Requeue, Retries
  <2>12. CASE DeadLetter(w)
    BY <2>12 DEF DeadLetter, Retries
  <2>13. CASE RecordFailed(w)
    BY <2>13 DEF RecordFailed, RecordTransition, EndIteration
    <2>. QED  BY <1>3, <2>1, <2>2, <2>3, <2>4, <2>5, <2>6, <2>7, <2>8, <2>9, <2>10,
      <2>11, <2>12, <2>13 DEF WorkerStep
<1>4. ASSUME NEW m \in Matches, BackoffElapses(m) PROVE RecordedSuccess'
  BY <1>4 DEF BackoffElapses
<1>5. ASSUME NEW w \in Workers, CrashWorker(w) PROVE RecordedSuccess'
  BY <1>5 DEF CrashWorker, EndIteration
<1>6. ASSUME NEW c \in Clients, CrashClient(c) PROVE RecordedSuccess'
  BY <1>6 DEF CrashClient, EndRequest
<1>. QED  BY <1>1, <1>2, <1>3, <1>4, <1>5, <1>6 DEF Next, Crash

\* The two bumps of `attempts' keep pace with the adapter calls.
LEMMA BudgetStep == TypeOK /\ InHand /\ HeldJobs /\ Budget /\ [Next]_vars => Budget'
<1> SUFFICES ASSUME TypeOK, InHand, HeldJobs, Budget, [Next]_vars PROVE Budget'
  OBVIOUS
<1> USE QueueAssumption DEF TypeOK, JobStatus, Terminal, Cancellable, HistoryRow,
    Result, WorkerPC, ClientPC, Holding, InHand, HeldJobs, Budget, rowVars, workerVars,
    clientVars, outside
<1>1. CASE UNCHANGED vars
  BY <1>1 DEF vars, RowBudget, WorkerBudget
<1>2. ASSUME NEW c \in Clients, ClientStep(c) \/ Request(c) PROVE Budget'
  <2>1. CASE \E m \in Matches : LookupForEnqueue(c, m)
    BY <2>1 DEF LookupForEnqueue, RowBudget, WorkerBudget
  <2>2. CASE \E m \in Matches : CheckCancellable(c, m)
    BY <2>2 DEF CheckCancellable, RowBudget, WorkerBudget
  <2>3. CASE InsertJob(c)
    BY <2>3 DEF InsertJob, RowBudget, WorkerBudget
  <2>4. CASE RejectInsert(c)
    BY <2>4 DEF RejectInsert, EndRequest, RowBudget, WorkerBudget
  <2>5. CASE RecordEnqueue(c)
    BY <2>5 DEF RecordEnqueue, RecordTransition, EndRequest, RowBudget, WorkerBudget
  <2>6. CASE WriteCancelled(c)
    BY <2>6 DEF WriteCancelled, RowBudget, WorkerBudget
  <2>7. CASE RecordCancel(c)
    BY <2>7 DEF RecordCancel, RecordTransition, EndRequest, RowBudget, WorkerBudget
  <2>. QED  BY <1>2, <2>1, <2>2, <2>3, <2>4, <2>5, <2>6, <2>7 DEF ClientStep, Request
<1>3. ASSUME NEW w \in Workers, WorkerStep(w) PROVE Budget'
  <2>1. CASE ClaimNext(w)
    <3>1. PICK i \in DOMAIN created : Claim(w, created[i])
      BY <2>1 DEF ClaimNext
    <3>. DEFINE m == created[i]
    <3>2. m \in Matches
      BY <3>1
    <3>. HIDE DEF m
    <3>3. Claim(w, m)
      BY <3>1 DEF m
    <3>4. /\ status[m] = "queued"
          /\ 2 * tries[m] <= attempts[m] /\ attempts[m] < PolicyAttempts
          /\ attempts[m] <= MaxAttempts
          /\ \A v \in Workers : wpc[v] \in Holding => wjob[v] # m
      BY <3>2, <3>3 DEF Claim, Claimable, RowBudget
    <3>5. ASSUME NEW n \in Matches PROVE RowBudget(n)'
      <4>1. CASE n = m
        BY <3>2, <3>3, <3>4, <4>1 DEF Claim, RowBudget
      <4>2. CASE n # m
        <5>1. /\ tries'[n] = tries[n] /\ attempts'[n] = attempts[n]
              /\ status'[n] = status[n]
          BY <3>2, <3>3, <4>2 DEF Claim
        <5>2. RowBudget(n)
          OBVIOUS
        <5>. QED  BY <5>1, <5>2 DEF RowBudget
      <4>. QED  BY <4>1, <4>2
    <3>6. ASSUME NEW v \in Workers PROVE WorkerBudget(v)'
      <4>1. CASE v = w
        <5>1. /\ wpc'[w] = "claimed" /\ wjob'[w] = m
              /\ wattempts'[w] = attempts[m] + 1 /\ attempts'[m] = attempts[m] + 1
              /\ tries'[m] = tries[m]
          BY <3>2, <3>3 DEF Claim
        <5>2. attempts[m] \in Nat /\ tries[m] \in Nat
          BY <3>2
        <5>3. attempts[m] + 1 <= PolicyAttempts /\ attempts[m] + 1 <= MaxAttempts + 1
              /\ 2 * tries[m] + 1 <= attempts[m] + 1
          BY <3>4, <5>2, Bump
        <5>. QED  BY <4>1, <5>1, <5>3 DEF WorkerBudget
      <4>2. CASE v # w
        <5>1. wpc'[v] = wpc[v] /\ wjob'[v] = wjob[v] /\ wattempts'[v] = wattempts[v]
          BY <3>2, <3>3, <4>2 DEF Claim
        <5>2. CASE wpc[v] \in Holding
          <6>1. wjob[v] \in Matches /\ wjob[v] # m
            BY <3>4, <4>2, <5>2
          <6>2. tries'[wjob[v]] = tries[wjob[v]] /\ attempts'[wjob[v]] = attempts[wjob[v]]
            BY <3>2, <3>3, <6>1 DEF Claim
          <6>3. WorkerBudget(v)
            OBVIOUS
          <6>. QED  BY <5>1, <6>2, <6>3 DEF WorkerBudget
        <5>3. CASE wpc[v] \notin Holding
          BY <5>1, <5>3 DEF WorkerBudget
        <5>. QED  BY <5>2, <5>3
      <4>. QED  BY <4>1, <4>2
    <3>. QED  BY <3>5, <3>6
  <2>2. CASE RecordClaim(w)
    <3>1. UNCHANGED <<status, attempts, tries, wjob, wattempts>>
      BY <2>2 DEF RecordClaim
    <3>2. ASSUME NEW v \in Workers PROVE WorkerBudget(v)'
      BY <2>2, <3>1 DEF RecordClaim, WorkerBudget
    <3>. QED  BY <3>1, <3>2 DEF RowBudget
  <2>3. CASE NoRoute(w)
    <3> DEFINE r == "permanent"
    <3>1. NoRoute(w)
      BY <2>3
    <3>2. CASE status[wjob[w]] \in Terminal
      <4>1. EndIteration(w)
        BY <3>1, <3>2 DEF NoRoute, Conclude
      <4>2. /\ wpc[w] = "ready" /\ wjob[w] \in Matches
            /\ UNCHANGED <<rowVars, history, match, clientVars, outside, faults>>
        BY <3>1 DEF NoRoute
      <4>. QED  BY <4>1, <4>2 DEF EndIteration, RowBudget, WorkerBudget
    <3>3. CASE status[wjob[w]] \notin Terminal
      <4>1. /\ wpc' = [wpc EXCEPT ![w] = IF r = "success" THEN "completing" ELSE "failing"]
            /\ wresult' = [wresult EXCEPT ![w] = r]
            /\ wfrom' = [wfrom EXCEPT ![w] = status[wjob[w]]]
            /\ UNCHANGED <<wjob, wattempts>>
        BY <3>1, <3>3 DEF NoRoute, Conclude
      <4>2. /\ wpc[w] = "ready" /\ wjob[w] \in Matches
            /\ UNCHANGED <<rowVars, history, match, clientVars, outside, faults>>
        BY <3>1 DEF NoRoute
      <4>. QED  BY <3>3, <4>1, <4>2 DEF RowBudget, WorkerBudget
    <3>. QED  BY <3>2, <3>3
  <2>4. CASE Submit(w)
    <3>4. /\ wjob[w] \in Matches
          /\ status[wjob[w]] \in {"running", "cancelled"}
          /\ wpc[w] \in Holding
          /\ WorkerBudget(w) /\ RowBudget(wjob[w])
      BY <2>4 DEF Submit
    <3>5. ASSUME NEW n \in Matches PROVE RowBudget(n)'
      <4>1. CASE n = wjob[w]
        BY <2>4, <3>4, <4>1, SMTT(20) DEF Submit, WorkerBudget, RowBudget
      <4>2. CASE n # wjob[w]
        <5>1. /\ tries'[n] = tries[n] /\ attempts'[n] = attempts[n]
              /\ status'[n] = status[n]
          BY <2>4, <4>2 DEF Submit
        <5>2. RowBudget(n)
          OBVIOUS
        <5>. QED  BY <5>1, <5>2 DEF RowBudget
      <4>. QED  BY <4>1, <4>2
    <3>6. ASSUME NEW v \in Workers PROVE WorkerBudget(v)'
      <4>1. CASE v = w
        BY <2>4, <3>4, <4>1 DEF Submit, WorkerBudget
      <4>2. CASE v # w
        <5>1. wpc'[v] = wpc[v] /\ wjob'[v] = wjob[v] /\ wattempts'[v] = wattempts[v]
          BY <2>4, <4>2 DEF Submit
        <5>2. CASE wpc[v] \in Holding
          <6>1. wjob[v] \in Matches /\ wjob[v] # wjob[w]
            BY <3>4, <4>2, <5>2
          <6>2. tries'[wjob[v]] = tries[wjob[v]] /\ attempts'[wjob[v]] = attempts[wjob[v]]
            BY <2>4, <6>1 DEF Submit
          <6>3. WorkerBudget(v)
            OBVIOUS
          <6>. QED  BY <5>1, <6>2, <6>3 DEF WorkerBudget
        <5>3. CASE wpc[v] \notin Holding
          BY <5>1, <5>3 DEF WorkerBudget
        <5>. QED  BY <5>2, <5>3
      <4>. QED  BY <4>1, <4>2
    <3>. QED  BY <3>5, <3>6
  <2>5. CASE \E r \in Result : Answer(w, r)
    <3>1. PICK r \in Result : Answer(w, r)
      BY <2>5
    <3>2. CASE status[wjob[w]] \in Terminal
      <4>1. EndIteration(w)
        BY <3>1, <3>2 DEF Answer, Conclude
      <4>2. /\ wpc[w] = "submitting" /\ wjob[w] \in Matches
            /\ UNCHANGED <<rowVars, history, match, clientVars, tries, faults>>
            /\ accepted' \in {accepted, accepted \cup {wjob[w]}}
            /\ r = "success" => wjob[w] \in accepted'
        BY <3>1 DEF Answer
      <4>. QED  BY <4>1, <4>2 DEF EndIteration, RowBudget, WorkerBudget
    <3>3. CASE status[wjob[w]] \notin Terminal
      <4>1. /\ wpc' = [wpc EXCEPT ![w] = IF r = "success" THEN "completing" ELSE "failing"]
            /\ wresult' = [wresult EXCEPT ![w] = r]
            /\ wfrom' = [wfrom EXCEPT ![w] = status[wjob[w]]]
            /\ UNCHANGED <<wjob, wattempts>>
        BY <3>1, <3>3 DEF Answer, Conclude
      <4>2. /\ wpc[w] = "submitting" /\ wjob[w] \in Matches
            /\ UNCHANGED <<rowVars, history, match, clientVars, tries, faults>>
            /\ accepted' \in {accepted, accepted \cup {wjob[w]}}
            /\ r = "success" => wjob[w] \in accepted'
        BY <3>1 DEF Answer
      <4>. QED  BY <3>3, <4>1, <4>2 DEF RowBudget, WorkerBudget
    <3>. QED  BY <3>2, <3>3
  <2>6. CASE WriteSucceeded(w)
    BY <2>6 DEF WriteSucceeded, RowBudget, WorkerBudget
  <2>7. CASE RecordSucceeded(w)
    BY <2>7, SMTT(20) DEF RecordSucceeded, RecordTransition, RowBudget, WorkerBudget
  <2>8. CASE NotifierRaises(w)
    BY <2>8 DEF NotifierRaises, EndIteration, RowBudget, WorkerBudget
  <2>9. CASE FlipMatch(w)
    BY <2>9 DEF FlipMatch, EndIteration, RowBudget, WorkerBudget
  <2>10. CASE MarkAttempt(w)
    <3>4. /\ wjob[w] \in Matches
          /\ status[wjob[w]] \in {"running", "cancelled"}
          /\ wpc[w] \in Holding
          /\ WorkerBudget(w) /\ RowBudget(wjob[w])
      BY <2>10 DEF MarkAttempt
    <3>5. ASSUME NEW n \in Matches PROVE RowBudget(n)'
      <4>1. CASE n = wjob[w]
        BY <2>10, <3>4, <4>1 DEF MarkAttempt, WorkerBudget, RowBudget
      <4>2. CASE n # wjob[w]
        <5>1. /\ tries'[n] = tries[n] /\ attempts'[n] = attempts[n]
              /\ status'[n] = status[n]
          BY <2>10, <4>2 DEF MarkAttempt
        <5>2. RowBudget(n)
          OBVIOUS
        <5>. QED  BY <5>1, <5>2 DEF RowBudget
      <4>. QED  BY <4>1, <4>2
    <3>6. ASSUME NEW v \in Workers PROVE WorkerBudget(v)'
      <4>1. CASE v = w
        BY <2>10, <3>4, <4>1 DEF MarkAttempt, WorkerBudget
      <4>2. CASE v # w
        <5>1. wpc'[v] = wpc[v] /\ wjob'[v] = wjob[v] /\ wattempts'[v] = wattempts[v]
          BY <2>10, <4>2 DEF MarkAttempt
        <5>2. CASE wpc[v] \in Holding
          <6>1. wjob[v] \in Matches /\ wjob[v] # wjob[w]
            BY <3>4, <4>2, <5>2
          <6>2. tries'[wjob[v]] = tries[wjob[v]] /\ attempts'[wjob[v]] = attempts[wjob[v]]
            BY <2>10, <6>1 DEF MarkAttempt
          <6>3. WorkerBudget(v)
            OBVIOUS
          <6>. QED  BY <5>1, <6>2, <6>3 DEF WorkerBudget
        <5>3. CASE wpc[v] \notin Holding
          BY <5>1, <5>3 DEF WorkerBudget
        <5>. QED  BY <5>2, <5>3
      <4>. QED  BY <4>1, <4>2
    <3>. QED  BY <3>5, <3>6
  <2>11. CASE Requeue(w)
    BY <2>11, SMTT(20) DEF Requeue, Retries, RowBudget, WorkerBudget
  <2>12. CASE DeadLetter(w)
    BY <2>12, SMTT(20) DEF DeadLetter, Retries, RowBudget, WorkerBudget
  <2>13. CASE RecordFailed(w)
    BY <2>13, SMTT(20) DEF RecordFailed, RecordTransition, EndIteration, RowBudget, WorkerBudget
    <2>. QED  BY <1>3, <2>1, <2>2, <2>3, <2>4, <2>5, <2>6, <2>7, <2>8, <2>9, <2>10,
      <2>11, <2>12, <2>13 DEF WorkerStep
<1>4. ASSUME NEW m \in Matches, BackoffElapses(m) PROVE Budget'
  BY <1>4 DEF BackoffElapses, RowBudget, WorkerBudget
<1>5. ASSUME NEW w \in Workers, CrashWorker(w) PROVE Budget'
  BY <1>5 DEF CrashWorker, EndIteration, RowBudget, WorkerBudget
<1>6. ASSUME NEW c \in Clients, CrashClient(c) PROVE Budget'
  BY <1>6 DEF CrashClient, EndRequest, RowBudget, WorkerBudget
<1>. QED  BY <1>1, <1>2, <1>3, <1>4, <1>5, <1>6 DEF Next, Crash

\* The success result is followed by the row, the row by the match.
LEMMA ShownStep ==
  TypeOK /\ InHand /\ HeldJobs /\ RecordedSuccess /\ Shown /\ [Next]_vars => Shown'
<1> SUFFICES ASSUME TypeOK, InHand, HeldJobs, RecordedSuccess, Shown, [Next]_vars PROVE
    Shown'
  OBVIOUS
<1> USE QueueAssumption DEF TypeOK, JobStatus, Terminal, Cancellable, HistoryRow,
    Result, WorkerPC, ClientPC, Holding, InHand, HeldJobs, RecordedSuccess, Shown,
    rowVars, workerVars, clientVars, outside
<1>1. CASE UNCHANGED vars
  BY <1>1 DEF vars
<1>2. ASSUME NEW c \in Clients, ClientStep(c) \/ Request(c) PROVE Shown'
  <2>1. CASE \E m \in Matches : LookupForEnqueue(c, m)
    BY <2>1 DEF LookupForEnqueue
  <2>2. CASE \E m \in Matches : CheckCancellable(c, m)
    BY <2>2 DEF CheckCancellable
  <2>3. CASE InsertJob(c)
    BY <2>3 DEF InsertJob
  <2>4. CASE RejectInsert(c)
    BY <2>4 DEF RejectInsert, EndRequest
  <2>5. CASE RecordEnqueue(c)
    BY <2>5 DEF RecordEnqueue, RecordTransition, EndRequest
  <2>6. CASE WriteCancelled(c)
    BY <2>6 DEF WriteCancelled
  <2>7. CASE RecordCancel(c)
    BY <2>7 DEF RecordCancel, RecordTransition, EndRequest
  <2>. QED  BY <1>2, <2>1, <2>2, <2>3, <2>4, <2>5, <2>6, <2>7 DEF ClientStep, Request
<1>3. ASSUME NEW w \in Workers, WorkerStep(w) PROVE Shown'
  <2>1. CASE ClaimNext(w)
    <3>1. PICK i \in DOMAIN created : Claim(w, created[i])
      BY <2>1 DEF ClaimNext
    <3>2. created[i] \in Matches
      BY <3>1
    <3>. DEFINE m == created[i]
    <3>. HIDE DEF m
    <3>3. m \in Matches /\ Claim(w, m)
      BY <3>1, <3>2 DEF m
    <3>. QED  BY <3>3, SMTT(20) DEF Claim, Claimable
  <2>2. CASE RecordClaim(w)
    BY <2>2 DEF RecordClaim, RecordTransition
  <2>3. CASE NoRoute(w)
    <3> DEFINE r == "permanent"
    <3>1. NoRoute(w)
      BY <2>3
    <3>2. CASE status[wjob[w]] \in Terminal
      <4>1. EndIteration(w)
        BY <3>1, <3>2 DEF NoRoute, Conclude
      <4>2. /\ wpc[w] = "ready" /\ wjob[w] \in Matches
            /\ UNCHANGED <<rowVars, history, match, clientVars, outside, faults>>
        BY <3>1 DEF NoRoute
      <4>. QED  BY <4>1, <4>2 DEF EndIteration
    <3>3. CASE status[wjob[w]] \notin Terminal
      <4>1. /\ wpc' = [wpc EXCEPT ![w] = IF r = "success" THEN "completing" ELSE "failing"]
            /\ wresult' = [wresult EXCEPT ![w] = r]
            /\ wfrom' = [wfrom EXCEPT ![w] = status[wjob[w]]]
            /\ UNCHANGED <<wjob, wattempts>>
        BY <3>1, <3>3 DEF NoRoute, Conclude
      <4>2. /\ wpc[w] = "ready" /\ wjob[w] \in Matches
            /\ UNCHANGED <<rowVars, history, match, clientVars, outside, faults>>
        BY <3>1 DEF NoRoute
      <4>. QED  BY <3>1, <3>3, <4>1, <4>2
    <3>. QED  BY <3>2, <3>3
  <2>4. CASE Submit(w)
    BY <2>4 DEF Submit
  <2>5. CASE \E r \in Result : Answer(w, r)
    <3>1. PICK r \in Result : Answer(w, r)
      BY <2>5
    <3>2. CASE status[wjob[w]] \in Terminal
      <4>1. EndIteration(w)
        BY <3>1, <3>2 DEF Answer, Conclude
      <4>2. /\ wpc[w] = "submitting" /\ wjob[w] \in Matches
            /\ UNCHANGED <<rowVars, history, match, clientVars, tries, faults>>
            /\ accepted' \in {accepted, accepted \cup {wjob[w]}}
            /\ r = "success" => wjob[w] \in accepted'
        BY <3>1 DEF Answer
      <4>. QED  BY <4>1, <4>2 DEF EndIteration
    <3>3. CASE status[wjob[w]] \notin Terminal
      <4>1. /\ wpc' = [wpc EXCEPT ![w] = IF r = "success" THEN "completing" ELSE "failing"]
            /\ wresult' = [wresult EXCEPT ![w] = r]
            /\ wfrom' = [wfrom EXCEPT ![w] = status[wjob[w]]]
            /\ UNCHANGED <<wjob, wattempts>>
        BY <3>1, <3>3 DEF Answer, Conclude
      <4>2. /\ wpc[w] = "submitting" /\ wjob[w] \in Matches
            /\ UNCHANGED <<rowVars, history, match, clientVars, tries, faults>>
            /\ accepted' \in {accepted, accepted \cup {wjob[w]}}
            /\ r = "success" => wjob[w] \in accepted'
        BY <3>1 DEF Answer
      <4>. QED  BY <3>1, <3>3, <4>1, <4>2
    <3>. QED  BY <3>2, <3>3
  <2>6. CASE WriteSucceeded(w)
    BY <2>6 DEF WriteSucceeded
  <2>7. CASE RecordSucceeded(w)
    BY <2>7 DEF RecordSucceeded, RecordTransition
  <2>8. CASE NotifierRaises(w)
    BY <2>8 DEF NotifierRaises, EndIteration
  <2>9. CASE FlipMatch(w)
    BY <2>9 DEF FlipMatch, EndIteration
  <2>10. CASE MarkAttempt(w)
    BY <2>10 DEF MarkAttempt
  <2>11. CASE Requeue(w)
    BY <2>11 DEF Requeue, Retries
  <2>12. CASE DeadLetter(w)
    BY <2>12 DEF DeadLetter, Retries
  <2>13. CASE RecordFailed(w)
    BY <2>13 DEF RecordFailed, RecordTransition, EndIteration
    <2>. QED  BY <1>3, <2>1, <2>2, <2>3, <2>4, <2>5, <2>6, <2>7, <2>8, <2>9, <2>10,
      <2>11, <2>12, <2>13 DEF WorkerStep
<1>4. ASSUME NEW m \in Matches, BackoffElapses(m) PROVE Shown'
  BY <1>4 DEF BackoffElapses
<1>5. ASSUME NEW w \in Workers, CrashWorker(w) PROVE Shown'
  BY <1>5 DEF CrashWorker, EndIteration
<1>6. ASSUME NEW c \in Clients, CrashClient(c) PROVE Shown'
  BY <1>6 DEF CrashClient, EndRequest
<1>. QED  BY <1>1, <1>2, <1>3, <1>4, <1>5, <1>6 DEF Next, Crash

\* Nothing deletes a row, and the INSERT that creates it succeeds once.
LEMMA WorkedStep == TypeOK /\ InHand /\ Worked /\ [Next]_vars => Worked'
<1> SUFFICES ASSUME TypeOK, InHand, Worked, [Next]_vars PROVE Worked'
  OBVIOUS
<1> USE QueueAssumption DEF TypeOK, JobStatus, Terminal, Cancellable, HistoryRow,
    Result, WorkerPC, ClientPC, Holding, InHand, Worked, rowVars, workerVars,
    clientVars, outside
<1>1. CASE UNCHANGED vars
  BY <1>1 DEF vars
<1>2. ASSUME NEW c \in Clients, ClientStep(c) \/ Request(c) PROVE Worked'
  <2>1. CASE \E m \in Matches : LookupForEnqueue(c, m)
    BY <2>1 DEF LookupForEnqueue
  <2>2. CASE \E m \in Matches : CheckCancellable(c, m)
    BY <2>2 DEF CheckCancellable
  <2>3. CASE InsertJob(c)
    BY <2>3 DEF InsertJob
  <2>4. CASE RejectInsert(c)
    BY <2>4 DEF RejectInsert, EndRequest
  <2>5. CASE RecordEnqueue(c)
    BY <2>5 DEF RecordEnqueue, RecordTransition, EndRequest
  <2>6. CASE WriteCancelled(c)
    BY <2>6 DEF WriteCancelled
  <2>7. CASE RecordCancel(c)
    BY <2>7 DEF RecordCancel, RecordTransition, EndRequest
  <2>. QED  BY <1>2, <2>1, <2>2, <2>3, <2>4, <2>5, <2>6, <2>7 DEF ClientStep, Request
<1>3. ASSUME NEW w \in Workers, WorkerStep(w) PROVE Worked'
  <2>1. CASE ClaimNext(w)
    <3>1. PICK i \in DOMAIN created : Claim(w, created[i])
      BY <2>1 DEF ClaimNext
    <3>. DEFINE m == created[i]
    <3>2. m \in Matches
      BY <3>1
    <3>. HIDE DEF m
    <3>3. Claim(w, m)
      BY <3>1 DEF m
    <3>4. \A n \in Matches : status'[n] = "absent" => status[n] = "absent"
      BY <3>2, <3>3 DEF Claim
    <3>5. status'[m] # "absent" /\ UNCHANGED <<cpc, cjob>>
      BY <3>2, <3>3 DEF Claim
    <3>6. \A v \in Workers : wpc'[v] # "idle" => status'[wjob'[v]] # "absent"
      <4>. TAKE v \in Workers
      <4>1. CASE v = w
        BY <3>2, <3>3, <3>5, <4>1 DEF Claim
      <4>2. CASE v # w
        BY <3>2, <3>3, <3>4, <4>2 DEF Claim
      <4>. QED  BY <4>1, <4>2
    <3>. QED  BY <3>4, <3>5, <3>6, ZenonT(30)
  <2>2. CASE RecordClaim(w)
    BY <2>2 DEF RecordClaim, RecordTransition
  <2>3. CASE NoRoute(w)
    <3> DEFINE r == "permanent"
    <3>1. NoRoute(w)
      BY <2>3
    <3>2. CASE status[wjob[w]] \in Terminal
      <4>1. EndIteration(w)
        BY <3>1, <3>2 DEF NoRoute, Conclude
      <4>2. /\ wpc[w] = "ready" /\ wjob[w] \in Matches
            /\ UNCHANGED <<rowVars, history, match, clientVars, outside, faults>>
        BY <3>1 DEF NoRoute
      <4>. QED  BY <4>1, <4>2 DEF EndIteration
    <3>3. CASE status[wjob[w]] \notin Terminal
      <4>1. /\ wpc' = [wpc EXCEPT ![w] = IF r = "success" THEN "completing" ELSE "failing"]
            /\ wresult' = [wresult EXCEPT ![w] = r]
            /\ wfrom' = [wfrom EXCEPT ![w] = status[wjob[w]]]
            /\ UNCHANGED <<wjob, wattempts>>
        BY <3>1, <3>3 DEF NoRoute, Conclude
      <4>2. /\ wpc[w] = "ready" /\ wjob[w] \in Matches
            /\ UNCHANGED <<rowVars, history, match, clientVars, outside, faults>>
        BY <3>1 DEF NoRoute
      <4>. QED  BY <3>1, <3>3, <4>1, <4>2
    <3>. QED  BY <3>2, <3>3
  <2>4. CASE Submit(w)
    BY <2>4 DEF Submit
  <2>5. CASE \E r \in Result : Answer(w, r)
    <3>1. PICK r \in Result : Answer(w, r)
      BY <2>5
    <3>2. CASE status[wjob[w]] \in Terminal
      <4>1. EndIteration(w)
        BY <3>1, <3>2 DEF Answer, Conclude
      <4>2. /\ wpc[w] = "submitting" /\ wjob[w] \in Matches
            /\ UNCHANGED <<rowVars, history, match, clientVars, tries, faults>>
            /\ accepted' \in {accepted, accepted \cup {wjob[w]}}
            /\ r = "success" => wjob[w] \in accepted'
        BY <3>1 DEF Answer
      <4>. QED  BY <4>1, <4>2 DEF EndIteration
    <3>3. CASE status[wjob[w]] \notin Terminal
      <4>1. /\ wpc' = [wpc EXCEPT ![w] = IF r = "success" THEN "completing" ELSE "failing"]
            /\ wresult' = [wresult EXCEPT ![w] = r]
            /\ wfrom' = [wfrom EXCEPT ![w] = status[wjob[w]]]
            /\ UNCHANGED <<wjob, wattempts>>
        BY <3>1, <3>3 DEF Answer, Conclude
      <4>2. /\ wpc[w] = "submitting" /\ wjob[w] \in Matches
            /\ UNCHANGED <<rowVars, history, match, clientVars, tries, faults>>
            /\ accepted' \in {accepted, accepted \cup {wjob[w]}}
            /\ r = "success" => wjob[w] \in accepted'
        BY <3>1 DEF Answer
      <4>. QED  BY <3>1, <3>3, <4>1, <4>2
    <3>. QED  BY <3>2, <3>3
  <2>6. CASE WriteSucceeded(w)
    BY <2>6 DEF WriteSucceeded
  <2>7. CASE RecordSucceeded(w)
    BY <2>7 DEF RecordSucceeded, RecordTransition
  <2>8. CASE NotifierRaises(w)
    BY <2>8 DEF NotifierRaises, EndIteration
  <2>9. CASE FlipMatch(w)
    BY <2>9 DEF FlipMatch, EndIteration
  <2>10. CASE MarkAttempt(w)
    BY <2>10 DEF MarkAttempt
  <2>11. CASE Requeue(w)
    BY <2>11 DEF Requeue, Retries
  <2>12. CASE DeadLetter(w)
    BY <2>12 DEF DeadLetter, Retries
  <2>13. CASE RecordFailed(w)
    BY <2>13 DEF RecordFailed, RecordTransition, EndIteration
    <2>. QED  BY <1>3, <2>1, <2>2, <2>3, <2>4, <2>5, <2>6, <2>7, <2>8, <2>9, <2>10,
      <2>11, <2>12, <2>13 DEF WorkerStep
<1>4. ASSUME NEW m \in Matches, BackoffElapses(m) PROVE Worked'
  BY <1>4 DEF BackoffElapses
<1>5. ASSUME NEW w \in Workers, CrashWorker(w) PROVE Worked'
  BY <1>5 DEF CrashWorker, EndIteration
<1>6. ASSUME NEW c \in Clients, CrashClient(c) PROVE Worked'
  BY <1>6 DEF CrashClient, EndRequest
<1>. QED  BY <1>1, <1>2, <1>3, <1>4, <1>5, <1>6 DEF Next, Crash

\* Only the request that inserted the row appends its opening history row.
LEMMA OpeningStep == TypeOK /\ InHand /\ Worked /\ Opening /\ [Next]_vars => Opening'
<1> SUFFICES ASSUME TypeOK, InHand, Worked, Opening, [Next]_vars PROVE Opening'
  OBVIOUS
<1> USE QueueAssumption DEF TypeOK, JobStatus, Terminal, Cancellable, HistoryRow,
    Result, WorkerPC, ClientPC, Holding, InHand, Worked, rowVars, workerVars,
    clientVars, outside
<1>1. CASE UNCHANGED vars
  BY <1>1 DEF vars, Opening, OneOpeningRow
<1>2. ASSUME NEW c \in Clients, ClientStep(c) \/ Request(c) PROVE Opening'
  <2>1. CASE \E m \in Matches : LookupForEnqueue(c, m)
    <3>2. UNCHANGED history
      BY <2>1 DEF LookupForEnqueue
    <3>3. \A n \in Matches : status'[n] = "absent" => status[n] = "absent"
      BY <2>1 DEF LookupForEnqueue
    <3>4. \A d \in Clients : cpc'[d] = "inserted" =>
            cpc[d] = "inserted" /\ cjob'[d] = cjob[d]
      BY <2>1 DEF LookupForEnqueue
    <3>. QED  BY <3>2, <3>3, <3>4, KeepOpening
  <2>2. CASE \E m \in Matches : CheckCancellable(c, m)
    <3>2. UNCHANGED history
      BY <2>2 DEF CheckCancellable
    <3>3. \A n \in Matches : status'[n] = "absent" => status[n] = "absent"
      BY <2>2 DEF CheckCancellable
    <3>4. \A d \in Clients : cpc'[d] = "inserted" =>
            cpc[d] = "inserted" /\ cjob'[d] = cjob[d]
      BY <2>2 DEF CheckCancellable
    <3>. QED  BY <3>2, <3>3, <3>4, KeepOpening
  <2>3. CASE InsertJob(c)
    <3>. DEFINE m == cjob[c]
    <3>1. /\ m \in Matches /\ status[m] = "absent"
          /\ \A n \in Matches : status'[n] = "absent" => status[n] = "absent"
          /\ \A d \in Clients : d # c => cpc'[d] = cpc[d]
          /\ UNCHANGED <<history, cjob>>
      BY <2>3 DEF InsertJob
    <3>2. history[m] = <<>>
      BY <3>1 DEF Opening
    <3>3. \A d \in Clients : cpc'[d] = "inserted" =>
            \A i \in DOMAIN history'[cjob'[d]] : history'[cjob'[d]][i].from # "none"
      <4>. TAKE d \in Clients
      <4>. HAVE cpc'[d] = "inserted"
      <4>1. CASE d = c
        BY <3>1, <3>2, <4>1
      <4>2. CASE d # c
        BY <3>1, <4>2 DEF Opening
      <4>. QED  BY <4>1, <4>2
    <3>. QED  BY <3>1, <3>3 DEF Opening, OneOpeningRow
  <2>4. CASE RejectInsert(c)
    <3>2. UNCHANGED history
      BY <2>4 DEF RejectInsert
    <3>3. \A n \in Matches : status'[n] = "absent" => status[n] = "absent"
      BY <2>4 DEF RejectInsert, EndRequest
    <3>4. \A d \in Clients : cpc'[d] = "inserted" =>
            cpc[d] = "inserted" /\ cjob'[d] = cjob[d]
      BY <2>4 DEF RejectInsert, EndRequest
    <3>. QED  BY <3>2, <3>3, <3>4, KeepOpening
  <2>5. CASE RecordEnqueue(c)
    <3>1. /\ cjob[c] \in Matches /\ cpc[c] = "inserted"
          /\ RecordTransition(cjob[c], "none", "queued")
          /\ status[cjob[c]] # "absent"
          /\ \A d \in Clients \ {c} : cpc[d] = "inserted" => cjob[d] # cjob[c]
      BY <2>5 DEF RecordEnqueue
    <3>2. /\ UNCHANGED status
          /\ \A d \in Clients : cpc'[d] # "idle" =>
               d # c /\ cpc'[d] = cpc[d] /\ cjob'[d] = cjob[d]
      BY <2>5 DEF RecordEnqueue, EndRequest
    <3>. DEFINE m == cjob[c]
    <3>3. \A n \in Matches \ {m} : history'[n] = history[n]
      BY <3>1 DEF RecordTransition
    <3>4. /\ history[m] \in Seq(HistoryRow)
          /\ history'[m] = Append(history[m], [from |-> "none", to |-> "queued"])
          /\ [from |-> "none", to |-> "queued"] \in HistoryRow
      BY <3>1 DEF RecordTransition
    <3>5. \A i, j \in DOMAIN history'[m] :
            history'[m][i].from = "none" /\ history'[m][j].from = "none" => i = j
      <4>1. \A i \in DOMAIN history[m] : history[m][i].from # "none"
        BY <3>1 DEF Opening
      <4>2. \A i \in DOMAIN history'[m] :
              history'[m][i].from = "none" => i = Len(history[m]) + 1
        BY <3>4, <4>1, OneAppended
      <4>. QED  BY <4>2
    <3>6. OneOpeningRow'
      BY <3>3, <3>5, ZenonT(30) DEF Opening, OneOpeningRow
    <3>7. \A n \in Matches : status'[n] = "absent" => history'[n] = <<>>
      BY <3>1, <3>2, <3>3 DEF Opening
    <3>8. \A d \in Clients : cpc'[d] = "inserted" =>
            \A i \in DOMAIN history'[cjob'[d]] : history'[cjob'[d]][i].from # "none"
      <4>. TAKE d \in Clients
      <4>. HAVE cpc'[d] = "inserted"
      <4>1. d # c /\ cpc[d] = "inserted" /\ cjob'[d] = cjob[d] /\ cjob[d] \in Matches \ {m}
        BY <3>1, <3>2
      <4>2. history'[cjob'[d]] = history[cjob[d]]
        BY <3>3, <4>1
      <4>. QED  BY <4>1, <4>2 DEF Opening
    <3>. QED  BY <3>6, <3>7, <3>8 DEF Opening
  <2>6. CASE WriteCancelled(c)
    <3>2. UNCHANGED history
      BY <2>6 DEF WriteCancelled
    <3>3. \A n \in Matches : status'[n] = "absent" => status[n] = "absent"
      BY <2>6 DEF WriteCancelled
    <3>4. \A d \in Clients : cpc'[d] = "inserted" =>
            cpc[d] = "inserted" /\ cjob'[d] = cjob[d]
      BY <2>6 DEF WriteCancelled
    <3>. QED  BY <3>2, <3>3, <3>4, KeepOpening
  <2>7. CASE RecordCancel(c)
    <3>1. /\ cjob[c] \in Matches /\ cfrom[c] \in JobStatus /\ "cancelled" \in JobStatus
          /\ RecordTransition(cjob[c], cfrom[c], "cancelled")
          /\ status[cjob[c]] # "absent"
      BY <2>7 DEF RecordCancel
    <3>2. /\ \A n \in Matches \ {cjob[c]} : history'[n] = history[n]
          /\ \A n \in Matches : \A i \in DOMAIN history'[n] :
               history'[n][i].from = "none" =>
                 i \in DOMAIN history[n] /\ history[n][i].from = "none"
      BY <3>1, RecordKeepsOpening
    <3>3. \A n \in Matches : status'[n] = "absent" => status[n] = "absent"
      BY <2>7 DEF RecordCancel, EndRequest
    <3>4. \A d \in Clients : cpc'[d] = "inserted" =>
            cpc[d] = "inserted" /\ cjob'[d] = cjob[d]
      BY <2>7 DEF RecordCancel, EndRequest
    <3>. QED  BY <3>1, <3>2, <3>3, <3>4, KeepOpening
  <2>. QED  BY <1>2, <2>1, <2>2, <2>3, <2>4, <2>5, <2>6, <2>7 DEF ClientStep, Request
<1>3. ASSUME NEW w \in Workers, WorkerStep(w) PROVE Opening'
  <2>1. CASE ClaimNext(w)
    <3>1. PICK i \in DOMAIN created : Claim(w, created[i])
      BY <2>1 DEF ClaimNext
    <3>. DEFINE m == created[i]
    <3>2. m \in Matches
      BY <3>1
    <3>. HIDE DEF m
    <3>3. Claim(w, m)
      BY <3>1 DEF m
    <3>4. status[m] = "queued"
      BY <3>3 DEF Claim, Claimable
    <3>5. /\ \A n \in Matches : status'[n] = "absent" => status[n] = "absent"
          /\ UNCHANGED <<history, cpc, cjob>>
      BY <3>2, <3>3, <3>4 DEF Claim
    <3>. QED  BY <3>5, KeepOpening
  <2>2. CASE RecordClaim(w)
    <3>1. /\ wjob[w] \in Matches /\ "queued" \in JobStatus /\ "running" \in JobStatus
          /\ RecordTransition(wjob[w], "queued", "running")
          /\ status[wjob[w]] # "absent"
      BY <2>2 DEF RecordClaim
    <3>2. /\ \A n \in Matches \ {wjob[w]} : history'[n] = history[n]
          /\ \A n \in Matches : \A i \in DOMAIN history'[n] :
               history'[n][i].from = "none" =>
                 i \in DOMAIN history[n] /\ history[n][i].from = "none"
      BY <3>1, RecordKeepsOpening
    <3>3. \A n \in Matches : status'[n] = "absent" => status[n] = "absent"
      BY <2>2 DEF RecordClaim
    <3>4. \A d \in Clients : cpc'[d] = "inserted" =>
            cpc[d] = "inserted" /\ cjob'[d] = cjob[d]
      BY <2>2 DEF RecordClaim
    <3>. QED  BY <3>1, <3>2, <3>3, <3>4, KeepOpening
  <2>3. CASE NoRoute(w)
    <3>2. UNCHANGED history
      BY <2>3 DEF NoRoute
    <3>3. \A n \in Matches : status'[n] = "absent" => status[n] = "absent"
      BY <2>3 DEF NoRoute
    <3>4. \A d \in Clients : cpc'[d] = "inserted" =>
            cpc[d] = "inserted" /\ cjob'[d] = cjob[d]
      BY <2>3 DEF NoRoute
    <3>. QED  BY <3>2, <3>3, <3>4, KeepOpening
  <2>4. CASE Submit(w)
    <3>2. UNCHANGED history
      BY <2>4 DEF Submit
    <3>3. \A n \in Matches : status'[n] = "absent" => status[n] = "absent"
      BY <2>4 DEF Submit
    <3>4. \A d \in Clients : cpc'[d] = "inserted" =>
            cpc[d] = "inserted" /\ cjob'[d] = cjob[d]
      BY <2>4 DEF Submit
    <3>. QED  BY <3>2, <3>3, <3>4, KeepOpening
  <2>5. CASE \E r \in Result : Answer(w, r)
    <3>2. UNCHANGED history
      BY <2>5 DEF Answer
    <3>3. \A n \in Matches : status'[n] = "absent" => status[n] = "absent"
      BY <2>5 DEF Answer
    <3>4. \A d \in Clients : cpc'[d] = "inserted" =>
            cpc[d] = "inserted" /\ cjob'[d] = cjob[d]
      BY <2>5 DEF Answer
    <3>. QED  BY <3>2, <3>3, <3>4, KeepOpening
  <2>6. CASE WriteSucceeded(w)
    <3>2. UNCHANGED history
      BY <2>6 DEF WriteSucceeded
    <3>3. \A n \in Matches : status'[n] = "absent" => status[n] = "absent"
      BY <2>6 DEF WriteSucceeded
    <3>4. \A d \in Clients : cpc'[d] = "inserted" =>
            cpc[d] = "inserted" /\ cjob'[d] = cjob[d]
      BY <2>6 DEF WriteSucceeded
    <3>. QED  BY <3>2, <3>3, <3>4, KeepOpening
  <2>7. CASE RecordSucceeded(w)
    <3>1. /\ wjob[w] \in Matches /\ wfrom[w] \in JobStatus /\ "succeeded" \in JobStatus
          /\ RecordTransition(wjob[w], wfrom[w], "succeeded")
          /\ status[wjob[w]] # "absent"
      BY <2>7 DEF RecordSucceeded
    <3>2. /\ \A n \in Matches \ {wjob[w]} : history'[n] = history[n]
          /\ \A n \in Matches : \A i \in DOMAIN history'[n] :
               history'[n][i].from = "none" =>
                 i \in DOMAIN history[n] /\ history[n][i].from = "none"
      BY <3>1, RecordKeepsOpening
    <3>3. \A n \in Matches : status'[n] = "absent" => status[n] = "absent"
      BY <2>7 DEF RecordSucceeded
    <3>4. \A d \in Clients : cpc'[d] = "inserted" =>
            cpc[d] = "inserted" /\ cjob'[d] = cjob[d]
      BY <2>7 DEF RecordSucceeded
    <3>. QED  BY <3>1, <3>2, <3>3, <3>4, KeepOpening
  <2>8. CASE NotifierRaises(w)
    <3>2. UNCHANGED history
      BY <2>8 DEF NotifierRaises
    <3>3. \A n \in Matches : status'[n] = "absent" => status[n] = "absent"
      BY <2>8 DEF NotifierRaises
    <3>4. \A d \in Clients : cpc'[d] = "inserted" =>
            cpc[d] = "inserted" /\ cjob'[d] = cjob[d]
      BY <2>8 DEF NotifierRaises
    <3>. QED  BY <3>2, <3>3, <3>4, KeepOpening
  <2>9. CASE FlipMatch(w)
    <3>2. UNCHANGED history
      BY <2>9 DEF FlipMatch
    <3>3. \A n \in Matches : status'[n] = "absent" => status[n] = "absent"
      BY <2>9 DEF FlipMatch
    <3>4. \A d \in Clients : cpc'[d] = "inserted" =>
            cpc[d] = "inserted" /\ cjob'[d] = cjob[d]
      BY <2>9 DEF FlipMatch
    <3>. QED  BY <3>2, <3>3, <3>4, KeepOpening
  <2>10. CASE MarkAttempt(w)
    <3>2. UNCHANGED history
      BY <2>10 DEF MarkAttempt
    <3>3. \A n \in Matches : status'[n] = "absent" => status[n] = "absent"
      BY <2>10 DEF MarkAttempt
    <3>4. \A d \in Clients : cpc'[d] = "inserted" =>
            cpc[d] = "inserted" /\ cjob'[d] = cjob[d]
      BY <2>10 DEF MarkAttempt
    <3>. QED  BY <3>2, <3>3, <3>4, KeepOpening
  <2>11. CASE Requeue(w)
    <3>2. UNCHANGED history
      BY <2>11 DEF Requeue
    <3>3. \A n \in Matches : status'[n] = "absent" => status[n] = "absent"
      BY <2>11 DEF Requeue
    <3>4. \A d \in Clients : cpc'[d] = "inserted" =>
            cpc[d] = "inserted" /\ cjob'[d] = cjob[d]
      BY <2>11 DEF Requeue
    <3>. QED  BY <3>2, <3>3, <3>4, KeepOpening
  <2>12. CASE DeadLetter(w)
    <3>2. UNCHANGED history
      BY <2>12 DEF DeadLetter
    <3>3. \A n \in Matches : status'[n] = "absent" => status[n] = "absent"
      BY <2>12 DEF DeadLetter
    <3>4. \A d \in Clients : cpc'[d] = "inserted" =>
            cpc[d] = "inserted" /\ cjob'[d] = cjob[d]
      BY <2>12 DEF DeadLetter
    <3>. QED  BY <3>2, <3>3, <3>4, KeepOpening
  <2>13. CASE RecordFailed(w)
    <3>. DEFINE to == IF wpc[w] = "requeued" THEN "queued" ELSE "dead_letter"
    <3>1. /\ wjob[w] \in Matches /\ wfrom[w] \in JobStatus /\ to \in JobStatus
          /\ RecordTransition(wjob[w], wfrom[w], to)
          /\ status[wjob[w]] # "absent"
      BY <2>13 DEF RecordFailed
    <3>2. /\ \A n \in Matches \ {wjob[w]} : history'[n] = history[n]
          /\ \A n \in Matches : \A i \in DOMAIN history'[n] :
               history'[n][i].from = "none" =>
                 i \in DOMAIN history[n] /\ history[n][i].from = "none"
      BY <3>1, RecordKeepsOpening
    <3>3. \A n \in Matches : status'[n] = "absent" => status[n] = "absent"
      BY <2>13 DEF RecordFailed
    <3>4. \A d \in Clients : cpc'[d] = "inserted" =>
            cpc[d] = "inserted" /\ cjob'[d] = cjob[d]
      BY <2>13 DEF RecordFailed
    <3>. QED  BY <3>1, <3>2, <3>3, <3>4, KeepOpening
    <2>. QED  BY <1>3, <2>1, <2>2, <2>3, <2>4, <2>5, <2>6, <2>7, <2>8, <2>9, <2>10,
      <2>11, <2>12, <2>13 DEF WorkerStep
<1>4. ASSUME NEW m \in Matches, BackoffElapses(m) PROVE Opening'
  BY <1>4 DEF BackoffElapses, Opening, OneOpeningRow
<1>5. ASSUME NEW w \in Workers, CrashWorker(w) PROVE Opening'
  <2>1. UNCHANGED <<history, status>>
    BY <1>5 DEF CrashWorker, EndIteration
  <2>2. \A d \in Clients : cpc'[d] = "inserted" =>
          cpc[d] = "inserted" /\ cjob'[d] = cjob[d]
    BY <1>5 DEF CrashWorker, EndIteration
  <2>. QED  BY <2>1, <2>2, KeepOpening
<1>6. ASSUME NEW c \in Clients, CrashClient(c) PROVE Opening'
  <2>1. UNCHANGED <<history, status>>
    BY <1>6 DEF CrashClient, EndRequest
  <2>2. \A d \in Clients : cpc'[d] = "inserted" =>
          cpc[d] = "inserted" /\ cjob'[d] = cjob[d]
    BY <1>6 DEF CrashClient, EndRequest
  <2>. QED  BY <2>1, <2>2, KeepOpening
<1>. QED  BY <1>1, <1>2, <1>3, <1>4, <1>5, <1>6 DEF Next, Crash

-----------------------------------------------------------------------------

\* The conjuncts of IInv, each inductive relative to the ones before it.
LEMMA IInvStep == IInv /\ [Next]_vars => IInv'
BY TypeStep, InHandStep, HeldJobsStep, RecordedStep, BudgetStep, ShownStep, WorkedStep,
   OpeningStep DEF IInv

\* IInv holds in every reachable state.
LEMMA Invariance == Spec => []IInv
BY InitIInv, IInvStep, PTL DEF Spec

\* Every column and every local of a worker or a request keeps its range.
THEOREM TypeCorrect == Spec => []TypeOK
<1>1. IInv => TypeOK
  BY DEF IInv
<1>. QED  BY <1>1, Invariance, PTL

\* The adapter is called for a job at most (PolicyAttempts + 1) \div 2 times and at
\* most (MaxAttempts + 2) \div 2 times, for any number of workers, requests and
\* crashes: no interleaving submits more than the limits pay for.
THEOREM SubmissionsBounded == Spec => []SubmissionBudget
<1>1. IInv => SubmissionBudget
  BY DEF IInv, Budget, RowBudget, SubmissionBudget
<1>. QED  BY <1>1, Invariance, PTL

\* A match shown as applied has an application the source took, recorded on its job.
THEOREM AppliedIsTrue == Spec => []AppliedWasAccepted
<1>1. IInv => AppliedWasAccepted
  BY DEF IInv, Shown, AppliedWasAccepted
<1>. QED  BY <1>1, Invariance, PTL

\* However many enqueues race for a match, one row opens its timeline.
THEOREM TimelineOpensOnce == Spec => []OneOpeningRow
<1>1. IInv => OneOpeningRow
  BY DEF IInv, Opening
<1>. QED  BY <1>1, Invariance, PTL

-----------------------------------------------------------------------------
\* The timeline.

\* The positions between a status and its history row.
Unrecorded == {"claimed", "completed", "requeued", "parked"}

InTimeline(m, s) == \E i \in DOMAIN history[m] : history[m][i].to = s

Told(m) == InTimeline(m, status[m]) \/ AboutToRecord(m, status[m])

\* A history row is appended, and no row is lost.
LEMMA TimelineGrows ==
  ASSUME TypeOK, NEW m \in Matches, NEW r \in HistoryRow,
         history' = [history EXCEPT ![m] = Append(@, r)]
  PROVE  /\ InTimeline(m, r.to)'
         /\ \A n \in Matches : \A s : InTimeline(n, s) => InTimeline(n, s)'
<1>1. history[m] \in Seq(HistoryRow) /\ history'[m] = Append(history[m], r)
  BY DEF TypeOK
<1>2. /\ Len(history[m]) + 1 \in DOMAIN history'[m] /\ history'[m][Len(history[m]) + 1] = r
      /\ \A i \in DOMAIN history[m] : i \in DOMAIN history'[m] /\ history'[m][i] = history[m][i]
  BY <1>1
<1>3. \A n \in Matches \ {m} : history'[n] = history[n]
  BY DEF TypeOK
<1>. QED  BY <1>2, <1>3 DEF InTimeline

\* A worker that owes no row moves: what was told of a row that it leaves alone still is.
LEMMA WorkerMoves ==
  ASSUME NEW w \in Workers, wpc[w] \notin Unrecorded,
         \A v \in Workers \ {w} : wpc'[v] = wpc[v] /\ wjob'[v] = wjob[v],
         UNCHANGED <<cpc, cjob>>,
         NEW m \in Matches, status'[m] = status[m], history'[m] = history[m], Told(m)
  PROVE  Told(m)'
<1>1. CASE InTimeline(m, status[m])
  BY <1>1 DEF Told, InTimeline
<1>2. CASE AboutToRecord(m, status[m])
  <2>1. AboutToRecord(m, status[m])'
    BY <1>2 DEF AboutToRecord, Unrecorded
  <2>. QED  BY <2>1 DEF Told
<1>. QED  BY <1>1, <1>2 DEF Told

LEMMA ClientMoves ==
  ASSUME NEW c \in Clients, cpc[c] \notin {"inserted", "cancelled"},
         \A d \in Clients \ {c} : cpc'[d] = cpc[d] /\ cjob'[d] = cjob[d],
         UNCHANGED <<wpc, wjob>>,
         NEW m \in Matches, status'[m] = status[m], history'[m] = history[m], Told(m)
  PROVE  Told(m)'
<1>1. CASE InTimeline(m, status[m])
  BY <1>1 DEF Told, InTimeline
<1>2. CASE AboutToRecord(m, status[m])
  <2>1. AboutToRecord(m, status[m])'
    BY <1>2 DEF AboutToRecord
  <2>. QED  BY <2>1 DEF Told
<1>. QED  BY <1>1, <1>2 DEF Told

\* The status that a worker or a request owes a row for, when it writes that row, is
\* in the timeline; what others owe they owe still.
LEMMA WorkerRecords ==
  ASSUME TypeOK, NEW w \in Workers, wjob[w] \in Matches,
         NEW from \in JobStatus \cup {"none"}, NEW s \in JobStatus,
         RecordTransition(wjob[w], from, s),
         \A t : <<wpc[w], t>> \in {<<"claimed", "running">>, <<"completed", "succeeded">>,
                                   <<"requeued", "queued">>, <<"parked", "dead_letter">>} => t = s,
         \A v \in Workers \ {w} : wpc'[v] = wpc[v] /\ wjob'[v] = wjob[v],
         UNCHANGED <<cpc, cjob, status>>,
         NEW m \in Matches, Told(m)
  PROVE  Told(m)'
<1>. DEFINE r == [from |-> from, to |-> s]
<1>0. PICK n \in Matches : n = wjob[w]
  OBVIOUS
<1>1. r \in HistoryRow /\ r.to = s /\ history' = [history EXCEPT ![n] = Append(@, r)]
  BY <1>0 DEF HistoryRow, RecordTransition
<1>. HIDE DEF r
<1>2. InTimeline(n, s)' /\ \A t : InTimeline(m, t) => InTimeline(m, t)'
  <2>1. PICK x \in HistoryRow : x.to = s /\ history' = [history EXCEPT ![n] = Append(@, x)]
    BY <1>1
  <2>. QED  BY <2>1, TimelineGrows
<1>3. AboutToRecord(m, status[m]) =>
        AboutToRecord(m, status[m])' \/ (m = n /\ status[m] = s)
  BY <1>0 DEF AboutToRecord
<1>. QED  BY <1>2, <1>3 DEF Told, InTimeline

LEMMA ClientRecords ==
  ASSUME TypeOK, NEW c \in Clients, cjob[c] \in Matches,
         NEW from \in JobStatus \cup {"none"}, NEW s \in JobStatus,
         RecordTransition(cjob[c], from, s),
         \A t : <<cpc[c], t>> \in {<<"inserted", "queued">>, <<"cancelled", "cancelled">>} => t = s,
         \A d \in Clients \ {c} : cpc'[d] = cpc[d] /\ cjob'[d] = cjob[d],
         UNCHANGED <<wpc, wjob, status>>,
         NEW m \in Matches, Told(m)
  PROVE  Told(m)'
<1>. DEFINE r == [from |-> from, to |-> s]
<1>0. PICK n \in Matches : n = cjob[c]
  OBVIOUS
<1>1. r \in HistoryRow /\ r.to = s /\ history' = [history EXCEPT ![n] = Append(@, r)]
  BY <1>0 DEF HistoryRow, RecordTransition
<1>. HIDE DEF r
<1>2. InTimeline(n, s)' /\ \A t : InTimeline(m, t) => InTimeline(m, t)'
  <2>1. PICK x \in HistoryRow : x.to = s /\ history' = [history EXCEPT ![n] = Append(@, x)]
    BY <1>1
  <2>. QED  BY <2>1, TimelineGrows
<1>3. AboutToRecord(m, status[m]) =>
        AboutToRecord(m, status[m])' \/ (m = n /\ status[m] = s)
  BY <1>0 DEF AboutToRecord
<1>. QED  BY <1>2, <1>3 DEF Told, InTimeline

\* A request step: only InsertJob and WriteCancelled set a status, and owe its row.
LEMMA RequestTells ==
  ASSUME TypeOK, InHand, NEW c \in Clients, ClientStep(c) \/ Request(c),
         NEW m \in Matches, status'[m] # "absent", status[m] # "absent" => Told(m)
  PROVE  Told(m)'
<1>. USE DEF TypeOK, rowVars, workerVars, clientVars, outside
<1>1. CASE \E n \in Matches : LookupForEnqueue(c, n) \/ CheckCancellable(c, n)
  <2>1. /\ UNCHANGED <<status, history, wpc, wjob>> /\ cpc[c] = "idle"
        /\ \A d \in Clients \ {c} : cpc'[d] = cpc[d] /\ cjob'[d] = cjob[d]
    BY <1>1 DEF LookupForEnqueue, CheckCancellable
  <2>. QED  BY <2>1, ClientMoves
<1>2. CASE InsertJob(c) \/ WriteCancelled(c)
  <2>1. /\ UNCHANGED <<history, wpc, wjob, cjob>> /\ cpc[c] \in {"inserting", "cancelling"}
        /\ \A d \in Clients \ {c} : cpc'[d] = cpc[d]
        /\ \A n \in Matches \ {cjob[c]} : status'[n] = status[n]
    BY <1>2 DEF InsertJob, WriteCancelled
  <2>2. CASE m = cjob[c]
    <3>1. \/ cpc'[c] = "inserted" /\ status'[m] = "queued"
          \/ cpc'[c] = "cancelled" /\ status'[m] = "cancelled"
      BY <1>2, <2>2 DEF InsertJob, WriteCancelled
    <3>2. AboutToRecord(m, status[m])'
      BY <2>1, <2>2, <3>1 DEF AboutToRecord
    <3>. QED  BY <3>2 DEF Told
  <2>3. CASE m # cjob[c]
    BY <2>1, <2>3, ClientMoves
  <2>. QED  BY <2>2, <2>3
<1>3. CASE RejectInsert(c)
  <2>1. /\ UNCHANGED <<status, history, wpc, wjob>> /\ cpc[c] = "inserting"
        /\ \A d \in Clients \ {c} : cpc'[d] = cpc[d] /\ cjob'[d] = cjob[d]
    BY <1>3 DEF RejectInsert, EndRequest
  <2>. QED  BY <2>1, ClientMoves
<1>4. CASE RecordEnqueue(c)
  <2>1. /\ UNCHANGED <<status, wpc, wjob>> /\ cpc[c] = "inserted" /\ cjob[c] \in Matches
        /\ \A d \in Clients \ {c} : cpc'[d] = cpc[d] /\ cjob'[d] = cjob[d]
        /\ RecordTransition(cjob[c], "none", "queued")
    BY <1>4 DEF RecordEnqueue, EndRequest, InHand
  <2>. QED  BY <2>1, ClientRecords DEF JobStatus
<1>5. CASE RecordCancel(c)
  <2>1. /\ UNCHANGED <<status, wpc, wjob>> /\ cpc[c] = "cancelled" /\ cjob[c] \in Matches
        /\ \A d \in Clients \ {c} : cpc'[d] = cpc[d] /\ cjob'[d] = cjob[d]
        /\ RecordTransition(cjob[c], cfrom[c], "cancelled") /\ cfrom[c] \in JobStatus
    BY <1>5 DEF RecordCancel, EndRequest, InHand
  <2>2. "cancelled" \in JobStatus
    BY DEF JobStatus, Terminal
  <2>. QED  BY <2>1, <2>2, ClientRecords
<1>. QED  BY <1>1, <1>2, <1>3, <1>4, <1>5 DEF ClientStep, Request

\* A worker step without a fault: four writes of a status, each with its row to come.
LEMMA WorkerTells ==
  ASSUME TypeOK, InHand, NEW w \in Workers, WorkerStep(w), faults' = faults,
         NEW m \in Matches, status'[m] # "absent", status[m] # "absent" => Told(m)
  PROVE  Told(m)'
<1>. USE DEF TypeOK, rowVars, workerVars, clientVars, outside
<1>1. CASE ClaimNext(w)
  <2>1. PICK i \in DOMAIN created : Claim(w, created[i])
    BY <1>1 DEF ClaimNext
  <2>. DEFINE n == created[i]
  <2>2. n \in Matches
    BY <2>1
  <2>. HIDE DEF n
  <2>3. /\ UNCHANGED <<history, cpc, cjob>> /\ wpc[w] = "idle" /\ status[n] = "queued"
        /\ wpc' = [wpc EXCEPT ![w] = "claimed"] /\ wjob' = [wjob EXCEPT ![w] = n]
        /\ status' = [status EXCEPT ![n] = "running"]
    BY <2>1 DEF n, Claim, Claimable
  <2>4. CASE m = n
    <3>1. status'[m] = "running" /\ wpc'[w] = "claimed" /\ wjob'[w] = m
      BY <2>2, <2>3, <2>4
    <3>2. AboutToRecord(m, status[m])'
      BY <3>1 DEF AboutToRecord
    <3>. QED  BY <3>2 DEF Told
  <2>5. CASE m # n
    <3>1. /\ status'[m] = status[m] /\ wpc[w] \notin Unrecorded
          /\ \A v \in Workers \ {w} : wpc'[v] = wpc[v] /\ wjob'[v] = wjob[v]
      BY <2>3, <2>5 DEF Unrecorded
    <3>. QED  BY <2>3, <3>1, WorkerMoves
  <2>. QED  BY <2>4, <2>5
<1>2. CASE RecordClaim(w)
  <2>1. /\ UNCHANGED <<status, cpc, cjob>> /\ wpc[w] = "claimed" /\ wjob[w] \in Matches
        /\ \A v \in Workers \ {w} : wpc'[v] = wpc[v] /\ wjob'[v] = wjob[v]
        /\ RecordTransition(wjob[w], "queued", "running")
    BY <1>2 DEF RecordClaim, InHand
  <2>. QED  BY <2>1, WorkerRecords DEF JobStatus
<1>3. ASSUME NEW r \in Result, Conclude(w, r), wpc[w] \in {"ready", "submitting"},
             UNCHANGED <<status, history, cpc, cjob>>
      PROVE  Told(m)'
  <2>1. \A v \in Workers \ {w} : wpc'[v] = wpc[v] /\ wjob'[v] = wjob[v]
    BY <1>3 DEF Conclude, EndIteration
  <2>. QED  BY <1>3, <2>1, WorkerMoves DEF Unrecorded
<1>4. CASE NoRoute(w)
  BY <1>3, <1>4 DEF NoRoute, Result
<1>5. CASE \E r \in Result : Answer(w, r)
  BY <1>3, <1>5 DEF Answer
<1>6. CASE Submit(w) \/ FlipMatch(w) \/ MarkAttempt(w)
  <2>1. /\ UNCHANGED <<status, history, cpc, cjob>> /\ wpc[w] \in {"ready", "flipping", "failing"}
        /\ \A v \in Workers \ {w} : wpc'[v] = wpc[v] /\ wjob'[v] = wjob[v]
    BY <1>6 DEF Submit, FlipMatch, MarkAttempt, EndIteration
  <2>. QED  BY <2>1, WorkerMoves DEF Unrecorded
<1>7. CASE WriteSucceeded(w) \/ Requeue(w) \/ DeadLetter(w)
  <2>1. /\ UNCHANGED <<history, cpc, cjob, wjob>> /\ wpc[w] \in {"completing", "marked"}
        /\ \A v \in Workers \ {w} : wpc'[v] = wpc[v]
        /\ \A n \in Matches \ {wjob[w]} : status'[n] = status[n]
    BY <1>7 DEF WriteSucceeded, Requeue, DeadLetter
  <2>2. CASE m = wjob[w]
    <3>1. <<wpc'[w], status'[m]>> \in {<<"completed", "succeeded">>, <<"requeued", "queued">>,
                                       <<"parked", "dead_letter">>}
      BY <1>7, <2>2 DEF WriteSucceeded, Requeue, DeadLetter
    <3>2. AboutToRecord(m, status[m])'
      BY <2>1, <2>2, <3>1 DEF AboutToRecord
    <3>. QED  BY <3>2 DEF Told
  <2>3. CASE m # wjob[w]
    BY <2>1, <2>3, WorkerMoves DEF Unrecorded
  <2>. QED  BY <2>2, <2>3
<1>8. CASE RecordSucceeded(w)
  <2>1. /\ UNCHANGED <<status, cpc, cjob>> /\ wpc[w] = "completed" /\ wjob[w] \in Matches
        /\ \A v \in Workers \ {w} : wpc'[v] = wpc[v] /\ wjob'[v] = wjob[v]
        /\ RecordTransition(wjob[w], wfrom[w], "succeeded") /\ wfrom[w] \in JobStatus
    BY <1>8 DEF RecordSucceeded, InHand
  <2>2. "succeeded" \in JobStatus
    BY DEF JobStatus, Terminal
  <2>. QED  BY <2>1, <2>2, WorkerRecords
<1>9. CASE RecordFailed(w)
  <2>. DEFINE s == IF wpc[w] = "requeued" THEN "queued" ELSE "dead_letter"
  <2>1. /\ UNCHANGED <<status, cpc, cjob>> /\ wpc[w] \in {"requeued", "parked"} /\ wjob[w] \in Matches
        /\ \A v \in Workers \ {w} : wpc'[v] = wpc[v] /\ wjob'[v] = wjob[v]
        /\ RecordTransition(wjob[w], wfrom[w], s) /\ wfrom[w] \in JobStatus
    BY <1>9 DEF RecordFailed, InHand, EndIteration
  <2>2. s \in JobStatus
    BY DEF JobStatus, Terminal
  <2>3. \A t : <<wpc[w], t>> \in {<<"claimed", "running">>, <<"completed", "succeeded">>,
                                  <<"requeued", "queued">>, <<"parked", "dead_letter">>} => t = s
    BY <2>1
  <2>. HIDE DEF s
  <2>. QED  BY <2>1, <2>2, <2>3, WorkerRecords
<1>10. CASE NotifierRaises(w)
  BY <1>10 DEF NotifierRaises
<1>. QED  BY <1>1, <1>2, <1>4, <1>5, <1>6, <1>7, <1>8, <1>9, <1>10 DEF WorkerStep

\* Without a fault, every status that is written is told.
LEMMA TimelineStep == TypeOK /\ InHand /\ StatusInTimeline /\ [Next]_vars => StatusInTimeline'
<1>. SUFFICES ASSUME TypeOK, InHand, StatusInTimeline, [Next]_vars, faults' = 0,
                     NEW m \in Matches, status'[m] # "absent"
              PROVE  Told(m)'
  BY DEF StatusInTimeline, Told, InTimeline
<1>1. faults \in Nat /\ faults + 1 # 0
  BY DEF TypeOK
<1>2. ASSUME faults = 0 PROVE status[m] # "absent" => Told(m)
  BY <1>2 DEF StatusInTimeline, Told, InTimeline
<1>3. CASE UNCHANGED vars
  <2>1. UNCHANGED <<status, history, wpc, wjob, cpc, cjob, faults>>
    BY <1>3 DEF vars, rowVars, workerVars, clientVars
  <2>2. AboutToRecord(m, status[m]) <=> AboutToRecord(m, status[m])'
    BY <2>1 DEF AboutToRecord
  <2>. QED  BY <1>2, <2>1, <2>2 DEF Told, InTimeline
<1>4. ASSUME NEW w \in Workers, WorkerStep(w) PROVE Told(m)'
  <2>1. faults' = faults \/ faults' = faults + 1
    BY <1>4 DEF WorkerStep, ClaimNext, Claim, RecordClaim, NoRoute, Submit, Answer,
      WriteSucceeded, RecordSucceeded, NotifierRaises, FlipMatch, MarkAttempt, Requeue,
      DeadLetter, RecordFailed
  <2>. QED  BY <1>1, <1>2, <1>4, <2>1, WorkerTells
<1>5. ASSUME NEW c \in Clients, ClientStep(c) \/ Request(c) PROVE Told(m)'
  <2>1. faults' = faults
    BY <1>5 DEF ClientStep, Request, LookupForEnqueue, CheckCancellable, InsertJob,
      RejectInsert, RecordEnqueue, WriteCancelled, RecordCancel
  <2>. QED  BY <1>2, <1>5, <2>1, RequestTells
<1>6. ASSUME NEW n \in Matches, BackoffElapses(n) PROVE Told(m)'
  <2>1. UNCHANGED <<status, history, wpc, wjob, cpc, cjob, faults>>
    BY <1>6 DEF BackoffElapses, workerVars, clientVars
  <2>2. AboutToRecord(m, status[m]) <=> AboutToRecord(m, status[m])'
    BY <2>1 DEF AboutToRecord
  <2>. QED  BY <1>2, <2>1, <2>2 DEF Told, InTimeline
<1>7. CASE Crash
  BY <1>1, <1>7 DEF Crash, CrashWorker, CrashClient
<1>. QED  BY <1>3, <1>4, <1>5, <1>6, <1>7 DEF Next

\* Unless a process dies, the status that a row shows is in its timeline or on its way
\* there, for any number of workers and requests and whichever of their writes came last.
THEOREM TimelineTellsStatus == Spec => []StatusInTimeline
<1>1. Init => StatusInTimeline
  BY DEF Init, StatusInTimeline
<1>2. IInv => TypeOK /\ InHand
  BY DEF IInv
<1>. QED  BY <1>1, <1>2, TimelineStep, Invariance, PTL DEF Spec

-----------------------------------------------------------------------------
\* The refinement of ApplyLease.

\* A step in which nobody takes up or lets go of a job.
LEMMA NobodyMoves ==
  ASSUME \A v \in Workers : wpc'[v] \in Holding <=> wpc[v] \in Holding,
         \A v \in Workers : wpc[v] \in Holding => wjob'[v] = wjob[v]
  PROVE  Holders' = Holders
BY DEF Holders

\* The holder of a job is its only one, so letting go leaves none.
LEMMA LetsGo ==
  ASSUME HeldJobs, NEW w \in Workers, wpc[w] \in Holding, wjob[w] \in Matches,
         wpc'[w] \notin Holding,
         \A v \in Workers \ {w} : wpc'[v] = wpc[v] /\ wjob'[v] = wjob[v]
  PROVE  w \in Holders[wjob[w]] /\ Holders' = [Holders EXCEPT ![wjob[w]] = {}]
<1>. DEFINE m == wjob[w]
<1>1. w \in Holders[m]
  BY DEF Holders
<1>2. \A v \in Workers : wpc[v] \in Holding /\ wjob[v] = m => v = w
  BY DEF HeldJobs
<1>3. ASSUME NEW n \in Matches
      PROVE  Holders'[n] = IF n = m THEN {} ELSE Holders[n]
  <2>1. \A v \in Workers : (wpc'[v] \in Holding /\ wjob'[v] = n)
                             <=> (n # m /\ wpc[v] \in Holding /\ wjob[v] = n)
    BY <1>2
  <2>. QED  BY <2>1 DEF Holders
<1>4. /\ Holders = [n \in Matches |-> Holders[n]]
      /\ Holders' = [n \in Matches |-> Holders'[n]]
  BY DEF Holders
<1>. QED  BY <1>1, <1>3, <1>4

\* A worker without a job takes up one that nobody holds.
LEMMA TakesUp ==
  ASSUME NEW w \in Workers, NEW m \in Matches, wpc[w] \notin Holding,
         \A v \in Workers : wpc[v] \in Holding => wjob[v] # m,
         wpc'[w] \in Holding, wjob'[w] = m,
         \A v \in Workers \ {w} : wpc'[v] = wpc[v] /\ wjob'[v] = wjob[v]
  PROVE  Holders[m] = {} /\ Holders' = [Holders EXCEPT ![m] = {w}]
<1>1. Holders[m] = {}
  BY DEF Holders
<1>2. ASSUME NEW n \in Matches
      PROVE  Holders'[n] = IF n = m THEN {w} ELSE Holders[n]
  <2>1. \A v \in Workers : (wpc'[v] \in Holding /\ wjob'[v] = n)
                             <=> IF n = m THEN v = w ELSE wpc[v] \in Holding /\ wjob[v] = n
    OBVIOUS
  <2>. QED  BY <2>1 DEF Holders
<1>3. /\ Holders = [n \in Matches |-> Holders[n]]
      /\ Holders' = [n \in Matches |-> Holders'[n]]
  BY DEF Holders
<1>. QED  BY <1>1, <1>2, <1>3

\* Ending an iteration lets go of the job, if the worker still held it.
LEMMA IterationEnds ==
  ASSUME IInv, NEW w \in Workers, wpc[w] # "idle", EndIteration(w), UNCHANGED external,
         accepted' = accepted \/ (wpc[w] \in Holding /\ accepted' = accepted \cup {wjob[w]})
  PROVE  [Lease!Next]_(Lease!vars)
<1>. USE DEF IInv, TypeOK, InHand, EndIteration
<1>1. /\ wjob[w] \in Matches /\ wpc'[w] \notin Holding
      /\ \A v \in Workers \ {w} : wpc'[v] = wpc[v] /\ wjob'[v] = wjob[v]
  BY DEF Holding
<1>2. UNCHANGED Done
  BY DEF Done
<1>3. CASE wpc[w] \in Holding
  <2>1. w \in Holders[wjob[w]] /\ Holders' = [Holders EXCEPT ![wjob[w]] = {}]
    BY <1>1, <1>3, LetsGo
  <2>2. Lease!Release(w, wjob[w])
    BY <1>1, <1>2, <2>1 DEF Lease!Release
  <2>. QED  BY <1>1, <2>2 DEF Lease!Next
<1>4. CASE wpc[w] \notin Holding
  <2>1. Holders' = Holders
    BY <1>1, <1>4, NobodyMoves
  <2>. QED  BY <1>2, <1>4, <2>1 DEF Lease!vars
<1>. QED  BY <1>3, <1>4

\* A worker step that keeps the job, or the want of one, is no step of the lease.
LEMMA KeepsJob ==
  ASSUME TypeOK, NEW w \in Workers,
         wpc'[w] \in Holding <=> wpc[w] \in Holding,
         \A v \in Workers \ {w} : wpc'[v] = wpc[v],
         UNCHANGED <<wjob, external, accepted>>
  PROVE  [Lease!Next]_(Lease!vars)
<1>1. Holders' = Holders
  BY NobodyMoves
<1>2. UNCHANGED Done
  BY DEF Done
<1>. QED  BY <1>1, <1>2 DEF Lease!vars

\* complete() and fail() refusing a terminal row let go of it, whatever the source
\* did; else the worker keeps the job and knows whether the source took it.
LEMMA ConcludeStep ==
  ASSUME IInv, NEW w \in Workers, NEW r \in Result, wpc[w] \in {"ready", "submitting"},
         Conclude(w, r), UNCHANGED external,
         accepted' \in {accepted, accepted \cup {wjob[w]}}
  PROVE  [Lease!Next]_(Lease!vars)
<1>0. TypeOK /\ wpc[w] \in Holding /\ wpc[w] # "idle" /\ wjob[w] \in Matches
  BY DEF IInv, InHand, Holding
<1>1. CASE status[wjob[w]] \in Terminal
  <2>1. EndIteration(w)
    BY <1>1 DEF Conclude
  <2>. QED  BY <1>0, <2>1, IterationEnds
<1>2. CASE status[wjob[w]] \notin Terminal
  <2>1. /\ wpc' = [wpc EXCEPT ![w] = IF r = "success" THEN "completing" ELSE "failing"]
        /\ UNCHANGED wjob
    BY <1>2 DEF Conclude
  <2>2. wpc'[w] \in Holding
    BY <1>0, <2>1 DEF TypeOK, Holding
  <2>3. \A v \in Workers \ {w} : wpc'[v] = wpc[v]
    BY <1>0, <2>1 DEF TypeOK
  <2>4. CASE accepted' = accepted
    BY <1>0, <2>1, <2>2, <2>3, <2>4, KeepsJob
  <2>5. CASE accepted' = accepted \cup {wjob[w]}
    <3>1. Holders' = Holders
      BY <1>0, <2>1, <2>2, <2>3, NobodyMoves
    <3>2. UNCHANGED Done /\ w \in Holders[wjob[w]]
      BY <1>0 DEF Done, Holders
    <3>3. Lease!Take(w, wjob[w])
      BY <1>0, <2>5, <3>1, <3>2 DEF Lease!Take
    <3>. QED  BY <1>0, <3>3 DEF Lease!Next
  <2>. QED  BY <2>4, <2>5
<1>. QED  BY <1>1, <1>2

\* Every step of the queue is a step of the lease or leaves it alone.
LEMMA LeaseStep == IInv /\ [Next]_vars => [Lease!Next]_(Lease!vars)
<1>. SUFFICES ASSUME IInv, [Next]_vars PROVE [Lease!Next]_(Lease!vars)
  OBVIOUS
<1>. USE DEF rowVars, workerVars, clientVars, outside
<1>0. TypeOK /\ InHand /\ HeldJobs /\ RecordedSuccess /\ Shown
  BY DEF IInv
<1>1. ASSUME UNCHANGED <<workerVars, external, accepted>> PROVE [Lease!Next]_(Lease!vars)
  <2>1. Holders' = Holders
    BY <1>1 DEF Holders
  <2>2. Done' = Done
    BY <1>1 DEF Done
  <2>. QED  BY <1>1, <2>1, <2>2 DEF Lease!vars
<1>2. ASSUME NEW c \in Clients, ClientStep(c) \/ Request(c) PROVE UNCHANGED <<workerVars, external, accepted>>
    BY <1>2 DEF ClientStep, Request, LookupForEnqueue, InsertJob, RejectInsert,
      RecordEnqueue,
     CheckCancellable, WriteCancelled, RecordCancel
<1>3. ASSUME NEW w \in Workers, WorkerStep(w) PROVE [Lease!Next]_(Lease!vars)
  <2>. USE <1>0
  <2>1. CASE ClaimNext(w)
    <3>1. PICK i \in DOMAIN created : Claim(w, created[i])
      BY <2>1 DEF ClaimNext
    <3>. DEFINE m == created[i]
    <3>2. m \in Matches
      BY <3>1 DEF TypeOK
    <3>. HIDE DEF m
    <3>3. Claim(w, m)
      BY <3>1 DEF m
    <3>4. /\ wpc[w] \notin Holding
          /\ \A v \in Workers : wpc[v] \in Holding => wjob[v] # m
          /\ m \notin Done
      BY <3>2, <3>3 DEF Claim, Claimable, HeldJobs, RecordedSuccess, Done, Holding
    <3>5. /\ wpc'[w] \in Holding /\ wjob'[w] = m
          /\ \A v \in Workers \ {w} : wpc'[v] = wpc[v] /\ wjob'[v] = wjob[v]
          /\ UNCHANGED <<external, accepted>>
      BY <3>2, <3>3 DEF Claim, TypeOK, Holding
    <3>6. Holders[m] = {} /\ Holders' = [Holders EXCEPT ![m] = {w}]
      BY <3>2, <3>4, <3>5, TakesUp
    <3>7. Lease!Acquire(w, m)
      BY <3>4, <3>5, <3>6 DEF Lease!Acquire, Done
    <3>. QED  BY <3>2, <3>7 DEF Lease!Next
  <2>2. CASE RecordClaim(w)
    BY <2>2, KeepsJob DEF RecordClaim, TypeOK, Holding
  <2>3. CASE NoRoute(w)
    <3>1. wpc[w] = "ready" /\ Conclude(w, "permanent") /\ UNCHANGED <<external, accepted>>
      BY <2>3 DEF NoRoute
    <3>. QED  BY <3>1, ConcludeStep DEF Result
  <2>4. CASE Submit(w)
    BY <2>4, KeepsJob DEF Submit, TypeOK, Holding
  <2>5. CASE \E r \in Result : Answer(w, r)
    <3>1. PICK r \in Result : Answer(w, r)
      BY <2>5
    <3>2. /\ wpc[w] = "submitting" /\ Conclude(w, r) /\ UNCHANGED external
          /\ accepted' \in {accepted, accepted \cup {wjob[w]}}
      BY <3>1 DEF Answer
    <3>. QED  BY <3>2, ConcludeStep
  <2>6. CASE WriteSucceeded(w)
    <3>1. /\ wpc[w] \in Holding /\ wjob[w] \in Matches /\ wpc'[w] \notin Holding
          /\ \A v \in Workers \ {w} : wpc'[v] = wpc[v] /\ wjob'[v] = wjob[v]
          /\ external' = [external EXCEPT ![wjob[w]] = TRUE]
          /\ wjob[w] \in accepted /\ UNCHANGED accepted
      BY <2>6 DEF WriteSucceeded, TypeOK, InHand, Shown, Holding
    <3>2. w \in Holders[wjob[w]] /\ Holders' = [Holders EXCEPT ![wjob[w]] = {}]
      BY <3>1, LetsGo
    <3>3. Done' = Done \cup {wjob[w]}
      BY <3>1 DEF Done, TypeOK
    <3>4. Lease!Finish(w, wjob[w])
      BY <3>1, <3>2, <3>3 DEF Lease!Finish
    <3>. QED  BY <3>1, <3>4 DEF Lease!Next
  <2>7. CASE RecordSucceeded(w)
    BY <2>7, KeepsJob DEF RecordSucceeded, TypeOK, Holding
  <2>8. CASE NotifierRaises(w)
    <3>1. wpc[w] # "idle" /\ EndIteration(w) /\ UNCHANGED <<external, accepted>>
      BY <2>8 DEF NotifierRaises
    <3>. QED  BY <3>1, IterationEnds
  <2>9. CASE FlipMatch(w)
    <3>1. wpc[w] # "idle" /\ EndIteration(w) /\ UNCHANGED <<external, accepted>>
      BY <2>9 DEF FlipMatch
    <3>. QED  BY <3>1, IterationEnds
  <2>10. CASE MarkAttempt(w)
    BY <2>10, KeepsJob DEF MarkAttempt, TypeOK, Holding
  <2>11. CASE Requeue(w) \/ DeadLetter(w)
    <3>1. /\ wpc[w] \in Holding /\ wjob[w] \in Matches /\ wpc'[w] \notin Holding
          /\ \A v \in Workers \ {w} : wpc'[v] = wpc[v] /\ wjob'[v] = wjob[v]
          /\ UNCHANGED <<external, accepted>>
      BY <2>11 DEF Requeue, DeadLetter, TypeOK, InHand, Holding
    <3>2. w \in Holders[wjob[w]] /\ Holders' = [Holders EXCEPT ![wjob[w]] = {}]
      BY <3>1, LetsGo
    <3>3. Lease!Release(w, wjob[w])
      BY <3>1, <3>2 DEF Lease!Release, Done
    <3>. QED  BY <3>1, <3>3 DEF Lease!Next
  <2>12. CASE RecordFailed(w)
    <3>1. wpc[w] # "idle" /\ EndIteration(w) /\ UNCHANGED <<external, accepted>>
      BY <2>12 DEF RecordFailed
    <3>. QED  BY <3>1, IterationEnds
  <2>. QED
    BY <1>3, <2>1, <2>2, <2>3, <2>4, <2>5, <2>6, <2>7, <2>8, <2>9, <2>10, <2>11, <2>12
       DEF WorkerStep
<1>4. ASSUME NEW m \in Matches, BackoffElapses(m) PROVE UNCHANGED <<workerVars, external, accepted>>
  BY <1>4 DEF BackoffElapses
<1>5. ASSUME NEW w \in Workers, CrashWorker(w) PROVE [Lease!Next]_(Lease!vars)
  <2>1. wpc[w] # "idle" /\ EndIteration(w) /\ UNCHANGED <<external, accepted>>
    BY <1>5 DEF CrashWorker
  <2>. QED  BY <2>1, IterationEnds
<1>6. ASSUME NEW c \in Clients, CrashClient(c) PROVE UNCHANGED <<workerVars, external, accepted>>
  BY <1>6 DEF CrashClient
<1>7. CASE UNCHANGED vars
  BY <1>1, <1>7 DEF vars
<1>. QED  BY <1>1, <1>2, <1>3, <1>4, <1>5, <1>6, <1>7 DEF Next, Crash

\* The queue implements the lease: one worker at a time has a job in hand, a success
\* is recorded only of an application the source took, and such a job is never taken
\* up again, however claims, requeues, stale cancels and crashes interleave.
THEOREM QueueImplementsLease == Spec => ImplementsLease
<1>1. Init => Lease!Init
  BY DEF Init, Lease!Init, Holders, Done, Holding
<1>. QED  BY <1>1, LeaseStep, Invariance, PTL DEF Spec, ImplementsLease, Lease!Spec

-----------------------------------------------------------------------------
\* The refinement of ApplyRow.

\* What a worker at position p does with its job, as an ApplyRow tells it.
Phase(p) ==
  IF p \in Holding THEN "submitting"
  ELSE IF p \in {"completed", "flipping"} THEN "flipping" ELSE "none"

\* From the claim to the flip, a job has one worker.
Sole ==
  \A v, w \in Workers :
    /\ Phase(wpc[v]) # "none" /\ Phase(wpc[w]) # "none"
    /\ wjob[v] = wjob[w]
    => v = w

\* Whoever works on a job with a recorded success is past the commit, so the row
\* cannot be claimed beside it.
LEMMA ClaimIsSole ==
  ASSUME IInv, NEW w \in Workers, NEW m \in Matches, Claim(w, m)
  PROVE  \A v \in Workers : Phase(wpc[v]) # "none" => wjob[v] # m
<1>. SUFFICES ASSUME NEW v \in Workers, Phase(wpc[v]) # "none", wjob[v] = m PROVE FALSE
  OBVIOUS
<1>1. status[m] = "queued"
  BY DEF Claim, Claimable
<1>2. CASE wpc[v] \in Holding
  BY <1>1, <1>2 DEF IInv, HeldJobs
<1>3. CASE wpc[v] \in {"completed", "flipping"}
  BY <1>1, <1>3 DEF IInv, Shown, RecordedSuccess
<1>. QED  BY <1>2, <1>3 DEF Phase

\* A worker that keeps its job to itself leaves the job with one worker at most.
LEMMA SoleKept ==
  ASSUME Sole, NEW w \in Workers,
         \A v \in Workers \ {w} : wpc'[v] = wpc[v] /\ wjob'[v] = wjob[v],
         Phase(wpc'[w]) # "none" => Phase(wpc[w]) # "none" /\ wjob'[w] = wjob[w]
  PROVE  Sole'
BY DEF Sole, Phase, Holding

\* How the steps of a worker other than the claim move it.
LEMMA OwnSteps ==
  ASSUME IInv, NEW w \in Workers, (WorkerStep(w) /\ ~ ClaimNext(w)) \/ CrashWorker(w)
  PROVE  /\ wjob[w] \in Matches
         /\ \A v \in Workers \ {w} : wpc'[v] = wpc[v] /\ wjob'[v] = wjob[v]
         /\ Phase(wpc'[w]) # "none" => Phase(wpc[w]) # "none" /\ wjob'[w] = wjob[w]
<1>0. TypeOK /\ InHand
  BY DEF IInv
<1>1. wpc[w] # "idle"
  BY DEF WorkerStep, CrashWorker, RecordClaim, NoRoute, Submit, Answer, WriteSucceeded,
         RecordSucceeded, NotifierRaises, FlipMatch, MarkAttempt, Requeue, DeadLetter,
         RecordFailed
<1>2. wjob[w] \in Matches
  BY <1>0, <1>1 DEF InHand
<1>3. ASSUME EndIteration(w)
      PROVE  /\ Phase(wpc'[w]) = "none"
             /\ \A v \in Workers \ {w} : wpc'[v] = wpc[v] /\ wjob'[v] = wjob[v]
  BY <1>0, <1>3 DEF EndIteration, TypeOK, Phase, Holding
<1>4. ASSUME NEW p \in WorkerPC, wpc' = [wpc EXCEPT ![w] = p], UNCHANGED wjob,
             Phase(p) # "none" => Phase(wpc[w]) # "none"
      PROVE  /\ \A v \in Workers \ {w} : wpc'[v] = wpc[v] /\ wjob'[v] = wjob[v]
             /\ Phase(wpc'[w]) # "none" => Phase(wpc[w]) # "none" /\ wjob'[w] = wjob[w]
  <2>1. wpc'[w] = p
    BY <1>0, <1>4 DEF TypeOK
  <2>. QED  BY <1>0, <1>4, <2>1 DEF TypeOK
<1>5. ASSUME NEW r \in Result, Conclude(w, r), wpc[w] \in {"ready", "submitting"}
      PROVE  /\ \A v \in Workers \ {w} : wpc'[v] = wpc[v] /\ wjob'[v] = wjob[v]
             /\ Phase(wpc'[w]) # "none" => Phase(wpc[w]) # "none" /\ wjob'[w] = wjob[w]
  <2>1. CASE EndIteration(w)
    BY <1>3, <2>1
  <2>2. CASE /\ wpc' = [wpc EXCEPT ![w] = IF r = "success" THEN "completing" ELSE "failing"]
             /\ UNCHANGED wjob
    BY <1>4, <1>5, <2>2 DEF Phase, Holding, WorkerPC
  <2>. QED  BY <1>5, <2>1, <2>2 DEF Conclude
<1>6. CASE NoRoute(w) \/ \E r \in Result : Answer(w, r)
  BY <1>2, <1>5, <1>6 DEF NoRoute, Answer, Result
<1>7. CASE CrashWorker(w) \/ NotifierRaises(w) \/ FlipMatch(w) \/ RecordFailed(w)
  BY <1>2, <1>3, <1>7 DEF CrashWorker, NotifierRaises, FlipMatch, RecordFailed
<1>8. CASE RecordClaim(w) \/ Submit(w) \/ WriteSucceeded(w) \/ RecordSucceeded(w)
             \/ MarkAttempt(w) \/ Requeue(w) \/ DeadLetter(w)
  <2>1. \E p \in WorkerPC : /\ wpc' = [wpc EXCEPT ![w] = p] /\ UNCHANGED wjob
                            /\ Phase(p) # "none" => Phase(wpc[w]) # "none"
    BY <1>8 DEF RecordClaim, Submit, WriteSucceeded, RecordSucceeded, MarkAttempt, Requeue,
                DeadLetter, Phase, Holding, WorkerPC
  <2>. QED  BY <1>2, <1>4, <2>1
<1>. QED  BY <1>6, <1>7, <1>8 DEF WorkerStep

LEMMA SoleStep == IInv /\ Sole /\ [Next]_vars => Sole'
<1>. SUFFICES ASSUME IInv, Sole, [Next]_vars PROVE Sole'
  OBVIOUS
<1>1. ASSUME UNCHANGED workerVars PROVE Sole'
  BY <1>1 DEF workerVars, Sole
<1>2. ASSUME NEW w \in Workers, ClaimNext(w) PROVE Sole'
  <2>1. TypeOK
    BY DEF IInv
  <2>2. PICK m \in Matches : Claim(w, m)
    BY <1>2, <2>1 DEF ClaimNext, TypeOK
  <2>3. /\ \A v \in Workers \ {w} : wpc'[v] = wpc[v] /\ wjob'[v] = wjob[v]
        /\ wjob'[w] = m
    BY <2>1, <2>2 DEF Claim, TypeOK
  <2>4. \A v \in Workers : Phase(wpc[v]) # "none" => wjob[v] # m
    BY <2>2, ClaimIsSole
  <2>. QED  BY <2>3, <2>4 DEF Sole, Phase, Holding
<1>3. ASSUME NEW w \in Workers, (WorkerStep(w) /\ ~ ClaimNext(w)) \/ CrashWorker(w)
      PROVE  Sole'
  BY <1>3, OwnSteps, SoleKept
<1>4. ASSUME NEW c \in Clients, ClientStep(c) \/ Request(c) \/ CrashClient(c)
      PROVE  UNCHANGED workerVars
  BY <1>4 DEF ClientStep, Request, LookupForEnqueue, InsertJob, RejectInsert, RecordEnqueue,
              CheckCancellable, WriteCancelled, RecordCancel, CrashClient
<1>5. ASSUME NEW m \in Matches, BackoffElapses(m) PROVE UNCHANGED workerVars
  BY <1>5 DEF BackoffElapses
<1>6. CASE UNCHANGED vars
  BY <1>1, <1>6 DEF vars
<1>. QED  BY <1>1, <1>2, <1>3, <1>4, <1>5, <1>6 DEF Next, Crash

LEMMA Soleness == Spec => []Sole
<1>1. Init => Sole
  BY DEF Init, Sole, Phase, Holding
<1>. QED  BY <1>1, SoleStep, Invariance, PTL DEF Spec

-----------------------------------------------------------------------------
\* Hold follows the position of the one worker a job has.

LEMMA HoldOfWorker ==
  ASSUME Sole, NEW w \in Workers, NEW m \in Matches, wjob[w] = m, Phase(wpc[w]) # "none"
  PROVE  Hold[m] = Phase(wpc[w])
<1>1. ASSUME NEW v \in Workers, wjob[v] = m, Phase(wpc[v]) # "none" PROVE v = w
  BY <1>1 DEF Sole
<1>2. CASE wpc[w] \in Holding
  <2>1. wpc[w] \notin {"completed", "flipping"} /\ Phase(wpc[w]) = "submitting"
    BY <1>2 DEF Phase, Holding
  <2>2. ~ \E v \in Workers : wpc[v] \in {"completed", "flipping"} /\ wjob[v] = m
    BY <1>1, <2>1 DEF Phase, Holding
  <2>3. \E v \in Workers : wpc[v] \in Holding /\ wjob[v] = m
    BY <1>2
  <2>. QED  BY <2>1, <2>2, <2>3 DEF Hold
<1>3. CASE wpc[w] \notin Holding
  <2>1. wpc[w] \in {"completed", "flipping"} /\ Phase(wpc[w]) = "flipping"
    BY <1>3 DEF Phase
  <2>2. ~ \E v \in Workers : wpc[v] \in Holding /\ wjob[v] = m
    BY <1>1, <1>3 DEF Phase
  <2>3. \E v \in Workers : wpc[v] \in {"completed", "flipping"} /\ wjob[v] = m
    BY <2>1
  <2>. QED  BY <2>1, <2>2, <2>3 DEF Hold
<1>. QED  BY <1>2, <1>3

LEMMA HoldOfNobody ==
  ASSUME NEW m \in Matches, \A v \in Workers : wjob[v] = m => Phase(wpc[v]) = "none"
  PROVE  Hold[m] = "none"
<1>1. /\ ~ \E v \in Workers : wpc[v] \in Holding /\ wjob[v] = m
      /\ ~ \E v \in Workers : wpc[v] \in {"completed", "flipping"} /\ wjob[v] = m
  BY DEF Phase, Holding
<1>. QED  BY <1>1 DEF Hold

\* A worker's step moves the hold on its own job only, and as the worker moves.
LEMMA HoldMoves ==
  ASSUME Sole, NEW w \in Workers, NEW m \in Matches,
         Phase(wpc[w]) # "none" => wjob[w] = m,
         Phase(wpc'[w]) # "none" => wjob'[w] = m,
         \A v \in Workers \ {w} : wpc'[v] = wpc[v] /\ wjob'[v] = wjob[v],
         \A v \in Workers \ {w} : wjob[v] = m => Phase(wpc[v]) = "none"
  PROVE  /\ Hold[m] = Phase(wpc[w])
         /\ Hold' = [Hold EXCEPT ![m] = Phase(wpc'[w])]
<1>1. Hold[m] = Phase(wpc[w])
  <2>1. CASE Phase(wpc[w]) # "none"
    BY <2>1, HoldOfWorker
  <2>2. CASE Phase(wpc[w]) = "none"
    BY <2>2, HoldOfNobody
  <2>. QED  BY <2>1, <2>2
<1>2. Hold'[m] = Phase(wpc'[w])
  <2>0. ASSUME NEW v \in Workers \ {w}, wjob'[v] = m
        PROVE  wpc'[v] \notin Holding \cup {"completed", "flipping"}
    BY <2>0 DEF Phase
  <2>1. ASSUME wpc'[w] \in Holding PROVE Hold'[m] = "submitting"
    <3>1. wjob'[w] = m
      BY <2>1 DEF Phase
    <3>2. ~ \E v \in Workers : wpc'[v] \in {"completed", "flipping"} /\ wjob'[v] = m
      BY <2>0, <2>1 DEF Holding
    <3>. QED  BY <2>1, <3>1, <3>2 DEF Hold, Holding
  <2>2. ASSUME wpc'[w] \notin Holding
        PROVE  ~ \E v \in Workers : wpc'[v] \in Holding /\ wjob'[v] = m
    BY <2>0, <2>2
  <2>3. ASSUME wpc'[w] \in {"completed", "flipping"} PROVE Hold'[m] = "flipping"
    <3>1. wjob'[w] = m /\ wpc'[w] \notin Holding
      BY <2>3 DEF Phase, Holding
    <3>. QED  BY <2>2, <2>3, <3>1 DEF Hold, Holding
  <2>4. ASSUME wpc'[w] \notin Holding \cup {"completed", "flipping"}
        PROVE  Hold'[m] = "none"
    BY <2>0, <2>4 DEF Hold, Holding
  <2>. QED  BY <2>1, <2>3, <2>4 DEF Phase
<1>3. ASSUME NEW n \in Matches \ {m} PROVE Hold'[n] = Hold[n]
  <2>1. \A p : Phase(p) = "none" => p \notin Holding \cup {"completed", "flipping"}
    BY DEF Phase
  <2>2. wjob[w] = n => wpc[w] \notin Holding \cup {"completed", "flipping"}
    BY <2>1
  <2>3. wjob'[w] = n => wpc'[w] \notin Holding \cup {"completed", "flipping"}
    BY <2>1
  <2>4. \A v \in Workers :
          /\ (wpc'[v] \in Holding /\ wjob'[v] = n) <=> (wpc[v] \in Holding /\ wjob[v] = n)
          /\ (wpc'[v] \in {"completed", "flipping"} /\ wjob'[v] = n)
               <=> (wpc[v] \in {"completed", "flipping"} /\ wjob[v] = n)
    BY <2>2, <2>3
  <2>. QED  BY <2>4 DEF Hold, Holding
<1>4. /\ Hold = [n \in Matches |-> Hold[n]]
      /\ Hold' = [n \in Matches |-> Hold'[n]]
  BY DEF Hold
<1>. QED  BY <1>1, <1>2, <1>3, <1>4

\* A worker without a job is seen by no row.
LEMMA HoldStays ==
  ASSUME NEW w \in Workers, Phase(wpc[w]) = "none", Phase(wpc'[w]) = "none",
         \A v \in Workers \ {w} : wpc'[v] = wpc[v] /\ wjob'[v] = wjob[v]
  PROVE  Hold' = Hold
<1>1. \A p : Phase(p) = "none" => p \notin Holding \cup {"completed", "flipping"}
  BY DEF Phase
<1>2. ASSUME NEW n \in Matches PROVE Hold'[n] = Hold[n]
  <2>1. \A v \in Workers :
          /\ (wpc'[v] \in Holding /\ wjob'[v] = n) <=> (wpc[v] \in Holding /\ wjob[v] = n)
          /\ (wpc'[v] \in {"completed", "flipping"} /\ wjob'[v] = n)
               <=> (wpc[v] \in {"completed", "flipping"} /\ wjob[v] = n)
    BY <1>1
  <2>. QED  BY <2>1 DEF Hold, Holding
<1>3. /\ Hold = [n \in Matches |-> Hold[n]]
      /\ Hold' = [n \in Matches |-> Hold'[n]]
  BY DEF Hold
<1>. QED  BY <1>2, <1>3

\* A worker that only moves on in the phase it is in leaves the row alone.
LEMMA RowStays ==
  ASSUME Hold' = Hold, UNCHANGED <<status, external>>
  PROVE  [Row!Next]_(Row!vars)
BY DEF Row!vars, Successes

\* Of the steps of a worker, the claim, the recorded success, the requeue and the
\* parking write the row; the others keep it or let go of it.
LEMMA WorkerRow ==
  ASSUME IInv, Sole, NEW w \in Workers, (WorkerStep(w) /\ ~ ClaimNext(w)) \/ CrashWorker(w)
  PROVE  [Row!Next]_(Row!vars)
<1>. DEFINE m == wjob[w]
<1>0. TypeOK /\ HeldJobs
  BY DEF IInv
<1>1. /\ m \in Matches
      /\ \A v \in Workers \ {w} : wpc'[v] = wpc[v] /\ wjob'[v] = wjob[v]
      /\ Phase(wpc'[w]) # "none" => Phase(wpc[w]) # "none" /\ wjob'[w] = m
  BY OwnSteps
<1>2. CASE Phase(wpc[w]) = "none"
  <2>1. Hold' = Hold
    BY <1>1, <1>2, HoldStays
  <2>2. wpc[w] \notin Holding \cup {"completed", "flipping"}
    BY <1>2 DEF Phase
  <2>3. UNCHANGED <<status, external>>
    BY <2>2 DEF WorkerStep, CrashWorker, RecordClaim, NoRoute, Submit, Answer, WriteSucceeded,
                RecordSucceeded, NotifierRaises, FlipMatch, MarkAttempt, Requeue, DeadLetter,
                RecordFailed, rowVars, Holding
  <2>. QED  BY <2>1, <2>3, RowStays
<1>3. CASE Phase(wpc[w]) # "none"
  <2>1. \A v \in Workers \ {w} : wjob[v] = m => Phase(wpc[v]) = "none"
    BY <1>3 DEF Sole
  <2>2. /\ Hold[m] = Phase(wpc[w])
        /\ Hold' = [Hold EXCEPT ![m] = Phase(wpc'[w])]
    BY <1>1, <2>1, HoldMoves
  <2>3. Hold = [n \in Matches |-> Hold[n]]
    BY DEF Hold
  <2>. HIDE DEF m
  <2>4. ASSUME Phase(wpc'[w]) = Phase(wpc[w]), UNCHANGED <<status, external>>
        PROVE  [Row!Next]_(Row!vars)
    BY <2>2, <2>3, <2>4, RowStays
  <2>5. ASSUME EndIteration(w), UNCHANGED <<status, external>>
        PROVE  Row!LetGo(m)
    <3>1. Phase(wpc'[w]) = "none"
      BY <1>0, <2>5 DEF EndIteration, TypeOK, Phase, Holding
    <3>. QED  BY <2>2, <2>5, <3>1 DEF Row!LetGo, Successes
  <2>6. ASSUME NEW r \in Result, wpc[w] \in {"ready", "submitting"}, Conclude(w, r),
               UNCHANGED <<status, external>>
        PROVE  [Row!Next]_(Row!vars)
    <3>1. CASE status[m] \in Terminal /\ EndIteration(w)
      <4>1. status[m] = "cancelled"
        BY <1>0, <2>6, <3>1 DEF HeldJobs, Holding, Terminal, m
      <4>2. Hold[m] = "submitting"
        BY <2>2, <2>6 DEF Phase, Holding
      <4>3. Row!Drop(m)
        BY <2>5, <2>6, <3>1, <4>1, <4>2 DEF Row!Drop
      <4>. QED  BY <1>1, <4>3 DEF Row!Next
    <3>2. CASE wpc' = [wpc EXCEPT ![w] = IF r = "success" THEN "completing" ELSE "failing"]
      <4>1. Phase(wpc'[w]) = Phase(wpc[w])
        BY <1>0, <2>6, <3>2 DEF TypeOK, Phase, Holding
      <4>. QED  BY <2>4, <2>6, <4>1
    <3>. QED  BY <2>6, <3>1, <3>2 DEF Conclude, m
  <2>7. CASE NoRoute(w)
    BY <2>6, <2>7 DEF NoRoute, rowVars, Result
  <2>8. CASE \E r \in Result : Answer(w, r)
    BY <2>6, <2>8 DEF Answer, rowVars
  <2>9. CASE RecordClaim(w) \/ Submit(w) \/ MarkAttempt(w) \/ RecordSucceeded(w)
    <3>1. Phase(wpc'[w]) = Phase(wpc[w])
      BY <1>0, <2>9
         DEF RecordClaim, Submit, MarkAttempt, RecordSucceeded, TypeOK, Phase, Holding
    <3>2. UNCHANGED <<status, external>>
      BY <2>9 DEF RecordClaim, Submit, MarkAttempt, RecordSucceeded, rowVars
    <3>. QED  BY <2>4, <3>1, <3>2
  <2>10. CASE WriteSucceeded(w)
    <3>1. Hold[m] = "submitting" /\ Phase(wpc'[w]) = "flipping"
      BY <1>0, <2>2, <2>10 DEF WriteSucceeded, TypeOK, Phase, Holding
    <3>2. /\ status' = [status EXCEPT ![m] = "succeeded"]
          /\ external' = [external EXCEPT ![m] = TRUE] /\ ~ external[m]
      BY <1>0, <2>10 DEF WriteSucceeded, HeldJobs, Holding, m
    <3>3. ASSUME NEW n \in Matches
          PROVE  Successes'[n] = IF n = m THEN 1 ELSE Successes[n]
      BY <1>0, <3>2 DEF Successes, TypeOK
    <3>4. /\ Successes = [n \in Matches |-> Successes[n]]
          /\ Successes' = [n \in Matches |-> Successes'[n]]
          /\ Successes[m] + 1 = 1
      BY <1>1, <3>2 DEF Successes
    <3>5. Successes' = [Successes EXCEPT ![m] = @ + 1]
      BY <3>3, <3>4
    <3>6. Row!Complete(m)
      BY <2>2, <3>1, <3>2, <3>5 DEF Row!Complete
    <3>. QED  BY <1>1, <3>6 DEF Row!Next
  <2>11. CASE Requeue(w) \/ DeadLetter(w)
    <3>1. Hold[m] = "submitting" /\ Phase(wpc'[w]) = "none"
      BY <1>0, <2>2, <2>11 DEF Requeue, DeadLetter, TypeOK, Phase, Holding
    <3>2. /\ \E s \in {"queued", "dead_letter"} : status' = [status EXCEPT ![m] = s]
          /\ UNCHANGED Successes
      BY <2>11 DEF Requeue, DeadLetter, Successes, m
    <3>3. Row!Fail(m)
      BY <2>2, <3>1, <3>2 DEF Row!Fail
    <3>. QED  BY <1>1, <3>3 DEF Row!Next
  <2>12. CASE NotifierRaises(w) \/ FlipMatch(w)
    <3>1. EndIteration(w) /\ UNCHANGED <<status, external>> /\ wpc[w] = "flipping"
      BY <2>12 DEF NotifierRaises, FlipMatch, rowVars
    <3>2. Hold[m] = "flipping"
      BY <2>2, <3>1 DEF Phase, Holding
    <3>3. Row!Drop(m)
      BY <2>5, <3>1, <3>2 DEF Row!Drop
    <3>. QED  BY <1>1, <3>3 DEF Row!Next
  <2>13. CASE RecordFailed(w)
    BY <1>3, <2>13 DEF RecordFailed, Phase, Holding
  <2>14. CASE CrashWorker(w)
    <3>1. EndIteration(w) /\ UNCHANGED <<status, external>>
      BY <2>14 DEF CrashWorker, rowVars
    <3>2. Row!Die(m)
      BY <1>3, <2>2, <2>5, <3>1 DEF Row!Die
    <3>. QED  BY <1>1, <3>2 DEF Row!Next
  <2>. QED
    BY <2>7, <2>8, <2>9, <2>10, <2>11, <2>12, <2>13, <2>14 DEF WorkerStep
<1>. QED  BY <1>2, <1>3

\* Every step of the queue takes one row a step further or leaves all of them.
LEMMA RowStep == IInv /\ Sole /\ [Next]_vars => [Row!Next]_(Row!vars)
<1>. SUFFICES ASSUME IInv, Sole, [Next]_vars PROVE [Row!Next]_(Row!vars)
  OBVIOUS
<1>. USE DEF rowVars, workerVars
<1>0. TypeOK /\ InHand /\ Worked
  BY DEF IInv
<1>1. ASSUME UNCHANGED <<wpc, wjob>> PROVE Hold' = Hold
  BY <1>1 DEF Hold
<1>2. ASSUME UNCHANGED <<wpc, wjob, status, external>> PROVE [Row!Next]_(Row!vars)
  BY <1>1, <1>2, RowStays
<1>3. ASSUME NEW c \in Clients, ClientStep(c) \/ Request(c) \/ CrashClient(c)
      PROVE  [Row!Next]_(Row!vars)
  <2>1. CASE InsertJob(c)
    <3>1. cjob[c] \in Matches /\ Hold' = Hold
      BY <1>0, <1>1, <2>1 DEF InsertJob, InHand
    <3>2. Row!Insert(cjob[c])
      BY <2>1, <3>1 DEF InsertJob, Row!Insert, Successes
    <3>. QED  BY <3>1, <3>2 DEF Row!Next
  <2>2. CASE WriteCancelled(c)
    <3>1. cjob[c] \in Matches /\ Hold' = Hold /\ status[cjob[c]] # "absent"
      BY <1>0, <1>1, <2>2 DEF WriteCancelled, InHand, Worked
    <3>2. Row!Cancel(cjob[c])
      BY <2>2, <3>1 DEF WriteCancelled, Row!Cancel, Successes
    <3>. QED  BY <3>1, <3>2 DEF Row!Next
  <2>3. CASE ~ InsertJob(c) /\ ~ WriteCancelled(c)
    <3>1. UNCHANGED <<wpc, wjob, status, external>>
      BY <1>3, <2>3 DEF ClientStep, Request, LookupForEnqueue, RejectInsert, RecordEnqueue,
                        CheckCancellable, RecordCancel, CrashClient
    <3>. QED  BY <1>2, <3>1
  <2>. QED  BY <2>1, <2>2, <2>3
<1>4. ASSUME NEW w \in Workers, ClaimNext(w) PROVE [Row!Next]_(Row!vars)
  <2>1. PICK m \in Matches : Claim(w, m)
    BY <1>0, <1>4 DEF ClaimNext, TypeOK
  <2>2. /\ Phase(wpc[w]) = "none" /\ Phase(wpc'[w]) = "submitting" /\ wjob'[w] = m
        /\ \A v \in Workers \ {w} : wpc'[v] = wpc[v] /\ wjob'[v] = wjob[v]
    BY <1>0, <2>1 DEF Claim, TypeOK, Phase, Holding
  <2>3. \A v \in Workers \ {w} : wjob[v] = m => Phase(wpc[v]) = "none"
    BY <2>1, ClaimIsSole
  <2>4. Hold' = [Hold EXCEPT ![m] = "submitting"]
    BY <2>2, <2>3, HoldMoves
  <2>5. Row!Claim(m)
    BY <2>1, <2>4 DEF Claim, Claimable, Row!Claim, Successes
  <2>. QED  BY <2>5 DEF Row!Next
<1>5. ASSUME NEW w \in Workers, (WorkerStep(w) /\ ~ ClaimNext(w)) \/ CrashWorker(w)
      PROVE  [Row!Next]_(Row!vars)
  BY <1>5, WorkerRow
<1>6. ASSUME NEW m \in Matches, BackoffElapses(m) PROVE [Row!Next]_(Row!vars)
  BY <1>2, <1>6 DEF BackoffElapses
<1>7. CASE UNCHANGED vars
  BY <1>2, <1>7 DEF vars
<1>. QED  BY <1>3, <1>4, <1>5, <1>6, <1>7 DEF Next, Crash

\* The queue implements the rows that MatchReview is built from: for any number of
\* workers and requests, what their commits do to a job is what one worker and a
\* canceller could do to it, and its success is recorded once (claim_next, process_one,
\* complete, fail, cancel, enqueue_for_match).
THEOREM QueueImplementsRow == Spec => ImplementsRow
<1>1. Init => Row!Init
  <2>. SUFFICES ASSUME Init PROVE Row!Init
    OBVIOUS
  <2>1. \A m \in Matches : Hold[m] = "none"
    BY HoldOfNobody DEF Init, Phase, Holding
  <2>2. Hold = [m \in Matches |-> Hold[m]]
    BY DEF Hold
  <2>. QED  BY <2>1, <2>2 DEF Init, Row!Init, Successes
<1>. QED  BY <1>1, RowStep, Invariance, Soleness, PTL DEF Spec, ImplementsRow, Row!Spec
=============================================================================
