---------------------------- MODULE ApplyLimits ----------------------------
(***************************************************************************)
(* The per-user cap on enqueues (apply_worker/limits.py) inside the request *)
(* that it gates, ApplyJobService.enqueue_for_match.  A request counts the  *)
(* rows of two rolling windows, looks the job up, inserts it and records    *)
(* its own row, each in a transaction of its own; between any two of them   *)
(* other requests run and time passes.                                      *)
(*                                                                          *)
(* A row of apply_rate_limit_events is a slot of its user that carries the  *)
(* row's age in ticks.  Rows that no window counts are forgotten, which     *)
(* makes the slot free again.  All processes read one clock, which moves by *)
(* at most one tick between the two queries of a check.                     *)
(***************************************************************************)
EXTENDS Integers, FiniteSets

CONSTANTS
  Users, Requests,
  UserOf,                  \* whose match a request enqueues
  Matches,                 \* matches of each user
  Slots,                   \* rows of a user that may be in a window at once
  HourlyLimit, DailyLimit,
  Second, Hour, Day,       \* lengths in ticks
  NoHint                   \* no Retry-After to wait for

\* ApplyWorkerSettings refuses limits below 1.
ASSUME LimitsAssumption ==
  /\ IsFiniteSet(Requests) /\ IsFiniteSet(Slots)
  /\ UserOf \in [Requests -> Users]
  /\ Matches # {}
  /\ HourlyLimit \in Nat \ {0} /\ DailyLimit \in Nat \ {0}
  /\ Second \in Nat \ {0} /\ Hour \in Nat \ {0} /\ Day \in Nat /\ Hour < Day
  /\ NoHint \notin Int

VARIABLES
  age,      \* per user and slot: ticks since occurred_at, Free for no row
  jobs,     \* the matches of a user that have an apply_jobs row
  pc,       \* what a request does next
  match,    \* the match it enqueues
  hourly,   \* what it read of the hourly window, and whether the clock moved since
  wait      \* ticks left of the hint in the user's last 429

vars == <<age, jobs, pc, match, hourly, wait>>

Free == Day + 1
Ages == 0 .. Free
Nothing == [used |-> 0, oldest |-> Free, late |-> 0]
PC == {"idle", "countHour", "countDay", "lookup", "insert", "record"}

-----------------------------------------------------------------------------
\* The windows.

\* The rows of u with occurred_at in [now - window, now], both ends included.
InWindow(u, window) == {s \in Slots : age[u][s] <= window}

Used(u, window) == Cardinality(InWindow(u, window))

\* COUNT and MIN(occurred_at) in one query; with no row nothing is the oldest.
CountInWindow(u, window, late) ==
  [used |-> Used(u, window), late |-> late,
   oldest |-> IF InWindow(u, window) = {} THEN Free
              ELSE CHOOSE a \in 0 .. window :
                     /\ \E s \in InWindow(u, window) : age[u][s] = a
                     /\ \A s \in InWindow(u, window) : age[u][s] <= a]

\* Mutant: the hint counts from the row that was recorded last.
ResetInFull(count, window) == window \div Second + 1

\* Seconds until the oldest row leaves, cut to whole ones and at least one
\* unless it leaves now.  "Now" was read before the first query.
ResetIn(count, window) ==
  LET delta == window - count.oldest + count.late
  IN  IF delta > 0 /\ delta \div Second = 0 THEN 1 ELSE delta \div Second

\* Hints of the windows that are used up; the longer one is returned.
BlockingHints(h, d) ==
  {ResetIn(x.count, x.window) :
     x \in {y \in {[count |-> h, window |-> Hour, limit |-> HourlyLimit],
                   [count |-> d, window |-> Day, limit |-> DailyLimit]} :
              y.count.used >= y.limit /\ ResetIn(y.count, y.window) > 0}}

\* No hint is left when every blocking window frees a place now.
RetryAfter(h, d) ==
  IF BlockingHints(h, d) = {} THEN 0
  ELSE CHOOSE x \in BlockingHints(h, d) : \A y \in BlockingHints(h, d) : y <= x

\* Mutant: an enqueue that meets the limit passes.
AllowedOneMore(h, d) == h.used <= HourlyLimit /\ d.used < DailyLimit

Allowed(h, d) == h.used < HourlyLimit /\ d.used < DailyLimit

-----------------------------------------------------------------------------
\* enqueue_for_match.

Init ==
  /\ age = [u \in Users |-> [s \in Slots |-> Free]]
  /\ jobs = [u \in Users |-> {}]
  /\ pc = [r \in Requests |-> "idle"]
  /\ match = [r \in Requests |-> CHOOSE m \in Matches : TRUE]
  /\ hourly = [r \in Requests |-> Nothing]
  /\ wait = [u \in Users |-> NoHint]

\* A request arrives; its match and the match's profile are found.
Ask(r) ==
  /\ pc[r] = "idle"
  /\ \E m \in Matches : match' = [match EXCEPT ![r] = m]
  /\ pc' = [pc EXCEPT ![r] = "countHour"]
  /\ UNCHANGED <<age, jobs, hourly, wait>>

CountHour(r) ==
  /\ pc[r] = "countHour"
  /\ hourly' = [hourly EXCEPT ![r] = CountInWindow(UserOf[r], Hour, 0)]
  /\ pc' = [pc EXCEPT ![r] = "countDay"]
  /\ UNCHANGED <<age, jobs, match, wait>>

FreeSlots(u) == {s \in Slots : age[u][s] = Free}

\* The row is written.  The hint of an earlier 429 spoke of the rows before it.
WriteRow(u) ==
  /\ FreeSlots(u) # {}
  /\ LET s == CHOOSE x \in FreeSlots(u) : TRUE
     IN  age' = [age EXCEPT ![u][s] = 0]
  /\ wait' = [wait EXCEPT ![u] = NoHint]

\* Mutant: a denied request is recorded too.
DenyRecorded(r, first, daily) ==
  \/ FreeSlots(UserOf[r]) # {} /\ WriteRow(UserOf[r])
  \/ FreeSlots(UserOf[r]) = {} /\ UNCHANGED <<age, wait>>

\* RateLimitExceeded becomes a 429 with the Retry-After header.
Deny(r, first, daily) ==
  /\ wait' = [wait EXCEPT ![UserOf[r]] = RetryAfter(first, daily) * Second]
  /\ UNCHANGED age

CountDay(r) ==
  /\ pc[r] = "countDay"
  /\ LET first == [hourly[r] EXCEPT !.late = 0]
         daily == CountInWindow(UserOf[r], Day, hourly[r].late)
     IN  \/ /\ Allowed(first, daily)
            /\ pc' = [pc EXCEPT ![r] = "lookup"]
            /\ UNCHANGED <<age, wait>>
         \/ /\ ~Allowed(first, daily)
            /\ pc' = [pc EXCEPT ![r] = "idle"]
            /\ Deny(r, first, daily)
  /\ hourly' = [hourly EXCEPT ![r] = Nothing]
  /\ UNCHANGED <<jobs, match>>

\* An existing job is returned, and counts as a request all the same.
Lookup(r) ==
  /\ pc[r] = "lookup"
  /\ pc' = [pc EXCEPT ![r] = IF match[r] \in jobs[UserOf[r]] THEN "record" ELSE "insert"]
  /\ UNCHANGED <<age, jobs, match, hourly, wait>>

\* UNIQUE(match_id) refuses the row of a request that lost the race; it ends
\* in an error and has used up nothing.
InsertJob(r) ==
  /\ pc[r] = "insert"
  /\ pc' = [pc EXCEPT ![r] = IF match[r] \in jobs[UserOf[r]] THEN "idle" ELSE "record"]
  /\ jobs' = [jobs EXCEPT ![UserOf[r]] = @ \cup {match[r]}]
  /\ UNCHANGED <<age, match, hourly, wait>>

Record(r) ==
  /\ pc[r] = "record"
  /\ WriteRow(UserOf[r])
  /\ pc' = [pc EXCEPT ![r] = "idle"]
  /\ UNCHANGED <<jobs, match, hourly>>

\* A statement raises and is rolled back, or the process dies.
FailBetween(r) ==
  /\ pc[r] \in {"lookup", "insert", "record"}
  /\ pc' = [pc EXCEPT ![r] = "idle"]
  /\ UNCHANGED <<age, jobs, match, hourly, wait>>

Tick ==
  /\ \A r \in Requests : hourly[r].late = 0
  /\ age' = [u \in Users |->
              [s \in Slots |-> IF age[u][s] = Free THEN Free ELSE age[u][s] + 1]]
  /\ wait' = [u \in Users |-> IF wait[u] \in {NoHint, 0} THEN wait[u] ELSE wait[u] - 1]
  /\ hourly' = [r \in Requests |->
                  [hourly[r] EXCEPT !.late = IF pc[r] = "countDay" THEN 1 ELSE 0]]
  /\ UNCHANGED <<jobs, pc, match>>

Handle(r) == CountHour(r) \/ CountDay(r) \/ Lookup(r) \/ InsertJob(r) \/ Record(r)

Next ==
  \/ \E r \in Requests : Ask(r) \/ Handle(r) \/ FailBetween(r)
  \/ Tick

Spec == Init /\ [][Next]_vars

\* Handlers are not interrupted for ever, and time goes on although some
\* request is often between its two queries.
FairSpec == Spec /\ (\A r \in Requests : WF_vars(Handle(r))) /\ SF_vars(Tick)

-----------------------------------------------------------------------------
\* Properties.

TypeOK ==
  /\ age \in [Users -> [Slots -> Ages]]
  /\ jobs \in [Users -> SUBSET Matches]
  /\ pc \in [Requests -> PC]
  /\ match \in [Requests -> Matches]
  /\ hourly \in [Requests -> [used : Nat, oldest : Ages, late : {0, 1}]]
  /\ wait \in [Users -> Nat \cup {NoHint}]

RequestsOf(u) == {r \in Requests : UserOf[r] = u}

\* check reads and record writes, with an INSERT between them: requests in
\* flight all see the last free place.  The caps of limits.py are kept up to
\* one row for each further request that the user has in flight, in both
\* windows, whatever fails in between.
OverrunBounded ==
  \A u \in Users :
    LET others == Cardinality(RequestsOf(u)) - 1
    IN  RequestsOf(u) # {} =>
          /\ Used(u, Hour) <= HourlyLimit + others
          /\ Used(u, Day) <= DailyLimit + others

Saturated(u) == Used(u, Hour) >= HourlyLimit \/ Used(u, Day) >= DailyLimit

\* The Retry-After of a 429 is never too long by a second or more: as long as
\* at least a second of it is left and the user has not been recorded since,
\* a window is used up, so no earlier request would have been admitted.
HintNotTooLong ==
  \A u \in Users : wait[u] # NoHint /\ wait[u] >= Second => Saturated(u)

\* A user who has used up a window gets a place again, however often they go
\* on asking: denials are not counted and the window slides.
SaturationEnds == \A u \in Users : Saturated(u) ~> ~Saturated(u)
=============================================================================
