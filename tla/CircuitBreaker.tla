--------------------------- MODULE CircuitBreaker ---------------------------
(***************************************************************************)
(* The per-source circuit breakers and the adapter wrapper that drives them *)
(* (features/sources/breaker.py).  One event loop runs every call, so a     *)
(* call interleaves with others only while it awaits the inner adapter:     *)
(* admission is one action, the outcome another.                            *)
(*                                                                          *)
(* Monotonic time is kept as the ages of _opened_at and _opened_at_original *)
(* in ticks, and as 0 while the breaker is not OPEN: the code reads neither *)
(* in another state.  Ages stop at MaxAge, past which the timeout has long  *)
(* elapsed.  `shut' is a history variable no action reads: a late failure    *)
(* restarts both ages, and only `shut' remembers the windows before it.      *)
(***************************************************************************)
EXTENDS Naturals, FiniteSets

CONSTANTS
  Sources,           \* names in the InMemorySourceCircuitRegistry
  Nested,            \* sources whose inner adapter may itself report unavailability
  Calls,             \* the calls one source may have under way
  FailureThreshold,  \* BreakerSettings
  ResetTimeout,
  HalfOpenMaxCalls,
  MaxAge             \* bound: ages saturate here

ASSUME BreakerAssumption ==
  /\ Nested \subseteq Sources
  /\ IsFiniteSet(Calls)
  /\ FailureThreshold \in Nat \ {0}
  /\ ResetTimeout \in Nat \ {0}
  /\ HalfOpenMaxCalls \in Nat \ {0}
  /\ MaxAge \in Nat /\ MaxAge >= 2 * ResetTimeout

VARIABLES
  state,     \* CircuitBreaker._state, per source
  failures,  \* _failure_count
  age,       \* clock() - _opened_at
  tripAge,   \* clock() - _opened_at_original
  slots,     \* _half_open_in_flight
  audit,     \* the last SOURCE_DEGRADED / SOURCE_RECOVERED event of the source
  pending,   \* the calls awaiting the inner adapter of the source
  shut       \* history: the ticks spent refusing since it last let a call in or closed

vars == <<state, failures, age, tripAge, slots, audit, pending, shut>>

CircuitState == {"closed", "open", "half_open"}

Init ==
  /\ state = [s \in Sources |-> "closed"]
  /\ failures = [s \in Sources |-> 0]
  /\ age = [s \in Sources |-> 0]
  /\ tripAge = [s \in Sources |-> 0]
  /\ slots = [s \in Sources |-> 0]
  /\ audit = [s \in Sources |-> "none"]
  /\ pending = [s \in Sources |-> {}]
  /\ shut = [s \in Sources |-> 0]

-----------------------------------------------------------------------------
\* _refresh_state, which every read of `state' and allow_request run first.

\* Mutant: the timeout is compared with >.
TimedOutLate(s) == state[s] = "open" /\ age[s] > ResetTimeout

TimedOut(s) == state[s] = "open" /\ age[s] >= ResetTimeout

Refreshed(s) == IF TimedOut(s) THEN "half_open" ELSE state[s]

RefreshedSlots(s) == IF TimedOut(s) THEN 0 ELSE slots[s]

\* Leaving OPEN, for HALF_OPEN or CLOSED.
ForgetTrip(s) ==
  /\ age' = [age EXCEPT ![s] = 0]
  /\ tripAge' = [tripAge EXCEPT ![s] = 0]

Refresh(s) ==
  /\ state' = [state EXCEPT ![s] = Refreshed(s)]
  /\ slots' = [slots EXCEPT ![s] = RefreshedSlots(s)]
  /\ IF TimedOut(s) THEN ForgetTrip(s) ELSE UNCHANGED <<age, tripAge>>
  /\ UNCHANGED failures

\* _open(now=clock()).
Open(s) ==
  /\ state' = [state EXCEPT ![s] = "open"]
  /\ age' = [age EXCEPT ![s] = 0]
  /\ tripAge' = [tripAge EXCEPT ![s] = 0]
  /\ failures' = [failures EXCEPT ![s] = FailureThreshold]
  /\ slots' = [slots EXCEPT ![s] = 0]

-----------------------------------------------------------------------------
\* Calls: _call and _call_sync.

\* allow_request in CLOSED.  A call it refuses raises and changes nothing: the
\* refresh that would change the breaker also admits.
AdmitClosed(c, s) ==
  /\ c \notin pending[s]
  /\ state[s] = "closed"
  /\ pending' = [pending EXCEPT ![s] = @ \cup {c}]
  /\ UNCHANGED <<state, failures, age, tripAge, slots, audit, shut>>

\* Mutant: allow_request skips the refresh.
AdmitProbeUnrefreshed(c, s) ==
  /\ c \notin pending[s]
  /\ state[s] = "half_open"
  /\ slots[s] < HalfOpenMaxCalls
  /\ slots' = [slots EXCEPT ![s] = @ + 1]
  /\ pending' = [pending EXCEPT ![s] = @ \cup {c}]
  /\ UNCHANGED <<state, failures, age, tripAge, audit, shut>>

\* allow_request in HALF_OPEN, entered here once the timeout has elapsed.
AdmitProbe(c, s) ==
  /\ c \notin pending[s]
  /\ Refreshed(s) = "half_open"
  /\ RefreshedSlots(s) < HalfOpenMaxCalls
  /\ state' = [state EXCEPT ![s] = "half_open"]
  /\ slots' = [slots EXCEPT ![s] = RefreshedSlots(s) + 1]
  /\ pending' = [pending EXCEPT ![s] = @ \cup {c}]
  /\ ForgetTrip(s)
  /\ shut' = [shut EXCEPT ![s] = 0]
  /\ UNCHANGED <<failures, audit>>

Return(c, s) == pending' = [pending EXCEPT ![s] = @ \ {c}]

\* Mutant: _on_success compares _state instead of `state'.
RecoverQuietly(c, s) ==
  /\ c \in pending[s]
  /\ Refreshed(s) = "half_open"
  /\ state' = [state EXCEPT ![s] = "closed"]
  /\ failures' = [failures EXCEPT ![s] = 0]
  /\ slots' = [slots EXCEPT ![s] = 0]
  /\ audit' = [audit EXCEPT ![s] = IF state[s] = "half_open" THEN "recovered" ELSE @]
  /\ ForgetTrip(s)
  /\ shut' = [shut EXCEPT ![s] = 0]
  /\ Return(c, s)

\* record_success in HALF_OPEN, whoever the caller was.
Recover(c, s) ==
  /\ c \in pending[s]
  /\ Refreshed(s) = "half_open"
  /\ state' = [state EXCEPT ![s] = "closed"]
  /\ failures' = [failures EXCEPT ![s] = 0]
  /\ slots' = [slots EXCEPT ![s] = 0]
  /\ audit' = [audit EXCEPT ![s] = "recovered"]
  /\ ForgetTrip(s)
  /\ shut' = [shut EXCEPT ![s] = 0]
  /\ Return(c, s)

\* record_success in CLOSED, or late in OPEN: only the counter.
Succeed(c, s) ==
  /\ c \in pending[s]
  /\ Refreshed(s) # "half_open"
  /\ failures' = [failures EXCEPT ![s] = 0]
  /\ Return(c, s)
  /\ UNCHANGED <<state, age, tripAge, slots, audit, shut>>

\* record_failure in CLOSED, below the threshold.
CountFailure(c, s) ==
  /\ c \in pending[s]
  /\ state[s] = "closed"
  /\ failures[s] + 1 < FailureThreshold
  /\ failures' = [failures EXCEPT ![s] = @ + 1]
  /\ Return(c, s)
  /\ UNCHANGED <<state, age, tripAge, slots, audit, shut>>

\* Mutant: a failed trial call is not recorded.
TripFromClosed(c, s) ==
  /\ c \in pending[s]
  /\ Return(c, s)
  /\ \/ state[s] = "closed" /\ failures[s] + 1 >= FailureThreshold
        /\ Open(s)
        /\ audit' = [audit EXCEPT ![s] = "degraded"]
     \/ Refreshed(s) = "half_open" /\ Refresh(s) /\ UNCHANGED audit
  /\ UNCHANGED shut

\* record_failure in CLOSED at the threshold, or in HALF_OPEN.  _on_failure has
\* read `state', so an OPEN window that timed out is HALF_OPEN by now.
Trip(c, s) ==
  /\ c \in pending[s]
  /\ \/ state[s] = "closed" /\ failures[s] + 1 >= FailureThreshold
     \/ Refreshed(s) = "half_open"
  /\ Open(s)
  /\ audit' = [audit EXCEPT ![s] = "degraded"]
  /\ Return(c, s)
  /\ UNCHANGED shut

\* Mutant: the clamp to the original trip is gone (issue #143).
FailUnclamped(c, s) ==
  /\ c \in pending[s]
  /\ Refreshed(s) = "open"
  /\ age' = [age EXCEPT ![s] = 0]
  /\ Return(c, s)
  /\ UNCHANGED <<state, failures, tripAge, slots, audit, shut>>

\* record_failure in OPEN: _opened_at := min(clock(), _opened_at_original + reset).
FailWhileOpen(c, s) ==
  /\ c \in pending[s]
  /\ Refreshed(s) = "open"
  /\ age' = [age EXCEPT ![s] = IF tripAge[s] > ResetTimeout THEN tripAge[s] - ResetTimeout
                                                             ELSE 0]
  /\ Return(c, s)
  /\ UNCHANGED <<state, failures, tripAge, slots, audit, shut>>

\* The inner adapter raised SourceUnavailableError: nothing is recorded.
InnerUnavailable(c, s) ==
  /\ c \in pending[s]
  /\ s \in Nested
  /\ Refresh(s)
  /\ Return(c, s)
  /\ UNCHANGED <<audit, shut>>

-----------------------------------------------------------------------------

Older(a) == IF a < MaxAge THEN a + 1 ELSE a

Tick(s) ==
  /\ state[s] = "open"
  /\ age' = [age EXCEPT ![s] = Older(@)]
  /\ tripAge' = [tripAge EXCEPT ![s] = Older(@)]
  /\ shut' = [shut EXCEPT ![s] = IF TimedOut(s) THEN @ ELSE @ + 1]
  /\ UNCHANGED <<state, failures, slots, audit, pending>>

Admit(s) == \E c \in Calls : AdmitClosed(c, s) \/ AdmitProbe(c, s)

Outcome(c, s) ==
  \/ Recover(c, s) \/ Succeed(c, s)
  \/ CountFailure(c, s) \/ Trip(c, s) \/ FailWhileOpen(c, s)
  \/ InnerUnavailable(c, s)

Next ==
  \E s \in Sources : \/ Admit(s)
                     \/ \E c \in Calls : Outcome(c, s)
                     \/ Tick(s)

Spec == Init /\ [][Next]_vars

\* Time passes, the pollers keep calling every source, and an adapter returns or
\* raises.
Fairness ==
  \A s \in Sources : /\ WF_vars(Tick(s))
                     /\ WF_vars(Admit(s))
                     /\ \A c \in Calls : WF_vars(Outcome(c, s))

FairSpec == Spec /\ Fairness

-----------------------------------------------------------------------------
\* Properties.

\* Every attribute keeps its range; a closed breaker counts below the threshold.
TypeOK ==
  /\ state \in [Sources -> CircuitState]
  /\ failures \in [Sources -> 0 .. FailureThreshold]
  /\ age \in [Sources -> 0 .. MaxAge]
  /\ tripAge \in [Sources -> 0 .. MaxAge]
  /\ slots \in [Sources -> 0 .. HalfOpenMaxCalls]
  /\ audit \in [Sources -> {"none", "degraded", "recovered"}]
  /\ pending \in [Sources -> SUBSET Calls]
  /\ shut \in [Sources -> Nat]
  /\ \A s \in Sources : state[s] = "closed" => failures[s] < FailureThreshold

\* The audit trail tells an operator the truth: the last event of a source says
\* degraded exactly while its breaker refuses calls, whichever late successes and
\* failures raced with the timeout (_on_success, _on_failure).
AuditTellsState ==
  \A s \in Sources : state[s] # "closed" <=> audit[s] = "degraded"

\* A late failure that finds the breaker still refusing extends the window by at most
\* one more timeout: two timeouts after the trip that opened the window, it is ready for
\* a probe (record_failure, issue #143).  A failure later than that opens a new window.
WindowIsClamped ==
  \A s \in Sources : state[s] = "open" /\ tripAge[s] >= 2 * ResetTimeout => TimedOut(s)

\* Over all the windows that late failures string together: each call that was out when
\* the source was shut, and has come back, has cost it one timeout at most.
ShutByCallsOut ==
  \A s \in Sources :
    shut[s] <= ResetTimeout * (Cardinality(Calls) - Cardinality(pending[s]))

\* A source that trips is not shut out for ever: late failures may restart the
\* timeout, but while it is OPEN no new call can produce one.
OpenEnds == \A s \in Sources : state[s] = "open" ~> state[s] # "open"

\* A source whose inner adapter never refuses a call leaves HALF_OPEN.
ProbesConclude ==
  \A s \in Sources \ Nested : state[s] = "half_open" ~> state[s] # "half_open"
=============================================================================
