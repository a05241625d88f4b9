---------------------------- MODULE SourceProofs ----------------------------
(***************************************************************************)
(* Theorems about what stands between a source and the vacancies table:    *)
(* CircuitBreaker, for any number of sources and calls and every threshold, *)
(* timeout and number of trial calls, and Intake, for any pollers, postings *)
(* and failures.                                                           *)
(***************************************************************************)
EXTENDS CircuitBreaker, Intake, FiniteSetTheorems, TLAPS

-----------------------------------------------------------------------------
\* The breaker.

\* A late failure moves _opened_at to at most one timeout past the trip.
Clamped ==
  \A s \in Sources : /\ age[s] <= tripAge[s]
                     /\ tripAge[s] <= age[s] + ResetTimeout

\* What a window has left of its timeout, and what the calls that are out may add to it.
\* A breaker that is not OPEN has a whole timeout before it.
Spent(s) == IF state[s] # "open" \/ age[s] > ResetTimeout THEN ResetTimeout ELSE age[s]

Accounted ==
  \A s \in Sources :
    /\ state[s] = "closed" => shut[s] = 0
    /\ shut[s] + ResetTimeout * Cardinality(pending[s])
         <= Spent(s) + ResetTimeout * (Cardinality(Calls) - 1)

\* Ages in ticks are natural numbers.
LEMMA MaxAgeNat == MaxAge \in Nat /\ ResetTimeout \in Nat /\ MaxAge >= 2 * ResetTimeout
BY BreakerAssumption

\* Sets of calls are finite: the timeouts they may cost are natural numbers.
LEMMA CallsAreCounted ==
  /\ Cardinality(Calls) \in Nat
  /\ ResetTimeout * Cardinality(Calls) \in Nat
  /\ ResetTimeout * (Cardinality(Calls) - 1) = ResetTimeout * Cardinality(Calls) - ResetTimeout
  /\ \A P \in SUBSET Calls : /\ IsFiniteSet(P) /\ Cardinality(P) \in Nat
                            /\ ResetTimeout * Cardinality(P) \in Nat
                            /\ ResetTimeout * Cardinality(P) <= ResetTimeout * Cardinality(Calls)
<1>1. Cardinality(Calls) \in Nat /\ IsFiniteSet(Calls) /\ ResetTimeout \in Nat
  BY BreakerAssumption, FS_CardinalityType
<1>2. ASSUME NEW k \in Nat PROVE ResetTimeout * k \in Nat
  BY <1>1
<1>3. ASSUME NEW k \in Nat, NEW n \in Nat, k <= n PROVE ResetTimeout * k <= ResetTimeout * n
  <2>1. ResetTimeout * n = ResetTimeout * k + ResetTimeout * (n - k) /\ n - k \in Nat
    BY <1>1, <1>3
  <2>. QED  BY <2>1, <1>1, <1>2
<1>4. ASSUME NEW n \in Nat PROVE ResetTimeout * (n - 1) = ResetTimeout * n - ResetTimeout
  BY <1>1
<1>5. ASSUME NEW P \in SUBSET Calls
      PROVE  IsFiniteSet(P) /\ Cardinality(P) \in Nat /\ Cardinality(P) <= Cardinality(Calls)
  BY <1>1, FS_Subset, FS_CardinalityType
<1>. QED  BY <1>1, <1>2, <1>3, <1>4, <1>5

\* A call that comes back takes one timeout off what the calls out may cost.
LEMMA CallComesBack ==
  ASSUME NEW P \in SUBSET Calls, NEW c \in P
  PROVE  /\ ResetTimeout * Cardinality(P \ {c}) = ResetTimeout * Cardinality(P) - ResetTimeout
         /\ P \ {c} \in SUBSET Calls
<1>1. Cardinality(P \ {c}) = Cardinality(P) - 1 /\ Cardinality(P) \in Nat
  BY CallsAreCounted, FS_RemoveElement
<1>2. ResetTimeout * (Cardinality(P) - 1) = ResetTimeout * Cardinality(P) - ResetTimeout
  BY <1>1, BreakerAssumption
<1>. QED  BY <1>1, <1>2

\* Nothing is open at start.
LEMMA InitInv == Init => TypeOK /\ AuditTellsState /\ Clamped /\ Accounted
<1>1. Init => TypeOK /\ AuditTellsState /\ Clamped
  BY BreakerAssumption DEF Init, TypeOK, CircuitState, AuditTellsState, Clamped
<1>2. Init => Accounted
  BY BreakerAssumption, CallsAreCounted, FS_EmptySet DEF Init, Accounted, Spent
<1>. QED  BY <1>1, <1>2

\* Every call and every tick keeps the attributes in range.
LEMMA TypeStep == TypeOK /\ [Next]_vars => TypeOK'
<1>. SUFFICES ASSUME TypeOK, [Next]_vars PROVE TypeOK'
  OBVIOUS
<1>. USE BreakerAssumption DEF TypeOK, CircuitState, Refreshed, RefreshedSlots, TimedOut,
                               Return, ForgetTrip, Refresh, Open
<1>1. CASE UNCHANGED vars
  BY <1>1 DEF vars
<1>2. ASSUME NEW s \in Sources, NEW c \in Calls, AdmitClosed(c, s) PROVE TypeOK'
  BY <1>2 DEF AdmitClosed
<1>3. ASSUME NEW s \in Sources, NEW c \in Calls, AdmitProbe(c, s) PROVE TypeOK'
  <2>1. RefreshedSlots(s) \in 0 .. HalfOpenMaxCalls - 1
    BY <1>3 DEF AdmitProbe
  <2>2. slots' \in [Sources -> 0 .. HalfOpenMaxCalls]
    <3>1. RefreshedSlots(s) + 1 \in 0 .. HalfOpenMaxCalls
      BY <2>1
    <3>. QED  BY <1>3, <3>1 DEF AdmitProbe
  <2>. QED  BY <1>3, <2>2 DEF AdmitProbe
<1>4. ASSUME NEW s \in Sources, NEW c \in Calls, Recover(c, s) PROVE TypeOK'
  BY <1>4 DEF Recover
<1>5. ASSUME NEW s \in Sources, NEW c \in Calls, Succeed(c, s) PROVE TypeOK'
  BY <1>5 DEF Succeed
<1>6. ASSUME NEW s \in Sources, NEW c \in Calls, CountFailure(c, s) PROVE TypeOK'
  BY <1>6 DEF CountFailure
<1>7. ASSUME NEW s \in Sources, NEW c \in Calls, Trip(c, s) PROVE TypeOK'
  BY <1>7 DEF Trip
<1>8. ASSUME NEW s \in Sources, NEW c \in Calls, FailWhileOpen(c, s) PROVE TypeOK'
  <2>1. age' \in [Sources -> 0 .. MaxAge]
    BY <1>8 DEF FailWhileOpen
  <2>. QED  BY <1>8, <2>1 DEF FailWhileOpen
<1>9. ASSUME NEW s \in Sources, NEW c \in Calls, InnerUnavailable(c, s) PROVE TypeOK'
  BY <1>9 DEF InnerUnavailable
<1>10. ASSUME NEW s \in Sources, Tick(s) PROVE TypeOK'
  <2>1. age' \in [Sources -> 0 .. MaxAge] /\ tripAge' \in [Sources -> 0 .. MaxAge]
    BY <1>10 DEF Tick, Older
  <2>. QED  BY <1>10, <2>1 DEF Tick
<1>. QED  BY <1>1, <1>2, <1>3, <1>4, <1>5, <1>6, <1>7, <1>8, <1>9, <1>10
          DEF Next, Admit, Outcome

\* Only Trip leaves CLOSED and only Recover returns to it, each with its event.
LEMMA AuditStep == TypeOK /\ AuditTellsState /\ [Next]_vars => AuditTellsState'
<1>. SUFFICES ASSUME TypeOK, AuditTellsState, [Next]_vars PROVE AuditTellsState'
  OBVIOUS
<1>. USE DEF TypeOK, AuditTellsState, CircuitState, Refreshed, TimedOut
<1>1. CASE UNCHANGED vars
  BY <1>1 DEF vars
<1>2. ASSUME NEW s \in Sources, NEW c \in Calls, AdmitClosed(c, s) PROVE AuditTellsState'
  BY <1>2 DEF AdmitClosed
<1>3. ASSUME NEW s \in Sources, NEW c \in Calls, AdmitProbe(c, s) PROVE AuditTellsState'
  BY <1>3 DEF AdmitProbe
<1>4. ASSUME NEW s \in Sources, NEW c \in Calls, Recover(c, s) PROVE AuditTellsState'
  BY <1>4 DEF Recover
<1>5. ASSUME NEW s \in Sources, NEW c \in Calls, Succeed(c, s) PROVE AuditTellsState'
  BY <1>5 DEF Succeed
<1>6. ASSUME NEW s \in Sources, NEW c \in Calls, CountFailure(c, s) PROVE AuditTellsState'
  BY <1>6 DEF CountFailure
<1>7. ASSUME NEW s \in Sources, NEW c \in Calls, Trip(c, s) PROVE AuditTellsState'
  BY <1>7 DEF Trip, Open
<1>8. ASSUME NEW s \in Sources, NEW c \in Calls, FailWhileOpen(c, s) PROVE AuditTellsState'
  BY <1>8 DEF FailWhileOpen
<1>9. ASSUME NEW s \in Sources, NEW c \in Calls, InnerUnavailable(c, s)
      PROVE  AuditTellsState'
  BY <1>9 DEF InnerUnavailable, Refresh
<1>10. ASSUME NEW s \in Sources, Tick(s) PROVE AuditTellsState'
  BY <1>10 DEF Tick
<1>. QED  BY <1>1, <1>2, <1>3, <1>4, <1>5, <1>6, <1>7, <1>8, <1>9, <1>10
          DEF Next, Admit, Outcome

\* The two ages move together, except for the clamped reset of a late failure.
LEMMA ClampedStep == TypeOK /\ Clamped /\ [Next]_vars => Clamped'
<1>. SUFFICES ASSUME TypeOK, Clamped, [Next]_vars PROVE Clamped'
  OBVIOUS
<1>. USE BreakerAssumption DEF TypeOK, Clamped
<1>1. ASSUME UNCHANGED <<age, tripAge>> PROVE Clamped'
  BY <1>1
<1>2. ASSUME NEW s \in Sources, ForgetTrip(s) PROVE Clamped'
  BY <1>2 DEF ForgetTrip
<1>3. ASSUME NEW s \in Sources, NEW c \in Calls, Trip(c, s) PROVE Clamped'
  BY <1>3 DEF Trip, Open
<1>4. ASSUME NEW s \in Sources, NEW c \in Calls, FailWhileOpen(c, s) PROVE Clamped'
  <2>1. /\ tripAge' = tripAge
        /\ age' = [age EXCEPT ![s] = IF tripAge[s] > ResetTimeout
                                       THEN tripAge[s] - ResetTimeout ELSE 0]
    BY <1>4 DEF FailWhileOpen
  <2>. QED  BY <2>1
<1>5. ASSUME NEW s \in Sources, Tick(s) PROVE Clamped'
  BY <1>5 DEF Tick, Older
<1>6. ASSUME NEW s \in Sources, NEW c \in Calls, InnerUnavailable(c, s) PROVE Clamped'
  BY <1>1, <1>2, <1>6 DEF InnerUnavailable, Refresh
<1>7. ASSUME NEW s \in Sources, NEW c \in Calls,
             AdmitClosed(c, s) \/ Succeed(c, s) \/ CountFailure(c, s)
      PROVE  Clamped'
  BY <1>1, <1>7 DEF AdmitClosed, Succeed, CountFailure
<1>8. ASSUME NEW s \in Sources, NEW c \in Calls, AdmitProbe(c, s) \/ Recover(c, s)
      PROVE  Clamped'
  BY <1>2, <1>8 DEF AdmitProbe, Recover
<1>9. CASE UNCHANGED vars
  BY <1>1, <1>9 DEF vars
<1>. QED  BY <1>3, <1>4, <1>5, <1>6, <1>7, <1>8, <1>9 DEF Next, Admit, Outcome

\* A tick outside the timeout is paid by the window, a late failure by its own call: the
\* window it opens or extends is no longer than the timeout the call could still add.
LEMMA AccountedStep == TypeOK /\ Accounted /\ [Next]_vars => Accounted'
<1>. SUFFICES ASSUME TypeOK, Accounted, [Next]_vars PROVE Accounted'
  OBVIOUS
<1>. DEFINE Owed(s) == ResetTimeout * Cardinality(pending[s])
            All == ResetTimeout * Cardinality(Calls)
<1>t. \A s \in Sources : /\ shut[s] \in Nat /\ age[s] \in Nat /\ Spent(s) \in Nat
                         /\ Spent(s) <= ResetTimeout
                         /\ Owed(s) \in Nat /\ Owed(s) <= All
  BY CallsAreCounted, BreakerAssumption DEF TypeOK, Spent
<1>r. ResetTimeout \in Nat \ {0} /\ All \in Nat /\ MaxAge \in Nat /\ MaxAge >= 2 * ResetTimeout
  BY CallsAreCounted, BreakerAssumption
<1>a. \A s \in Sources : /\ state[s] = "closed" => shut[s] = 0
                         /\ shut[s] + Owed(s) <= Spent(s) + All - ResetTimeout
  BY CallsAreCounted, <1>t, <1>r DEF Accounted
<1>. SUFFICES ASSUME NEW s \in Sources
              PROVE  /\ state'[s] = "closed" => shut'[s] = 0
                     /\ shut'[s] + Owed(s)' <= Spent(s)' + All - ResetTimeout
  BY CallsAreCounted, <1>r DEF Accounted
<1>. HIDE DEF Owed, All
<1>u. ASSUME shut'[s] = shut[s], state'[s] = state[s], age'[s] = age[s], pending'[s] = pending[s]
      PROVE  /\ state'[s] = "closed" => shut'[s] = 0
             /\ shut'[s] + Owed(s)' <= Spent(s)' + All - ResetTimeout
  BY <1>u, <1>a DEF Spent, Owed
<1>v. ASSUME NEW c \in pending[s], pending'[s] = pending[s] \ {c}
      PROVE  Owed(s)' = Owed(s) - ResetTimeout
  BY <1>v, CallComesBack DEF Owed, TypeOK
<1>w. pending'[s] \in SUBSET Calls => Owed(s)' \in Nat /\ Owed(s)' <= All
  BY CallsAreCounted DEF Owed, All
<1>1. ASSUME NEW c \in Calls, AdmitClosed(c, s)
      PROVE  /\ state'[s] = "closed" => shut'[s] = 0
             /\ shut'[s] + Owed(s)' <= Spent(s)' + All - ResetTimeout
  <2>1. state'[s] = "closed" /\ shut'[s] = 0 /\ pending'[s] \in SUBSET Calls
    BY <1>1, <1>a DEF AdmitClosed, TypeOK
  <2>. QED  BY <2>1, <1>w, <1>r DEF Spent
<1>2. ASSUME NEW c \in Calls, AdmitProbe(c, s)
      PROVE  /\ state'[s] = "closed" => shut'[s] = 0
             /\ shut'[s] + Owed(s)' <= Spent(s)' + All - ResetTimeout
  <2>1. state'[s] = "half_open" /\ shut'[s] = 0 /\ pending'[s] \in SUBSET Calls
    BY <1>2 DEF AdmitProbe, TypeOK
  <2>. QED  BY <2>1, <1>w, <1>r DEF Spent
<1>3. ASSUME NEW c \in Calls, Recover(c, s)
      PROVE  /\ state'[s] = "closed" => shut'[s] = 0
             /\ shut'[s] + Owed(s)' <= Spent(s)' + All - ResetTimeout
  <2>1. state'[s] = "closed" /\ shut'[s] = 0 /\ pending'[s] \in SUBSET Calls
    BY <1>3 DEF Recover, Return, TypeOK
  <2>. QED  BY <2>1, <1>w, <1>r DEF Spent
<1>4. ASSUME NEW c \in Calls, Succeed(c, s) \/ CountFailure(c, s)
      PROVE  /\ state'[s] = "closed" => shut'[s] = 0
             /\ shut'[s] + Owed(s)' <= Spent(s)' + All - ResetTimeout
  <2>1. /\ c \in pending[s] /\ pending'[s] = pending[s] \ {c}
        /\ state'[s] = state[s] /\ age'[s] = age[s] /\ shut'[s] = shut[s]
    BY <1>4 DEF Succeed, CountFailure, Return, TypeOK
  <2>. QED  BY <2>1, <1>v, <1>a, <1>t, <1>r DEF Spent
<1>5. ASSUME NEW c \in Calls, Trip(c, s)
      PROVE  /\ state'[s] = "closed" => shut'[s] = 0
             /\ shut'[s] + Owed(s)' <= Spent(s)' + All - ResetTimeout
  <2>1. /\ c \in pending[s] /\ pending'[s] = pending[s] \ {c}
        /\ state'[s] = "open" /\ age'[s] = 0 /\ shut'[s] = shut[s]
    BY <1>5 DEF Trip, Open, Return, TypeOK
  <2>. QED  BY <2>1, <1>v, <1>a, <1>t, <1>r DEF Spent
<1>6. ASSUME NEW c \in Calls, FailWhileOpen(c, s)
      PROVE  /\ state'[s] = "closed" => shut'[s] = 0
             /\ shut'[s] + Owed(s)' <= Spent(s)' + All - ResetTimeout
  <2>1. /\ c \in pending[s] /\ pending'[s] = pending[s] \ {c}
        /\ state[s] = "open" /\ state'[s] = "open" /\ shut'[s] = shut[s]
        /\ tripAge[s] \in Nat
        /\ age'[s] = IF tripAge[s] > ResetTimeout THEN tripAge[s] - ResetTimeout ELSE 0
    BY <1>6, BreakerAssumption
       DEF FailWhileOpen, Refreshed, TimedOut, Return, TypeOK, CircuitState
  <2>2. age'[s] \in Nat
    BY <2>1, <1>r
  <2>3. Spent(s)' \in Nat
    BY <2>2, <1>r DEF Spent
  <2>. QED  BY <2>1, <2>3, <1>v, <1>a, <1>t, <1>r
<1>7. ASSUME NEW c \in Calls, InnerUnavailable(c, s)
      PROVE  /\ state'[s] = "closed" => shut'[s] = 0
             /\ shut'[s] + Owed(s)' <= Spent(s)' + All - ResetTimeout
  <2>1. /\ c \in pending[s] /\ pending'[s] = pending[s] \ {c} /\ shut'[s] = shut[s]
        /\ \/ state'[s] = state[s] /\ age'[s] = age[s]
           \/ state'[s] = "half_open"
    BY <1>7 DEF InnerUnavailable, Return, Refresh, Refreshed, ForgetTrip, TypeOK
  <2>. QED  BY <2>1, <1>v, <1>a, <1>t, <1>r DEF Spent
<1>8. ASSUME Tick(s)
      PROVE  /\ state'[s] = "closed" => shut'[s] = 0
             /\ shut'[s] + Owed(s)' <= Spent(s)' + All - ResetTimeout
  <2>1. /\ state[s] = "open" /\ state'[s] = "open" /\ Owed(s)' = Owed(s)
        /\ age'[s] = IF age[s] < MaxAge THEN age[s] + 1 ELSE age[s]
        /\ shut'[s] = IF age[s] >= ResetTimeout THEN shut[s] ELSE shut[s] + 1
    BY <1>8 DEF Tick, Older, TimedOut, TypeOK, Owed
  <2>. QED  BY <2>1, <1>a, <1>t, <1>r DEF Spent
<1>9. ASSUME NEW q \in Sources \ {s}, NEW c \in Calls, AdmitClosed(c, q) \/ AdmitProbe(c, q)
                                                        \/ Outcome(c, q)
      PROVE  /\ shut'[s] = shut[s] /\ state'[s] = state[s]
             /\ age'[s] = age[s] /\ pending'[s] = pending[s]
  BY <1>9 DEF AdmitClosed, AdmitProbe, Outcome, Recover, Succeed, CountFailure, Trip, Open,
              FailWhileOpen, InnerUnavailable, Refresh, ForgetTrip, Return, Tick, TypeOK
<1>10. ASSUME NEW q \in Sources \ {s}, Tick(q)
       PROVE  /\ shut'[s] = shut[s] /\ state'[s] = state[s]
              /\ age'[s] = age[s] /\ pending'[s] = pending[s]
  BY <1>10 DEF Tick, TypeOK
<1>11. CASE UNCHANGED vars
  BY <1>11, <1>u DEF vars
<1>. QED  BY <1>1, <1>2, <1>3, <1>4, <1>5, <1>6, <1>7, <1>8, <1>9, <1>10, <1>11, <1>u
          DEF Next, Admit, Outcome

\* The invariants hold together in every reachable state.
LEMMA Invariance == Spec => [](TypeOK /\ AuditTellsState /\ Clamped /\ Accounted)
<1>1. TypeOK /\ AuditTellsState /\ Clamped /\ Accounted /\ [Next]_vars
        => (TypeOK /\ AuditTellsState /\ Clamped /\ Accounted)'
  BY TypeStep, AuditStep, ClampedStep, AccountedStep
<1>. QED  BY InitInv, <1>1, PTL DEF Spec

-----------------------------------------------------------------------------

\* Every attribute of a breaker keeps its range; trial calls stay within their limit.
THEOREM TypeCorrect == Spec => []TypeOK
BY Invariance, PTL

\* For every interleaving of calls and timeouts, the last audit event of a source says
\* degraded exactly while its breaker is not CLOSED.
THEOREM AuditIsTrue == Spec => []AuditTellsState
BY Invariance, PTL

\* Two timeouts after the trip that opened a window the breaker is ready for a probe,
\* however many failures came in before its timeout: the clamp of issue #143, for every
\* threshold and timeout.  What failures after the timeout do is the next theorem.
THEOREM WindowsAreClamped == Spec => []WindowIsClamped
<1>1. TypeOK /\ Clamped => WindowIsClamped
  BY BreakerAssumption DEF TypeOK, Clamped, WindowIsClamped, TimedOut
<1>. QED  BY <1>1, Invariance, PTL

\* However late failures string windows together, a source refuses calls for at most one
\* timeout per call that was out when it was shut and has come back.
THEOREM ShutOutIsBounded == Spec => []ShutByCallsOut
<1>1. ASSUME TypeOK, Accounted, NEW s \in Sources
      PROVE  shut[s] <= ResetTimeout * (Cardinality(Calls) - Cardinality(pending[s]))
  <2>1. /\ shut[s] \in Nat /\ Spent(s) \in Nat /\ Spent(s) <= ResetTimeout
        /\ pending[s] \in SUBSET Calls
    BY <1>1, BreakerAssumption DEF TypeOK, Spent
  <2>2. ResetTimeout * (Cardinality(Calls) - Cardinality(pending[s]))
          = ResetTimeout * Cardinality(Calls) - ResetTimeout * Cardinality(pending[s])
    BY <2>1, CallsAreCounted, BreakerAssumption
  <2>. QED  BY <1>1, <2>1, <2>2, CallsAreCounted, BreakerAssumption DEF Accounted
<1>2. TypeOK /\ Accounted => ShutByCallsOut
  BY <1>1 DEF ShutByCallsOut
<1>. QED  BY <1>2, Invariance, PTL
-----------------------------------------------------------------------------
\* Ingestion.

IntakeTypeOK ==
  /\ offered \in [Pollers -> SUBSET Postings] /\ published \in [Pollers -> SUBSET Postings]
  /\ rows \in [Keys -> Postings \cup {NoPosting}]
  /\ writer \in [Keys -> Pollers \cup {NoPosting}]
  /\ stage \in [Pollers -> {"idle", "batch", "source", "hash", "store"}]
  /\ attempt \in [Pollers -> 1..RetryCount]
  /\ batch \in [Pollers -> SUBSET Postings]
  /\ faults \in Nat

\* A call that is past the lookup of a batch has one posting.
OnePosting(p) == stage[p] \in {"source", "hash", "store"} => \A v, w \in batch[p] : v = w

\* Row k was last written by p.
WroteLast(p, k) == rows[k] # NoPosting /\ writer[k] = p

\* The texts of a poller's rows are all different, and different from the one that it
\* is about to store.  Other pollers can only take rows over, so this survives what
\* they store.
OwnTexts(p) ==
  /\ \A k, l \in Keys :
       WroteLast(p, k) /\ WroteLast(p, l) /\ HashOf[rows[k]] = HashOf[rows[l]] => k = l
  /\ stage[p] = "store" =>
       \A v \in batch[p], k \in Keys : WroteLast(p, k) => HashOf[rows[k]] # HashOf[v]

IntakeInv == IntakeTypeOK /\ \A p \in Pollers : OnePosting(p) /\ OwnTexts(p)

\* Nobody has anything at start.
LEMMA IntakeInitInv == IntakeInit => IntakeInv
<1>. SUFFICES ASSUME IntakeInit PROVE IntakeInv
  OBVIOUS
<1>1. IntakeTypeOK
  BY IntakeAssumption DEF IntakeInit, IntakeTypeOK
<1>2. \A p \in Pollers : OnePosting(p) /\ OwnTexts(p)
  BY DEF IntakeInit, OnePosting, OwnTexts, WroteLast
<1>. QED  BY <1>1, <1>2 DEF IntakeInv

\* Every step keeps the variables in range.
LEMMA IntakeTypeStep == IntakeTypeOK /\ [IntakeNext]_intakeVars => IntakeTypeOK'
<1>. SUFFICES ASSUME IntakeTypeOK, [IntakeNext]_intakeVars PROVE IntakeTypeOK'
  OBVIOUS
<1>. USE IntakeAssumption DEF IntakeTypeOK
<1>0. CASE UNCHANGED intakeVars
  BY <1>0 DEF intakeVars
<1>1. ASSUME NEW p \in Pollers, NEW v \in Postings, Publish(p, v) PROVE IntakeTypeOK'
  BY <1>1 DEF Publish
<1>2. ASSUME NEW p \in Pollers, Fetch(p) PROVE IntakeTypeOK'
  <2>1. PICK got \in Batches(p) :
          /\ batch' = [batch EXCEPT ![p] = got]
          /\ offered' = [offered EXCEPT ![p] = LeftAfterFetch(p, got)]
    BY <1>2 DEF Fetch
  <2>2. got \in SUBSET Postings /\ LeftAfterFetch(p, got) \in SUBSET Postings
    BY <2>1 DEF Batches, LeftAfterFetch
  <2>. QED  BY <1>2, <2>1, <2>2 DEF Fetch
<1>3. ASSUME NEW p \in Pollers, FetchAgain(p) \/ FetchFails(p) PROVE IntakeTypeOK'
  BY <1>3 DEF FetchAgain, FetchFails
<1>4. ASSUME NEW p \in Pollers, DrainBreaks(p) PROVE IntakeTypeOK'
  BY <1>4 DEF DrainBreaks
<1>5. ASSUME NEW p \in Pollers, BatchRaises(p) \/ Raise(p) PROVE IntakeTypeOK'
  BY <1>5 DEF BatchRaises, Raise, EndCall
<1>6. ASSUME NEW p \in Pollers, NEW v \in Postings, FindBySource(p, v) \/ FindByHash(p, v)
      PROVE  IntakeTypeOK'
  BY <1>6 DEF FindBySource, FindByHash, EndCall
<1>7. ASSUME NEW p \in Pollers, NEW v \in Postings, Upsert(p, v) PROVE IntakeTypeOK'
  BY <1>7 DEF Upsert, EndCall, Keys
<1>. QED  BY <1>0, <1>1, <1>2, <1>3, <1>4, <1>5, <1>6, <1>7 DEF IntakeNext, Step

\* What changes no row keeps a poller's texts different, unless the poller goes on to
\* store, or to store something else.
LEMMA OwnTextsKept ==
  ASSUME NEW q \in Pollers, OwnTexts(q), UNCHANGED <<rows, writer>>,
         stage'[q] = "store" => stage[q] = "store" /\ batch'[q] = batch[q]
  PROVE  OwnTexts(q)'
BY DEF OwnTexts, WroteLast

\* An upsert by the poller itself puts a text into the table that no row of its has.
LEMMA OwnTextsUpsert ==
  ASSUME IntakeTypeOK, NEW q \in Pollers, OwnTexts(q), NEW v \in Postings, Upsert(q, v)
  PROVE  OwnTexts(q)'
<1>1. /\ Key(v) \in Keys /\ stage[q] = "store" /\ v \in batch[q]
      /\ rows'[Key(v)] = v /\ writer'[Key(v)] = q
      /\ \A k \in Keys \ {Key(v)} : rows'[k] = rows[k] /\ writer'[k] = writer[k]
  BY DEF Upsert, IntakeTypeOK, Keys
<1>2. \A k \in Keys \ {Key(v)} : WroteLast(q, k)' <=> WroteLast(q, k)
  BY <1>1 DEF WroteLast
<1>3. \A k, l \in Keys :
        WroteLast(q, k)' /\ WroteLast(q, l)' /\ HashOf[rows'[k]] = HashOf[rows'[l]] => k = l
  <2>. SUFFICES ASSUME NEW k \in Keys, NEW l \in Keys, WroteLast(q, k)', WroteLast(q, l)',
                       HashOf[rows'[k]] = HashOf[rows'[l]], k # l
                PROVE  FALSE
    OBVIOUS
  <2>1. CASE k = Key(v)
    BY <1>1, <1>2, <2>1 DEF OwnTexts
  <2>2. CASE l = Key(v)
    BY <1>1, <1>2, <2>2 DEF OwnTexts
  <2>3. CASE k # Key(v) /\ l # Key(v)
    BY <1>1, <1>2, <2>3 DEF OwnTexts
  <2>. QED  BY <2>1, <2>2, <2>3
<1>4. stage'[q] # "store"
  BY DEF Upsert, EndCall, IntakeTypeOK
<1>. QED  BY <1>3, <1>4 DEF OwnTexts

\* An upsert by another poller only takes a row over.
LEMMA OwnTextsOthers ==
  ASSUME IntakeTypeOK, NEW q \in Pollers, OwnTexts(q),
         NEW p \in Pollers \ {q}, NEW v \in Postings, Upsert(p, v)
  PROVE  OwnTexts(q)'
<1>1. /\ stage'[q] = stage[q] /\ batch'[q] = batch[q]
      /\ Key(v) \in Keys /\ writer'[Key(v)] = p
      /\ \A k \in Keys \ {Key(v)} : rows'[k] = rows[k] /\ writer'[k] = writer[k]
  BY DEF Upsert, EndCall, IntakeTypeOK, Keys
<1>2. \A k \in Keys : WroteLast(q, k)' => rows'[k] = rows[k] /\ WroteLast(q, k)
  BY <1>1 DEF WroteLast
<1>. QED  BY <1>1, <1>2 DEF OwnTexts

\* A poller goes on to store a posting only when no row has its text.
LEMMA OwnTextsLookup ==
  ASSUME IntakeTypeOK, NEW q \in Pollers, OnePosting(q), OwnTexts(q),
         NEW v \in Postings, FindByHash(q, v)
  PROVE  OwnTexts(q)'
<1>1. UNCHANGED <<rows, writer>>
  BY DEF FindByHash
<1>2. CASE \E w \in Stored : SameText(v, w)
  <2>1. stage'[q] = "idle"
    BY <1>2 DEF FindByHash, EndCall, IntakeTypeOK
  <2>. QED  BY <1>1, <2>1, OwnTextsKept
<1>3. CASE ~\E w \in Stored : SameText(v, w)
  <2>1. batch'[q] = batch[q] /\ \A w \in batch[q] : w = v
    BY <1>3 DEF FindByHash, OnePosting
  <2>2. \A k \in Keys : rows[k] # NoPosting => HashOf[rows[k]] # HashOf[v]
    BY <1>3 DEF Stored, SameText
  <2>. QED  BY <1>1, <2>1, <2>2 DEF OwnTexts, WroteLast
<1>. QED  BY <1>2, <1>3

\* What a call of p does to its poller, and to the others.
LEMMA EndedCall ==
  ASSUME IntakeTypeOK, NEW p \in Pollers, EndCall(p), NEW q \in Pollers
  PROVE  IF q = p THEN stage'[q] = "idle" ELSE stage'[q] = stage[q] /\ batch'[q] = batch[q]
BY DEF EndCall, IntakeTypeOK

\* Every step keeps every call past the batch lookup at one posting.
LEMMA OnePostingStep ==
  ASSUME IntakeTypeOK, [IntakeNext]_intakeVars, NEW q \in Pollers, OnePosting(q)
  PROVE  OnePosting(q)'
<1>. USE DEF OnePosting
<1>1. CASE UNCHANGED <<stage, batch>>
  BY <1>1
<1>2. ASSUME NEW p \in Pollers, Fetch(p) PROVE OnePosting(q)'
  <2>1. PICK got \in Batches(p) :
          batch' = [batch EXCEPT ![p] = got]
            /\ stage' = [stage EXCEPT ![p] = IF p \in Singles THEN "source" ELSE "batch"]
    BY <1>2 DEF Fetch
  <2>2. p \in Singles => \A v, w \in got : v = w
    BY <2>1 DEF Batches
  <2>. QED  BY <2>1, <2>2 DEF IntakeTypeOK
<1>3. ASSUME NEW p \in Pollers, EndCall(p) PROVE OnePosting(q)'
  BY <1>3, EndedCall
<1>4. ASSUME NEW p \in Pollers, NEW v \in Postings, FindBySource(p, v) \/ FindByHash(p, v)
      PROVE  OnePosting(q)'
  <2>1. \/ EndCall(p)
        \/ UNCHANGED batch /\ stage[p] \in {"source", "hash"}
             /\ \A r \in Pollers \ {p} : stage'[r] = stage[r]
    BY <1>4 DEF FindBySource, FindByHash, IntakeTypeOK
  <2>. QED  BY <1>3, <2>1
<1>. QED
  BY <1>1, <1>2, <1>3, <1>4
  DEF IntakeNext, Step, intakeVars, Publish, FetchAgain, FetchFails, DrainBreaks, BatchRaises,
      Upsert, Raise

\* Every step keeps the texts of every poller different.
LEMMA OwnTextsStep ==
  ASSUME IntakeTypeOK, [IntakeNext]_intakeVars, NEW q \in Pollers, OnePosting(q), OwnTexts(q)
  PROVE  OwnTexts(q)'
<1>1. CASE UNCHANGED <<rows, writer, stage, batch>>
  BY <1>1, OwnTextsKept
<1>2. ASSUME NEW p \in Pollers, Fetch(p) PROVE OwnTexts(q)'
  <2>1. UNCHANGED <<rows, writer>>
    BY <1>2 DEF Fetch
  <2>2. stage'[q] = "store" => stage[q] = "store" /\ batch'[q] = batch[q]
    BY <1>2 DEF Fetch, IntakeTypeOK
  <2>. QED  BY <2>1, <2>2, OwnTextsKept
<1>3. ASSUME NEW p \in Pollers, EndCall(p), UNCHANGED <<rows, writer>> PROVE OwnTexts(q)'
  BY <1>3, EndedCall, OwnTextsKept
<1>4. ASSUME NEW p \in Pollers, NEW v \in Postings, FindBySource(p, v) PROVE OwnTexts(q)'
  <2>1. UNCHANGED <<rows, writer>>
    BY <1>4 DEF FindBySource
  <2>2. stage'[q] = "store" => stage[q] = "store" /\ batch'[q] = batch[q]
    BY <1>4, EndedCall DEF FindBySource, IntakeTypeOK
  <2>. QED  BY <2>1, <2>2, OwnTextsKept
<1>5. ASSUME NEW p \in Pollers, NEW v \in Postings, FindByHash(p, v) PROVE OwnTexts(q)'
  <2>1. CASE p # q
    <3>1. UNCHANGED <<rows, writer>> /\ stage'[q] = stage[q] /\ batch'[q] = batch[q]
      BY <1>5, <2>1, EndedCall DEF FindByHash, IntakeTypeOK
    <3>. QED  BY <3>1, OwnTextsKept
  <2>. QED  BY <1>5, <2>1, OwnTextsLookup
<1>6. ASSUME NEW p \in Pollers, NEW v \in Postings, Upsert(p, v) PROVE OwnTexts(q)'
  BY <1>6, OwnTextsUpsert, OwnTextsOthers
<1>. QED
  BY <1>1, <1>2, <1>3, <1>4, <1>5, <1>6
  DEF IntakeNext, Step, intakeVars, Publish, FetchAgain, FetchFails, DrainBreaks, BatchRaises, Raise

\* Initially and by every step.
LEMMA IntakeInvariance == IntakeSpec => []IntakeInv
<1>1. IntakeInv /\ [IntakeNext]_intakeVars => IntakeInv'
  BY IntakeTypeStep, OnePostingStep, OwnTextsStep DEF IntakeInv
<1>. QED  BY IntakeInitInv, <1>1, PTL DEF IntakeSpec

\* For any pollers, postings and failures the variables stay in range.
THEOREM IntakeTypeCorrect == IntakeSpec => []IntakeTypeOK
<1>. QED  BY IntakeInvariance, PTL DEF IntakeInv

\* No two elements: at most one.
LEMMA AtMostOne ==
  ASSUME NEW S, \A x, y \in S : x = y
  PROVE  Cardinality(S) <= 1
<1>1. CASE S = {}
  BY <1>1, FS_EmptySet
<1>2. CASE S # {}
  <2>1. PICK x : S = {x}
    BY <1>2
  <2>. QED  BY <2>1, FS_Singleton
<1>. QED  BY <1>1, <1>2

\* Whatever the order of lookups, upserts and failures of all pollers, none of them
\* stores a text twice, although nothing in the table forbids it.
THEOREM TextsStoredOnce == IntakeSpec => []OneCopyPerPoller
<1>1. IntakeInv => OneCopyPerPoller
  <2>. SUFFICES ASSUME IntakeInv, NEW h, NEW p \in Pollers
                PROVE  Cardinality({k \in RowsWith(h) : writer[k] = p}) <= 1
    BY DEF OneCopyPerPoller
  <2>1. \A k, l \in {x \in RowsWith(h) : writer[x] = p} : k = l
    BY DEF IntakeInv, OwnTexts, WroteLast, RowsWith
  <2>. QED  BY <2>1, AtMostOne
<1>. QED  BY IntakeInvariance, <1>1, PTL
=============================================================================
