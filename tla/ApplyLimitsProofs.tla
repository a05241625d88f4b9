------------------------- MODULE ApplyLimitsProofs -------------------------
(***************************************************************************)
(* Proofs about ApplyLimits, for any number of users, requests, matches and *)
(* rows and any limits and window lengths.                                  *)
(***************************************************************************)
EXTENDS ApplyLimits, FiniteSetTheorems, WellFoundedInduction, TLAPS

\* Requests of u that passed the check and may still record a row.
Holding(u) == {r \in RequestsOf(u) : pc[r] \in {"lookup", "insert", "record"}}

\* With those whose hourly count lets them pass.
Promised(u) ==
  Holding(u) \cup {r \in RequestsOf(u) : pc[r] = "countDay" /\ hourly[r].used < HourlyLimit}

\* Rows and promises of a user together stay within the overrun: one that is made
\* finds a free place, and there are never more of them than requests.
Room ==
  \A u \in Users : RequestsOf(u) # {} =>
    /\ Used(u, Hour) + Cardinality(Promised(u)) <= HourlyLimit + Cardinality(RequestsOf(u)) - 1
    /\ Used(u, Day) + Cardinality(Holding(u)) <= DailyLimit + Cardinality(RequestsOf(u)) - 1

\* The rows that a request counted are as old as it knows, plus the tick since.
CountsHold ==
  \A r \in Requests : pc[r] = "countDay" /\ hourly[r].used > 0 =>
    /\ hourly[r].oldest <= Hour
    /\ \A b \in 0 .. Day : b = hourly[r].oldest + hourly[r].late =>
                              hourly[r].used <= Used(UserOf[r], b)

\* As long as a hint has more than a second to run, so have the rows behind it.
HintHolds ==
  \A u \in Users : wait[u] # NoHint /\ wait[u] >= Second =>
    \A b \in Nat : b = wait[u] - Second =>
      HourlyLimit <= Used(u, Hour - b) \/ DailyLimit <= Used(u, Day - b)

-----------------------------------------------------------------------------
\* Numbers and sets.

\* A nonempty set of natural numbers has a least one.
LEMMA Least ==
  ASSUME NEW T \in SUBSET Nat, T # {}
  PROVE  \E x \in T : \A y \in T : x <= y
<1>. DEFINE R == {p \in Nat \X Nat : p[1] < p[2]}
<1>1. R = OpToRel(<, Nat)
  BY DEF OpToRel
<1>2. IsWellFoundedOn(R, Nat)
  BY <1>1, NatLessThanWellFounded
<1>3. \E x \in T : \A y \in T : ~(<<y, x>> \in R)
  BY <1>2, WFMin
<1>4. \A x, y \in Nat : <<y, x>> \notin R => x <= y
  <2>. TAKE x, y \in Nat
  <2>1. y < x => <<y, x>> \in R
    BY Zenon
  <2>. QED
    BY <2>1
<1>. HIDE DEF R
<1>. QED
  BY <1>3, <1>4

\* A nonempty set of numbers up to w has a greatest one.
LEMMA Greatest ==
  ASSUME NEW w \in Nat, NEW T \in SUBSET (0 .. w), T # {}
  PROVE  \E x \in T : \A y \in T : y <= x
<1>. DEFINE Rest == {w - y : y \in T}
<1>1. Rest \in SUBSET Nat /\ Rest # {}
  <2>1. \A y \in T : w - y \in Nat
    OBVIOUS
  <2>2. PICK y \in T : TRUE
    OBVIOUS
  <2>3. w - y \in Rest
    OBVIOUS
  <2>. QED
    BY <2>1, <2>3
<1>2. PICK z \in Rest : \A y \in Rest : z <= y
  BY <1>1, Least
<1>3. PICK x \in T : z = w - x
  BY <1>2
<1>4. \A y \in T : w - x <= w - y
  BY <1>2, <1>3
<1>. QED
  BY <1>4

\* Whole seconds are not more than what was divided.
LEMMA WholeSeconds ==
  ASSUME NEW d \in Nat, NEW s \in Nat \ {0}
  PROVE  /\ d \div s \in Nat /\ (d \div s) * s \in Nat
         /\ (d \div s) * s <= d /\ (d = 0 => d \div s = 0)
BY SMT

LEMMA Subset ==
  ASSUME NEW B, IsFiniteSet(B), NEW A \in SUBSET B
  PROVE  /\ IsFiniteSet(A)
         /\ Cardinality(A) \in Nat /\ Cardinality(B) \in Nat
         /\ Cardinality(A) <= Cardinality(B)
BY FS_Subset, FS_CardinalityType

LEMMA OneMore ==
  ASSUME NEW B, IsFiniteSet(B), NEW x, NEW A \in SUBSET (B \cup {x})
  PROVE  Cardinality(A) \in Nat /\ Cardinality(A) <= Cardinality(B) + 1
<1>1. Cardinality(B) \in Nat
  BY FS_CardinalityType
<1>2. IsFiniteSet(B \cup {x})
        /\ Cardinality(B \cup {x}) = IF x \in B THEN Cardinality(B) ELSE Cardinality(B) + 1
  BY FS_AddElement
<1>3. Cardinality(A) \in Nat /\ Cardinality(A) <= Cardinality(B \cup {x})
  BY <1>2, Subset
<1>. QED
  BY <1>1, <1>2, <1>3

LEMMA OneLess ==
  ASSUME NEW B, IsFiniteSet(B), NEW x \in B, NEW A \in SUBSET (B \ {x})
  PROVE  Cardinality(A) \in Nat /\ Cardinality(A) <= Cardinality(B) - 1
<1>1. IsFiniteSet(B \ {x}) /\ Cardinality(B \ {x}) = Cardinality(B) - 1
  BY FS_RemoveElement
<1>. QED
  BY <1>1, Subset, FS_CardinalityType

-----------------------------------------------------------------------------
\* The windows.

LEMMA InWindowFinite ==
  ASSUME NEW u, NEW a
  PROVE  IsFiniteSet(InWindow(u, a)) /\ Used(u, a) \in Nat
BY LimitsAssumption, Subset, FS_Subset, FS_CardinalityType DEF InWindow, Used

\* A longer window holds no fewer rows.
LEMMA UsedGrows ==
  ASSUME TypeOK, NEW u \in Users, NEW a \in Int, NEW b \in Int, a <= b
  PROVE  Used(u, a) <= Used(u, b)
<1>1. InWindow(u, a) \subseteq InWindow(u, b)
  BY LimitsAssumption DEF TypeOK, InWindow, Ages, Free
<1>. QED
  BY <1>1, InWindowFinite, Subset DEF Used

\* What a count says is in range, and no row it counted is older than oldest.
LEMMA CountIsTrue ==
  ASSUME TypeOK, NEW u \in Users, NEW w \in 0 .. Day, NEW late \in {0, 1}
  PROVE  LET c == CountInWindow(u, w, late) IN
           /\ c \in [used : Nat, oldest : Ages, late : {0, 1}]
           /\ c.used = Used(u, w) /\ c.late = late
           /\ c.used > 0 => c.oldest <= w /\ c.used <= Used(u, c.oldest)
<1>. DEFINE c == CountInWindow(u, w, late)
            T == {age[u][s] : s \in InWindow(u, w)}
            IsOldest(a) == (\E s \in InWindow(u, w) : age[u][s] = a)
                             /\ (\A s \in InWindow(u, w) : age[u][s] <= a)
<1>. USE LimitsAssumption
<1>1. c.used = Used(u, w) /\ c.late = late /\ c.used \in Nat
  BY InWindowFinite DEF CountInWindow
<1>2. CASE InWindow(u, w) = {}
  <2>1. c.used = 0
    BY <1>1, <1>2, FS_EmptySet DEF Used
  <2>2. c = [used |-> Used(u, w), late |-> late, oldest |-> Free]
    BY <1>2 DEF CountInWindow
  <2>. QED
    BY <1>1, <2>1, <2>2 DEF Ages, Free
<1>3. CASE InWindow(u, w) # {}
  <2>1. T \in SUBSET (0 .. w) /\ T # {}
    <3>1. \A s \in InWindow(u, w) : age[u][s] \in 0 .. w
      BY DEF TypeOK, InWindow, Ages, Free
    <3>2. PICK s \in InWindow(u, w) : TRUE
      BY <1>3
    <3>3. age[u][s] \in T
      BY <3>2
    <3>. QED
      BY <3>1, <3>3
  <2>2. \E a \in T : \A b \in T : b <= a
    <3>1. w \in Nat
      OBVIOUS
    <3>. HIDE DEF T
    <3>. QED
      BY <2>1, <3>1, Greatest
  <2>3. \E a \in 0 .. w : IsOldest(a)
    BY <2>1, <2>2
  <2>4. c = [used |-> Used(u, w), late |-> late, oldest |-> CHOOSE a \in 0 .. w : IsOldest(a)]
    BY <1>3 DEF CountInWindow
  <2>5. c.oldest \in 0 .. w /\ IsOldest(c.oldest)
    BY <2>3, <2>4
  <2>6. InWindow(u, w) \subseteq InWindow(u, c.oldest)
    BY <2>5 DEF InWindow
  <2>7. Used(u, w) <= Used(u, c.oldest)
    BY <2>6, InWindowFinite, Subset DEF Used
  <2>. QED
    BY <1>1, <2>4, <2>5, <2>7 DEF Ages, Free
<1>. QED
  BY <1>2, <1>3

-----------------------------------------------------------------------------
\* The hint.

\* A hint of a window covers the rest of its oldest row's time there, cut to
\* whole seconds, or one second.
LEMMA ResetFits ==
  ASSUME NEW c \in [used : Nat, oldest : Ages, late : {0, 1}],
         NEW w \in {Hour, Day}, c.oldest <= w
  PROVE  LET n == ResetIn(c, w)
             delta == w - c.oldest + c.late
         IN  /\ n \in Nat /\ n * Second \in Nat
             /\ n > 0 => delta > 0 /\ (n * Second = Second \/ n * Second <= delta)
<1>. DEFINE delta == w - c.oldest + c.late
            q == delta \div Second
            n == ResetIn(c, w)
<1>. USE LimitsAssumption DEF Ages, Free
<1>1. delta \in Nat
  OBVIOUS
<1>2. q \in Nat /\ q * Second \in Nat /\ q * Second <= delta /\ (delta = 0 => q = 0)
  <2>. HIDE DEF delta
  <2>. QED
    BY <1>1, WholeSeconds
<1>3. n = IF delta > 0 /\ q = 0 THEN 1 ELSE q
  BY DEF ResetIn
<1>4. 1 * Second = Second /\ Second \in Nat
  OBVIOUS
<1>. HIDE DEF delta, q, n
<1>. QED
  BY <1>1, <1>2, <1>3, <1>4 DEF delta, n

\* The hint of a 429 is that of a window that is used up, or nothing.
LEMMA HintIsOfAWindow ==
  ASSUME NEW h \in [used : Nat, oldest : Ages, late : {0, 1}],
         NEW d \in [used : Nat, oldest : Ages, late : {0, 1}],
         h.used > 0 => h.oldest <= Hour, d.used > 0 => d.oldest <= Day
  PROVE  LET n == RetryAfter(h, d) IN
           \/ n = 0
           \/ n > 0 /\ n = ResetIn(h, Hour) /\ h.used >= HourlyLimit
           \/ n > 0 /\ n = ResetIn(d, Day) /\ d.used >= DailyLimit
<1>. DEFINE B == BlockingHints(h, d)
            H == ResetIn(h, Hour)
            D == ResetIn(d, Day)
            HBlocks == h.used >= HourlyLimit /\ H > 0
            DBlocks == d.used >= DailyLimit /\ D > 0
<1>. USE LimitsAssumption
<1>1. HBlocks => H \in Nat
  BY ResetFits
<1>2. DBlocks => D \in Nat
  BY ResetFits
<1>3. \A x : x \in B <=> (HBlocks /\ x = H) \/ (DBlocks /\ x = D)
  <2>. DEFINE hour == [count |-> h, window |-> Hour, limit |-> HourlyLimit]
              day == [count |-> d, window |-> Day, limit |-> DailyLimit]
              Blocks(y) == y.count.used >= y.limit /\ ResetIn(y.count, y.window) > 0
  <2>1. B = {ResetIn(x.count, x.window) : x \in {y \in {hour, day} : Blocks(y)}}
    BY DEF BlockingHints
  <2>2. /\ hour.count = h /\ hour.window = Hour /\ hour.limit = HourlyLimit
        /\ day.count = d /\ day.window = Day /\ day.limit = DailyLimit
    OBVIOUS
  <2>3. Blocks(hour) <=> HBlocks
    BY <2>2
  <2>4. Blocks(day) <=> DBlocks
    BY <2>2
  <2>5. ResetIn(hour.count, hour.window) = H /\ ResetIn(day.count, day.window) = D
    BY <2>2
  <2>. HIDE DEF hour, day, Blocks, HBlocks, DBlocks, H, D, B
  <2>. QED
    BY <2>1, <2>3, <2>4, <2>5
<1>4. RetryAfter(h, d) = IF B = {} THEN 0 ELSE CHOOSE x \in B : \A y \in B : y <= x
  BY DEF RetryAfter
<1>5. B # {} => \E x \in B : \A y \in B : y <= x
  <2>. HIDE DEF B, H, D
  <2>. QED
    BY <1>1, <1>2, <1>3
<1>6. B = {} \/ RetryAfter(h, d) \in B
  <2>. HIDE DEF B
  <2>. QED
    BY <1>4, <1>5
<1>. HIDE DEF B, H, D
<1>. QED
  BY <1>3, <1>4, <1>6 DEF H, D

-----------------------------------------------------------------------------
\* Every step keeps the variables in range.

LEMMA Older ==
  ASSUME NEW a \in Ages
  PROVE  (IF a = Free THEN Free ELSE a + 1) \in Ages
BY LimitsAssumption DEF Ages, Free

LEMMA Shorter ==
  ASSUME NEW n \in Nat \cup {NoHint}
  PROVE  (IF n \in {NoHint, 0} THEN n ELSE n - 1) \in Nat \cup {NoHint}
BY LimitsAssumption

LEMMA TypeStep == TypeOK /\ CountsHold /\ [Next]_vars => TypeOK'
<1>. SUFFICES ASSUME TypeOK, CountsHold, [Next]_vars PROVE TypeOK'
  OBVIOUS
<1>. USE LimitsAssumption DEF TypeOK, PC
<1>0. CASE UNCHANGED vars
  BY <1>0 DEF vars
<1>1. ASSUME NEW r \in Requests, Ask(r) PROVE TypeOK'
  BY <1>1 DEF Ask
<1>2. ASSUME NEW r \in Requests, CountHour(r) PROVE TypeOK'
  <2>1. CountInWindow(UserOf[r], Hour, 0) \in [used : Nat, oldest : Ages, late : {0, 1}]
    BY CountIsTrue
  <2>. QED
    BY <1>2, <2>1 DEF CountHour
<1>3. ASSUME NEW r \in Requests, CountDay(r) PROVE TypeOK'
  <2>. DEFINE u == UserOf[r]
              first == [hourly[r] EXCEPT !.late = 0]
              daily == CountInWindow(u, Day, hourly[r].late)
  <2>1. /\ first \in [used : Nat, oldest : Ages, late : {0, 1}]
        /\ daily \in [used : Nat, oldest : Ages, late : {0, 1}]
        /\ first.used > 0 => first.oldest <= Hour
        /\ daily.used > 0 => daily.oldest <= Day
    <3>1. pc[r] = "countDay" /\ hourly[r].late \in {0, 1} /\ Day \in 0 .. Day /\ u \in Users
      BY <1>3 DEF CountDay
    <3>2. hourly[r].used > 0 => hourly[r].oldest <= Hour
      BY <3>1 DEF CountsHold
    <3>3. first \in [used : Nat, oldest : Ages, late : {0, 1}] /\ first.used = hourly[r].used
            /\ first.oldest = hourly[r].oldest
      OBVIOUS
    <3>4. /\ daily \in [used : Nat, oldest : Ages, late : {0, 1}]
          /\ daily.used > 0 => daily.oldest <= Day
      BY <3>1, CountIsTrue
    <3>. QED
      BY <3>2, <3>3, <3>4
  <2>2. RetryAfter(first, daily) * Second \in Nat
    <3>. DEFINE n == RetryAfter(first, daily)
    <3>1. \/ n = 0
          \/ n > 0 /\ n = ResetIn(first, Hour) /\ first.used >= HourlyLimit
          \/ n > 0 /\ n = ResetIn(daily, Day) /\ daily.used >= DailyLimit
      BY <2>1, HintIsOfAWindow
    <3>2. first.used >= HourlyLimit => ResetIn(first, Hour) * Second \in Nat
      <4>. HIDE DEF first
      <4>. QED
        BY <2>1, ResetFits
    <3>3. daily.used >= DailyLimit => ResetIn(daily, Day) * Second \in Nat
      <4>. HIDE DEF daily
      <4>. QED
        BY <2>1, ResetFits
    <3>4. 0 * Second \in Nat
      OBVIOUS
    <3>. HIDE DEF first, daily
    <3>. QED
      BY <3>1, <3>2, <3>3, <3>4
  <2>3. wait' = wait \/ wait' = [wait EXCEPT ![u] = RetryAfter(first, daily) * Second]
    BY <1>3 DEF CountDay, Deny
  <2>4. wait' \in [Users -> Nat \cup {NoHint}]
    <3>. HIDE DEF first, daily
    <3>. QED
      BY <2>2, <2>3
  <2>5. age' = age
    BY <1>3 DEF CountDay, Deny
  <2>6. /\ jobs' = jobs /\ match' = match
        /\ hourly' = [hourly EXCEPT ![r] = Nothing]
        /\ pc' \in {[pc EXCEPT ![r] = "lookup"], [pc EXCEPT ![r] = "idle"]}
    BY <1>3 DEF CountDay
  <2>. QED
    BY <2>4, <2>5, <2>6 DEF Nothing, Ages, Free
<1>4. ASSUME NEW r \in Requests, Lookup(r) PROVE TypeOK'
  BY <1>4 DEF Lookup
<1>5. ASSUME NEW r \in Requests, InsertJob(r) PROVE TypeOK'
  BY <1>5 DEF InsertJob
<1>6. ASSUME NEW r \in Requests, Record(r) PROVE TypeOK'
  BY <1>6 DEF Record, WriteRow, FreeSlots, Ages, Free
<1>7. ASSUME NEW r \in Requests, FailBetween(r) PROVE TypeOK'
  BY <1>7 DEF FailBetween
<1>8. CASE Tick
  <2>1. age' \in [Users -> [Slots -> Ages]]
    <3>1. \A u \in Users, s \in Slots :
            (IF age[u][s] = Free THEN Free ELSE age[u][s] + 1) \in Ages
      <4>. TAKE u \in Users, s \in Slots
      <4>1. age[u][s] \in Ages
        OBVIOUS
      <4>. QED
        BY <4>1, Older
    <3>. QED
      BY <1>8, <3>1 DEF Tick
  <2>2. wait' \in [Users -> Nat \cup {NoHint}]
    <3>1. \A u \in Users :
            (IF wait[u] \in {NoHint, 0} THEN wait[u] ELSE wait[u] - 1) \in Nat \cup {NoHint}
      <4>. TAKE u \in Users
      <4>1. wait[u] \in Nat \cup {NoHint}
        OBVIOUS
      <4>. QED
        BY <4>1, Shorter
    <3>. QED
      BY <1>8, <3>1 DEF Tick
  <2>3. hourly' \in [Requests -> [used : Nat, oldest : Ages, late : {0, 1}]]
    BY <1>8, ZenonT(30) DEF Tick
  <2>. QED
    BY <1>8, <2>1, <2>2, <2>3 DEF Tick
<1>. QED
  BY <1>0, <1>1, <1>2, <1>3, <1>4, <1>5, <1>6, <1>7, <1>8 DEF Next, Handle

-----------------------------------------------------------------------------
\* What a step does to the windows.

\* The row that is written is the only one that becomes younger.
LEMMA RowIsOne ==
  ASSUME TypeOK, NEW u \in Users, WriteRow(u), NEW v \in Users, NEW a \in Int, a <= Day
  PROVE  /\ Used(v, a) <= Used(v, a)'
         /\ Used(v, a)' <= Used(v, a) + (IF v = u THEN 1 ELSE 0)
<1>. USE LimitsAssumption
<1>. PICK s \in FreeSlots(u) : age' = [age EXCEPT ![u][s] = 0]
  BY DEF WriteRow
<1>1. /\ InWindow(v, a) \subseteq InWindow(v, a)'
      /\ v = u => InWindow(v, a)' \subseteq InWindow(v, a) \cup {s}
      /\ v # u => InWindow(v, a)' = InWindow(v, a)
  BY DEF InWindow, FreeSlots, Free, TypeOK, Ages
<1>2. IsFiniteSet(InWindow(v, a)) /\ IsFiniteSet(InWindow(v, a)')
  BY FS_Subset DEF InWindow
<1>3. Used(v, a) <= Used(v, a)'
  BY <1>1, <1>2, Subset DEF Used
<1>4. CASE v = u
  BY <1>1, <1>2, <1>3, <1>4, OneMore DEF Used
<1>5. CASE v # u
  BY <1>1, <1>3, <1>5, <1>2, FS_CardinalityType DEF Used
<1>. QED
  BY <1>4, <1>5

\* A tick makes every row a tick older.
LEMMA RowsAge ==
  ASSUME TypeOK, Tick, NEW u \in Users, NEW a \in Int, a <= Day
  PROVE  Used(u, a) <= Used(u, a + 1)' /\ Used(u, a)' <= Used(u, a)
<1>. USE LimitsAssumption
<1>1. /\ InWindow(u, a) \subseteq InWindow(u, a + 1)'
      /\ InWindow(u, a)' \subseteq InWindow(u, a)
  BY DEF InWindow, Free, TypeOK, Ages, Tick
<1>2. /\ IsFiniteSet(InWindow(u, a)) /\ IsFiniteSet(InWindow(u, a + 1)')
  BY FS_Subset DEF InWindow
<1>. QED
  BY <1>1, <1>2, Subset DEF Used

-----------------------------------------------------------------------------
\* Rows and promises.

\* Promises are requests, and what a request holds was promised.
LEMMA Promises ==
  ASSUME NEW u \in Users
  PROVE  /\ IsFiniteSet(RequestsOf(u)) /\ Cardinality(RequestsOf(u)) \in Nat
         /\ IsFiniteSet(Promised(u)) /\ Cardinality(Promised(u)) \in Nat
         /\ IsFiniteSet(Holding(u)) /\ Cardinality(Holding(u)) \in Nat
         /\ IsFiniteSet(Promised(u)') /\ Cardinality(Promised(u)') \in Nat
         /\ IsFiniteSet(Holding(u)') /\ Cardinality(Holding(u)') \in Nat
         /\ Cardinality(Promised(u)') <= Cardinality(RequestsOf(u))
         /\ Cardinality(Holding(u)') <= Cardinality(RequestsOf(u))
         /\ Used(u, Hour) \in Nat /\ Used(u, Day) \in Nat
<1>1. IsFiniteSet(RequestsOf(u))
  BY LimitsAssumption, FS_Subset DEF RequestsOf
<1>2. /\ Promised(u) \subseteq RequestsOf(u) /\ Holding(u) \subseteq RequestsOf(u)
      /\ Promised(u)' \subseteq RequestsOf(u) /\ Holding(u)' \subseteq RequestsOf(u)
  BY DEF Promised, Holding, RequestsOf
<1>. QED
  BY <1>1, <1>2, Subset, InWindowFinite

\* A step that writes no row and makes no promise.
LEMMA NothingPromised ==
  ASSUME TypeOK, Room, NEW u \in Users, RequestsOf(u) # {},
         Used(u, Hour)' <= Used(u, Hour), Used(u, Day)' <= Used(u, Day),
         Used(u, Hour)' \in Nat, Used(u, Day)' \in Nat,
         Promised(u)' \subseteq Promised(u), Holding(u)' \subseteq Holding(u)
  PROVE  /\ Used(u, Hour)' + Cardinality(Promised(u)') <= HourlyLimit + Cardinality(RequestsOf(u)) - 1
         /\ Used(u, Day)' + Cardinality(Holding(u)') <= DailyLimit + Cardinality(RequestsOf(u)) - 1
<1>1. /\ Cardinality(Promised(u)') <= Cardinality(Promised(u))
      /\ Cardinality(Holding(u)') <= Cardinality(Holding(u))
  BY Promises, Subset
<1>. QED
  BY <1>1, Promises, LimitsAssumption DEF Room

LEMMA RoomStep == TypeOK /\ Room /\ [Next]_vars => Room'
<1>. SUFFICES ASSUME TypeOK, Room, [Next]_vars, NEW u \in Users, RequestsOf(u) # {}
              PROVE  /\ Used(u, Hour)' + Cardinality(Promised(u)')
                           <= HourlyLimit + Cardinality(RequestsOf(u)) - 1
                     /\ Used(u, Day)' + Cardinality(Holding(u)')
                           <= DailyLimit + Cardinality(RequestsOf(u)) - 1
  BY DEF Room, RequestsOf
<1>. DEFINE Goal == /\ Used(u, Hour)' + Cardinality(Promised(u)')
                          <= HourlyLimit + Cardinality(RequestsOf(u)) - 1
                    /\ Used(u, Day)' + Cardinality(Holding(u)')
                          <= DailyLimit + Cardinality(RequestsOf(u)) - 1
<1>. USE LimitsAssumption
<1>a. Used(u, Hour)' \in Nat /\ Used(u, Day)' \in Nat
  <2>1. IsFiniteSet(InWindow(u, Hour)') /\ IsFiniteSet(InWindow(u, Day)')
    BY FS_Subset DEF InWindow
  <2>. QED
    BY <2>1, FS_CardinalityType DEF Used
<1>b. age' = age => Used(u, Hour)' = Used(u, Hour) /\ Used(u, Day)' = Used(u, Day)
  BY DEF Used, InWindow
<1>c. /\ age' = age /\ Promised(u)' \subseteq Promised(u) /\ Holding(u)' \subseteq Holding(u)
      => Goal
  BY <1>a, <1>b, Promises, NothingPromised
<1>. HIDE DEF Goal
<1>0. CASE UNCHANGED vars
  <2>1. age' = age /\ Promised(u)' \subseteq Promised(u) /\ Holding(u)' \subseteq Holding(u)
    BY <1>0 DEF vars, Promised, Holding, RequestsOf
  <2>. QED
    BY <2>1, <1>c DEF Goal
<1>1. ASSUME NEW r \in Requests, Ask(r) \/ Lookup(r) \/ InsertJob(r) \/ FailBetween(r) PROVE Goal
  <2>1. age' = age /\ Promised(u)' \subseteq Promised(u) /\ Holding(u)' \subseteq Holding(u)
    BY <1>1 DEF Ask, Lookup, InsertJob, FailBetween, Promised, Holding, RequestsOf, TypeOK
  <2>. QED
    BY <2>1, <1>c
<1>2. ASSUME NEW r \in Requests, CountHour(r) PROVE Goal
  <2>. DEFINE c == CountInWindow(UserOf[r], Hour, 0)
  <2>1. c.used = Used(UserOf[r], Hour)
    BY DEF CountInWindow
  <2>2. /\ age' = age /\ pc' = [pc EXCEPT ![r] = "countDay"]
        /\ hourly' = [hourly EXCEPT ![r] = c]
    BY <1>2 DEF CountHour
  <2>. HIDE DEF c
  <2>3. Holding(u)' \subseteq Holding(u) /\ Promised(u)' \subseteq Promised(u) \cup {r}
    BY <1>2, <2>2 DEF CountHour, Promised, Holding, RequestsOf, TypeOK
  <2>4. CASE r \in Promised(u)' /\ r \notin Promised(u)
    <3>1. Used(u, Hour) < HourlyLimit
      BY <2>1, <2>2, <2>4 DEF Promised, Holding, RequestsOf, TypeOK
    <3>2. Cardinality(Holding(u)') <= Cardinality(Holding(u))
      BY <2>3, Promises, Subset
    <3>. QED
      BY <1>b, <2>2, <3>1, <3>2, Promises DEF Goal, Room
  <2>5. CASE ~(r \in Promised(u)' /\ r \notin Promised(u))
    BY <1>c, <2>2, <2>3, <2>5
  <2>. QED
    BY <2>4, <2>5
<1>3. ASSUME NEW r \in Requests, CountDay(r) PROVE Goal
  <2>. DEFINE first == [hourly[r] EXCEPT !.late = 0]
              daily == CountInWindow(UserOf[r], Day, hourly[r].late)
  <2>1. first.used = hourly[r].used /\ daily.used = Used(UserOf[r], Day)
    BY DEF CountInWindow, TypeOK
  <2>2. /\ pc[r] = "countDay" /\ age' = age /\ hourly' = [hourly EXCEPT ![r] = Nothing]
        /\ \/ Allowed(first, daily) /\ pc' = [pc EXCEPT ![r] = "lookup"]
           \/ pc' = [pc EXCEPT ![r] = "idle"]
    BY <1>3 DEF CountDay, Deny
  <2>. HIDE DEF first, daily
  <2>3. CASE pc' = [pc EXCEPT ![r] = "idle"]
    BY <1>c, <2>2, <2>3 DEF Promised, Holding, RequestsOf, TypeOK
  <2>4. CASE Allowed(first, daily) /\ pc' = [pc EXCEPT ![r] = "lookup"] /\ UserOf[r] = u
    <3>1. Promised(u)' \subseteq Promised(u)
      BY <2>1, <2>2, <2>4 DEF Allowed, Promised, Holding, RequestsOf, TypeOK
    <3>2. Used(u, Day) < DailyLimit
      BY <2>1, <2>4 DEF Allowed
    <3>3. Cardinality(Promised(u)') <= Cardinality(Promised(u))
      BY <3>1, Promises, Subset
    <3>. QED
      BY <1>b, <2>2, <3>2, <3>3, Promises DEF Goal, Room
  <2>5. CASE pc' = [pc EXCEPT ![r] = "lookup"] /\ UserOf[r] # u
    BY <1>c, <2>2, <2>5 DEF Promised, Holding, RequestsOf, TypeOK
  <2>. QED
    BY <2>2, <2>3, <2>4, <2>5
<1>4. ASSUME NEW r \in Requests, Record(r) PROVE Goal
  <2>. DEFINE v == UserOf[r]
  <2>1. /\ v \in Users /\ WriteRow(v) /\ pc[r] = "record" /\ hourly' = hourly
        /\ pc' = [pc EXCEPT ![r] = "idle"]
    BY <1>4 DEF Record
  <2>2. CASE u = v
    <3>1. Used(u, Hour)' <= Used(u, Hour) + 1 /\ Used(u, Day)' <= Used(u, Day) + 1
      BY <2>1, <2>2, RowIsOne
    <3>2. /\ r \in Promised(u) /\ r \in Holding(u)
          /\ Promised(u)' \subseteq Promised(u) \ {r} /\ Holding(u)' \subseteq Holding(u) \ {r}
      BY <2>1, <2>2 DEF Promised, Holding, RequestsOf, TypeOK
    <3>3. /\ Cardinality(Promised(u)') <= Cardinality(Promised(u)) - 1
          /\ Cardinality(Holding(u)') <= Cardinality(Holding(u)) - 1
      BY <3>2, Promises, OneLess
    <3>. QED
      BY <1>a, <3>1, <3>3, Promises DEF Goal, Room
  <2>3. CASE u # v
    <3>1. Used(u, Hour)' <= Used(u, Hour) /\ Used(u, Day)' <= Used(u, Day)
      BY <1>a, <2>1, <2>3, RowIsOne, Promises
    <3>2. Promised(u)' \subseteq Promised(u) /\ Holding(u)' \subseteq Holding(u)
      BY <2>1 DEF Promised, Holding, RequestsOf, TypeOK
    <3>. QED
      BY <1>a, <3>1, <3>2, NothingPromised DEF Goal
  <2>. QED
    BY <2>2, <2>3
<1>5. CASE Tick
  <2>1. Used(u, Hour)' <= Used(u, Hour) /\ Used(u, Day)' <= Used(u, Day)
    BY <1>5, RowsAge
  <2>2. Promised(u)' \subseteq Promised(u) /\ Holding(u)' \subseteq Holding(u)
    BY <1>5 DEF Tick, Promised, Holding, RequestsOf, TypeOK
  <2>. QED
    BY <1>a, <2>1, <2>2, NothingPromised DEF Goal
<1>. QED
  BY <1>0, <1>1, <1>2, <1>3, <1>4, <1>5 DEF Next, Handle, Goal

-----------------------------------------------------------------------------
\* Counts and hints.

LEMMA CountsStep == TypeOK /\ CountsHold /\ [Next]_vars => CountsHold'
<1>. SUFFICES ASSUME TypeOK, CountsHold, [Next]_vars,
                     NEW q \in Requests, pc'[q] = "countDay", hourly'[q].used > 0,
                     NEW b \in 0 .. Day
              PROVE  /\ hourly'[q].oldest <= Hour
                     /\ b = hourly'[q].oldest + hourly'[q].late =>
                          hourly'[q].used <= Used(UserOf[q], b)'
  <2>1. 0 \in 0 .. Day
    BY LimitsAssumption
  <2>. QED
    BY <2>1 DEF CountsHold
<1>. DEFINE Goal == /\ hourly'[q].oldest <= Hour
                    /\ b = hourly'[q].oldest + hourly'[q].late =>
                         hourly'[q].used <= Used(UserOf[q], b)'
<1>. USE LimitsAssumption
<1>a. pc[q] = "countDay" /\ hourly[q].used > 0 =>
        /\ hourly[q].oldest <= Hour
        /\ b = hourly[q].oldest + hourly[q].late => hourly[q].used <= Used(UserOf[q], b)
  BY DEF CountsHold
<1>b. age' = age => Used(UserOf[q], b)' = Used(UserOf[q], b)
  BY DEF Used, InWindow
<1>c. age' = age /\ hourly'[q] = hourly[q] /\ pc[q] = "countDay" => Goal
  BY <1>a, <1>b
<1>d. /\ Used(UserOf[q], b) \in Nat /\ Used(UserOf[q], b)' \in Nat
      /\ UserOf[q] \in Users
  <2>1. IsFiniteSet(InWindow(UserOf[q], b)')
    BY FS_Subset DEF InWindow
  <2>. QED
    BY <2>1, InWindowFinite, FS_CardinalityType DEF Used
<1>. HIDE DEF Goal
<1>0. CASE UNCHANGED vars
  BY <1>0, <1>c DEF vars, Goal
<1>1. ASSUME NEW r \in Requests, Ask(r) \/ Lookup(r) \/ InsertJob(r) \/ FailBetween(r) PROVE Goal
  <2>1. age' = age /\ hourly' = hourly /\ pc[q] = "countDay"
    BY <1>1 DEF Ask, Lookup, InsertJob, FailBetween, TypeOK
  <2>. QED
    BY <2>1, <1>c
<1>2. ASSUME NEW r \in Requests, CountHour(r) PROVE Goal
  <2>. DEFINE c == CountInWindow(UserOf[r], Hour, 0)
  <2>1. age' = age /\ pc' = [pc EXCEPT ![r] = "countDay"] /\ hourly' = [hourly EXCEPT ![r] = c]
    BY <1>2 DEF CountHour
  <2>2. /\ c \in [used : Nat, oldest : Ages, late : {0, 1}] /\ c.late = 0
        /\ c.used > 0 => c.oldest <= Hour /\ c.used <= Used(UserOf[r], c.oldest)
    BY CountIsTrue
  <2>. HIDE DEF c
  <2>3. CASE q = r
    <3>1. hourly'[q] = c
      BY <2>1, <2>3 DEF TypeOK
    <3>2. c.oldest + c.late = c.oldest
      BY <2>2 DEF Ages
    <3>. QED
      BY <1>b, <2>1, <2>2, <2>3, <3>1, <3>2 DEF Goal
  <2>4. CASE q # r
    BY <1>c, <2>1, <2>4 DEF TypeOK
  <2>. QED
    BY <2>3, <2>4
<1>3. ASSUME NEW r \in Requests, CountDay(r) PROVE Goal
  <2>1. age' = age /\ hourly'[q] = hourly[q] /\ pc[q] = "countDay"
    BY <1>3 DEF CountDay, Deny, TypeOK
  <2>. QED
    BY <2>1, <1>c
<1>4. ASSUME NEW r \in Requests, Record(r) PROVE Goal
  <2>1. WriteRow(UserOf[r]) /\ hourly' = hourly /\ pc[q] = "countDay"
    BY <1>4 DEF Record, TypeOK
  <2>2. Used(UserOf[q], b) <= Used(UserOf[q], b)'
    BY <2>1, <1>d, RowIsOne
  <2>3. hourly[q].used \in Nat
    BY DEF TypeOK
  <2>. QED
    BY <1>a, <1>d, <2>1, <2>2, <2>3 DEF Goal
<1>5. CASE Tick
  <2>1. pc[q] = "countDay" /\ hourly[q].late = 0 /\ hourly'[q] = [hourly[q] EXCEPT !.late = 1]
    BY <1>5 DEF Tick
  <2>2. /\ hourly'[q].oldest = hourly[q].oldest /\ hourly'[q].used = hourly[q].used
        /\ hourly'[q].late = 1 /\ hourly[q].used \in Nat
    BY <2>1 DEF TypeOK
  <2>3. PICK o \in 0 .. Day : o = hourly[q].oldest
    BY <1>a, <2>1, <2>2 DEF TypeOK, Ages
  <2>4. o <= Hour /\ hourly[q].used <= Used(UserOf[q], o)
    <3>1. hourly[q].used > 0 /\ o = hourly[q].oldest + hourly[q].late
      BY <2>1, <2>2, <2>3
    <3>. QED
      BY <2>1, <2>3, <3>1 DEF CountsHold
  <2>5. Used(UserOf[q], o) <= Used(UserOf[q], o + 1)'
    BY <1>5, <1>d, RowsAge
  <2>6. Used(UserOf[q], o) \in Nat
    BY InWindowFinite
  <2>7. b = o + 1 => Used(UserOf[q], o) <= Used(UserOf[q], b)'
    BY <2>5
  <2>. QED
    BY <1>d, <2>2, <2>3, <2>4, <2>6, <2>7 DEF Goal
<1>. QED
  BY <1>0, <1>1, <1>2, <1>3, <1>4, <1>5 DEF Next, Handle, Goal

LEMMA HintStep == TypeOK /\ CountsHold /\ HintHolds /\ [Next]_vars => HintHolds'
<1>. SUFFICES ASSUME TypeOK, CountsHold, HintHolds, [Next]_vars,
                     NEW u \in Users, wait'[u] # NoHint, wait'[u] >= Second,
                     NEW b \in Nat, b = wait'[u] - Second
              PROVE  HourlyLimit <= Used(u, Hour - b)' \/ DailyLimit <= Used(u, Day - b)'
  BY DEF HintHolds
<1>. DEFINE Goal == HourlyLimit <= Used(u, Hour - b)' \/ DailyLimit <= Used(u, Day - b)'
<1>. USE LimitsAssumption
<1>a. wait'[u] = wait[u] => HourlyLimit <= Used(u, Hour - b) \/ DailyLimit <= Used(u, Day - b)
  BY DEF HintHolds
<1>b. age' = age => /\ Used(u, Hour - b)' = Used(u, Hour - b)
                    /\ Used(u, Day - b)' = Used(u, Day - b)
  BY DEF Used, InWindow
<1>c. age' = age /\ wait'[u] = wait[u] => Goal
  BY <1>a, <1>b
<1>d. /\ Hour - b \in Int /\ Hour - b <= Day /\ Day - b \in Int /\ Day - b <= Day
      /\ \A v, a : Used(v, a) \in Nat /\ Used(v, a)' \in Nat
  <2>1. \A v, a : Used(v, a) \in Nat
    BY InWindowFinite
  <2>2. \A v, a : IsFiniteSet(InWindow(v, a)')
    BY FS_Subset DEF InWindow
  <2>3. \A v, a : Used(v, a)' \in Nat
    BY <2>2, FS_CardinalityType DEF Used
  <2>. QED
    BY <2>1, <2>3
<1>. HIDE DEF Goal
<1>0. CASE UNCHANGED vars
  BY <1>0, <1>c DEF vars, Goal
<1>1. ASSUME NEW r \in Requests, Ask(r) \/ CountHour(r) \/ Lookup(r) \/ InsertJob(r) \/ FailBetween(r)
      PROVE  Goal
  BY <1>1, <1>c DEF Ask, CountHour, Lookup, InsertJob, FailBetween
<1>2. ASSUME NEW r \in Requests, CountDay(r) PROVE Goal
  <2>. DEFINE first == [hourly[r] EXCEPT !.late = 0]
              daily == CountInWindow(UserOf[r], Day, hourly[r].late)
              n == RetryAfter(first, daily)
  <2>1. age' = age
    BY <1>2 DEF CountDay, Deny
  <2>2. wait' = wait \/ wait' = [wait EXCEPT ![UserOf[r]] = n * Second]
    BY <1>2 DEF CountDay, Deny
  <2>3. CASE wait'[u] = wait[u]
    BY <1>c, <2>1, <2>3
  <2>4. CASE u = UserOf[r] /\ wait'[u] = n * Second
    <3>1. /\ first \in [used : Nat, oldest : Ages, late : {0, 1}]
          /\ daily \in [used : Nat, oldest : Ages, late : {0, 1}]
          /\ first.used > 0 => first.oldest <= Hour
          /\ daily.used > 0 => daily.oldest <= Day /\ daily.used <= Used(u, daily.oldest)
          /\ pc[r] = "countDay" /\ daily.late = hourly[r].late
      <4>1. pc[r] = "countDay" /\ hourly[r].late \in {0, 1} /\ Day \in 0 .. Day
        BY <1>2 DEF CountDay, TypeOK
      <4>2. hourly[r].used > 0 => hourly[r].oldest <= Hour
        BY <4>1 DEF CountsHold
      <4>3. first \in [used : Nat, oldest : Ages, late : {0, 1}] /\ first.used = hourly[r].used
              /\ first.oldest = hourly[r].oldest
        BY DEF TypeOK
      <4>4. /\ daily \in [used : Nat, oldest : Ages, late : {0, 1}]
            /\ daily.used = Used(u, Day) /\ daily.late = hourly[r].late
            /\ daily.used > 0 => daily.oldest <= Day /\ daily.used <= Used(u, daily.oldest)
        BY <2>4, <4>1, CountIsTrue
      <4>. QED
        BY <4>1, <4>2, <4>3, <4>4
    <3>2. \/ n = 0
          \/ n > 0 /\ n = ResetIn(first, Hour) /\ first.used >= HourlyLimit
          \/ n > 0 /\ n = ResetIn(daily, Day) /\ daily.used >= DailyLimit
      BY <3>1, HintIsOfAWindow
    <3>3. n # 0
      <4>1. 0 * Second = 0
        OBVIOUS
      <4>. HIDE DEF n
      <4>. QED
        BY <2>4, <4>1
    <3>4. CASE n > 0 /\ n = ResetIn(daily, Day) /\ daily.used >= DailyLimit
      <4>. DEFINE delta == Day - daily.oldest + daily.late
      <4>1. daily.used > 0 /\ daily.oldest <= Day /\ daily.used <= Used(u, daily.oldest)
        BY <3>1, <3>4
      <4>2. n * Second \in Nat /\ delta > 0 /\ (n * Second = Second \/ n * Second <= delta)
        <5>. HIDE DEF daily
        <5>. QED
          BY <3>1, <3>4, <4>1, ResetFits
      <4>3. daily.oldest \in Int /\ daily.late <= 1 /\ Second >= 1
        <5>. HIDE DEF daily
        <5>. QED
          BY <3>1 DEF Ages, Free
      <4>4. daily.oldest <= Day - b
        <5>. HIDE DEF daily, n
        <5>. QED
          BY <2>4, <3>1, <4>1, <4>2, <4>3
      <4>5. Used(u, daily.oldest) <= Used(u, Day - b)
        <5>. HIDE DEF daily
        <5>. QED
          BY <1>d, <4>3, <4>4, UsedGrows
      <4>. QED
        <5>. HIDE DEF daily
        <5>. QED
          BY <1>b, <1>d, <2>1, <3>1, <3>4, <4>1, <4>5 DEF Goal
    <3>5. CASE n > 0 /\ n = ResetIn(first, Hour) /\ first.used >= HourlyLimit
      <4>. DEFINE delta == Hour - first.oldest + first.late
      <4>1. /\ first.used > 0 /\ first.oldest <= Hour /\ first.late = 0
            /\ first.used = hourly[r].used /\ first.oldest = hourly[r].oldest
        BY <3>1, <3>5 DEF TypeOK
      <4>2. n * Second \in Nat /\ delta > 0 /\ (n * Second = Second \/ n * Second <= delta)
        <5>. HIDE DEF first
        <5>. QED
          BY <3>1, <3>5, <4>1, ResetFits
      <4>3. PICK a \in 0 .. Day : a = first.oldest + hourly[r].late
        <5>. HIDE DEF first
        <5>. QED
          BY <3>1, <4>1 DEF Ages, TypeOK
      <4>4. first.used <= Used(u, a)
        <5>1. hourly[r].used > 0 /\ a = hourly[r].oldest + hourly[r].late
          BY <4>1, <4>3
        <5>2. hourly[r].used <= Used(u, a)
          BY <2>4, <3>1, <5>1 DEF CountsHold
        <5>. QED
          BY <4>1, <5>2
      <4>5. a <= Hour - b
        <5>. HIDE DEF first, n
        <5>. QED
          BY <2>4, <3>1, <4>1, <4>2, <4>3 DEF Ages
      <4>6. Used(u, a) <= Used(u, Hour - b)
        BY <1>d, <4>5, UsedGrows
      <4>. QED
        <5>. HIDE DEF first
        <5>. QED
          BY <1>b, <1>d, <2>1, <3>1, <3>5, <4>4, <4>6 DEF Goal
    <3>. QED
      BY <3>2, <3>3, <3>4, <3>5
  <2>. QED
    BY <2>2, <2>3, <2>4 DEF TypeOK
<1>3. ASSUME NEW r \in Requests, Record(r) PROVE Goal
  <2>1. WriteRow(UserOf[r]) /\ UserOf[r] \in Users
    BY <1>3 DEF Record
  <2>2. u # UserOf[r]
    BY <2>1 DEF WriteRow, TypeOK
  <2>3. wait'[u] = wait[u]
    BY <2>1, <2>2 DEF WriteRow, TypeOK
  <2>4. /\ Used(u, Hour - b) <= Used(u, Hour - b)'
        /\ Used(u, Day - b) <= Used(u, Day - b)'
    BY <1>d, <2>1, RowIsOne
  <2>. QED
    BY <1>a, <1>d, <2>3, <2>4 DEF Goal
<1>4. CASE Tick
  <2>1. wait[u] # NoHint /\ wait[u] # 0 /\ wait'[u] = wait[u] - 1 /\ wait[u] \in Nat
    BY <1>4 DEF Tick, TypeOK
  <2>2. b + 1 = wait[u] - Second /\ wait[u] >= Second /\ b + 1 \in Nat
    BY <2>1
  <2>3. HourlyLimit <= Used(u, Hour - (b + 1)) \/ DailyLimit <= Used(u, Day - (b + 1))
    BY <2>1, <2>2 DEF HintHolds
  <2>4. /\ Used(u, Hour - (b + 1)) <= Used(u, Hour - (b + 1) + 1)'
        /\ Used(u, Day - (b + 1)) <= Used(u, Day - (b + 1) + 1)'
    <3>1. /\ Hour - (b + 1) \in Int /\ Hour - (b + 1) <= Day
          /\ Day - (b + 1) \in Int /\ Day - (b + 1) <= Day
      OBVIOUS
    <3>. QED
      BY <1>4, <3>1, RowsAge
  <2>5. Hour - (b + 1) + 1 = Hour - b /\ Day - (b + 1) + 1 = Day - b
    OBVIOUS
  <2>6. Used(u, Hour - (b + 1)) <= Used(u, Hour - b)' /\ Used(u, Day - (b + 1)) <= Used(u, Day - b)'
    BY <2>4, <2>5
  <2>. QED
    BY <1>d, <2>3, <2>6 DEF Goal
<1>. QED
  BY <1>0, <1>1, <1>2, <1>3, <1>4 DEF Next, Handle, Goal

-----------------------------------------------------------------------------
\* The theorems.

IInv == TypeOK /\ Room /\ CountsHold /\ HintHolds

LEMMA Start == Init => IInv
<1>. SUFFICES ASSUME Init PROVE IInv
  OBVIOUS
<1>. USE LimitsAssumption DEF Init
<1>1. TypeOK
  BY DEF TypeOK, PC, Nothing, Ages, Free
<1>2. CountsHold /\ HintHolds
  BY DEF CountsHold, HintHolds
<1>3. Room
  <2>. SUFFICES ASSUME NEW u \in Users, RequestsOf(u) # {}
                PROVE  /\ Used(u, Hour) + Cardinality(Promised(u))
                            <= HourlyLimit + Cardinality(RequestsOf(u)) - 1
                       /\ Used(u, Day) + Cardinality(Holding(u))
                            <= DailyLimit + Cardinality(RequestsOf(u)) - 1
    BY DEF Room
  <2>1. InWindow(u, Hour) = {} /\ InWindow(u, Day) = {} /\ Promised(u) = {} /\ Holding(u) = {}
    BY DEF InWindow, Promised, Holding, RequestsOf, Free
  <2>2. Cardinality(RequestsOf(u)) \in Nat \ {0}
    BY Promises, FS_EmptySet
  <2>. QED
    BY <2>1, <2>2, FS_EmptySet DEF Used
<1>. QED
  BY <1>1, <1>2, <1>3 DEF IInv

LEMMA Inductive == IInv /\ [Next]_vars => IInv'
BY TypeStep, RoomStep, CountsStep, HintStep DEF IInv

\* The variables of the limiter and of the requests stay in range.
THEOREM TypeCorrect == Spec => []TypeOK
<1>1. IInv => TypeOK
  BY DEF IInv
<1>. QED
  BY Start, Inductive, <1>1, PTL DEF Spec

\* The caps of a user are overrun by at most the other requests in flight.
THEOREM OverrunIsBounded == Spec => []OverrunBounded
<1>1. IInv => OverrunBounded
  <2>. SUFFICES ASSUME IInv, NEW u \in Users, RequestsOf(u) # {}
                PROVE  /\ Used(u, Hour) <= HourlyLimit + (Cardinality(RequestsOf(u)) - 1)
                       /\ Used(u, Day) <= DailyLimit + (Cardinality(RequestsOf(u)) - 1)
    BY DEF OverrunBounded
  <2>. QED
    BY Promises, LimitsAssumption DEF IInv, Room
<1>. QED
  BY Start, Inductive, <1>1, PTL DEF Spec

\* No 429 asks its user to wait a second or more beyond the next free place.
THEOREM HintIsNotTooLong == Spec => []HintNotTooLong
<1>1. IInv => HintNotTooLong
  <2>. SUFFICES ASSUME IInv, NEW u \in Users, wait[u] # NoHint, wait[u] >= Second
                PROVE  HourlyLimit <= Used(u, Hour) \/ DailyLimit <= Used(u, Day)
    <3>1. \A v \in Users : Used(v, Hour) \in Nat /\ Used(v, Day) \in Nat
      BY InWindowFinite
    <3>. QED
      BY <3>1, LimitsAssumption DEF HintNotTooLong, Saturated
  <2>. USE LimitsAssumption
  <2>1. PICK b \in Nat : b = wait[u] - Second
    BY DEF IInv, TypeOK
  <2>2. HourlyLimit <= Used(u, Hour - b) \/ DailyLimit <= Used(u, Day - b)
    BY <2>1 DEF IInv, HintHolds
  <2>3. Used(u, Hour - b) <= Used(u, Hour) /\ Used(u, Day - b) <= Used(u, Day)
    BY UsedGrows DEF IInv
  <2>4. /\ Used(u, Hour - b) \in Nat /\ Used(u, Hour) \in Nat
        /\ Used(u, Day - b) \in Nat /\ Used(u, Day) \in Nat
    BY InWindowFinite
  <2>. QED
    BY <2>2, <2>3, <2>4
<1>. QED
  BY Start, Inductive, <1>1, PTL DEF Spec
=============================================================================
