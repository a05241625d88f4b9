------------------------- MODULE ChatAccountsProofs -------------------------
(***************************************************************************)
(* Proofs about ChatAccounts, for any users, chats and codes, any hour of   *)
(* the digest and any number of restarts and corrections of the clock.      *)
(***************************************************************************)
EXTENDS ChatAccounts, TLAPS

\* A chat has one user, a pass serves users with a chat, and a message went to the
\* chat that its user has for good.
AccountInv ==
  /\ \A u, v \in Users : account[u] = account[v] /\ account[u] # None => u = v
  /\ \A p \in Passes : \A u \in todo[p] : account[u] # None
  /\ \A x \in received : account[x[1]] = x[2]

\* Only a code that was issued is in the service.
CodeInv == \A k \in Codes : owner[k] # None => k \in drawn

\* Passes that may still begin today, unless the clock is set back: one that was
\* woken before the hour is followed by one at the hour, and a restart before the
\* hour sets the alarm to it.
ToCome ==
  IF runner = "send" THEN (IF hour < DigestHour THEN 1 ELSE 0)
  ELSE IF hour < DigestHour THEN (IF hour + alarm < DigestHour THEN 2 ELSE 1)
  ELSE (IF hour + alarm < DayLength THEN 1 ELSE 0)

Pending(u) == IF dated /\ u \in todo["daily"] THEN 1 ELSE 0

\* The digests of today, sent, under way and to come, are paid for.
DigestInv ==
  /\ \A u \in Users : today[u] + Pending(u) + ToCome <= 1 + setbacks
  /\ runner = "sleep" => todo["daily"] = {}
  /\ runner = "sleep" /\ setbacks = 0 => hour + alarm \in {DigestHour, DayLength + DigestHour}

IInv == TypeOK /\ CodeInv /\ LinksAgree /\ AccountInv /\ DigestInv

-----------------------------------------------------------------------------

\* Every step keeps the variables in range.
LEMMA TypeStep == TypeOK /\ CodeInv /\ AccountInv /\ DigestInv /\ [Next]_vars => TypeOK'
<1>. SUFFICES ASSUME TypeOK, CodeInv, AccountInv, DigestInv, [Next]_vars PROVE TypeOK'
  OBVIOUS
<1>. USE ChatAssumption DEF TypeOK, Passes, Nobody, CodeInv, AccountInv, DigestInv
<1>0. CASE UNCHANGED vars
  BY <1>0 DEF vars, codes, maps, table, digest, bounds
<1>1. ASSUME NEW u \in Users, GenerateCode(u) PROVE TypeOK'
  BY <1>1 DEF GenerateCode, codes, maps, table, digest, bounds
<1>2. ASSUME NEW u \in Users, Notify(u) PROVE TypeOK'
  BY <1>2 DEF Notify, codes, maps, table, digest, bounds
<1>3. ASSUME NEW k \in Codes, CodeExpires(k) PROVE TypeOK'
  BY <1>3 DEF CodeExpires, codes, maps, table, digest, bounds
<1>4. ASSUME NEW k \in Codes, NEW c \in Chats, LinkAccount(k, c) PROVE TypeOK'
  BY <1>4 DEF LinkAccount, codes, maps, table, digest, bounds, ChatIsFree
<1>5. ASSUME NEW p \in Passes, NEW u \in Users, StatsRaise(p, u) PROVE TypeOK'
  BY <1>5 DEF StatsRaise, Turn, codes, maps, table, digest, bounds, AfterException
<1>6. ASSUME NEW p \in Passes, NEW u \in Users, Deliver(p, u) PROVE TypeOK'
  BY <1>6 DEF Deliver, Turn, codes, maps, table, digest, bounds
<1>7. ASSUME NEW p \in Passes, NEW u \in Users, DeliveryFails(p, u) PROVE TypeOK'
  BY <1>7 DEF DeliveryFails, Turn, codes, maps, table, digest, bounds
<1>8. ASSUME SaveAccount PROVE TypeOK'
  <2>1. account' \in [Users -> Chats \cup {None}] /\ before' \subseteq Users \X Users
    BY <1>8 DEF SaveAccount, RowAllowed, Linked, table
  <2>. QED  BY <1>8, <2>1 DEF SaveAccount, codes, maps, digest, bounds
<1>9. ASSUME RestartService PROVE TypeOK'
  BY <1>9 DEF RestartService, codes, maps, table, digest, bounds
<1>10. ASSUME Wake PROVE TypeOK'
  BY <1>10 DEF Wake, codes, maps, table, digest, bounds, StartPass, Linked
<1>11. ASSUME SendNow PROVE TypeOK'
  BY <1>11 DEF SendNow, codes, maps, table, digest, bounds, StartPass, Linked
<1>12. ASSUME Sleep PROVE TypeOK'
  BY <1>12 DEF Sleep, codes, maps, table, digest, bounds, Wait
<1>13. ASSUME RestartRunner PROVE TypeOK'
  BY <1>13 DEF RestartRunner, codes, maps, table, digest, bounds, Wait
<1>14. ASSUME Tick PROVE TypeOK'
  BY <1>14 DEF Tick, codes, maps, table, digest, bounds
<1>15. ASSUME SetBack PROVE TypeOK'
  BY <1>15 DEF SetBack, codes, maps, table, digest, bounds
<1>. QED  BY <1>0, <1>1, <1>2, <1>3, <1>4, <1>5, <1>6, <1>7, <1>8, <1>9, <1>10,
         <1>11, <1>12, <1>13, <1>14, <1>15
         DEF Next

\* A code is drawn when it is issued.
LEMMA CodeStep == TypeOK /\ CodeInv /\ [Next]_vars => CodeInv'
<1>. SUFFICES ASSUME TypeOK, CodeInv, [Next]_vars PROVE CodeInv'
  OBVIOUS
<1>. USE ChatAssumption DEF TypeOK, Passes, Nobody, CodeInv
<1>0. CASE UNCHANGED vars
  BY <1>0 DEF vars, codes, maps, table, digest, bounds
<1>1. ASSUME NEW u \in Users, GenerateCode(u) PROVE CodeInv'
  BY <1>1 DEF GenerateCode, codes, maps, table, digest, bounds
<1>2. ASSUME NEW u \in Users, Notify(u) PROVE CodeInv'
  BY <1>2 DEF Notify, codes, maps, table, digest, bounds
<1>3. ASSUME NEW k \in Codes, CodeExpires(k) PROVE CodeInv'
  BY <1>3 DEF CodeExpires, codes, maps, table, digest, bounds
<1>4. ASSUME NEW k \in Codes, NEW c \in Chats, LinkAccount(k, c) PROVE CodeInv'
  BY <1>4 DEF LinkAccount, codes, maps, table, digest, bounds, ChatIsFree
<1>5. ASSUME NEW p \in Passes, NEW u \in Users, StatsRaise(p, u) PROVE CodeInv'
  BY <1>5 DEF StatsRaise, Turn, codes, maps, table, digest, bounds, AfterException
<1>6. ASSUME NEW p \in Passes, NEW u \in Users, Deliver(p, u) PROVE CodeInv'
  BY <1>6 DEF Deliver, Turn, codes, maps, table, digest, bounds
<1>7. ASSUME NEW p \in Passes, NEW u \in Users, DeliveryFails(p, u) PROVE CodeInv'
  BY <1>7 DEF DeliveryFails, Turn, codes, maps, table, digest, bounds
<1>8. ASSUME SaveAccount PROVE CodeInv'
  BY <1>8 DEF SaveAccount, codes, maps, table, digest, bounds, RowAllowed
<1>9. ASSUME RestartService PROVE CodeInv'
  BY <1>9 DEF RestartService, codes, maps, table, digest, bounds
<1>10. ASSUME Wake PROVE CodeInv'
  BY <1>10 DEF Wake, codes, maps, table, digest, bounds, StartPass, Linked
<1>11. ASSUME SendNow PROVE CodeInv'
  BY <1>11 DEF SendNow, codes, maps, table, digest, bounds, StartPass, Linked
<1>12. ASSUME Sleep PROVE CodeInv'
  BY <1>12 DEF Sleep, codes, maps, table, digest, bounds, Wait
<1>13. ASSUME RestartRunner PROVE CodeInv'
  BY <1>13 DEF RestartRunner, codes, maps, table, digest, bounds, Wait
<1>14. ASSUME Tick PROVE CodeInv'
  BY <1>14 DEF Tick, codes, maps, table, digest, bounds
<1>15. ASSUME SetBack PROVE CodeInv'
  BY <1>15 DEF SetBack, codes, maps, table, digest, bounds
<1>. QED  BY <1>0, <1>1, <1>2, <1>3, <1>4, <1>5, <1>6, <1>7, <1>8, <1>9, <1>10,
         <1>11, <1>12, <1>13, <1>14, <1>15
         DEF Next

\* A chat that is linked to a user is linked to no other.
LEMMA LinksStep == TypeOK /\ LinksAgree /\ [Next]_vars => LinksAgree'
<1>. SUFFICES ASSUME TypeOK, LinksAgree, [Next]_vars PROVE LinksAgree'
  OBVIOUS
<1>. USE ChatAssumption DEF TypeOK, Passes, Nobody, LinksAgree
<1>0. CASE UNCHANGED vars
  BY <1>0 DEF vars, codes, maps, table, digest, bounds
<1>1. ASSUME NEW u \in Users, GenerateCode(u) PROVE LinksAgree'
  BY <1>1 DEF GenerateCode, codes, maps, table, digest, bounds
<1>2. ASSUME NEW u \in Users, Notify(u) PROVE LinksAgree'
  BY <1>2 DEF Notify, codes, maps, table, digest, bounds
<1>3. ASSUME NEW k \in Codes, CodeExpires(k) PROVE LinksAgree'
  BY <1>3 DEF CodeExpires, codes, maps, table, digest, bounds
<1>4. ASSUME NEW k \in Codes, NEW c \in Chats, LinkAccount(k, c) PROVE LinksAgree'
  BY <1>4 DEF LinkAccount, codes, maps, table, digest, bounds, ChatIsFree
<1>5. ASSUME NEW p \in Passes, NEW u \in Users, StatsRaise(p, u) PROVE LinksAgree'
  BY <1>5 DEF StatsRaise, Turn, codes, maps, table, digest, bounds, AfterException
<1>6. ASSUME NEW p \in Passes, NEW u \in Users, Deliver(p, u) PROVE LinksAgree'
  BY <1>6 DEF Deliver, Turn, codes, maps, table, digest, bounds
<1>7. ASSUME NEW p \in Passes, NEW u \in Users, DeliveryFails(p, u) PROVE LinksAgree'
  BY <1>7 DEF DeliveryFails, Turn, codes, maps, table, digest, bounds
<1>8. ASSUME SaveAccount PROVE LinksAgree'
  BY <1>8 DEF SaveAccount, codes, maps, table, digest, bounds, RowAllowed
<1>9. ASSUME RestartService PROVE LinksAgree'
  BY <1>9 DEF RestartService, codes, maps, table, digest, bounds
<1>10. ASSUME Wake PROVE LinksAgree'
  BY <1>10 DEF Wake, codes, maps, table, digest, bounds, StartPass, Linked
<1>11. ASSUME SendNow PROVE LinksAgree'
  BY <1>11 DEF SendNow, codes, maps, table, digest, bounds, StartPass, Linked
<1>12. ASSUME Sleep PROVE LinksAgree'
  BY <1>12 DEF Sleep, codes, maps, table, digest, bounds, Wait
<1>13. ASSUME RestartRunner PROVE LinksAgree'
  BY <1>13 DEF RestartRunner, codes, maps, table, digest, bounds, Wait
<1>14. ASSUME Tick PROVE LinksAgree'
  BY <1>14 DEF Tick, codes, maps, table, digest, bounds
<1>15. ASSUME SetBack PROVE LinksAgree'
  BY <1>15 DEF SetBack, codes, maps, table, digest, bounds
<1>. QED  BY <1>0, <1>1, <1>2, <1>3, <1>4, <1>5, <1>6, <1>7, <1>8, <1>9, <1>10,
         <1>11, <1>12, <1>13, <1>14, <1>15
         DEF Next

\* A row is written once, for a user and a chat that have none.
LEMMA AccountStep == TypeOK /\ AccountInv /\ [Next]_vars => AccountInv'
<1>. SUFFICES ASSUME TypeOK, AccountInv, [Next]_vars PROVE AccountInv'
  OBVIOUS
<1>. USE ChatAssumption DEF TypeOK, Passes, Nobody, AccountInv
<1>0. CASE UNCHANGED vars
  BY <1>0 DEF vars, codes, maps, table, digest, bounds
<1>1. ASSUME NEW u \in Users, GenerateCode(u) PROVE AccountInv'
  BY <1>1 DEF GenerateCode, codes, maps, table, digest, bounds
<1>2. ASSUME NEW u \in Users, Notify(u) PROVE AccountInv'
  BY <1>2 DEF Notify, codes, maps, table, digest, bounds
<1>3. ASSUME NEW k \in Codes, CodeExpires(k) PROVE AccountInv'
  BY <1>3 DEF CodeExpires, codes, maps, table, digest, bounds
<1>4. ASSUME NEW k \in Codes, NEW c \in Chats, LinkAccount(k, c) PROVE AccountInv'
  BY <1>4 DEF LinkAccount, codes, maps, table, digest, bounds, ChatIsFree
<1>5. ASSUME NEW p \in Passes, NEW u \in Users, StatsRaise(p, u) PROVE AccountInv'
  BY <1>5 DEF StatsRaise, Turn, codes, maps, table, digest, bounds, AfterException
<1>6. ASSUME NEW p \in Passes, NEW u \in Users, Deliver(p, u) PROVE AccountInv'
  BY <1>6 DEF Deliver, Turn, codes, maps, table, digest, bounds
<1>7. ASSUME NEW p \in Passes, NEW u \in Users, DeliveryFails(p, u) PROVE AccountInv'
  BY <1>7 DEF DeliveryFails, Turn, codes, maps, table, digest, bounds
<1>8. ASSUME SaveAccount PROVE AccountInv'
  BY <1>8 DEF SaveAccount, codes, maps, table, digest, bounds, RowAllowed
<1>9. ASSUME RestartService PROVE AccountInv'
  BY <1>9 DEF RestartService, codes, maps, table, digest, bounds
<1>10. ASSUME Wake PROVE AccountInv'
  BY <1>10 DEF Wake, codes, maps, table, digest, bounds, StartPass, Linked
<1>11. ASSUME SendNow PROVE AccountInv'
  BY <1>11 DEF SendNow, codes, maps, table, digest, bounds, StartPass, Linked
<1>12. ASSUME Sleep PROVE AccountInv'
  BY <1>12 DEF Sleep, codes, maps, table, digest, bounds, Wait
<1>13. ASSUME RestartRunner PROVE AccountInv'
  BY <1>13 DEF RestartRunner, codes, maps, table, digest, bounds, Wait
<1>14. ASSUME Tick PROVE AccountInv'
  BY <1>14 DEF Tick, codes, maps, table, digest, bounds
<1>15. ASSUME SetBack PROVE AccountInv'
  BY <1>15 DEF SetBack, codes, maps, table, digest, bounds
<1>. QED  BY <1>0, <1>1, <1>2, <1>3, <1>4, <1>5, <1>6, <1>7, <1>8, <1>9, <1>10,
         <1>11, <1>12, <1>13, <1>14, <1>15
         DEF Next

\* A pass uses up what was to come of the day; a clock set back adds one.
LEMMA DigestStep == TypeOK /\ DigestInv /\ [Next]_vars => DigestInv'
<1>. SUFFICES ASSUME TypeOK, DigestInv, [Next]_vars PROVE DigestInv'
  OBVIOUS
<1>. USE ChatAssumption DEF TypeOK, Passes, Nobody, DigestInv, ToCome, Pending
<1>0. CASE UNCHANGED vars
  BY <1>0 DEF vars, codes, maps, table, digest, bounds
<1>1. ASSUME NEW u \in Users, GenerateCode(u) PROVE DigestInv'
  BY <1>1 DEF GenerateCode, codes, maps, table, digest, bounds
<1>2. ASSUME NEW u \in Users, Notify(u) PROVE DigestInv'
  BY <1>2 DEF Notify, codes, maps, table, digest, bounds
<1>3. ASSUME NEW k \in Codes, CodeExpires(k) PROVE DigestInv'
  BY <1>3 DEF CodeExpires, codes, maps, table, digest, bounds
<1>4. ASSUME NEW k \in Codes, NEW c \in Chats, LinkAccount(k, c) PROVE DigestInv'
  BY <1>4 DEF LinkAccount, codes, maps, table, digest, bounds, ChatIsFree
<1>5. ASSUME NEW p \in Passes, NEW u \in Users, StatsRaise(p, u) PROVE DigestInv'
  BY <1>5 DEF StatsRaise, Turn, codes, maps, table, digest, bounds, AfterException
<1>6. ASSUME NEW p \in Passes, NEW u \in Users, Deliver(p, u) PROVE DigestInv'
  BY <1>6 DEF Deliver, Turn, codes, maps, table, digest, bounds
<1>7. ASSUME NEW p \in Passes, NEW u \in Users, DeliveryFails(p, u) PROVE DigestInv'
  BY <1>7 DEF DeliveryFails, Turn, codes, maps, table, digest, bounds
<1>8. ASSUME SaveAccount PROVE DigestInv'
  BY <1>8 DEF SaveAccount, codes, maps, table, digest, bounds, RowAllowed
<1>9. ASSUME RestartService PROVE DigestInv'
  BY <1>9 DEF RestartService, codes, maps, table, digest, bounds
<1>10. ASSUME Wake PROVE DigestInv'
  BY <1>10 DEF Wake, codes, maps, table, digest, bounds, StartPass, Linked
<1>11. ASSUME SendNow PROVE DigestInv'
  BY <1>11 DEF SendNow, codes, maps, table, digest, bounds, StartPass, Linked
<1>12. ASSUME Sleep PROVE DigestInv'
  BY <1>12 DEF Sleep, codes, maps, table, digest, bounds, Wait
<1>13. ASSUME RestartRunner PROVE DigestInv'
  BY <1>13 DEF RestartRunner, codes, maps, table, digest, bounds, Wait
<1>14. ASSUME Tick PROVE DigestInv'
  <2>. USE DEF Tick, codes, maps, table, bounds
  <2>1. CASE hour + 1 = DayLength
    <3>1. /\ hour' = 0 /\ dated' = FALSE
          /\ UNCHANGED <<todo, runner, setbacks>>
          /\ \A u \in Users : today'[u] = 0 /\ Pending(u)' = 0
      BY <1>14, <2>1
    <3>2. runner = "sleep" => alarm > 0 /\ alarm' = alarm - 1
      BY <1>14
    <3>3. runner = "sleep" /\ setbacks = 0 => alarm' = DigestHour
      BY <2>1, <3>2
    <3>4. ToCome' \in {0, 1, 2} /\ (setbacks = 0 => ToCome' <= 1)
      BY <3>1, <3>3
    <3>. QED  BY <3>1, <3>3, <3>4
  <2>2. CASE hour + 1 # DayLength
    BY <1>14, <2>2
  <2>. QED  BY <2>1, <2>2
<1>15. ASSUME SetBack PROVE DigestInv'
  BY <1>15 DEF SetBack, codes, maps, table, digest, bounds
<1>. QED  BY <1>0, <1>1, <1>2, <1>3, <1>4, <1>5, <1>6, <1>7, <1>8, <1>9, <1>10,
         <1>11, <1>12, <1>13, <1>14, <1>15
         DEF Next

-----------------------------------------------------------------------------

\* Nobody is linked and the runner waits for the hour at first.
LEMMA InitInv == Init => IInv
<1>. SUFFICES ASSUME Init PROVE IInv
  OBVIOUS
<1>1. TypeOK
  <2>1. 0 \in 0 .. DayLength - 1 /\ Wait(0) \in 0 .. DayLength
    BY ChatAssumption DEF Wait
  <2>. QED  BY <2>1, ChatAssumption DEF Init, TypeOK, Passes, Nobody
<1>2. CodeInv /\ LinksAgree /\ AccountInv
  BY DEF Init, CodeInv, LinksAgree, AccountInv, Passes
<1>3. DigestInv
  BY ChatAssumption DEF Init, DigestInv, ToCome, Pending, Passes, Wait
<1>. QED  BY <1>1, <1>2, <1>3 DEF IInv

\* The invariant is inductive.
LEMMA StepInv == IInv /\ [Next]_vars => IInv'
BY TypeStep, CodeStep, LinksStep, AccountStep, DigestStep DEF IInv

\* It holds throughout every behaviour.
LEMMA Inductive == Spec => []IInv
<1>. QED  BY InitInv, StepInv, PTL DEF Spec

\* The maps, the table, the runner and its passes stay in range.
THEOREM TypeCorrect == Spec => []TypeOK
<1>1. IInv => TypeOK
  BY DEF IInv
<1>. QED  BY <1>1, Inductive, PTL

\* link_account keeps its two maps inverse: nobody takes a linked chat over, however
\* users and chats are linked again.
THEOREM MapsAgree == Spec => []LinksAgree
<1>1. IInv => LinksAgree
  BY DEF IInv
<1>. QED  BY <1>1, Inductive, PTL

\* Whoever writes to a user's chat, the worker or a digest, a chat hears of one user
\* and a user is heard of in one chat (SqlTelegramAccountRepository.create, UNIQUE).
THEOREM ChatHearsOneUser == Spec => []OneVoice
<1>1. IInv => OneVoice
  <2>. SUFFICES ASSUME IInv, NEW x \in received, NEW y \in received
                PROVE  (x[1] = y[1]) <=> (x[2] = y[2])
    BY DEF OneVoice
  <2>1. x[1] \in Users /\ y[1] \in Users /\ x[2] \in Chats /\ y[2] \in Chats
    BY DEF IInv, TypeOK
  <2>2. account[x[1]] = x[2] /\ account[y[1]] = y[2]
    BY DEF IInv, AccountInv
  <2>3. x[2] # None
    BY <2>1, ChatAssumption
  <2>. QED  BY <2>1, <2>2, <2>3 DEF IInv, AccountInv
<1>. QED  BY <1>1, Inductive, PTL

\* DigestRunner sends a user one digest a day, and one more at most for every time
\* that the clock was set back (_seconds_until_next_deadline).
THEOREM DigestOnceADay == Spec => []OncePerDay
<1>1. IInv => OncePerDay
  <2>. SUFFICES ASSUME IInv, NEW u \in Users PROVE today[u] <= 1 + setbacks
    BY DEF OncePerDay
  <2>1. today[u] \in Nat /\ setbacks \in Nat /\ Pending(u) \in {0, 1} /\ ToCome \in {0, 1, 2}
    BY DEF IInv, TypeOK, Pending, ToCome
  <2>2. today[u] + Pending(u) + ToCome <= 1 + setbacks
    BY DEF IInv, DigestInv
  <2>. QED  BY <2>1, <2>2
<1>. QED  BY <1>1, Inductive, PTL

=============================================================================
