---------------------------- MODULE ChatAccounts ----------------------------
(***************************************************************************)
(* One messenger channel from the linking code to the daily digest: the     *)
(* linking service (maps in memory), the table of linked accounts, the      *)
(* notifications of the apply worker, and the digest runner.  Telegram and  *)
(* MAX have the same code twice; a definition stands for both of its        *)
(* copies.  Codes and /link commands meet one linking service, as in the    *)
(* tests.                                                                   *)
(*                                                                          *)
(* Codes expire after ten minutes, here at any time.  The runner sleeps by  *)
(* the monotonic clock until an hour of the wall clock, which may be set    *)
(* back meanwhile.                                                          *)
(***************************************************************************)
EXTENDS Integers, FiniteSets

CONSTANTS
  Users, Chats,
  Codes,           \* bound: random codes that may be issued
  None,
  DayLength,       \* a day in ticks
  DigestHour,      \* DEFAULT_DIGEST_HOUR_UTC
  MaxRestarts,     \* bound on restarts of the processes
  MaxSetbacks      \* bound on corrections of the wall clock by a tick

ASSUME ChatAssumption ==
  /\ None \notin Users \cup Chats
  /\ DayLength \in Nat /\ DigestHour \in Nat /\ DigestHour < DayLength
  /\ MaxRestarts \in Nat /\ MaxSetbacks \in Nat

VARIABLES
  owner,       \* per code: the user it was issued for, None if not in the service
  consumed,    \* codes whose record is marked as consumed
  drawn,       \* codes issued so far
  links,       \* user to chat, in memory
  reverse,     \* chat to user, in memory
  account,     \* the chat in the user's row of telegram_accounts / max_accounts
  before,      \* order of the rows by linked_at: pairs of an earlier and a later user
  saving,      \* the user and chat of a /link between the maps and the table
  received,    \* users whose news a chat was sent, as pairs
  hour,        \* the wall clock's
  alarm,       \* ticks until the sleep of the runner ends
  runner,      \* "sleep", "send" or, in a mutant, "gone"
  todo,        \* users still to be served, per pass
  today,       \* daily digests sent to a user with the date of today
  dated,       \* the daily pass carries the date of today
  restarts, setbacks

codes == <<owner, consumed, drawn>>
maps == <<links, reverse>>
digest == <<alarm, runner, todo, today, dated>>
bounds == <<restarts, setbacks>>
table == <<account, before>>
vars == <<codes, maps, table, saving, received, hour, digest, bounds>>

Passes == {"daily", "manual"}
Nobody == [user |-> None, chat |-> None]

\* Mutant: at the deadline itself the digest is due at once.
WaitIncluding(h) == IF h <= DigestHour THEN DigestHour - h ELSE DayLength + DigestHour - h

\* _seconds_until_next_deadline: the hour of today, or of tomorrow if it is past.
Wait(h) == IF h < DigestHour THEN DigestHour - h ELSE DayLength + DigestHour - h

Init ==
  /\ owner = [k \in Codes |-> None] /\ consumed = {} /\ drawn = {}
  /\ links = [u \in Users |-> None]
  /\ reverse = [c \in Chats |-> None]
  /\ account = [u \in Users |-> None] /\ before = {}
  /\ saving = Nobody
  /\ received = {}
  /\ hour = 0
  /\ alarm = Wait(0) /\ runner = "sleep"
  /\ todo = [p \in Passes |-> {}]
  /\ today = [u \in Users |-> 0] /\ dated = FALSE
  /\ restarts = 0 /\ setbacks = 0

-----------------------------------------------------------------------------
\* Linking.

\* generate_token: the user's earlier codes, consumed ones included, are dropped.
GenerateCode(u) ==
  /\ \E k \in Codes \ drawn :
       /\ owner' = [j \in Codes |-> IF j = k THEN u ELSE IF owner[j] = u THEN None ELSE owner[j]]
       /\ drawn' = drawn \cup {k}
  /\ UNCHANGED <<consumed, maps, table, saving, received, hour, digest, bounds>>

\* Ten minutes later the next link_account drops the code.
CodeExpires(k) ==
  /\ owner[k] # None
  /\ owner' = [owner EXCEPT ![k] = None]
  /\ UNCHANGED <<consumed, drawn, maps, table, saving, received, hour, digest, bounds>>

\* Mutant: the chat's former user is not asked for.
NotTaken(c, u) == TRUE

\* _telegram_to_user: the chat is not linked to somebody else.
ChatIsFree(c, u) == reverse[c] \in {None, u}

\* link_account, under its lock.  Every other outcome is a refusal that changes
\* nothing.
LinkAccount(k, c) ==
  /\ saving = Nobody
  /\ owner[k] # None /\ k \notin consumed
  /\ ChatIsFree(c, owner[k])
  /\ consumed' = consumed \cup {k}
  /\ links' = [links EXCEPT ![owner[k]] = c]
  /\ reverse' = [reverse EXCEPT ![c] = owner[k]]
  /\ saving' = [user |-> owner[k], chat |-> c]
  /\ UNCHANGED <<owner, drawn, table, received, hour, digest, bounds>>

\* list_all: the users with a row.
Linked == {u \in Users : account[u] # None}

\* Mutant: the table has no UNIQUE constraint on the chat.
RowAllowedPerUser(u, c) == account[u] = None

\* create looks for a row of the user; UNIQUE refuses a second one of the chat.
RowAllowed(u, c) == account[u] = None /\ \A v \in Users : account[v] # c

\* The handler saves the row and says so, or says that it failed.
SaveAccount ==
  /\ saving # Nobody
  /\ \/ /\ RowAllowed(saving.user, saving.chat)
        /\ account' = [account EXCEPT ![saving.user] = saving.chat]
        /\ before' = before \cup {<<u, saving.user>> : u \in Linked}
     \/ UNCHANGED table
  /\ saving' = Nobody
  /\ UNCHANGED <<codes, maps, received, hour, digest, bounds>>

\* The process with the service is restarted; the table stays.
RestartService ==
  /\ restarts < MaxRestarts
  /\ restarts' = restarts + 1
  /\ owner' = [k \in Codes |-> None] /\ consumed' = {}
  /\ links' = [u \in Users |-> None]
  /\ reverse' = [c \in Chats |-> None]
  /\ saving' = Nobody
  /\ UNCHANGED <<drawn, table, received, hour, digest, setbacks>>

-----------------------------------------------------------------------------
\* Messages to linked chats.

\* The apply worker tells the user how a job went.
Notify(u) ==
  /\ account[u] # None
  /\ received' = received \cup {<<u, account[u]>>}
  /\ UNCHANGED <<codes, maps, table, saving, hour, digest, bounds>>

\* send_to_all_users begins: the users with an account are read once.
StartPass(p) ==
  /\ todo' = [todo EXCEPT ![p] = Linked]
  /\ UNCHANGED <<codes, maps, table, saving, received, hour, today, bounds>>

\* run: the sleep is over.
Wake ==
  /\ runner = "sleep" /\ alarm = 0
  /\ runner' = "send" /\ dated' = TRUE
  /\ UNCHANGED alarm
  /\ StartPass("daily")

\* POST /digest/send
SendNow ==
  /\ todo["manual"] = {}
  /\ UNCHANGED <<alarm, runner, dated>>
  /\ StartPass("manual")

\* Users are served one after the other, whoever was linked first first.
Turn(p, u) == u \in todo[p] /\ \A v \in todo[p] : <<v, u>> \notin before

\* _dispatch: the chat is looked up again, and the platform takes the message.
Deliver(p, u) ==
  /\ Turn(p, u)
  /\ todo' = [todo EXCEPT ![p] = @ \ {u}]
  /\ received' = received \cup {<<u, account[u]>>}
  /\ today' = IF p = "daily" /\ dated THEN [today EXCEPT ![u] = @ + 1] ELSE today
  /\ UNCHANGED <<codes, maps, table, saving, hour, alarm, runner, dated, bounds>>

\* The platform refuses the message; the pass goes on.
DeliveryFails(p, u) ==
  /\ Turn(p, u)
  /\ todo' = [todo EXCEPT ![p] = @ \ {u}]
  /\ UNCHANGED <<codes, maps, table, saving, received, hour, alarm, runner, today, dated, bounds>>

\* Mutant: the exception ends the runner.
AfterExceptionEnded == "gone"

\* run_once logs it and the loop goes on.
AfterException == "send"

\* Reading the counts of a user raises; those behind are left out.
StatsRaise(p, u) ==
  /\ Turn(p, u)
  /\ todo' = [todo EXCEPT ![p] = {}]
  /\ runner' = IF p = "daily" THEN AfterException ELSE runner
  /\ UNCHANGED <<codes, maps, table, saving, received, hour, alarm, today, dated, bounds>>

\* run: the pass is over, and the runner sleeps until the next deadline.
Sleep ==
  /\ runner = "send" /\ todo["daily"] = {}
  /\ runner' = "sleep" /\ alarm' = Wait(hour)
  /\ UNCHANGED <<codes, maps, table, saving, received, hour, todo, today, dated, bounds>>

\* The runner's process is restarted: what is left of a pass is forgotten.
RestartRunner ==
  /\ restarts < MaxRestarts
  /\ restarts' = restarts + 1
  /\ runner' = "sleep" /\ alarm' = Wait(hour)
  /\ todo' = [todo EXCEPT !["daily"] = {}]
  /\ UNCHANGED <<codes, maps, table, saving, received, hour, today, dated, setbacks>>

\* Timers fire in time.
Tick ==
  /\ ~(runner = "sleep" /\ alarm = 0)
  /\ hour' = IF hour + 1 = DayLength THEN 0 ELSE hour + 1
  /\ alarm' = IF runner = "sleep" THEN alarm - 1 ELSE alarm
  /\ today' = IF hour' = 0 THEN [u \in Users |-> 0] ELSE today
  /\ dated' = (dated /\ hour' # 0)
  /\ UNCHANGED <<codes, maps, table, saving, received, runner, todo, bounds>>

SetBack ==
  /\ setbacks < MaxSetbacks /\ hour > 0
  /\ setbacks' = setbacks + 1
  /\ hour' = hour - 1
  /\ UNCHANGED <<codes, maps, table, saving, received, digest, restarts>>

Next ==
  \/ \E u \in Users : GenerateCode(u) \/ Notify(u)
  \/ \E k \in Codes : CodeExpires(k) \/ \E c \in Chats : LinkAccount(k, c)
  \/ \E p \in Passes, u \in Users : StatsRaise(p, u) \/ Deliver(p, u) \/ DeliveryFails(p, u)
  \/ SaveAccount \/ RestartService \/ Wake \/ SendNow \/ Sleep \/ RestartRunner
  \/ Tick \/ SetBack

Spec == Init /\ [][Next]_vars

\* The loop runs on, time passes, and a message to a user that is tried again and
\* again is not refused for ever: the platform takes it, unless it is the counts that
\* raise.
FairSpec ==
  /\ Spec
  /\ WF_vars(Wake) /\ WF_vars(Sleep) /\ WF_vars(Tick)
  /\ \A u \in Users : SF_vars(Deliver("daily", u) \/ StatsRaise("daily", u))

-----------------------------------------------------------------------------
\* Properties.

TypeOK ==
  /\ owner \in [Codes -> Users \cup {None}]
  /\ consumed \subseteq drawn /\ drawn \subseteq Codes
  /\ links \in [Users -> Chats \cup {None}]
  /\ reverse \in [Chats -> Users \cup {None}]
  /\ account \in [Users -> Chats \cup {None}] /\ before \subseteq Users \X Users
  /\ saving \in [user : Users, chat : Chats] \cup {Nobody}
  /\ received \subseteq Users \X Chats
  /\ hour \in 0 .. DayLength - 1
  /\ alarm \in 0 .. DayLength
  /\ runner \in {"sleep", "send"}
  /\ todo \in [Passes -> SUBSET Users]
  /\ today \in [Users -> Nat] /\ dated \in BOOLEAN
  /\ restarts \in Nat /\ setbacks \in Nat

\* A chat hears of one user only, and a user is heard of in one chat only,
\* through every relinking, lost map and failed save.
OneVoice ==
  \A x, y \in received : (x[1] = y[1]) <=> (x[2] = y[2])

\* The two maps of the linking service agree: the chat a user is linked to is
\* linked to that user, so nobody else can take it over.
LinksAgree == \A u \in Users : links[u] # None => reverse[links[u]] = u

\* DigestRunner "fires the digest once a day" (runner.py): for each correction
\* of the clock at most one more digest with the same date is sent.
OncePerDay == \A u \in Users : today[u] <= 1 + setbacks

KeepsRaising(u) == []<><<StatsRaise("daily", u)>>_vars

\* A linked user gets a digest in the end, although single passes break off, unless the
\* counts of the user, or of one who is served earlier, raise again and again
\* (run_once, send_to_all_users).
DigestArrives ==
  \A u \in Users, c \in Chats :
    \/ account[u] = c ~> <<u, c>> \in received
    \/ \E v \in Users : KeepsRaising(v) /\ <>(v = u \/ <<v, u>> \in before)
=============================================================================
