----------------------------- MODULE MatchReview -----------------------------
(***************************************************************************)
(* The life of a vacancy match: ingestion creates it, the scorer rates it,  *)
(* its owner decides on it from the chats (features/telegram, features/max, *)
(* features/messaging) or the API (features/matches), and the apply worker  *)
(* sends the application and flips it to APPLIED.  All of them write the    *)
(* same status column, each in a transaction of its own.                    *)
(*                                                                          *)
(* The job of a match is an ApplyRow, which ApplyQueue implements: a worker *)
(* holds it from the claim to its conclusion, and a cancel whose check is   *)
(* long stale may overwrite the row at any time.                            *)
(***************************************************************************)
EXTENDS Naturals, Sequences

CONSTANTS
  Matches,
  Users,            \* local accounts; every command comes from a linked one
  Owner,            \* VacancyMatch.user_id
  Channels,         \* chat platforms, one bot process each
  Commands,         \* the commands that users send: [name, match, user]
  MaxSent,          \* bound on the commands sent
  MaxRequests,      \* bound on the API requests
  MaxCrashes,       \* bound on process deaths
  EnqueueMayRaise,  \* whether enqueue_for_match may raise into the accept
  Scorers,          \* callers of score_pending_matches, each one pass at a time
  NoMatch           \* a scorer awaits no answer

Decision == [accept |-> "accepted", reject |-> "rejected", defer |-> "deferred"]

ASSUME ReviewAssumption ==
  /\ Owner \in [Matches -> Users]
  /\ Commands \subseteq [name : DOMAIN Decision, match : Matches, user : Users]
  /\ MaxSent \in Nat /\ MaxRequests \in Nat /\ MaxCrashes \in Nat
  /\ EnqueueMayRaise \in BOOLEAN
  /\ NoMatch \notin Matches

VARIABLES
  status,        \* vacancy_matches.status
  scored,        \* whether vacancy_matches.score is set
  job,           \* the apply_jobs row of the match
  hold,          \* what a worker is doing with the job
  applications,  \* applications recorded as sent for the match
  asked,         \* matches whose owner sent an accept, or that the API enqueued
  inbox,         \* updates the platform has not had confirmed, the handled ones aside
  batch,         \* how many of them the process has fetched
  unconfirmed,   \* handled updates the platform would deliver again
  phase,         \* where the handler of the first fetched update is
  drain,         \* matches left in the scorer's pass
  scoring,       \* the match whose LLM answer the scorer awaits
  ratings,       \* scores each scorer has stored for the match
  sent, requests, crashes

chatVars == <<inbox, batch, unconfirmed, phase>>
scorerVars == <<drain, scoring, ratings>>
jobVars == <<job, hold, applications>>
bounds == <<sent, requests, crashes>>
vars == <<status, scored, jobVars, asked, chatVars, scorerVars, bounds>>

Row == INSTANCE ApplyRow

-----------------------------------------------------------------------------

MatchStatus ==
  {"new", "scored", "review", "accepted", "rejected", "applied", "dismissed", "deferred"}

JobStatus == {"queued", "running", "succeeded", "cancelled", "dead_letter"}

\* _ALLOWED_ACCEPT_SOURCES, _ALLOWED_REJECT_SOURCES, _ALLOWED_DEFER_SOURCES.
Allowed ==
  [accept |-> {"new", "scored", "review"},
   reject |-> {"new", "scored", "review", "accepted"},
   defer  |-> {"new", "scored", "review", "deferred"}]

Init ==
  /\ status = [m \in Matches |-> "absent"]
  /\ scored = [m \in Matches |-> FALSE]
  /\ job = [m \in Matches |-> "absent"]
  /\ hold = [m \in Matches |-> "none"]
  /\ applications = [m \in Matches |-> 0]
  /\ asked = {}
  /\ inbox = [ch \in Channels |-> <<>>]
  /\ batch = [ch \in Channels |-> 0]
  /\ unconfirmed = [ch \in Channels |-> <<>>]
  /\ phase = [ch \in Channels |-> "idle"]
  /\ drain = [s \in Scorers |-> {}]
  /\ scoring = [s \in Scorers |-> NoMatch]
  /\ ratings = [m \in Matches |-> [s \in Scorers |-> 0]]
  /\ sent = 0 /\ requests = 0 /\ crashes = 0

\* create_match and bulk_create_for_profile insert a row unless there is one.
Ingest(m) ==
  /\ status[m] = "absent"
  /\ status' = [status EXCEPT ![m] = "new"]
  /\ UNCHANGED <<scored, jobVars, asked, chatVars, scorerVars, bounds>>

-----------------------------------------------------------------------------
\* The chats.

\* A user sends a command on a match they have been shown.
Send(ch, cmd) ==
  /\ sent < MaxSent
  /\ status[cmd.match] # "absent"
  /\ inbox' = [inbox EXCEPT ![ch] = Append(@, cmd)]
  /\ asked' = IF cmd.name = "accept" /\ cmd.user = Owner[cmd.match]
                THEN asked \cup {cmd.match} ELSE asked
  /\ sent' = sent + 1
  /\ UNCHANGED <<status, scored, jobVars, batch, unconfirmed, phase, scorerVars,
                 requests, crashes>>

\* getUpdates(offset) and GET /updates(marker): the cursor sent with a poll
\* confirms every update fetched before it.
Poll(ch) ==
  /\ batch[ch] = 0
  /\ inbox[ch] # <<>> \/ unconfirmed[ch] # <<>>
  /\ batch' = [batch EXCEPT ![ch] = Len(inbox[ch])]
  /\ unconfirmed' = [unconfirmed EXCEPT ![ch] = <<>>]
  /\ UNCHANGED <<status, scored, jobVars, asked, inbox, phase, scorerVars, bounds>>

Command(ch) == Head(inbox[ch])

\* _dispatch_update is done with the update, whether its handler replied or raised.
EndUpdate(ch) ==
  /\ inbox' = [inbox EXCEPT ![ch] = Tail(@)]
  /\ batch' = [batch EXCEPT ![ch] = @ - 1]
  /\ unconfirmed' = [unconfirmed EXCEPT ![ch] = Append(@, Command(ch))]
  /\ phase' = [phase EXCEPT ![ch] = "idle"]

Refuse(ch) ==
  /\ batch[ch] > 0 /\ phase[ch] = "idle"
  /\ status[Command(ch).match] \notin Allowed[Command(ch).name]
  /\ EndUpdate(ch)
  /\ UNCHANGED <<status, scored, jobVars, asked, scorerVars, bounds>>

\* The handler's pre-check of the source status ...
Check(ch) ==
  /\ batch[ch] > 0 /\ phase[ch] = "idle"
  /\ status[Command(ch).match] \in Allowed[Command(ch).name]
  /\ phase' = [phase EXCEPT ![ch] = "checked"]
  /\ UNCHANGED <<status, scored, jobVars, asked, inbox, batch, unconfirmed,
                 scorerVars, bounds>>

\* Mutant: the ownership check is gone.
OwnsAny(cmd) == cmd.user \in Users

\* _assert_ownership.
Owns(cmd) == cmd.user = Owner[cmd.match]

RefuseStranger(ch) ==
  /\ phase[ch] = "checked"
  /\ ~Owns(Command(ch))
  /\ EndUpdate(ch)
  /\ UNCHANGED <<status, scored, jobVars, asked, scorerVars, bounds>>

\* ... and update_status, which checks the owner and no longer the status.
WriteDecision(ch) ==
  LET cmd == Command(ch)
  IN /\ phase[ch] = "checked"
     /\ Owns(cmd)
     /\ status' = [status EXCEPT ![cmd.match] = Decision[cmd.name]]
     /\ phase' = [phase EXCEPT ![ch] = IF cmd.name = "accept" THEN "accepted"
                                                               ELSE "decided"]
     /\ UNCHANGED <<scored, jobVars, asked, inbox, batch, unconfirmed, scorerVars,
                    bounds>>

\* Mutant: an upsert that queues the job there is again.
EnqueuedAgain(m) == [job EXCEPT ![m] = "queued"]

\* enqueue_for_match returns the job there is, whatever has become of it.
Enqueued(m) == [job EXCEPT ![m] = IF @ = "absent" THEN "queued" ELSE @]

EnqueueJob(ch) ==
  /\ phase[ch] = "accepted"
  /\ job' = Enqueued(Command(ch).match)
  /\ phase' = [phase EXCEPT ![ch] = "decided"]
  /\ UNCHANGED <<status, scored, hold, applications, asked, inbox, batch,
                 unconfirmed, scorerVars, bounds>>

\* The accept swallows the exception and leaves it to the audit event.
EnqueueFails(ch) ==
  /\ EnqueueMayRaise
  /\ phase[ch] = "accepted"
  /\ phase' = [phase EXCEPT ![ch] = "decided"]
  /\ UNCHANGED <<status, scored, jobVars, asked, inbox, batch, unconfirmed,
                 scorerVars, bounds>>

\* The audit event, the learning signal and the reply.
Reply(ch) ==
  /\ phase[ch] = "decided"
  /\ EndUpdate(ch)
  /\ UNCHANGED <<status, scored, jobVars, asked, scorerVars, bounds>>

\* Mutant: the cursor moves after the handler instead of before it.
HandlerRaisesUnadvanced(ch) ==
  /\ batch[ch] > 0 /\ phase[ch] # "accepted"
  /\ phase' = [phase EXCEPT ![ch] = "idle"]
  /\ batch' = [batch EXCEPT ![ch] = 0]
  /\ UNCHANGED <<status, scored, jobVars, asked, inbox, unconfirmed, scorerVars, bounds>>

\* A lookup, update_status or the audit log raises; the loop goes on with the
\* next update.
HandlerRaises(ch) ==
  /\ batch[ch] > 0 /\ phase[ch] # "accepted"
  /\ EndUpdate(ch)
  /\ UNCHANGED <<status, scored, jobVars, asked, scorerVars, bounds>>

\* The cursor is kept in memory only: what was not confirmed comes again.
CrashBot(ch) ==
  /\ crashes < MaxCrashes
  /\ batch[ch] > 0 \/ unconfirmed[ch] # <<>>
  /\ inbox' = [inbox EXCEPT ![ch] = unconfirmed[ch] \o @]
  /\ batch' = [batch EXCEPT ![ch] = 0]
  /\ unconfirmed' = [unconfirmed EXCEPT ![ch] = <<>>]
  /\ phase' = [phase EXCEPT ![ch] = "idle"]
  /\ crashes' = crashes + 1
  /\ UNCHANGED <<status, scored, jobVars, asked, scorerVars, sent, requests>>

-----------------------------------------------------------------------------
\* The API: PATCH /matches/{id}/status, POST /apply-jobs and its cancel.

Patch(m, s) ==
  /\ requests < MaxRequests
  /\ status[m] # "absent"
  /\ status' = [status EXCEPT ![m] = s]
  /\ scored' \in {scored, [scored EXCEPT ![m] = TRUE]}
  /\ requests' = requests + 1
  /\ UNCHANGED <<jobVars, asked, chatVars, scorerVars, sent, crashes>>

\* Neither the status of the match nor its owner is looked at.
RequestJob(m) ==
  /\ requests < MaxRequests
  /\ status[m] # "absent"
  /\ job' = Enqueued(m)
  /\ asked' = asked \cup {m}
  /\ requests' = requests + 1
  /\ UNCHANGED <<status, scored, hold, applications, chatVars, scorerVars, sent, crashes>>

CancelJob(m) ==
  /\ requests < MaxRequests
  /\ Row!Cancel(m)
  /\ requests' = requests + 1
  /\ UNCHANGED <<status, scored, asked, chatVars, scorerVars, sent, crashes>>

-----------------------------------------------------------------------------
\* The apply worker, as ApplyQueue allows it.

ClaimJob(m) ==
  /\ Row!Claim(m)
  /\ UNCHANGED <<status, scored, asked, chatVars, scorerVars, bounds>>

CompleteJob(m) ==
  /\ Row!Complete(m)
  /\ UNCHANGED <<status, scored, asked, chatVars, scorerVars, bounds>>

FailJob(m) ==
  /\ Row!Fail(m)
  /\ UNCHANGED <<status, scored, asked, chatVars, scorerVars, bounds>>

\* The row was cancelled under the worker, or its notifier raised.
DropJob(m) ==
  /\ Row!Drop(m)
  /\ UNCHANGED <<status, scored, asked, chatVars, scorerVars, bounds>>

\* update_status(match_id, "applied") without a user: no ownership check.
FlipMatch(m) ==
  /\ hold[m] = "flipping"
  /\ Row!Drop(m)
  /\ status' = [status EXCEPT ![m] = "applied"]
  /\ UNCHANGED <<scored, asked, chatVars, scorerVars, bounds>>

CrashWorker(m) ==
  /\ crashes < MaxCrashes
  /\ Row!Die(m)
  /\ crashes' = crashes + 1
  /\ UNCHANGED <<status, scored, asked, chatVars, scorerVars, sent, requests>>

-----------------------------------------------------------------------------
\* The scorer: score_pending_matches.

\* Mutant: every match up for review, rated or not.
PendingByStatus == {m \in Matches : status[m] \in {"new", "review"}}

\* list_pending.
Pending == {m \in Matches : status[m] \in {"new", "review"} /\ ~scored[m]}

\* Neither a lock nor a claim keeps a match out of two passes.
StartPass(s) ==
  /\ drain[s] = {} /\ Pending # {}
  /\ drain' = [drain EXCEPT ![s] = Pending]
  /\ UNCHANGED <<status, scored, jobVars, asked, chatVars, scoring, ratings, bounds>>

AskLLM(s, m) ==
  /\ scoring[s] = NoMatch /\ m \in drain[s]
  /\ scoring' = [scoring EXCEPT ![s] = m]
  /\ UNCHANGED <<status, scored, jobVars, asked, chatVars, drain, ratings, bounds>>

EndScoring(s) ==
  /\ scoring[s] # NoMatch
  /\ drain' = [drain EXCEPT ![s] = @ \ {scoring[s]}]
  /\ scoring' = [scoring EXCEPT ![s] = NoMatch]

\* update_scoring, whatever the status has become while the LLM was asked, and whoever
\* else has stored a score by now.
StoreScore(s) ==
  /\ EndScoring(s)
  /\ status' = [status EXCEPT ![scoring[s]] = "scored"]
  /\ scored' = [scored EXCEPT ![scoring[s]] = TRUE]
  /\ ratings' = [ratings EXCEPT ![scoring[s]][s] = @ + 1]
  /\ UNCHANGED <<jobVars, asked, chatVars, bounds>>

ScoringFails(s) ==
  /\ EndScoring(s)
  /\ UNCHANGED <<status, scored, jobVars, asked, chatVars, ratings, bounds>>

CrashScorer(s) ==
  /\ crashes < MaxCrashes
  /\ drain[s] # {}
  /\ drain' = [drain EXCEPT ![s] = {}]
  /\ scoring' = [scoring EXCEPT ![s] = NoMatch]
  /\ crashes' = crashes + 1
  /\ UNCHANGED <<status, scored, jobVars, asked, chatVars, ratings, sent, requests>>

-----------------------------------------------------------------------------

BotStep(ch) ==
  \/ Poll(ch)
  \/ Refuse(ch) \/ Check(ch) \/ RefuseStranger(ch) \/ WriteDecision(ch)
  \/ EnqueueJob(ch) \/ EnqueueFails(ch) \/ Reply(ch) \/ HandlerRaises(ch)

ApiStep(m) == (\E s \in MatchStatus : Patch(m, s)) \/ RequestJob(m) \/ CancelJob(m)

WorkerStep(m) ==
  ClaimJob(m) \/ CompleteJob(m) \/ FailJob(m) \/ DropJob(m) \/ FlipMatch(m)

ScorerStep(s) ==
  StartPass(s) \/ (\E m \in Matches : AskLLM(s, m)) \/ StoreScore(s) \/ ScoringFails(s)

Crash ==
  \/ \E ch \in Channels : CrashBot(ch)
  \/ \E m \in Matches : CrashWorker(m)
  \/ \E s \in Scorers : CrashScorer(s)

Next ==
  \/ \E m \in Matches : Ingest(m) \/ ApiStep(m) \/ WorkerStep(m)
  \/ \E ch \in Channels : BotStep(ch) \/ \E cmd \in Commands : Send(ch, cmd)
  \/ \E s \in Scorers : ScorerStep(s)
  \/ Crash

Spec == Init /\ [][Next]_vars

\* A bot process polls until shutdown and survives the exceptions of its handlers
\* and of the platform; nothing schedules the scorers.
Fairness == \A ch \in Channels : WF_vars(BotStep(ch))

FairSpec == Spec /\ Fairness

-----------------------------------------------------------------------------
\* Properties.

\* Every column, cursor and local keeps its range: a process never believes to have
\* fetched more updates than the platform holds for it, and awaits the score of a
\* match of its pass only.
TypeOK ==
  /\ status \in [Matches -> MatchStatus \cup {"absent"}]
  /\ scored \in [Matches -> BOOLEAN]
  /\ job \in [Matches -> JobStatus \cup {"absent"}]
  /\ hold \in [Matches -> {"none", "submitting", "flipping"}]
  /\ applications \in [Matches -> Nat]
  /\ asked \subseteq Matches
  /\ inbox \in [Channels -> Seq(Commands)]
  /\ batch \in [Channels -> Nat]
  /\ \A ch \in Channels : batch[ch] <= Len(inbox[ch])
  /\ unconfirmed \in [Channels -> Seq(Commands)]
  /\ phase \in [Channels -> {"idle", "checked", "accepted", "decided"}]
  /\ drain \in [Scorers -> SUBSET Matches]
  /\ scoring \in [Scorers -> Matches \cup {NoMatch}]
  /\ \A s \in Scorers : scoring[s] \in drain[s] \cup {NoMatch}
  /\ ratings \in [Matches -> [Scorers -> Nat]]
  /\ sent \in Nat /\ requests \in Nat /\ crashes \in Nat

\* No application goes out that the owner of the match did not accept in a chat or
\* that was not ordered through the API, whatever strangers send and whichever
\* updates are delivered twice (accept.py, update_status).
OnlyRequested == \A m \in Matches : hold[m] # "none" => m \in asked

\* However often a late score or a PATCH brings a match back into review and it is
\* accepted again, one application is recorded for it (enqueue_for_match).
OneApplication == \A m \in Matches : applications[m] <= 1

\* Once a score is stored no pass that starts later rates the match again, whatever
\* flags it for review: only a pass that listed it before may, and no scorer does so twice.
\* Overlapping passes do store a score each (list_pending, score_pending_matches).
RatedOncePerScorer == \A m \in Matches : \A s \in Scorers : ratings[m][s] <= 1

\* Every update a user sends is dealt with: neither a handler that raises nor a
\* crash leaves the chat stuck (_dispatch_update).
InboxDrains == \A ch \in Channels : inbox[ch] # <<>> ~> inbox[ch] = <<>>
=============================================================================
