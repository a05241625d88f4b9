# ApplyPilot in TLA+

Specifications of [ApplyPilot](../src/README.md), the assistant that finds vacancies, scores them,
lets their owner decide on them in a chat and applies for the accepted ones. The modules follow the
Python code under `src/src/apply_pilot`; TLC checks them on small instances and TLAPS proves the
main safety results for all instances.

## The system

One FastAPI application and several processes share a PostgreSQL database. The code is cut into
slices (`features/*`), each with its tables, repository, service and API. Every repository call opens
a transaction, commits it and returns, so **between any two repository calls of one request another
process can run**, and a process can die there.

| Component | State it keeps | Operations | Talks to | What is hard |
|---|---|---|---|---|
| Apply queue (`apply_worker/service.py`, `repository.py`, `retry.py`) | `apply_jobs`, `apply_status_history` | enqueue, cancel, claim, complete, fail | API and chat, worker, limiter | checks and writes in separate transactions, two counters of attempts, racing cancels |
| Apply worker (`runtime.py`) | the job in hand | one iteration: claim, route, submit, conclude, flip the match | queue, source adapters, matches | lost answers, raising notifiers, death with a job in hand |
| Rate limiter (`limits.py`) | `apply_rate_limit_events` | check, record | enqueue | check-then-record, edges of the windows |
| hh.ru submission (`hh_adapter.py`, `hh_apply/*`) | a tracker of successes, in memory | submit, post, renew the token | worker, hh.ru | answers lost after the effect, retries, trackers that die with the process |
| Circuit breakers (`sources/breaker.py`) | per source: state, counter, two timestamps, trial slots | allow, success, failure, refresh on read | source adapters, audit log | late outcomes of overlapping calls, lost trial slots |
| Ingestion (`sources/*`, `telegram_channels/*`, `careers`, `hh`) | `vacancies`, metrics | fetch, deduplicate, upsert | matches, metrics | racing callers, a batch path that only works on the fake |
| Matches (`matches/*`) | `vacancy_matches` | create, bulk create, decide, score, patch, flip | chats, API, scorer, worker | five writers of one status column |
| Chat actions (`messaging/actions/*`) | – | accept, reject, defer, regenerate, review | matches, queue, letters, audit | check, write and enqueue in three transactions |
| Bot processes (`telegram/process.py`, `max/process.py`) | the update cursor, in memory | poll, dispatch | platforms, chat actions | redelivery after a restart, failing handlers |
| Linking, digests, notifiers (`telegram/*`, `max/*`) | codes and two maps in memory, an accounts table, a timer | issue, link, daily pass, notify | bots, worker | maps and table that drift apart, clocks |
| Scoring (`scoring/*`, `scoring_ab/*`) | prompt versions, experiments, outcomes | score the pending matches, activate | LLM, matches | writing after an awaited answer, two reads of one row |
| Users and sessions (`users/*`) | `users`, `user_sessions`, a token store in memory | register, login, refresh, logout | every API | one token in two places |
| Letters, answers, style memory (`cover_letter`, `screening`, `writing_style_memory`) | drafts, answers, entries | generate, regenerate, accept | LLM | read before the await, write after it |
| Search profiles, letter styles | one row each | create, update, activate, delete | ingestion, letters | overlapping updates |
| Quick filter, scoring review, learning, audit, resumes, orders | rows | single writes | – | little |
| Dashboard, administration, wiring, migrations | – | read, start, stop | – | – |

What makes these components correct: a job is never in two hands, never submitted again after its
success was recorded, submitted a bounded number of times, and decided in the end; what the match, the
timeline, the result and the audit log show is what happened; nothing is submitted that nobody asked
for; a user's cap is overrun by requests in flight at most; a failing source is neither hammered nor
shut out for ever; every command a user sends is dealt with; a chat speaks for one user; a token that
was given back is dead; a text is stored once per caller; rows that others refer to stay, and deleted
ones do not come back; and an experiment counts what was scored. `PROJECT.json` lists every component, and every hazard
with the line at which it bites and the properties that watch it.

## Modules

| Module | Models | State and actions |
|---|---|---|
| `ApplyQueue` | queue and worker | Rows by match (`UNIQUE(match_id)` makes them one). A worker and a request each have a position (`wpc`, `cpc`) between two commits; an action runs from one commit to the next. `Claim` is the locked SELECT and its UPDATE, `RecordClaim` the history row, `Submit`/`Answer` the adapter call, `Conclude` the re-read in `complete`/`fail`, `WriteSucceeded`, `MarkAttempt`, `Requeue`, `DeadLetter` the writes, `FlipMatch` the last one. |
| `ApplyLease` | what queue and adapter promise | Who holds a job (`holders`), what the source has taken (`taken`), whose success is recorded or reported (`done`); `Acquire`, `Take`, `Release`, `Finish`. `ApplyQueue` implements it with its rows, `HHSubmit` with its results. |
| `ApplyRow` | a job as others see it | Status of the row, what a worker does with it (`hold`), successes; `Insert`, `Cancel`, `Claim`, `Complete`, `Fail`, `Drop`, `Die`. `MatchReview` is built from these actions, `ApplyQueue` implements them. |
| `ApplyLimits` | the rate limiter inside `enqueue_for_match` | Rows of a user with their age in ticks. The two COUNT queries (`CountHour`, `CountDay`), the lookup, the INSERT and the recording are actions; time and other requests come between them. `ResetIn` and `RetryAfter` compute the hint as the code does, cut to whole seconds. |
| `HHSubmit` | adapter, `apply_once`, `HHApplyClient` | A submission's position, attempt and requests; `Post` is the effect at hh.ru, the next step the arrival of the answer, so that the effect may be there and the answer lost. A tracker per worker process, emptied by `Crash`. |
| `CircuitBreaker` | breakers and adapter wrapper | The attributes of `CircuitBreaker` per source, with ages for timestamps, the calls that await the source, and the last audit event. Admission is one action, the outcome another. `shut` is a history variable: for how long a source has refused calls, over all the windows that late failures string together. |
| `MatchReview` | matches, chats, bots, scorer, API, and the worker from outside | The row of a match, its job, the updates of each channel (fetched, handled, not yet confirmed), the handler's position, and per scorer the pass (`drain`) and the awaited answer: `list_pending` takes neither lock nor claim, so passes overlap. |
| `Sessions` | register, login, refresh, logout | A token in two places (`store`, `row`/`left`) and the position of each request between its writes; `Tick`, `Restart`, `RequestFails`. |
| `ChatAccounts` | linking, accounts, notifications, digests | Codes, the two maps, the accounts table, a `/link` between maps and table; the runner's sleep and pass beside a wall clock. A pass serves the accounts in the order in which they were linked (`before`), as `list_all` returns them, and `StatsRaise` breaks it off. One definition stands for the Telegram and the MAX copy. |
| `Intake` | fetching, deduplication, upsert | Pollers of three kinds with the vacancies they have in hand. A batch raises before its lookup (`BatchRaises`); a single vacancy goes through two queries and the upsert, each an action. |
| `Letters` | letters, answers, style memory | Calls around the await of the LLM, rows with id, text and version. |
| `Preferences` | search profiles, letter styles | Requests that hold the row as they read it; the UPDATE writes the columns that differ, and raises when the row is gone (`Written`). |
| `Scoring` | bulk creation of matches, prompts, experiments, the pass | Ingestions, admins and scorers, one action per transaction; `PickVariant` is the walk over cumulated weights. An outcome has the columns of its table: experiment, variant, user, vacancy. |
| `*Proofs` | – | theorems and proofs |
| `MC*` | – | instances for TLC |

*Composition.* `MatchReview` composes the chat side with the queue at a coarser grain: the job of a match
is an `ApplyRow`, whose actions it uses. `ApplyQueue`, with any number of workers and requests and two
commits for most writes, implements `ApplyRow` (`ImplementsRow`), so whatever it does to a job,
`MatchReview` has considered. `HHSubmit` details what `ApplyQueue`'s `Submit` and `Answer` stand for.
Both implement `ApplyLease`: the queue keeps one holder per job by claims and rows, which `HHSubmit`'s
`Submit` relies on, and the adapter answers a success only when hh.ru has the application, which
`ApplyQueue`'s `Answer` relies on. `ApplyLimits` details what comes before `InsertJob`, and `Scoring` the
creation and the rating of the matches in `MatchReview`; these two are tied by their guards, not by a
checked refinement.

Operators whose comment starts with "Mutant" are variants with a plausible bug. No action uses them;
each is there to show that a property fails once the bug is put in place of the definition that
follows it.

### Abstractions

- Ids, texts, error messages, timestamps that nothing reads back, and logging are left out. A text is a
  number or a model value where two must be told apart.
- `ApplyQueue`: `next_run_at` is a Boolean `due` (NULL or past against future); a denied enqueue is one that
  does not happen.
- `CircuitBreaker`, `ApplyLimits`, `Sessions`, `ChatAccounts`: a timestamp is an age or what is left of a term.
  The age of the breaker stops at `MaxAge` (at least two timeouts, after which every comparison in the
  code has been decided); a row no window counts any more frees its slot. The clock moves at most
  once between the two queries of one check.
- `MatchReview`: all commands come from linked accounts (an unlinked one is answered before anything is
  read) and name an existing match. `PATCH` is allowed to any caller; the code checks the owner, the
  properties hold without it. A pass takes all pending matches (the limit of 50 is left out).
- `HHSubmit`: one resume, so a vacancy and a letter determine the tracker's key; hh.ru is modelled by what
  `apply_once` does with its answers (it takes one application per vacancy and answers 409 to others).
- `ChatAccounts`: codes and commands meet one linking service, as in the tests. The MAX process wires a
  service of its own and handlers without `__init__` (`max/process.py:208`), so that no code of the API
  reaches it.
- `Intake`: the table is that of the SQL repository, on which `deduplicate_batch` raises an `AttributeError` for
  every batch that is not empty; the in-memory fake, on which it works, is not modelled. Metrics, which nothing
  reads back, are left out.
- `CircuitBreaker`: a failing audit sink is logged and swallowed by the code and left out. A source whose inner
  adapter is itself a breaker, or raises `SourceUnavailableError` otherwise, is in `Nested`: its trial slot can be
  lost, so `ProbesConclude` is stated for the others only.
- `Letters`: the deletion of a match, which would take its letter along, is left out.
- `Preferences`: an absent salary counts as 0 or as the maximum, which is all the check tells apart. The branch
  of `SqlCoverLetterStyleRepository.update` that treats a missing row as a create
  (`cover_letter_style/repository.py:249`) is not taken: the API gives the repository one session per request
  (`api.py:72`), in which `session.get` finds the object that the request has read without asking the
  database, and the UPDATE of the row that is gone raises. With a session per call, which nothing wires, it would
  be; `DeletedStays` is the property that would notice, and its mutant is that branch.
- `Scoring`: the hash behind a bucket is a constant, weights are integers that add up to `Whole`, of any sign, since
  `_validate_experiment` checks the sum only. The `prompt_version` of a score that a variant gave stands for the
  pair of experiment and variant.

## Runs

| Run | Question | Instance |
|---|---|---|
| `apply_queue` | Do two workers and two requests leave a job in one hand, one row to those who look at it, within its budget, opened once, shown applied only truthfully, and, when nothing fails, decided and shown in the end? | 1 match, 2 workers, 2 requests, limits 3 and 4, 1 fault |
| `terminal_final` | Is a terminal job final, as the code says? It is not, see below. | 1 worker, 1 request |
| `limits` | By how much are the caps overrun, does a 429 ask to wait too long, does a used-up window open again? | 1 user, 2 requests, 2 matches, caps 1 and 2; a second is 2 ticks, an hour 4, a day 6 |
| `hh_submit` | Does only the holder of a job apply for it, is what is reported as sent there, is what hh.ru confirmed never taken back, does a submission end? | 2 workers, 2 jobs for one vacancy and 1 with an empty letter, 2 attempts, 2 submissions, 1 crash |
| `breaker` | Does the audit log follow the breaker, is a window clamped, for how long can late failures keep a source shut, does every outage end? | 2 sources, one with a refusing inner adapter; 3 overlapping calls, threshold 2, timeout 3 ticks |
| `match_review` | Are only requested applications sent, one per match, and one score per match and scorer? | 1 match, owner and stranger, 2 channels, 2 commands, 2 scorers, 1 API request, 1 crash |
| `chat_updates` | Is every update dealt with? | the same with one scorer |
| `tables` | Is a token dead after its logout, does a refresh replace a session, do the two places agree? Does no caller store a text twice? | `Sessions`: 2 requests, 3 tokens, 1 restart. `Intake`: a scanner, a careers page and two single ingesters; a post, its copy, the same text on a page, and its edited version; 1 failure |
| `chat_accounts` | Does a chat hear of one user, do the maps agree, is a digest sent once a day? | 2 users, 2 chats, 2 codes, 1 restart, 1 setback of the clock |
| `digest` | Does a digest arrive, unless counts keep raising? | 2 users, 2 chats, 2 codes, 1 restart |
| `texts` | Do rows keep their id under racing generations, is a form answered without a gap? Does a field stay as it was set and a deleted row deleted, is a range lost to races only? | `Letters`: 2 calls, 1 letter, a form of 2 questions, 4 texts. `Preferences`: 2 requests, 2 users, 1 profile, 2 styles, one field per body |
| `scoring` | Are outcomes scores that were stored, does an ingestion leave no hole, is one version active at every moment? | 2 profiles, 1 vacancy, 2 admins, 2 good and 1 bad experiment, 1 ingestion, 1 scorer |

`tables` and `texts` each check two components side by side. The two share no variable, so their
`MC` module lets one of them move, chosen in the initial state (`part`), and keeps the other as it is: the states
are those of one run for each, and no interleaving is lost that could matter to a property of either.

*Why the bounds suffice.* Rows of different matches interact only through the order of the queue, so one
match with two workers and two requests has all races for a row: two enqueues, a cancel against a
claim, a completion or a failure, and two claims. The limits 3 and 4 differ so that neither comparison
hides the other; as attempts count double, a job gets two submissions under them, which is enough for a claim
after a requeue. Two requests of one user are the smallest population that
overruns a cap; the windows have different lengths and limits, and a second is more than a tick, so that
hints are cut. Two jobs with one key and two workers give replays from the right and from the wrong
tracker. Two calls that were admitted before a trip and one probe is the smallest population in which a
late success, a late failure and the probe meet. Two scorers are enough for passes that overlap. One command for each channel lets two handlers stand
between check and write at once. Three tokens make a chain of two refreshes, or a refresh beside a
login. Two users and two chats make every way of taking over a link. The four postings have every
combination of equal id and equal text, and two single ingesters look the same one up. In `scoring` the vacancy
meets two profiles of one user, so a variant is assigned twice.

The bounds in the guards have names: `MaxFaults` (deaths and raising notifiers), `MaxSent`,
`MaxRequests`, `MaxCrashes`, `MaxSubmits`, `MaxRestarts`, `MaxSetbacks`, `MaxFailures`, `MaxTexts`, `MaxAge`,
`MaxAmount`, `NamedAtOnce`, and the sets `Slots`, `Tokens`, `Codes` of what may be drawn. The theorems hold
for every value of them.

*Deadlock.* `CHECK_DEADLOCK FALSE` is set where behaviours end: all jobs decided, all commands sent, all
postings published, all bounds used up. `breaker`, `limits`, `chat_accounts`
and `digest` are checked for deadlock.

### Fairness

- `ApplyQueue`: weak fairness of each worker's steps (`ApplyWorkerProcess.run` polls until shutdown
  and swallows what an iteration raises; adapters have HTTP timeouts), of a request that
  has started, and of the passing of a backoff. No request is forced to come, no fault to happen; the
  two liveness properties speak of behaviours in which none does.
- `ApplyLimits`: weak fairness of each handler (`enqueue_for_match` runs to its end), strong fairness of the
  tick, which is off while a check that has already seen the clock move is between its queries. No request
  is forced to come.
- `HHSubmit`: weak fairness of a submission's steps; the HTTP client has a timeout, so an answer comes or
  the call breaks.
- `CircuitBreaker`: time passes, pollers keep calling each source, a call returns or raises.
- `MatchReview`: weak fairness of each bot process (`run` polls until shutdown; an exception of the
  platform or of a handler is logged and the loop goes on; the platform is assumed to answer at some point).
  The scorers, users, the API and the worker get none.
- `ChatAccounts`: time passes, the runner wakes and goes back to sleep (`DigestRunner.run` loops until
  shutdown), and a user whose turn comes day after day is at some point either sent the message or has counts that
  raise (strong fairness of `Deliver` or `StatsRaise` together; without it a platform that refuses every
  message refutes the property for reasons outside this code). That counts raise for ever is *not* assumed away: it
  is the exception in `DigestArrives`.
- `Sessions`, `Intake`, `Letters`, `Preferences`, `Scoring`: none; only safety is checked.

## Proofs

The theorems are about a component's specification without fairness (`Spec`, and `IntakeSpec`,
`PreferencesSpec`, `ScoringSpec` where one module of proofs extends two components and their names must
differ) and hold for every value of the constants that satisfies the module's `ASSUME`. What is proved
holds in the runs with fairness as well, whose behaviours are among these.
Every safety property of a passing run is stated by a theorem. None of them is inductive as it stands;
each component has an invariant that is (`IInv`, `IntakeInv`, `PreferencesInv`, `TablesInv`, ...), with one
lemma per part and one step per action. TLC checked each of these invariants before it was proved.

- `ApplyQueueProofs`. `IInv` adds to `TypeOK`: whoever is not idle has a job of a match in hand (`InHand`); a
  job in a worker's hands is running, or terminal by a stale cancel, and has one holder (`HeldJobs`), which is
  why no second worker can claim it; a worker between the two commits of a success holds a job whose
  success is recorded, and a recorded success keeps the row out of the queue (`RecordedSuccess`); twice the
  number of submissions is bounded through the attempts counter, with a term for the position of the holder
  (`Budget`); `applied` comes after acceptance (`Shown`); rows with a timeline or a holder exist (`Worked`); and
  one opening row is written or about to be (`Opening`). For `StatusInTimeline`, a writer between its two commits
  is followed until it records what it wrote, or a later writer takes its place (`Told`, `Unrecorded`).
  `QueueImplementsLease` shows that under `IInv` a step of the queue takes up, lets the source take, lets go,
  finishes or leaves alone. `QueueImplementsRow` needs one more invariant, `Sole`: from the claim to the flip a
  job has one worker, since a row with a recorded success is not claimed. Then `Hold` is the phase of that
  worker (`HoldMoves`), and each commit is one action of `ApplyRow` or none.
- `ApplyLimitsProofs`. `Room` counts a window's rows together with the rows that admitted requests are still to write:
  their sum never exceeds the cap by more than the user's other requests in flight, which `OverrunBounded` follows from.
  `CountsHold` keeps an hourly count, while its check waits for the daily one, tied to the rows it counted,
  which are one tick older at most; `HintHolds` follows the rows that a hint was computed from as they age
  together with it. Cardinalities are handled with the library's facts about finite sets.
- `HHSubmitProofs`. `ToldTruth` (an answer of success on its way, and a key in a tracker, have an
  application behind them), `InOneHand` (a job has one submission at a time, so a confirmed one has its result),
  `ConfirmedIsSent` and `Spent` (requests against attempts and position). `SubmissionImplementsLease` follows from
  the first two: a POST is a `Take` by the holder, a return a `Finish` or a `Release`. `SuccessIsReal` and
  `PostsWithinBudget` (two requests per attempt at most) are proved and not run: the first is part of the lease.
- `MatchReviewProofs`. `AtWork` (a handler past its check has a fetched command), `SentByOwner` (an
  accept by the owner in any inbox, redelivered or not, is in `asked`), `Ordered` (jobs exist only for what
  was asked), `OneJob` (a job with an application recorded is never queued again) and `Rated` (a rating
  implies a score, and a match in a scorer's pass has no rating of that scorer). `ReviewKeepsRows`: no step does to a job what an `ApplyRow` does not.
- `SourceProofs`. The breaker: `TypeOK` and `AuditTellsState` are inductive together; `WindowIsClamped`
  follows from `Clamped`, the relation between the two ages that the clamp of issue #143 establishes, and
  `ShutByCallsOut` from `Accounted`, which charges every window to a call that has come back.
  `Intake`: `OwnTexts` (the texts of a caller's rows and of the posting it is about to store all differ;
  what others store in between can only take rows over) gives `OneCopyPerPoller`.
- `UserProofs`. Sessions: `RequestInv` (the old token is revoked by the time a new one is drawn) and `OwnToken` (two
  requests never store the same token), `TokenInv` (a token in a client's hands has a row, and outlives its entry in
  the store) and `RevokedInv` (a revoked token that the store still knows is being replaced or logged out).
  `Preferences`: `OfOwnRow` (a request updates or deletes a row of its own user, or one that is gone) carries
  `ChoicesStay`, and that an UPDATE leaves a row that is gone alone `DeletedStays`; `KeepsRange` (with what a request read and was asked for, the profile has a range) carries
  `RangeLostOnlyByRace`.
- `ChatAccountsProofs`. `CodeInv`, `AccountInv` (the accounts table is one to one, and what a chat received came from its
  row, which is never rewritten) and `DigestInv`, which bounds the digests of a date by
  the wall clock, the time left to sleep and the setbacks still to be slept off (`ToCome`).
- `LlmProofs`. `Letters`: `CallInv` (the targets a call has left are the end of what it was called for, and a row it
  found is still there). `Scoring`: `TablesInv` (no table has two active rows, and what is stored or
  about to be was validated), `MatchesInv` (a profile that an ingestion has done has its matches, or they are about to be
  inserted), `ScoresInv` (the variant in a pass is the one its user's bucket picks, an outcome is of a match that has its stamp). `VariantsByWeight` says which
  variant a user gets: the first whose cumulated weight exceeds the bucket, in some experiment that was validated. That there is one comes
  from the validation of experiments, that there is a first from the least-number principle (`LeastNumber`,
  out of the library's facts about well-founded relations).

The assumptions are the modules' `ASSUME`s: natural bounds and limits, a policy and a worker that allow one
attempt at least, `NoMatch` and its like outside the sets they complement, windows and caps as the settings
validate them, jobs with a vacancy and a letter, experiments with integer weights; and finite sets where the
proofs count (calls of the breaker, requests and slots of the limiter).

Model-checked only: all temporal properties (`EveryJobSettles`, `SuccessIsShown`, `OpenEnds`, `ProbesConclude`,
`InboxDrains`, `SaturationEnds`, `SubmissionEnds`, `DigestArrives`), since liveness under fairness is
outside what the provers handle here; and what the folds over sequences in `Scoring` compute (that `UpTo`
is the sum of the first weights), which would need induction over data. The proofs use of `UpTo` only what
validation compares it with.

## Where code and words disagree

The first is shown by a run; the others were met while modelling, and the modules contain them as the code
has them. `PROJECT.json` quotes the words of each.

- **A terminal job is not final** (`TerminalIsFinal`): `cancel` overwrites a success, `fail` requeues a cancelled job.
- **A user has two variants in one experiment**: the outcome names the experiment of one read and the
  variant of another.
- **A late failure restarts the timer**: `_on_failure` reads `breaker.state` first, and the read is a transition;
  a failure after the timeout then opens a new window. How far that goes is `ShutByCallsOut`: one timeout per late call.
- **A batch cannot be deduplicated against the database** : the SQL repository has no `find_existing_in_batch`,
  so nothing that scanner, careers pages or searches bring in as a batch is stored, and drained posts are lost.
- **One user's counts keep the digest from others**: they are read outside the `try`, so the pass ends there. `DigestArrives` excepts
  exactly those whose own counts, or the counts of one before them, keep raising.
- **Attempts count double**: claim and failure each add one, so three attempts are two submissions.
- **A refused probe is never given back**: the source stays shut.
- **A rejected match comes back**: the score is written over the decision.
- **An accept can be stranded**: no reconciler exists, and the redelivered accept is refused.
- **A rejected match is applied for**: reject leaves the job of an accepted match queued.
- **`Retry-After` may be a fraction short**, and **`occurred_at` is not stamped by the database**.
- **Tokens do not survive a restart** outside `/auth`, and **a refreshed token stays valid** there until it expires.
- **MAX is never told**: the worker calls an asynchronous notifier without awaiting it.
- **A runner that starts after the hour waits for tomorrow**, although its docstring has it dispatch at once.
- **A regenerated letter is not stored**: the new text goes to a detached row, so two regenerations show one version.
- **A first answer generated twice ends in an error**, not in an update.
- **A salary range can be turned over** by two updates of one field each.
- **Outcomes are never accepted**, so every acceptance rate of an experiment is 0.
- **A stamped prompt version need not be the one that was asked**: the prompt has one template.
- **Matches are counted as new** that another ingestion had created.
- **An `httpx.HTTPError` is not retried** by the careers adapter, although its docstring lists it.

Two more: the reply of `/defer` invites to `/accept` later (`messaging/actions/defer.py:233`), which
`_ALLOWED_ACCEPT_SOURCES` refuses; and `apply_worker/api.py:253` speaks of an ownership check through the
search profile, while `enqueue_for_match` does not receive the caller. A row left `running` by a dead worker
is not recovered; neither code nor documentation says it would be.

Each of these also shows in what the passing runs do **not** state: there is no property that a rejected
match is never applied for, that an accepted one is, that a decision outlives a late score, that a match has one
score from overlapping passes, or that a refreshed token is dead in the store.

## Not modelled

- *Reads.* The dashboard, the administration pages, the listings and aggregates of every slice: they change
  nothing, and each is one query.
- *Text.* Prompts, the parsing of the LLM's answers, normalisers, HTML parsing, résumé extraction, digests and
  review cards, style statistics. What they return is an input of the modules.
- *Single writes* that nothing reads back within the program: audit, source metrics, learning, scoring reviews, orders.
- *The quick filter*: a pure predicate without state, on words.
- *Protocol classes, in-memory fakes, DTOs, HTTP wiring*: they repeat in types or for tests what the mapped code does.

These are most of the lines. The definitions map about a sixth of them; of the services and SQL repositories that
change state in more than one step, nearly all. Widening the rows of the map would not make the models say more.

## What could follow

An abstract specification of the accounts that `Sessions` and `ChatAccounts` implement, as `ApplyLease` is one
of applications; a refinement that ties `Scoring` to the rating in `MatchReview`; several matches at once in
`ApplyQueue`, to bring the order of `list_pending` in.
