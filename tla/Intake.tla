------------------------------- MODULE Intake -------------------------------
(***************************************************************************)
(* From a source to the vacancies table: fetching, deduplication and upsert *)
(* (sources/service.py, dedup.py, repository.py).  The Telegram channel     *)
(* scanner drains the posts it reads, careers pages and hh.ru list the same *)
(* postings again at every fetch, and both hand whole batches to            *)
(* ingest_batch; other callers bring in one vacancy at a time with          *)
(* ingest_vacancy_deduped.  Every query and every upsert is a transaction   *)
(* of its own, and other callers run between them.                          *)
(*                                                                          *)
(* The table is a SqlVacancyRepository.  It has no find_existing_in_batch,  *)
(* so that every batch breaks off before it is looked up.                   *)
(*                                                                          *)
(* A posting is one version of a vacancy: an edited one has the same source *)
(* and id and another content hash.  All postings have an id and a hash, as *)
(* the normalisers see to.                                                  *)
(***************************************************************************)
EXTENDS Naturals, FiniteSets

CONSTANTS
  Scanners, Listers, Singles,     \* pollers by kind
  Postings, SourceOf, IdOf, HashOf,
  OfferedTo,        \* per poller: the postings its source may offer
  NoPosting,
  RetryCount,       \* CareersPageSite.retry_count
  MaxFailures       \* bound on failing statements and fetches

Batchers == Scanners \cup Listers
Pollers == Batchers \cup Singles

ASSUME IntakeAssumption ==
  /\ Scanners \cap Listers = {} /\ Batchers \cap Singles = {}
  /\ NoPosting \notin Postings \cup Pollers
  /\ OfferedTo \in [Pollers -> SUBSET Postings]
  /\ RetryCount \in Nat \ {0} /\ MaxFailures \in Nat

\* UNIQUE(source, source_id)
Key(v) == <<SourceOf[v], IdOf[v]>>
Keys == {Key(v) : v \in Postings}

VARIABLES
  offered,    \* what a poller's source holds: waiting posts, listed postings
  published,  \* postings that the poller's source has offered once
  rows,       \* vacancies, by key
  writer,     \* who wrote a row last
  stage,
  attempt,    \* of _fetch_with_retry
  batch,      \* the vacancies of the call under way
  faults

intakeVars == <<offered, published, rows, writer, stage, attempt, batch, faults>>

IntakeInit ==
  /\ offered = [p \in Pollers |-> {}] /\ published = [p \in Pollers |-> {}]
  /\ rows = [k \in Keys |-> NoPosting]
  /\ writer = [k \in Keys |-> NoPosting]
  /\ stage = [p \in Pollers |-> "idle"]
  /\ attempt = [p \in Pollers |-> 1]
  /\ batch = [p \in Pollers |-> {}]
  /\ faults = 0

-----------------------------------------------------------------------------
\* Fetching.

\* A source offers a posting; on a page a new version replaces the old one.
Publish(p, v) ==
  /\ v \in OfferedTo[p] \ published[p]
  /\ published' = [published EXCEPT ![p] = @ \cup {v}]
  /\ offered' = [offered EXCEPT ![p] = {w \in @ : Key(w) # Key(v)} \cup {v}]
  /\ UNCHANGED <<rows, writer, stage, attempt, batch, faults>>

\* Posts that were read are gone from the channel.
LeftAfterFetch(p, got) == IF p \in Scanners THEN offered[p] \ got ELSE offered[p]

\* What one call brings in.
Batches(p) == IF p \in Singles THEN {{v} : v \in offered[p]} ELSE {offered[p]}

\* The classifier and the normaliser pass the postings on; others are dropped there.
Fetch(p) ==
  /\ stage[p] = "idle" /\ offered[p] # {}
  /\ \E got \in Batches(p) :
       /\ batch' = [batch EXCEPT ![p] = got]
       /\ offered' = [offered EXCEPT ![p] = LeftAfterFetch(p, got)]
  /\ stage' = [stage EXCEPT ![p] = IF p \in Singles THEN "source" ELSE "batch"]
  /\ attempt' = [attempt EXCEPT ![p] = 1]
  /\ UNCHANGED <<published, rows, writer, faults>>

\* A transport error of the client or a 5xx: the page is asked for again ...
FetchAgain(p) ==
  /\ p \in Listers /\ stage[p] = "idle" /\ faults < MaxFailures
  /\ attempt[p] < RetryCount
  /\ attempt' = [attempt EXCEPT ![p] = @ + 1]
  /\ faults' = faults + 1
  /\ UNCHANGED <<offered, published, rows, writer, stage, batch>>

\* ... or, after the last attempt, given up until the next poll, as it is at once
\* after an httpx error, a redirect, a 4xx or a page that cannot be parsed.
FetchFails(p) ==
  /\ p \in Listers /\ stage[p] = "idle" /\ faults < MaxFailures
  /\ attempt' = [attempt EXCEPT ![p] = 1]
  /\ faults' = faults + 1
  /\ UNCHANGED <<offered, published, rows, writer, stage, batch>>

\* A channel cannot be read: what the channels before it gave is lost.
DrainBreaks(p) ==
  /\ p \in Scanners /\ stage[p] = "idle" /\ faults < MaxFailures
  /\ faults' = faults + 1
  /\ \E got \in SUBSET offered[p] : offered' = [offered EXCEPT ![p] = @ \ got]
  /\ UNCHANGED <<published, rows, writer, stage, attempt, batch>>

-----------------------------------------------------------------------------
\* Deduplication.

\* The call returns or raises; its poller goes on with the next one.
EndCall(p) ==
  /\ stage' = [stage EXCEPT ![p] = "idle"]
  /\ batch' = [batch EXCEPT ![p] = {}]

\* deduplicate_batch calls find_existing_in_batch first: AttributeError.
BatchRaises(p) ==
  /\ stage[p] = "batch"
  /\ EndCall(p)
  /\ UNCHANGED <<offered, published, rows, writer, attempt, faults>>

Stored == {rows[k] : k \in Keys} \ {NoPosting}

\* Mutant: hashes are compared within a source only.
SameTextOfSource(v, w) == HashOf[v] = HashOf[w] /\ SourceOf[v] = SourceOf[w]

SameText(v, w) == HashOf[v] = HashOf[w]

\* is_duplicate: find_by_source ...
FindBySource(p, v) ==
  /\ stage[p] = "source" /\ v \in batch[p]
  /\ IF \E w \in Stored : Key(w) = Key(v)
       THEN EndCall(p)
       ELSE stage' = [stage EXCEPT ![p] = "hash"] /\ UNCHANGED batch
  /\ UNCHANGED <<offered, published, rows, writer, attempt, faults>>

\* ... and find_by_content_hash.
FindByHash(p, v) ==
  /\ stage[p] = "hash" /\ v \in batch[p]
  /\ IF \E w \in Stored : SameText(v, w)
       THEN EndCall(p)
       ELSE stage' = [stage EXCEPT ![p] = "store"] /\ UNCHANGED batch
  /\ UNCHANGED <<offered, published, rows, writer, attempt, faults>>

-----------------------------------------------------------------------------
\* Storing.

\* INSERT .. ON CONFLICT (source, source_id) DO UPDATE, whoever has stored what since
\* the two lookups.
Upsert(p, v) ==
  /\ stage[p] = "store" /\ v \in batch[p]
  /\ rows' = [rows EXCEPT ![Key(v)] = v]
  /\ writer' = [writer EXCEPT ![Key(v)] = p]
  /\ EndCall(p)
  /\ UNCHANGED <<offered, published, attempt, faults>>

\* A statement raises.
Raise(p) ==
  /\ stage[p] # "idle" /\ faults < MaxFailures
  /\ faults' = faults + 1
  /\ EndCall(p)
  /\ UNCHANGED <<offered, published, rows, writer, attempt>>

Step(p) ==
  \/ Fetch(p) \/ BatchRaises(p)
  \/ \E v \in Postings : FindBySource(p, v) \/ FindByHash(p, v) \/ Upsert(p, v)

IntakeNext ==
  \E p \in Pollers :
    \/ Step(p) \/ FetchAgain(p) \/ FetchFails(p) \/ DrainBreaks(p) \/ Raise(p)
    \/ \E v \in Postings : Publish(p, v)

IntakeSpec == IntakeInit /\ [][IntakeNext]_intakeVars

-----------------------------------------------------------------------------
\* Properties.

RowsWith(h) == {k \in Keys : rows[k] # NoPosting /\ HashOf[rows[k]] = h}

\* The content hash is not unique in the table, and the check for it runs before
\* the upsert: callers that look together all store their copy.  But nobody
\* stores one text twice, so that there are at most as many copies as callers
\* (is_duplicate, ingest_vacancy_deduped).
OneCopyPerPoller ==
  \A h \in {HashOf[v] : v \in Postings}, p \in Pollers :
    Cardinality({k \in RowsWith(h) : writer[k] = p}) <= 1
=============================================================================
