------------------------------ MODULE Scoring ------------------------------
(***************************************************************************)
(* How a vacancy becomes a scored match: the matches of the active profiles *)
(* (matches/service.py), the prompts and the A/B experiments an admin        *)
(* activates (scoring/registry.py, scoring_ab/), and a scorer's pass         *)
(* (scoring/service.py, scoring/llm.py).                                     *)
(*                                                                          *)
(* Every repository call is a transaction of its own, so profiles, prompts   *)
(* and experiments change under an ingestion and under a pass.               *)
(***************************************************************************)
EXTENDS Integers, Sequences, FiniteSets, SequencesExt

CONSTANTS
  Profiles, Vacancies, Users,
  Owner,          \* the user of a profile
  Ingesters,      \* ingestions in progress
  Scorers, Admins,
  Prompts,        \* versions of the prompt
  Experiments,    \* experiments of one name
  Variants,       \* their variants, in the order of the variants' names
  Bucket,         \* _bucket_for, a number below Whole for every user
  Whole,          \* the weight 1.0
  Nothing

ASSUME ScoringAssumption ==
  /\ Owner \in [Profiles -> Users]
  /\ Whole \in Nat /\ Bucket \in [Users -> 0..(Whole - 1)]
  /\ Variants \in [Experiments -> Seq([name : STRING, weight : Int])]

Matches == Profiles \X Vacancies
Tables == {"prompts", "experiments"}
Ids(t) == IF t = "prompts" THEN Prompts ELSE Experiments
UserOf(m) == Owner[m[1]]

VARIABLES
  profile,    \* active, inactive or deleted
  match,      \* the status of a match, "none" where there is no row
  stamps,     \* per match, what its scores were stored with
  known, active,  \* per table: its rows, and those that are active
  outcomes,   \* scoring_experiment_outcomes
  ingest,     \* per ingester: batch, profiles left, pairs it misses
  pass,       \* per scorer: matches left, and the match in hand
  admin       \* per admin: the activation in progress

scoringVars == <<profile, match, stamps, known, active, outcomes, ingest, pass, admin>>

NoIngest == [pc |-> "idle", listed |-> {}, todo |-> {}, batch |-> {}, missing |-> {}]
NoPass == [pc |-> "idle", todo |-> {}, match |-> Nothing, experiment |-> Nothing, variant |-> Nothing]
NoChange == [table |-> Nothing]

ScoringInit ==
  /\ profile \in [Profiles -> {"active", "inactive"}]
  /\ match = [m \in Matches |-> "none"]
  /\ stamps = [m \in Matches |-> {}]
  /\ known = [t \in Tables |-> {}] /\ active = [t \in Tables |-> {}]
  /\ outcomes = {}
  /\ ingest = [i \in Ingesters |-> NoIngest]
  /\ pass = [s \in Scorers |-> NoPass]
  /\ admin = [a \in Admins |-> NoChange]

-----------------------------------------------------------------------------
\* Profiles change as Preferences has it; a deleted one takes its matches along.
SetActive(p) ==
  /\ profile[p] # "deleted"
  /\ profile' = [profile EXCEPT ![p] = IF @ = "active" THEN "inactive" ELSE "active"]
  /\ UNCHANGED <<match, stamps, known, active, outcomes, ingest, pass, admin>>

DeleteProfile(p) ==
  /\ profile[p] # "deleted"
  /\ profile' = [profile EXCEPT ![p] = "deleted"]
  /\ match' = [m \in Matches |-> IF m[1] = p THEN "none" ELSE match[m]]
  /\ UNCHANGED <<stamps, known, active, outcomes, ingest, pass, admin>>

-----------------------------------------------------------------------------
\* Matches.

\* Mutant: the lookup leaves the profile out.
MissingOfVacancies(p, batch) ==
  {<<p, v>> : v \in {w \in batch : \A q \in Profiles : match[<<q, w>>] = "none"}}

\* find_existing_in_batch
Missing(p, batch) == {<<p, v>> : v \in {w \in batch : match[<<p, w>>] = "none"}}

\* create_match: the row that exists, or an INSERT under UNIQUE.
CreateMatch(m) ==
  /\ match[m] = "none" /\ profile[m[1]] # "deleted"
  /\ match' = [match EXCEPT ![m] = "new"]
  /\ UNCHANGED <<profile, stamps, known, active, outcomes, ingest, pass, admin>>

\* bulk_create_for_all_active_profiles lists the profiles ...
Ingest(i) ==
  /\ ingest[i].pc \in {"idle", "raised"}
  /\ \E batch \in SUBSET Vacancies \ {{}} :
       LET listed == {p \in Profiles : profile[p] = "active"} IN
         /\ listed # {}
         /\ ingest' = [ingest EXCEPT ![i] = [pc |-> "find", listed |-> listed, todo |-> listed,
                                             batch |-> batch, missing |-> {}]]
  /\ UNCHANGED <<profile, match, stamps, known, active, outcomes, pass, admin>>

NextProfile(i, todo) == ingest' = [ingest EXCEPT ![i] =
  IF todo = {} THEN NoIngest ELSE [@ EXCEPT !.pc = "find", !.todo = todo, !.missing = {}]]

\* ... looks the matches of the next one up ...
FindExisting(i) ==
  /\ ingest[i].pc = "find"
  /\ \E p \in ingest[i].todo :
       LET missing == Missing(p, ingest[i].batch) IN
         IF missing = {}
         THEN NextProfile(i, ingest[i].todo \ {p})
         ELSE ingest' = [ingest EXCEPT ![i].pc = "insert", ![i].todo = @ \ {p}, ![i].missing = missing]
  /\ UNCHANGED <<profile, match, stamps, known, active, outcomes, pass, admin>>

\* ... and inserts those it misses, ON CONFLICT DO NOTHING.
BulkInsert(i) ==
  /\ ingest[i].pc = "insert"
  /\ \A m \in ingest[i].missing : profile[m[1]] # "deleted"
  /\ match' = [m \in Matches |->
                 IF m \in ingest[i].missing /\ match[m] = "none" THEN "new" ELSE match[m]]
  /\ NextProfile(i, ingest[i].todo)
  /\ UNCHANGED <<profile, stamps, known, active, outcomes, pass, admin>>

\* The foreign key of a deleted profile, or the database: the call raises.
IngestFails(i) ==
  /\ ingest[i].pc \in {"find", "insert"}
  /\ ingest' = [ingest EXCEPT ![i] = [NoIngest EXCEPT !.pc = "raised"]]
  /\ UNCHANGED <<profile, match, stamps, known, active, outcomes, pass, admin>>

-----------------------------------------------------------------------------
\* Prompts and experiments.

\* The weight of the first k variants.
UpTo(vs, k) == FoldSeq(LAMBDA v, sum : v.weight + sum, 0, SubSeq(vs, 1, k))

\* _validate_experiment
WellFormed(x) ==
  /\ Variants[x] # <<>>
  /\ UpTo(Variants[x], Len(Variants[x])) = Whole
  /\ Cardinality({Variants[x][i].name : i \in DOMAIN Variants[x]}) = Len(Variants[x])

\* The experiments that add() takes: it raises for the others.
Valid == {x \in Experiments : WellFormed(x)}

MayAdd(t, id) == t = "experiments" => id \notin known[t] /\ id \in Valid

\* A row that does not take over: register() of a first or an inactive version,
\* seed_default_prompts, add() of an inactive experiment.
AddRow(a) ==
  /\ admin[a] = NoChange
  /\ \E t \in Tables : \E id \in Ids(t) \ known[t] :
       /\ MayAdd(t, id)
       /\ known' = [known EXCEPT ![t] = @ \cup {id}]
       /\ active' \in {active, [active EXCEPT ![t] = IF @ = {} THEN {id} ELSE @]}
  /\ UNCHANGED <<profile, match, stamps, outcomes, ingest, pass, admin>>

\* Mutant: the deactivation is committed before the activation.
DeactivateAtOnce(a) ==
  /\ admin[a] = NoChange
  /\ \E t \in Tables : \E id \in Ids(t) :
       /\ MayAdd(t, id)
       /\ admin' = [admin EXCEPT ![a] = [table |-> t, id |-> id, seen |-> active[t]]]
       /\ active' = [active EXCEPT ![t] = {}]
  /\ UNCHANGED <<profile, match, stamps, known, outcomes, ingest, pass>>

\* set_active, and add() of an active experiment: the UPDATE reaches the row that
\* is active now; a second UPDATE of that row waits and then finds it inactive.
Deactivate(a) ==
  /\ admin[a] = NoChange
  /\ \E t \in Tables : \E id \in Ids(t) :
       /\ MayAdd(t, id)
       /\ admin' = [admin EXCEPT ![a] = [table |-> t, id |-> id, seen |-> active[t]]]
  /\ UNCHANGED <<profile, match, stamps, known, active, outcomes, ingest, pass>>

\* The row is found or inserted, and the transaction commits under the index
\* that admits one active row per name.
Activate(a) ==
  /\ admin[a] # NoChange
  /\ LET c == admin[a] IN
       /\ c.table = "prompts" <=> c.id \in known[c.table]
       /\ active[c.table] \subseteq c.seen \cup {c.id}
       /\ known' = [known EXCEPT ![c.table] = @ \cup {c.id}]
       /\ active' = [active EXCEPT ![c.table] = {c.id}]
  /\ admin' = [admin EXCEPT ![a] = NoChange]
  /\ UNCHANGED <<profile, match, stamps, outcomes, ingest, pass>>

\* An unknown version, a lost race for the index, the database: rolled back.
ActivationFails(a) ==
  /\ admin[a] # NoChange
  /\ admin' = [admin EXCEPT ![a] = NoChange]
  /\ UNCHANGED <<profile, match, stamps, known, active, outcomes, ingest, pass>>

-----------------------------------------------------------------------------
\* Scoring.

\* _pick_variant: the first variant whose cumulated weight exceeds the bucket.
PickVariant(vs, bucket) ==
  vs[CHOOSE k \in 1..Len(vs) :
       /\ bucket < UpTo(vs, k) \/ k = Len(vs)
       /\ \A j \in 1..(k - 1) : ~ (bucket < UpTo(vs, j))].name

\* list_pending
StartPass(s) ==
  /\ pass[s].pc = "idle"
  /\ \E m \in Matches : match[m] = "new"
  /\ pass' = [pass EXCEPT ![s] = [NoPass EXCEPT !.pc = "next",
                                                !.todo = {m \in Matches : match[m] = "new"}]]
  /\ UNCHANGED <<profile, match, stamps, known, active, outcomes, ingest, admin>>

NextMatch(s) == pass' = [pass EXCEPT ![s] =
  IF @.todo = {} THEN NoPass ELSE [NoPass EXCEPT !.pc = "next", !.todo = pass[s].todo]]

\* score_match reads the active experiment ...
GetActive(s) ==
  /\ pass[s].pc = "next"
  /\ \E m \in pass[s].todo : \E x \in (IF active["experiments"] = {} THEN {Nothing} ELSE active["experiments"]) :
       pass' = [pass EXCEPT ![s].pc = IF x = Nothing THEN "score" ELSE "assign",
                            ![s].todo = @ \ {m}, ![s].match = m, ![s].experiment = x]
  /\ UNCHANGED <<profile, match, stamps, known, active, outcomes, ingest, admin>>

\* ... and assign_variant reads it once more, then the LLM is awaited.
AssignVariant(s) ==
  /\ pass[s].pc = "assign"
  /\ \E x \in active["experiments"] :
       pass' = [pass EXCEPT ![s].pc = "score",
                            ![s].variant = PickVariant(Variants[x], Bucket[UserOf(pass[s].match)])]
  /\ UNCHANGED <<profile, match, stamps, known, active, outcomes, ingest, admin>>

\* The version that is active after the await, or the constant.
ResolvedVersion == IF active["prompts"] = {} THEN {Nothing} ELSE active["prompts"]

Stamp(s, version) ==
  IF pass[s].variant = Nothing THEN [prompt |-> version]
  ELSE [experiment |-> pass[s].experiment, variant |-> pass[s].variant]

\* update_scoring: the row moves to scored, whatever it was.
StoreScore(s) ==
  /\ pass[s].pc = "score"
  /\ LET m == pass[s].match IN
       /\ match[m] # "none"
       /\ match' = [match EXCEPT ![m] = "scored"]
       /\ \E version \in ResolvedVersion :
            stamps' = [stamps EXCEPT ![m] = @ \cup {Stamp(s, version)}]
  /\ IF pass[s].variant = Nothing THEN NextMatch(s) ELSE pass' = [pass EXCEPT ![s].pc = "record"]
  /\ UNCHANGED <<profile, known, active, outcomes, ingest, admin>>

\* The LLM, its answer, a deleted row or the database: the pass goes on.
ScoringFails(s) ==
  /\ pass[s].pc \in {"assign", "score"}
  /\ NextMatch(s)
  /\ UNCHANGED <<profile, match, stamps, known, active, outcomes, ingest, admin>>

\* The row of the match in hand: it has the user and the vacancy, not the match.
Outcome(s) == [experiment |-> pass[s].experiment, variant |-> pass[s].variant,
               user |-> UserOf(pass[s].match), vacancy |-> pass[s].match[2]]

\* Mutant: the outcome is recorded as soon as the LLM has answered.
RecordEarly(s) ==
  /\ pass[s].pc \in {"score", "record"} /\ pass[s].variant # Nothing
  /\ outcomes' = outcomes \cup {Outcome(s)}
  /\ NextMatch(s)
  /\ UNCHANGED <<profile, match, stamps, known, active, ingest, admin>>

\* record_outcome; an error of the database is logged and forgotten.
RecordOutcome(s) ==
  /\ pass[s].pc = "record"
  /\ outcomes' \in {outcomes, outcomes \cup {Outcome(s)}}
  /\ NextMatch(s)
  /\ UNCHANGED <<profile, match, stamps, known, active, ingest, admin>>

-----------------------------------------------------------------------------
IngestStep(i) == Ingest(i) \/ FindExisting(i) \/ BulkInsert(i) \/ IngestFails(i)
AdminStep(a) == AddRow(a) \/ Deactivate(a) \/ Activate(a) \/ ActivationFails(a)
ScorerStep(s) ==
  \/ StartPass(s) \/ GetActive(s) \/ AssignVariant(s)
  \/ StoreScore(s) \/ ScoringFails(s) \/ RecordOutcome(s)

ScoringNext ==
  \/ \E p \in Profiles : SetActive(p) \/ DeleteProfile(p)
  \/ \E m \in Matches : CreateMatch(m)
  \/ \E i \in Ingesters : IngestStep(i)
  \/ \E a \in Admins : AdminStep(a)
  \/ \E s \in Scorers : ScorerStep(s)

ScoringSpec == ScoringInit /\ [][ScoringNext]_scoringVars

-----------------------------------------------------------------------------
\* An ingestion that returns has left a match for every vacancy of its batch and
\* every profile it listed, unless the profile was deleted meanwhile, whoever
\* else creates matches (bulk_create_for_all_active_profiles).
ListedAreMatched ==
  [][\A i \in Ingesters : \A p \in ingest[i].listed, v \in ingest[i].batch :
       \/ ingest'[i] # NoIngest
       \/ profile'[p] = "deleted"
       \/ match'[<<p, v>>] # "none"]_scoringVars

\* An outcome is only recorded for a score that one of the user's matches with the
\* vacancy was stored with, under that experiment and that variant: the aggregates of
\* an experiment count no score that never was (ScoringService.score_match).
OutcomesAreScores ==
  \A o \in outcomes : \E m \in Matches :
    /\ UserOf(m) = o.user /\ m[2] = o.vacancy
    /\ [experiment |-> o.experiment, variant |-> o.variant] \in stamps[m]

\* Once a prompt or an experiment is active, there is exactly one active row at
\* every moment: the passes that look it up during an activation find one.
AlwaysOneActive ==
  [][\A t \in Tables : active[t] # {} => Cardinality(active'[t]) = 1]_scoringVars
=============================================================================
