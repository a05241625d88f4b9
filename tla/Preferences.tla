---------------------------- MODULE Preferences ----------------------------
(***************************************************************************)
(* What a user sets: search profiles (search_profiles/) and the style of    *)
(* the cover letters (cover_letter_style/).                                 *)
(*                                                                          *)
(* A request reads the row, sets the fields that its body names on the      *)
(* object it holds, checks that object and commits.  The ORM's UPDATE names *)
(* the columns that differ from the row as it was read.                     *)
(* An absent salary_min counts as 0 and an absent salary_max as MaxAmount:  *)
(* that is all the range check tells apart.  is_active is 1 for true.       *)
(***************************************************************************)
EXTENDS Naturals, FiniteSets

CONSTANTS
  Editors,        \* requests in progress
  Owners,
  Profiles,       \* ids that profiles get; each is given once
  Styles,         \* ids that styles get
  Choices, Default,   \* values of the style's tone and length
  MaxAmount,      \* bound on the salaries
  NamedAtOnce     \* bound on the fields that a body names

ASSUME PreferencesAssumption ==
  /\ Profiles \cap Styles = {}
  /\ Default \in Choices
  /\ MaxAmount \in Nat \ {0}
  /\ NamedAtOnce \in Nat \ {0}

VARIABLES rows, editing

preferencesVars == <<rows, editing>>

Ids == Profiles \cup Styles
Unborn == [state |-> "unborn"]
Gone == [state |-> "gone"]
Idle == [op |-> "idle"]

ProfileFields == {"salary_min", "salary_max", "is_active"}
StyleFields == {"tone", "length"}

\* The bodies of a PUT, without an explicit null for is_active.
Named(Fs) == {F \in SUBSET Fs : Cardinality(F) <= NamedAtOnce}
StyleBody == UNION {[F -> Choices] : F \in Named(StyleFields)}

\* salary_min <= salary_max, where a body names both.
RangeOk(b) == {"salary_min", "salary_max"} \subseteq DOMAIN b => b["salary_min"] <= b["salary_max"]

ProfileBody ==
  {b \in UNION {[F -> 0..MaxAmount] : F \in Named(ProfileFields)} :
     RangeOk(b) /\ ("is_active" \in DOMAIN b => b["is_active"] <= 1)}

NewProfile == [salary_min |-> 0, salary_max |-> MaxAmount, is_active |-> 1]

\* The object that a request holds, with the named fields set.
With(fields, b) == [f \in DOMAIN fields |-> IF f \in DOMAIN b THEN b[f] ELSE fields[f]]

Stored(id) == rows[id].state = "stored"
StyleOf(u) == {id \in Styles : Stored(id) /\ rows[id].owner = u}

PreferencesInit ==
  /\ rows = [id \in Ids |-> Unborn]
  /\ editing = [e \in Editors |-> Idle]

Begin(e, r) == editing[e] = Idle /\ editing' = [editing EXCEPT ![e] = r]
Finish(e) == editing' = [editing EXCEPT ![e] = Idle]

Insert(id, u, fields) ==
  /\ rows[id] = Unborn
  /\ rows' = [rows EXCEPT ![id] = [state |-> "stored", owner |-> u, fields |-> fields]]

-----------------------------------------------------------------------------
\* Search profiles.

\* POST /search-profiles: one INSERT.
CreateProfile(e) ==
  /\ editing[e] = Idle
  /\ \E u \in Owners, id \in Profiles, b \in ProfileBody :
       /\ "is_active" \notin DOMAIN b
       /\ RangeOk(With(NewProfile, b))
       /\ Insert(id, u, With(NewProfile, b))
  /\ UNCHANGED editing

\* Mutant: update() checks what the body names, not the profile it makes.
MayPutNamed(id, u, b) == Stored(id) /\ rows[id].owner = u /\ RangeOk(b)

\* The row is found, it is the caller's, and the merged object has a range.
MayPut(id, u, b) == Stored(id) /\ rows[id].owner = u /\ RangeOk(With(rows[id].fields, b))

\* PUT /search-profiles/{id}
PutProfile(e) ==
  /\ \E u \in Owners, id \in Profiles, b \in ProfileBody :
       /\ MayPut(id, u, b)
       /\ Begin(e, [op |-> "update", user |-> u, id |-> id, read |-> rows[id].fields, body |-> b])
  /\ UNCHANGED rows

\* POST /search-profiles/{id}/activate and /deactivate: no check of the range.
SetActive(e) ==
  /\ \E u \in Owners, id \in Profiles, active \in 0..1 :
       /\ Stored(id) /\ rows[id].owner = u
       /\ Begin(e, [op |-> "update", user |-> u, id |-> id, read |-> rows[id].fields,
                    body |-> [f \in {"is_active"} |-> active]])
  /\ UNCHANGED rows

DeleteProfile(e) ==
  /\ \E u \in Owners, id \in Profiles :
       /\ Stored(id) /\ rows[id].owner = u
       /\ Begin(e, [op |-> "delete", user |-> u, id |-> id])
  /\ UNCHANGED rows

-----------------------------------------------------------------------------
\* The style: one row per user.

\* PUT /cover-letter-style looks the caller's row up ...
PutStyle(e) ==
  /\ \E u \in Owners, b \in StyleBody :
       \/ /\ StyleOf(u) = {}
          /\ Begin(e, [op |-> "create", user |-> u, body |-> b])
       \/ \E id \in StyleOf(u) :
            Begin(e, [op |-> "update", user |-> u, id |-> id, read |-> rows[id].fields, body |-> b])
  /\ UNCHANGED rows

\* ... and creates one, under UNIQUE(user_id).
CreateStyle(e) ==
  /\ editing[e].op = "create"
  /\ StyleOf(editing[e].user) = {}
  /\ \E id \in Styles :
       Insert(id, editing[e].user, With([f \in StyleFields |-> Default], editing[e].body))
  /\ Finish(e)

DeleteStyle(e) ==
  /\ \E u \in Owners : \E id \in StyleOf(u) : Begin(e, [op |-> "delete", user |-> u, id |-> id])
  /\ UNCHANGED rows

-----------------------------------------------------------------------------
\* The statements of both.

\* Mutant: the UPDATE writes every column of the object.
ChangedAll(r) == With(r.read, r.body)

\* The columns of the UPDATE: those that the object changed.
Changed(r) == [f \in {g \in DOMAIN r.body : r.body[g] # r.read[g]} |-> r.body[f]]

\* Mutant: a row that is gone is created again.
WrittenOrCreated(r) ==
  [rows EXCEPT ![r.id] = [state |-> "stored", owner |-> r.user,
                          fields |-> With(IF Stored(r.id) THEN @.fields ELSE r.read, Changed(r))]]

\* The UPDATE of a row that is gone raises: session.get finds the object that the
\* request read, and not that its row is missing, so that update() does not create it.
Written(r) ==
  IF Stored(r.id) THEN [rows EXCEPT ![r.id].fields = With(@, Changed(r))] ELSE rows

Update(e) ==
  /\ editing[e].op = "update"
  /\ rows' = Written(editing[e])
  /\ Finish(e)

Remove(e) ==
  /\ editing[e].op = "delete"
  /\ rows' = [rows EXCEPT ![editing[e].id] = Gone]
  /\ Finish(e)

\* A lost INSERT or a statement that raises: rolled back.
Fail(e) ==
  /\ editing[e] # Idle
  /\ Finish(e)
  /\ UNCHANGED rows

Step(e) ==
  \/ CreateProfile(e) \/ PutProfile(e) \/ SetActive(e) \/ DeleteProfile(e)
  \/ PutStyle(e) \/ CreateStyle(e) \/ DeleteStyle(e)
  \/ Update(e) \/ Remove(e) \/ Fail(e)

PreferencesNext == \E e \in Editors : Step(e)

PreferencesSpec == PreferencesInit /\ [][PreferencesNext]_preferencesVars

-----------------------------------------------------------------------------
\* The editor whose request ends in this step.
Writes(e) == editing[e] # Idle /\ editing'[e] = Idle

\* What a user set stays until a request of theirs names it: requests that
\* overlap and name different fields both take effect (the services set named
\* fields on the row that they read, the ORM writes the changed ones).
ChoicesStay ==
  [][\A id \in Ids : Stored(id) /\ rows'[id] # rows[id] =>
       \E e \in Editors :
         /\ Writes(e)
         /\ editing[e].user = rows[id].owner
         /\ \/ editing[e].op = "delete" /\ rows'[id] = Gone
            \/ /\ editing[e].op = "update"
               /\ rows'[id].state = "stored"
               /\ \A f \in DOMAIN rows[id].fields \ DOMAIN editing[e].body :
                    rows'[id].fields[f] = rows[id].fields[f]]_preferencesVars

\* A row that was deleted does not come back with a request that had read it,
\* whatever the request was going to write (the repositories' update()).
DeletedStays == [][\A id \in Ids : rows[id] = Gone => rows'[id] = Gone]_preferencesVars

\* A profile loses its salary range only to a race: the request that does it
\* had checked a row that has changed since (update() checks the object it
\* read, no constraint of the table repeats the check).
RangeLostOnlyByRace ==
  [][\A id \in Profiles :
       (Stored(id) => RangeOk(rows[id].fields)) /\ rows'[id].state = "stored"
         /\ ~RangeOk(rows'[id].fields) =>
         \E e \in Editors : /\ Writes(e)
                            /\ Stored(id) /\ editing[e].read # rows[id].fields]_preferencesVars
=============================================================================
