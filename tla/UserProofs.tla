----------------------------- MODULE UserProofs -----------------------------
(***************************************************************************)
(* Theorems about what belongs to one user: Sessions, for any number of     *)
(* requests and tokens, any lifetime and any number of restarts, and        *)
(* Preferences, for any requests, users, rows and bounds.                   *)
(***************************************************************************)
EXTENDS Sessions, Preferences, FiniteSetTheorems, TLAPS

-----------------------------------------------------------------------------
\* Sessions.

\* What a request carries at each of its steps: a new token nobody has seen, and an
\* old one that is revoked by the time the new one is drawn.
RequestInv ==
  \A r \in Requests :
    /\ pc[r] \in {"idle", "insertUser"} => token[r] = NoToken
    /\ pc[r] \in {"revokeOld", "revokeRow", "revokeToken"} => token[r] # NoToken
    /\ token[r] # NoToken => token[r] \in held
    /\ token[r] # NoToken /\ pc[r] \in {"newToken", "saveSession", "revokeToken"}
         => row[token[r]] = "revoked"
    /\ pc[r] = "saveSession" => /\ issued[r] \in drawn \ held
                                /\ parent[issued[r]] = token[r]

\* Two requests never store the same token.
OwnToken ==
  \A r, q \in Requests :
    pc[r] = "saveSession" /\ pc[q] = "saveSession" /\ r # q => issued[r] # issued[q]

\* A token has a row once its client has it, and outlives its entry in the store.
TokenInv ==
  \A t \in Tokens :
    /\ t \notin drawn => t \notin held /\ parent[t] = NoToken
    /\ t \in held <=> row[t] # "none"
    /\ t \in held => store[t] <= left[t]
    /\ parent[t] # NoToken => row[parent[t]] = "revoked"
    /\ t \in ended => row[t] = "revoked" /\ store[t] = 0

\* A revoked token that the store still knows is being replaced or logged out.
RevokedInv ==
  \A t \in Tokens : row[t] = "revoked" =>
    \/ store[t] = 0
    \/ \E s \in Tokens : parent[s] = t
    \/ \E r \in Requests : token[r] = t /\ pc[r] \in {"newToken", "saveSession", "revokeToken"}

IInv == TypeOK /\ RequestInv /\ OwnToken /\ TokenInv /\ RevokedInv

-----------------------------------------------------------------------------

\* Every request, restart and tick keeps the variables in range.
LEMMA TypeStep == TypeOK /\ RequestInv /\ [Next]_vars => TypeOK'
<1>. SUFFICES ASSUME TypeOK, RequestInv, [Next]_vars PROVE TypeOK'
  OBVIOUS
<1>. USE SessionsAssumption DEF TypeOK, PC, Rows, RequestInv
<1>0. CASE UNCHANGED vars
  BY <1>0 DEF vars, places, request
<1>1. ASSUME NEW r \in Requests, Register(r) PROVE TypeOK'
  BY <1>1 DEF Register, Go, places, request
<1>2. ASSUME NEW r \in Requests, InsertUser(r) PROVE TypeOK'
  BY <1>2 DEF InsertUser, End, places, request
<1>3. ASSUME NEW r \in Requests, Login(r) PROVE TypeOK'
  BY <1>3 DEF Login, Go, places, request
<1>4. ASSUME NEW r \in Requests, IssueToken(r) PROVE TypeOK'
  BY <1>4 DEF IssueToken, Go, places, request
<1>5. ASSUME NEW r \in Requests, SaveSession(r) PROVE TypeOK'
  BY <1>5 DEF SaveSession, End, SaveRow, places, request
<1>6. ASSUME NEW r \in Requests, Refresh(r) PROVE TypeOK'
  BY <1>6 DEF Refresh, Go, NextOfRefresh, places, request
<1>7. ASSUME NEW r \in Requests, RevokeOld(r) PROVE TypeOK'
  BY <1>7 DEF RevokeOld, Go, RevokeRow, places, request
<1>8. ASSUME NEW r \in Requests, Logout(r) PROVE TypeOK'
  BY <1>8 DEF Logout, Go, places, request
<1>9. ASSUME NEW r \in Requests, RevokeSession(r) PROVE TypeOK'
  BY <1>9 DEF RevokeSession, Go, RevokeRow, places, request
<1>10. ASSUME NEW r \in Requests, RevokeToken(r) PROVE TypeOK'
  BY <1>10 DEF RevokeToken, End, ForgetToken, places, request
<1>11. ASSUME NEW r \in Requests, RequestFails(r) PROVE TypeOK'
  BY <1>11 DEF RequestFails, End, places, request
<1>12. ASSUME Restart PROVE TypeOK'
  BY <1>12 DEF Restart, places, request
<1>13. ASSUME Tick PROVE TypeOK'
  BY <1>13 DEF Tick, Less, places, request
<1>. QED  BY <1>0, <1>1, <1>2, <1>3, <1>4, <1>5, <1>6,
         <1>7, <1>8, <1>9, <1>10, <1>11, <1>12, <1>13
         DEF Next, Handle, Arrive

\* A request moves on with the token it looked up, and the row of a token only
\* ever goes from live to revoked.
LEMMA RequestStep == TypeOK /\ RequestInv /\ OwnToken /\ TokenInv /\ [Next]_vars => RequestInv'
<1>. SUFFICES ASSUME TypeOK, RequestInv, OwnToken, TokenInv, [Next]_vars PROVE RequestInv'
  OBVIOUS
<1>. USE SessionsAssumption DEF TypeOK, PC, Rows, RequestInv, OwnToken, TokenInv
<1>0. CASE UNCHANGED vars
  BY <1>0 DEF vars, places, request
<1>1. ASSUME NEW r \in Requests, Register(r) PROVE RequestInv'
  BY <1>1 DEF Register, Go, places, request
<1>2. ASSUME NEW r \in Requests, InsertUser(r) PROVE RequestInv'
  BY <1>2 DEF InsertUser, End, places, request
<1>3. ASSUME NEW r \in Requests, Login(r) PROVE RequestInv'
  BY <1>3 DEF Login, Go, places, request
<1>4. ASSUME NEW r \in Requests, IssueToken(r) PROVE RequestInv'
  BY <1>4 DEF IssueToken, Go, places, request
<1>5. ASSUME NEW r \in Requests, SaveSession(r) PROVE RequestInv'
  BY <1>5 DEF SaveSession, End, SaveRow, places, request
<1>6. ASSUME NEW r \in Requests, Refresh(r) PROVE RequestInv'
  BY <1>6 DEF Refresh, Go, NextOfRefresh, places, request
<1>7. ASSUME NEW r \in Requests, RevokeOld(r) PROVE RequestInv'
  BY <1>7 DEF RevokeOld, Go, RevokeRow, places, request
<1>8. ASSUME NEW r \in Requests, Logout(r) PROVE RequestInv'
  BY <1>8 DEF Logout, Go, places, request
<1>9. ASSUME NEW r \in Requests, RevokeSession(r) PROVE RequestInv'
  BY <1>9 DEF RevokeSession, Go, RevokeRow, places, request
<1>10. ASSUME NEW r \in Requests, RevokeToken(r) PROVE RequestInv'
  BY <1>10 DEF RevokeToken, End, ForgetToken, places, request
<1>11. ASSUME NEW r \in Requests, RequestFails(r) PROVE RequestInv'
  BY <1>11 DEF RequestFails, End, places, request
<1>12. ASSUME Restart PROVE RequestInv'
  BY <1>12 DEF Restart, places, request
<1>13. ASSUME Tick PROVE RequestInv'
  BY <1>13 DEF Tick, Less, places, request
<1>. QED  BY <1>0, <1>1, <1>2, <1>3, <1>4, <1>5, <1>6,
         <1>7, <1>8, <1>9, <1>10, <1>11, <1>12, <1>13
         DEF Next, Handle, Arrive

\* A token that is drawn is not one that a request holds already.
LEMMA OwnStep == TypeOK /\ RequestInv /\ OwnToken /\ [Next]_vars => OwnToken'
<1>. SUFFICES ASSUME TypeOK, RequestInv, OwnToken, [Next]_vars PROVE OwnToken'
  OBVIOUS
<1>. USE SessionsAssumption DEF TypeOK, PC, Rows, RequestInv, OwnToken
<1>0. CASE UNCHANGED vars
  BY <1>0 DEF vars, places, request
<1>1. ASSUME NEW r \in Requests, Register(r) PROVE OwnToken'
  BY <1>1 DEF Register, Go, places, request
<1>2. ASSUME NEW r \in Requests, InsertUser(r) PROVE OwnToken'
  BY <1>2 DEF InsertUser, End, places, request
<1>3. ASSUME NEW r \in Requests, Login(r) PROVE OwnToken'
  BY <1>3 DEF Login, Go, places, request
<1>4. ASSUME NEW r \in Requests, IssueToken(r) PROVE OwnToken'
  BY <1>4 DEF IssueToken, Go, places, request
<1>5. ASSUME NEW r \in Requests, SaveSession(r) PROVE OwnToken'
  BY <1>5 DEF SaveSession, End, SaveRow, places, request
<1>6. ASSUME NEW r \in Requests, Refresh(r) PROVE OwnToken'
  BY <1>6 DEF Refresh, Go, NextOfRefresh, places, request
<1>7. ASSUME NEW r \in Requests, RevokeOld(r) PROVE OwnToken'
  BY <1>7 DEF RevokeOld, Go, RevokeRow, places, request
<1>8. ASSUME NEW r \in Requests, Logout(r) PROVE OwnToken'
  BY <1>8 DEF Logout, Go, places, request
<1>9. ASSUME NEW r \in Requests, RevokeSession(r) PROVE OwnToken'
  BY <1>9 DEF RevokeSession, Go, RevokeRow, places, request
<1>10. ASSUME NEW r \in Requests, RevokeToken(r) PROVE OwnToken'
  BY <1>10 DEF RevokeToken, End, ForgetToken, places, request
<1>11. ASSUME NEW r \in Requests, RequestFails(r) PROVE OwnToken'
  BY <1>11 DEF RequestFails, End, places, request
<1>12. ASSUME Restart PROVE OwnToken'
  BY <1>12 DEF Restart, places, request
<1>13. ASSUME Tick PROVE OwnToken'
  BY <1>13 DEF Tick, Less, places, request
<1>. QED  BY <1>0, <1>1, <1>2, <1>3, <1>4, <1>5, <1>6,
         <1>7, <1>8, <1>9, <1>10, <1>11, <1>12, <1>13
         DEF Next, Handle, Arrive

\* Rows, the store and the clients' tokens change together.
LEMMA TokenStep == TypeOK /\ RequestInv /\ OwnToken /\ TokenInv /\ [Next]_vars => TokenInv'
<1>. SUFFICES ASSUME TypeOK, RequestInv, OwnToken, TokenInv, [Next]_vars PROVE TokenInv'
  OBVIOUS
<1>. USE SessionsAssumption DEF TypeOK, PC, Rows, RequestInv, TokenInv
<1>0. CASE UNCHANGED vars
  BY <1>0 DEF vars, places, request
<1>1. ASSUME NEW r \in Requests, Register(r) PROVE TokenInv'
  BY <1>1 DEF Register, Go, places, request
<1>2. ASSUME NEW r \in Requests, InsertUser(r) PROVE TokenInv'
  BY <1>2 DEF InsertUser, End, places, request
<1>3. ASSUME NEW r \in Requests, Login(r) PROVE TokenInv'
  BY <1>3 DEF Login, Go, places, request
<1>4. ASSUME NEW r \in Requests, IssueToken(r) PROVE TokenInv'
  BY <1>4 DEF IssueToken, Go, places, request
<1>5. ASSUME NEW r \in Requests, SaveSession(r) PROVE TokenInv'
  BY <1>5 DEF SaveSession, End, SaveRow, places, request
<1>6. ASSUME NEW r \in Requests, Refresh(r) PROVE TokenInv'
  BY <1>6 DEF Refresh, Go, NextOfRefresh, places, request
<1>7. ASSUME NEW r \in Requests, RevokeOld(r) PROVE TokenInv'
  BY <1>7 DEF RevokeOld, Go, RevokeRow, places, request
<1>8. ASSUME NEW r \in Requests, Logout(r) PROVE TokenInv'
  BY <1>8 DEF Logout, Go, places, request
<1>9. ASSUME NEW r \in Requests, RevokeSession(r) PROVE TokenInv'
  BY <1>9 DEF RevokeSession, Go, RevokeRow, places, request
<1>10. ASSUME NEW r \in Requests, RevokeToken(r) PROVE TokenInv'
  BY <1>10 DEF RevokeToken, End, ForgetToken, places, request
<1>11. ASSUME NEW r \in Requests, RequestFails(r) PROVE TokenInv'
  BY <1>11 DEF RequestFails, End, places, request
<1>12. ASSUME Restart PROVE TokenInv'
  BY <1>12 DEF Restart, places, request
<1>13. ASSUME Tick PROVE TokenInv'
  BY <1>13 DEF Tick, Less, places, request
<1>. QED  BY <1>0, <1>1, <1>2, <1>3, <1>4, <1>5, <1>6,
         <1>7, <1>8, <1>9, <1>10, <1>11, <1>12, <1>13
         DEF Next, Handle, Arrive

\* Whoever revokes a session goes on to replace its token or to forget it.
LEMMA RevokedStep == TypeOK /\ RequestInv /\ TokenInv /\ RevokedInv /\ [Next]_vars => RevokedInv'
<1>. SUFFICES ASSUME TypeOK, RequestInv, TokenInv, RevokedInv, [Next]_vars PROVE RevokedInv'
  OBVIOUS
<1>. USE SessionsAssumption DEF TypeOK, PC, Rows, RequestInv, TokenInv, RevokedInv
<1>0. CASE UNCHANGED vars
  BY <1>0 DEF vars, places, request
<1>1. ASSUME NEW r \in Requests, Register(r) PROVE RevokedInv'
  BY <1>1 DEF Register, Go, places, request
<1>2. ASSUME NEW r \in Requests, InsertUser(r) PROVE RevokedInv'
  BY <1>2 DEF InsertUser, End, places, request
<1>3. ASSUME NEW r \in Requests, Login(r) PROVE RevokedInv'
  BY <1>3 DEF Login, Go, places, request
<1>4. ASSUME NEW r \in Requests, IssueToken(r) PROVE RevokedInv'
  BY <1>4 DEF IssueToken, Go, places, request
<1>5. ASSUME NEW r \in Requests, SaveSession(r) PROVE RevokedInv'
  BY <1>5 DEF SaveSession, End, SaveRow, places, request
<1>6. ASSUME NEW r \in Requests, Refresh(r) PROVE RevokedInv'
  BY <1>6 DEF Refresh, Go, NextOfRefresh, places, request
<1>7. ASSUME NEW r \in Requests, RevokeOld(r) PROVE RevokedInv'
  BY <1>7 DEF RevokeOld, Go, RevokeRow, places, request
<1>8. ASSUME NEW r \in Requests, Logout(r) PROVE RevokedInv'
  BY <1>8 DEF Logout, Go, places, request
<1>9. ASSUME NEW r \in Requests, RevokeSession(r) PROVE RevokedInv'
  BY <1>9 DEF RevokeSession, Go, RevokeRow, places, request
<1>10. ASSUME NEW r \in Requests, RevokeToken(r) PROVE RevokedInv'
  BY <1>10 DEF RevokeToken, End, ForgetToken, places, request
<1>11. ASSUME NEW r \in Requests, RequestFails(r) PROVE RevokedInv'
  BY <1>11 DEF RequestFails, End, places, request
<1>12. ASSUME Restart PROVE RevokedInv'
  BY <1>12 DEF Restart, places, request
<1>13. ASSUME Tick PROVE RevokedInv'
  BY <1>13 DEF Tick, Less, places, request
<1>. QED  BY <1>0, <1>1, <1>2, <1>3, <1>4, <1>5, <1>6,
         <1>7, <1>8, <1>9, <1>10, <1>11, <1>12, <1>13
         DEF Next, Handle, Arrive

-----------------------------------------------------------------------------

\* Nobody is registered and nothing is issued at first.
LEMMA InitInv == Init => IInv
<1>. SUFFICES ASSUME Init PROVE IInv
  OBVIOUS
<1>1. TypeOK
  <2>1. 0 \in 0 .. Lifetime /\ "none" \in Rows /\ "idle" \in PC
    BY SessionsAssumption DEF PC, Rows
  <2>. QED  BY <2>1, SessionsAssumption DEF Init, TypeOK
<1>2. RequestInv
  BY DEF Init, RequestInv
<1>3. OwnToken
  BY DEF Init, OwnToken
<1>4. TokenInv
  BY DEF Init, TokenInv
<1>5. RevokedInv
  BY DEF Init, RevokedInv
<1>. QED  BY <1>1, <1>2, <1>3, <1>4, <1>5 DEF IInv

\* The invariant is inductive.
LEMMA StepInv == IInv /\ [Next]_vars => IInv'
BY TypeStep, RequestStep, OwnStep, TokenStep, RevokedStep DEF IInv

\* It holds throughout every behaviour.
LEMMA Inductive == Spec => []IInv
<1>. QED  BY InitInv, StepInv, PTL DEF Spec

\* Rows, the token store, the clients' tokens and the requests stay in range
\* (users/service.py, users/repository.py).
THEOREM TypeCorrect == Spec => []TypeOK
<1>1. IInv => TypeOK
  BY DEF IInv
<1>. QED  BY <1>1, Inductive, PTL

\* A logout that was answered is final: AuthService.logout ends the token in both
\* places, and no refresh or second logout still under way brings it back.
THEOREM LogoutIsFinal == Spec => []LoggedOutIsDead
<1>1. IInv => LoggedOutIsDead
  <2>. SUFFICES ASSUME IInv, NEW t \in ended PROVE ~SessionAccepts(t) /\ ~StoreAccepts(t)
    BY DEF LoggedOutIsDead
  <2>1. t \in Tokens
    BY DEF IInv, TypeOK
  <2>2. row[t] = "revoked" /\ store[t] = 0
    BY <2>1 DEF IInv, TokenInv
  <2>. QED  BY <2>2 DEF SessionAccepts, StoreAccepts
<1>. QED  BY <1>1, Inductive, PTL

\* A session that came out of a refresh replaces a revoked one
\* (AuthService.refresh_token), however refreshes overlap, fail or die.
THEOREM RotationReplaces == Spec => []RotationRevokes
<1>1. IInv => RotationRevokes
  BY DEF IInv, TokenInv, RotationRevokes
<1>. QED  BY <1>1, Inductive, PTL

\* A token that the APIs accept is accepted by /auth, unless it is being replaced
\* or logged out (TokenStore.resolve, AuthService._validate_session).
THEOREM StoreFollowsSessions == Spec => []PlacesAgree
<1>1. IInv => PlacesAgree
  <2>. SUFFICES ASSUME IInv, NEW t \in held \ Rotated, StoreAccepts(t) PROVE SessionAccepts(t)
    BY DEF PlacesAgree
  <2>1. t \in Tokens /\ store[t] \in Nat /\ left[t] \in Nat /\ row[t] \in Rows
    BY SessionsAssumption DEF IInv, TypeOK
  <2>2. row[t] # "none" /\ store[t] <= left[t] /\ store[t] > 0
    BY <2>1 DEF IInv, TokenInv, StoreAccepts
  <2>3. ~ \E s \in Tokens : parent[s] = t
    BY DEF Rotated
  <2>4. ~ \E r \in Requests : token[r] = t
    BY DEF Rotated
  <2>5. row[t] # "revoked"
    BY <2>1, <2>2, <2>3, <2>4 DEF IInv, RevokedInv
  <2>. QED  BY <2>1, <2>2, <2>5 DEF SessionAccepts, Rows
<1>. QED  BY <1>1, Inductive, PTL

-----------------------------------------------------------------------------
\* Preferences.

ProfileColumns == {f \in [ProfileFields -> 0..MaxAmount] : f["is_active"] <= 1}
StyleColumns == [StyleFields -> Choices]

StoredRow(columns) == [state : {"stored"}, owner : Owners, fields : columns]
UpdateOf(ids, columns, bodies) ==
  [op : {"update"}, user : Owners, id : ids, read : columns, body : bodies]

EditRequests ==
  {Idle} \cup [op : {"create"}, user : Owners, body : StyleBody]
         \cup [op : {"delete"}, user : Owners, id : Ids]
         \cup UpdateOf(Profiles, ProfileColumns, ProfileBody)
         \cup UpdateOf(Styles, StyleColumns, StyleBody)

PreferencesTypeOK ==
  /\ rows \in [Ids -> {Unborn, Gone} \cup StoredRow(ProfileColumns) \cup StoredRow(StyleColumns)]
  /\ \A id \in Profiles : Stored(id) => rows[id].fields \in ProfileColumns
  /\ \A id \in Styles : Stored(id) => rows[id].fields \in StyleColumns
  /\ editing \in [Editors -> EditRequests]

\* An update or a deletion is of a row that was stored, and its user owns it for as
\* long as it is: ids are given once and rows keep their owner.
OfOwnRow(e) ==
  editing[e].op \in {"update", "delete"} =>
    /\ rows[editing[e].id] # Unborn
    /\ Stored(editing[e].id) => rows[editing[e].id].owner = editing[e].user

\* An update of a profile makes one with a range from the profile it read, if that
\* had one.
KeepsRange(e) ==
  editing[e].op = "update" /\ editing[e].id \in Profiles /\ RangeOk(editing[e].read) =>
    RangeOk(With(editing[e].read, editing[e].body))

PreferencesInv == PreferencesTypeOK /\ \A e \in Editors : OfOwnRow(e) /\ KeepsRange(e)

\* Fields that are set to values of their type leave a row of its type.
LEMMA WithType ==
  ASSUME NEW D, NEW V, NEW fields \in [D -> V], NEW b, DOMAIN b \subseteq D,
         \A f \in DOMAIN b : b[f] \in V
  PROVE  /\ With(fields, b) \in [D -> V]
         /\ \A f \in D : With(fields, b)[f] = IF f \in DOMAIN b THEN b[f] ELSE fields[f]
BY DEF With

\* A body names fields of its table.
LEMMA BodyType ==
  /\ \A b \in StyleBody : DOMAIN b \subseteq StyleFields /\ \A f \in DOMAIN b : b[f] \in Choices
  /\ \A b \in ProfileBody : /\ DOMAIN b \subseteq ProfileFields
                            /\ \A f \in DOMAIN b : b[f] \in 0..MaxAmount
                            /\ "is_active" \in DOMAIN b => b["is_active"] <= 1
BY DEF StyleBody, ProfileBody, Named

\* What an UPDATE names is named by the body, with the same value.
LEMMA ChangedIsNamed ==
  ASSUME NEW r
  PROVE  /\ DOMAIN Changed(r) \subseteq DOMAIN r.body
         /\ \A f \in DOMAIN Changed(r) : Changed(r)[f] = r.body[f]
         /\ \A f \in DOMAIN r.body : f \notin DOMAIN Changed(r) => r.body[f] = r.read[f]
BY DEF Changed

\* A profile that a body is set on is a profile.
LEMMA WithProfile ==
  ASSUME NEW fields \in ProfileColumns, NEW b, DOMAIN b \subseteq ProfileFields,
         \A f \in DOMAIN b : b[f] \in 0..MaxAmount,
         "is_active" \in DOMAIN b => b["is_active"] <= 1
  PROVE  With(fields, b) \in ProfileColumns
<1>1. fields \in [ProfileFields -> 0..MaxAmount] /\ "is_active" \in ProfileFields
  BY DEF ProfileColumns, ProfileFields
<1>2. /\ With(fields, b) \in [ProfileFields -> 0..MaxAmount]
      /\ With(fields, b)["is_active"] <= 1
  BY <1>1, WithType DEF ProfileColumns
<1>. QED  BY <1>2 DEF ProfileColumns

\* To activate or deactivate a profile is one of the bodies ...
LEMMA ActiveBody ==
  ASSUME NEW active \in 0..1
  PROVE  /\ [f \in {"is_active"} |-> active] \in ProfileBody
         /\ DOMAIN [f \in {"is_active"} |-> active] = {"is_active"}
<1>. DEFINE F == {"is_active"}
<1>1. F \in Named(ProfileFields)
  BY FS_Singleton, PreferencesAssumption DEF Named, ProfileFields
<1>2. [f \in F |-> active] \in [F -> 0..MaxAmount]
  BY PreferencesAssumption
<1>3. RangeOk([f \in F |-> active])
  BY DEF RangeOk
<1>. QED  BY <1>1, <1>2, <1>3 DEF ProfileBody

\* ... and leaves the salaries alone.
LEMMA ActiveKeepsRange ==
  ASSUME NEW fields \in ProfileColumns, NEW b, DOMAIN b = {"is_active"}, RangeOk(fields)
  PROVE  RangeOk(With(fields, b))
BY DEF RangeOk, With, ProfileColumns, ProfileFields

\* A new profile is one.
LEMMA NewProfileType == NewProfile \in ProfileColumns
<1>1. NewProfile \in [ProfileFields -> 0..MaxAmount]
  BY PreferencesAssumption DEF NewProfile, ProfileFields
<1>. QED  BY <1>1 DEF NewProfile, ProfileColumns

\* Nobody has anything at start.
LEMMA PreferencesInitInv == PreferencesInit => PreferencesInv
<1>. SUFFICES ASSUME PreferencesInit PROVE PreferencesInv
  OBVIOUS
<1>1. \A id \in Ids : rows[id] = Unborn /\ ~Stored(id)
  BY DEF PreferencesInit, Stored, Unborn
<1>2. PreferencesTypeOK
  BY <1>1 DEF PreferencesInit, PreferencesTypeOK, EditRequests, Ids
<1>3. \A e \in Editors : editing[e].op = "idle"
  BY DEF PreferencesInit, Idle
<1>. QED  BY <1>2, <1>3 DEF PreferencesInv, OfOwnRow, KeepsRange

\* A request that names a row carries its id and its user.
LEMMA RequestParts ==
  ASSUME NEW r \in EditRequests
  PROVE  /\ r.op \in {"update", "delete"} => r.id \in Ids /\ r.user \in Owners
         /\ r.op = "update" => \/ r \in UpdateOf(Profiles, ProfileColumns, ProfileBody)
                               \/ r \in UpdateOf(Styles, StyleColumns, StyleBody)
         /\ r.op = "create" => r.user \in Owners /\ r.body \in StyleBody
BY DEF EditRequests, UpdateOf, Idle, Ids

\* A stored row of either table.
LEMMA RowParts ==
  ASSUME PreferencesTypeOK, NEW id \in Ids
  PROVE  /\ rows[id] \in {Unborn, Gone} \/ Stored(id)
         /\ Stored(id) => /\ rows[id] # Unborn /\ rows[id] # Gone
                          /\ rows[id].owner \in Owners
                          /\ rows[id] = [state |-> "stored", owner |-> rows[id].owner,
                                         fields |-> rows[id].fields]
BY DEF PreferencesTypeOK, StoredRow, Stored, Unborn, Gone

\* Rows that keep their owner, once born, and requests that only end, keep what the
\* requests rely on.
LEMMA RequestsStay ==
  ASSUME PreferencesInv,
         \A e \in Editors : editing'[e] = editing[e] \/ editing'[e] = Idle,
         \A id \in Ids : rows[id] # Unborn => rows'[id] # Unborn,
         \A id \in Ids : rows[id] # Unborn /\ rows'[id].state = "stored" =>
                           Stored(id) /\ rows'[id].owner = rows[id].owner
  PROVE  \A e \in Editors : OfOwnRow(e)' /\ KeepsRange(e)'
<1>. TAKE e \in Editors
<1>1. CASE editing'[e] = Idle
  BY <1>1 DEF Idle, OfOwnRow, KeepsRange
<1>2. CASE editing'[e] = editing[e]
  <2>. PICK r \in EditRequests : r = editing[e]
    BY DEF PreferencesInv, PreferencesTypeOK
  <2>1. OfOwnRow(e) /\ KeepsRange(e)
    BY DEF PreferencesInv
  <2>2. KeepsRange(e)'
    BY <1>2, <2>1 DEF KeepsRange
  <2>3. CASE r.op \in {"update", "delete"}
    <3>1. r.id \in Ids
      BY <2>3, RequestParts
    <3>2. rows[r.id] # Unborn /\ (Stored(r.id) => rows[r.id].owner = r.user)
      BY <2>1, <2>3 DEF OfOwnRow
    <3>3. rows'[r.id] # Unborn /\ (rows'[r.id].state = "stored" => rows'[r.id].owner = r.user)
      BY <3>1, <3>2
    <3>. QED  BY <1>2, <2>2, <3>3 DEF OfOwnRow, Stored
  <2>. QED  BY <1>2, <2>2, <2>3 DEF OfOwnRow
<1>. QED  BY <1>1, <1>2

\* An INSERT gives an id that was not born a row of its table.
LEMMA InsertType ==
  ASSUME PreferencesTypeOK, NEW id \in Ids, NEW u \in Owners, NEW fields, Insert(id, u, fields),
         id \in Profiles => fields \in ProfileColumns, id \in Styles => fields \in StyleColumns
  PROVE  /\ rows' \in [Ids -> {Unborn, Gone} \cup StoredRow(ProfileColumns) \cup StoredRow(StyleColumns)]
         /\ \A i \in Profiles : rows'[i].state = "stored" => rows'[i].fields \in ProfileColumns
         /\ \A i \in Styles : rows'[i].state = "stored" => rows'[i].fields \in StyleColumns
         /\ rows[id] = Unborn /\ rows'[id] = [state |-> "stored", owner |-> u, fields |-> fields]
         /\ \A i \in Ids \ {id} : rows'[i] = rows[i]
<1>. DEFINE born == [state |-> "stored", owner |-> u, fields |-> fields]
<1>1. rows[id] = Unborn /\ rows' = [rows EXCEPT ![id] = born]
  BY DEF Insert
<1>2. born \in StoredRow(ProfileColumns) \cup StoredRow(StyleColumns)
  BY DEF StoredRow, Ids
<1>3. born.fields = fields
  OBVIOUS
<1>. HIDE DEF born
<1>4. /\ rows' \in [Ids -> {Unborn, Gone} \cup StoredRow(ProfileColumns) \cup StoredRow(StyleColumns)]
      /\ rows'[id] = born /\ \A i \in Ids \ {id} : rows'[i] = rows[i]
  BY <1>1, <1>2 DEF PreferencesTypeOK
<1>. QED  BY <1>1, <1>3, <1>4 DEF PreferencesTypeOK, Stored, Ids, born

\* What an UPDATE makes of a row that is stored: a row of the same owner.
LEMMA UpdateType ==
  ASSUME PreferencesInv, NEW e \in Editors, Update(e), NEW id \in Ids,
         editing[e].id = id, Stored(id)
  PROVE  /\ rows'[id] = [state |-> "stored", owner |-> rows[id].owner,
                         fields |-> With(rows[id].fields, Changed(editing[e]))]
         /\ \A i \in Ids \ {id} : rows'[i] = rows[i]
         /\ id \in Profiles => With(rows[id].fields, Changed(editing[e])) \in ProfileColumns
         /\ id \in Styles => With(rows[id].fields, Changed(editing[e])) \in StyleColumns
         /\ rows' \in [Ids -> {Unborn, Gone} \cup StoredRow(ProfileColumns) \cup StoredRow(StyleColumns)]
<1>. PICK r \in EditRequests : r = editing[e]
  BY DEF PreferencesInv, PreferencesTypeOK
<1>. DEFINE new == With(rows[id].fields, Changed(r))
<1>1. r.op = "update" /\ rows' = [rows EXCEPT ![id].fields = new]
  BY DEF Update, Written
<1>2. rows[id] = [state |-> "stored", owner |-> rows[id].owner, fields |-> rows[id].fields]
      /\ rows[id].owner \in Owners
  BY RowParts DEF PreferencesInv
<1>3. id \in Profiles => new \in ProfileColumns
  <2>. SUFFICES ASSUME id \in Profiles PROVE new \in ProfileColumns
    OBVIOUS
  <2>1. r.body \in ProfileBody
    BY <1>1, RequestParts, PreferencesAssumption DEF UpdateOf
  <2>2. rows[id].fields \in ProfileColumns
    BY DEF PreferencesInv, PreferencesTypeOK
  <2>3. /\ DOMAIN Changed(r) \subseteq ProfileFields
        /\ \A f \in DOMAIN Changed(r) : Changed(r)[f] \in 0..MaxAmount
        /\ "is_active" \in DOMAIN Changed(r) => Changed(r)["is_active"] <= 1
    BY <2>1, BodyType, ChangedIsNamed
  <2>. QED  BY <2>2, <2>3, WithProfile
<1>4. id \in Styles => new \in StyleColumns
  <2>. SUFFICES ASSUME id \in Styles PROVE new \in StyleColumns
    OBVIOUS
  <2>1. r.body \in StyleBody
    BY <1>1, RequestParts, PreferencesAssumption DEF UpdateOf
  <2>2. rows[id].fields \in [StyleFields -> Choices]
    BY DEF PreferencesInv, PreferencesTypeOK, StyleColumns
  <2>3. /\ DOMAIN Changed(r) \subseteq StyleFields
        /\ \A f \in DOMAIN Changed(r) : Changed(r)[f] \in Choices
    BY <2>1, BodyType, ChangedIsNamed
  <2>. QED  BY <2>2, <2>3, WithType DEF StyleColumns
<1>. HIDE DEF new
<1>5. /\ rows'[id] = [state |-> "stored", owner |-> rows[id].owner, fields |-> new]
      /\ \A i \in Ids \ {id} : rows'[i] = rows[i]
  BY <1>1, <1>2 DEF PreferencesInv, PreferencesTypeOK
<1>6. rows'[id] \in StoredRow(ProfileColumns) \cup StoredRow(StyleColumns)
  BY <1>2, <1>3, <1>4, <1>5 DEF StoredRow, Ids
<1>7. rows' \in [Ids -> {Unborn, Gone} \cup StoredRow(ProfileColumns) \cup StoredRow(StyleColumns)]
  BY <1>1, <1>6 DEF PreferencesInv, PreferencesTypeOK
<1>. QED  BY <1>3, <1>4, <1>5, <1>7 DEF new

\* A request that begins leaves the rows, and relies on what it was begun on.
LEMMA BeginInv ==
  ASSUME PreferencesInv, NEW e \in Editors, NEW r \in EditRequests, Begin(e, r), UNCHANGED rows,
         r.op \in {"update", "delete"} => Stored(r.id) /\ rows[r.id].owner = r.user,
         r.op = "update" /\ r.id \in Profiles /\ RangeOk(r.read) => RangeOk(With(r.read, r.body))
  PROVE  PreferencesInv'
<1>1. editing' = [editing EXCEPT ![e] = r]
  BY DEF Begin
<1>2. PreferencesTypeOK'
  BY <1>1 DEF PreferencesInv, PreferencesTypeOK, Stored
<1>3. ASSUME NEW q \in Editors PROVE OfOwnRow(q)' /\ KeepsRange(q)'
  <2>1. CASE q = e
    <3>1. editing'[q] = r
      BY <1>1, <2>1 DEF PreferencesInv, PreferencesTypeOK
    <3>2. r.op \in {"update", "delete"} => rows[r.id] # Unborn
      BY RequestParts, RowParts DEF PreferencesInv
    <3>. QED  BY <3>1, <3>2 DEF OfOwnRow, KeepsRange, Stored
  <2>2. CASE q # e
    <3>1. editing'[q] = editing[q] /\ OfOwnRow(q) /\ KeepsRange(q)
      BY <1>1, <2>2 DEF PreferencesInv, PreferencesTypeOK
    <3>. QED  BY <3>1 DEF OfOwnRow, KeepsRange, Stored
  <2>. QED  BY <2>1, <2>2
<1>. QED  BY <1>2, <1>3 DEF PreferencesInv

\* A request that ends is idle.
LEMMA Finished ==
  ASSUME PreferencesTypeOK, NEW e \in Editors, Finish(e)
  PROVE  /\ editing' \in [Editors -> EditRequests] /\ editing'[e] = Idle
         /\ \A q \in Editors \ {e} : editing'[q] = editing[q]
BY DEF Finish, PreferencesTypeOK, EditRequests

\* Every step keeps the invariant.
LEMMA PreferencesStep == PreferencesInv /\ [PreferencesNext]_preferencesVars => PreferencesInv'
<1>. SUFFICES ASSUME PreferencesInv, [PreferencesNext]_preferencesVars PROVE PreferencesInv'
  OBVIOUS
<1>t. PreferencesTypeOK
  BY DEF PreferencesInv
<1>0. CASE UNCHANGED preferencesVars
  BY <1>0 DEF preferencesVars, PreferencesInv, PreferencesTypeOK, OfOwnRow, KeepsRange, Stored
<1>1. ASSUME NEW e \in Editors, CreateProfile(e) PROVE PreferencesInv'
  <2>1. PICK u \in Owners, id \in Profiles, b \in ProfileBody : Insert(id, u, With(NewProfile, b))
    BY <1>1 DEF CreateProfile
  <2>2. With(NewProfile, b) \in ProfileColumns /\ id \in Ids /\ id \notin Styles
    BY NewProfileType, BodyType, WithProfile, PreferencesAssumption DEF Ids
  <2>. DEFINE columns == With(NewProfile, b)
  <2>. HIDE DEF columns
  <2>3. /\ rows' \in [Ids -> {Unborn, Gone} \cup StoredRow(ProfileColumns) \cup StoredRow(StyleColumns)]
        /\ \A i \in Profiles : rows'[i].state = "stored" => rows'[i].fields \in ProfileColumns
        /\ \A i \in Styles : rows'[i].state = "stored" => rows'[i].fields \in StyleColumns
        /\ rows[id] = Unborn /\ rows'[id] = [state |-> "stored", owner |-> u, fields |-> columns]
        /\ \A i \in Ids \ {id} : rows'[i] = rows[i]
    BY <1>t, <2>1, <2>2, InsertType DEF columns
  <2>4. UNCHANGED editing
    BY <1>1 DEF CreateProfile
  <2>5. PreferencesTypeOK'
    BY <1>t, <2>3, <2>4 DEF PreferencesTypeOK, Stored
  <2>6. \A i \in Ids : rows[i] # Unborn => rows'[i] = rows[i]
    BY <2>3
  <2>7. \A q \in Editors : OfOwnRow(q)' /\ KeepsRange(q)'
    BY <2>4, <2>6, RequestsStay DEF Stored
  <2>. QED  BY <2>5, <2>7 DEF PreferencesInv
<1>2. ASSUME NEW e \in Editors, PutProfile(e) PROVE PreferencesInv'
  <2>1. PICK u \in Owners, id \in Profiles, b \in ProfileBody :
          /\ MayPut(id, u, b)
          /\ Begin(e, [op |-> "update", user |-> u, id |-> id, read |-> rows[id].fields, body |-> b])
    BY <1>2 DEF PutProfile
  <2>. DEFINE r == [op |-> "update", user |-> u, id |-> id, read |-> rows[id].fields, body |-> b]
  <2>2. r \in EditRequests
    BY <1>t, <2>1 DEF EditRequests, UpdateOf, MayPut, PreferencesTypeOK
  <2>3. UNCHANGED rows
    BY <1>2 DEF PutProfile
  <2>. QED  BY <2>1, <2>2, <2>3, BeginInv DEF MayPut
<1>3. ASSUME NEW e \in Editors, DeleteProfile(e) PROVE PreferencesInv'
  <2>1. PICK u \in Owners, id \in Profiles :
          /\ Stored(id) /\ rows[id].owner = u
          /\ Begin(e, [op |-> "delete", user |-> u, id |-> id])
    BY <1>3 DEF DeleteProfile
  <2>2. [op |-> "delete", user |-> u, id |-> id] \in EditRequests
    BY DEF EditRequests, Ids
  <2>3. UNCHANGED rows
    BY <1>3 DEF DeleteProfile
  <2>. QED  BY <2>1, <2>2, <2>3, BeginInv
<1>4. ASSUME NEW e \in Editors, PutStyle(e) PROVE PreferencesInv'
  <2>1. PICK u \in Owners, b \in StyleBody :
          \/ Begin(e, [op |-> "create", user |-> u, body |-> b])
          \/ \E id \in StyleOf(u) :
               Begin(e, [op |-> "update", user |-> u, id |-> id, read |-> rows[id].fields, body |-> b])
    BY <1>4 DEF PutStyle
  <2>2. UNCHANGED rows
    BY <1>4 DEF PutStyle
  <2>3. CASE Begin(e, [op |-> "create", user |-> u, body |-> b])
    <3>1. [op |-> "create", user |-> u, body |-> b] \in EditRequests
      BY DEF EditRequests
    <3>. QED  BY <2>2, <2>3, <3>1, BeginInv
  <2>4. ASSUME NEW id \in StyleOf(u),
               Begin(e, [op |-> "update", user |-> u, id |-> id, read |-> rows[id].fields, body |-> b])
        PROVE  PreferencesInv'
    <3>. DEFINE r == [op |-> "update", user |-> u, id |-> id, read |-> rows[id].fields, body |-> b]
    <3>1. id \in Styles /\ id \notin Profiles /\ Stored(id) /\ rows[id].owner = u
      BY PreferencesAssumption DEF StyleOf
    <3>2. r \in EditRequests
      BY <1>t, <3>1 DEF EditRequests, UpdateOf, PreferencesTypeOK
    <3>. QED  BY <2>2, <2>4, <3>1, <3>2, BeginInv
  <2>. QED  BY <2>1, <2>3, <2>4
<1>5. ASSUME NEW e \in Editors, CreateStyle(e) PROVE PreferencesInv'
  <2>. PICK r \in EditRequests : r = editing[e]
    BY <1>t DEF PreferencesTypeOK
  <2>. DEFINE columns == With([f \in StyleFields |-> Default], r.body)
  <2>1. PICK id \in Styles : Insert(id, r.user, columns)
    BY <1>5 DEF CreateStyle
  <2>2. r.user \in Owners /\ r.body \in StyleBody
    BY <1>5, RequestParts DEF CreateStyle
  <2>3. columns \in StyleColumns /\ id \in Ids /\ id \notin Profiles
    <3>1. [f \in StyleFields |-> Default] \in [StyleFields -> Choices]
      BY PreferencesAssumption
    <3>2. columns \in [StyleFields -> Choices]
      BY <2>2, <3>1, BodyType, WithType
    <3>. QED  BY <3>2, PreferencesAssumption DEF StyleColumns, Ids
  <2>. HIDE DEF columns
  <2>4. /\ rows' \in [Ids -> {Unborn, Gone} \cup StoredRow(ProfileColumns) \cup StoredRow(StyleColumns)]
        /\ \A i \in Profiles : rows'[i].state = "stored" => rows'[i].fields \in ProfileColumns
        /\ \A i \in Styles : rows'[i].state = "stored" => rows'[i].fields \in StyleColumns
        /\ rows[id] = Unborn /\ \A i \in Ids \ {id} : rows'[i] = rows[i]
    BY <1>t, <2>1, <2>2, <2>3, InsertType
  <2>5. /\ editing' \in [Editors -> EditRequests]
        /\ \A q \in Editors : editing'[q] = editing[q] \/ editing'[q] = Idle
    BY <1>t, <1>5, Finished DEF CreateStyle
  <2>6. PreferencesTypeOK'
    BY <2>4, <2>5 DEF PreferencesTypeOK, Stored
  <2>7. \A i \in Ids : rows[i] # Unborn => rows'[i] = rows[i]
    BY <2>4
  <2>8. \A q \in Editors : OfOwnRow(q)' /\ KeepsRange(q)'
    BY <2>5, <2>7, RequestsStay DEF Stored
  <2>. QED  BY <2>6, <2>8 DEF PreferencesInv
<1>6. ASSUME NEW e \in Editors, DeleteStyle(e) PROVE PreferencesInv'
  <2>1. PICK u \in Owners, id \in Styles :
          id \in StyleOf(u) /\ Begin(e, [op |-> "delete", user |-> u, id |-> id])
    BY <1>6 DEF DeleteStyle, StyleOf
  <2>2. Stored(id) /\ rows[id].owner = u
    BY <2>1 DEF StyleOf
  <2>3. [op |-> "delete", user |-> u, id |-> id] \in EditRequests
    BY <2>2 DEF EditRequests, Ids
  <2>4. UNCHANGED rows
    BY <1>6 DEF DeleteStyle
  <2>. QED  BY <2>1, <2>2, <2>3, <2>4, BeginInv
<1>7. ASSUME NEW e \in Editors, Update(e) PROVE PreferencesInv'
  <2>. PICK r \in EditRequests : r = editing[e]
    BY <1>t DEF PreferencesTypeOK
  <2>1. /\ editing' \in [Editors -> EditRequests]
        /\ \A q \in Editors : editing'[q] = editing[q] \/ editing'[q] = Idle
    BY <1>t, <1>7, Finished DEF Update
  <2>2. r.id \in Ids
    BY <1>7, RequestParts DEF Update
  <2>3. CASE ~Stored(r.id)
    <3>1. UNCHANGED rows
      BY <1>7, <2>3 DEF Update, Written
    <3>2. PreferencesTypeOK'
      BY <1>t, <2>1, <3>1 DEF PreferencesTypeOK, Stored
    <3>3. \A q \in Editors : OfOwnRow(q)' /\ KeepsRange(q)'
      BY <2>1, <3>1, RequestsStay DEF Stored
    <3>. QED  BY <3>2, <3>3 DEF PreferencesInv
  <2>4. CASE Stored(r.id)
    <3>. DEFINE columns == With(rows[r.id].fields, Changed(r))
    <3>1. /\ rows'[r.id] = [state |-> "stored", owner |-> rows[r.id].owner, fields |-> columns]
          /\ \A i \in Ids \ {r.id} : rows'[i] = rows[i]
          /\ r.id \in Profiles => columns \in ProfileColumns
          /\ r.id \in Styles => columns \in StyleColumns
          /\ rows' \in [Ids -> {Unborn, Gone} \cup StoredRow(ProfileColumns) \cup StoredRow(StyleColumns)]
      BY <1>7, <2>2, <2>4, UpdateType
    <3>. HIDE DEF columns
    <3>2. PreferencesTypeOK'
      BY <1>t, <2>1, <3>1 DEF PreferencesTypeOK, Stored, Ids
    <3>3. \A i \in Ids : rows[i] # Unborn => rows'[i] # Unborn
      BY <3>1 DEF Unborn
    <3>4. \A i \in Ids : rows[i] # Unborn /\ rows'[i].state = "stored" =>
                           Stored(i) /\ rows'[i].owner = rows[i].owner
      BY <2>4, <3>1 DEF Stored
    <3>5. \A q \in Editors : OfOwnRow(q)' /\ KeepsRange(q)'
      BY <2>1, <3>3, <3>4, RequestsStay
    <3>. QED  BY <3>2, <3>5 DEF PreferencesInv
  <2>. QED  BY <2>3, <2>4
<1>8. ASSUME NEW e \in Editors, Remove(e) PROVE PreferencesInv'
  <2>. PICK r \in EditRequests : r = editing[e]
    BY <1>t DEF PreferencesTypeOK
  <2>1. /\ editing' \in [Editors -> EditRequests]
        /\ \A q \in Editors : editing'[q] = editing[q] \/ editing'[q] = Idle
    BY <1>t, <1>8, Finished DEF Remove
  <2>2. r.id \in Ids /\ rows' = [rows EXCEPT ![r.id] = Gone]
    BY <1>8, RequestParts DEF Remove
  <2>3. rows'[r.id] = Gone /\ \A i \in Ids \ {r.id} : rows'[i] = rows[i]
    BY <1>t, <2>2 DEF PreferencesTypeOK
  <2>4. Gone # Unborn /\ Gone.state # "stored"
    BY DEF Gone, Unborn
  <2>5. rows' \in [Ids -> {Unborn, Gone} \cup StoredRow(ProfileColumns) \cup StoredRow(StyleColumns)]
    BY <1>t, <2>2 DEF PreferencesTypeOK
  <2>6. PreferencesTypeOK'
    BY <1>t, <2>1, <2>3, <2>4, <2>5 DEF PreferencesTypeOK, Stored, Ids
  <2>7. \A q \in Editors : OfOwnRow(q)' /\ KeepsRange(q)'
    BY <2>1, <2>3, <2>4, RequestsStay DEF Stored
  <2>. QED  BY <2>6, <2>7 DEF PreferencesInv
<1>9. ASSUME NEW e \in Editors, Fail(e) PROVE PreferencesInv'
  <2>1. /\ editing' \in [Editors -> EditRequests]
        /\ \A q \in Editors : editing'[q] = editing[q] \/ editing'[q] = Idle
    BY <1>t, <1>9, Finished DEF Fail
  <2>2. UNCHANGED rows
    BY <1>9 DEF Fail
  <2>3. PreferencesTypeOK'
    BY <1>t, <2>1, <2>2 DEF PreferencesTypeOK, Stored
  <2>4. \A q \in Editors : OfOwnRow(q)' /\ KeepsRange(q)'
    BY <2>1, <2>2, RequestsStay DEF Stored
  <2>. QED  BY <2>3, <2>4 DEF PreferencesInv
<1>10. ASSUME NEW e \in Editors, SetActive(e) PROVE PreferencesInv'
  <2>1. PICK u \in Owners, id \in Profiles, active \in 0..1 :
          /\ Stored(id) /\ rows[id].owner = u
          /\ Begin(e, [op |-> "update", user |-> u, id |-> id, read |-> rows[id].fields,
                       body |-> [f \in {"is_active"} |-> active]])
    BY <1>10 DEF SetActive
  <2>. DEFINE b == [f \in {"is_active"} |-> active]
              r == [op |-> "update", user |-> u, id |-> id, read |-> rows[id].fields, body |-> b]
  <2>2. b \in ProfileBody /\ DOMAIN b = {"is_active"}
    BY ActiveBody
  <2>3. rows[id].fields \in ProfileColumns
    BY <1>t, <2>1 DEF PreferencesTypeOK
  <2>. HIDE DEF b
  <2>4. r \in EditRequests
    BY <2>2, <2>3 DEF EditRequests, UpdateOf
  <2>5. RangeOk(r.read) => RangeOk(With(r.read, b))
    BY <2>2, <2>3, ActiveKeepsRange
  <2>6. UNCHANGED rows
    BY <1>10 DEF SetActive
  <2>. QED  BY <2>1, <2>4, <2>5, <2>6, BeginInv DEF b
<1>. QED
  BY <1>0, <1>1, <1>2, <1>3, <1>4, <1>5, <1>6, <1>7, <1>8, <1>9, <1>10 DEF PreferencesNext, Step

LEMMA PreferencesInvariance == PreferencesSpec => []PreferencesInv
<1>. QED  BY PreferencesInitInv, PreferencesStep, PTL DEF PreferencesSpec

\* Whatever overlaps, a row has the columns of its table, with values they may have.
THEOREM PreferencesTypeCorrect == PreferencesSpec => []PreferencesTypeOK
<1>. QED  BY PreferencesInvariance, PTL DEF PreferencesInv

\* What a step does to a row that is stored: nothing, or what the request of its owner
\* that ends with the step is for.
LEMMA RowStep ==
  ASSUME PreferencesInv, PreferencesNext, NEW id \in Ids, Stored(id), rows'[id] # rows[id]
  PROVE  \E e \in Editors :
           /\ Writes(e) /\ editing[e].id = id /\ editing[e].user = rows[id].owner
           /\ \/ editing[e].op = "delete" /\ rows'[id] = Gone
              \/ /\ Update(e)
                 /\ rows'[id] = [state |-> "stored", owner |-> rows[id].owner,
                                 fields |-> With(rows[id].fields, Changed(editing[e]))]
<1>t. PreferencesTypeOK /\ rows[id] # Unborn
  BY RowParts DEF PreferencesInv
<1>1. \A u, columns : ~Insert(id, u, columns)
  BY <1>t DEF Insert
<1>2. PICK e \in Editors : Update(e) \/ Remove(e)
  <2>1. PICK e \in Editors : Step(e)
    BY DEF PreferencesNext
  <2>2. \A i \in Ids : \A u, columns : Insert(i, u, columns) => i = id
    BY <1>t DEF Insert, PreferencesTypeOK
  <2>3. ~CreateProfile(e) /\ ~CreateStyle(e)
    BY <1>1, <2>2 DEF CreateProfile, CreateStyle, Ids
  <2>. QED  BY <2>1, <2>2, <2>3 DEF Step, PutProfile, SetActive, DeleteProfile, PutStyle, DeleteStyle, Fail
<1>. PICK r \in EditRequests : r = editing[e]
  BY <1>t DEF PreferencesTypeOK
<1>3. r.op \in {"update", "delete"} /\ Finish(e)
  BY <1>2 DEF Update, Remove
<1>4. Writes(e)
  BY <1>t, <1>3, Finished DEF Writes, Idle
<1>5. r.id = id
  <2>1. CASE Update(e)
    BY <1>t, <2>1 DEF Update, Written, PreferencesTypeOK
  <2>2. CASE Remove(e)
    BY <1>t, <2>2 DEF Remove, PreferencesTypeOK
  <2>. QED  BY <1>2, <2>1, <2>2
<1>6. r.user = rows[id].owner
  BY <1>3, <1>5 DEF PreferencesInv, OfOwnRow
<1>7. CASE Remove(e)
  <2>1. editing[e].op = "delete" /\ rows'[id] = Gone
    BY <1>t, <1>5, <1>7 DEF Remove, PreferencesTypeOK
  <2>. QED  BY <1>4, <1>5, <1>6, <2>1
<1>8. CASE Update(e)
  BY <1>4, <1>5, <1>6, <1>8, UpdateType
<1>. QED  BY <1>2, <1>7, <1>8

\* What a user set stays until a request of theirs names it, however many requests
\* overlap (search_profiles and cover_letter_style services).
THEOREM ChoicesKept == PreferencesSpec => ChoicesStay
<1>1. ASSUME PreferencesInv, PreferencesNext, NEW id \in Ids, Stored(id), rows'[id] # rows[id]
      PROVE  \E e \in Editors :
               /\ Writes(e)
               /\ editing[e].user = rows[id].owner
               /\ \/ editing[e].op = "delete" /\ rows'[id] = Gone
                  \/ /\ editing[e].op = "update"
                     /\ rows'[id].state = "stored"
                     /\ \A f \in DOMAIN rows[id].fields \ DOMAIN editing[e].body :
                          rows'[id].fields[f] = rows[id].fields[f]
  <2>1. PICK e \in Editors :
           /\ Writes(e) /\ editing[e].id = id /\ editing[e].user = rows[id].owner
           /\ \/ editing[e].op = "delete" /\ rows'[id] = Gone
              \/ /\ Update(e)
                 /\ rows'[id] = [state |-> "stored", owner |-> rows[id].owner,
                                 fields |-> With(rows[id].fields, Changed(editing[e]))]
    BY <1>1, RowStep
  <2>2. CASE editing[e].op = "delete" /\ rows'[id] = Gone
    BY <2>1, <2>2
  <2>3. CASE Update(e) /\ rows'[id] = [state |-> "stored", owner |-> rows[id].owner,
                                       fields |-> With(rows[id].fields, Changed(editing[e]))]
    <3>1. editing[e].op = "update" /\ rows'[id].state = "stored"
      BY <2>3 DEF Update
    <3>2. rows'[id].fields = With(rows[id].fields, Changed(editing[e]))
      BY <2>3
    <3>3. \A f \in DOMAIN rows[id].fields \ DOMAIN editing[e].body :
             rows'[id].fields[f] = rows[id].fields[f]
      BY <3>2, ChangedIsNamed DEF With
    <3>. QED  BY <2>1, <3>1, <3>3
  <2>. QED  BY <2>1, <2>2, <2>3
<1>2. PreferencesInv /\ [PreferencesNext]_preferencesVars =>
        [\A id \in Ids : Stored(id) /\ rows'[id] # rows[id] =>
           \E e \in Editors :
             /\ Writes(e)
             /\ editing[e].user = rows[id].owner
             /\ \/ editing[e].op = "delete" /\ rows'[id] = Gone
                \/ /\ editing[e].op = "update"
                   /\ rows'[id].state = "stored"
                   /\ \A f \in DOMAIN rows[id].fields \ DOMAIN editing[e].body :
                        rows'[id].fields[f] = rows[id].fields[f]]_preferencesVars
  BY <1>1 DEF preferencesVars
<1>. QED  BY PreferencesInvariance, <1>2, PTL DEF PreferencesSpec, ChoicesStay

\* A row that was deleted stays away, whatever any number of requests had read of it
\* before (SqlCoverLetterStyleRepository.update, SqlSearchProfileRepository.update).
THEOREM DeletedIsFinal == PreferencesSpec => DeletedStays
<1>1. ASSUME PreferencesInv, PreferencesNext, NEW id \in Ids, rows[id] = Gone
      PROVE  rows'[id] = Gone
  <2>t. PreferencesTypeOK /\ Gone # Unborn /\ ~Stored(id)
    BY <1>1 DEF PreferencesInv, Gone, Unborn, Stored
  <2>1. \A i \in Ids : \A u, columns : Insert(i, u, columns) => rows'[id] = rows[id]
    BY <1>1, <2>t DEF Insert, PreferencesTypeOK
  <2>2. PICK e \in Editors : Step(e)
    BY <1>1 DEF PreferencesNext
  <2>3. CASE UNCHANGED rows
    BY <1>1, <2>3
  <2>4. CASE CreateProfile(e) \/ CreateStyle(e)
    BY <1>1, <2>1, <2>4 DEF CreateProfile, CreateStyle, Ids
  <2>5. CASE Update(e)
    <3>1. rows' = Written(editing[e])
      BY <2>5 DEF Update
    <3>. QED  BY <1>1, <2>t, <3>1 DEF Written, Stored, PreferencesTypeOK
  <2>6. CASE Remove(e)
    BY <1>1, <2>t, <2>6 DEF Remove, PreferencesTypeOK
  <2>. QED
    BY <2>2, <2>3, <2>4, <2>5, <2>6
    DEF Step, PutProfile, SetActive, DeleteProfile, PutStyle, DeleteStyle, Fail
<1>2. PreferencesInv /\ [PreferencesNext]_preferencesVars =>
        [\A id \in Ids : rows[id] = Gone => rows'[id] = Gone]_preferencesVars
  BY <1>1 DEF preferencesVars
<1>. QED  BY PreferencesInvariance, <1>2, PTL DEF PreferencesSpec, DeletedStays

\* A row that is stored in a step was inserted: a profile with a range.
LEMMA BornInRange ==
  ASSUME PreferencesInv, PreferencesNext, NEW id \in Profiles, ~Stored(id), rows'[id].state = "stored"
  PROVE  RangeOk(rows'[id].fields)
<1>t. PreferencesTypeOK /\ id \in Ids /\ id \notin Styles
  BY PreferencesAssumption DEF PreferencesInv, Ids
<1>1. PICK e \in Editors : Step(e)
  BY DEF PreferencesNext
<1>2. rows'[id] # rows[id]
  BY DEF Stored
<1>3. ~Update(e)
  <2>. SUFFICES ASSUME Update(e) PROVE FALSE
    OBVIOUS
  <2>. PICK r \in EditRequests : r = editing[e]
    BY <1>t DEF PreferencesTypeOK
  <2>1. Stored(r.id) /\ r.id \in Ids
    BY <1>2, RequestParts DEF Update, Written
  <2>2. \A i \in Ids \ {r.id} : rows'[i] = rows[i]
    BY <2>1, UpdateType
  <2>. QED  BY <1>t, <1>2, <2>1, <2>2
<1>4. ~Remove(e)
  BY <1>t, <1>2 DEF Remove, PreferencesTypeOK, Gone
<1>5. ~CreateStyle(e)
  <2>. SUFFICES ASSUME CreateStyle(e) PROVE FALSE
    OBVIOUS
  <2>1. \E i \in Styles : \E u, columns : Insert(i, u, columns)
    BY DEF CreateStyle
  <2>. QED  BY <1>t, <1>2, <2>1 DEF Insert, PreferencesTypeOK
<1>6. CreateProfile(e)
  BY <1>1, <1>2, <1>3, <1>4, <1>5 DEF Step, PutProfile, SetActive, DeleteProfile, PutStyle, DeleteStyle, Fail
<1>7. PICK u \in Owners, i \in Profiles, b \in ProfileBody :
        RangeOk(With(NewProfile, b)) /\ Insert(i, u, With(NewProfile, b))
  BY <1>6 DEF CreateProfile
<1>. DEFINE columns == With(NewProfile, b)
<1>. HIDE DEF columns
<1>8. RangeOk(columns) /\ rows' = [rows EXCEPT ![i] = [state |-> "stored", owner |-> u, fields |-> columns]]
  BY <1>7 DEF Insert, columns
<1>9. rows'[id] = [state |-> "stored", owner |-> u, fields |-> columns]
  BY <1>t, <1>2, <1>8 DEF PreferencesTypeOK
<1>. QED  BY <1>8, <1>9

\* An UPDATE of a row that is as it was read makes the profile that was checked.
LEMMA ChangedMakesChecked ==
  ASSUME NEW r
  PROVE  With(r.read, Changed(r)) = With(r.read, r.body)
<1>1. \A f \in DOMAIN r.read : With(r.read, Changed(r))[f] = With(r.read, r.body)[f]
  BY ChangedIsNamed DEF With
<1>. QED  BY <1>1 DEF With

\* A profile with a range that loses it is updated by a request that read it before it
\* changed, and by no other (SearchProfileService.update).
THEOREM RangeLostToRaces == PreferencesSpec => RangeLostOnlyByRace
<1>1. ASSUME PreferencesInv, PreferencesNext, NEW id \in Profiles,
             Stored(id) => RangeOk(rows[id].fields),
             rows'[id].state = "stored", ~RangeOk(rows'[id].fields)
      PROVE  \E e \in Editors : /\ Writes(e)
                                /\ Stored(id) /\ editing[e].read # rows[id].fields
  <2>1. Stored(id) /\ rows'[id] # rows[id] /\ id \in Ids
    BY <1>1, BornInRange DEF Ids
  <2>2. PICK e \in Editors :
           /\ Writes(e) /\ editing[e].id = id /\ editing[e].user = rows[id].owner
           /\ \/ editing[e].op = "delete" /\ rows'[id] = Gone
              \/ /\ Update(e)
                 /\ rows'[id] = [state |-> "stored", owner |-> rows[id].owner,
                                 fields |-> With(rows[id].fields, Changed(editing[e]))]
    BY <1>1, <2>1, RowStep
  <2>3. rows'[id] # Gone
    BY <1>1 DEF Gone
  <2>4. Update(e) /\ rows'[id].fields = With(rows[id].fields, Changed(editing[e]))
    BY <2>2, <2>3
  <2>5. RangeOk(editing[e].read) => RangeOk(With(editing[e].read, editing[e].body))
    BY <1>1, <2>2, <2>4 DEF Update, PreferencesInv, KeepsRange
  <2>6. editing[e].read # rows[id].fields
    BY <1>1, <2>1, <2>4, <2>5, ChangedMakesChecked
  <2>. QED  BY <2>1, <2>2, <2>6
<1>2. PreferencesInv /\ [PreferencesNext]_preferencesVars =>
        [\A id \in Profiles :
           (Stored(id) => RangeOk(rows[id].fields)) /\ rows'[id].state = "stored"
             /\ ~RangeOk(rows'[id].fields) =>
             \E e \in Editors : /\ Writes(e)
                                /\ Stored(id) /\ editing[e].read # rows[id].fields]_preferencesVars
  BY <1>1 DEF preferencesVars
<1>. QED  BY PreferencesInvariance, <1>2, PTL DEF PreferencesSpec, RangeLostOnlyByRace
=============================================================================
