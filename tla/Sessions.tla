------------------------------ MODULE Sessions ------------------------------
(***************************************************************************)
(* Registration, login, refresh and logout of one account (users/service.py *)
(* behind users/api.py).  A bearer token is known in two places: the token  *)
(* store in the memory of the web process, which the feature APIs, the      *)
(* dashboard and the admin pages ask, and the user_sessions table, which    *)
(* /auth asks.  A request writes them one after the other, each repository  *)
(* call in a transaction of its own.                                        *)
(*                                                                          *)
(* Expiry times are kept as the ticks that are left.  The audit log, whose  *)
(* failures are swallowed and which nothing reads back, is left out.        *)
(***************************************************************************)
EXTENDS Naturals, FiniteSets

CONSTANTS
  Requests,
  Tokens,        \* bound: random tokens that may be issued
  NoToken,
  Lifetime,      \* token_ttl_seconds in ticks
  MaxRestarts    \* bound on restarts of the web process

ASSUME SessionsAssumption ==
  /\ NoToken \notin Tokens
  /\ Lifetime \in Nat \ {0} /\ MaxRestarts \in Nat

VARIABLES
  registered,    \* the users row of the account exists
  store,         \* per token: ticks left in the token store, 0 if unknown there
  row,           \* its user_sessions row
  left,          \* ticks left until the row's expires_at
  parent,        \* the token it was refreshed from
  held,          \* tokens that a client was given
  ended,         \* tokens whose logout was answered
  drawn,         \* tokens issued so far
  pc, token, issued,   \* per request: next step, its bearer token, its new token
  restarts

places == <<store, row, left>>
request == <<pc, token, issued>>
vars == <<registered, places, parent, held, ended, drawn, request, restarts>>

PC == {"idle", "insertUser", "revokeOld", "newToken", "saveSession", "revokeRow", "revokeToken"}
Rows == {"none", "live", "revoked"}

-----------------------------------------------------------------------------
\* Who accepts a token.

\* AuthService.resolve_user_id_from_token and _validate_session: /auth/me, the
\* login form and the linking code.
SessionAccepts(t) == row[t] = "live" /\ left[t] > 0

\* TokenStore.resolve: every other API.
StoreAccepts(t) == store[t] > 0

Init ==
  /\ registered = FALSE
  /\ store = [t \in Tokens |-> 0]
  /\ row = [t \in Tokens |-> "none"]
  /\ left = [t \in Tokens |-> 0]
  /\ parent = [t \in Tokens |-> NoToken]
  /\ held = {} /\ ended = {} /\ drawn = {}
  /\ pc = [r \in Requests |-> "idle"]
  /\ token = [r \in Requests |-> NoToken]
  /\ issued = [r \in Requests |-> NoToken]
  /\ restarts = 0

\* The request is answered.
End(r) ==
  /\ pc' = [pc EXCEPT ![r] = "idle"]
  /\ token' = [token EXCEPT ![r] = NoToken]
  /\ issued' = [issued EXCEPT ![r] = NoToken]

Go(r, next) == pc' = [pc EXCEPT ![r] = next]

-----------------------------------------------------------------------------
\* register

\* get_by_email: a known address is refused with a 409.
Register(r) ==
  /\ pc[r] = "idle" /\ ~registered
  /\ Go(r, "insertUser")
  /\ UNCHANGED <<registered, places, parent, held, ended, drawn, token, issued, restarts>>

\* UNIQUE(email) refuses the row of a request that lost the race (a 500).
InsertUser(r) ==
  /\ pc[r] = "insertUser"
  /\ registered' = TRUE
  /\ End(r)
  /\ UNCHANGED <<places, parent, held, ended, drawn, restarts>>

-----------------------------------------------------------------------------
\* login

\* The account and the password are right, or the answer is a 401.
Login(r) ==
  /\ pc[r] = "idle" /\ registered
  /\ Go(r, "newToken")
  /\ UNCHANGED <<registered, places, parent, held, ended, drawn, token, issued, restarts>>

\* InMemoryTokenStore.issue: a token that was never used before.
IssueToken(r) ==
  /\ pc[r] = "newToken"
  /\ \E t \in Tokens :
       /\ t \notin drawn /\ drawn' = drawn \cup {t}
       /\ store' = [store EXCEPT ![t] = Lifetime]
       /\ issued' = [issued EXCEPT ![r] = t]
       /\ parent' = [parent EXCEPT ![t] = token[r]]
  /\ Go(r, "saveSession")
  /\ UNCHANGED <<registered, row, left, held, ended, token, restarts>>

\* Mutant: the row gets a shorter life than the token.
SaveRowShort(t) ==
  /\ row' = [row EXCEPT ![t] = "live"]
  /\ left' = [left EXCEPT ![t] = Lifetime - 1]

\* UserSessionRepository.create, with expires_at counted from now.
SaveRow(t) ==
  /\ row' = [row EXCEPT ![t] = "live"]
  /\ left' = [left EXCEPT ![t] = Lifetime]

\* The session is stored and the client gets the token, as body and as cookie.
SaveSession(r) ==
  /\ pc[r] = "saveSession"
  /\ SaveRow(issued[r])
  /\ held' = held \cup {issued[r]}
  /\ End(r)
  /\ UNCHANGED <<registered, store, parent, ended, drawn, restarts>>

-----------------------------------------------------------------------------
\* refresh

\* Mutant: the old session is left for later, so that the client keeps one.
NextOfRefreshLate == "newToken"

\* The old session is revoked before the new token is issued.
NextOfRefresh == "revokeOld"

\* The session is found and valid, or the answer is a 401.
Refresh(r) ==
  /\ pc[r] = "idle"
  /\ \E t \in held : SessionAccepts(t) /\ token' = [token EXCEPT ![r] = t]
  /\ Go(r, NextOfRefresh)
  /\ UNCHANGED <<registered, places, parent, held, ended, drawn, issued, restarts>>

RevokeRow(t) == row' = [row EXCEPT ![t] = IF @ = "none" THEN "none" ELSE "revoked"]

RevokeOld(r) ==
  /\ pc[r] = "revokeOld"
  /\ RevokeRow(token[r])
  /\ Go(r, "newToken")
  /\ UNCHANGED <<registered, store, left, parent, held, ended, drawn, token, issued, restarts>>

-----------------------------------------------------------------------------
\* logout

Logout(r) ==
  /\ pc[r] = "idle"
  /\ \E t \in held : token' = [token EXCEPT ![r] = t]
  /\ Go(r, "revokeRow")
  /\ UNCHANGED <<registered, places, parent, held, ended, drawn, issued, restarts>>

RevokeSession(r) ==
  /\ pc[r] = "revokeRow"
  /\ RevokeRow(token[r])
  /\ Go(r, "revokeToken")
  /\ UNCHANGED <<registered, store, left, parent, held, ended, drawn, token, issued, restarts>>

\* Mutant: the token store is left to its expiry.
ForgetTokenLater(t) == UNCHANGED store

\* InMemoryTokenStore.revoke
ForgetToken(t) == store' = [store EXCEPT ![t] = 0]

RevokeToken(r) ==
  /\ pc[r] = "revokeToken"
  /\ ForgetToken(token[r])
  /\ ended' = ended \cup {token[r]}
  /\ End(r)
  /\ UNCHANGED <<registered, row, left, parent, held, drawn, restarts>>

-----------------------------------------------------------------------------

\* A statement raises and is rolled back: a 500 in the middle of a request.
RequestFails(r) ==
  /\ pc[r] \in {"insertUser", "revokeOld", "saveSession", "revokeRow"}
  /\ End(r)
  /\ UNCHANGED <<registered, places, parent, held, ended, drawn, restarts>>

\* The web process is restarted: its token store is empty and its requests are gone.
Restart ==
  /\ restarts < MaxRestarts
  /\ restarts' = restarts + 1
  /\ store' = [t \in Tokens |-> 0]
  /\ pc' = [r \in Requests |-> "idle"]
  /\ token' = [r \in Requests |-> NoToken]
  /\ issued' = [r \in Requests |-> NoToken]
  /\ UNCHANGED <<registered, row, left, parent, held, ended, drawn>>

Less(n) == IF n = 0 THEN 0 ELSE n - 1

Tick ==
  /\ store' = [t \in Tokens |-> Less(store[t])]
  /\ left' = [t \in Tokens |-> Less(left[t])]
  /\ UNCHANGED <<registered, row, parent, held, ended, drawn, request, restarts>>

Handle(r) ==
  InsertUser(r) \/ IssueToken(r) \/ SaveSession(r) \/ RevokeOld(r) \/ RevokeSession(r)
    \/ RevokeToken(r)

Arrive(r) == Register(r) \/ Login(r) \/ Refresh(r) \/ Logout(r)

Next == Tick \/ Restart \/ \E r \in Requests : Arrive(r) \/ Handle(r) \/ RequestFails(r)

Spec == Init /\ [][Next]_vars

-----------------------------------------------------------------------------
\* Properties.

TypeOK ==
  /\ registered \in BOOLEAN
  /\ store \in [Tokens -> 0 .. Lifetime]
  /\ row \in [Tokens -> Rows]
  /\ left \in [Tokens -> 0 .. Lifetime]
  /\ parent \in [Tokens -> Tokens \cup {NoToken}]
  /\ held \subseteq Tokens /\ ended \subseteq Tokens /\ drawn \subseteq Tokens
  /\ pc \in [Requests -> PC]
  /\ token \in [Requests -> Tokens \cup {NoToken}]
  /\ issued \in [Requests -> Tokens \cup {NoToken}]
  /\ restarts \in Nat

\* AuthService.logout: once it has been answered, neither place accepts the
\* token again, whatever refreshes and logouts of it are still under way.
LoggedOutIsDead == \A t \in ended : ~SessionAccepts(t) /\ ~StoreAccepts(t)

\* AuthService.refresh_token leaves one session for one: a session that came
\* out of a refresh exists only if the one it replaced is revoked, also when
\* refreshes overlap or one fails or dies half-way.
RotationRevokes ==
  \A t \in Tokens : row[t] # "none" /\ parent[t] # NoToken => row[parent[t]] = "revoked"

Rotated == {parent[t] : t \in Tokens} \cup {token[r] : r \in Requests}

\* The two places agree on a token that is neither being used for a logout or a
\* refresh nor replaced by one: what the APIs accept, /auth accepts.
PlacesAgree == \A t \in held \ Rotated : StoreAccepts(t) => SessionAccepts(t)
=============================================================================
