------------------------------- MODULE Accounts -------------------------------
(***************************************************************************)
(* Accounts and sessions of the control station: logins, the rotation of   *)
(* refresh tokens, and the pages by which admins manage each other.  Every *)
(* request checks rows first and writes them some awaits later.  A refresh *)
(* token is known by its jti; an access token is not stored anywhere, so   *)
(* only who holds one that has not expired is kept.                        *)
(***************************************************************************)
EXTENDS Naturals, FiniteSets

CONSTANTS
    Users,     \* user names
    Tokens,    \* jtis of refresh tokens
    Requests,  \* requests that may be in progress together
    NoUser,    \* there is no row for this user
    NoToken    \* a request about no refresh token

ASSUME NoneAssumption == NoUser \notin Users /\ NoToken \notin Tokens
ASSUME TokensAssumption == IsFiniteSet(Tokens)

VARIABLES
    user,    \* the users table
    token,   \* refresh_tokens; chain: the token of the login that this one stems from
    access,  \* the users that hold an access token that has not expired
    req      \* the requests in progress

vars == <<user, token, access, req>>

UserRow == [role: {"admin", "user"}, disabled: BOOLEAN]
ASSUME NoUserAssumption == NoUser \notin UserRow

Unused  == [owner |-> NoUser, chain |-> NoToken, state |-> "unused"]
Idle    == [op |-> "idle", at |-> "idle", by |-> NoUser, jti |-> NoToken,
            target |-> NoUser, loaded |-> NoUser, role |-> "user"]

TypeOK ==
    /\ user \in [Users -> UserRow \cup {NoUser}]
    /\ token \in [Tokens -> [owner: Users \cup {NoUser}, chain: Tokens \cup {NoToken},
                             state: {"unused", "valid", "revoked", "expired"}]]
    /\ \A t \in Tokens: token[t] # Unused => token[t].owner \in Users /\ token[t].chain \in Tokens
    /\ access \subseteq Users
    /\ req \in [Requests -> [op: {"idle", "login", "refresh", "toggle", "role"},
                             at: {"idle", "validated", "checked", "loaded"},
                             by: Users \cup {NoUser}, jti: Tokens \cup {NoToken},
                             target: Users \cup {NoUser}, loaded: UserRow \cup {NoUser},
                             role: {"admin", "user"}]]

Init ==
    /\ user = [u \in Users |-> NoUser]
    /\ token = [t \in Tokens |-> Unused]
    /\ access = {}
    /\ req = [r \in Requests |-> Idle]

Enabled(u) == user[u] # NoUser /\ ~user[u].disabled
Admins     == {u \in Users: Enabled(u) /\ user[u].role = "admin"}

-----------------------------------------------------------------------------
Begins(r, fields) ==
    /\ req[r] = Idle
    /\ req' = [req EXCEPT ![r] = fields]
    /\ UNCHANGED <<user, token, access>>

Over(r) == req' = [req EXCEPT ![r] = Idle]

(* The answer is an error, the client hangs up or the server dies.         *)
Fails(r) ==
    /\ req[r] # Idle
    /\ Over(r)
    /\ UNCHANGED <<user, token, access>>

(* csl-admin create-admin refuses a name in use.                           *)
CreateAdmin(u) ==
    /\ user[u] = NoUser
    /\ user' = [user EXCEPT ![u] = [role |-> "admin", disabled |-> FALSE]]
    /\ UNCHANGED <<token, access, req>>

(* login and the login form: the password fits and the account is enabled. *)
Login(r, u)       == Enabled(u) /\ Begins(r, [Idle EXCEPT !.op = "login", !.at = "checked", !.by = u])
LoginSubmit(r, u) == Login(r, u)

(* Mutant: the row does not name its user.                                 *)
StoreUnowned(t, u, chain) == [owner |-> NoUser, chain |-> chain, state |-> "valid"]

(* A new refresh token row, and an access token for its owner.             *)
StoreRefreshToken(t, u, chain) == [owner |-> u, chain |-> chain, state |-> "valid"]

LoginIssues(r, t) ==
    /\ req[r].op = "login"
    /\ token[t] = Unused
    /\ token' = [token EXCEPT ![t] = StoreRefreshToken(t, req[r].by, t)]
    /\ access' = access \cup {req[r].by}
    /\ Over(r)
    /\ UNCHANGED user

-----------------------------------------------------------------------------
(* refresh: the jti is validated, the user is loaded, the old token is     *)
(* revoked and a new one stored in one transaction.                        *)

(* Mutant: the validation does not look at revoked.                        *)
ValidateUnlessExpired(t) == token[t].state \in {"valid", "revoked"}

ValidateRefreshJti(t) == token[t].state = "valid"

Refresh(r, t) ==
    /\ ValidateRefreshJti(t)
    /\ Begins(r, [Idle EXCEPT !.op = "refresh", !.at = "validated", !.jti = t, !.by = token[t].owner])

RefreshLoadsUser(r) ==
    /\ req[r].op = "refresh" /\ req[r].at = "validated"
    /\ Enabled(req[r].by)
    /\ req' = [req EXCEPT ![r].at = "checked"]
    /\ UNCHANGED <<user, token, access>>

(* Mutant: the old token is not revoked.                                   *)
RevokeNothing(tokens, t) == tokens

RevokeJti(tokens, t) == [tokens EXCEPT ![t].state = "revoked"]

RefreshRotates(r, new) ==
    LET old == req[r].jti IN
    /\ req[r].op = "refresh" /\ req[r].at = "checked"
    /\ token[new] = Unused
    /\ token' = [RevokeJti(token, old) EXCEPT
                    ![new] = StoreRefreshToken(new, req[r].by, token[old].chain)]
    /\ access' = access \cup {req[r].by}
    /\ Over(r)
    /\ UNCHANGED user

(* logout revokes the token of the cookie, valid or not; a JWT that has    *)
(* expired does not decode.                                                *)
Logout(t) ==
    /\ token[t].state \in {"valid", "revoked"}
    /\ token' = RevokeJti(token, t)
    /\ UNCHANGED <<user, access, req>>

(* The logout button; a cookie that does not decode is dropped silently.   *)
LogoutWeb(t) == Logout(t)

(* 14 days, 30 minutes.                                                    *)
RefreshTokenExpires(t) ==
    /\ token[t].state = "valid"
    /\ token' = [token EXCEPT ![t].state = "expired"]
    /\ UNCHANGED <<user, access, req>>

AccessTokenExpires(u) ==
    /\ u \in access
    /\ access' = access \ {u}
    /\ UNCHANGED <<user, token, req>>

-----------------------------------------------------------------------------
(* current_user: the token has not expired and the account is enabled; its *)
(* role comes from the row, not from the token.                            *)
CurrentUser(u)  == u \in access /\ Enabled(u)
RequireAdmin(u) == CurrentUser(u) /\ user[u].role = "admin"

AdminUserToggle(r, a, u) ==
    /\ RequireAdmin(a)
    /\ Begins(r, [Idle EXCEPT !.op = "toggle", !.at = "checked", !.by = a, !.target = u])

AdminUserRole(r, a, u, role) ==
    /\ RequireAdmin(a)
    /\ Begins(r, [Idle EXCEPT !.op = "role", !.at = "checked", !.by = a, !.target = u, !.role = role])

(* Mutant: admins may do to themselves what they may do to others.         *)
NotRefused(r) == TRUE

(* Nobody disables or demotes the own account.                             *)
Permitted(r) ==
    \/ req[r].target # req[r].by
    \/ req[r].op = "role" /\ req[r].role = "admin"

(* The row that the session finds: of the own account the one that         *)
(* web_require_admin has loaded and checked, whatever became of it.        *)
TargetRow(r) == IF req[r].target = req[r].by THEN [role |-> "admin", disabled |-> FALSE]
                ELSE user[req[r].target]

LoadsTarget(r) ==
    /\ req[r].op \in {"toggle", "role"} /\ req[r].at = "checked"
    /\ user[req[r].target] # NoUser
    /\ Permitted(r)
    /\ req' = [req EXCEPT ![r].at = "loaded", ![r].loaded = TargetRow(r)]
    /\ UNCHANGED <<user, token, access>>

(* The opposite of what was loaded is written.                             *)
ToggleCommits(r) ==
    /\ req[r].op = "toggle" /\ req[r].at = "loaded"
    /\ user' = [user EXCEPT ![req[r].target].disabled = ~req[r].loaded.disabled]
    /\ Over(r)
    /\ UNCHANGED <<token, access>>

(* A role that is the loaded one is not written.                           *)
RoleCommits(r) ==
    /\ req[r].op = "role" /\ req[r].at = "loaded"
    /\ user' = IF req[r].role = req[r].loaded.role THEN user
               ELSE [user EXCEPT ![req[r].target].role = req[r].role]
    /\ Over(r)
    /\ UNCHANGED <<token, access>>

-----------------------------------------------------------------------------
Next ==
    \/ \E u \in Users: CreateAdmin(u) \/ AccessTokenExpires(u)
    \/ \E t \in Tokens: Logout(t) \/ LogoutWeb(t) \/ RefreshTokenExpires(t)
    \/ \E r \in Requests:
          \/ Fails(r) \/ RefreshLoadsUser(r) \/ LoadsTarget(r) \/ ToggleCommits(r) \/ RoleCommits(r)
          \/ \E u \in Users: Login(r, u) \/ LoginSubmit(r, u)
          \/ \E t \in Tokens: LoginIssues(r, t) \/ Refresh(r, t) \/ RefreshRotates(r, t)
          \/ \E a, u \in Users: AdminUserToggle(r, a, u)
          \/ \E a, u \in Users, role \in {"admin", "user"}: AdminUserRole(r, a, u, role)

Spec == Init /\ [][Next]_vars

-----------------------------------------------------------------------------
Live(c) == {t \in Tokens: token[t].state = "valid" /\ token[t].chain = c}
Finishes(r) == req[r] # Idle /\ req'[r] = Idle

(* A login has one refresh token that works.  A second one appears beside  *)
(* it only when two refreshes with one token overlap: the later of them    *)
(* rotates a token that is no longer valid.                                *)
OneTokenPerLogin ==
    [][\A c \in Tokens:
         (token[c] # Unused /\ Cardinality(Live(c)') > Cardinality(Live(c))) =>
            \E r \in Requests: Finishes(r) /\ req[r].op = "refresh" /\ token[req[r].jti].state # "valid"]_vars

(* A login whose tokens are revoked or expired, and of which no refresh is *)
(* in progress, is over for good: no token of it comes to life again.      *)
Closed(c) ==
    /\ token[c] # Unused /\ Live(c) = {}
    /\ \A r \in Requests: req[r].op = "refresh" => token[req[r].jti].chain # c
ClosedForGood == [][\A c \in Tokens: Closed(c) => Closed(c)']_vars

(* The pages never leave the control station without an enabled admin,     *)
(* except when the admin whose request does it was disabled or demoted     *)
(* while that request was in progress.                                     *)
AdminRemains ==
    [][Admins # {} /\ Admins' = {} =>
         \E r \in Requests: Finishes(r) /\ req[r].op \in {"toggle", "role"} /\ req[r].by \notin Admins]_vars
=============================================================================
