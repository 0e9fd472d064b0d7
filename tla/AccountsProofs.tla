---------------------------- MODULE AccountsProofs ----------------------------
(***************************************************************************)
(* Proofs about accounts and sessions, for any number of users, tokens and *)
(* requests in progress: what may happen to the tokens of a login, and to  *)
(* the last admin, in one step.                                            *)
(*                                                                         *)
(* The properties are about single steps, and a step relies on what its    *)
(* request checked some steps before: ReqOK is what is still true of it.   *)
(***************************************************************************)
EXTENDS Accounts, FiniteSetTheorems, TLAPS

TokenRow == [owner: Users \cup {NoUser}, chain: Tokens \cup {NoToken},
             state: {"unused", "valid", "revoked", "expired"}]
Request  == [op: {"idle", "login", "refresh", "toggle", "role"},
             at: {"idle", "validated", "checked", "loaded"},
             by: Users \cup {NoUser}, jti: Tokens \cup {NoToken},
             target: Users \cup {NoUser}, loaded: UserRow \cup {NoUser},
             role: {"admin", "user"}]

(* A request is made by a user; a refresh is about a token that was issued.*)
(* A page that has loaded its target found a row, which is not deleted,    *)
(* and was not refused.                                                    *)
ReqOK ==
    \A r \in Requests:
        /\ req[r].op # "idle" => req[r].by \in Users
        /\ req[r].op = "refresh" => req[r].jti \in Tokens /\ token[req[r].jti].state # "unused"
        /\ req[r].op \in {"toggle", "role"} => req[r].target \in Users
        /\ req[r].op \in {"toggle", "role"} /\ req[r].at = "loaded" =>
              user[req[r].target] \in UserRow /\ req[r].loaded \in UserRow /\ Permitted(r)

IInv == TypeOK /\ ReqOK

-----------------------------------------------------------------------------
(* The tables by themselves, and what holds of an entry of each.           *)
LEMMA Typed ==
    ASSUME TypeOK
    PROVE  /\ user \in [Users -> UserRow \cup {NoUser}]
           /\ token \in [Tokens -> TokenRow] /\ access \subseteq Users
           /\ req \in [Requests -> Request]
           /\ \A t \in Tokens: token[t].state # "unused" => token[t].owner \in Users /\ token[t].chain \in Tokens
BY DEF TypeOK, TokenRow, Request, Unused

(* An installation without users satisfies the invariant.                  *)
LEMMA InitIInv == Init => IInv
<1> SUFFICES ASSUME Init PROVE IInv
  OBVIOUS
<1>1. TypeOK
  BY DEF Init, TypeOK, Unused, Idle
<1>2. ReqOK
  BY DEF Init, ReqOK, Idle
<1> QED BY <1>1, <1>2 DEF IInv

(* A request begins, goes on or ends, and nothing else changes.            *)
LEMMA RequestInv ==
    ASSUME IInv, NEW r \in Requests, NEW e \in Request, req' = [req EXCEPT ![r] = e],
           UNCHANGED <<user, token, access>>,
           e.op # "idle" => e.by \in Users,
           e.op = "refresh" => e.jti \in Tokens /\ token[e.jti].state # "unused",
           e.op \in {"toggle", "role"} => e.target \in Users,
           e.op \in {"toggle", "role"} /\ e.at = "loaded" =>
              /\ user[e.target] \in UserRow /\ e.loaded \in UserRow
              /\ e.target # e.by \/ (e.op = "role" /\ e.role = "admin")
    PROVE  IInv'
<1>1. req'[r] = e /\ (\A s \in Requests \ {r}: req'[s] = req[s]) /\ req' \in [Requests -> Request]
  BY Typed DEF IInv
<1>2. TypeOK'
  BY <1>1 DEF IInv, TypeOK, Request
<1>3. ReqOK'
  BY <1>1 DEF IInv, ReqOK, Permitted
<1> QED BY <1>2, <1>3 DEF IInv

(* A request that is not running is well typed.                            *)
LEMMA IdleTyped == Idle \in Request /\ Idle.op = "idle"
BY DEF Idle, Request

(* The tokens change: those that were issued stay issued.                  *)
LEMMA TokensInv ==
    ASSUME IInv, token' \in [Tokens -> TokenRow],
           \A t \in Tokens: token'[t] # Unused => token'[t].owner \in Users /\ token'[t].chain \in Tokens,
           \A t \in Tokens: token[t].state # "unused" => token'[t].state # "unused",
           access' \subseteq Users, UNCHANGED user,
           \A s \in Requests: req'[s] \in {req[s], Idle}, req' \in [Requests -> Request]
    PROVE  IInv'
<1>1. TypeOK'
  BY DEF IInv, TypeOK, TokenRow, Request
<1>2. ReqOK'
  BY IdleTyped DEF IInv, ReqOK, Permitted
<1> QED BY <1>1, <1>2 DEF IInv

(* One row of the users table changes, and stays a row.                    *)
LEMMA UsersInv ==
    ASSUME IInv, NEW u \in Users, NEW w \in UserRow, user' = [user EXCEPT ![u] = w],
           UNCHANGED <<token, access>>,
           \A s \in Requests: req'[s] \in {req[s], Idle}, req' \in [Requests -> Request]
    PROVE  IInv'
<1>1. user'[u] = w /\ (\A v \in Users \ {u}: user'[v] = user[v]) /\ user' \in [Users -> UserRow \cup {NoUser}]
  BY Typed DEF IInv
<1>2. TypeOK'
  BY <1>1 DEF IInv, TypeOK, Request
<1>3. ReqOK'
  BY <1>1, IdleTyped DEF IInv, ReqOK, Permitted
<1> QED BY <1>2, <1>3 DEF IInv

(* A request is over: its entry is idle and the others stay.               *)
LEMMA OverFacts ==
    ASSUME TypeOK, NEW r \in Requests, Over(r)
    PROVE  /\ req'[r] = Idle /\ \A s \in Requests \ {r}: req'[s] = req[s]
           /\ \A s \in Requests: req'[s] \in {req[s], Idle}
           /\ req' \in [Requests -> Request]
BY Typed, IdleTyped DEF Over

-----------------------------------------------------------------------------
(* Requests begin with what their checks have found.                       *)
LEMMA BeginsInv ==
    ASSUME IInv, NEW r \in Requests,
           \/ \E u \in Users: Login(r, u)
           \/ \E t \in Tokens: Refresh(r, t)
           \/ \E a, u \in Users: AdminUserToggle(r, a, u)
           \/ \E a, u \in Users, role \in {"admin", "user"}: AdminUserRole(r, a, u, role)
    PROVE  IInv'
<1>1. ASSUME NEW u \in Users, Login(r, u) PROVE IInv'
  <2> DEFINE e == [Idle EXCEPT !.op = "login", !.at = "checked", !.by = u]
  <2>1. e \in Request /\ e.op = "login" /\ e.by = u
    BY DEF Idle, Request
  <2>2. req' = [req EXCEPT ![r] = e] /\ UNCHANGED <<user, token, access>>
    BY <1>1 DEF Login, Begins
  <2> HIDE DEF e
  <2> QED BY <2>1, <2>2, RequestInv
<1>2. ASSUME NEW t \in Tokens, Refresh(r, t) PROVE IInv'
  <2> DEFINE e == [Idle EXCEPT !.op = "refresh", !.at = "validated", !.jti = t, !.by = token[t].owner]
  <2>1. token[t].state # "unused" /\ token[t].owner \in Users
    BY <1>2, Typed DEF Refresh, ValidateRefreshJti, IInv
  <2>2. e \in Request /\ e.op = "refresh" /\ e.by \in Users /\ e.jti = t
    BY <2>1 DEF Idle, Request
  <2>3. req' = [req EXCEPT ![r] = e] /\ UNCHANGED <<user, token, access>>
    BY <1>2 DEF Refresh, Begins
  <2> HIDE DEF e
  <2> QED BY <2>1, <2>2, <2>3, RequestInv
<1>3. ASSUME NEW a \in Users, NEW u \in Users, AdminUserToggle(r, a, u) PROVE IInv'
  <2> DEFINE e == [Idle EXCEPT !.op = "toggle", !.at = "checked", !.by = a, !.target = u]
  <2>1. e \in Request /\ e.op = "toggle" /\ e.at = "checked" /\ e.by = a /\ e.target = u
    BY DEF Idle, Request
  <2>2. req' = [req EXCEPT ![r] = e] /\ UNCHANGED <<user, token, access>>
    BY <1>3 DEF AdminUserToggle, Begins
  <2> HIDE DEF e
  <2> QED BY <2>1, <2>2, RequestInv
<1>4. ASSUME NEW a \in Users, NEW u \in Users, NEW role \in {"admin", "user"}, AdminUserRole(r, a, u, role)
      PROVE  IInv'
  <2> DEFINE e == [Idle EXCEPT !.op = "role", !.at = "checked", !.by = a, !.target = u, !.role = role]
  <2>1. e \in Request /\ e.op = "role" /\ e.at = "checked" /\ e.by = a /\ e.target = u
    BY DEF Idle, Request
  <2>2. req' = [req EXCEPT ![r] = e] /\ UNCHANGED <<user, token, access>>
    BY <1>4 DEF AdminUserRole, Begins
  <2> HIDE DEF e
  <2> QED BY <2>1, <2>2, RequestInv
<1> QED BY <1>1, <1>2, <1>3, <1>4

(* They go on, or end without a trace.                                     *)
LEMMA ProceedsInv ==
    ASSUME IInv, NEW r \in Requests, RefreshLoadsUser(r) \/ LoadsTarget(r) \/ Fails(r)
    PROVE  IInv'
<1>0. req \in [Requests -> Request] /\ user \in [Users -> UserRow \cup {NoUser}]
  BY Typed DEF IInv
<1>1. CASE RefreshLoadsUser(r)
  <2> DEFINE e == [req[r] EXCEPT !.at = "checked"]
  <2>1. e \in Request /\ e.op = "refresh" /\ e.by = req[r].by /\ e.jti = req[r].jti
    BY <1>0, <1>1 DEF RefreshLoadsUser, Request
  <2>2. req' = [req EXCEPT ![r] = e] /\ UNCHANGED <<user, token, access>>
    BY <1>0, <1>1 DEF RefreshLoadsUser
  <2>3. e.by \in Users /\ e.jti \in Tokens /\ token[e.jti].state # "unused"
    BY <1>1, <2>1 DEF RefreshLoadsUser, IInv, ReqOK
  <2> HIDE DEF e
  <2> QED BY <2>1, <2>2, <2>3, RequestInv
<1>2. CASE LoadsTarget(r)
  <2> DEFINE w == TargetRow(r)
             e == [req[r] EXCEPT !.at = "loaded", !.loaded = w]
  <2>1. req[r].by \in Users /\ req[r].target \in Users /\ w \in UserRow /\ Permitted(r)
         /\ user[req[r].target] \in UserRow
    BY <1>0, <1>2 DEF LoadsTarget, IInv, ReqOK, TargetRow, UserRow
  <2>2. /\ e \in Request /\ e.op = req[r].op /\ e.by = req[r].by /\ e.target = req[r].target
        /\ e.role = req[r].role /\ e.loaded = w /\ req[r].op \in {"toggle", "role"}
    BY <1>0, <1>2, <2>1 DEF LoadsTarget, Request
  <2>3. req' = [req EXCEPT ![r] = e] /\ UNCHANGED <<user, token, access>>
    BY <1>0, <1>2 DEF LoadsTarget
  <2> HIDE DEF e
  <2> QED BY <2>1, <2>2, <2>3, RequestInv DEF Permitted
<1>3. CASE Fails(r)
  BY <1>3, RequestInv, IdleTyped DEF Fails, Over
<1> QED BY <1>1, <1>2, <1>3

(* What a token row is after it was revoked, expired or issued.            *)
LEMMA TokenChanges ==
    ASSUME IInv
    PROVE  /\ \A t \in Tokens: /\ RevokeJti(token, t) \in [Tokens -> TokenRow]
                               /\ RevokeJti(token, t)[t].state = "revoked"
                               /\ RevokeJti(token, t)[t].owner = token[t].owner
                               /\ RevokeJti(token, t)[t].chain = token[t].chain
                               /\ \A x \in Tokens \ {t}: RevokeJti(token, t)[x] = token[x]
           /\ \A t \in Tokens, u \in Users, c \in Tokens:
                 /\ StoreRefreshToken(t, u, c) \in TokenRow
                 /\ StoreRefreshToken(t, u, c).owner = u
                 /\ StoreRefreshToken(t, u, c).chain = c
                 /\ StoreRefreshToken(t, u, c).state = "valid"
<1>1. token \in [Tokens -> TokenRow]
  BY Typed DEF IInv
<1> QED BY <1>1 DEF RevokeJti, StoreRefreshToken, TokenRow

(* A login issues the first token of its chain.                            *)
LEMMA LoginIssuesFacts ==
    ASSUME IInv, NEW r \in Requests, NEW t \in Tokens, LoginIssues(r, t)
    PROVE  /\ token[t] = Unused /\ req[r].by \in Users
           /\ token' \in [Tokens -> TokenRow]
           /\ token'[t].owner = req[r].by /\ token'[t].chain = t /\ token'[t].state = "valid"
           /\ \A x \in Tokens \ {t}: token'[x] = token[x]
<1>1. req[r].by \in Users /\ token \in [Tokens -> TokenRow]
  BY Typed DEF LoginIssues, IInv, ReqOK
<1> QED BY <1>1, TokenChanges DEF LoginIssues

(* A rotation revokes the old token and issues another of its chain.       *)
LEMMA RotationFacts ==
    ASSUME IInv, NEW r \in Requests, NEW new \in Tokens, RefreshRotates(r, new)
    PROVE  LET old == req[r].jti IN
           /\ old \in Tokens /\ old # new /\ token[old].state # "unused" /\ token[new] = Unused
           /\ token[old].owner \in Users /\ token[old].chain \in Tokens /\ req[r].by \in Users
           /\ token' \in [Tokens -> TokenRow]
           /\ token'[new].owner = req[r].by /\ token'[new].chain = token[old].chain /\ token'[new].state = "valid"
           /\ token'[old].owner = token[old].owner /\ token'[old].chain = token[old].chain
           /\ token'[old].state = "revoked"
           /\ \A x \in Tokens \ {old, new}: token'[x] = token[x]
<1> DEFINE old == req[r].jti
<1>1. old \in Tokens /\ token[old].state # "unused" /\ req[r].by \in Users
  BY DEF RefreshRotates, IInv, ReqOK
<1>2. token[old].owner \in Users /\ token[old].chain \in Tokens
  BY <1>1, Typed DEF IInv
<1>3. token[new] = Unused /\ old # new
  BY <1>1 DEF RefreshRotates, Unused
<1> DEFINE revoked == RevokeJti(token, old)
           issued == StoreRefreshToken(new, req[r].by, token[old].chain)
<1>4. token' = [revoked EXCEPT ![new] = issued]
  BY DEF RefreshRotates
<1>5. /\ revoked \in [Tokens -> TokenRow]
      /\ revoked[old].state = "revoked" /\ revoked[old].owner = token[old].owner
      /\ revoked[old].chain = token[old].chain
      /\ \A x \in Tokens \ {old}: revoked[x] = token[x]
  BY <1>1, TokenChanges
<1>6. /\ issued \in TokenRow /\ issued.owner = req[r].by /\ issued.chain = token[old].chain
      /\ issued.state = "valid"
  BY <1>1, <1>2, TokenChanges
<1> HIDE DEF revoked, issued
<1> QED BY <1>1, <1>2, <1>3, <1>4, <1>5, <1>6

(* Logins, rotations, logouts and time change the tokens.                  *)
LEMMA TokenStepsInv ==
    ASSUME IInv,
           \/ \E t \in Tokens: Logout(t) \/ RefreshTokenExpires(t)
           \/ \E u \in Users: AccessTokenExpires(u)
           \/ \E r \in Requests, t \in Tokens: LoginIssues(r, t) \/ RefreshRotates(r, t)
    PROVE  IInv'
<1>0. /\ token \in [Tokens -> TokenRow] /\ access \subseteq Users /\ req \in [Requests -> Request]
      /\ \A t \in Tokens: token[t] # Unused => token[t].owner \in Users /\ token[t].chain \in Tokens
      /\ \A t \in Tokens: token[t].state # "unused" => token[t] # Unused
  BY Typed DEF IInv, TypeOK, Unused
<1>1. ASSUME NEW t \in Tokens, Logout(t) PROVE IInv'
  <2>1. token'[t].owner = token[t].owner /\ token'[t].chain = token[t].chain /\ token'[t].state = "revoked"
        /\ (\A x \in Tokens \ {t}: token'[x] = token[x]) /\ token' \in [Tokens -> TokenRow]
    BY <1>1, TokenChanges DEF Logout
  <2>2. token[t].state # "unused" /\ UNCHANGED <<user, access, req>>
    BY <1>1 DEF Logout
  <2> QED BY <1>0, <2>1, <2>2, TokensInv
<1>2. ASSUME NEW t \in Tokens, RefreshTokenExpires(t) PROVE IInv'
  <2>1. token'[t].owner = token[t].owner /\ token'[t].chain = token[t].chain /\ token'[t].state = "expired"
        /\ (\A x \in Tokens \ {t}: token'[x] = token[x]) /\ token' \in [Tokens -> TokenRow]
    BY <1>0, <1>2 DEF RefreshTokenExpires, TokenRow
  <2>2. token[t].state # "unused" /\ UNCHANGED <<user, access, req>>
    BY <1>2 DEF RefreshTokenExpires
  <2> QED BY <1>0, <2>1, <2>2, TokensInv
<1>3. ASSUME NEW u \in Users, AccessTokenExpires(u) PROVE IInv'
  <2>1. access' \subseteq Users /\ UNCHANGED <<user, token, req>>
    BY <1>0, <1>3 DEF AccessTokenExpires
  <2> QED BY <1>0, <2>1, TokensInv
<1>4. ASSUME NEW r \in Requests, NEW t \in Tokens, LoginIssues(r, t) PROVE IInv'
  <2>0. req[r].by \in Users
    BY <1>4, LoginIssuesFacts
  <2>1. access' \subseteq Users /\ UNCHANGED user /\ Over(r)
    BY <1>0, <1>4, <2>0 DEF LoginIssues
  <2>2. (\A s \in Requests: req'[s] \in {req[s], Idle}) /\ req' \in [Requests -> Request]
    BY <2>1, OverFacts DEF IInv
  <2>3. \A x \in Tokens: token'[x] # Unused => token'[x].owner \in Users /\ token'[x].chain \in Tokens
    BY <1>0, <1>4, LoginIssuesFacts
  <2>4. \A x \in Tokens: token[x].state # "unused" => token'[x].state # "unused"
    <3>1. token'[t].state = "valid" /\ \A x \in Tokens \ {t}: token'[x] = token[x]
      BY <1>4, LoginIssuesFacts
    <3> QED BY <3>1
  <2>5. token' \in [Tokens -> TokenRow]
    BY <1>4, LoginIssuesFacts
  <2> QED BY <2>1, <2>2, <2>3, <2>4, <2>5, TokensInv
<1>5. ASSUME NEW r \in Requests, NEW t \in Tokens, RefreshRotates(r, t) PROVE IInv'
  <2>0. req[r].by \in Users
    BY <1>5, RotationFacts
  <2>1. access' \subseteq Users /\ UNCHANGED user /\ Over(r)
    BY <1>0, <1>5, <2>0 DEF RefreshRotates
  <2>2. (\A s \in Requests: req'[s] \in {req[s], Idle}) /\ req' \in [Requests -> Request]
    BY <2>1, OverFacts DEF IInv
  <2>3. \A x \in Tokens: token'[x] # Unused => token'[x].owner \in Users /\ token'[x].chain \in Tokens
    BY <1>0, <1>5, RotationFacts
  <2>4. \A x \in Tokens: token[x].state # "unused" => token'[x].state # "unused"
    <3>1. /\ token'[t].state = "valid" /\ token'[req[r].jti].state = "revoked"
          /\ \A x \in Tokens \ {req[r].jti, t}: token'[x] = token[x]
      BY <1>5, RotationFacts
    <3> QED BY <3>1
  <2>5. token' \in [Tokens -> TokenRow]
    BY <1>5, RotationFacts
  <2> QED BY <2>1, <2>2, <2>3, <2>4, <2>5, TokensInv
<1> QED BY <1>1, <1>2, <1>3, <1>4, <1>5

(* The pages and the command line change the users.                        *)
LEMMA UserStepsInv ==
    ASSUME IInv,
           \/ \E u \in Users: CreateAdmin(u)
           \/ \E r \in Requests: ToggleCommits(r) \/ RoleCommits(r)
    PROVE  IInv'
<1>0. user \in [Users -> UserRow \cup {NoUser}] /\ req \in [Requests -> Request]
  BY Typed DEF IInv
<1>1. ASSUME NEW u \in Users, CreateAdmin(u) PROVE IInv'
  <2> DEFINE w == [role |-> "admin", disabled |-> FALSE]
  <2>1. w \in UserRow
    BY DEF UserRow
  <2>2. user' = [user EXCEPT ![u] = w] /\ UNCHANGED <<token, access, req>>
    BY <1>1 DEF CreateAdmin
  <2> HIDE DEF w
  <2> QED BY <1>0, <2>1, <2>2, UsersInv
<1>2. ASSUME NEW r \in Requests, ToggleCommits(r) PROVE IInv'
  <2> DEFINE u == req[r].target
             w == [user[u] EXCEPT !.disabled = ~req[r].loaded.disabled]
  <2>1. u \in Users /\ user[u] \in UserRow
    BY <1>2 DEF ToggleCommits, IInv, ReqOK
  <2>2. w \in UserRow
    BY <2>1 DEF UserRow
  <2>3. user' = [user EXCEPT ![u] = w] /\ UNCHANGED <<token, access>> /\ Over(r)
    BY <1>2 DEF ToggleCommits
  <2>4. (\A s \in Requests: req'[s] \in {req[s], Idle}) /\ req' \in [Requests -> Request]
    BY <2>3, OverFacts DEF IInv
  <2> HIDE DEF w, u
  <2> QED BY <2>1, <2>2, <2>3, <2>4, UsersInv
<1>3. ASSUME NEW r \in Requests, RoleCommits(r) PROVE IInv'
  <2> DEFINE u == req[r].target
             w == IF req[r].role = req[r].loaded.role THEN user[u] ELSE [user[u] EXCEPT !.role = req[r].role]
  <2>1. u \in Users /\ user[u] \in UserRow /\ req[r].role \in {"admin", "user"}
    BY <1>0, <1>3 DEF RoleCommits, IInv, ReqOK, Request
  <2>2. w \in UserRow
    BY <2>1 DEF UserRow
  <2>3. user' = [user EXCEPT ![u] = w] /\ UNCHANGED <<token, access>> /\ Over(r)
    BY <1>0, <1>3, <2>1 DEF RoleCommits
  <2>4. (\A s \in Requests: req'[s] \in {req[s], Idle}) /\ req' \in [Requests -> Request]
    BY <2>3, OverFacts DEF IInv
  <2> HIDE DEF w, u
  <2> QED BY <2>1, <2>2, <2>3, <2>4, UsersInv
<1> QED BY <1>1, <1>2, <1>3

(* Every step keeps the invariant.                                         *)
LEMMA NextIInv == IInv /\ [Next]_vars => IInv'
<1> SUFFICES ASSUME IInv, [Next]_vars PROVE IInv'
  OBVIOUS
<1>1. ASSUME NEW u \in Users, CreateAdmin(u) \/ AccessTokenExpires(u) PROVE IInv'
  BY <1>1, UserStepsInv, TokenStepsInv
<1>2. ASSUME NEW t \in Tokens, Logout(t) \/ LogoutWeb(t) \/ RefreshTokenExpires(t) PROVE IInv'
  BY <1>2, TokenStepsInv DEF LogoutWeb
<1>3. ASSUME NEW r \in Requests, Fails(r) \/ RefreshLoadsUser(r) \/ LoadsTarget(r) PROVE IInv'
  BY <1>3, ProceedsInv
<1>4. ASSUME NEW r \in Requests, ToggleCommits(r) \/ RoleCommits(r) PROVE IInv'
  BY <1>4, UserStepsInv
<1>5. ASSUME NEW r \in Requests, \E u \in Users: Login(r, u) \/ LoginSubmit(r, u) PROVE IInv'
  BY <1>5, BeginsInv DEF LoginSubmit
<1>6. ASSUME NEW r \in Requests, NEW t \in Tokens, LoginIssues(r, t) \/ RefreshRotates(r, t) PROVE IInv'
  BY <1>6, TokenStepsInv
<1>7. ASSUME NEW r \in Requests, NEW t \in Tokens, Refresh(r, t) PROVE IInv'
  BY <1>7, BeginsInv
<1>8. ASSUME NEW r \in Requests,
             \/ \E a, u \in Users: AdminUserToggle(r, a, u)
             \/ \E a, u \in Users, role \in {"admin", "user"}: AdminUserRole(r, a, u, role)
      PROVE  IInv'
  BY <1>8, BeginsInv
<1>9. CASE UNCHANGED vars
  BY <1>9 DEF vars, IInv, TypeOK, ReqOK, Permitted
<1> QED BY <1>1, <1>2, <1>3, <1>4, <1>5, <1>6, <1>7, <1>8, <1>9 DEF Next

(* Every reachable state satisfies the invariant.                          *)
LEMMA Invariant == Spec => []IInv
<1> QED BY InitIInv, NextIInv, PTL DEF Spec

-----------------------------------------------------------------------------
(* What a step may do to the tokens of a login: the valid ones become      *)
(* fewer, or a refresh exchanges its token for another.                    *)
Exchanges(r, new, c) ==
    /\ RefreshRotates(r, new) /\ token[req[r].jti].chain = c
    /\ Live(c)' \subseteq (Live(c) \ {req[r].jti}) \cup {new}

(* The live tokens of a login lose members, or one is exchanged for another. *)
LEMMA LiveStep ==
    ASSUME IInv, [Next]_vars, NEW c \in Tokens, token[c] # Unused
    PROVE  /\ token'[c] # Unused
           /\ \A t \in Tokens: token[t].state # "unused" => token'[t].chain = token[t].chain
           /\ \/ Live(c)' \subseteq Live(c)
              \/ \E r \in Requests, new \in Tokens: Exchanges(r, new, c)
<1> DEFINE Kept == /\ token'[c] # Unused
                   /\ \A t \in Tokens: token[t].state # "unused" => token'[t].chain = token[t].chain
           Goal == /\ Kept
                   /\ \/ Live(c)' \subseteq Live(c)
                      \/ \E r \in Requests, new \in Tokens: Exchanges(r, new, c)
<1>0. token \in [Tokens -> TokenRow]
  BY Typed DEF IInv
<1>1. CASE UNCHANGED token
  BY <1>1 DEF Live
<1>2. ASSUME NEW t \in Tokens, Logout(t) \/ RefreshTokenExpires(t) PROVE Goal
  <2>1. /\ token'[t].chain = token[t].chain /\ token'[t].state \in {"revoked", "expired"}
        /\ \A x \in Tokens \ {t}: token'[x] = token[x]
    <3>1. CASE Logout(t)
      BY <3>1, TokenChanges DEF Logout
    <3>2. CASE RefreshTokenExpires(t)
      BY <1>0, <3>2 DEF RefreshTokenExpires, TokenRow
    <3> QED BY <1>2, <3>1, <3>2
  <2> QED BY <2>1 DEF Live, Unused
<1>3. ASSUME NEW r \in Requests, NEW t \in Tokens, LoginIssues(r, t) PROVE Goal
  <2>1. /\ token[t] = Unused /\ token'[t].chain = t
        /\ \A x \in Tokens \ {t}: token'[x] = token[x]
    BY <1>3, LoginIssuesFacts
  <2>2. token[t].state = "unused" /\ t # c
    BY <2>1 DEF Unused
  <2> QED BY <2>1, <2>2 DEF Live
<1>4. ASSUME NEW r \in Requests, NEW new \in Tokens, RefreshRotates(r, new) PROVE Goal
  <2> DEFINE old == req[r].jti
  <2>1. /\ old \in Tokens /\ old # new /\ token[old].state # "unused" /\ token[new] = Unused
        /\ token'[new].chain = token[old].chain /\ token'[old].chain = token[old].chain
        /\ token'[old].state = "revoked"
        /\ \A x \in Tokens \ {old, new}: token'[x] = token[x]
    BY <1>4, RotationFacts
  <2>2. token[new].state = "unused" /\ new # c
    BY <2>1 DEF Unused
  <2>3. Kept
    BY <2>1, <2>2 DEF Unused
  <2>4. CASE token[old].chain = c
    <3>1. Live(c)' \subseteq (Live(c) \ {old}) \cup {new}
      BY <2>1 DEF Live
    <3> QED BY <1>4, <2>3, <2>4, <3>1 DEF Exchanges
  <2>5. CASE token[old].chain # c
    <3>1. Live(c)' \subseteq Live(c)
      BY <2>1, <2>5 DEF Live
    <3> QED BY <2>3, <3>1
  <2> QED BY <2>4, <2>5
<1>5. \/ UNCHANGED token
      \/ \E t \in Tokens: Logout(t) \/ RefreshTokenExpires(t)
      \/ \E r \in Requests, t \in Tokens: LoginIssues(r, t) \/ RefreshRotates(r, t)
  BY DEF Next, vars, CreateAdmin, AccessTokenExpires, LogoutWeb, Fails, RefreshLoadsUser, LoadsTarget,
         ToggleCommits, RoleCommits, Login, LoginSubmit, Refresh, AdminUserToggle, AdminUserRole, Begins
<1> QED BY <1>1, <1>2, <1>3, <1>4, <1>5

(* A refresh that was in progress goes on with its token, or began with a  *)
(* valid one.                                                              *)
LEMMA RefreshStep ==
    ASSUME IInv, [Next]_vars, NEW r \in Requests, req'[r].op = "refresh"
    PROVE  \/ req[r].op = "refresh" /\ req'[r].jti = req[r].jti
           \/ req'[r].jti \in Tokens /\ token[req'[r].jti].state = "valid"
<1> DEFINE Goal == \/ req[r].op = "refresh" /\ req'[r].jti = req[r].jti
                   \/ req'[r].jti \in Tokens /\ token[req'[r].jti].state = "valid"
<1>0. req \in [Requests -> Request] /\ Idle.op = "idle"
  BY Typed, IdleTyped DEF IInv
<1>1. CASE UNCHANGED req
  BY <1>1
<1>2. ASSUME NEW s \in Requests, Over(s) PROVE Goal
  BY <1>2, OverFacts, IdleTyped DEF IInv
<1>3. ASSUME NEW s \in Requests, RefreshLoadsUser(s) PROVE Goal
  BY <1>0, <1>3 DEF RefreshLoadsUser, Request
<1>4. ASSUME NEW s \in Requests, LoadsTarget(s) PROVE Goal
  BY <1>0, <1>4 DEF LoadsTarget, Request
<1>5. ASSUME NEW s \in Requests, NEW t \in Tokens, Refresh(s, t) PROVE Goal
  BY <1>0, <1>5 DEF Refresh, ValidateRefreshJti, Begins, Request, Idle
<1>6. ASSUME NEW s \in Requests, NEW u \in Users, Login(s, u) PROVE Goal
  BY <1>0, <1>6 DEF Login, Begins, Request, Idle
<1>7. ASSUME NEW s \in Requests, NEW a \in Users, NEW u \in Users, AdminUserToggle(s, a, u) PROVE Goal
  BY <1>0, <1>7 DEF AdminUserToggle, Begins, Request, Idle
<1>8. ASSUME NEW s \in Requests, NEW a \in Users, NEW u \in Users, NEW role \in {"admin", "user"},
             AdminUserRole(s, a, u, role)
      PROVE  Goal
  BY <1>0, <1>8 DEF AdminUserRole, Begins, Request, Idle
<1>9. \/ UNCHANGED req
      \/ \E s \in Requests:
            \/ Over(s) \/ RefreshLoadsUser(s) \/ LoadsTarget(s)
            \/ \E t \in Tokens: Refresh(s, t)
            \/ \E u \in Users: Login(s, u)
            \/ \E a, u \in Users: AdminUserToggle(s, a, u)
            \/ \E a, u \in Users, role \in {"admin", "user"}: AdminUserRole(s, a, u, role)
  BY DEF Next, vars, CreateAdmin, AccessTokenExpires, Logout, LogoutWeb, RefreshTokenExpires, Fails,
         ToggleCommits, RoleCommits, LoginSubmit, LoginIssues, RefreshRotates
<1> QED BY <1>1, <1>2, <1>3, <1>4, <1>5, <1>6, <1>7, <1>8, <1>9

-----------------------------------------------------------------------------
(* The variables keep their types; every token that was issued has a user  *)
(* and a login that it stems from.                                         *)
THEOREM TypeCorrect == Spec => []TypeOK
<1>1. IInv => TypeOK
  BY DEF IInv
<1> QED BY <1>1, Invariant, PTL

(* A login whose tokens are all revoked or expired, and of which no        *)
(* refresh is in progress, has no valid token ever again.                  *)
THEOREM LogoutCorrect == Spec => ClosedForGood
<1>1. ASSUME IInv, [Next]_vars, NEW c \in Tokens, Closed(c) PROVE Closed(c)'
  <2>1. token[c] # Unused /\ Live(c) = {}
        /\ \A r \in Requests: req[r].op = "refresh" => token[req[r].jti].chain # c
    BY <1>1 DEF Closed
  <2>2. ~\E r \in Requests, new \in Tokens: Exchanges(r, new, c)
    BY <2>1 DEF Exchanges, RefreshRotates
  <2>3. token'[c] # Unused /\ Live(c)' = {}
        /\ \A t \in Tokens: token[t].state # "unused" => token'[t].chain = token[t].chain
    BY <1>1, <2>1, <2>2, LiveStep
  <2>4. ASSUME NEW r \in Requests, req'[r].op = "refresh" PROVE token'[req'[r].jti].chain # c
    <3>1. CASE req[r].op = "refresh" /\ req'[r].jti = req[r].jti
      <4>1. req[r].jti \in Tokens /\ token[req[r].jti].state # "unused"
        BY <1>1, <3>1 DEF IInv, ReqOK
      <4> QED BY <2>1, <2>3, <3>1, <4>1
    <3>2. CASE req'[r].jti \in Tokens /\ token[req'[r].jti].state = "valid"
      BY <2>1, <2>3, <3>2 DEF Live
    <3> QED BY <1>1, <2>4, <3>1, <3>2, RefreshStep
  <2> QED BY <2>3, <2>4 DEF Closed
<1>2. IInv /\ [Next]_vars => [\A c \in Tokens: Closed(c) => Closed(c)']_vars
  BY <1>1
<1> QED BY <1>2, Invariant, PTL DEF Spec, ClosedForGood

(* A login gets a second valid token only from a refresh whose token was   *)
(* no longer valid when it was rotated: one that overlapped another.       *)
THEOREM RotationCorrect == Spec => OneTokenPerLogin
<1> DEFINE Grows(c) == token[c] # Unused /\ Cardinality(Live(c)') > Cardinality(Live(c))
           Late == \E r \in Requests: Finishes(r) /\ req[r].op = "refresh" /\ token[req[r].jti].state # "valid"
<1>1. ASSUME IInv, [Next]_vars, NEW c \in Tokens, Grows(c) PROVE Late
  <2>1. /\ IsFiniteSet(Live(c)) /\ Cardinality(Live(c)) \in Nat
        /\ IsFiniteSet(Live(c)') /\ Cardinality(Live(c)') \in Nat
    <3>1. Live(c) \in SUBSET Tokens /\ Live(c)' \in SUBSET Tokens
      BY DEF Live
    <3>2. IsFiniteSet(Live(c)) /\ IsFiniteSet(Live(c)')
      BY <3>1, TokensAssumption, FS_Subset
    <3> QED BY <3>2, FS_CardinalityType
  <2>2. ~(Live(c)' \subseteq Live(c))
    <3> SUFFICES ASSUME Live(c)' \subseteq Live(c) PROVE FALSE
      OBVIOUS
    <3>1. Cardinality(Live(c)') <= Cardinality(Live(c))
      BY <2>1, FS_Subset
    <3> QED BY <1>1, <2>1, <3>1
  <2>3. PICK r \in Requests, new \in Tokens: Exchanges(r, new, c)
    BY <1>1, <2>2, LiveStep
  <2> DEFINE old == req[r].jti
             Rest == Live(c) \ {old}
  <2>4. RefreshRotates(r, new) /\ token[old].chain = c /\ Live(c)' \subseteq Rest \cup {new}
    BY <2>3 DEF Exchanges
  <2>5. old \in Tokens /\ token[new] = Unused
    BY <1>1, <2>4, RotationFacts
  <2>6. token[old].state # "valid"
    <3> SUFFICES ASSUME token[old].state = "valid" PROVE FALSE
      OBVIOUS
    <3>1. old \in Live(c)
      BY <2>4, <2>5 DEF Live
    <3>2. IsFiniteSet(Rest) /\ Cardinality(Rest) = Cardinality(Live(c)) - 1
      BY <2>1, <3>1, FS_RemoveElement
    <3>3. new \notin Rest
      BY <2>5 DEF Live, Unused
    <3> HIDE DEF Rest
    <3>4. IsFiniteSet(Rest \cup {new}) /\ Cardinality(Rest \cup {new}) = Cardinality(Rest) + 1
      BY <3>2, <3>3, FS_AddElement
    <3>5. Cardinality(Live(c)') <= Cardinality(Rest \cup {new})
      BY <2>4, <3>4, FS_Subset
    <3> QED BY <1>1, <2>1, <3>2, <3>4, <3>5
  <2>7. Finishes(r) /\ req[r].op = "refresh"
    <3>1. req[r].op = "refresh" /\ Over(r)
      BY <2>4 DEF RefreshRotates
    <3>2. req'[r] = Idle
      BY <1>1, <3>1, OverFacts DEF IInv
    <3> QED BY <3>1, <3>2, IdleTyped DEF Finishes
  <2> QED BY <2>6, <2>7
<1>2. IInv /\ [Next]_vars => [\A c \in Tokens: Grows(c) => Late]_vars
  BY <1>1
<1> QED BY <1>2, Invariant, PTL DEF Spec, OneTokenPerLogin

(* The pages leave an enabled admin, unless the admin whose request takes  *)
(* the last one away was disabled or demoted while it was in progress.     *)
THEOREM AdminsCorrect == Spec => AdminRemains
<1> DEFINE Lost == Admins # {} /\ Admins' = {}
           Stale == \E r \in Requests: Finishes(r) /\ req[r].op \in {"toggle", "role"} /\ req[r].by \notin Admins
<1>1. ASSUME IInv, [Next]_vars, Lost PROVE Stale
  <2>0. user \in [Users -> UserRow \cup {NoUser}] /\ Admins \subseteq Users
    BY <1>1, Typed DEF IInv, Admins
  <2>1. ~UNCHANGED user
    BY <1>1 DEF Admins, Enabled
  <2>2. ASSUME NEW u \in Users PROVE ~CreateAdmin(u)
    <3> SUFFICES ASSUME CreateAdmin(u) PROVE FALSE
      OBVIOUS
    <3>1. user[u] = NoUser /\ \A v \in Users \ {u}: user'[v] = user[v]
      BY <2>0 DEF CreateAdmin
    <3>2. Admins \subseteq Admins'
      BY <3>1 DEF Admins, Enabled
    <3> QED BY <1>1, <3>2
  <2>3. PICK r \in Requests: ToggleCommits(r) \/ RoleCommits(r)
    BY <1>1, <2>1, <2>2
       DEF Next, vars, AccessTokenExpires, Logout, LogoutWeb, RefreshTokenExpires, Fails, RefreshLoadsUser,
           LoadsTarget, Login, LoginSubmit, LoginIssues, Refresh, RefreshRotates, AdminUserToggle,
           AdminUserRole, Begins
  <2> DEFINE u == req[r].target
             a == req[r].by
  <2>4. /\ req[r].op \in {"toggle", "role"} /\ req[r].at = "loaded" /\ Over(r)
        /\ \A v \in Users \ {u}: user'[v] = user[v]
    BY <2>0, <2>3 DEF ToggleCommits, RoleCommits
  <2>5. u \in Users /\ a \in Users /\ user[u] \in UserRow /\ Permitted(r)
    BY <1>1, <2>4 DEF IInv, ReqOK
  <2>6. Finishes(r)
    BY <1>1, <2>4, OverFacts, IdleTyped DEF IInv, Finishes
  <2>7. a \notin Admins
    <3> SUFFICES ASSUME a \in Admins PROVE FALSE
      OBVIOUS
    <3>1. CASE u # a
      <4>1. a \in Admins'
        BY <2>4, <2>5, <3>1 DEF Admins, Enabled
      <4> QED BY <1>1, <4>1
    <3>2. CASE u = a
      <4>1. req[r].op = "role" /\ req[r].role = "admin"
        BY <2>5, <3>2 DEF Permitted
      <4>2. user'[a] \in UserRow /\ user'[a].role = "admin" /\ user'[a].disabled = user[a].disabled
        <5>1. RoleCommits(r) /\ a = req[r].target
          BY <2>3, <3>2, <4>1 DEF ToggleCommits
        <5>2. user' = [user EXCEPT ![a].role = "admin"]
          BY <2>1, <3>2, <4>1, <5>1 DEF RoleCommits
        <5>3. user'[a] = [user[a] EXCEPT !.role = "admin"]
          BY <2>0, <2>5, <5>2
        <5> QED BY <2>5, <3>2, <5>3 DEF UserRow
      <4>3. a \in Admins'
        BY <2>5, <4>2, NoUserAssumption DEF Admins, Enabled
      <4> QED BY <1>1, <4>3
    <3> QED BY <3>1, <3>2
  <2> QED BY <2>4, <2>6, <2>7
<1>2. IInv /\ [Next]_vars => [Lost => Stale]_vars
  BY <1>1
<1> QED BY <1>2, Invariant, PTL DEF Spec, AdminRemains
=============================================================================
