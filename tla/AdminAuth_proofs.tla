------------------------- MODULE AdminAuth_proofs -------------------------
(* Theorems about AdminAuth, for any number of accounts, sessions, tokens   *)
(* and requests in flight, and any bound on the number of writes.           *)
EXTENDS AdminAuth, TLAPS

-----------------------------------------------------------------------------
(* Type correctness.                                                       *)

\* A revocation of existing sessions keeps the rows well typed and existing.
LEMMA RevokeType ==
    ASSUME TypeOK, NEW S \in SUBSET Sessions, Revoke(S),
           \A s \in S : session[s].state # "none"
    PROVE  /\ token' \in [Tokens -> TokenState]
           /\ session' \in [Sessions -> SessionState]
           /\ \A t \in Tokens : /\ token'[t].state = "none" <=> token[t].state = "none"
                                /\ token'[t].session = token[t].session
           /\ \A s \in Sessions : session'[s].state = "none" <=> session[s].state = "none"
<1>1. /\ session' \in [Sessions -> SessionState]
      /\ \A s \in Sessions : session'[s].state = "none" <=> session[s].state = "none"
    BY DEF TypeOK, Revoke, SessionState
<1>2. /\ token' \in [Tokens -> TokenState]
      /\ \A t \in Tokens : /\ token'[t].state = "none" <=> token[t].state = "none"
                           /\ token'[t].session = token[t].session
    BY DEF TypeOK, Revoke, TokenState, TokensOf
<1> QED  BY <1>1, <1>2

\* What a request in flight names is still there after a revocation.
LEMMA RevokeNamed ==
    ASSUME TypeOK, NEW S \in SUBSET Sessions, Revoke(S),
           \A s \in S : session[s].state # "none",
           \A l \in Logins : login'[l] = login[l] \/ login'[l] = Idle,
           \A r \in Refreshes : refresh'[r] = refresh[r] \/ refresh'[r] = Idle
    PROVE  Named'
<1>1. /\ \A t \in Tokens : /\ token'[t].state = "none" <=> token[t].state = "none"
                           /\ token'[t].session = token[t].session
      /\ \A s \in Sessions : session'[s].state = "none" <=> session[s].state = "none"
    BY RevokeType
<1>2. \A t \in Tokens : token[t].state # "none" => token[t].session \in Sessions
    BY DEF TypeOK, TokenState
<1>3. \A l \in Logins : login[l].pc = "signing" => login[l].session \in Sessions
    BY DEF TypeOK, LoginState, Idle
<1>4. \A r \in Refreshes :
        /\ refresh[r].pc = "read" => refresh[r].token \in Tokens
        /\ refresh[r].pc = "replay" => refresh[r].session \in Sessions
    BY DEF TypeOK, RefreshState, Idle
<1> QED  BY <1>1, <1>2, <1>3, <1>4 DEF TypeOK, Named, Idle

\* The two ways of writing an account keep it well typed.
LEMMA AccountType ==
    ASSUME TypeOK, NEW a \in Admins, Writable(a)
    PROVE  /\ Bump(account[a]) \in AccountState
           /\ NewPassword(account[a]) \in AccountState
<1>1. account[a] \in AccountState
    BY DEF TypeOK
<1>2. account[a].version + 1 \in Versions
    BY <1>1, ConstantsAssumption DEF Writable, AccountState, Versions
<1> QED  BY <1>1, <1>2 DEF Bump, NewPassword, AccountState

LEMMA TypeStep == TypeOK /\ [Next]_vars => TypeOK'
<1> SUFFICES ASSUME TypeOK, [Next]_vars PROVE TypeOK'
    OBVIOUS
<1> USE ConstantsAssumption DEF db
<1>1. ASSUME NEW a \in Admins, Register(a) PROVE TypeOK'
    <2>1. account' \in [Admins -> AccountState]
        BY <1>1 DEF Register, TypeOK, AccountState, Roles, AccountStatus, Versions
    <2> QED  BY <1>1, <2>1 DEF Register, TypeOK, Named
<1>2. ASSUME NEW l \in Logins, NEW a \in Admins, LoginVerify(l, a) PROVE TypeOK'
    <2>1. account[a].pwd \in Versions
        BY DEF TypeOK, AccountState
    <2>2. login' \in [Logins -> LoginState]
        BY <1>2, <2>1 DEF LoginVerify, TypeOK, LoginState
    <2> QED  BY <1>2, <2>2 DEF LoginVerify, TypeOK, Named
<1>3. ASSUME NEW l \in Logins, NEW s \in Sessions, NEW t \in Tokens, LoginCommit(l, s, t)
      PROVE  TypeOK'
    <2>1. login[l].admin \in Admins /\ login[l].pwd \in Versions
        BY <1>3 DEF LoginCommit, TypeOK, LoginState, Idle
    <2>2. account' \in [Admins -> AccountState]
        BY <1>3, <2>1, AccountType DEF LoginCommit, TypeOK
    <2>3. account[login[l].admin].role \in Roles
        BY <1>3, <2>1 DEF LoginCommit, LoginAllowed, StillVerified, Active, Exists,
                          TypeOK, AccountState
    <2>4. session' \in [Sessions -> SessionState]
        BY <1>3, <2>1, <2>3 DEF LoginCommit, TypeOK, SessionState
    <2>5. token' \in [Tokens -> TokenState]
        BY <1>3 DEF LoginCommit, TypeOK, TokenState
    <2>6. login' \in [Logins -> LoginState]
        BY <1>3 DEF LoginCommit, TypeOK, LoginState
    <2>7. Named'
        BY <1>3 DEF LoginCommit, TypeOK, Named, LoginState, RefreshState, TokenState, Idle
    <2> QED  BY <1>3, <2>2, <2>4, <2>5, <2>6, <2>7 DEF LoginCommit, TypeOK
<1>4. ASSUME NEW l \in Logins, LoginSignFails(l) PROVE TypeOK'
    <2>1. login[l].session \in Sessions /\ session[login[l].session].state # "none"
        BY <1>4 DEF LoginSignFails, TypeOK, LoginState, Idle, Named
    <2>2. login' \in [Logins -> LoginState]
        BY <1>4 DEF LoginSignFails, TypeOK, LoginState
    <2>3. Named'
        BY <1>4, <2>1, RevokeNamed DEF LoginSignFails, TypeOK
    <2> QED  BY <1>4, <2>1, <2>2, <2>3, RevokeType DEF LoginSignFails, TypeOK
<1>5. ASSUME NEW l \in Logins, LoginEnds(l) PROVE TypeOK'
    BY <1>5 DEF LoginEnds, TypeOK, LoginState, Named, Idle
<1>6. ASSUME NEW r \in Refreshes, NEW t \in Tokens, RefreshRead(r, t) PROVE TypeOK'
    <2>1. token[t].session \in Sessions /\ session[token[t].session].state # "none"
        BY <1>6 DEF RefreshRead, TypeOK, TokenState, Named
    <2>2. refresh' \in [Refreshes -> RefreshState]
        BY <1>6, <2>1 DEF RefreshRead, TypeOK, RefreshState
    <2>3. Named'
        BY <1>6, <2>1 DEF RefreshRead, TypeOK, Named, RefreshState, Idle
    <2> QED  BY <1>6, <2>2, <2>3 DEF RefreshRead, TypeOK
<1>7. ASSUME NEW r \in Refreshes, NEW t \in Tokens, RefreshRotate(r, t) PROVE TypeOK'
    <2> DEFINE old == refresh[r].token
               s == token[old].session
    <2>1. old \in Tokens /\ token[old].state = "live"
        BY <1>7 DEF RefreshRotate, TypeOK, RefreshState, Idle
    <2>2. s \in Sessions /\ session[s].state # "none"
        BY <2>1 DEF TypeOK, TokenState, Named
    <2>3. refresh' \in [Refreshes -> RefreshState]
        BY <1>7 DEF RefreshRotate, TypeOK, RefreshState
    <2>4. CASE Authorized(s)
        <3>1. token' = [token EXCEPT
                  ![old] = [@ EXCEPT !.state = "revoked"],
                  ![t] = [state |-> "live", session |-> s, parent |-> old]]
              /\ session' = session
            BY <1>7, <2>4 DEF RefreshRotate
        <3>2. [token[old] EXCEPT !.state = "revoked"] \in TokenState
            BY <2>1 DEF TypeOK, TokenState
        <3>3. [state |-> "live", session |-> s, parent |-> old] \in TokenState
            BY <2>1, <2>2 DEF TokenState
        <3>4. token' \in [Tokens -> TokenState]
            BY <3>1, <3>2, <3>3 DEF TypeOK
        <3>5. Named'
            BY <1>7, <2>1, <2>2, <3>1 DEF RefreshRotate, TypeOK, Named, RefreshState, LoginState, TokenState, Idle
        <3> QED  BY <1>7, <2>3, <3>1, <3>4, <3>5 DEF RefreshRotate, TypeOK
    <2>5. CASE ~Authorized(s)
        <3>1. Revoke({s})
            BY <1>7, <2>5 DEF RefreshRotate
        <3>2. Named'
            BY <1>7, <2>2, <3>1, RevokeNamed DEF RefreshRotate, TypeOK
        <3> QED  BY <1>7, <2>2, <2>3, <3>1, <3>2, RevokeType DEF RefreshRotate, TypeOK
    <2> QED  BY <2>4, <2>5
<1>8. ASSUME NEW r \in Refreshes, RefreshClaimLost(r) PROVE TypeOK'
    <2>1. refresh[r].token \in Tokens
        BY <1>8 DEF RefreshClaimLost, TypeOK, RefreshState, Idle
    <2>2. /\ token[refresh[r].token].session \in Sessions
          /\ session[token[refresh[r].token].session].state # "none"
        BY <1>8, <2>1 DEF RefreshClaimLost, TypeOK, TokenState, Named
    <2>3. refresh' \in [Refreshes -> RefreshState]
        BY <1>8, <2>2 DEF RefreshClaimLost, TypeOK, RefreshState
    <2>4. Named'
        BY <1>8, <2>2 DEF RefreshClaimLost, TypeOK, Named, RefreshState, Idle
    <2> QED  BY <1>8, <2>3, <2>4 DEF RefreshClaimLost, TypeOK
<1>9. ASSUME NEW r \in Refreshes, RevokeSessionForRefreshReplay(r) PROVE TypeOK'
    <2>1. refresh[r].session \in Sessions /\ session[refresh[r].session].state # "none"
        BY <1>9 DEF RevokeSessionForRefreshReplay, TypeOK, RefreshState, Idle, Named
    <2>2. refresh' \in [Refreshes -> RefreshState]
        BY <1>9 DEF RevokeSessionForRefreshReplay, TypeOK, RefreshState
    <2>3. Named'
        BY <1>9, <2>1, RevokeNamed DEF RevokeSessionForRefreshReplay, TypeOK
    <2> QED  BY <1>9, <2>1, <2>2, <2>3, RevokeType DEF RevokeSessionForRefreshReplay, TypeOK
<1>10. ASSUME NEW r \in Refreshes, RefreshEnds(r) PROVE TypeOK'
    BY <1>10 DEF RefreshEnds, TypeOK, RefreshState, Named, Idle
<1>11. ASSUME NEW s \in Sessions, Logout(s) \/ RevokeOwnSession(s) PROVE TypeOK'
    <2>1. Named'
        BY <1>11, RevokeNamed DEF Logout, RevokeOwnSession, TypeOK
    <2> QED  BY <1>11, <2>1, RevokeType DEF Logout, RevokeOwnSession, TypeOK
<1>12. ASSUME NEW c \in PasswordChanges, NEW s \in Sessions, ChangeVerify(c, s) PROVE TypeOK'
    <2>1. session[s].admin \in Admins
        BY <1>12 DEF ChangeVerify, Authorized, Live, TypeOK, SessionState
    <2>2. account[session[s].admin].pwd \in Versions
        BY <2>1 DEF TypeOK, AccountState
    <2>3. change' \in [PasswordChanges -> ChangeState]
        BY <1>12, <2>1, <2>2 DEF ChangeVerify, TypeOK, ChangeState
    <2> QED  BY <1>12, <2>3 DEF ChangeVerify, TypeOK, Named
<1>13. ASSUME NEW c \in PasswordChanges, ChangeCommit(c) PROVE TypeOK'
    <2>1. change[c].admin \in Admins
        BY <1>13 DEF ChangeCommit, TypeOK, ChangeState, Idle
    <2>2. account' \in [Admins -> AccountState]
        BY <1>13, <2>1, AccountType DEF ChangeCommit, TypeOK
    <2>3. change' \in [PasswordChanges -> ChangeState]
        BY <1>13 DEF ChangeCommit, TypeOK, ChangeState
    <2>4. Revoke(SessionsOf(change[c].admin))
        BY <1>13 DEF ChangeCommit
    <2>5. \A s \in SessionsOf(change[c].admin) : s \in Sessions /\ session[s].state # "none"
        BY DEF SessionsOf
    <2>6. Named'
        BY <1>13, <2>4, <2>5, RevokeNamed DEF ChangeCommit
    <2>7. token' \in [Tokens -> TokenState] /\ session' \in [Sessions -> SessionState]
        BY <2>4, <2>5, RevokeType
    <2> QED  BY <1>13, <2>2, <2>3, <2>6, <2>7 DEF ChangeCommit, TypeOK
<1>14. ASSUME NEW c \in PasswordChanges, ChangeEnds(c) PROVE TypeOK'
    BY <1>14 DEF ChangeEnds, TypeOK, ChangeState, Named, Idle
<1>15. ASSUME NEW o \in OwnerRequests, OwnerNext(o) PROVE TypeOK'
    <2>1. ASSUME NEW s \in Sessions, NEW a \in Admins, OwnerVerify(o, s, a) PROVE TypeOK'
        <3>1. session[s].admin \in Admins
            BY <2>1 DEF OwnerVerify, Authorized, Live, TypeOK, SessionState
        <3>2. account[session[s].admin].pwd \in Versions /\ account[a] \in AccountState
            BY <3>1 DEF TypeOK, AccountState
        <3>3. owner' \in [OwnerRequests -> OwnerState]
            BY <2>1, <3>1, <3>2 DEF OwnerVerify, TypeOK, OwnerState
        <3> QED  BY <2>1, <3>3 DEF OwnerVerify, TypeOK, Named
    <2>2. ASSUME NEW role \in ManagedRoles, CreateAccount(o, role) PROVE TypeOK'
        <3>1. account' \in [Admins -> AccountState]
            <4>1. [role |-> role, status |-> "ACTIVE", deleted |-> FALSE,
                   pwd |-> 1, version |-> 1] \in AccountState
                BY DEF AccountState, Roles, ManagedRoles, AccountStatus, Versions
            <4> QED  BY <2>2, <4>1 DEF CreateAccount, TypeOK
        <3>2. owner' \in [OwnerRequests -> OwnerState]
            BY <2>2 DEF CreateAccount, Answered, TypeOK, OwnerState
        <3> QED  BY <2>2, <3>1, <3>2 DEF CreateAccount, Answered, TypeOK, Named
    <2>3. ASSUME owner[o].pc = "verified", Answered(o), account' \in [Admins -> AccountState],
                 \/ UNCHANGED <<session, token>>
                 \/ Revoke(SessionsOf(owner[o].target))
          PROVE  TypeOK'
        <3>1. owner' \in [OwnerRequests -> OwnerState]
            BY <2>3 DEF Answered, TypeOK, OwnerState
        <3>2. CASE UNCHANGED <<session, token>>
            BY <2>3, <3>1, <3>2 DEF Answered, TypeOK, Named
        <3>3. CASE Revoke(SessionsOf(owner[o].target))
            <4>1. \A s \in SessionsOf(owner[o].target) :
                    s \in Sessions /\ session[s].state # "none"
                BY DEF SessionsOf
            <4>2. Named'
                BY <2>3, <3>3, <4>1, RevokeNamed DEF Answered
            <4>3. token' \in [Tokens -> TokenState] /\ session' \in [Sessions -> SessionState]
                BY <3>3, <4>1, RevokeType
            <4> QED  BY <2>3, <3>1, <4>2, <4>3 DEF Answered, TypeOK
        <3> QED  BY <2>3, <3>2, <3>3
    <2>4. ASSUME MayMutate(o)
          PROVE  /\ owner[o].pc = "verified"
                 /\ owner[o].target \in Admins
                 /\ account[owner[o].target] \in AccountState
                 /\ Bump(account[owner[o].target]) \in AccountState
                 /\ NewPassword(account[owner[o].target]) \in AccountState
        <3>1. owner[o].pc = "verified" /\ owner[o].target \in Admins
            BY <2>4 DEF MayMutate, RecheckOwner, TypeOK, OwnerState, Idle
        <3> QED  BY <2>4, <3>1, AccountType DEF MayMutate, TypeOK
    <2>5. ASSUME NEW role \in ManagedRoles, ChangeRole(o, role) PROVE TypeOK'
        <3>1. account' \in [Admins -> AccountState]
            BY <2>4, <2>5 DEF ChangeRole, TypeOK, AccountState, Roles, ManagedRoles
        <3> QED  BY <2>3, <2>4, <2>5, <3>1 DEF ChangeRole
    <2>6. ASSUME DisableAccount(o) PROVE TypeOK'
        <3>1. account' \in [Admins -> AccountState]
            BY <2>4, <2>6 DEF DisableAccount, TypeOK, AccountState, AccountStatus
        <3> QED  BY <2>3, <2>4, <2>6, <3>1 DEF DisableAccount
    <2>7. ASSUME EnableAccount(o) PROVE TypeOK'
        <3>1. account' \in [Admins -> AccountState]
            BY <2>4, <2>7 DEF EnableAccount, TypeOK, AccountState, AccountStatus
        <3> QED  BY <2>3, <2>4, <2>7, <3>1 DEF EnableAccount
    <2>8. ASSUME RevokeAccountSessions(o) PROVE TypeOK'
        BY <2>3, <2>8 DEF RevokeAccountSessions, RecheckOwner, TypeOK
    <2>9. ASSUME ResetPassword(o) PROVE TypeOK'
        <3>1. account' \in [Admins -> AccountState]
            BY <2>4, <2>9 DEF ResetPassword, TypeOK
        <3> QED  BY <2>3, <2>4, <2>9, <3>1 DEF ResetPassword
    <2>10. ASSUME DeleteAccount(o) PROVE TypeOK'
        <3>1. account' \in [Admins -> AccountState]
            BY <2>4, <2>10 DEF DeleteAccount, TypeOK, AccountState
        <3> QED  BY <2>3, <2>4, <2>10, <3>1 DEF DeleteAccount
    <2>11. ASSUME OwnerEnds(o) PROVE TypeOK'
        BY <2>11 DEF OwnerEnds, Answered, TypeOK, OwnerState, Named
    <2> QED  BY <1>15, <2>1, <2>2, <2>5, <2>6, <2>7, <2>8, <2>9, <2>10, <2>11 DEF OwnerNext
<1>16. ASSUME UNCHANGED vars PROVE TypeOK'
    BY <1>16 DEF vars, TypeOK, Named
<1> QED
    BY <1>1, <1>2, <1>3, <1>4, <1>5, <1>6, <1>7, <1>8, <1>9, <1>10, <1>11,
       <1>12, <1>13, <1>14, <1>15, <1>16 DEF Next, LoginNext, RefreshNext, ChangeNext

LEMMA TypeInit == Init => TypeOK
BY ConstantsAssumption DEF Init, TypeOK, Named, NoAccount, AccountState, SessionState,
   TokenState, LoginState, RefreshState, ChangeState, OwnerState, Idle, Roles,
   AccountStatus, Versions

\* Every row and every request in flight keeps its type, and names existing rows.
THEOREM TypeCorrect == Spec => []TypeOK
BY TypeInit, TypeStep, PTL DEF Spec

-----------------------------------------------------------------------------
(* Sessions and tokens.                                                    *)

TokensSafe == LiveTokenIsBacked /\ TokensFormAChain

\* What a revocation leaves live was live, unchanged and not revoked.
LEMMA RevokeLeaves ==
    ASSUME TypeOK, NEW S \in SUBSET Sessions, Revoke(S)
    PROVE  /\ \A s \in Sessions : session'[s].state = "live" =>
                  s \notin S /\ session'[s] = session[s]
           /\ \A t \in Tokens : token'[t].state = "live" =>
                  token[t].session \notin S /\ token'[t] = token[t]
           /\ \A s \in Sessions : s \notin S => session'[s] = session[s]
           /\ \A t \in Tokens : /\ token'[t].session = token[t].session
                                /\ token'[t].parent = token[t].parent
                                /\ token'[t].state = "none" <=> token[t].state = "none"
                                /\ token[t].state = "revoked" => token'[t].state = "revoked"
<1>1. /\ \A s \in Sessions : session'[s].state = "live" =>
             s \notin S /\ session'[s] = session[s]
      /\ \A s \in Sessions : s \notin S => session'[s] = session[s]
    BY DEF TypeOK, Revoke, SessionState
<1>2. \A t \in Tokens : token[t] \in TokenState
    BY DEF TypeOK
<1>3. ASSUME NEW t \in Tokens
      PROVE  /\ token'[t].state = "live" =>
                    token[t].session \notin S /\ token'[t] = token[t]
             /\ token'[t].session = token[t].session
             /\ token'[t].parent = token[t].parent
             /\ token'[t].state = "none" <=> token[t].state = "none"
             /\ token[t].state = "revoked" => token'[t].state = "revoked"
    <2>1. CASE t \in TokensOf(S)
        <3>1. token'[t] = [token[t] EXCEPT !.state = "revoked"]
            BY <2>1 DEF Revoke
        <3>2. token[t].state \in {"live", "revoked"}
            BY <1>2, <2>1 DEF TokensOf, TokenState
        <3> QED  BY <1>2, <3>1, <3>2 DEF TokenState
    <2>2. CASE t \notin TokensOf(S)
        <3>1. token'[t] = token[t]
            BY <2>2 DEF Revoke
        <3> QED  BY <2>2, <3>1 DEF TokensOf
    <2> QED  BY <2>1, <2>2
<1> QED  BY <1>1, <1>3

LEMMA RevokeKeepsTokens ==
    ASSUME TypeOK, TokensSafe, NEW S \in SUBSET Sessions, Revoke(S)
    PROVE  TokensSafe'
<1>1. \A t \in Tokens : token[t].state = "live" => token[t].session \in Sessions
    BY DEF TypeOK, TokenState
<1>2. \A t \in Tokens : token[t].state # "none" => token[t].parent \in Tokens \cup {None}
    BY DEF TypeOK, TokenState
<1>3. LiveTokenIsBacked'
    BY <1>1, RevokeLeaves DEF TokensSafe, LiveTokenIsBacked, Live
<1>4. TokensFormAChain'
    BY <1>2, RevokeLeaves DEF TokensSafe, TokensFormAChain
<1> QED  BY <1>3, <1>4 DEF TokensSafe

\* The two fields of an account a session depends on, and what keeps it active.
Same(a) ==
    /\ account'[a].role = account[a].role
    /\ account'[a].pwd = account[a].pwd
    /\ account'[a].status = account[a].status
    /\ account'[a].deleted = account[a].deleted

LEMMA RevokeKeepsSessions ==
    ASSUME TypeOK, LiveSessionIsCurrent, NEW S \in SUBSET Sessions, Revoke(S),
           \A s \in Sessions \ S : Live(s) => Same(session[s].admin)
    PROVE  LiveSessionIsCurrent'
BY RevokeLeaves DEF LiveSessionIsCurrent, Live, Active, Exists, Same

LEMMA UnchangedKeepsSessions ==
    ASSUME LiveSessionIsCurrent, TokensSafe, UNCHANGED <<session, token>>,
           \A s \in Sessions : Live(s) => Same(session[s].admin)
    PROVE  LiveSessionIsCurrent' /\ TokensSafe'
<1>1. LiveSessionIsCurrent'
    BY DEF LiveSessionIsCurrent, Live, Active, Exists, Same
<1>2. TokensSafe'
    BY DEF TokensSafe, LiveTokenIsBacked, TokensFormAChain, Live
<1> QED  BY <1>1, <1>2

LEMMA SafetyStep ==
    TypeOK /\ LiveSessionIsCurrent /\ TokensSafe /\ [Next]_vars
        => LiveSessionIsCurrent' /\ TokensSafe'
<1> SUFFICES ASSUME TypeOK, LiveSessionIsCurrent, TokensSafe, [Next]_vars
             PROVE  LiveSessionIsCurrent' /\ TokensSafe'
    OBVIOUS
<1> DEFINE Goal == LiveSessionIsCurrent' /\ TokensSafe'
<1> USE ConstantsAssumption
<1>0. ASSUME UNCHANGED db PROVE Goal
    BY <1>0, UnchangedKeepsSessions DEF db, Same
<1>1. ASSUME NEW a \in Admins, Register(a) PROVE Goal
    <2>1. \A s \in Sessions : ~Live(s)
        BY <1>1 DEF Register, LiveSessionIsCurrent, Active, TypeOK, SessionState, Live
    <2> QED  BY <1>1, <2>1, UnchangedKeepsSessions DEF Register
<1>2. ASSUME NEW l \in Logins, NEW s \in Sessions, NEW t \in Tokens, LoginCommit(l, s, t)
      PROVE  Goal
    <2> DEFINE a == login[l].admin
    <2>1. /\ a \in Admins
          /\ Active(a) /\ account[a].pwd = login[l].pwd
          /\ session[s].state = "none" /\ token[t].state = "none"
        BY <1>2 DEF LoginCommit, LoginAllowed, StillVerified, TypeOK, LoginState, Idle
    <2>2. /\ account' = [account EXCEPT ![a] = Bump(@)]
          /\ session' = [session EXCEPT ![s] =
                 [state |-> "live", admin |-> a, pwd |-> login[l].pwd,
                  role |-> account[a].role]]
          /\ token' = [token EXCEPT ![t] =
                 [state |-> "live", session |-> s, parent |-> None]]
        BY <1>2 DEF LoginCommit
    <2>3. \A b \in Admins : Same(b)
        BY <2>1, <2>2 DEF Same, Bump, TypeOK, AccountState
    <2>4. LiveSessionIsCurrent'
        <3>1. \A u \in Sessions : Live(u) => session[u].admin \in Admins
            BY DEF TypeOK, SessionState, Live
        <3> QED  BY <2>1, <2>2, <2>3, <3>1
                 DEF LiveSessionIsCurrent, Live, Active, Exists, Same, TypeOK
    <2>5. LiveTokenIsBacked'
        <3>1. \A u \in Tokens : token[u].state = "live" =>
                  token[u].session \in Sessions /\ token[u].session # s
            BY <2>1 DEF TokensSafe, LiveTokenIsBacked, Live, TypeOK, TokenState
        <3> QED  BY <2>1, <2>2, <3>1 DEF TokensSafe, LiveTokenIsBacked, Live, TypeOK
    <2>6. TokensFormAChain'
        <3>1. \A u \in Tokens : token[u].state # "none" => token[u].parent \in Tokens \cup {None}
            BY DEF TypeOK, TokenState
        <3>2. \A u \in Tokens : token[u].state # "none" => token[u].parent # t
            BY <2>1, <3>1 DEF TokensSafe, TokensFormAChain
        <3> QED  BY <2>1, <2>2, <3>1, <3>2 DEF TokensSafe, TokensFormAChain, TypeOK
    <2> QED  BY <2>4, <2>5, <2>6 DEF TokensSafe
<1>3. ASSUME NEW S \in SUBSET Sessions, Revoke(S), UNCHANGED account PROVE Goal
    BY <1>3, RevokeKeepsTokens, RevokeKeepsSessions DEF Same
<1>4. ASSUME NEW r \in Refreshes, NEW t \in Tokens, RefreshRotate(r, t) PROVE Goal
    <2> DEFINE old == refresh[r].token
               s == token[old].session
    <2>1. old \in Tokens /\ token[old].state = "live"
        BY <1>4 DEF RefreshRotate, TypeOK, RefreshState, Idle
    <2>2. s \in Sessions
        BY <2>1 DEF TypeOK, TokenState
    <2>3. CASE Authorized(s)
        <3>1. /\ token' = [token EXCEPT
                     ![old] = [@ EXCEPT !.state = "revoked"],
                     ![t] = [state |-> "live", session |-> s, parent |-> old]]
              /\ token[t].state = "none"
              /\ UNCHANGED <<session, account>>
            BY <1>4, <2>3 DEF RefreshRotate
        <3>2. /\ token'[old].state = "revoked"
              /\ token'[old].session = s
              /\ token'[old].parent = token[old].parent
              /\ token'[t] = [state |-> "live", session |-> s, parent |-> old]
              /\ t # old
              /\ \A u \in Tokens \ {old, t} : token'[u] = token[u]
            BY <2>1, <3>1 DEF TypeOK, TokenState
        <3>3. LiveSessionIsCurrent'
            BY <3>1 DEF LiveSessionIsCurrent, Live, Active, Exists
        <3>4. LiveTokenIsBacked'
            <4>1. \A u \in Tokens \ {old} :
                      token[u].state = "live" => token[u].session # s
                BY <2>1 DEF TokensSafe, LiveTokenIsBacked
            <4>2. \A u \in Tokens \ {t} : token'[u].state = "live" =>
                      u # old /\ token'[u] = token[u]
                BY <3>2
            <4>3. Live(s) /\ UNCHANGED session
                BY <2>3, <3>1 DEF Authorized
            <4>4. ASSUME NEW u \in Tokens, token'[u].state = "live"
                  PROVE  session'[token'[u].session].state = "live"
                BY <3>2, <4>2, <4>3, <4>4 DEF TokensSafe, LiveTokenIsBacked, Live
            <4>5. ASSUME NEW u \in Tokens, token'[u].state = "live",
                         NEW w \in Tokens \ {u}, token'[w].state = "live"
                  PROVE  token'[w].session # token'[u].session
                BY <3>2, <4>1, <4>2, <4>5 DEF TokensSafe, LiveTokenIsBacked
            <4> QED  BY <4>4, <4>5 DEF LiveTokenIsBacked, Live
        <3>5. \A u \in Tokens : token[u].state # "none" =>
                  /\ token[u].parent \in Tokens \cup {None}
                  /\ token[u].parent # t
                  /\ token[u].parent # old
            <4>1. \A u \in Tokens : token[u].state # "none" => token[u].parent \in Tokens \cup {None}
                BY DEF TypeOK, TokenState
            <4> QED  BY <2>1, <3>1, <4>1 DEF TokensSafe, TokensFormAChain
        <3>6. TokensFormAChain'
            BY <2>1, <3>2, <3>5 DEF TokensSafe, TokensFormAChain
        <3> QED  BY <3>3, <3>4, <3>6 DEF TokensSafe
    <2>4. CASE ~Authorized(s)
        BY <1>3, <1>4, <2>2, <2>4 DEF RefreshRotate
    <2> QED  BY <2>3, <2>4
<1>5. ASSUME NEW c \in PasswordChanges, ChangeCommit(c) PROVE Goal
    <2> DEFINE a == change[c].admin
    <2>1. Revoke(SessionsOf(a)) /\ SessionsOf(a) \in SUBSET Sessions
        BY <1>5 DEF ChangeCommit, SessionsOf
    <2>2. account' = [account EXCEPT ![a] = NewPassword(@)]
        BY <1>5 DEF ChangeCommit
    <2>3. \A s \in Sessions \ SessionsOf(a) : Live(s) => Same(session[s].admin)
        BY <2>2 DEF SessionsOf, Live, Same, TypeOK
    <2> QED  BY <2>1, <2>3, RevokeKeepsTokens, RevokeKeepsSessions
<1>6. ASSUME NEW o \in OwnerRequests, OwnerNext(o) PROVE Goal
    <2> DEFINE a == owner[o].target
    <2>1. ASSUME Revoke(SessionsOf(a)),
                 \E row : account' = [account EXCEPT ![a] = row]
          PROVE  Goal
        <3>1. \A s \in Sessions \ SessionsOf(a) : Live(s) => Same(session[s].admin)
            BY <2>1 DEF SessionsOf, Live, Same, TypeOK
        <3>2. SessionsOf(a) \in SUBSET Sessions
            BY DEF SessionsOf
        <3> QED  BY <2>1, <3>1, <3>2, RevokeKeepsTokens, RevokeKeepsSessions
    <2>2. ASSUME ~Active(a), UNCHANGED <<session, token>>,
                 \E row : account' = [account EXCEPT ![a] = row]
          PROVE  Goal
        <3>1. \A s \in Sessions : Live(s) => Same(session[s].admin)
            BY <2>2 DEF LiveSessionIsCurrent, Same, TypeOK
        <3> QED  BY <2>2, <3>1, UnchangedKeepsSessions
    <2>3. ASSUME NEW role \in ManagedRoles, CreateAccount(o, role) PROVE Goal
        BY <2>2, <2>3 DEF CreateAccount, Active
    <2>4. ASSUME NEW role \in ManagedRoles, ChangeRole(o, role) PROVE Goal
        BY <2>1, <2>4 DEF ChangeRole
    <2>5. ASSUME DisableAccount(o) PROVE Goal
        BY <2>1, <2>5 DEF DisableAccount
    <2>6. ASSUME EnableAccount(o) PROVE Goal
        BY <2>2, <2>6 DEF EnableAccount, Active
    <2>7. ASSUME RevokeAccountSessions(o) PROVE Goal
        BY <1>3, <2>7 DEF RevokeAccountSessions, SessionsOf
    <2>8. ASSUME ResetPassword(o) PROVE Goal
        BY <2>1, <2>8 DEF ResetPassword
    <2>9. ASSUME DeleteAccount(o) PROVE Goal
        BY <2>1, <2>9 DEF DeleteAccount
    <2>10. ASSUME NEW s \in Sessions, NEW b \in Admins, OwnerVerify(o, s, b) PROVE Goal
        BY <1>0, <2>10 DEF OwnerVerify
    <2>11. ASSUME OwnerEnds(o) PROVE Goal
        BY <1>0, <2>11 DEF OwnerEnds
    <2> QED  BY <1>6, <2>3, <2>4, <2>5, <2>6, <2>7, <2>8, <2>9, <2>10, <2>11 DEF OwnerNext
<1>7. ASSUME NEW l \in Logins, LoginSignFails(l) PROVE Goal
    <2>1. {login[l].session} \in SUBSET Sessions
        BY <1>7 DEF LoginSignFails, TypeOK, LoginState, Idle
    <2> QED  BY <1>3, <1>7, <2>1 DEF LoginSignFails
<1>8. ASSUME NEW r \in Refreshes, RevokeSessionForRefreshReplay(r) PROVE Goal
    <2>1. {refresh[r].session} \in SUBSET Sessions
        BY <1>8 DEF RevokeSessionForRefreshReplay, TypeOK, RefreshState, Idle
    <2> QED  BY <1>3, <1>8, <2>1 DEF RevokeSessionForRefreshReplay
<1>9. ASSUME NEW s \in Sessions, Logout(s) \/ RevokeOwnSession(s) PROVE Goal
    BY <1>3, <1>9 DEF Logout, RevokeOwnSession
<1>10. ASSUME NEW l \in Logins, NEW a \in Admins, LoginVerify(l, a) PROVE Goal
    BY <1>0, <1>10 DEF LoginVerify
<1>11. ASSUME NEW l \in Logins, LoginEnds(l) PROVE Goal
    BY <1>0, <1>11 DEF LoginEnds
<1>12. ASSUME NEW r \in Refreshes, NEW t \in Tokens, RefreshRead(r, t) PROVE Goal
    BY <1>0, <1>12 DEF RefreshRead
<1>13. ASSUME NEW r \in Refreshes, RefreshClaimLost(r) \/ RefreshEnds(r) PROVE Goal
    BY <1>0, <1>13 DEF RefreshClaimLost, RefreshEnds
<1>14. ASSUME NEW c \in PasswordChanges, NEW s \in Sessions, ChangeVerify(c, s) PROVE Goal
    BY <1>0, <1>14 DEF ChangeVerify
<1>15. ASSUME NEW c \in PasswordChanges, ChangeEnds(c) PROVE Goal
    BY <1>0, <1>15 DEF ChangeEnds
<1>16. ASSUME UNCHANGED vars PROVE Goal
    BY <1>0, <1>16 DEF vars, db
<1> QED
    BY <1>1, <1>2, <1>4, <1>5, <1>6, <1>7, <1>8, <1>9, <1>10, <1>11, <1>12,
       <1>13, <1>14, <1>15, <1>16 DEF Next, LoginNext, RefreshNext, ChangeNext

LEMMA SafetyInit == Init => LiveSessionIsCurrent /\ TokensSafe
BY DEF Init, LiveSessionIsCurrent, TokensSafe, LiveTokenIsBacked, TokensFormAChain, Live

LEMMA SafetyHolds == Spec => [](LiveSessionIsCurrent /\ TokensSafe)
<1>1. Init => TypeOK /\ LiveSessionIsCurrent /\ TokensSafe
    BY TypeInit, SafetyInit
<1>2. TypeOK /\ LiveSessionIsCurrent /\ TokensSafe /\ [Next]_vars
        => (TypeOK /\ LiveSessionIsCurrent /\ TokensSafe)'
    BY TypeStep, SafetyStep
<1> QED  BY <1>1, <1>2, PTL DEF Spec

\* Whatever was in flight when a password, a role or an account was withdrawn, no
\* session opened before stays live, and none is opened on the old authority.
THEOREM SessionsAreCurrent == Spec => []LiveSessionIsCurrent
BY SafetyHolds, PTL

\* A live refresh token belongs to a live session and is its only one, in whatever order
\* a rotation, the detection of a replay and the revocation that follows it are committed.
THEOREM LiveTokensAreBacked == Spec => []LiveTokenIsBacked
<1>1. TokensSafe => LiveTokenIsBacked
    BY DEF TokensSafe
<1> QED  BY <1>1, SafetyHolds, PTL

\* Of any number of requests presenting a token at most one exchanges it.
THEOREM TokensAreSingleUse == Spec => []TokensFormAChain
<1>1. TokensSafe => TokensFormAChain
    BY DEF TokensSafe
<1> QED  BY <1>1, SafetyHolds, PTL

-----------------------------------------------------------------------------
(* Accounts: the owner, and edits on what was seen.                        *)

\* A row that does not exist yet is blank; what an owner's request has seen is the
\* row as it is, unless the row was written since.
Seen ==
    /\ \A a \in Admins : ~Exists(a) => account[a] = NoAccount
    /\ \A o \in OwnerRequests : owner[o].pc = "verified" =>
        /\ owner[o].seen.version <= account[owner[o].target].version
        /\ owner[o].seen.version = account[owner[o].target].version =>
               owner[o].seen = account[owner[o].target]

\* Every write of an account adds one to its version, and none touches the role
\* or the ability to act of the owner.
Written(a) ==
    /\ Exists(a) /\ ~account[a].deleted
    /\ account'[a].version = account[a].version + 1
    /\ account'[a].role # "NONE"
    /\ account[a].role = "OWNER" <=> account'[a].role = "OWNER"
    /\ account[a].role = "OWNER" =>
           account'[a].status = account[a].status /\ account'[a].deleted = account[a].deleted

Created(a) ==
    /\ ~Exists(a)
    /\ account'[a].version = 1
    /\ account'[a].role \in ManagedRoles

LEMMA Writes ==
    ASSUME TypeOK, NEW a \in Admins, NEW o \in OwnerRequests, a = owner[o].target,
           MayMutate(o)
    PROVE  /\ Exists(a) /\ ~account[a].deleted /\ account[a].role # "OWNER"
           /\ account[a] \in AccountState
           /\ Bump(account[a]).version = account[a].version + 1
           /\ Bump(account[a]).role = account[a].role
           /\ NewPassword(account[a]).version = account[a].version + 1
           /\ NewPassword(account[a]).role = account[a].role
BY DEF MayMutate, Mutable, TypeOK, AccountState, Bump, NewPassword, Exists

\* What an owner's request may do to its target, and that it touches no other.
LEMMA OwnerSteps ==
    ASSUME TypeOK, NEW o \in OwnerRequests, OwnerNext(o)
    PROVE  \A a \in Admins :
             \/ account'[a] = account[a]
             \/ /\ owner[o].pc = "verified" /\ a = owner[o].target
                /\ Written(a) /\ MayMutate(o)
             \/ /\ owner[o].pc = "verified" /\ a = owner[o].target
                /\ Created(a) /\ \E b \in Admins : Exists(b)
<1> SUFFICES ASSUME NEW a \in Admins, account'[a] # account[a]
             PROVE  /\ owner[o].pc = "verified" /\ a = owner[o].target
                    /\ \/ Written(a) /\ MayMutate(o)
                       \/ Created(a) /\ \E b \in Admins : Exists(b)
    OBVIOUS
<1>1. ASSUME NEW role \in ManagedRoles, CreateAccount(o, role)
      PROVE  /\ owner[o].pc = "verified" /\ a = owner[o].target
             /\ Created(a) /\ \E b \in Admins : Exists(b)
    <2>1. owner[o].pc = "verified" /\ a = owner[o].target /\ Created(a)
        BY <1>1 DEF CreateAccount, RecheckOwner, Created, TypeOK
    <2>2. owner[o].actor \in Admins /\ Exists(owner[o].actor)
        BY <1>1, <2>1 DEF CreateAccount, RecheckOwner, Active, TypeOK, OwnerState, Idle
    <2> QED  BY <2>1, <2>2
<1>2. ASSUME MayMutate(o) PROVE owner[o].pc = "verified"
    BY <1>2 DEF MayMutate, RecheckOwner
<1>3. ASSUME NEW role \in ManagedRoles, ChangeRole(o, role)
      PROVE  a = owner[o].target /\ Written(a) /\ MayMutate(o)
    <2>1. a = owner[o].target /\ MayMutate(o)
        BY <1>3 DEF ChangeRole, TypeOK
    <2>2. account'[a] = [Bump(account[a]) EXCEPT !.role = role]
        BY <1>3, <2>1 DEF ChangeRole, TypeOK
    <2> QED  BY <2>1, <2>2, Writes DEF Written, Bump, ManagedRoles, AccountState, Exists
<1>4. ASSUME DisableAccount(o) PROVE a = owner[o].target /\ Written(a) /\ MayMutate(o)
    <2>1. a = owner[o].target /\ MayMutate(o)
        BY <1>4 DEF DisableAccount, TypeOK
    <2>2. account'[a] = [Bump(account[a]) EXCEPT !.status = "DISABLED"]
        BY <1>4, <2>1 DEF DisableAccount, TypeOK
    <2> QED  BY <2>1, <2>2, Writes DEF Written, Bump, AccountState, Exists
<1>5. ASSUME EnableAccount(o) PROVE a = owner[o].target /\ Written(a) /\ MayMutate(o)
    <2>1. a = owner[o].target /\ MayMutate(o)
        BY <1>5 DEF EnableAccount, TypeOK
    <2>2. account'[a] = [Bump(account[a]) EXCEPT !.status = "ACTIVE"]
        BY <1>5, <2>1 DEF EnableAccount, TypeOK
    <2> QED  BY <2>1, <2>2, Writes DEF Written, Bump, AccountState, Exists
<1>6. ASSUME ResetPassword(o) PROVE a = owner[o].target /\ Written(a) /\ MayMutate(o)
    <2>1. a = owner[o].target /\ MayMutate(o)
        BY <1>6 DEF ResetPassword, TypeOK
    <2>2. account'[a] = NewPassword(account[a])
        BY <1>6, <2>1 DEF ResetPassword, TypeOK
    <2> QED  BY <2>1, <2>2, Writes DEF Written, Exists
<1>7. ASSUME DeleteAccount(o) PROVE a = owner[o].target /\ Written(a) /\ MayMutate(o)
    <2>1. a = owner[o].target /\ MayMutate(o)
        BY <1>7 DEF DeleteAccount, TypeOK
    <2>2. account'[a] = [NewPassword(account[a]) EXCEPT !.deleted = TRUE]
        BY <1>7, <2>1 DEF DeleteAccount, TypeOK
    <2> QED  BY <2>1, <2>2, Writes DEF Written, NewPassword, AccountState, Exists
<1>8. ASSUME RevokeAccountSessions(o) \/ OwnerEnds(o)
             \/ \E s \in Sessions, b \in Admins : OwnerVerify(o, s, b)
      PROVE  FALSE
    BY <1>8 DEF RevokeAccountSessions, OwnerEnds, OwnerVerify, db
<1> QED  BY <1>1, <1>2, <1>3, <1>4, <1>5, <1>6, <1>7, <1>8 DEF OwnerNext

\* Every step: who writes which account.
LEMMA AccountSteps ==
    ASSUME TypeOK, [Next]_vars
    PROVE  \/ account' = account
           \/ \E a \in Admins : Register(a)
           \/ /\ owner' = owner
              /\ \A a \in Admins : account'[a] = account[a] \/ Written(a)
           \/ \E o \in OwnerRequests : OwnerNext(o)
<1>1. ASSUME NEW l \in Logins, NEW s \in Sessions, NEW t \in Tokens, LoginCommit(l, s, t)
      PROVE  owner' = owner /\ \A a \in Admins : account'[a] = account[a] \/ Written(a)
    <2>1. account' = [account EXCEPT ![login[l].admin] = Bump(@)] /\ Active(login[l].admin)
        BY <1>1 DEF LoginCommit, LoginAllowed, StillVerified
    <2> QED  BY <1>1, <2>1 DEF LoginCommit, Active, Exists, Written, Bump, TypeOK, AccountState
<1>2. ASSUME NEW c \in PasswordChanges, ChangeCommit(c)
      PROVE  owner' = owner /\ \A a \in Admins : account'[a] = account[a] \/ Written(a)
    <2>1. account' = [account EXCEPT ![change[c].admin] = NewPassword(@)] /\ Active(change[c].admin)
        BY <1>2 DEF ChangeCommit, StillVerified
    <2> QED  BY <1>2, <2>1 DEF ChangeCommit, Active, Exists, Written, NewPassword, TypeOK, AccountState
<1>3. ASSUME NEW l \in Logins, LoginNext(l)
      PROVE  account' = account \/ \E s \in Sessions, t \in Tokens : LoginCommit(l, s, t)
    BY <1>3 DEF LoginNext, LoginVerify, LoginSignFails, LoginEnds, db
<1>4. ASSUME NEW r \in Refreshes, RefreshNext(r) PROVE account' = account
    BY <1>4 DEF RefreshNext, RefreshRead, RefreshRotate, RefreshClaimLost,
                RevokeSessionForRefreshReplay, RefreshEnds, db
<1>5. ASSUME NEW c \in PasswordChanges, ChangeNext(c)
      PROVE  account' = account \/ ChangeCommit(c)
    BY <1>5 DEF ChangeNext, ChangeVerify, ChangeEnds, db
<1>6. ASSUME NEW s \in Sessions, Logout(s) \/ RevokeOwnSession(s) PROVE account' = account
    BY <1>6 DEF Logout, RevokeOwnSession
<1> QED  BY <1>1, <1>2, <1>3, <1>4, <1>5, <1>6 DEF Next, vars, db

LEMMA OwnerStep ==
    TypeOK /\ ExactlyOneActiveOwner /\ [Next]_vars => ExactlyOneActiveOwner'
<1> SUFFICES ASSUME TypeOK, ExactlyOneActiveOwner, [Next]_vars PROVE ExactlyOneActiveOwner'
    OBVIOUS
<1>1. CASE account' = account
    BY <1>1 DEF ExactlyOneActiveOwner, Active, Exists
<1>2. ASSUME NEW a \in Admins, Register(a) PROVE ExactlyOneActiveOwner'
    BY <1>2 DEF Register, ExactlyOneActiveOwner, Active, Exists, TypeOK
<1>3. CASE \A a \in Admins : account'[a] = account[a] \/ Written(a)
    BY <1>3 DEF Written, ExactlyOneActiveOwner, Active, Exists
<1>4. ASSUME NEW o \in OwnerRequests, OwnerNext(o) PROVE ExactlyOneActiveOwner'
    <2>1. \A a \in Admins : account'[a] = account[a] \/ Written(a) \/ Created(a)
        BY <1>4, OwnerSteps
    <2>2. CASE account' = account
        BY <2>2, <1>1
    <2>3. CASE account' # account
        <3>1. \E b \in Admins : Exists(b)
            <4>1. \E b \in Admins : account'[b] # account[b]
                BY <2>3, TypeStep DEF TypeOK
            <4> QED  BY <1>4, <4>1, OwnerSteps DEF Written
        <3> QED  BY <2>1, <3>1 DEF Written, Created, ManagedRoles, ExactlyOneActiveOwner, Active, Exists
    <2> QED  BY <2>2, <2>3
<1> QED  BY <1>1, <1>2, <1>3, <1>4, AccountSteps

\* A slot that holds a request after a step held it before, or has just seen its
\* target.
LEMMA OwnerSlots ==
    ASSUME TypeOK, [Next]_vars, NEW p \in OwnerRequests, owner'[p].pc = "verified"
    PROVE  \/ owner'[p] = owner[p]
           \/ /\ account' = account
              /\ owner'[p].target \in Admins
              /\ owner'[p].seen = account[owner'[p].target]
<1>1. CASE owner' = owner
    BY <1>1
<1>2. ASSUME NEW o \in OwnerRequests, NEW s \in Sessions, NEW a \in Admins, OwnerVerify(o, s, a)
      PROVE  \/ owner'[p] = owner[p]
             \/ /\ account' = account
                /\ owner'[p].target \in Admins
                /\ owner'[p].seen = account[owner'[p].target]
    BY <1>2 DEF OwnerVerify, TypeOK, db
<1>3. ASSUME NEW o \in OwnerRequests, Answered(o) PROVE owner'[p] = owner[p]
    BY <1>3 DEF Answered, TypeOK, Idle
<1>4. ASSUME NEW o \in OwnerRequests, OwnerNext(o)
      PROVE  Answered(o) \/ \E s \in Sessions, a \in Admins : OwnerVerify(o, s, a)
    BY <1>4 DEF OwnerNext, CreateAccount, ChangeRole, DisableAccount, EnableAccount,
                RevokeAccountSessions, ResetPassword, DeleteAccount, OwnerEnds
<1>5. owner' = owner \/ \E o \in OwnerRequests : OwnerNext(o)
    BY DEF Next, vars, Register, LoginNext, LoginVerify, LoginCommit, LoginSignFails,
           LoginEnds, RefreshNext, RefreshRead, RefreshRotate, RefreshClaimLost,
           RevokeSessionForRefreshReplay, RefreshEnds, Logout, RevokeOwnSession, ChangeNext,
           ChangeVerify, ChangeCommit, ChangeEnds
<1> QED  BY <1>1, <1>2, <1>3, <1>4, <1>5

\* A step leaves an account alone, creates it or adds one to its version.
Registered(a) ==
    ~Exists(a) /\ account'[a].version = 1 /\ account'[a].role = "OWNER"

LEMMA EachAccount ==
    ASSUME TypeOK, [Next]_vars, NEW a \in Admins
    PROVE  account'[a] = account[a] \/ Written(a) \/ Created(a) \/ Registered(a)
<1>1. ASSUME NEW b \in Admins, Register(b)
      PROVE  account'[a] = account[a] \/ Registered(a)
    <2>1. account' = [account EXCEPT ![b] =
              [role |-> "OWNER", status |-> "ACTIVE", deleted |-> FALSE,
               pwd |-> 1, version |-> 1]]
          /\ ~Exists(a)
        BY <1>1 DEF Register
    <2>2. CASE a = b
        <3>1. account'[a] = [role |-> "OWNER", status |-> "ACTIVE", deleted |-> FALSE,
                             pwd |-> 1, version |-> 1]
            BY <2>1, <2>2 DEF TypeOK
        <3> QED  BY <2>1, <3>1 DEF Registered
    <2>3. CASE a # b
        BY <2>1, <2>3 DEF TypeOK
    <2> QED  BY <2>2, <2>3
<1>2. ASSUME NEW o \in OwnerRequests, OwnerNext(o)
      PROVE  account'[a] = account[a] \/ Written(a) \/ Created(a)
    BY <1>2, OwnerSteps
<1>3. CASE account' = account
    BY <1>3
<1>4. CASE \A b \in Admins : account'[b] = account[b] \/ Written(b)
    BY <1>4
<1> QED  BY <1>1, <1>2, <1>3, <1>4, AccountSteps

LEMMA SeenStep == TypeOK /\ Seen /\ [Next]_vars => Seen'
<1> SUFFICES ASSUME TypeOK, Seen, [Next]_vars PROVE Seen'
    OBVIOUS
<1>1. ASSUME NEW a \in Admins, ~Exists(a)' PROVE account'[a] = NoAccount
    BY <1>1, EachAccount DEF Seen, Exists, Written, Created, Registered, ManagedRoles
<1>2. ASSUME NEW o \in OwnerRequests, owner'[o].pc = "verified"
      PROVE  /\ owner'[o].seen.version <= account'[owner'[o].target].version
             /\ owner'[o].seen.version = account'[owner'[o].target].version =>
                    owner'[o].seen = account'[owner'[o].target]
    <2>1. CASE /\ account' = account
               /\ owner'[o].target \in Admins
               /\ owner'[o].seen = account[owner'[o].target]
        BY <2>1 DEF TypeOK, AccountState, Versions
    <2>2. CASE owner'[o] = owner[o]
        <3> DEFINE a == owner[o].target
        <3>1. /\ a \in Admins
              /\ account[a].version \in Nat
              /\ owner[o].seen.version \in Nat
            BY <1>2, <2>2 DEF TypeOK, OwnerState, AccountState, Versions, Idle
        <3>2. account'[a] = account[a] \/ account'[a].version = account[a].version + 1
            BY <3>1, EachAccount DEF Written, Created, Registered, Seen, NoAccount
        <3> QED  BY <1>2, <2>2, <3>1, <3>2 DEF Seen
    <2> QED  BY <1>2, <2>1, <2>2, OwnerSlots
<1> QED  BY <1>1, <1>2 DEF Seen

LEMMA AccountsInit == Init => ExactlyOneActiveOwner /\ Seen
BY DEF Init, ExactlyOneActiveOwner, Seen, Exists, NoAccount, Idle

\* There is one owner from the first registration on, and nothing any request does
\* demotes, disables or deletes it.
THEOREM OneOwner == Spec => []ExactlyOneActiveOwner
<1>1. Init => TypeOK /\ ExactlyOneActiveOwner
    BY TypeInit, AccountsInit
<1>2. TypeOK /\ ExactlyOneActiveOwner /\ [Next]_vars => (TypeOK /\ ExactlyOneActiveOwner)'
    BY TypeStep, OwnerStep
<1> QED  BY <1>1, <1>2, PTL DEF Spec

\* An owner's request changes only the account it names, and only as it was shown.
THEOREM NoLostUpdate == Spec => OwnerEditsWhatItSaw
<1> DEFINE Edits == \A o \in OwnerRequests, a \in Admins :
        owner[o] # Idle /\ owner'[o] = Idle /\ account'[a] # account[a] =>
            owner[o].target = a /\ account[a] = owner[o].seen
<1>1. ASSUME TypeOK, Seen, [Next]_vars PROVE [Edits]_vars
    <2> SUFFICES ASSUME NEW p \in OwnerRequests, NEW a \in Admins, owner[p] # Idle,
                        owner'[p] = Idle, account'[a] # account[a]
                 PROVE  owner[p].target = a /\ account[a] = owner[p].seen
        OBVIOUS
    <2>1. PICK o \in OwnerRequests : OwnerNext(o)
        <3>1. owner' # owner
            OBVIOUS
        <3> QED  BY <1>1, <3>1, AccountSteps DEF Register
    <2>2. /\ owner[o].pc = "verified" /\ a = owner[o].target
          /\ (Written(a) /\ MayMutate(o)) \/ Created(a)
        BY <1>1, <2>1, OwnerSteps
    <2>3. p = o
        <3>1. Answered(o)
            BY <1>1, <2>1 DEF OwnerNext, CreateAccount, ChangeRole, DisableAccount,
                EnableAccount, RevokeAccountSessions, ResetPassword, DeleteAccount,
                OwnerEnds, OwnerVerify, db
        <3> QED  BY <1>1, <3>1 DEF Answered, TypeOK
    <2>4. CASE MayMutate(o)
        BY <1>1, <2>2, <2>3, <2>4 DEF MayMutate, EnsureVersion, Seen
    <2>5. CASE Created(a)
        <3>1. account[a].version = 0
            BY <1>1, <2>5 DEF Created, Seen, NoAccount
        <3>2. owner[o].seen.version \in Nat
            BY <1>1, <2>2 DEF TypeOK, OwnerState, AccountState, Versions, Idle
        <3> QED  BY <1>1, <2>2, <2>3, <3>1, <3>2 DEF Seen
    <2> QED  BY <2>2, <2>4, <2>5
<1>2. Init => TypeOK /\ Seen
    BY TypeInit, AccountsInit
<1>3. TypeOK /\ Seen /\ [Next]_vars => (TypeOK /\ Seen)'
    BY TypeStep, SeenStep
<1> QED  BY <1>1, <1>2, <1>3, PTL DEF Spec, OwnerEditsWhatItSaw

\* Nothing that was in flight when an account was deleted, and nothing that comes
\* later, changes its row or opens a session for it.
THEOREM DeletedStaysDeleted == Spec => DeletionIsFinal
<1> DEFINE Final == \A a \in Admins : account[a].deleted =>
        /\ account'[a] = account[a]
        /\ \A s \in Sessions : session'[s].state = "live" => session'[s].admin # a
<1> DEFINE I == TypeOK /\ Seen /\ LiveSessionIsCurrent /\ TokensSafe
<1>1. ASSUME I, [Next]_vars PROVE [Final]_vars
    <2> SUFFICES ASSUME NEW a \in Admins, account[a].deleted
                 PROVE  /\ account'[a] = account[a]
                        /\ \A s \in Sessions : session'[s].state = "live" =>
                               session'[s].admin # a
        OBVIOUS
    <2>1. Exists(a)
        BY <1>1 DEF Seen, NoAccount
    <2>2. account'[a] = account[a]
        BY <1>1, <2>1, EachAccount DEF Written, Created, Registered
    <2>3. LiveSessionIsCurrent'
        BY <1>1, SafetyStep
    <2> QED  BY <2>2, <2>3 DEF LiveSessionIsCurrent, Live, Active
<1>2. Init => I
    BY TypeInit, AccountsInit, SafetyInit
<1>3. I /\ [Next]_vars => I'
    BY TypeStep, SeenStep, SafetyStep
<1> QED  BY <1>1, <1>2, <1>3, PTL DEF Spec, DeletionIsFinal
=============================================================================
