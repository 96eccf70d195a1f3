----------------------------- MODULE AdminAuth -----------------------------
(***************************************************************************)
(* Administrator accounts, their sessions and their single-use refresh     *)
(* tokens.                                                                 *)
(*                                                                         *)
(* Every operation that matters reads the database, does something slow    *)
(* (a password hash, the signature of a token) and then runs a Serializable *)
(* transaction that has to notice whatever changed in between.  A request  *)
(* in flight is a slot that holds what it has read; its transaction is one *)
(* later step.  A transaction that conflicts is rolled back and retried or *)
(* given up, which is the slot staying where it is or becoming idle.       *)
(*                                                                         *)
(* Left out: the clock.  Expired sessions, tokens and temporary passwords  *)
(* only make a request fail, and every request may fail at any point here. *)
(***************************************************************************)
EXTENDS Integers

CONSTANTS
    Admins,        \* identifiers AdminUser rows can have
    Sessions,      \* identifiers AdminSession rows can have
    Tokens,        \* identifiers AdminRefreshToken rows can have
    Logins, Refreshes, PasswordChanges, OwnerRequests,  \* request slots
    None,          \* no token
    MaxVersion     \* how often an account may be written

ASSUME ConstantsAssumption ==
    /\ None \notin Tokens
    /\ MaxVersion \in Nat \ {0}

VARIABLES
    account,   \* the AdminUser rows
    session,   \* the AdminSession rows
    token,     \* the AdminRefreshToken rows
    login, refresh, change, owner   \* the requests in flight

db == <<account, session, token>>
vars == <<db, login, refresh, change, owner>>

Roles == {"OWNER", "ADMIN", "STAFF"}
ManagedRoles == {"ADMIN", "STAFF"}
AccountStatus == {"ACTIVE", "DISABLED"}
Versions == 0 .. MaxVersion

\* version stands for updatedAt, and pwd for the password hash: the version the
\* password was set at, a salted hash being different each time.
AccountState ==
    [role : Roles \cup {"NONE"}, status : AccountStatus, deleted : BOOLEAN,
     pwd : Versions, version : Versions]

NoAccount == [role |-> "NONE", status |-> "DISABLED", deleted |-> FALSE,
              pwd |-> 0, version |-> 0]

\* pwd and role are history: the account's when the session was opened.
SessionState ==
    {[state |-> "none"]}
    \cup [state : {"live", "revoked"}, admin : Admins, pwd : Versions, role : Roles]

\* parent is history: the token this one was exchanged for.
TokenState ==
    {[state |-> "none"]}
    \cup [state : {"live", "revoked"}, session : Sessions, parent : Tokens \cup {None}]

Idle == [pc |-> "idle"]

LoginState ==
    {Idle} \cup [pc : {"verified"}, admin : Admins, pwd : Versions]
           \cup [pc : {"signing"}, session : Sessions]

RefreshState ==
    {Idle} \cup [pc : {"read"}, token : Tokens]
           \cup [pc : {"replay"}, session : Sessions]

ChangeState ==
    {Idle} \cup [pc : {"verified"}, admin : Admins, pwd : Versions]

OwnerState ==
    {Idle} \cup [pc : {"verified"}, actor : Admins, pwd : Versions,
                 target : Admins, seen : AccountState]

\* Requests and tokens name rows that exist: the program deletes none, an account is
\* only marked DELETED.  The script cleanup:admin-sessions, which deletes tokens and
\* sessions that expired or were revoked at least a day ago, is not modelled.
Named ==
    /\ \A t \in Tokens : token[t].state # "none" =>
           session[token[t].session].state # "none"
    /\ \A l \in Logins : login[l].pc = "signing" =>
           session[login[l].session].state # "none"
    /\ \A r \in Refreshes :
        /\ refresh[r].pc = "read" => token[refresh[r].token].state # "none"
        /\ refresh[r].pc = "replay" => session[refresh[r].session].state # "none"

TypeOK ==
    /\ account \in [Admins -> AccountState]
    /\ session \in [Sessions -> SessionState]
    /\ token \in [Tokens -> TokenState]
    /\ login \in [Logins -> LoginState]
    /\ refresh \in [Refreshes -> RefreshState]
    /\ change \in [PasswordChanges -> ChangeState]
    /\ owner \in [OwnerRequests -> OwnerState]
    /\ Named

Init ==
    /\ account = [a \in Admins |-> NoAccount]
    /\ session = [s \in Sessions |-> [state |-> "none"]]
    /\ token = [t \in Tokens |-> [state |-> "none"]]
    /\ login = [l \in Logins |-> Idle]
    /\ refresh = [r \in Refreshes |-> Idle]
    /\ change = [c \in PasswordChanges |-> Idle]
    /\ owner = [o \in OwnerRequests |-> Idle]

-----------------------------------------------------------------------------
(* What the transactions share.                                            *)

Exists(a) == account[a].role # "NONE"
Active(a) == Exists(a) /\ account[a].status = "ACTIVE" /\ ~account[a].deleted
Live(s) == session[s].state = "live"
SessionsOf(a) == {s \in Sessions : session[s].state # "none" /\ session[s].admin = a}
TokensOf(S) == {t \in Tokens : token[t].state # "none" /\ token[t].session \in S}

\* Prisma writes a new updatedAt with every update of the row.
Writable(a) == account[a].version < MaxVersion
Bump(row) == [row EXCEPT !.version = @ + 1]
NewPassword(row) == [row EXCEPT !.version = @ + 1, !.pwd = row.version + 1]

\* The two updateMany statements of every revocation: tokens, then sessions,
\* whatever is not revoked yet.
Revoke(S) ==
    /\ token' = [t \in Tokens |->
           IF t \in TokensOf(S) THEN [token[t] EXCEPT !.state = "revoked"] ELSE token[t]]
    /\ session' = [s \in Sessions |->
           IF s \in S THEN [session[s] EXCEPT !.state = "revoked"] ELSE session[s]]

\* The guard's view of an access token: the row of its session.
Authorized(s) == Live(s) /\ Active(session[s].admin)

-----------------------------------------------------------------------------
(* Registration and login.                                                 *)

\* Mutant: nothing asks whether an account exists already.
RegisterAnyone(a) ==
    /\ ~Exists(a)
    /\ account' = [account EXCEPT ![a] =
           [role |-> "OWNER", status |-> "ACTIVE", deleted |-> FALSE,
            pwd |-> 1, version |-> 1]]
    /\ UNCHANGED <<session, token, login, refresh, change, owner>>

\* createInitialOwner: the count and the insert are one Serializable transaction.
Register(a) ==
    /\ \A b \in Admins : ~Exists(b)
    /\ account' = [account EXCEPT ![a] =
           [role |-> "OWNER", status |-> "ACTIVE", deleted |-> FALSE,
            pwd |-> 1, version |-> 1]]
    /\ UNCHANGED <<session, token, login, refresh, change, owner>>

\* The row is read and the password compared with its hash.
LoginVerify(l, a) ==
    /\ login[l] = Idle
    /\ Active(a)
    /\ login' = [login EXCEPT ![l] =
                    [pc |-> "verified", admin |-> a, pwd |-> account[a].pwd]]
    /\ UNCHANGED <<db, refresh, change, owner>>

\* createLoginTokenResponse re-reads the row and opens the session.
StillVerified(req) == Active(req.admin) /\ account[req.admin].pwd = req.pwd

\* Mutant: the account is not read again, the session is opened on the old read.
LoginUnchecked(req) == Exists(req.admin)

LoginAllowed(req) == StillVerified(req)

LoginCommit(l, s, t) ==
    /\ login[l].pc = "verified"
    /\ LoginAllowed(login[l])
    /\ session[s].state = "none"
    /\ token[t].state = "none"
    /\ LET a == login[l].admin IN
        /\ Writable(a)
        /\ account' = [account EXCEPT ![a] = Bump(@)]
        /\ session' = [session EXCEPT ![s] =
               [state |-> "live", admin |-> a, pwd |-> login[l].pwd,
                role |-> account[a].role]]
        /\ token' = [token EXCEPT ![t] =
               [state |-> "live", session |-> s, parent |-> None]]
    /\ login' = [login EXCEPT ![l] = [pc |-> "signing", session |-> s]]
    /\ UNCHANGED <<refresh, change, owner>>

\* The access token cannot be signed: the session just opened is revoked.
LoginSignFails(l) ==
    /\ login[l].pc = "signing"
    /\ Revoke({login[l].session})
    /\ login' = [login EXCEPT ![l] = Idle]
    /\ UNCHANGED <<account, refresh, change, owner>>

\* The answer is sent, or the request fails or stops, before or after its commit.
LoginEnds(l) ==
    /\ login[l] # Idle
    /\ login' = [login EXCEPT ![l] = Idle]
    /\ UNCHANGED <<db, refresh, change, owner>>

-----------------------------------------------------------------------------
(* Refresh: each token is exchanged once, a second use ends the session.    *)

\* The token's row is read with its session and account, outside a transaction.
RefreshRead(r, t) ==
    /\ refresh[r] = Idle
    /\ token[t].state # "none"
    /\ \/ /\ token[t].state = "revoked"
          /\ refresh' = [refresh EXCEPT ![r] =
                            [pc |-> "replay", session |-> token[t].session]]
       \/ /\ token[t].state = "live"
          /\ Authorized(token[t].session)
          /\ refresh' = [refresh EXCEPT ![r] = [pc |-> "read", token |-> t]]
    /\ UNCHANGED <<db, login, change, owner>>

\* Mutant: the claim does not ask for an unrevoked token.
RefreshRotateUnclaimed(r, next) ==
    /\ refresh[r].pc = "read"
    /\ LET t == refresh[r].token
           s == token[t].session
       IN
        /\ Authorized(s)
        /\ token[next].state = "none"
        /\ token' = [token EXCEPT
               ![t] = [@ EXCEPT !.state = "revoked"],
               ![next] = [state |-> "live", session |-> s, parent |-> t]]
        /\ UNCHANGED session
    /\ refresh' = [refresh EXCEPT ![r] = Idle]
    /\ UNCHANGED <<account, login, change, owner>>

\* The conditional claim succeeds: one successor, or, if the account or the
\* session is no longer good, the end of the session.
RefreshRotate(r, next) ==
    /\ refresh[r].pc = "read"
    /\ LET t == refresh[r].token
           s == token[t].session
       IN
        /\ token[t].state = "live"
        /\ IF Authorized(s)
           THEN /\ token[next].state = "none"
                /\ token' = [token EXCEPT
                       ![t] = [@ EXCEPT !.state = "revoked"],
                       ![next] = [state |-> "live", session |-> s, parent |-> t]]
                /\ UNCHANGED session
           ELSE Revoke({s})
    /\ refresh' = [refresh EXCEPT ![r] = Idle]
    /\ UNCHANGED <<account, login, change, owner>>

\* The claim finds the token spent meanwhile.
RefreshClaimLost(r) ==
    /\ refresh[r].pc = "read"
    /\ token[refresh[r].token].state = "revoked"
    /\ refresh' = [refresh EXCEPT ![r] =
                      [pc |-> "replay", session |-> token[refresh[r].token].session]]
    /\ UNCHANGED <<db, login, change, owner>>

\* revokeSessionForRefreshReplay, a transaction of its own.
RevokeSessionForRefreshReplay(r) ==
    /\ refresh[r].pc = "replay"
    /\ Revoke({refresh[r].session})
    /\ refresh' = [refresh EXCEPT ![r] = Idle]
    /\ UNCHANGED <<account, login, change, owner>>

\* A check fails, the transaction conflicts, or the process stops.
RefreshEnds(r) ==
    /\ refresh[r] # Idle
    /\ refresh' = [refresh EXCEPT ![r] = Idle]
    /\ UNCHANGED <<db, login, change, owner>>

\* Mutant: the row of the session to revoke is not looked up.
RevokeAnySession(s) ==
    /\ Revoke({s})
    /\ UNCHANGED <<account, login, refresh, change, owner>>

\* logout: the caller's own session, tokens first, whatever became of it since the
\* guard let the request pass.
Logout(s) ==
    /\ session[s].state # "none"
    /\ Revoke({s})
    /\ UNCHANGED <<account, login, refresh, change, owner>>

\* revokeOwnSession: any session of the caller, found by its identifier.
RevokeOwnSession(s) ==
    /\ session[s].state # "none"
    /\ Revoke({s})
    /\ UNCHANGED <<account, login, refresh, change, owner>>

-----------------------------------------------------------------------------
(* changePassword and changeOwnPassword.                                   *)

\* The guard has passed, the row is read and the old password compared.
ChangeVerify(c, s) ==
    /\ change[c] = Idle
    /\ Authorized(s)
    /\ change' = [change EXCEPT ![c] =
           [pc |-> "verified", admin |-> session[s].admin,
            pwd |-> account[session[s].admin].pwd]]
    /\ UNCHANGED <<db, login, refresh, owner>>

\* The transaction: same hash as verified, new hash, everything revoked.
ChangeCommit(c) ==
    /\ change[c].pc = "verified"
    /\ StillVerified(change[c])
    /\ LET a == change[c].admin IN
        /\ Writable(a)
        /\ account' = [account EXCEPT ![a] = NewPassword(@)]
        /\ Revoke(SessionsOf(a))
    /\ change' = [change EXCEPT ![c] = Idle]
    /\ UNCHANGED <<login, refresh, owner>>

ChangeEnds(c) ==
    /\ change[c] # Idle
    /\ change' = [change EXCEPT ![c] = Idle]
    /\ UNCHANGED <<db, login, refresh, owner>>

-----------------------------------------------------------------------------
(* Account management by the owner.                                        *)

\* The owner's client has listed the target (seen holds the updatedAt it sends
\* back), the guard has passed and verifyOwner has compared the password.
OwnerVerify(o, s, target) ==
    /\ owner[o] = Idle
    /\ Authorized(s)
    /\ account[session[s].admin].role = "OWNER"
    /\ owner' = [owner EXCEPT ![o] =
           [pc |-> "verified", actor |-> session[s].admin,
            pwd |-> account[session[s].admin].pwd,
            target |-> target, seen |-> account[target]]]
    /\ UNCHANGED <<db, login, refresh, change>>

\* recheckOwner, inside the transaction.
RecheckOwner(o) ==
    /\ owner[o].pc = "verified"
    /\ Active(owner[o].actor)
    /\ account[owner[o].actor].role = "OWNER"
    /\ account[owner[o].actor].pwd = owner[o].pwd

\* Mutant: a deleted account is still a mutable target.
MutableDeleted(o) ==
    LET a == owner[o].target IN
        /\ Exists(a)
        /\ a # owner[o].actor
        /\ account[a].role # "OWNER"

\* loadMutableTarget
Mutable(o) ==
    LET a == owner[o].target IN
        /\ Exists(a)
        /\ a # owner[o].actor
        /\ account[a].role # "OWNER"
        /\ ~account[a].deleted

\* Mutant: the last write wins.
EnsureNothing(o) == o \in OwnerRequests

\* ensureVersion, and the same condition on the update itself.
EnsureVersion(o) == account[owner[o].target].version = owner[o].seen.version

\* What every mutation of the target's row asks for first.
MayMutate(o) ==
    /\ RecheckOwner(o)
    /\ Mutable(o)
    /\ EnsureVersion(o)
    /\ Writable(owner[o].target)

Answered(o) ==
    /\ owner' = [owner EXCEPT ![o] = Idle]
    /\ UNCHANGED <<login, refresh, change>>

CreateAccount(o, role) ==
    /\ RecheckOwner(o)
    /\ ~Exists(owner[o].target)
    /\ account' = [account EXCEPT ![owner[o].target] =
           [role |-> role, status |-> "ACTIVE", deleted |-> FALSE,
            pwd |-> 1, version |-> 1]]
    /\ UNCHANGED <<session, token>>
    /\ Answered(o)

\* Mutant: a role change leaves the sessions alone.
ChangeRoleKeepsSessions(o, role) ==
    LET a == owner[o].target IN
        /\ MayMutate(o)
        /\ account[a].role # role
        /\ account' = [account EXCEPT ![a] = [Bump(@) EXCEPT !.role = role]]
        /\ UNCHANGED <<session, token>>
        /\ Answered(o)

ChangeRole(o, role) ==
    LET a == owner[o].target IN
        /\ MayMutate(o)
        /\ account[a].role # role
        /\ account' = [account EXCEPT ![a] = [Bump(@) EXCEPT !.role = role]]
        /\ Revoke(SessionsOf(a))
        /\ Answered(o)

\* Mutant: disabling ends the sessions and forgets the refresh tokens.
DisableAccountKeepsTokens(o) ==
    LET a == owner[o].target IN
        /\ MayMutate(o)
        /\ account[a].status = "ACTIVE"
        /\ account' = [account EXCEPT ![a] = [Bump(@) EXCEPT !.status = "DISABLED"]]
        /\ session' = [s \in Sessions |-> IF s \in SessionsOf(a)
                          THEN [session[s] EXCEPT !.state = "revoked"] ELSE session[s]]
        /\ UNCHANGED token
        /\ Answered(o)

\* changeStatus: only disabling revokes.
DisableAccount(o) ==
    LET a == owner[o].target IN
        /\ MayMutate(o)
        /\ account[a].status = "ACTIVE"
        /\ account' = [account EXCEPT ![a] = [Bump(@) EXCEPT !.status = "DISABLED"]]
        /\ Revoke(SessionsOf(a))
        /\ Answered(o)

EnableAccount(o) ==
    LET a == owner[o].target IN
        /\ MayMutate(o)
        /\ account[a].status = "DISABLED"
        /\ account' = [account EXCEPT ![a] = [Bump(@) EXCEPT !.status = "ACTIVE"]]
        /\ UNCHANGED <<session, token>>
        /\ Answered(o)

\* revokeSessions does not write the row and asks for no version.
RevokeAccountSessions(o) ==
    /\ RecheckOwner(o)
    /\ Mutable(o)
    /\ Revoke(SessionsOf(owner[o].target))
    /\ UNCHANGED account
    /\ Answered(o)

ResetPassword(o) ==
    LET a == owner[o].target IN
        /\ MayMutate(o)
        /\ account' = [account EXCEPT ![a] = NewPassword(@)]
        /\ Revoke(SessionsOf(a))
        /\ Answered(o)

\* delete is logical: the row stays, with a hash no password matches.  (It is
\* also refused while the target has an upload going on.)
DeleteAccount(o) ==
    LET a == owner[o].target IN
        /\ MayMutate(o)
        /\ account[a].status = "DISABLED"
        /\ account' = [account EXCEPT ![a] = [NewPassword(@) EXCEPT !.deleted = TRUE]]
        /\ Revoke(SessionsOf(a))
        /\ Answered(o)

OwnerEnds(o) ==
    /\ owner[o] # Idle
    /\ Answered(o)
    /\ UNCHANGED db

-----------------------------------------------------------------------------
LoginNext(l) ==
    \/ \E a \in Admins : LoginVerify(l, a)
    \/ \E s \in Sessions, t \in Tokens : LoginCommit(l, s, t)
    \/ LoginSignFails(l)
    \/ LoginEnds(l)

RefreshNext(r) ==
    \/ \E t \in Tokens : RefreshRead(r, t)
    \/ \E t \in Tokens : RefreshRotate(r, t)
    \/ RefreshClaimLost(r)
    \/ RevokeSessionForRefreshReplay(r)
    \/ RefreshEnds(r)

ChangeNext(c) ==
    \/ \E s \in Sessions : ChangeVerify(c, s)
    \/ ChangeCommit(c)
    \/ ChangeEnds(c)

OwnerNext(o) ==
    \/ \E s \in Sessions, a \in Admins : OwnerVerify(o, s, a)
    \/ \E role \in ManagedRoles : CreateAccount(o, role)
    \/ \E role \in ManagedRoles : ChangeRole(o, role)
    \/ DisableAccount(o)
    \/ EnableAccount(o)
    \/ RevokeAccountSessions(o)
    \/ ResetPassword(o)
    \/ DeleteAccount(o)
    \/ OwnerEnds(o)

Next ==
    \/ \E a \in Admins : Register(a)
    \/ \E l \in Logins : LoginNext(l)
    \/ \E r \in Refreshes : RefreshNext(r)
    \/ \E s \in Sessions : Logout(s)
    \/ \E s \in Sessions : RevokeOwnSession(s)
    \/ \E c \in PasswordChanges : ChangeNext(c)
    \/ \E o \in OwnerRequests : OwnerNext(o)

Spec == Init /\ [][Next]_vars

-----------------------------------------------------------------------------
(* What sessions, tokens and accounts promise.                             *)

\* A session that is not revoked was opened with the password and the role the
\* account has now, and the account may act: no login, refresh or owner request
\* that was in flight when authority was withdrawn leaves a session behind.
LiveSessionIsCurrent ==
    \A s \in Sessions : Live(s) =>
        /\ Active(session[s].admin)
        /\ session[s].pwd = account[session[s].admin].pwd
        /\ session[s].role = account[session[s].admin].role

\* A refresh token that can still be exchanged belongs to a live session, and it
\* is that session's only one.
LiveTokenIsBacked ==
    \A t \in Tokens : token[t].state = "live" =>
        /\ Live(token[t].session)
        /\ \A u \in Tokens \ {t} :
               token[u].state = "live" => token[u].session # token[t].session

\* Each token is exchanged at most once, however many requests present it: a
\* token with a successor is spent, the successor is of the same session and is
\* the only one, so the tokens of a session form a chain.
TokensFormAChain ==
    \A t \in Tokens : token[t].state # "none" /\ token[t].parent # None =>
        /\ token[token[t].parent].state = "revoked"
        /\ token[token[t].parent].session = token[t].session
        /\ \A u \in Tokens \ {t} :
               token[u].state # "none" => token[u].parent # token[t].parent

\* Once an account exists there is exactly one owner, who can always act.
ExactlyOneActiveOwner ==
    (\E a \in Admins : Exists(a)) =>
        \E a \in Admins :
            /\ account[a].role = "OWNER" /\ Active(a)
            /\ \A b \in Admins \ {a} : account[b].role # "OWNER"

\* An owner's request changes an account only in the state its client was shown:
\* of two concurrent edits, or an edit and a login, one is refused.
OwnerEditsWhatItSaw ==
    [][\A o \in OwnerRequests, a \in Admins :
        owner[o] # Idle /\ owner'[o] = Idle /\ account'[a] # account[a] =>
            owner[o].target = a /\ account[a] = owner[o].seen]_vars

\* A deleted account never changes again and never gets a session.
DeletionIsFinal ==
    [][\A a \in Admins : account[a].deleted =>
        /\ account'[a] = account[a]
        /\ \A s \in Sessions : session'[s].state = "live" => session'[s].admin # a]_vars
=============================================================================
