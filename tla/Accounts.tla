------------------------------ MODULE Accounts ------------------------------
(***************************************************************************)
(* Accounts and sessions on the server: the HTTP handlers that create,     *)
(* authenticate and change accounts (server/internal/api), the command     *)
(* line's user commands, and the SQL statements they run (store.go).       *)
(*                                                                         *)
(* The database has one connection, so a statement, or a transaction, is   *)
(* atomic; handlers run concurrently, so any number of other statements    *)
(* come between two statements of one handler.  An action is one statement *)
(* together with the code up to the next one, and a request carries the    *)
(* row it read: every handler decides on that copy, never on the row as it *)
(* is when it writes.  A request refused on what it read changes nothing   *)
(* and is not a step.                                                      *)
(*                                                                         *)
(* Random and chosen secrets (tokens, invites, passwords, recovery keys)   *)
(* are numbers drawn in order: a later one is larger.  One number names    *)
(* the password and the recovery key sent together in one request.         *)
(***************************************************************************)
EXTENDS Naturals, FiniteSets

CONSTANTS
    Names,          \* usernames
    Requests,       \* requests in progress at one time
    Explored,       \* the operations this instance explores, a subset of Operations
    MaxAccounts,    \* bound: accounts ever created
    MaxSecrets,     \* bound: secrets ever drawn
    MaxRevision,    \* bound: revisions of one vault
    NoRow           \* no such account

Operations == {"create", "setup", "register", "login", "change", "recover", "put",
               "logout", "logoutAll", "delete", "resetInvite", "disable", "expire",
               "crash", "revokeFails"}

ASSUME AccountsAssumption ==
    /\ {MaxAccounts, MaxSecrets, MaxRevision} \subseteq Nat
    /\ Explored \subseteq Operations

Accounts == 1..MaxAccounts      \* AUTOINCREMENT: an id is never used twice
NoSecret == 0                   \* a NULL column

Row == [name : Names, status : {"pending", "active", "disabled"}, invite : Nat,
        auth : Nat, recovery : Nat, revision : Nat]

ASSUME NoRowAssumption == NoRow \notin Row

\* grant: the password, or the setup or reset that set it, the session was granted on.
Session == [token : Nat, user : Accounts, grant : Nat]

Steps == {"idle", "activate", "insert", "grant", "change", "revoke", "reset", "put",
          "logout", "logoutAll", "invite", "disable"}

Request == [pc : Steps, id : Nat, user : Row \cup {NoRow}, name : Names \cup {NoRow},
            token : Nat, base : Nat]
Idle == [pc |-> "idle", id |-> 0, user |-> NoRow, name |-> NoRow, token |-> 0, base |-> 0]

VARIABLES
    users,          \* table users, by id
    sessions,       \* table sessions
    request,        \* the requests in progress
    lastId,         \* the last id given to an account
    drawn,          \* the last secret drawn
    resetAt         \* history: the last reset by recovery key of each account

vars == <<users, sessions, request, lastId, drawn, resetAt>>

Init ==
    /\ users = [a \in Accounts |-> NoRow]
    /\ sessions = {}
    /\ request = [r \in Requests |-> Idle]
    /\ lastId = 0
    /\ drawn = 0
    /\ resetAt = [a \in Accounts |-> 0]

----------------------------------------------------------------------------
(* Helpers *)

Starts(r, op) == op \in Explored /\ request[r].pc = "idle"
Await(r, q) == request' = [request EXCEPT ![r] = q]
Finish(r) == Await(r, Idle)
Proceed(r, pc) == Await(r, [request[r] EXCEPT !.pc = pc])

Exists(a) == a \in Accounts /\ users[a] # NoRow
Named(n) == {a \in Accounts : users[a] # NoRow /\ users[a].name = n}

\* Mutant of Free: only the SELECT of createUser, no UNIQUE column.
FreeUnchecked(n) == TRUE

\* users.username is UNIQUE.
Free(n) == Named(n) = {}

\* Mutant of MayActivate: UPDATE ... WHERE id = ?
MayActivateAny(a) == Exists(a)

\* ActivateUser: UPDATE ... WHERE id = ? AND status = 'pending'.
MayActivate(a) == Exists(a) /\ users[a].status = "pending"

\* Mutant of MayHaveSession: foreign_keys left off.
MayHaveSessionAny(a) == a \in Accounts

\* sessions.user_id REFERENCES users(id).
MayHaveSession(a) == Exists(a)

\* Mutant of Cascaded: foreign_keys left off.
CascadedNone(a) == sessions

\* ON DELETE CASCADE.
Cascaded(a) == {s \in sessions : s.user # a}

\* Mutant of AfterReset: UpdateAuthMaterial with burnRecovery = false.
AfterResetKept(a) == sessions

\* The DELETE in UpdateAuthMaterial's transaction.
AfterReset(a) == {s \in sessions : s.user # a}

Draw == drawn < MaxSecrets /\ drawn' = drawn + 1

\* A row as setup leaves it, whatever it was before; recovery is optional.
Configured(n, key) ==
    [name |-> n, status |-> "active", invite |-> NoSecret, auth |-> drawn + 1,
     recovery |-> key, revision |-> 1]

----------------------------------------------------------------------------
(* Administration: the admin API and the command line *)

\* CreatePendingUser, also by `user create'.
CreatePendingUser(n) ==
    /\ "create" \in Explored
    /\ Free(n)
    /\ lastId < MaxAccounts
    /\ Draw
    /\ lastId' = lastId + 1
    /\ users' = [users EXCEPT ![lastId + 1] =
                    [name |-> n, status |-> "pending", invite |-> drawn + 1,
                     auth |-> NoSecret, recovery |-> NoSecret, revision |-> 0]]
    /\ UNCHANGED <<sessions, request, resetAt>>

DeleteUser(a) ==
    /\ "delete" \in Explored
    /\ Exists(a)
    /\ users' = [users EXCEPT ![a] = NoRow]
    /\ sessions' = Cascaded(a)
    /\ UNCHANGED <<request, lastId, drawn, resetAt>>

\* ResetInviteToken: by name, and only if pending; the command line calls it directly.
ResetInviteToken(n) ==
    /\ Draw
    /\ users' = [a \in Accounts |->
                    IF a \in Named(n) /\ users[a].status = "pending"
                    THEN [users[a] EXCEPT !.invite = drawn + 1] ELSE users[a]]

CommandResetInvite(n) ==
    /\ "resetInvite" \in Explored
    /\ ResetInviteToken(n)
    /\ UNCHANGED <<sessions, request, lastId, resetAt>>

\* handleAdminResetInvite reads the row by id first, then updates it by name.
AdminReadInvite(r, a) ==
    /\ Starts(r, "resetInvite")
    /\ Exists(a) /\ users[a].status = "pending"
    /\ Await(r, [Idle EXCEPT !.pc = "invite", !.id = a, !.user = users[a]])
    /\ UNCHANGED <<users, sessions, lastId, drawn, resetAt>>

AdminResetInvite(r) ==
    /\ request[r].pc = "invite"
    /\ ResetInviteToken(request[r].user.name)
    /\ Finish(r)
    /\ UNCHANGED <<sessions, lastId, resetAt>>

\* disableUser reads the id by name, then sets the status by id.
ReadToDisable(r, a) ==
    /\ Starts(r, "disable")
    /\ Exists(a)
    /\ Await(r, [Idle EXCEPT !.pc = "disable", !.id = a, !.user = users[a]])
    /\ UNCHANGED <<users, sessions, lastId, drawn, resetAt>>

SetUserStatus(r) ==
    LET a == request[r].id IN
    /\ request[r].pc = "disable"
    /\ users' = IF Exists(a) THEN [users EXCEPT ![a].status = "disabled"] ELSE users
    /\ Finish(r)
    /\ UNCHANGED <<sessions, lastId, drawn, resetAt>>

----------------------------------------------------------------------------
(* Setup: an invited account is activated, or a new one registers *)

Setup(r, a) ==
    /\ Starts(r, "setup")
    /\ Exists(a) /\ users[a].status = "pending"
    \* VerifyInviteToken: the client sends the account's current invite.
    /\ Await(r, [Idle EXCEPT !.pc = "activate", !.id = a, !.user = users[a],
                             !.name = users[a].name])
    /\ UNCHANGED <<users, sessions, lastId, drawn, resetAt>>

ActivateUser(r) ==
    LET q == request[r] IN
    /\ q.pc = "activate"
    /\ \/ /\ MayActivate(q.id)
          /\ Draw
          /\ \E key \in {NoSecret, drawn + 1} :
                LET u == Configured(users[q.id].name, key) IN
                /\ users' = [users EXCEPT ![q.id] = u]
                /\ Await(r, [q EXCEPT !.pc = "grant", !.user = u])
       \/ /\ ~MayActivate(q.id)
          /\ Finish(r)
          /\ UNCHANGED <<users, drawn>>
    /\ UNCHANGED <<sessions, lastId, resetAt>>

\* createUser looks for the name, then inserts.
Register(r, n) ==
    /\ Starts(r, "register")
    /\ Named(n) = {}
    /\ Await(r, [Idle EXCEPT !.pc = "insert", !.name = n])
    /\ UNCHANGED <<users, sessions, lastId, drawn, resetAt>>

InsertUser(r) ==
    LET q == request[r] IN
    /\ q.pc = "insert"
    /\ \/ /\ Free(q.name)
          /\ lastId < MaxAccounts
          /\ Draw
          /\ lastId' = lastId + 1
          /\ \E key \in {NoSecret, drawn + 1} :
                LET u == Configured(q.name, key) IN
                /\ users' = [users EXCEPT ![lastId + 1] = u]
                /\ Await(r, [q EXCEPT !.pc = "grant", !.id = lastId + 1, !.user = u])
       \/ /\ ~Free(q.name)
          /\ Finish(r)
          /\ UNCHANGED <<users, lastId, drawn>>
    /\ UNCHANGED <<sessions, resetAt>>

----------------------------------------------------------------------------
(* Login and recovery *)

\* handleLogin: the right password of an active account; UpdateLastLogin is left out.
Login(r, a) ==
    /\ Starts(r, "login")
    /\ Exists(a) /\ users[a].status = "active"
    /\ Await(r, [Idle EXCEPT !.pc = "grant", !.id = a, !.user = users[a]])
    /\ UNCHANGED <<users, sessions, lastId, drawn, resetAt>>

\* completeSession, the end of setup, login and recovery.
CreateSession(r) ==
    LET q == request[r] IN
    /\ q.pc = "grant"
    /\ \/ /\ MayHaveSession(q.id)
          /\ Draw
          /\ sessions' = sessions \cup
                {[token |-> drawn + 1, user |-> q.id, grant |-> q.user.auth]}
       \/ /\ ~MayHaveSession(q.id)
          /\ UNCHANGED <<sessions, drawn>>
    /\ Finish(r)
    /\ UNCHANGED <<users, lastId, resetAt>>

\* handleRecover: the right recovery key; the status is not looked at.
Recover(r, a) ==
    /\ Starts(r, "recover")
    /\ Exists(a) /\ users[a].recovery # NoSecret
    /\ Await(r, [Idle EXCEPT !.pc = "reset", !.id = a, !.user = users[a]])
    /\ UNCHANGED <<users, sessions, lastId, drawn, resetAt>>

\* Mutant of UpdateAuthMaterial: the row is inserted when it is not there.
UpdateAuthMaterialUpsert(a, key) ==
    users' = IF Exists(a)
             THEN [users EXCEPT ![a].auth = drawn + 1, ![a].recovery = key]
             ELSE [users EXCEPT ![a] = [auth |-> drawn + 1, recovery |-> key]]

\* The UPDATE of UpdateAuthMaterial: by id, whatever the row holds by now; with the
\* account deleted meanwhile it changes nothing and is no error.
UpdateAuthMaterial(a, key) ==
    users' = IF Exists(a)
             THEN [users EXCEPT ![a].auth = drawn + 1, ![a].recovery = key]
             ELSE users

\* burnRecovery: the transaction deletes the account's sessions too.
ResetByRecovery(r) ==
    LET q == request[r] IN
    /\ q.pc = "reset"
    /\ Draw
    /\ \E key \in {NoSecret, drawn + 1} : UpdateAuthMaterial(q.id, key)
    /\ sessions' = AfterReset(q.id)
    /\ resetAt' = [resetAt EXCEPT ![q.id] = drawn + 1]
    /\ Await(r, [q EXCEPT !.pc = "grant", !.user.auth = drawn + 1])
    /\ UNCHANGED lastId

----------------------------------------------------------------------------
(* Requests with a session *)

\* authed: the row is read through the session, and must be active.
Authed(r, s, op, q) ==
    /\ Starts(r, op)
    /\ users[s.user].status = "active"
    /\ Await(r, [q EXCEPT !.id = s.user, !.user = users[s.user], !.token = s.token])
    /\ UNCHANGED <<users, sessions, lastId, drawn, resetAt>>

\* The old password is checked against the row authed read.
ChangePassword(r, s) == Authed(r, s, "change", [Idle EXCEPT !.pc = "change"])

PasswordChanged(r) ==
    LET q == request[r] IN
    /\ q.pc = "change"
    /\ Draw
    /\ \E key \in {NoSecret, drawn + 1} : UpdateAuthMaterial(q.id, key)
    /\ Proceed(r, "revoke")
    /\ UNCHANGED <<sessions, lastId, resetAt>>

\* DeleteOtherSessions; its failure is logged and the answer is ok all the same.
DeleteOtherSessions(r) ==
    LET q == request[r] IN
    /\ q.pc = "revoke"
    /\ \/ sessions' = {s \in sessions : s.user = q.id => s.token = q.token}
       \/ "revokeFails" \in Explored /\ UNCHANGED sessions
    /\ Finish(r)
    /\ UNCHANGED <<users, lastId, drawn, resetAt>>

\* A device sends a revision it was once told.
VaultPut(r, s) ==
    \E base \in 1..MaxRevision :
        /\ base <= users[s.user].revision
        /\ Authed(r, s, "put", [Idle EXCEPT !.pc = "put", !.base = base])

UpdateVault(r) ==
    LET q == request[r]
        matches == Exists(q.id) /\ users[q.id].revision = q.base IN
    /\ q.pc = "put"
    /\ \/ /\ matches /\ q.base < MaxRevision
          /\ users' = [users EXCEPT ![q.id].revision = q.base + 1]
       \/ ~matches /\ UNCHANGED users
    /\ Finish(r)
    /\ UNCHANGED <<sessions, lastId, drawn, resetAt>>

Logout(r, s) == Authed(r, s, "logout", [Idle EXCEPT !.pc = "logout"])

DeleteSession(r) ==
    /\ request[r].pc = "logout"
    /\ sessions' = {s \in sessions : s.token # request[r].token}
    /\ Finish(r)
    /\ UNCHANGED <<users, lastId, drawn, resetAt>>

LogoutAll(r, s) == Authed(r, s, "logoutAll", [Idle EXCEPT !.pc = "logoutAll"])

DeleteAllSessions(r) ==
    /\ request[r].pc = "logoutAll"
    /\ sessions' = {s \in sessions : s.user # request[r].id}
    /\ Finish(r)
    /\ UNCHANGED <<users, lastId, drawn, resetAt>>

\* expires_at passes: GetUserBySessionToken deletes the row and refuses it.
Expire(s) ==
    /\ "expire" \in Explored
    /\ sessions' = sessions \ {s}
    /\ UNCHANGED <<users, request, lastId, drawn, resetAt>>

\* The server process ends: whatever was not yet written never is.
Crash ==
    /\ "crash" \in Explored
    /\ request' = [r \in Requests |-> Idle]
    /\ UNCHANGED <<users, sessions, lastId, drawn, resetAt>>

----------------------------------------------------------------------------
Administration(r) ==
    \/ \E a \in Accounts : AdminReadInvite(r, a) \/ ReadToDisable(r, a)
    \/ AdminResetInvite(r)
    \/ SetUserStatus(r)

Anonymous(r) ==
    \/ \E a \in Accounts : Setup(r, a) \/ Login(r, a) \/ Recover(r, a)
    \/ \E n \in Names : Register(r, n)
    \/ ActivateUser(r)
    \/ InsertUser(r)
    \/ CreateSession(r)
    \/ ResetByRecovery(r)

WithSession(r) ==
    \/ \E s \in sessions : ChangePassword(r, s) \/ VaultPut(r, s) \/ Logout(r, s)
                           \/ LogoutAll(r, s)
    \/ PasswordChanged(r)
    \/ DeleteOtherSessions(r)
    \/ UpdateVault(r)
    \/ DeleteSession(r)
    \/ DeleteAllSessions(r)

Next ==
    \/ \E r \in Requests : Administration(r) \/ Anonymous(r) \/ WithSession(r)
    \/ \E n \in Names : CreatePendingUser(n) \/ CommandResetInvite(n)
    \/ \E a \in Accounts : DeleteUser(a)
    \/ \E s \in sessions : Expire(s)
    \/ Crash

Spec == Init /\ [][Next]_vars

----------------------------------------------------------------------------
(* Properties *)

\* Every variable holds a value of its kind.
TypeOK ==
    /\ users \in [Accounts -> Row \cup {NoRow}]
    /\ sessions \subseteq Session
    /\ request \in [Requests -> Request]
    /\ lastId \in 0..MaxAccounts
    /\ drawn \in 0..MaxSecrets
    /\ resetAt \in [Accounts -> 0..MaxSecrets]

\* A username names one account, though two requests may both have found it free.
OneAccountPerName ==
    \A a, b \in Accounts :
        Exists(a) /\ Exists(b) /\ users[a].name = users[b].name => a = b

\* A session opens an account that exists and has been set up, though the account may
\* be deleted between the check of a password and the creation of the session.
SessionsOpenAccounts ==
    \A s \in sessions : Exists(s.user) /\ users[s.user].auth # NoSecret

\* No token issued before a reset by recovery key outlives it.
NoTokenSurvivesReset == \A s \in sessions : s.token > resetAt[s.user]

\* An account that is set up is never set up again: its password changes only in a
\* change or a reset, and its vault's revision never falls, so a device never finds
\* the server behind the revision it was told.
SetUpOnce ==
    [][\A a \in Accounts :
        Exists(a) /\ users[a].auth # NoSecret /\ users'[a] # NoRow =>
            /\ users'[a].revision >= users[a].revision
            /\ users'[a].auth # users[a].auth =>
                  \E r \in Requests : request[r].pc \in {"change", "reset"}
                                      /\ request[r].id = a]_vars

\* A disabled account stays disabled, whatever setup was in progress.
DisabledStaysDisabled ==
    [][\A a \in Accounts :
        Exists(a) /\ users[a].status = "disabled" /\ users'[a] # NoRow =>
            users'[a].status = "disabled"]_vars

\* A recovery key is "burned after every use": a reset is made with the key the account
\* has, never with one that an earlier reset has replaced.
RecoveryKeyUsedOnce ==
    [][\A r \in Requests :
        request[r].pc = "reset" /\ request'[r].pc = "grant" /\ Exists(request[r].id) =>
            request[r].user.recovery = users[request[r].id].recovery]_vars

\* "Each reset revokes all sessions": afterwards no session lives that was granted on a
\* password from before the reset.
ResetRevokesSessions == \A s \in sessions : s.grant >= resetAt[s.user]

=============================================================================
