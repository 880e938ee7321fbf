--------------------------- MODULE AccountsProofs ---------------------------
(***************************************************************************)
(* Theorems about Accounts, for any usernames, concurrent requests and     *)
(* bounds: the decisions a handler takes on a row that is no longer the    *)
(* current one are held by the conditions of the UPDATEs, the UNIQUE       *)
(* column and the foreign key.                                             *)
(*                                                                         *)
(* The invariant says of a row which columns are set in which status, and  *)
(* of a request in progress that the account it decided on has not been    *)
(* undone since, only deleted: ids are never used again.                   *)
(***************************************************************************)
EXTENDS Accounts, TLAPS

----------------------------------------------------------------------------
(* The inductive invariant *)

\* A password is set when an account is set up, and a recovery key only with it.
GoodRow(u) ==
    u # NoRow => /\ u.status = "active" => u.auth # NoSecret
                 /\ u.status = "pending" => u.auth = NoSecret
                 /\ u.recovery # NoSecret => u.auth # NoSecret

\* The steps of a request that acts on an account it found set up.
OnSetUp == Steps \ {"idle", "insert", "activate", "invite", "disable"}

\* A request in progress, against the table U and the last id L.
GoodRequest(q, U, L) ==
    /\ q.pc = "insert" => q.name \in Names
    /\ q.pc \notin {"idle", "insert"} =>
          q.id \in Accounts /\ q.id <= L /\ q.user \in Row
    /\ q.pc \in OnSetUp /\ U[q.id] # NoRow => U[q.id].auth # NoSecret

GoodSessions ==
    /\ SessionsOpenAccounts
    /\ NoTokenSurvivesReset
    /\ \A s \in sessions : s.token <= drawn
    /\ \A a \in Accounts : resetAt[a] <= drawn

AInv ==
    /\ TypeOK
    /\ OneAccountPerName
    /\ GoodSessions
    /\ \A a \in Accounts : GoodRow(users[a]) /\ (a > lastId => users[a] = NoRow)
    /\ \A r \in Requests : GoodRequest(request[r], users, lastId)

----------------------------------------------------------------------------
(* What happens to rows *)

\* A row goes from u to v by an operation that does not create it: it disappears, or
\* keeps its name, stays set up with a revision that does not fall, stays disabled.
RowStep(u, v) ==
    v # NoRow =>
        /\ u \in Row /\ v \in Row
        /\ GoodRow(v)
        /\ v.name = u.name
        /\ u.auth # NoSecret => v.auth # NoSecret /\ v.revision >= u.revision
        /\ u.status = "disabled" => v.status = "disabled"

RowsStep == \A a \in Accounts : RowStep(users[a], users'[a])

\* A row that does not change.
LEMMA RowUnchanged ==
    ASSUME AInv, NEW a \in Accounts
    PROVE  RowStep(users[a], users[a])
  <1>1. users[a] # NoRow => users[a] \in Row /\ GoodRow(users[a])
    BY DEF AInv, TypeOK
  <1>2. users[a] # NoRow => users[a].revision \in Nat
    BY <1>1 DEF Row
  <1>3. QED
    BY <1>1, <1>2 DEF RowStep

\* Such changes leave the names apart and the other requests as they were.
LEMMA RowsKept ==
    ASSUME AInv, RowsStep, users' \in [Accounts -> Row \cup {NoRow}], lastId' = lastId
    PROVE  /\ OneAccountPerName'
           /\ \A a \in Accounts : GoodRow(users'[a]) /\ (a > lastId' => users'[a] = NoRow)
           /\ \A r \in Requests : GoodRequest(request[r], users', lastId')
  <1>1. \A a \in Accounts : users'[a] # NoRow =>
            users[a] # NoRow /\ users'[a].name = users[a].name
    BY NoRowAssumption DEF RowsStep, RowStep
  <1>2. OneAccountPerName'
    BY <1>1 DEF OneAccountPerName, Exists, AInv
  <1>3. \A a \in Accounts : GoodRow(users'[a])
    BY DEF RowsStep, RowStep, GoodRow
  <1>4. \A a \in Accounts : a > lastId' => users'[a] = NoRow
    BY <1>1 DEF AInv
  <1>5. ASSUME NEW r \in Requests
        PROVE  GoodRequest(request[r], users', lastId')
    <2>1. GoodRequest(request[r], users, lastId)
      BY DEF AInv
    <2>2. request[r].pc \in OnSetUp => request[r].id \in Accounts
      BY <2>1 DEF GoodRequest, OnSetUp
    <2>3. request[r].pc \in OnSetUp /\ users'[request[r].id] # NoRow =>
              users'[request[r].id].auth # NoSecret
      BY <1>1, <2>1, <2>2 DEF GoodRequest, RowsStep, RowStep
    <2>4. QED
      BY <2>1, <2>3 DEF GoodRequest
  <1>6. QED
    BY <1>2, <1>3, <1>4, <1>5

\* A request goes on to q, or ends: the others are as they were.
LEMMA AwaitStep ==
    ASSUME AInv, NEW r \in Requests, NEW q \in Request, Await(r, q),
           GoodRequest(q, users', lastId'),
           \A x \in Requests : GoodRequest(request[x], users', lastId')
    PROVE  /\ request' \in [Requests -> Request]
           /\ \A x \in Requests : GoodRequest(request'[x], users', lastId')
  BY DEF Await, AInv, TypeOK

\* A free slot is in order, whatever the tables hold.
LEMMA IdleGood ==
    ASSUME NEW U, NEW L
    PROVE  Idle \in Request /\ GoodRequest(Idle, U, L)
  BY DEF Idle, Request, Steps, GoodRequest, OnSetUp

\* What a step may do to accounts: a row that is there is never created again, and
\* its password changes only in a change or a reset made for it.
Lawful ==
    \A a \in Accounts :
        users[a] # NoRow =>
            /\ RowStep(users[a], users'[a])
            /\ users[a].auth # NoSecret /\ users'[a] # NoRow
               /\ users'[a].auth # users[a].auth =>
                  \E r \in Requests : request[r].pc \in {"change", "reset"}
                                      /\ request[r].id = a

\* Sessions that disappear, while accounts stay, disturb nothing.
LEMMA FewerSessions ==
    ASSUME AInv, Lawful, sessions' \subseteq sessions,
           \A s \in sessions' : users[s.user] # NoRow => users'[s.user] # NoRow,
           drawn' >= drawn, drawn' \in Nat, resetAt' = resetAt
    PROVE  GoodSessions' /\ sessions' \subseteq Session
  <1>1. drawn \in Nat /\ drawn <= drawn'
    BY AccountsAssumption DEF AInv, TypeOK
  <1>2. sessions' \subseteq Session /\ \A s \in sessions' : s.user \in Accounts /\ s.token \in Nat
    BY DEF AInv, TypeOK, Session
  <1>3. \A s \in sessions' : Exists(s.user)' /\ users'[s.user].auth # NoSecret
    BY <1>2 DEF AInv, GoodSessions, SessionsOpenAccounts, Exists, Lawful, RowStep
  <1>4. \A s \in sessions' : s.token <= drawn' /\ s.token > resetAt'[s.user]
    BY <1>1, <1>2 DEF AInv, GoodSessions, NoTokenSurvivesReset
  <1>5. \A a \in Accounts : resetAt[a] \in Nat
    BY AccountsAssumption DEF AInv, TypeOK
  <1>6. \A a \in Accounts : resetAt'[a] <= drawn'
    BY <1>1, <1>5 DEF AInv, GoodSessions
  <1>7. QED
    BY <1>2, <1>3, <1>4, <1>6 DEF GoodSessions, SessionsOpenAccounts, NoTokenSurvivesReset

\* A secret that is drawn is a number within the bound.
LEMMA Drawn ==
    ASSUME AInv
    PROVE  /\ drawn \in Nat /\ lastId \in Nat
           /\ Draw => drawn' \in 0..MaxSecrets /\ drawn' = drawn + 1 /\ drawn' \in Nat
                      /\ drawn' > drawn /\ drawn + 1 # NoSecret
  BY AccountsAssumption DEF AInv, TypeOK, Draw, NoSecret

----------------------------------------------------------------------------
(* Requests that read, and requests that end *)

\* The table is left alone.
LEMMA UsersUnchanged ==
    ASSUME AInv, UNCHANGED users
    PROVE  RowsStep /\ Lawful
  BY RowUnchanged DEF RowsStep, Lawful

\* A step that only makes one request go on to q, or end.
LEMMA RequestOnlyStep ==
    ASSUME AInv, NEW r \in Requests, NEW q \in Request, Await(r, q),
           GoodRequest(q, users, lastId), UNCHANGED <<users, sessions, lastId, drawn, resetAt>>
    PROVE  AInv' /\ Lawful
  <1>1. RowsStep /\ Lawful
    BY UsersUnchanged
  <1>2. /\ OneAccountPerName'
        /\ \A a \in Accounts : GoodRow(users'[a]) /\ (a > lastId' => users'[a] = NoRow)
        /\ \A x \in Requests : GoodRequest(request[x], users', lastId')
    BY <1>1, RowsKept DEF AInv, TypeOK
  <1>3. /\ request' \in [Requests -> Request]
        /\ \A x \in Requests : GoodRequest(request'[x], users', lastId')
    BY <1>2, AwaitStep
  <1>4. GoodSessions'
    BY DEF AInv, GoodSessions, SessionsOpenAccounts, NoTokenSurvivesReset, Exists
  <1>5. TypeOK'
    BY <1>3 DEF AInv, TypeOK
  <1>6. QED
    BY <1>1, <1>2, <1>3, <1>4, <1>5 DEF AInv

\* A request that has read account a remembers it.
LEMMA ReadGood ==
    ASSUME AInv, NEW a \in Accounts, users[a] # NoRow, NEW q \in Request,
           q.pc # "insert", q.id = a, q.user = users[a],
           q.pc \in OnSetUp => users[a].auth # NoSecret
    PROVE  GoodRequest(q, users, lastId)
  <1>1. users[a] \in Row /\ a <= lastId
    BY AccountsAssumption DEF AInv, TypeOK, Accounts
  <1>2. QED
    BY <1>1 DEF GoodRequest

\* Requests refuse what they read, or go on with it.
LEMMA AnonymousRead ==
    ASSUME AInv, NEW r \in Requests, NEW a \in Accounts,
           \/ AdminReadInvite(r, a) \/ ReadToDisable(r, a)
           \/ Setup(r, a) \/ Login(r, a) \/ Recover(r, a)
    PROVE  AInv' /\ Lawful
  <1>1. users[a] # NoRow /\ users[a] \in Row /\ users[a].name \in Names /\ GoodRow(users[a])
    BY DEF AdminReadInvite, ReadToDisable, Setup, Login, Recover, Exists, AInv, TypeOK, Row
  <1>2. Idle \in Request /\ a \in Nat
    BY IdleGood, AccountsAssumption DEF Accounts
  <1>3. PICK q \in Request :
           /\ Await(r, q) /\ q.pc # "insert" /\ q.id = a /\ q.user = users[a]
           /\ q.pc \in OnSetUp => users[a].auth # NoSecret
    <2>1. CASE AdminReadInvite(r, a)
      <3> DEFINE q == [Idle EXCEPT !.pc = "invite", !.id = a, !.user = users[a]]
      <3>1. q \in Request /\ q.pc = "invite" /\ q.id = a /\ q.user = users[a]
        BY <1>1, <1>2 DEF Request, Steps
      <3>2. Await(r, q)
        BY <2>1 DEF AdminReadInvite
      <3>3. QED
        BY <3>1, <3>2 DEF OnSetUp
    <2>2. CASE ReadToDisable(r, a)
      <3> DEFINE q == [Idle EXCEPT !.pc = "disable", !.id = a, !.user = users[a]]
      <3>1. q \in Request /\ q.pc = "disable" /\ q.id = a /\ q.user = users[a]
        BY <1>1, <1>2 DEF Request, Steps
      <3>2. Await(r, q)
        BY <2>2 DEF ReadToDisable
      <3>3. QED
        BY <3>1, <3>2 DEF OnSetUp
    <2>3. CASE Setup(r, a)
      <3> DEFINE q == [Idle EXCEPT !.pc = "activate", !.id = a, !.user = users[a],
                                   !.name = users[a].name]
      <3>1. q \in Request /\ q.pc = "activate" /\ q.id = a /\ q.user = users[a]
        BY <1>1, <1>2 DEF Request, Steps
      <3>2. Await(r, q)
        BY <2>3 DEF Setup
      <3>3. QED
        BY <3>1, <3>2 DEF OnSetUp
    <2>4. CASE Login(r, a)
      <3> DEFINE q == [Idle EXCEPT !.pc = "grant", !.id = a, !.user = users[a]]
      <3>1. q \in Request /\ q.pc = "grant" /\ q.id = a /\ q.user = users[a]
        BY <1>1, <1>2 DEF Request, Steps
      <3>2. Await(r, q) /\ users[a].auth # NoSecret
        BY <1>1, <2>4 DEF Login, GoodRow
      <3>3. QED
        BY <3>1, <3>2
    <2>5. CASE Recover(r, a)
      <3> DEFINE q == [Idle EXCEPT !.pc = "reset", !.id = a, !.user = users[a]]
      <3>1. q \in Request /\ q.pc = "reset" /\ q.id = a /\ q.user = users[a]
        BY <1>1, <1>2 DEF Request, Steps
      <3>2. Await(r, q) /\ users[a].auth # NoSecret
        BY <1>1, <2>5 DEF Recover, GoodRow
      <3>3. QED
        BY <3>1, <3>2
    <2>6. QED
      BY <2>1, <2>2, <2>3, <2>4, <2>5
  <1>4. UNCHANGED <<users, sessions, lastId, drawn, resetAt>>
    BY DEF AdminReadInvite, ReadToDisable, Setup, Login, Recover
  <1>5. GoodRequest(q, users, lastId)
    BY <1>1, <1>3, ReadGood
  <1>6. QED
    BY <1>3, <1>4, <1>5, RequestOnlyStep

\* createUser finds the name free.
LEMMA RegisterStep ==
    ASSUME AInv, NEW r \in Requests, NEW n \in Names, Register(r, n)
    PROVE  AInv' /\ Lawful
  <1> DEFINE q == [Idle EXCEPT !.pc = "insert", !.name = n]
  <1>1. q \in Request /\ q.pc = "insert" /\ q.name = n
    BY IdleGood DEF Request, Steps
  <1>2. GoodRequest(q, users, lastId)
    BY <1>1 DEF GoodRequest, OnSetUp
  <1>3. Await(r, q) /\ UNCHANGED <<users, sessions, lastId, drawn, resetAt>>
    BY DEF Register
  <1> HIDE DEF q
  <1>4. QED
    BY <1>1, <1>2, <1>3, RequestOnlyStep

\* authed lets a request with a session of an active account go on.
LEMMA AuthedStep ==
    ASSUME AInv, NEW r \in Requests, NEW s \in sessions, NEW op, NEW q0 \in Request,
           q0.pc \in {"change", "put", "logout", "logoutAll"}, Authed(r, s, op, q0)
    PROVE  AInv' /\ Lawful
  <1> DEFINE q == [q0 EXCEPT !.id = s.user, !.user = users[s.user], !.token = s.token]
  <1>1. /\ s.user \in Accounts /\ s.user \in Nat /\ s.token \in Nat
        /\ users[s.user] # NoRow /\ users[s.user] \in Row /\ users[s.user].auth # NoSecret
    BY AccountsAssumption DEF AInv, TypeOK, Session, Accounts, GoodSessions, SessionsOpenAccounts, Exists
  <1>2. q \in Request /\ q.pc = q0.pc /\ q.id = s.user /\ q.user = users[s.user]
    BY <1>1 DEF Request
  <1>3. Await(r, q) /\ UNCHANGED <<users, sessions, lastId, drawn, resetAt>>
    BY DEF Authed
  <1> HIDE DEF q
  <1>4. GoodRequest(q, users, lastId)
    BY <1>1, <1>2, ReadGood
  <1>5. QED
    BY <1>2, <1>3, <1>4, RequestOnlyStep

\* The requests with a session.
LEMMA WithSessionRead ==
    ASSUME AInv, NEW r \in Requests, NEW s \in sessions,
           \/ ChangePassword(r, s) \/ VaultPut(r, s) \/ Logout(r, s) \/ LogoutAll(r, s)
    PROVE  AInv' /\ Lawful
  <1>1. Idle \in Request
    BY IdleGood
  <1>2. CASE ChangePassword(r, s)
    <2> DEFINE q == [Idle EXCEPT !.pc = "change"]
    <2>1. q \in Request /\ q.pc = "change" /\ Authed(r, s, "change", q)
      BY <1>1, <1>2 DEF ChangePassword, Request, Steps
    <2> HIDE DEF q
    <2>2. QED
      BY <2>1, AuthedStep
  <1>3. CASE VaultPut(r, s)
    <2>1. PICK base \in 1..MaxRevision :
             Authed(r, s, "put", [Idle EXCEPT !.pc = "put", !.base = base])
      BY <1>3 DEF VaultPut
    <2> DEFINE q == [Idle EXCEPT !.pc = "put", !.base = base]
    <2>2. base \in Nat
      OBVIOUS
    <2>3. q \in Request /\ q.pc = "put"
      BY <1>1, <2>2 DEF Request, Steps
    <2>4. Authed(r, s, "put", q)
      BY <2>1
    <2> HIDE DEF q
    <2>5. QED
      BY <2>3, <2>4, AuthedStep
  <1>4. CASE Logout(r, s)
    <2> DEFINE q == [Idle EXCEPT !.pc = "logout"]
    <2>1. q \in Request /\ q.pc = "logout" /\ Authed(r, s, "logout", q)
      BY <1>1, <1>4 DEF Logout, Request, Steps
    <2> HIDE DEF q
    <2>2. QED
      BY <2>1, AuthedStep
  <1>5. CASE LogoutAll(r, s)
    <2> DEFINE q == [Idle EXCEPT !.pc = "logoutAll"]
    <2>1. q \in Request /\ q.pc = "logoutAll" /\ Authed(r, s, "logoutAll", q)
      BY <1>1, <1>5 DEF LogoutAll, Request, Steps
    <2> HIDE DEF q
    <2>2. QED
      BY <2>1, AuthedStep
  <1>6. QED
    BY <1>2, <1>3, <1>4, <1>5

----------------------------------------------------------------------------
(* Statements that change rows, or only remove *)

\* The invariant after a statement on rows that are there, when requests only end and
\* sessions only disappear.
LEMMA EndStep ==
    ASSUME AInv, RowsStep, Lawful,
           users' \in [Accounts -> Row \cup {NoRow}], lastId' = lastId,
           drawn' \in 0..MaxSecrets, drawn' >= drawn, resetAt' = resetAt,
           sessions' \subseteq sessions,
           \A s \in sessions' : users[s.user] # NoRow => users'[s.user] # NoRow,
           request' \in [Requests -> Request],
           \A x \in Requests : request'[x] \in {request[x], Idle}
    PROVE  AInv'
  <1>1. /\ OneAccountPerName'
        /\ \A a \in Accounts : GoodRow(users'[a]) /\ (a > lastId' => users'[a] = NoRow)
        /\ \A x \in Requests : GoodRequest(request[x], users', lastId')
    BY RowsKept
  <1>2. \A x \in Requests : GoodRequest(request'[x], users', lastId')
    BY <1>1, IdleGood
  <1>3. GoodSessions' /\ sessions' \subseteq Session
    BY FewerSessions, AccountsAssumption
  <1>4. TypeOK'
    BY <1>3 DEF AInv, TypeOK
  <1>5. QED
    BY <1>1, <1>2, <1>3, <1>4 DEF AInv

\* A request that is answered frees its slot.
LEMMA Finished ==
    ASSUME AInv, NEW r \in Requests, Finish(r)
    PROVE  /\ request' \in [Requests -> Request]
           /\ \A x \in Requests : request'[x] \in {request[x], Idle}
  BY IdleGood DEF Finish, Await, AInv, TypeOK

\* The request, its account and the row it read.
LEMMA RequestFacts ==
    ASSUME AInv, NEW r \in Requests
    PROVE  /\ request[r] \in Request
           /\ GoodRequest(request[r], users, lastId)
           /\ request[r].pc \notin {"idle", "insert"} =>
                 request[r].id \in Accounts /\ request[r].user \in Row
  BY DEF AInv, TypeOK, GoodRequest

\* An account is deleted, with its sessions.
LEMMA DeleteUserStep ==
    ASSUME AInv, NEW a \in Accounts, DeleteUser(a)
    PROVE  AInv' /\ Lawful
  <1>1. /\ users' = [users EXCEPT ![a] = NoRow] /\ sessions' = {s \in sessions : s.user # a}
        /\ UNCHANGED <<request, lastId, drawn, resetAt>>
    BY DEF DeleteUser, Cascaded
  <1>2. users' \in [Accounts -> Row \cup {NoRow}] /\ users'[a] = NoRow
        /\ \A b \in Accounts : b # a => users'[b] = users[b]
    BY <1>1 DEF AInv, TypeOK
  <1>3. RowsStep
    BY <1>2, RowUnchanged DEF RowsStep, RowStep
  <1>4. Lawful
    BY <1>2, <1>3 DEF RowsStep, Lawful
  <1>5. \A s \in sessions : s.user \in Accounts
    BY DEF AInv, TypeOK, Session
  <1>6. drawn \in 0..MaxSecrets /\ drawn >= drawn /\ request \in [Requests -> Request]
    BY Drawn DEF AInv, TypeOK
  <1>7. QED
    BY <1>1, <1>2, <1>3, <1>4, <1>5, <1>6, EndStep

\* A new invite for an account still pending.
LEMMA InviteStep ==
    ASSUME AInv, NEW n, ResetInviteToken(n), UNCHANGED <<sessions, lastId, resetAt>>,
           \/ UNCHANGED request
           \/ \E r \in Requests : Finish(r)
    PROVE  AInv' /\ Lawful
  <1>1. /\ drawn' \in 0..MaxSecrets /\ drawn' >= drawn
        /\ drawn \in Nat /\ drawn + 1 \in Nat
    BY Drawn DEF ResetInviteToken
  <1>2. ASSUME NEW a \in Accounts
        PROVE  /\ RowStep(users[a], users'[a])
               /\ users'[a] \in Row \cup {NoRow}
               /\ users[a] # NoRow => users'[a] # NoRow /\ users'[a].auth = users[a].auth
    <2>1. CASE users'[a] = users[a]
      BY <2>1, RowUnchanged DEF AInv, TypeOK
    <2>2. CASE users'[a] # users[a]
      <3>1. /\ users[a] # NoRow /\ users[a] \in Row /\ users[a].status = "pending"
            /\ users'[a] = [users[a] EXCEPT !.invite = drawn + 1]
        BY <2>2 DEF ResetInviteToken, Named, AInv, TypeOK
      <3>2. GoodRow(users[a])
        BY DEF AInv
      <3>3. /\ users'[a] \in Row /\ users'[a].name = users[a].name
            /\ users'[a].status = users[a].status /\ users'[a].auth = users[a].auth
            /\ users'[a].recovery = users[a].recovery
            /\ users'[a].revision = users[a].revision /\ users[a].revision \in Nat
        BY <1>1, <3>1 DEF Row
      <3>4. GoodRow(users'[a])
        BY <3>1, <3>2, <3>3 DEF GoodRow
      <3>5. QED
        BY <3>1, <3>3, <3>4, NoRowAssumption DEF RowStep
    <2>3. QED
      BY <2>1, <2>2
  <1>3. users' \in [Accounts -> Row \cup {NoRow}]
    BY <1>2 DEF ResetInviteToken
  <1>4. RowsStep /\ Lawful
    BY <1>2 DEF RowsStep, Lawful
  <1>5. /\ request' \in [Requests -> Request]
        /\ \A x \in Requests : request'[x] \in {request[x], Idle}
    BY Finished DEF AInv, TypeOK
  <1>6. \A s \in sessions : s.user \in Accounts
    BY DEF AInv, TypeOK, Session
  <1>7. QED
    BY <1>1, <1>2, <1>3, <1>4, <1>5, <1>6, EndStep

\* An UPDATE of one row, its password apart.
LEMMA RowChanged ==
    ASSUME AInv, NEW a \in Accounts, users[a] # NoRow, NEW v \in Row,
           users' = [users EXCEPT ![a] = v], RowStep(users[a], v),
           v.auth = users[a].auth \/ users[a].auth = NoSecret
    PROVE  /\ users' \in [Accounts -> Row \cup {NoRow}]
           /\ RowsStep /\ Lawful
           /\ users'[a] = v
           /\ \A b \in Accounts : users[b] # NoRow => users'[b] # NoRow
  <1>1. users' \in [Accounts -> Row \cup {NoRow}] /\ users'[a] = v
        /\ \A b \in Accounts : b # a => users'[b] = users[b]
    BY DEF AInv, TypeOK
  <1>2. RowsStep
    BY <1>1, RowUnchanged DEF RowsStep
  <1>3. Lawful
    BY <1>1, <1>2 DEF RowsStep, Lawful
  <1>4. QED
    BY <1>1, <1>2, <1>3, NoRowAssumption

\* disableUser sets the status by id.
LEMMA SetUserStatusStep ==
    ASSUME AInv, NEW r \in Requests, SetUserStatus(r)
    PROVE  AInv' /\ Lawful
  <1> DEFINE a == request[r].id
  <1>1. a \in Accounts
    BY RequestFacts DEF SetUserStatus
  <1>2. /\ Finish(r) /\ UNCHANGED <<sessions, lastId, drawn, resetAt>>
        /\ users' = IF Exists(a) THEN [users EXCEPT ![a].status = "disabled"] ELSE users
    BY DEF SetUserStatus
  <1> HIDE DEF a
  <1>3. /\ users' \in [Accounts -> Row \cup {NoRow}] /\ RowsStep /\ Lawful
        /\ \A b \in Accounts : users[b] # NoRow => users'[b] # NoRow
    <2>1. CASE users[a] = NoRow
      BY <1>1, <1>2, <2>1, UsersUnchanged DEF Exists, AInv, TypeOK
    <2>2. CASE users[a] # NoRow
      <3> DEFINE v == [users[a] EXCEPT !.status = "disabled"]
      <3>1. users[a] \in Row /\ GoodRow(users[a]) /\ users[a].revision \in Nat
        BY <1>1, <2>2 DEF AInv, TypeOK, Row
      <3>2. /\ v \in Row /\ v.status = "disabled" /\ v.name = users[a].name
            /\ v.auth = users[a].auth /\ v.recovery = users[a].recovery
            /\ v.revision = users[a].revision
        BY <3>1 DEF Row
      <3>3. users' = [users EXCEPT ![a] = v]
        BY <1>1, <1>2, <2>2 DEF Exists
      <3> HIDE DEF v
      <3>4. GoodRow(v)
        BY <2>2, <3>1, <3>2 DEF GoodRow
      <3>5. RowStep(users[a], v)
        BY <3>1, <3>2, <3>4 DEF RowStep
      <3>6. QED
        BY <1>1, <2>2, <3>2, <3>3, <3>5, RowChanged
    <2>3. QED
      BY <2>1, <2>2
  <1>4. drawn \in 0..MaxSecrets /\ drawn >= drawn /\ \A s \in sessions : s.user \in Accounts
    BY Drawn DEF AInv, TypeOK, Session
  <1>5. QED
    BY <1>2, <1>3, <1>4, Finished, EndStep

\* UpdateVault: the revision rises by one, or nothing changes.
LEMMA UpdateVaultStep ==
    ASSUME AInv, NEW r \in Requests, UpdateVault(r)
    PROVE  AInv' /\ Lawful
  <1> DEFINE a == request[r].id
             base == request[r].base
  <1>1. a \in Accounts /\ base \in Nat
    BY RequestFacts DEF UpdateVault, Request
  <1>2. /\ Finish(r) /\ UNCHANGED <<sessions, lastId, drawn, resetAt>>
        /\ \/ /\ Exists(a) /\ users[a].revision = base
              /\ users' = [users EXCEPT ![a].revision = base + 1]
           \/ UNCHANGED users
    BY DEF UpdateVault
  <1> HIDE DEF a, base
  <1>3. /\ users' \in [Accounts -> Row \cup {NoRow}] /\ RowsStep /\ Lawful
        /\ \A b \in Accounts : users[b] # NoRow => users'[b] # NoRow
    <2>1. CASE UNCHANGED users
      BY <2>1, UsersUnchanged DEF AInv, TypeOK
    <2>2. CASE /\ Exists(a) /\ users[a].revision = base
               /\ users' = [users EXCEPT ![a].revision = base + 1]
      <3> DEFINE v == [users[a] EXCEPT !.revision = base + 1]
      <3>1. users[a] # NoRow /\ users[a] \in Row /\ GoodRow(users[a])
        BY <1>1, <2>2 DEF Exists, AInv, TypeOK
      <3>2. /\ v \in Row /\ v.status = users[a].status /\ v.name = users[a].name
            /\ v.auth = users[a].auth /\ v.recovery = users[a].recovery
            /\ v.revision >= users[a].revision
        BY <1>1, <2>2, <3>1 DEF Row
      <3>3. users' = [users EXCEPT ![a] = v]
        BY <1>1, <2>2
      <3> HIDE DEF v
      <3>4. GoodRow(v)
        BY <3>1, <3>2 DEF GoodRow
      <3>5. RowStep(users[a], v)
        BY <3>1, <3>2, <3>4 DEF RowStep
      <3>6. QED
        BY <1>1, <3>1, <3>2, <3>3, <3>5, RowChanged
    <2>3. QED
      BY <1>2, <2>1, <2>2
  <1>4. drawn \in 0..MaxSecrets /\ drawn >= drawn /\ \A s \in sessions : s.user \in Accounts
    BY Drawn DEF AInv, TypeOK, Session
  <1>5. QED
    BY <1>2, <1>3, <1>4, Finished, EndStep

\* Sessions end: a logout, a logout everywhere, the end of a password change, expiry;
\* a crash ends requests.
LEMMA RemovalStep ==
    ASSUME AInv, UNCHANGED <<users, lastId, drawn, resetAt>>, sessions' \subseteq sessions,
           request' \in [Requests -> Request],
           \A x \in Requests : request'[x] \in {request[x], Idle}
    PROVE  AInv' /\ Lawful
  <1>1. RowsStep /\ Lawful
    BY UsersUnchanged
  <1>2. drawn \in 0..MaxSecrets /\ drawn >= drawn /\ users' \in [Accounts -> Row \cup {NoRow}]
    BY Drawn DEF AInv, TypeOK
  <1>3. QED
    BY <1>1, <1>2, EndStep

\* The statements that end sessions, and the crash.
LEMMA EndsStep ==
    ASSUME AInv,
           \/ \E r \in Requests : DeleteOtherSessions(r) \/ DeleteSession(r) \/ DeleteAllSessions(r)
           \/ \E s \in sessions : Expire(s)
           \/ Crash
    PROVE  AInv' /\ Lawful
  <1>1. CASE \E s \in sessions : Expire(s)
    BY <1>1, RemovalStep DEF Expire, AInv, TypeOK
  <1>2. CASE Crash
    BY <1>2, IdleGood, RemovalStep DEF Crash
  <1>3. CASE \E r \in Requests : DeleteOtherSessions(r) \/ DeleteSession(r) \/ DeleteAllSessions(r)
    <2>1. PICK r \in Requests : DeleteOtherSessions(r) \/ DeleteSession(r) \/ DeleteAllSessions(r)
      BY <1>3
    <2>2. /\ sessions' \subseteq sessions /\ Finish(r)
          /\ UNCHANGED <<users, lastId, drawn, resetAt>>
      BY <2>1 DEF DeleteOtherSessions, DeleteSession, DeleteAllSessions
    <2>3. QED
      BY <2>2, Finished, RemovalStep
  <1>4. QED
    BY <1>1, <1>2, <1>3

----------------------------------------------------------------------------
(* Setup, sessions and passwords *)

\* A row as setup leaves it.
LEMMA ConfiguredRow ==
    ASSUME AInv, Draw, NEW n \in Names, NEW key \in {NoSecret, drawn + 1}
    PROVE  /\ Configured(n, key) \in Row
           /\ Configured(n, key).name = n
           /\ Configured(n, key).auth = drawn + 1
           /\ Configured(n, key).status = "active"
           /\ GoodRow(Configured(n, key))
  BY Drawn DEF Configured, Row, NoSecret, GoodRow

\* The request that set an account up goes on to create its session.
LEMMA GrantGood ==
    ASSUME NEW r \in Requests, AInv, NEW a \in Accounts, NEW u \in Row, NEW U, NEW L, a <= L,
           U[a] = u, u.auth # NoSecret
    PROVE  /\ [request[r] EXCEPT !.pc = "grant", !.id = a, !.user = u] \in Request
           /\ GoodRequest([request[r] EXCEPT !.pc = "grant", !.id = a, !.user = u], U, L)
  <1> DEFINE q == [request[r] EXCEPT !.pc = "grant", !.id = a, !.user = u]
  <1>1. request[r] \in Request /\ a \in Nat
    BY RequestFacts, AccountsAssumption DEF Accounts
  <1>2. q \in Request /\ q.pc = "grant" /\ q.id = a /\ q.user = u
    BY <1>1 DEF Request, Steps
  <1> HIDE DEF q
  <1>3. GoodRequest(q, U, L)
    BY <1>2 DEF GoodRequest
  <1>4. QED
    BY <1>2, <1>3 DEF q

\* ActivateUser: only a pending account is set up.
LEMMA ActivateUserStep ==
    ASSUME AInv, NEW r \in Requests, ActivateUser(r)
    PROVE  AInv' /\ Lawful
  <1> DEFINE a == request[r].id
  <1>1. a \in Accounts /\ a <= lastId /\ request[r] \in Request
    BY RequestFacts DEF ActivateUser, GoodRequest
  <1>2. UNCHANGED <<sessions, lastId, resetAt>>
    BY DEF ActivateUser
  <1>3. CASE Finish(r) /\ UNCHANGED <<users, drawn>>
    BY <1>2, <1>3, Finished, RemovalStep
  <1>4. CASE /\ MayActivate(a)
             /\ Draw
             /\ \E key \in {NoSecret, drawn + 1} :
                   LET u == Configured(users[a].name, key) IN
                   /\ users' = [users EXCEPT ![a] = u]
                   /\ Await(r, [request[r] EXCEPT !.pc = "grant", !.user = u])
    <2>1. /\ users[a] # NoRow /\ users[a] \in Row /\ users[a].status = "pending"
          /\ users[a].name \in Names /\ users[a].auth = NoSecret
      BY <1>1, <1>4 DEF MayActivate, Exists, AInv, TypeOK, Row, GoodRow
    <2>2. PICK key \in {NoSecret, drawn + 1} :
             /\ users' = [users EXCEPT ![a] = Configured(users[a].name, key)]
             /\ Await(r, [request[r] EXCEPT !.pc = "grant",
                                            !.user = Configured(users[a].name, key)])
      BY <1>4
    <2> DEFINE u == Configured(users[a].name, key)
               q == [request[r] EXCEPT !.pc = "grant", !.user = u]
    <2>3. /\ u \in Row /\ u.name = users[a].name /\ u.auth = drawn + 1
          /\ u.status = "active" /\ GoodRow(u)
      BY <1>4, <2>1, ConfiguredRow
    <2>4. users' = [users EXCEPT ![a] = u] /\ Await(r, q)
      BY <2>2
    <2> HIDE DEF u
    <2>5. RowStep(users[a], u)
      BY <2>1, <2>3 DEF RowStep
    <2>6. /\ users' \in [Accounts -> Row \cup {NoRow}] /\ RowsStep /\ Lawful
          /\ users'[a] = u
          /\ \A b \in Accounts : users[b] # NoRow => users'[b] # NoRow
      BY <1>1, <2>1, <2>3, <2>4, <2>5, RowChanged
    <2>7. drawn' \in 0..MaxSecrets /\ drawn' >= drawn /\ u.auth # NoSecret /\ drawn' \in Nat
      BY <1>4, <2>3, Drawn
    <2>8. q = [request[r] EXCEPT !.pc = "grant", !.id = a, !.user = u]
      BY <1>1 DEF Request
    <2>9. q \in Request /\ GoodRequest(q, users', lastId')
      BY <1>1, <1>2, <2>3, <2>6, <2>7, <2>8, GrantGood
    <2> HIDE DEF q
    <2>10. /\ OneAccountPerName'
           /\ \A b \in Accounts : GoodRow(users'[b]) /\ (b > lastId' => users'[b] = NoRow)
           /\ \A x \in Requests : GoodRequest(request[x], users', lastId')
      BY <1>2, <2>6, RowsKept
    <2>11. /\ request' \in [Requests -> Request]
           /\ \A x \in Requests : GoodRequest(request'[x], users', lastId')
      BY <2>4, <2>9, <2>10, AwaitStep
    <2>12. \A s \in sessions : s.user \in Accounts
      BY DEF AInv, TypeOK, Session
    <2>13. GoodSessions' /\ sessions' \subseteq Session
      BY <1>2, <2>6, <2>7, <2>12, FewerSessions
    <2>14. TypeOK'
      BY <1>2, <2>6, <2>7, <2>11, <2>13 DEF AInv, TypeOK
    <2>15. QED
      BY <2>6, <2>10, <2>11, <2>13, <2>14 DEF AInv
  <1>5. QED
    BY <1>3, <1>4 DEF ActivateUser

\* A row is inserted for a name that is free, at an id that was never used.
LEMMA RowAdded ==
    ASSUME AInv, NEW u \in Row, GoodRow(u), Free(u.name), lastId < MaxAccounts,
           lastId' = lastId + 1, users' = [users EXCEPT ![lastId + 1] = u], Draw,
           UNCHANGED <<sessions, resetAt>>
    PROVE  /\ users' \in [Accounts -> Row \cup {NoRow}] /\ lastId' \in 0..MaxAccounts
           /\ drawn' \in 0..MaxSecrets
           /\ lastId + 1 \in Accounts /\ users'[lastId + 1] = u
           /\ OneAccountPerName' /\ GoodSessions' /\ sessions' \subseteq Session
           /\ \A a \in Accounts : GoodRow(users'[a]) /\ (a > lastId' => users'[a] = NoRow)
           /\ \A x \in Requests : GoodRequest(request[x], users', lastId')
           /\ Lawful
  <1> DEFINE b == lastId + 1
  <1>1. b \in Accounts /\ lastId \in Nat /\ lastId' \in 0..MaxAccounts /\ Accounts \subseteq Nat
    BY Drawn, AccountsAssumption DEF Accounts
  <1>2. /\ users \in [Accounts -> Row \cup {NoRow}] /\ users[b] = NoRow
        /\ users' \in [Accounts -> Row \cup {NoRow}] /\ users'[b] = u
        /\ \A a \in Accounts : a # b => users'[a] = users[a]
    BY <1>1 DEF AInv, TypeOK
  <1>3. \A a \in Accounts : users[a] # NoRow => users'[a] = users[a]
    BY <1>2
  <1>4. Lawful
    BY <1>3, RowUnchanged DEF Lawful
  <1>5. OneAccountPerName'
    <2>1. SUFFICES ASSUME NEW x \in Accounts, NEW y \in Accounts, users'[x] # NoRow,
                          users'[y] # NoRow, users'[x].name = users'[y].name
                   PROVE  x = y
      BY DEF OneAccountPerName, Exists
    <2>2. \A z \in Accounts : users[z] # NoRow => users[z].name # u.name
      BY DEF Free, Named
    <2>3. CASE x # b /\ y # b
      BY <1>2, <2>1, <2>3 DEF AInv, OneAccountPerName, Exists
    <2>4. CASE x = b \/ y = b
      BY <1>2, <2>1, <2>2, <2>4
    <2>5. QED
      BY <2>3, <2>4
  <1>6. \A a \in Accounts : GoodRow(users'[a]) /\ (a > lastId' => users'[a] = NoRow)
    BY <1>1, <1>2 DEF AInv
  <1>7. ASSUME NEW x \in Requests
        PROVE  GoodRequest(request[x], users', lastId')
    <2>1. GoodRequest(request[x], users, lastId) /\ request[x].id \in Nat
      BY RequestFacts DEF Request
    <2>2. request[x].pc \in OnSetUp =>
              request[x].id \in Accounts /\ request[x].id # b
      BY <1>1, <2>1 DEF GoodRequest, OnSetUp
    <2>3. QED
      BY <1>1, <1>2, <2>1, <2>2 DEF GoodRequest
  <1>8. drawn' \in 0..MaxSecrets /\ drawn' >= drawn /\ drawn' \in Nat
    BY Drawn
  <1>9. \A s \in sessions' : users[s.user] # NoRow => users'[s.user] # NoRow
    BY <1>3 DEF AInv, TypeOK, Session
  <1>10. GoodSessions' /\ sessions' \subseteq Session
    BY <1>4, <1>8, <1>9, FewerSessions
  <1>11. QED
    BY <1>1, <1>2, <1>4, <1>5, <1>6, <1>7, <1>8, <1>10

\* An invited account is created.
LEMMA CreatePendingUserStep ==
    ASSUME AInv, NEW n \in Names, CreatePendingUser(n)
    PROVE  AInv' /\ Lawful
  <1> DEFINE u == [name |-> n, status |-> "pending", invite |-> drawn + 1,
                   auth |-> NoSecret, recovery |-> NoSecret, revision |-> 0]
  <1>1. u \in Row /\ u.name = n /\ GoodRow(u)
    BY Drawn DEF Row, GoodRow, NoSecret
  <1>2. /\ users' = [users EXCEPT ![lastId + 1] = u] /\ lastId' = lastId + 1 /\ Draw
        /\ lastId < MaxAccounts /\ Free(n) /\ UNCHANGED <<sessions, request, resetAt>>
    BY DEF CreatePendingUser
  <1> HIDE DEF u
  <1>3. /\ users' \in [Accounts -> Row \cup {NoRow}] /\ lastId' \in 0..MaxAccounts
        /\ drawn' \in 0..MaxSecrets
        /\ OneAccountPerName' /\ GoodSessions' /\ sessions' \subseteq Session
        /\ \A a \in Accounts : GoodRow(users'[a]) /\ (a > lastId' => users'[a] = NoRow)
        /\ \A x \in Requests : GoodRequest(request[x], users', lastId')
        /\ Lawful
    BY <1>1, <1>2, RowAdded
  <1>4. TypeOK'
    BY <1>2, <1>3 DEF AInv, TypeOK
  <1>5. QED
    BY <1>2, <1>3, <1>4 DEF AInv

\* A registration inserts its row, or finds that the name has been taken.
LEMMA InsertUserStep ==
    ASSUME AInv, NEW r \in Requests, InsertUser(r)
    PROVE  AInv' /\ Lawful
  <1> DEFINE n == request[r].name
             b == lastId + 1
  <1>1. n \in Names /\ request[r] \in Request
    BY RequestFacts DEF InsertUser, GoodRequest
  <1>2. CASE Finish(r) /\ UNCHANGED <<users, lastId, drawn, sessions, resetAt>>
    BY <1>2, Finished, RemovalStep
  <1>3. CASE /\ Free(n) /\ lastId < MaxAccounts /\ Draw /\ lastId' = b
             /\ UNCHANGED <<sessions, resetAt>>
             /\ \E key \in {NoSecret, drawn + 1} :
                   LET u == Configured(n, key) IN
                   /\ users' = [users EXCEPT ![b] = u]
                   /\ Await(r, [request[r] EXCEPT !.pc = "grant", !.id = b, !.user = u])
    <2>1. PICK key \in {NoSecret, drawn + 1} :
             /\ users' = [users EXCEPT ![b] = Configured(n, key)]
             /\ Await(r, [request[r] EXCEPT !.pc = "grant", !.id = b,
                                            !.user = Configured(n, key)])
      BY <1>3
    <2> DEFINE u == Configured(n, key)
               q == [request[r] EXCEPT !.pc = "grant", !.id = b, !.user = u]
    <2>2. u \in Row /\ u.name = n /\ u.auth = drawn + 1 /\ GoodRow(u)
      BY <1>1, <1>3, ConfiguredRow
    <2>3. users' = [users EXCEPT ![b] = u] /\ Await(r, q)
      BY <2>1
    <2> HIDE DEF u
    <2>4. /\ users' \in [Accounts -> Row \cup {NoRow}] /\ lastId' \in 0..MaxAccounts
          /\ drawn' \in 0..MaxSecrets
          /\ b \in Accounts /\ users'[b] = u
          /\ OneAccountPerName' /\ GoodSessions' /\ sessions' \subseteq Session
          /\ \A a \in Accounts : GoodRow(users'[a]) /\ (a > lastId' => users'[a] = NoRow)
          /\ \A x \in Requests : GoodRequest(request[x], users', lastId')
          /\ Lawful
      BY <1>3, <2>2, <2>3, RowAdded
    <2>5. u.auth # NoSecret /\ b <= lastId'
      BY <1>3, <2>2, Drawn
    <2>6. q \in Request /\ GoodRequest(q, users', lastId')
      BY <2>2, <2>4, <2>5, GrantGood
    <2> HIDE DEF q
    <2>7. /\ request' \in [Requests -> Request]
          /\ \A x \in Requests : GoodRequest(request'[x], users', lastId')
      BY <2>3, <2>4, <2>6, AwaitStep
    <2>8. TypeOK'
      BY <1>3, <2>4, <2>7 DEF AInv, TypeOK
    <2>9. QED
      BY <2>4, <2>7, <2>8 DEF AInv
  <1>4. QED
    BY <1>2, <1>3 DEF InsertUser

\* A session is created for an account that is still there, with a token never used.
LEMMA CreateSessionStep ==
    ASSUME AInv, NEW r \in Requests, CreateSession(r)
    PROVE  AInv' /\ Lawful
  <1> DEFINE a == request[r].id
  <1>1. /\ a \in Accounts /\ request[r].user.auth \in Nat
        /\ users[a] # NoRow => users[a].auth # NoSecret
    BY RequestFacts DEF CreateSession, GoodRequest, OnSetUp, Steps, Row
  <1>2. UNCHANGED <<users, lastId, resetAt>> /\ Finish(r)
    BY DEF CreateSession
  <1>3. CASE UNCHANGED <<sessions, drawn>>
    BY <1>2, <1>3, Finished, RemovalStep
  <1>4. CASE /\ MayHaveSession(a)
             /\ Draw
             /\ sessions' = sessions \cup
                   {[token |-> drawn + 1, user |-> a, grant |-> request[r].user.auth]}
    <2>1. /\ drawn' \in 0..MaxSecrets /\ drawn' = drawn + 1 /\ drawn' \in Nat /\ drawn' > drawn
          /\ drawn \in Nat
      BY <1>4, Drawn
    <2> DEFINE new == [token |-> drawn + 1, user |-> a, grant |-> request[r].user.auth]
    <2>2. /\ new \in Session /\ new.token = drawn' /\ new.user = a
          /\ sessions' = sessions \cup {new}
      BY <1>1, <1>4, <2>1 DEF Session
    <2> HIDE DEF new
    <2>3. sessions' \subseteq Session
      BY <2>2 DEF AInv, TypeOK
    <2>4. RowsStep /\ Lawful
      BY <1>2, UsersUnchanged
    <2>5. /\ OneAccountPerName'
          /\ \A b \in Accounts : GoodRow(users'[b]) /\ (b > lastId' => users'[b] = NoRow)
          /\ \A x \in Requests : GoodRequest(request[x], users', lastId')
      BY <1>2, <2>4, RowsKept DEF AInv, TypeOK
    <2>6. /\ request' \in [Requests -> Request]
          /\ \A x \in Requests : GoodRequest(request'[x], users', lastId')
      BY <1>2, <2>5, Finished, IdleGood
    <2>7. GoodSessions'
      <3>1. \A b \in Accounts : resetAt[b] \in Nat /\ resetAt[b] <= drawn
        BY AccountsAssumption DEF AInv, TypeOK, GoodSessions
      <3>2. \A s \in sessions : s.user \in Accounts /\ s.token \in Nat /\ s.token <= drawn
                                /\ s.token > resetAt[s.user]
        BY DEF AInv, TypeOK, Session, GoodSessions, NoTokenSurvivesReset
      <3>3. \A s \in sessions' : users[s.user] # NoRow /\ users[s.user].auth # NoSecret
                                 /\ s.user \in Accounts
        BY <1>1, <1>4, <2>2, <3>2
           DEF MayHaveSession, Exists, AInv, GoodSessions, SessionsOpenAccounts
      <3>4. \A s \in sessions' : s.token <= drawn' /\ s.token > resetAt[s.user]
        BY <1>1, <2>1, <2>2, <3>1, <3>2
      <3>5. QED
        BY <1>2, <2>1, <3>1, <3>3, <3>4
           DEF GoodSessions, SessionsOpenAccounts, NoTokenSurvivesReset, Exists
    <2>8. TypeOK'
      BY <1>2, <2>1, <2>3, <2>6 DEF AInv, TypeOK
    <2>9. QED
      BY <2>4, <2>5, <2>6, <2>7, <2>8 DEF AInv
  <1>5. QED
    BY <1>3, <1>4 DEF CreateSession

\* UpdateAuthMaterial for an account found set up: the row of that id, if it is still
\* there, has been set up all the time.
LEMMA AuthChanged ==
    ASSUME AInv, NEW r \in Requests, request[r].pc \in {"change", "reset"}, Draw,
           NEW key \in {NoSecret, drawn + 1}, UpdateAuthMaterial(request[r].id, key)
    PROVE  /\ users' \in [Accounts -> Row \cup {NoRow}] /\ RowsStep /\ Lawful
           /\ \A b \in Accounts : users[b] # NoRow => users'[b] # NoRow
  <1> DEFINE a == request[r].id
  <1>1. a \in Accounts /\ (users[a] # NoRow => users[a].auth # NoSecret)
    BY RequestFacts DEF GoodRequest, OnSetUp, Steps
  <1>2. users' = IF Exists(a)
                 THEN [users EXCEPT ![a].auth = drawn + 1, ![a].recovery = key] ELSE users
    BY DEF UpdateAuthMaterial
  <1>3. request[r].pc \in {"change", "reset"} /\ request[r].id = a
    OBVIOUS
  <1> HIDE DEF a
  <1>4. CASE users[a] = NoRow
    BY <1>1, <1>2, <1>4, UsersUnchanged DEF Exists, AInv, TypeOK
  <1>5. CASE users[a] # NoRow
    <2> DEFINE v == [users[a] EXCEPT !.auth = drawn + 1, !.recovery = key]
    <2>1. /\ users \in [Accounts -> Row \cup {NoRow}]
          /\ users[a] \in Row /\ GoodRow(users[a]) /\ users[a].revision \in Nat
      BY <1>1, <1>5 DEF AInv, TypeOK, Row
    <2>2. drawn + 1 \in Nat /\ key \in Nat /\ drawn + 1 # NoSecret
      BY Drawn DEF NoSecret
    <2>3. /\ v \in Row /\ v.status = users[a].status /\ v.name = users[a].name
          /\ v.auth = drawn + 1 /\ v.revision = users[a].revision
      BY <2>1, <2>2 DEF Row
    <2>4. users' = [users EXCEPT ![a] = v]
      BY <1>1, <1>2, <1>5, <2>1 DEF Exists
    <2> HIDE DEF v
    <2>5. GoodRow(v)
      BY <1>1, <1>5, <2>1, <2>2, <2>3 DEF GoodRow
    <2>6. RowStep(users[a], v)
      BY <2>1, <2>2, <2>3, <2>5 DEF RowStep
    <2>7. /\ users' \in [Accounts -> Row \cup {NoRow}] /\ users'[a] = v
          /\ \A b \in Accounts : b # a => users'[b] = users[b]
      BY <1>1, <2>1, <2>3, <2>4
    <2>8. RowsStep
      BY <2>6, <2>7, RowUnchanged DEF RowsStep
    <2>9. Lawful
      BY <1>3, <2>7, <2>8 DEF RowsStep, Lawful
    <2>10. QED
      BY <2>3, <2>7, <2>8, <2>9, NoRowAssumption
  <1>6. QED
    BY <1>4, <1>5

\* The password is changed; the other sessions are still there.
LEMMA PasswordChangedStep ==
    ASSUME AInv, NEW r \in Requests, PasswordChanged(r)
    PROVE  AInv' /\ Lawful
  <1>1. PICK key \in {NoSecret, drawn + 1} : UpdateAuthMaterial(request[r].id, key)
    BY DEF PasswordChanged
  <1>2. /\ request[r].pc = "change" /\ Draw /\ UNCHANGED <<sessions, lastId, resetAt>>
        /\ Await(r, [request[r] EXCEPT !.pc = "revoke"])
    BY DEF PasswordChanged, Proceed
  <1>3. /\ users' \in [Accounts -> Row \cup {NoRow}] /\ RowsStep /\ Lawful
        /\ \A b \in Accounts : users[b] # NoRow => users'[b] # NoRow
    BY <1>1, <1>2, AuthChanged
  <1>4. /\ OneAccountPerName'
        /\ \A b \in Accounts : GoodRow(users'[b]) /\ (b > lastId' => users'[b] = NoRow)
        /\ \A x \in Requests : GoodRequest(request[x], users', lastId')
    BY <1>2, <1>3, RowsKept
  <1> DEFINE q == [request[r] EXCEPT !.pc = "revoke"]
  <1>5. request[r] \in Request
    BY RequestFacts
  <1>6. /\ q \in Request /\ q.pc = "revoke" /\ q.id = request[r].id
        /\ q.user = request[r].user
    BY <1>5 DEF Request, Steps
  <1>7. Await(r, q)
    BY <1>2
  <1> HIDE DEF q
  <1>8. GoodRequest(q, users', lastId')
    BY <1>2, <1>4, <1>6 DEF GoodRequest, OnSetUp, Steps
  <1>9. /\ request' \in [Requests -> Request]
        /\ \A x \in Requests : GoodRequest(request'[x], users', lastId')
    BY <1>4, <1>6, <1>7, <1>8, AwaitStep
  <1>10. drawn' \in 0..MaxSecrets /\ drawn' >= drawn /\ drawn' \in Nat
    BY <1>2, Drawn
  <1>11. \A s \in sessions : s.user \in Accounts
    BY DEF AInv, TypeOK, Session
  <1>12. GoodSessions' /\ sessions' \subseteq Session
    BY <1>2, <1>3, <1>10, <1>11, FewerSessions
  <1>13. TypeOK'
    BY <1>2, <1>3, <1>9, <1>10, <1>12 DEF AInv, TypeOK
  <1>14. QED
    BY <1>3, <1>4, <1>9, <1>12, <1>13 DEF AInv

\* The reset by recovery key changes the password and ends the account's sessions.
LEMMA ResetByRecoveryStep ==
    ASSUME AInv, NEW r \in Requests, ResetByRecovery(r)
    PROVE  AInv' /\ Lawful
  <1> DEFINE a == request[r].id
  <1>1. PICK key \in {NoSecret, drawn + 1} : UpdateAuthMaterial(a, key)
    BY DEF ResetByRecovery
  <1>2. /\ request[r].pc = "reset" /\ Draw /\ UNCHANGED lastId
        /\ Await(r, [request[r] EXCEPT !.pc = "grant", !.user.auth = drawn + 1])
        /\ sessions' = {s \in sessions : s.user # a}
        /\ resetAt' = [resetAt EXCEPT ![a] = drawn + 1]
    BY DEF ResetByRecovery, AfterReset
  <1>3. /\ users' \in [Accounts -> Row \cup {NoRow}] /\ RowsStep /\ Lawful
        /\ \A b \in Accounts : users[b] # NoRow => users'[b] # NoRow
    BY <1>1, <1>2, AuthChanged
  <1>4. /\ OneAccountPerName'
        /\ \A b \in Accounts : GoodRow(users'[b]) /\ (b > lastId' => users'[b] = NoRow)
        /\ \A x \in Requests : GoodRequest(request[x], users', lastId')
    BY <1>2, <1>3, RowsKept
  <1>5. /\ drawn' \in 0..MaxSecrets /\ drawn' = drawn + 1 /\ drawn' \in Nat /\ drawn \in Nat
        /\ drawn' > drawn
    BY <1>2, Drawn
  <1>6. /\ request[r] \in Request /\ a \in Accounts /\ request[r].user \in Row
    BY <1>2, RequestFacts
  <1> DEFINE u == [request[r].user EXCEPT !.auth = drawn + 1]
             q == [request[r] EXCEPT !.pc = "grant", !.user = u]
  <1>7. u \in Row
    BY <1>5, <1>6 DEF Row
  <1>8. Await(r, q)
    BY <1>2, <1>6 DEF Request
  <1> HIDE DEF u
  <1>9. q \in Request /\ q.pc = "grant" /\ q.id = a /\ q.user = u
    BY <1>6, <1>7 DEF Request, Steps
  <1> HIDE DEF q
  <1>10. GoodRequest(q, users', lastId')
    BY <1>2, <1>4, <1>7, <1>9 DEF GoodRequest, OnSetUp, Steps
  <1>11. /\ request' \in [Requests -> Request]
         /\ \A x \in Requests : GoodRequest(request'[x], users', lastId')
    BY <1>4, <1>8, <1>9, <1>10, AwaitStep
  <1>12. /\ resetAt' \in [Accounts -> 0..MaxSecrets]
         /\ resetAt'[a] = drawn' /\ \A b \in Accounts : b # a => resetAt'[b] = resetAt[b]
    BY <1>2, <1>5, <1>6 DEF AInv, TypeOK
  <1>13. GoodSessions' /\ sessions' \subseteq Session
    <2>1. \A s \in sessions : s.user \in Accounts /\ s.token \in Nat
      BY DEF AInv, TypeOK, Session
    <2>2. \A s \in sessions' : users'[s.user] # NoRow /\ users'[s.user].auth # NoSecret
      BY <1>2, <1>3, <2>1
         DEF AInv, GoodSessions, SessionsOpenAccounts, Exists, RowsStep, RowStep
    <2>3. \A s \in sessions' : s.token <= drawn' /\ s.token > resetAt'[s.user]
      BY <1>2, <1>5, <1>12, <2>1 DEF AInv, GoodSessions, NoTokenSurvivesReset
    <2>4. \A b \in Accounts : resetAt[b] \in Nat /\ resetAt[b] <= drawn
      BY AccountsAssumption DEF AInv, TypeOK, GoodSessions
    <2>5. \A b \in Accounts : resetAt'[b] <= drawn'
      BY <1>5, <1>12, <2>4
    <2>6. QED
      BY <1>2, <2>1, <2>2, <2>3, <2>5
         DEF GoodSessions, SessionsOpenAccounts, NoTokenSurvivesReset, Exists, AInv, TypeOK
  <1>14. TypeOK'
    BY <1>2, <1>3, <1>5, <1>11, <1>12, <1>13 DEF AInv, TypeOK
  <1>15. QED
    BY <1>3, <1>4, <1>11, <1>13, <1>14 DEF AInv

----------------------------------------------------------------------------
(* The theorems *)

\* The invariant holds at the start.
LEMMA InitAInv == Init => AInv
  <1> SUFFICES ASSUME Init PROVE AInv
    OBVIOUS
  <1>1. Idle \in Request /\ \A r \in Requests : GoodRequest(request[r], users, lastId)
    BY IdleGood DEF Init
  <1>2. TypeOK
    BY <1>1, AccountsAssumption DEF Init, TypeOK
  <1>3. QED
    BY <1>1, <1>2
       DEF Init, AInv, OneAccountPerName, Exists, GoodSessions, SessionsOpenAccounts,
           NoTokenSurvivesReset, GoodRow

\* Every step keeps it, and is lawful.
LEMMA NextAInv ==
    ASSUME AInv, Next
    PROVE  AInv' /\ Lawful
  <1>1. CASE \E r \in Requests : Administration(r)
    <2>1. PICK r \in Requests : Administration(r)
      BY <1>1
    <2>2. CASE \E a \in Accounts : AdminReadInvite(r, a) \/ ReadToDisable(r, a)
      BY <2>2, AnonymousRead
    <2>3. CASE AdminResetInvite(r)
      BY <2>3, InviteStep DEF AdminResetInvite
    <2>4. CASE SetUserStatus(r)
      BY <2>4, SetUserStatusStep
    <2>5. QED
      BY <2>1, <2>2, <2>3, <2>4 DEF Administration
  <1>2. CASE \E r \in Requests : Anonymous(r)
    <2>1. PICK r \in Requests : Anonymous(r)
      BY <1>2
    <2>2. CASE \E a \in Accounts : Setup(r, a) \/ Login(r, a) \/ Recover(r, a)
      BY <2>2, AnonymousRead
    <2>3. CASE \E n \in Names : Register(r, n)
      BY <2>3, RegisterStep
    <2>4. CASE ActivateUser(r)
      BY <2>4, ActivateUserStep
    <2>5. CASE InsertUser(r)
      BY <2>5, InsertUserStep
    <2>6. CASE CreateSession(r)
      BY <2>6, CreateSessionStep
    <2>7. CASE ResetByRecovery(r)
      BY <2>7, ResetByRecoveryStep
    <2>8. QED
      BY <2>1, <2>2, <2>3, <2>4, <2>5, <2>6, <2>7 DEF Anonymous
  <1>3. CASE \E r \in Requests : WithSession(r)
    <2>1. PICK r \in Requests : WithSession(r)
      BY <1>3
    <2>2. CASE \E s \in sessions : ChangePassword(r, s) \/ VaultPut(r, s) \/ Logout(r, s)
                                  \/ LogoutAll(r, s)
      BY <2>2, WithSessionRead
    <2>3. CASE PasswordChanged(r)
      BY <2>3, PasswordChangedStep
    <2>4. CASE UpdateVault(r)
      BY <2>4, UpdateVaultStep
    <2>5. CASE DeleteOtherSessions(r) \/ DeleteSession(r) \/ DeleteAllSessions(r)
      BY <2>5, EndsStep
    <2>6. QED
      BY <2>1, <2>2, <2>3, <2>4, <2>5 DEF WithSession
  <1>4. CASE \E n \in Names : CreatePendingUser(n) \/ CommandResetInvite(n)
    <2>1. PICK n \in Names : CreatePendingUser(n) \/ CommandResetInvite(n)
      BY <1>4
    <2>2. CASE CreatePendingUser(n)
      BY <2>2, CreatePendingUserStep
    <2>3. CASE CommandResetInvite(n)
      BY <2>3, InviteStep DEF CommandResetInvite
    <2>4. QED
      BY <2>1, <2>2, <2>3
  <1>5. CASE \E a \in Accounts : DeleteUser(a)
    BY <1>5, DeleteUserStep
  <1>6. CASE \/ \E s \in sessions : Expire(s)
             \/ Crash
    BY <1>6, EndsStep
  <1>7. QED
    BY <1>1, <1>2, <1>3, <1>4, <1>5, <1>6 DEF Next

\* A step that changes nothing.
LEMMA StutterAInv ==
    ASSUME AInv, UNCHANGED vars
    PROVE  AInv' /\ Lawful
  <1>1. request' \in [Requests -> Request]
        /\ \A x \in Requests : request'[x] \in {request[x], Idle}
    BY DEF vars, AInv, TypeOK
  <1>2. QED
    BY <1>1, RemovalStep DEF vars

\* The invariant holds throughout, and every step is lawful.
LEMMA Always == Spec => []AInv /\ [][Lawful]_vars
  <1>1. AInv /\ [Next]_vars => AInv' /\ [Lawful]_vars
    BY NextAInv, StutterAInv
  <1>2. QED
    BY <1>1, InitAInv, PTL DEF Spec

\* Every variable always holds a value of its kind.
THEOREM Typing == Spec => []TypeOK
  <1>1. AInv => TypeOK
    BY DEF AInv
  <1>2. QED
    BY <1>1, Always, PTL

\* A username never names two accounts, however many creations run at one time.
THEOREM NamesAreUnique == Spec => []OneAccountPerName
  <1>1. AInv => OneAccountPerName
    BY DEF AInv
  <1>2. QED
    BY <1>1, Always, PTL

\* Every session opens an account that exists and is set up.
THEOREM SessionsAreSound == Spec => []SessionsOpenAccounts
  <1>1. AInv => SessionsOpenAccounts
    BY DEF AInv, GoodSessions
  <1>2. QED
    BY <1>1, Always, PTL

\* A reset by recovery key ends every token issued before it.
THEOREM ResetsRevoke == Spec => []NoTokenSurvivesReset
  <1>1. AInv => NoTokenSurvivesReset
    BY DEF AInv, GoodSessions
  <1>2. QED
    BY <1>1, Always, PTL

\* An account is set up once: the vault's revision never falls, and the password changes
\* only in a change or a reset.
THEOREM SetUpIsFinal == Spec => SetUpOnce
  <1> DEFINE Once == \A a \in Accounts :
        Exists(a) /\ users[a].auth # NoSecret /\ users'[a] # NoRow =>
            /\ users'[a].revision >= users[a].revision
            /\ users'[a].auth # users[a].auth =>
                  \E r \in Requests : request[r].pc \in {"change", "reset"}
                                      /\ request[r].id = a
  <1>1. Lawful => Once
    BY DEF Lawful, RowStep, Exists
  <1> HIDE DEF Once
  <1>2. [Lawful]_vars => [Once]_vars
    BY <1>1
  <1>3. Spec => [][Once]_vars
    BY <1>2, Always, PTL
  <1>4. QED
    BY <1>3 DEF SetUpOnce, Once

\* Nothing in progress can bring a disabled account back.
THEOREM DisabledIsFinal == Spec => DisabledStaysDisabled
  <1> DEFINE Stays == \A a \in Accounts :
        Exists(a) /\ users[a].status = "disabled" /\ users'[a] # NoRow =>
            users'[a].status = "disabled"
  <1>1. Lawful => Stays
    BY DEF Lawful, RowStep, Exists
  <1> HIDE DEF Stays
  <1>2. [Lawful]_vars => [Stays]_vars
    BY <1>1
  <1>3. Spec => [][Stays]_vars
    BY <1>2, Always, PTL
  <1>4. QED
    BY <1>3 DEF DisabledStaysDisabled, Stays

----------------------------------------------------------------------------
(* Resets and recovery keys: what overlapping requests alone can break     *)

\* No request is about to grant a session to an account while another is about to
\* reset it.
NoGrantDuringReset ==
    \A r, q \in Requests :
        request[r].pc = "reset" /\ request[q].pc = "grant" => request[r].id # request[q].id

\* No request is about to change the password of an account while another is about to
\* reset it, and no two are about to reset it.
OneWriterPerReset ==
    \A r, q \in Requests :
        r # q /\ request[r].pc = "reset" /\ request[q].pc \in {"reset", "change"} =>
            request[r].id # request[q].id

\* What is granted, or may still be, is granted on a password that the last reset of
\* the account left or a later one.
GrantedSinceReset ==
    /\ ResetRevokesSessions
    /\ \A r \in Requests :
          request[r].pc = "grant" => request[r].user.auth >= resetAt[request[r].id]
    /\ \A a \in Accounts :
          /\ users[a] # NoRow => users[a].auth >= resetAt[a]
          /\ a > lastId => resetAt[a] = 0

\* A step without a reset: the passwords that are set are new, a session comes from a
\* request that was to grant it, and a request that is to grant one has just read or
\* set the password, or had it already.
NewPasswords ==
    \A a \in Accounts : users'[a] # NoRow =>
        \/ a > lastId
        \/ users[a] # NoRow /\ users'[a].auth = users[a].auth
        \/ users'[a].auth = drawn + 1
NewSessions ==
    \A s \in sessions' :
        \/ s \in sessions
        \/ \E r \in Requests : /\ request[r].pc = "grant"
                               /\ s.user = request[r].id /\ s.grant = request[r].user.auth
NewGrants ==
    \A r \in Requests : request'[r].pc = "grant" =>
        \/ request'[r] = request[r]
        \/ request'[r].user.auth = drawn + 1
        \/ /\ users[request'[r].id] # NoRow
           /\ request'[r].user.auth = users[request'[r].id].auth
NoReset == NewPasswords /\ NewSessions /\ NewGrants /\ resetAt' = resetAt /\ lastId' >= lastId

\* A step without a reset leaves what is granted recent enough.
LEMMA NoResetStep ==
    ASSUME AInv, AInv', GrantedSinceReset, NoReset
    PROVE  GrantedSinceReset'
  <1>1. /\ drawn \in Nat /\ lastId \in Nat /\ lastId' \in Nat
        /\ \A a \in Accounts : a \in Nat /\ resetAt[a] \in Nat /\ resetAt[a] <= drawn
    BY Drawn, AccountsAssumption DEF AInv, TypeOK, GoodSessions, Accounts
  <1>2. \A r \in Requests : request[r].pc = "grant" => request[r].id \in Accounts
    BY RequestFacts
  <1>3. \A r \in Requests : request'[r].pc = "grant" => request'[r].id \in Accounts
    BY DEF AInv, GoodRequest
  <1>4. \A a \in Accounts : users'[a] # NoRow => users'[a].auth \in Nat
    BY DEF AInv, TypeOK, Row
  <1>5. \A a \in Accounts :
            /\ users'[a] # NoRow => users'[a].auth >= resetAt'[a]
            /\ a > lastId' => resetAt'[a] = 0
    BY <1>1, <1>4 DEF NoReset, NewPasswords, GrantedSinceReset
  <1>6. \A r \in Requests :
            request'[r].pc = "grant" => request'[r].user.auth >= resetAt'[request'[r].id]
    BY <1>1, <1>3 DEF NoReset, NewGrants, GrantedSinceReset
  <1>7. ResetRevokesSessions'
    BY DEF NoReset, NewSessions, GrantedSinceReset, ResetRevokesSessions
  <1>8. QED
    BY <1>5, <1>6, <1>7 DEF GrantedSinceReset

\* Requests that only go on to q, without granting anything, or end.
LEMMA QuietStep ==
    ASSUME AInv, UNCHANGED <<users, lastId, resetAt>>, sessions' \subseteq sessions,
           \A x \in Requests : request'[x].pc = "grant" => request'[x] = request[x]
    PROVE  NoReset
  <1>1. lastId \in Nat
    BY Drawn
  <1>2. QED
    BY <1>1 DEF NoReset, NewPasswords, NewSessions, NewGrants

\* A request goes on to q: the others are as they were.
LEMMA OneGoesOn ==
    ASSUME AInv, NEW r \in Requests, NEW q, Await(r, q)
    PROVE  request'[r] = q /\ \A x \in Requests : x # r => request'[x] = request[x]
  BY DEF AInv, TypeOK, Await

\* The request of r goes on without a session to grant, the others are as they were.
GoesOn(r) ==
    /\ request'[r].pc # "grant"
    /\ \A x \in Requests : x # r => request'[x] = request[x]

\* Reading requests: only a login has something to grant, on the row it read.
LEMMA ReadsNoReset ==
    ASSUME AInv, NEW r \in Requests, NEW a \in Accounts,
           \/ AdminReadInvite(r, a) \/ ReadToDisable(r, a)
           \/ Setup(r, a) \/ Login(r, a) \/ Recover(r, a)
    PROVE  NoReset
  <1> DEFINE q == [Idle EXCEPT !.pc = "grant", !.id = a, !.user = users[a]]
  <1>1. UNCHANGED <<users, sessions, lastId, drawn, resetAt>>
    BY DEF AdminReadInvite, ReadToDisable, Setup, Login, Recover
  <1>2. CASE AdminReadInvite(r, a) \/ ReadToDisable(r, a) \/ Setup(r, a) \/ Recover(r, a)
    <2>1. request \in [Requests -> Request]
      BY DEF AInv, TypeOK
    <2>2. /\ request'[r].pc # "grant"
          /\ \A x \in Requests : x # r => request'[x] = request[x]
      <3>1. CASE AdminReadInvite(r, a)
        BY <2>1, <3>1 DEF AdminReadInvite, Await, Idle
      <3>2. CASE ReadToDisable(r, a)
        BY <2>1, <3>2 DEF ReadToDisable, Await, Idle
      <3>3. CASE Setup(r, a)
        BY <2>1, <3>3 DEF Setup, Await, Idle
      <3>4. CASE Recover(r, a)
        BY <2>1, <3>4 DEF Recover, Await, Idle
      <3>5. QED
        BY <1>2, <3>1, <3>2, <3>3, <3>4
    <2>3. QED
      BY <1>1, <2>2, QuietStep
  <1>3. CASE Login(r, a)
    <2>1. users[a] # NoRow /\ Await(r, q)
      BY <1>3 DEF Login, Exists
    <2>2. q.id = a /\ q.user = users[a]
      BY DEF Idle
    <2> HIDE DEF q
    <2>3. /\ request'[r].id = a /\ request'[r].user = users[a]
          /\ \A x \in Requests : x # r => request'[x] = request[x]
      BY <2>1, <2>2, OneGoesOn
    <2>4. lastId \in Nat
      BY Drawn
    <2>5. NewGrants
      BY <2>1, <2>3 DEF NewGrants
    <2>6. QED
      BY <1>1, <2>4, <2>5 DEF NoReset, NewPasswords, NewSessions
  <1>4. QED
    BY <1>2, <1>3

\* Registration reads the name, authed the row.
LEMMA OthersReadNoReset ==
    ASSUME AInv, NEW r \in Requests,
           \/ \E n \in Names : Register(r, n)
           \/ \E s \in sessions :
                 ChangePassword(r, s) \/ VaultPut(r, s) \/ Logout(r, s) \/ LogoutAll(r, s)
    PROVE  NoReset
  <1>1. UNCHANGED <<users, sessions, lastId, drawn, resetAt>>
    BY DEF Register, ChangePassword, VaultPut, Logout, LogoutAll, Authed
  <1>2. request \in [Requests -> Request]
    BY DEF AInv, TypeOK
  <1>3. GoesOn(r)
    <2>1. CASE \E n \in Names : Register(r, n)
      BY <1>2, <2>1 DEF Register, Await, Idle, GoesOn
    <2>2. ASSUME NEW s \in sessions, ChangePassword(r, s)
          PROVE  GoesOn(r)
      BY <1>2, <2>2 DEF ChangePassword, Authed, Await, Idle, GoesOn
    <2>3. ASSUME NEW s \in sessions, Logout(r, s) \/ LogoutAll(r, s)
          PROVE  GoesOn(r)
      BY <1>2, <2>3 DEF Logout, LogoutAll, Authed, Await, Idle, GoesOn
    <2>4. ASSUME NEW s \in sessions, VaultPut(r, s)
          PROVE  GoesOn(r)
      BY <1>2, <2>4 DEF VaultPut, Authed, Await, Idle, GoesOn
    <2>5. QED
      BY <2>1, <2>2, <2>3, <2>4
  <1>4. QED
    BY <1>1, <1>3, QuietStep DEF GoesOn

\* Statements that leave the passwords alone.
LEMMA SmallWritesNoReset ==
    ASSUME AInv, NEW r \in Requests,
           \/ AdminResetInvite(r) \/ SetUserStatus(r) \/ UpdateVault(r)
           \/ DeleteOtherSessions(r) \/ DeleteSession(r) \/ DeleteAllSessions(r)
    PROVE  NoReset
  <1>1. /\ Finish(r) /\ UNCHANGED <<lastId, resetAt>> /\ sessions' \subseteq sessions
    BY DEF AdminResetInvite, SetUserStatus, UpdateVault, DeleteOtherSessions, DeleteSession,
           DeleteAllSessions
  <1>2. \A x \in Requests : request'[x].pc = "grant" => request'[x] = request[x]
    BY <1>1, OneGoesOn DEF Finish, Idle
  <1>3. \A a \in Accounts : users'[a] # NoRow =>
            users[a] # NoRow /\ users'[a].auth = users[a].auth
    <2>1. users \in [Accounts -> Row \cup {NoRow}]
      BY DEF AInv, TypeOK
    <2>2. CASE AdminResetInvite(r)
      <3>1. users' = [a \in Accounts |->
                IF a \in Named(request[r].user.name) /\ users[a].status = "pending"
                THEN [users[a] EXCEPT !.invite = drawn + 1] ELSE users[a]]
        BY <2>2 DEF AdminResetInvite, ResetInviteToken
      <3>2. QED
        BY <2>1, <3>1 DEF Named, Row
    <2>3. CASE SetUserStatus(r)
      BY <2>1, <2>3 DEF SetUserStatus, Exists, Row
    <2>4. CASE UpdateVault(r)
      BY <2>1, <2>4 DEF UpdateVault, Exists, Row
    <2>5. CASE DeleteOtherSessions(r) \/ DeleteSession(r) \/ DeleteAllSessions(r)
      BY <2>5 DEF DeleteOtherSessions, DeleteSession, DeleteAllSessions
    <2>6. QED
      BY <2>2, <2>3, <2>4, <2>5
  <1>4. lastId \in Nat
    BY Drawn
  <1>5. QED
    BY <1>1, <1>2, <1>3, <1>4 DEF NoReset, NewPasswords, NewSessions, NewGrants

\* Setup and registration set a new password and grant a session on it.
LEMMA SetUpNoReset ==
    ASSUME AInv, NEW r \in Requests, ActivateUser(r) \/ InsertUser(r)
    PROVE  NoReset
  <1>1. users \in [Accounts -> Row \cup {NoRow}] /\ lastId \in Nat /\ drawn \in Nat
    BY Drawn DEF AInv, TypeOK
  <1>2. resetAt' = resetAt /\ sessions' = sessions
    BY DEF ActivateUser, InsertUser
  <1>3. CASE UNCHANGED <<users, lastId, drawn>> /\ Finish(r)
    BY <1>2, <1>3, OneGoesOn, QuietStep DEF Finish, Idle
  <1>4. CASE ActivateUser(r) /\ ~(UNCHANGED <<users, lastId, drawn>> /\ Finish(r))
    <2>1. PICK key \in {NoSecret, drawn + 1} :
            LET u == Configured(users[request[r].id].name, key) IN
            /\ users' = [users EXCEPT ![request[r].id] = u]
            /\ Await(r, [request[r] EXCEPT !.pc = "grant", !.user = u])
      BY <1>4 DEF ActivateUser
    <2> DEFINE u == Configured(users[request[r].id].name, key)
               q == [request[r] EXCEPT !.pc = "grant", !.user = u]
    <2>2. u.auth = drawn + 1
      BY DEF Configured
    <2>3. \A a \in Accounts : users'[a] = users[a] \/ users'[a] = u
      BY <1>1, <2>1
    <2>4. request[r] \in Request
      BY RequestFacts
    <2>5. request'[r].user = u /\ \A x \in Requests : x # r => request'[x] = request[x]
      <3>1. Await(r, q)
        BY <2>1
      <3>2. q.user = u
        BY <2>4 DEF Request
      <3> HIDE DEF q, u
      <3>3. QED
        BY <3>1, <3>2, OneGoesOn
    <2>6. lastId' = lastId
      BY <1>4 DEF ActivateUser
    <2> HIDE DEF u
    <2>7. QED
      BY <1>1, <1>2, <2>2, <2>3, <2>5, <2>6 DEF NoReset, NewPasswords, NewSessions, NewGrants
  <1>5. CASE InsertUser(r) /\ ~(UNCHANGED <<users, lastId, drawn>> /\ Finish(r))
    <2>1. PICK key \in {NoSecret, drawn + 1} :
            LET u == Configured(request[r].name, key) IN
            /\ users' = [users EXCEPT ![lastId + 1] = u]
            /\ Await(r, [request[r] EXCEPT !.pc = "grant", !.id = lastId + 1, !.user = u])
      BY <1>5 DEF InsertUser
    <2> DEFINE u == Configured(request[r].name, key)
               q == [request[r] EXCEPT !.pc = "grant", !.id = lastId + 1, !.user = u]
    <2>2. u.auth = drawn + 1
      BY DEF Configured
    <2>3. \A a \in Accounts : users'[a] = users[a] \/ users'[a] = u
      BY <1>1, <2>1
    <2>4. request[r] \in Request
      BY RequestFacts
    <2>5. request'[r].user = u /\ \A x \in Requests : x # r => request'[x] = request[x]
      <3>1. Await(r, q)
        BY <2>1
      <3>2. q.user = u
        BY <2>4 DEF Request
      <3> HIDE DEF q, u
      <3>3. QED
        BY <3>1, <3>2, OneGoesOn
    <2>6. lastId' = lastId + 1
      BY <1>5 DEF InsertUser
    <2> HIDE DEF u
    <2>7. QED
      BY <1>1, <1>2, <2>2, <2>3, <2>5, <2>6 DEF NoReset, NewPasswords, NewSessions, NewGrants
  <1>6. CASE ActivateUser(r)
    BY <1>3, <1>4, <1>6 DEF ActivateUser
  <1>7. CASE InsertUser(r)
    BY <1>3, <1>5, <1>7 DEF InsertUser
  <1>8. QED
    BY <1>6, <1>7

\* A session is granted on the password the request carries.
LEMMA GrantNoReset ==
    ASSUME AInv, NEW r \in Requests, CreateSession(r)
    PROVE  NoReset
  <1>1. /\ UNCHANGED <<users, lastId, resetAt>> /\ Finish(r) /\ request[r].pc = "grant"
        /\ \A s \in sessions' :
              s \in sessions \/ (s.user = request[r].id /\ s.grant = request[r].user.auth)
    BY DEF CreateSession
  <1>2. \A x \in Requests : request'[x].pc = "grant" => request'[x] = request[x]
    BY <1>1, OneGoesOn DEF Finish, Idle
  <1>3. lastId \in Nat
    BY Drawn
  <1>4. QED
    BY <1>1, <1>2, <1>3 DEF NoReset, NewPasswords, NewSessions, NewGrants

\* A password change sets a new password and grants nothing.
LEMMA ChangeNoReset ==
    ASSUME AInv, NEW r \in Requests, PasswordChanged(r)
    PROVE  NoReset
  <1>1. PICK key \in {NoSecret, drawn + 1} : UpdateAuthMaterial(request[r].id, key)
    BY DEF PasswordChanged
  <1>2. /\ users \in [Accounts -> Row \cup {NoRow}] /\ lastId \in Nat /\ request[r] \in Request
        /\ UNCHANGED <<sessions, lastId, resetAt>>
    BY Drawn, RequestFacts DEF AInv, TypeOK, PasswordChanged
  <1>3. \A a \in Accounts : users'[a] # NoRow =>
            users'[a] = users[a] \/ users'[a].auth = drawn + 1
    BY <1>1, <1>2 DEF UpdateAuthMaterial, Row, Exists
  <1>4. \A a \in Accounts : users'[a] # NoRow /\ users'[a] = users[a] =>
            users[a] # NoRow /\ users'[a].auth = users[a].auth
    OBVIOUS
  <1>5. Await(r, [request[r] EXCEPT !.pc = "revoke"])
    BY DEF PasswordChanged, Proceed
  <1>6. \A x \in Requests : request'[x].pc = "grant" => request'[x] = request[x]
    BY <1>2, <1>5, OneGoesOn DEF Request
  <1>7. QED
    BY <1>2, <1>3, <1>4, <1>6 DEF NoReset, NewPasswords, NewSessions, NewGrants

\* Administration and what happens by itself.
LEMMA RestNoReset ==
    ASSUME AInv,
           \/ \E n \in Names : CreatePendingUser(n) \/ CommandResetInvite(n)
           \/ \E a \in Accounts : DeleteUser(a)
           \/ \E s \in sessions : Expire(s)
           \/ Crash
    PROVE  NoReset
  <1>1. users \in [Accounts -> Row \cup {NoRow}] /\ lastId \in Nat
    BY Drawn DEF AInv, TypeOK
  <1>2. CASE \E n \in Names : CreatePendingUser(n)
    <2>1. PICK n \in Names : CreatePendingUser(n)
      BY <1>2
    <2>2. /\ UNCHANGED <<sessions, request, resetAt>> /\ lastId' = lastId + 1
          /\ \A a \in Accounts : a > lastId \/ users'[a] = users[a]
      BY <1>1, <2>1 DEF CreatePendingUser
    <2>3. QED
      BY <1>1, <2>2 DEF NoReset, NewPasswords, NewSessions, NewGrants
  <1>3. CASE \E n \in Names : CommandResetInvite(n)
    <2>1. PICK n \in Names : CommandResetInvite(n)
      BY <1>3
    <2>2. /\ UNCHANGED <<sessions, request, lastId, resetAt>>
          /\ users' = [a \in Accounts |->
                IF a \in Named(n) /\ users[a].status = "pending"
                THEN [users[a] EXCEPT !.invite = drawn + 1] ELSE users[a]]
      BY <2>1 DEF CommandResetInvite, ResetInviteToken
    <2>3. \A a \in Accounts : users'[a] # NoRow =>
              users[a] # NoRow /\ users'[a].auth = users[a].auth
      BY <1>1, <2>2 DEF Named, Row
    <2>4. QED
      BY <1>1, <2>2, <2>3 DEF NoReset, NewPasswords, NewSessions, NewGrants
  <1>4. CASE \E a \in Accounts : DeleteUser(a)
    <2>1. PICK a \in Accounts : DeleteUser(a)
      BY <1>4
    <2>2. /\ UNCHANGED <<request, lastId, resetAt>> /\ sessions' \subseteq sessions
          /\ \A b \in Accounts : users'[b] # NoRow => users'[b] = users[b]
      BY <1>1, <2>1 DEF DeleteUser, Cascaded
    <2>3. \A b \in Accounts : users'[b] # NoRow =>
              users[b] # NoRow /\ users'[b].auth = users[b].auth
      BY <2>2
    <2>4. QED
      BY <1>1, <2>2, <2>3 DEF NoReset, NewPasswords, NewSessions, NewGrants
  <1>5. CASE \E s \in sessions : Expire(s)
    BY <1>5, QuietStep DEF Expire
  <1>6. CASE Crash
    BY <1>6, QuietStep DEF Crash, Idle
  <1>7. QED
    BY <1>2, <1>3, <1>4, <1>5, <1>6

\* A reset ends every session of the account and grants one on the new password.
LEMMA ResetStep ==
    ASSUME AInv, GrantedSinceReset, NoGrantDuringReset, NEW r \in Requests, ResetByRecovery(r)
    PROVE  GrantedSinceReset'
  <1> DEFINE a == request[r].id
  <1>1. PICK key \in {NoSecret, drawn + 1} : UpdateAuthMaterial(a, key)
    BY DEF ResetByRecovery
  <1>2. /\ request[r].pc = "reset" /\ lastId' = lastId
        /\ Await(r, [request[r] EXCEPT !.pc = "grant", !.user.auth = drawn + 1])
        /\ sessions' = {s \in sessions : s.user # a}
        /\ resetAt' = [resetAt EXCEPT ![a] = drawn + 1]
    BY DEF ResetByRecovery, AfterReset
  <1>3. /\ users \in [Accounts -> Row \cup {NoRow}] /\ lastId \in Nat /\ drawn \in Nat
        /\ resetAt \in [Accounts -> 0..MaxSecrets]
        /\ request[r] \in Request /\ request[r].user \in Row
        /\ a \in Accounts /\ a \in Nat /\ a <= lastId
    BY <1>2, Drawn, RequestFacts DEF AInv, TypeOK, GoodRequest, Accounts
  <1>4. /\ resetAt'[a] = drawn + 1
        /\ \A b \in Accounts : b # a => resetAt'[b] = resetAt[b]
    BY <1>2, <1>3
  <1>5. \A b \in Accounts : b # a => users'[b] = users[b]
    BY <1>1, <1>3 DEF UpdateAuthMaterial
  <1>6. users'[a] # NoRow => users'[a].auth = drawn + 1
    BY <1>1, <1>3 DEF UpdateAuthMaterial, Exists, Row
  <1>7. \A b \in Accounts :
            /\ users'[b] # NoRow => users'[b].auth >= resetAt'[b]
            /\ b > lastId' => resetAt'[b] = 0
    BY <1>2, <1>3, <1>4, <1>5, <1>6 DEF GrantedSinceReset
  <1>8. \A s \in sessions' : s.grant >= resetAt'[s.user]
    BY <1>2, <1>4 DEF GrantedSinceReset, ResetRevokesSessions, AInv, TypeOK, Session
  <1>9. \A x \in Requests :
            request'[x].pc = "grant" => request'[x].user.auth >= resetAt'[request'[x].id]
    <2> DEFINE u == [request[r].user EXCEPT !.auth = drawn + 1]
               q == [request[r] EXCEPT !.pc = "grant", !.user = u]
    <2>1. Await(r, q) /\ q.id = a /\ q.user = u /\ u.auth = drawn + 1
      BY <1>2, <1>3 DEF Request, Row
    <2> HIDE DEF q, u
    <2>2. /\ request'[r].id = a /\ request'[r].user.auth = drawn + 1
          /\ \A x \in Requests : x # r => request'[x] = request[x]
      BY <2>1, OneGoesOn
    <2>3. \A x \in Requests : request[x].pc = "grant" =>
              request[x].id # a /\ request[x].id \in Accounts
      BY <1>2, RequestFacts DEF NoGrantDuringReset
    <2>4. QED
      BY <1>3, <1>4, <2>2, <2>3 DEF GrantedSinceReset
  <1>10. QED
    BY <1>7, <1>8, <1>9 DEF GrantedSinceReset, ResetRevokesSessions

\* A step is a reset or none.
LEMMA NextNoReset ==
    ASSUME AInv, Next
    PROVE  NoReset \/ \E r \in Requests : ResetByRecovery(r)
  <1>1. ASSUME NEW r \in Requests, Administration(r)
        PROVE  NoReset
    BY <1>1, ReadsNoReset, SmallWritesNoReset DEF Administration
  <1>2. ASSUME NEW r \in Requests, Anonymous(r)
        PROVE  NoReset \/ ResetByRecovery(r)
    BY <1>2, ReadsNoReset, OthersReadNoReset, SetUpNoReset, GrantNoReset DEF Anonymous
  <1>3. ASSUME NEW r \in Requests, WithSession(r)
        PROVE  NoReset
    BY <1>3, OthersReadNoReset, ChangeNoReset, SmallWritesNoReset DEF WithSession
  <1>4. QED
    BY <1>1, <1>2, <1>3, RestNoReset DEF Next

\* A session from before a reset lives on only where a login, a setup or a reset was
\* about to grant it while the reset was made (handleLogin creates the session of the
\* row it verified): the one overlap to close, whatever else runs at the same time.
THEOREM ResetsRevokeAllButGrants ==
    Spec /\ []NoGrantDuringReset => []ResetRevokesSessions
  <1>1. Init => GrantedSinceReset
    BY DEF Init, GrantedSinceReset, ResetRevokesSessions, Idle
  <1>2. AInv /\ AInv' /\ GrantedSinceReset /\ NoGrantDuringReset /\ [Next]_vars
            => GrantedSinceReset'
    <2>1. ASSUME AInv, AInv', GrantedSinceReset, NoGrantDuringReset, Next
          PROVE  GrantedSinceReset'
      BY <2>1, NextNoReset, NoResetStep, ResetStep
    <2>2. ASSUME GrantedSinceReset, UNCHANGED vars
          PROVE  GrantedSinceReset'
      BY <2>2 DEF vars, GrantedSinceReset, ResetRevokesSessions
    <2>3. QED
      BY <2>1, <2>2
  <1>3. GrantedSinceReset => ResetRevokesSessions
    BY DEF GrantedSinceReset
  <1>4. Spec => [][Next]_vars /\ Init
    BY DEF Spec
  <1>5. QED
    BY <1>1, <1>2, <1>3, <1>4, Always, PTL

\* What a step does to the rows that are there, and to those that are not: a recovery key
\* is replaced by the request that ends a reset or a change of that account, an id that
\* was given away once is not given again, and a request that is to reset an account has
\* read the account's key.
KeysReplaced ==
    \A a \in Accounts :
        users[a] # NoRow /\ users'[a] # NoRow /\ users'[a].recovery # users[a].recovery =>
            \/ users[a].recovery = NoSecret
            \/ \E q \in Requests : /\ request[q].pc \in {"reset", "change"} /\ request[q].id = a
                                   /\ request'[q].pc \notin {"reset", "change"}
FreshIds == \A a \in Accounts : users[a] = NoRow /\ users'[a] # NoRow => a > lastId
NewResets ==
    \A r \in Requests : request'[r].pc = "reset" =>
        \/ request'[r] = request[r]
        \/ LET u == request'[r].user
           IN  u.recovery # NoSecret /\ u = users[request'[r].id] /\ users' = users
KeyStep == KeysReplaced /\ FreshIds /\ NewResets

\* A request that is to reset an account was sent with the key the account has.
KeyIsCurrent ==
    \A r \in Requests : request[r].pc = "reset" =>
        /\ request[r].user.recovery # NoSecret
        /\ users[request[r].id] # NoRow =>
              users[request[r].id].recovery = request[r].user.recovery

\* That stays so while one request at a time is about to write an account's password.
LEMMA KeyStays ==
    ASSUME AInv, AInv', KeyIsCurrent, OneWriterPerReset, KeyStep
    PROVE  KeyIsCurrent'
  <1> SUFFICES ASSUME NEW r \in Requests, request'[r].pc = "reset"
               PROVE  /\ request'[r].user.recovery # NoSecret
                      /\ users'[request'[r].id] # NoRow =>
                            users'[request'[r].id].recovery = request'[r].user.recovery
    BY DEF KeyIsCurrent
  <1>1. CASE request'[r] = request[r]
    <2> DEFINE a == request[r].id
    <2>1. /\ request[r].pc = "reset" /\ request[r].user.recovery # NoSecret
          /\ a \in Accounts /\ a <= lastId /\ lastId \in Nat /\ a \in Nat
      BY <1>1, Drawn, RequestFacts DEF KeyIsCurrent, GoodRequest, Accounts
    <2>2. ASSUME users'[a] # NoRow, users'[a].recovery # request[r].user.recovery
          PROVE  FALSE
      <3>1. users[a] # NoRow
        BY <2>1, <2>2 DEF KeyStep, FreshIds
      <3>2. users[a].recovery = request[r].user.recovery
        BY <2>1, <3>1 DEF KeyIsCurrent
      <3>3. PICK q \in Requests : /\ request[q].pc \in {"reset", "change"} /\ request[q].id = a
                                  /\ request'[q].pc \notin {"reset", "change"}
        BY <2>1, <2>2, <3>1, <3>2 DEF KeyStep, KeysReplaced
      <3>4. q # r
        BY <1>1, <2>1, <3>3
      <3>5. QED
        BY <2>1, <3>3, <3>4 DEF OneWriterPerReset
    <2>3. QED
      BY <1>1, <2>1, <2>2
  <1>2. CASE request'[r] # request[r]
    BY <1>2 DEF KeyStep, NewResets
  <1>3. QED
    BY <1>1, <1>2

\* A step that keeps the keys it finds.
LEMMA QuietKeys ==
    ASSUME \A a \in Accounts : users'[a] # NoRow =>
               users[a] # NoRow /\ users'[a].recovery = users[a].recovery,
           \A r \in Requests : request'[r].pc = "reset" => request'[r] = request[r]
    PROVE  KeyStep
  BY DEF KeyStep, KeysReplaced, FreshIds, NewResets

\* Reading requests.
LEMMA ReadKeys ==
    ASSUME AInv, NEW r \in Requests,
           \/ \E a \in Accounts : \/ AdminReadInvite(r, a) \/ ReadToDisable(r, a)
                                  \/ Setup(r, a) \/ Login(r, a) \/ Recover(r, a)
           \/ \E n \in Names : Register(r, n)
           \/ \E s \in sessions :
                 ChangePassword(r, s) \/ VaultPut(r, s) \/ Logout(r, s) \/ LogoutAll(r, s)
    PROVE  KeyStep
  <1>1. request \in [Requests -> Request]
    BY DEF AInv, TypeOK
  <1>2. UNCHANGED users
    BY DEF AdminReadInvite, ReadToDisable, Setup, Login, Recover, Register, ChangePassword,
           VaultPut, Logout, LogoutAll, Authed
  <1>3. \A x \in Requests : x # r => request'[x] = request[x]
    <2>1. CASE \E a \in Accounts : \/ AdminReadInvite(r, a) \/ ReadToDisable(r, a)
                                   \/ Setup(r, a) \/ Login(r, a) \/ Recover(r, a)
      BY <1>1, <2>1 DEF AdminReadInvite, ReadToDisable, Setup, Login, Recover, Await
    <2>2. CASE \E n \in Names : Register(r, n)
      BY <1>1, <2>2 DEF Register, Await
    <2>3. ASSUME NEW s \in sessions,
                 ChangePassword(r, s) \/ VaultPut(r, s) \/ Logout(r, s) \/ LogoutAll(r, s)
          PROVE  \A x \in Requests : x # r => request'[x] = request[x]
      BY <1>1, <2>3 DEF ChangePassword, VaultPut, Logout, LogoutAll, Authed, Await
    <2>4. QED
      BY <2>1, <2>2, <2>3
  <1>4. CASE \E a \in Accounts : Recover(r, a)
    <2>1. PICK a \in Accounts : Recover(r, a)
      BY <1>4
    <2>2. users[a].recovery # NoSecret /\ request'[r].id = a /\ request'[r].user = users[a]
      BY <1>1, <2>1 DEF Recover, Await, Idle
    <2>3. NewResets
      BY <1>2, <1>3, <2>2 DEF NewResets
    <2>4. QED
      BY <1>2, <2>3 DEF KeyStep, KeysReplaced, FreshIds
  <1>5. CASE ~ \E a \in Accounts : Recover(r, a)
    <2>1. request'[r].pc # "reset"
      <3>1. CASE \E a \in Accounts : AdminReadInvite(r, a) \/ ReadToDisable(r, a)
        BY <1>1, <3>1 DEF AdminReadInvite, ReadToDisable, Await, Idle
      <3>2. CASE \E a \in Accounts : Setup(r, a)
        BY <1>1, <3>2 DEF Setup, Await, Idle
      <3>3. CASE \E a \in Accounts : Login(r, a)
        BY <1>1, <3>3 DEF Login, Await, Idle
      <3>4. CASE \E n \in Names : Register(r, n)
        BY <1>1, <3>4 DEF Register, Await, Idle
      <3>5. ASSUME NEW s \in sessions, ChangePassword(r, s) \/ Logout(r, s)
            PROVE  request'[r].pc # "reset"
        BY <1>1, <3>5 DEF ChangePassword, Logout, Authed, Await, Idle
      <3>6. ASSUME NEW s \in sessions, VaultPut(r, s)
            PROVE  request'[r].pc # "reset"
        BY <1>1, <3>6 DEF VaultPut, Authed, Await, Idle
      <3>7. ASSUME NEW s \in sessions, LogoutAll(r, s)
            PROVE  request'[r].pc # "reset"
        BY <1>1, <3>7 DEF LogoutAll, Authed, Await, Idle
      <3>8. QED
        BY <1>5, <3>1, <3>2, <3>3, <3>4, <3>5, <3>6, <3>7
    <2>2. QED
      BY <1>2, <1>3, <2>1, QuietKeys
  <1>6. QED
    BY <1>4, <1>5

\* A request that ends resets nothing any more.
LEMMA EndedKeys ==
    ASSUME AInv, NEW r \in Requests, Finish(r)
    PROVE  \A x \in Requests : request'[x].pc = "reset" => request'[x] = request[x]
  BY OneGoesOn DEF Finish, Idle

\* Statements that leave the keys alone.
LEMMA SmallWritesKeys ==
    ASSUME AInv, NEW r \in Requests,
           \/ AdminResetInvite(r) \/ SetUserStatus(r) \/ UpdateVault(r) \/ CreateSession(r)
           \/ DeleteOtherSessions(r) \/ DeleteSession(r) \/ DeleteAllSessions(r)
    PROVE  KeyStep
  <1>1. Finish(r)
    BY DEF AdminResetInvite, SetUserStatus, UpdateVault, DeleteOtherSessions, DeleteSession,
           DeleteAllSessions, CreateSession
  <1>2. users \in [Accounts -> Row \cup {NoRow}]
    BY DEF AInv, TypeOK
  <1>3. \A a \in Accounts : users'[a] # NoRow =>
            users[a] # NoRow /\ users'[a].recovery = users[a].recovery
    <2>1. CASE AdminResetInvite(r)
      <3>1. users' = [a \in Accounts |->
                IF a \in Named(request[r].user.name) /\ users[a].status = "pending"
                THEN [users[a] EXCEPT !.invite = drawn + 1] ELSE users[a]]
        BY <2>1 DEF AdminResetInvite, ResetInviteToken
      <3>2. QED
        BY <1>2, <3>1 DEF Named, Row
    <2>2. CASE SetUserStatus(r)
      BY <1>2, <2>2 DEF SetUserStatus, Exists, Row
    <2>3. CASE UpdateVault(r)
      BY <1>2, <2>3 DEF UpdateVault, Exists, Row
    <2>4. CASE UNCHANGED users
      BY <2>4
    <2>5. QED
      BY <2>1, <2>2, <2>3, <2>4
         DEF DeleteOtherSessions, DeleteSession, DeleteAllSessions, CreateSession
  <1>4. QED
    BY <1>1, <1>3, EndedKeys, QuietKeys

\* An account is set up when it has no key yet, or when it is new.
LEMMA SetUpKeys ==
    ASSUME AInv, NEW r \in Requests, ActivateUser(r) \/ InsertUser(r)
    PROVE  KeyStep
  <1>1. users \in [Accounts -> Row \cup {NoRow}] /\ lastId \in Nat /\ request[r] \in Request
    BY Drawn, RequestFacts DEF AInv, TypeOK
  <1>2. CASE UNCHANGED users /\ Finish(r)
    BY <1>2, EndedKeys, QuietKeys
  <1>3. CASE ActivateUser(r) /\ ~(UNCHANGED users /\ Finish(r))
    <2>1. PICK key \in {NoSecret, drawn + 1} :
            LET u == Configured(users[request[r].id].name, key) IN
            /\ users' = [users EXCEPT ![request[r].id] = u]
            /\ Await(r, [request[r] EXCEPT !.pc = "grant", !.user = u])
      BY <1>3 DEF ActivateUser
    <2>2. MayActivate(request[r].id)
      BY <1>3 DEF ActivateUser
    <2> DEFINE u == Configured(users[request[r].id].name, key)
               q == [request[r] EXCEPT !.pc = "grant", !.user = u]
    <2>3. Await(r, q)
      BY <2>1
    <2>4. q.pc = "grant"
      BY <1>1 DEF Request
    <2> HIDE DEF q
    <2>5. \A x \in Requests : request'[x].pc = "reset" => request'[x] = request[x]
      BY <2>3, <2>4, OneGoesOn
    <2>6. users[request[r].id].recovery = NoSecret
      BY <1>1, <2>2 DEF MayActivate, Exists, AInv, GoodRow
    <2>7. \A a \in Accounts : users'[a] = users[a] \/ a = request[r].id
      BY <1>1, <2>1
    <2>8. users[request[r].id] # NoRow
      BY <2>2 DEF MayActivate, Exists
    <2>9. QED
      BY <2>5, <2>6, <2>7, <2>8 DEF KeyStep, KeysReplaced, FreshIds, NewResets
  <1>4. CASE InsertUser(r) /\ ~(UNCHANGED users /\ Finish(r))
    <2>1. PICK key \in {NoSecret, drawn + 1} :
            LET u == Configured(request[r].name, key) IN
            /\ users' = [users EXCEPT ![lastId + 1] = u]
            /\ Await(r, [request[r] EXCEPT !.pc = "grant", !.id = lastId + 1, !.user = u])
      BY <1>4 DEF InsertUser
    <2> DEFINE u == Configured(request[r].name, key)
               q == [request[r] EXCEPT !.pc = "grant", !.id = lastId + 1, !.user = u]
    <2>3. Await(r, q)
      BY <2>1
    <2>4. q.pc = "grant"
      BY <1>1 DEF Request
    <2> HIDE DEF q
    <2>5. \A x \in Requests : request'[x].pc = "reset" => request'[x] = request[x]
      BY <2>3, <2>4, OneGoesOn
    <2>6. \A a \in Accounts : users'[a] = users[a] \/ a = lastId + 1
      BY <1>1, <2>1
    <2>7. lastId + 1 \in Accounts => users[lastId + 1] = NoRow
      BY <1>1 DEF AInv
    <2>8. QED
      BY <1>1, <2>5, <2>6, <2>7 DEF KeyStep, KeysReplaced, FreshIds, NewResets
  <1>5. CASE ActivateUser(r)
    BY <1>2, <1>3, <1>5 DEF ActivateUser
  <1>6. CASE InsertUser(r)
    BY <1>2, <1>4, <1>6 DEF InsertUser
  <1>7. QED
    BY <1>5, <1>6

\* A change or a reset replaces the key of its account, and is then past it.
LEMMA WritersKeys ==
    ASSUME AInv, NEW r \in Requests, PasswordChanged(r) \/ ResetByRecovery(r)
    PROVE  KeyStep
  <1> DEFINE a == request[r].id
  <1>1. PICK key \in {NoSecret, drawn + 1} : UpdateAuthMaterial(a, key)
    BY DEF ResetByRecovery, PasswordChanged
  <1>2. /\ users \in [Accounts -> Row \cup {NoRow}] /\ request[r] \in Request
        /\ request[r].pc \in {"reset", "change"}
    BY RequestFacts DEF AInv, TypeOK, ResetByRecovery, PasswordChanged
  <1>3. \A b \in Accounts : b = a \/ users'[b] = users[b]
    BY <1>1, <1>2 DEF UpdateAuthMaterial
  <1>4. users'[a] # NoRow /\ a \in Accounts => users[a] # NoRow
    BY <1>1, <1>2 DEF UpdateAuthMaterial, Exists
  <1>5. PICK q : Await(r, q) /\ q.pc \in {"grant", "revoke"}
    <2>1. CASE PasswordChanged(r)
      BY <1>2, <2>1 DEF PasswordChanged, Proceed, Request
    <2>2. CASE ResetByRecovery(r)
      <3> DEFINE p == [request[r] EXCEPT !.pc = "grant", !.user.auth = drawn + 1]
      <3>1. Await(r, p)
        BY <2>2 DEF ResetByRecovery
      <3>2. p.pc = "grant"
        BY <1>2 DEF Request
      <3> HIDE DEF p
      <3>3. QED
        BY <3>1, <3>2
    <2>3. QED
      BY <2>1, <2>2
  <1>6. request'[r] = q /\ \A x \in Requests : x # r => request'[x] = request[x]
    BY <1>5, OneGoesOn
  <1>7. QED
    BY <1>2, <1>3, <1>4, <1>5, <1>6 DEF KeyStep, KeysReplaced, FreshIds, NewResets

\* Administration and what happens by itself.
LEMMA RestKeys ==
    ASSUME AInv,
           \/ \E n \in Names : CreatePendingUser(n) \/ CommandResetInvite(n)
           \/ \E a \in Accounts : DeleteUser(a)
           \/ \E s \in sessions : Expire(s)
           \/ Crash
    PROVE  KeyStep
  <1>1. users \in [Accounts -> Row \cup {NoRow}] /\ lastId \in Nat
    BY Drawn DEF AInv, TypeOK
  <1>2. CASE \E n \in Names : CreatePendingUser(n)
    <2>1. PICK n \in Names : CreatePendingUser(n)
      BY <1>2
    <2>2. UNCHANGED request /\ \A a \in Accounts : a = lastId + 1 \/ users'[a] = users[a]
      BY <1>1, <2>1 DEF CreatePendingUser
    <2>3. lastId + 1 \in Accounts => users[lastId + 1] = NoRow
      BY <1>1 DEF AInv
    <2>4. QED
      BY <1>1, <2>2, <2>3 DEF KeyStep, KeysReplaced, FreshIds, NewResets
  <1>3. CASE \E n \in Names : CommandResetInvite(n)
    <2>1. PICK n \in Names : CommandResetInvite(n)
      BY <1>3
    <2>2. /\ UNCHANGED request
          /\ users' = [a \in Accounts |->
                IF a \in Named(n) /\ users[a].status = "pending"
                THEN [users[a] EXCEPT !.invite = drawn + 1] ELSE users[a]]
      BY <2>1 DEF CommandResetInvite, ResetInviteToken
    <2>3. \A a \in Accounts : users'[a] # NoRow =>
              users[a] # NoRow /\ users'[a].recovery = users[a].recovery
      BY <1>1, <2>2 DEF Named, Row
    <2>4. QED
      BY <2>2, <2>3, QuietKeys
  <1>4. CASE \E a \in Accounts : DeleteUser(a)
    <2>1. PICK a \in Accounts : DeleteUser(a)
      BY <1>4
    <2>2. /\ UNCHANGED request
          /\ \A b \in Accounts : users'[b] # NoRow => users'[b] = users[b]
      BY <1>1, <2>1 DEF DeleteUser
    <2>3. QED
      BY <2>2, QuietKeys
  <1>5. CASE \E s \in sessions : Expire(s)
    BY <1>5, QuietKeys DEF Expire
  <1>6. CASE Crash
    BY <1>6, QuietKeys DEF Crash, Idle
  <1>7. QED
    BY <1>2, <1>3, <1>4, <1>5, <1>6

\* Every step.
LEMMA NextKeys ==
    ASSUME AInv, Next
    PROVE  KeyStep
  <1>1. ASSUME NEW r \in Requests, Administration(r)
        PROVE  KeyStep
    BY <1>1, ReadKeys, SmallWritesKeys DEF Administration
  <1>2. ASSUME NEW r \in Requests, Anonymous(r)
        PROVE  KeyStep
    BY <1>2, ReadKeys, SmallWritesKeys, SetUpKeys, WritersKeys DEF Anonymous
  <1>3. ASSUME NEW r \in Requests, WithSession(r)
        PROVE  KeyStep
    BY <1>3, ReadKeys, SmallWritesKeys, WritersKeys DEF WithSession
  <1>4. QED
    BY <1>1, <1>2, <1>3, RestKeys DEF Next

\* A recovery key is used once (it is "burned after every use") as long as no two
\* requests, of which one is a reset, are about to write the password of one account:
\* between handleRecover's check of the key and its UPDATE nothing else can replace it.
THEOREM KeysAreBurned == Spec /\ []OneWriterPerReset => RecoveryKeyUsedOnce
  <1> DEFINE Once == \A r \in Requests :
        request[r].pc = "reset" /\ request'[r].pc = "grant" /\ Exists(request[r].id) =>
            request[r].user.recovery = users[request[r].id].recovery
  <1>1. Init => KeyIsCurrent
    BY DEF Init, KeyIsCurrent, Idle
  <1>2. AInv /\ AInv' /\ KeyIsCurrent /\ OneWriterPerReset /\ [Next]_vars => KeyIsCurrent'
    <2>1. ASSUME AInv, AInv', KeyIsCurrent, OneWriterPerReset, Next
          PROVE  KeyIsCurrent'
      BY <2>1, NextKeys, KeyStays
    <2>2. ASSUME KeyIsCurrent, UNCHANGED vars
          PROVE  KeyIsCurrent'
      BY <2>2 DEF vars, KeyIsCurrent
    <2>3. QED
      BY <2>1, <2>2
  <1>3. KeyIsCurrent => Once
    BY DEF KeyIsCurrent, Exists
  <1> HIDE DEF Once
  <1>4. Spec => [][Next]_vars /\ Init
    BY DEF Spec
  <1>5. KeyIsCurrent => [Once]_vars
    BY <1>3
  <1>6. Spec /\ []OneWriterPerReset => [][Once]_vars
    BY <1>1, <1>2, <1>4, <1>5, Always, PTL
  <1>7. QED
    BY <1>6 DEF RecoveryKeyUsedOnce, Once

\* An account that was deleted never comes back: AUTOINCREMENT gives its id to no other,
\* so a request that still holds it writes nothing (the UPDATEs are by id).
DeletedStaysDeleted ==
    [][\A a \in Accounts : a <= lastId /\ users[a] = NoRow => users'[a] = NoRow]_vars

\* An id is given to one account only.
THEOREM DeletedIsFinal == Spec => DeletedStaysDeleted
  <1> DEFINE Stays == \A a \in Accounts : a <= lastId /\ users[a] = NoRow => users'[a] = NoRow
  <1>1. AInv /\ Next => Stays
    <2>1. AInv => lastId \in Nat /\ \A a \in Accounts : a \in Nat
      BY Drawn DEF Accounts
    <2>2. QED
      BY <2>1, NextKeys DEF KeyStep, FreshIds
  <1> HIDE DEF Stays
  <1>2. AInv /\ [Next]_vars => [Stays]_vars
    BY <1>1
  <1>3. Spec => [][Stays]_vars
    <2>1. Spec => [][Next]_vars
      BY DEF Spec
    <2>2. QED
      BY <1>2, <2>1, Always, PTL
  <1>4. QED
    BY <1>3 DEF DeletedStaysDeleted, Stays

=============================================================================
