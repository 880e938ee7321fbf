---------------------------- MODULE VaultSync -----------------------------
(***************************************************************************)
(* The synchronisation of one user's vault between the devices that hold   *)
(* it and the server: SessionController (app/lib/state/session.dart), the  *)
(* cache file it writes, the HTTP exchange and the compare-and-swap on the *)
(* revision in the server's users row.                                     *)
(*                                                                         *)
(* Dart runs one continuation at a time, so an action is the code between  *)
(* two awaits.  Every asynchronous call in progress is a task: a record of *)
(* the values it captured and of what it awaits.  A device has Slots of    *)
(* them, since nothing in the controller keeps two calls apart.            *)
(***************************************************************************)
EXTENDS VaultMerge

CONSTANTS
    Devices,        \* the devices logged in to the account
    Slots,          \* asynchronous calls a device may have in progress
    Explored,       \* the operations this instance explores, a subset of Operations
    Seeded,         \* identifiers present in the vault initially
    MaxEdits,       \* bound: saves of new content by all devices
    MaxRevision,    \* bound: revisions the server accepts
    MaxLate,        \* bound: PUTs given up and still on their way at one time
    Clock,          \* updatedAt of the n-th edit: what the editing device's clock said
    NoVault,        \* no decrypted vault in memory
    NoCache         \* no cache in memory, no cache file

Operations == {"save", "draft", "sync", "syncAll", "resolve", "lock", "unlock",
               "bio", "password", "logout", "login", "restart", "expiry",
               "unreachable", "serverError"}

ASSUME BoundsAssumption ==
    /\ {MaxEdits, MaxRevision, MaxLate} \subseteq Nat
    /\ Contents = 0..MaxEdits
    /\ Clock \in [1..MaxEdits -> Nat]
ASSUME ChoiceAssumption ==
    /\ Seeded \subseteq Ids
    /\ Explored \subseteq Operations
ASSUME NullAssumption ==
    /\ NoVault \notin Vault
    /\ NoCache \notin [blob : Vault, revision : Nat, pending : BOOLEAN]

Cache == [blob : Vault, revision : Nat, pending : BOOLEAN]
Clean(v, r) == [blob |-> v, revision |-> r, pending |-> FALSE]
Pending(v, r) == [blob |-> v, revision |-> r, pending |-> TRUE]

Answer == [type : {"none", "ok", "conflict", "error", "vault"},
           revision : Nat, blob : Vault \cup {NoVault}]
NoAnswer == [type |-> "none", revision |-> 0, blob |-> NoVault]

\* What a task awaits.  put, mergeGet, refreshGet, loginGet: the server's answer.
\* derive: key derivation, a biometric prompt.  store: the cache file written.
\* wipe, reset: the two halves of logout.
Waits == {"idle", "put", "mergeGet", "refreshGet", "loginGet", "derive",
          "store", "wipe", "reset"}
AtServer == {"put", "mergeGet", "refreshGet", "loginGet"}

\* What a task does once the cache file is written.
Continuations == {"none", "done", "pending", "refreshed", "assign", "loggedIn"}

Task == [op : Operations \cup {"none"}, pc : Waits,
         vault : Vault \cup {NoVault}, revision : Nat, attempt : 0..2,
         held : Cache \cup {NoCache}, answer : Answer, after : Continuations]

Idle == [op |-> "none", pc |-> "idle", vault |-> NoVault, revision |-> 0, attempt |-> 0,
         held |-> NoCache, answer |-> NoAnswer, after |-> "none"]

VARIABLES
    row,            \* the server's users row: vault_blob and vault_revision
    accepted,       \* history: every write the server accepted
    late,           \* PUTs given up by their sender that may still arrive
    status,         \* AuthStatus of each device
    vault,          \* decrypted vault in the device's memory
    cache,          \* CachedVault in the device's memory
    disk,           \* the cache file
    conflicts,      \* conflicts shown to the user
    draft,          \* vault an open edit screen was built with
    timer,          \* the lock timer is armed
    task,           \* the asynchronous calls in progress
    edits,          \* history: number of edits made
    used,           \* history: identifiers ever given to an entry or folder
    overridden      \* history: identifiers a user has removed or chosen a version of

server == <<row, accepted, late>>
device == <<status, vault, cache, disk, conflicts, draft, timer>>
ghosts == <<edits, used, overridden>>
vars == <<row, accepted, late, status, vault, cache, disk, conflicts, draft, timer,
          task, edits, used, overridden>>

Statuses == {"unauthenticated", "locked", "unlocked"}

InitialVault == [i \in Ids |-> IF i \in Seeded THEN [content |-> 0, at |-> 0] ELSE Absent]

\* Every device has just logged in to the account and holds what the server holds.
Init ==
    /\ row = [blob |-> InitialVault, revision |-> 1]
    /\ accepted = {[revision |-> 1, blob |-> InitialVault]}
    /\ late = {}
    /\ status = [d \in Devices |-> "unlocked"]
    /\ vault = [d \in Devices |-> InitialVault]
    /\ cache = [d \in Devices |-> Clean(InitialVault, 1)]
    /\ disk = [d \in Devices |-> Clean(InitialVault, 1)]
    /\ conflicts = [d \in Devices |-> {}]
    /\ draft = [d \in Devices |-> NoVault]
    /\ timer = [d \in Devices |-> TRUE]
    /\ task = [d \in Devices |-> [s \in Slots |-> Idle]]
    /\ edits = 0
    /\ used = Seeded
    /\ overridden = {}

----------------------------------------------------------------------------
(* Helpers *)

\* A call is made in a free slot of d, in an instance that explores it.
Starts(d, s, op) == op \in Explored /\ task[d][s].pc = "idle"

SetTask(d, s, t) == task' = [task EXCEPT ![d][s] = t]
Finish(d, s) == SetTask(d, s, Idle)

\* cache, vaultKey and token are all there: the guard of saveVault and its callers.
HasSecrets(d) == status[d] = "unlocked" /\ cache[d] # NoCache

\* Mutant of HasPending: the session may have been locked since the call began.
HasPendingUnguarded(d) == cache[d] # NoCache /\ cache[d].pending

\* pendingSync, and the guard of syncPendingChanges.
HasPending(d) == HasSecrets(d) /\ vault[d] # NoVault /\ cache[d].pending

\* _pushVault up to its first await: the vault, the token and the cache's revision
\* are captured, the first PUT is sent.
Push(d, op, v) ==
    [Idle EXCEPT !.op = op, !.pc = "put", !.vault = v, !.revision = cache[d].revision]

\* Mutant of Accepts: the UPDATE without its condition on vault_revision.
AcceptsAny(base) == TRUE

\* UpdateVault: one UPDATE guarded by the revision the writer started from.
Accepts(base) == base = row.revision

Accept(v) ==
    /\ row.revision < MaxRevision
    /\ row' = [blob |-> v, revision |-> row.revision + 1]
    /\ accepted' = accepted \cup {[revision |-> row.revision + 1, blob |-> v]}

\* The vault after one save by the user: the entries in put get the version of
\* this edit, those in del disappear.  A new entry has an identifier of its own.
Edited(v, put, del) ==
    [i \in Ids |-> IF i \in put THEN [content |-> edits + 1, at |-> Clock[edits + 1]]
                   ELSE IF i \in del THEN Absent
                   ELSE v[i]]

CountEdit(put, del) ==
    /\ edits' = edits + 1
    /\ used' = used \cup put
    /\ overridden' = overridden \cup del

----------------------------------------------------------------------------
(* Calls that push the vault *)

\* Every edit of the user interface: add, change, remove an entry or a folder.
Save(d, s) ==
    /\ Starts(d, s, "save") /\ HasSecrets(d)
    /\ edits < MaxEdits
    /\ \E put, del \in SUBSET Ids :
          /\ put \cup del # {}
          /\ put \cap del = {}
          /\ \A i \in put : Present(vault[d], i) \/ i \notin used
          /\ \A i \in del : Present(vault[d], i)
          /\ vault' = [vault EXCEPT ![d] = Edited(vault[d], put, del)]
          /\ SetTask(d, s, Push(d, "save", Edited(vault[d], put, del)))
          /\ CountEdit(put, del)
    /\ UNCHANGED <<server, status, cache, disk, conflicts, draft, timer>>

\* The entry list keeps the vault it was built with while the new entry is typed.
OpenDraft(d) ==
    /\ "draft" \in Explored
    /\ status[d] = "unlocked"
    /\ draft[d] # vault[d]
    /\ draft' = [draft EXCEPT ![d] = vault[d]]
    /\ UNCHANGED <<server, status, vault, cache, disk, conflicts, timer, task, ghosts>>

SaveDraft(d, s) ==
    /\ Starts(d, s, "draft") /\ HasSecrets(d)
    /\ draft[d] # NoVault
    /\ edits < MaxEdits
    /\ \E i \in Entries \ used :
          /\ vault' = [vault EXCEPT ![d] = Edited(draft[d], {i}, {})]
          /\ SetTask(d, s, Push(d, "draft", Edited(draft[d], {i}, {})))
          /\ CountEdit({i}, {})
    /\ draft' = [draft EXCEPT ![d] = NoVault]
    /\ UNCHANGED <<server, status, cache, disk, conflicts, timer>>

\* After a successful health check, or by hand: push what is marked pending.
SyncPendingChanges(d, s) ==
    /\ Starts(d, s, "sync") /\ HasPending(d)
    /\ SetTask(d, s, Push(d, "sync", vault[d]))
    /\ UNCHANGED <<server, device, ghosts>>

ApplyConflictResolutions(d, s) ==
    /\ Starts(d, s, "resolve") /\ HasSecrets(d)
    /\ conflicts[d] # {}
    /\ vault[d] # NoVault
    /\ \E choice \in [conflicts[d] -> Choices] :
          /\ \A c \in conflicts[d] : c.kind = "editedEdited" => choice[c] # "both"
          /\ vault' = [vault EXCEPT ![d] = ResolveConflicts(vault[d], choice)]
          /\ SetTask(d, s, Push(d, "resolve", ResolveConflicts(vault[d], choice)))
          /\ overridden' = overridden \cup Dropped(choice) \cup {i \in Ids : Chosen(choice, i) # {}}
    /\ UNCHANGED <<server, status, cache, disk, conflicts, draft, timer, edits, used>>

----------------------------------------------------------------------------
(* The server *)

ServePut(d, s) ==
    LET t == task[d][s] IN
    /\ t.pc = "put" /\ t.answer.type = "none"
    /\ \/ /\ Accepts(t.revision)
          /\ Accept(t.vault)
          /\ SetTask(d, s, [t EXCEPT !.answer = [type |-> "ok", revision |-> t.revision + 1,
                                                 blob |-> NoVault]])
       \/ /\ ~Accepts(t.revision)
          /\ SetTask(d, s, [t EXCEPT !.answer = [NoAnswer EXCEPT !.type = "conflict"]])
          /\ UNCHANGED <<row, accepted>>
    /\ UNCHANGED <<late, device, ghosts>>

ServeGet(d, s) ==
    LET t == task[d][s] IN
    /\ t.pc \in AtServer \ {"put"} /\ t.answer.type = "none"
    /\ SetTask(d, s, [t EXCEPT !.answer = [type |-> "vault", revision |-> row.revision,
                                           blob |-> row.blob]])
    /\ UNCHANGED <<server, device, ghosts>>

\* 401 after a revocation, 429, 500: refused without touching the row.
ServeError(d, s) ==
    LET t == task[d][s] IN
    /\ "serverError" \in Explored
    /\ t.pc \in AtServer /\ t.answer.type = "none"
    /\ SetTask(d, s, [t EXCEPT !.answer = [NoAnswer EXCEPT !.type = "error"]])
    /\ UNCHANGED <<server, device, ghosts>>

\* A PUT whose sender has given up is served all the same; nobody reads the answer.
ServeLate ==
    \E p \in late :
        /\ late' = late \ {p}
        /\ IF Accepts(p.revision) THEN Accept(p.vault) ELSE UNCHANGED <<row, accepted>>
        /\ UNCHANGED <<device, task, ghosts>>

----------------------------------------------------------------------------
(* Answers *)

\* Mutant of Pushed: the cache takes the vault shown now, not the one pushed.
PushedShown(d, t) == Clean(vault[d], t.answer.revision)

\* What a successful push leaves in the cache.
Pushed(d, t) == Clean(t.vault, t.answer.revision)

\* 200: the pushed vault becomes the clean cache.  With no cache left (logged out
\* meanwhile) the assignment throws and the call ends.
PutAccepted(d, s) ==
    LET t == task[d][s]
        c == Pushed(d, t) IN
    /\ t.pc = "put" /\ t.answer.type = "ok"
    /\ IF cache[d] = NoCache
       THEN Finish(d, s) /\ UNCHANGED cache
       ELSE /\ cache' = [cache EXCEPT ![d] = c]
            /\ SetTask(d, s, [t EXCEPT !.pc = "store", !.held = c, !.after = "done",
                                       !.answer = NoAnswer])
    /\ UNCHANGED <<server, status, vault, disk, conflicts, draft, timer, ghosts>>

\* 409: fetch the server's vault.
PutConflict(d, s) ==
    LET t == task[d][s] IN
    /\ t.pc = "put" /\ t.answer.type = "conflict"
    /\ SetTask(d, s, [t EXCEPT !.pc = "mergeGet", !.answer = NoAnswer])
    /\ UNCHANGED <<server, device, ghosts>>

\* Mutant of Show: the merged vault is pushed but not shown.
ShowNothing(d, v) == UNCHANGED vault

Show(d, v) == vault' = [vault EXCEPT ![d] = v]

\* Mutant of Retry: the vault pushed first is pushed again on the new revision.
RetrySame(t, merged) ==
    [t EXCEPT !.pc = "put", !.attempt = @ + 1, !.revision = t.answer.revision,
              !.answer = NoAnswer]

Retry(t, merged) ==
    [t EXCEPT !.pc = "put", !.vault = merged, !.attempt = @ + 1,
              !.revision = t.answer.revision, !.answer = NoAnswer]

\* The fetched vault is merged into the one being pushed, shown, and pushed again
\* on its revision; the third conflict in a row gives up (sync_failed).
MergeRemote(d, s) ==
    LET t == task[d][s]
        merged == MergeVaults(t.vault, t.answer.blob) IN
    /\ t.pc = "mergeGet" /\ t.answer.type = "vault"
    /\ Show(d, merged)
    /\ \E fp \in LocalFp(t.vault) :
          LET found == FindConflicts(t.vault, t.answer.blob, fp)
          IN  conflicts' = IF found = {} THEN conflicts
                           ELSE [conflicts EXCEPT ![d] = found]
    /\ IF t.attempt = 2
       THEN Finish(d, s)
       ELSE SetTask(d, s, Retry(t, merged))
    /\ UNCHANGED <<server, status, cache, disk, draft, timer, ghosts>>

\* The second half of syncAll: push what is still pending.
PushIfPending(d, s) ==
    IF HasPending(d)
    THEN SetTask(d, s, Push(d, "syncAll", vault[d]))
    ELSE Finish(d, s)

SyncAll(d, s) ==
    /\ Starts(d, s, "syncAll") /\ HasSecrets(d)
    /\ conflicts[d] = {}
    /\ SetTask(d, s, [Idle EXCEPT !.op = "syncAll", !.pc = "refreshGet",
                                  !.revision = cache[d].revision])
    /\ UNCHANGED <<server, device, ghosts>>

\* Nothing newer on the server.
RefreshIdle(d, s) ==
    LET t == task[d][s] IN
    /\ t.pc = "refreshGet" /\ t.answer.type = "vault"
    /\ t.answer.revision <= t.revision
    /\ PushIfPending(d, s)
    /\ UNCHANGED <<server, device, ghosts>>

\* The server's vault replaces the local one, or is merged into it when local
\* edits are pending; the cache becomes the server's version, not pending.
RefreshReplace(d, s) ==
    LET t == task[d][s]
        c == Clean(t.answer.blob, t.answer.revision)
        base == IF vault[d] = NoVault THEN EmptyVault ELSE vault[d]
        isPending == cache[d] # NoCache /\ cache[d].pending IN
    /\ t.pc = "refreshGet" /\ t.answer.type = "vault"
    /\ t.answer.revision > t.revision
    /\ vault' = [vault EXCEPT ![d] = IF isPending THEN MergeVaults(base, t.answer.blob)
                                     ELSE t.answer.blob]
    /\ IF cache[d] = NoCache
       THEN Finish(d, s) /\ UNCHANGED cache
       ELSE /\ cache' = [cache EXCEPT ![d] = c]
            /\ SetTask(d, s, [t EXCEPT !.pc = "store", !.held = c, !.after = "refreshed",
                                       !.answer = NoAnswer])
    /\ UNCHANGED <<server, status, disk, conflicts, draft, timer, ghosts>>

\* A refusal is thrown to the caller; nothing is kept.
Refused(d, s) ==
    LET t == task[d][s] IN
    /\ t.pc \in AtServer /\ t.answer.type = "error"
    /\ Finish(d, s)
    /\ UNCHANGED <<server, device, ghosts>>

\* The PUTs of the calls ts that are not served yet may still reach the server
\* after their sender gave them up.
Unserved(ts) ==
    {[vault |-> t.vault, revision |-> t.revision] :
        t \in {u \in ts : u.pc = "put" /\ u.answer.type = "none"}}

GiveUp(ts) ==
    \E arriving \in SUBSET Unserved(ts) :
        /\ Cardinality(late \cup arriving) <= MaxLate
        /\ late' = late \cup arriving

\* Mutant of TimesOut: the download that follows a 409 waits for ever.
TimesOutUnlessMerging(t) == t.pc \in AtServer \ {"mergeGet"}

\* Every request has a timeout of its own.
TimesOut(t) == t.pc \in AtServer

\* What an interrupted push leaves in the cache.
KeptPending(t) == Pending(t.vault, t.revision)

\* No answer: connection refused, timeout, or the answer is lost.  A push keeps
\* its vault in the cache, marked pending; the other calls just end.
Unreachable(d, s) ==
    LET t == task[d][s]
        c == KeptPending(t) IN
    /\ "unreachable" \in Explored
    /\ TimesOut(t)
    /\ GiveUp({t})
    /\ IF t.pc \in {"put", "mergeGet"} /\ cache[d] # NoCache
       THEN /\ cache' = [cache EXCEPT ![d] = c]
            /\ SetTask(d, s, [t EXCEPT !.pc = "store", !.held = c, !.after = "pending",
                                       !.answer = NoAnswer])
       ELSE Finish(d, s) /\ UNCHANGED cache
    /\ UNCHANGED <<row, accepted, status, vault, disk, conflicts, draft, timer, ghosts>>

----------------------------------------------------------------------------
(* The cache file is written (a temporary file, then a rename) *)

Write(d, s) == disk' = [disk EXCEPT ![d] = task[d][s].held]

\* The end of a push that did not throw: a resolution forgets the conflicts.
ForgetConflicts(d, op) ==
    conflicts' = IF op = "resolve" THEN [conflicts EXCEPT ![d] = {}] ELSE conflicts

StoredDone(d, s) ==
    /\ task[d][s].pc = "store" /\ task[d][s].after = "done"
    /\ Write(d, s)
    /\ ForgetConflicts(d, task[d][s].op)
    /\ Finish(d, s)
    /\ UNCHANGED <<server, status, vault, cache, draft, timer, ghosts>>

\* _persistPending after its await: the vault that could not be pushed is shown.
StoredPending(d, s) ==
    /\ task[d][s].pc = "store" /\ task[d][s].after = "pending"
    /\ Write(d, s)
    /\ vault' = IF vault[d] = NoVault THEN vault
                ELSE [vault EXCEPT ![d] = task[d][s].vault]
    /\ ForgetConflicts(d, task[d][s].op)
    /\ Finish(d, s)
    /\ UNCHANGED <<server, status, cache, draft, timer, ghosts>>

StoredRefreshed(d, s) ==
    /\ task[d][s].pc = "store" /\ task[d][s].after = "refreshed"
    /\ Write(d, s)
    /\ PushIfPending(d, s)
    /\ UNCHANGED <<server, status, vault, cache, conflicts, draft, timer, ghosts>>

\* changePassword: the cache object built before the await replaces the current one.
StoredAssign(d, s) ==
    /\ task[d][s].pc = "store" /\ task[d][s].after = "assign"
    /\ Write(d, s)
    /\ cache' = [cache EXCEPT ![d] = task[d][s].held]
    /\ Finish(d, s)
    /\ UNCHANGED <<server, status, vault, conflicts, draft, timer, ghosts>>

StoredLoggedIn(d, s) ==
    /\ task[d][s].pc = "store" /\ task[d][s].after = "loggedIn"
    /\ Write(d, s)
    /\ status' = [status EXCEPT ![d] = "unlocked"]
    /\ cache' = [cache EXCEPT ![d] = task[d][s].held]
    /\ vault' = [vault EXCEPT ![d] = task[d][s].held.blob]
    /\ timer' = [timer EXCEPT ![d] = TRUE]
    /\ Finish(d, s)
    /\ UNCHANGED <<server, conflicts, draft, ghosts>>

----------------------------------------------------------------------------
(* Lock, unlock, and the calls that rewrite the cache *)

\* The Lock button, or the timer: it checks nothing when it fires.
Lock(d) ==
    /\ "lock" \in Explored
    /\ status[d] = "unlocked" \/ timer[d]
    /\ status' = [status EXCEPT ![d] = "locked"]
    /\ vault' = [vault EXCEPT ![d] = NoVault]
    /\ conflicts' = [conflicts EXCEPT ![d] = {}]
    /\ draft' = [draft EXCEPT ![d] = NoVault]
    /\ timer' = [timer EXCEPT ![d] = FALSE]
    /\ UNCHANGED <<server, cache, disk, task, ghosts>>

\* unlock and unlockWithBiometrics, enableBiometrics ("bio") and changePassword
\* ("password") capture the cache and await a derivation, a prompt, the server.
Capture(d, s, op) ==
    /\ Starts(d, s, op)
    /\ IF op = "unlock" THEN status[d] = "locked" /\ cache[d] # NoCache ELSE HasSecrets(d)
    /\ SetTask(d, s, [Idle EXCEPT !.op = op, !.pc = "derive", !.held = cache[d]])
    /\ UNCHANGED <<server, device, ghosts>>

Derives(d, s, op) == task[d][s].pc = "derive" /\ task[d][s].op = op

\* Wrong password, prompt cancelled, password change refused or unreachable.
DeriveFails(d, s) ==
    /\ task[d][s].pc = "derive"
    /\ Finish(d, s)
    /\ UNCHANGED <<server, device, ghosts>>

Unlocked(d, s) ==
    /\ Derives(d, s, "unlock")
    /\ status' = [status EXCEPT ![d] = "unlocked"]
    /\ vault' = [vault EXCEPT ![d] = task[d][s].held.blob]
    /\ timer' = [timer EXCEPT ![d] = TRUE]
    /\ Finish(d, s)
    /\ UNCHANGED <<server, cache, disk, conflicts, draft, ghosts>>

BiometricsEnabled(d, s) ==
    /\ Derives(d, s, "bio")
    /\ cache' = [cache EXCEPT ![d] = task[d][s].held]
    /\ SetTask(d, s, [task[d][s] EXCEPT !.pc = "store", !.after = "done"])
    /\ UNCHANGED <<server, status, vault, disk, conflicts, draft, timer, ghosts>>

\* disableBiometrics deletes the key, then writes the cache of that moment again,
\* without the wrapped key; the vault may have been locked by then.
DisableBiometrics(d, s) ==
    /\ Starts(d, s, "bio") /\ cache[d] # NoCache
    /\ SetTask(d, s, [Idle EXCEPT !.op = "bio", !.pc = "store", !.held = cache[d],
                                  !.after = "done"])
    /\ UNCHANGED <<server, device, ghosts>>

PasswordChanged(d, s) ==
    /\ Derives(d, s, "password")
    /\ SetTask(d, s, [task[d][s] EXCEPT !.pc = "store", !.after = "assign"])
    /\ UNCHANGED <<server, device, ghosts>>

----------------------------------------------------------------------------
(* Logout, login, and the app killed and started again *)

Logout(d, s) ==
    /\ Starts(d, s, "logout")
    /\ status[d] # "unauthenticated"
    /\ SetTask(d, s, [Idle EXCEPT !.op = "logout", !.pc = "wipe"])
    /\ UNCHANGED <<server, device, ghosts>>

\* _wipeLocalState deletes the cache file ...
Wiped(d, s) ==
    /\ task[d][s].pc = "wipe"
    /\ disk' = [disk EXCEPT ![d] = NoCache]
    /\ SetTask(d, s, [task[d][s] EXCEPT !.pc = "reset"])
    /\ UNCHANGED <<server, status, vault, cache, conflicts, draft, timer, ghosts>>

\* ... and, awaits later, the state is replaced.  The lock timer is not cancelled.
LoggedOut(d, s) ==
    /\ task[d][s].pc = "reset"
    /\ status' = [status EXCEPT ![d] = "unauthenticated"]
    /\ vault' = [vault EXCEPT ![d] = NoVault]
    /\ cache' = [cache EXCEPT ![d] = NoCache]
    /\ conflicts' = [conflicts EXCEPT ![d] = {}]
    /\ draft' = [draft EXCEPT ![d] = NoVault]
    /\ Finish(d, s)
    /\ UNCHANGED <<server, disk, timer, ghosts>>

\* login: prelogin and login succeed, the vault is downloaded.
Login(d, s) ==
    /\ Starts(d, s, "login")
    /\ status[d] = "unauthenticated"
    /\ SetTask(d, s, [Idle EXCEPT !.op = "login", !.pc = "loginGet"])
    /\ UNCHANGED <<server, device, ghosts>>

\* The cache is written first; the state follows in StoredLoggedIn.
LoginLoaded(d, s) ==
    LET t == task[d][s] IN
    /\ t.pc = "loginGet" /\ t.answer.type = "vault"
    /\ SetTask(d, s, [t EXCEPT !.pc = "store", !.after = "loggedIn", !.answer = NoAnswer,
                               !.held = Clean(t.answer.blob, t.answer.revision)])
    /\ UNCHANGED <<server, device, ghosts>>

\* What _init finds: the cache file, unless it has expired and is deleted.
Loaded(d) == {disk[d]} \cup IF "expiry" \in Explored THEN {NoCache} ELSE {}

\* The process ends wherever it is and is started again.
Restart(d) ==
    /\ "restart" \in Explored
    /\ GiveUp({task[d][s] : s \in Slots})
    /\ task' = [task EXCEPT ![d] = [s \in Slots |-> Idle]]
    /\ \E c \in Loaded(d) :
          /\ disk' = [disk EXCEPT ![d] = c]
          /\ cache' = [cache EXCEPT ![d] = c]
          /\ status' = [status EXCEPT ![d] = IF c = NoCache THEN "unauthenticated"
                                             ELSE "locked"]
    /\ vault' = [vault EXCEPT ![d] = NoVault]
    /\ conflicts' = [conflicts EXCEPT ![d] = {}]
    /\ draft' = [draft EXCEPT ![d] = NoVault]
    /\ timer' = [timer EXCEPT ![d] = FALSE]
    /\ UNCHANGED <<row, accepted, ghosts>>

----------------------------------------------------------------------------
Begin(d, s) ==
    \/ Save(d, s)
    \/ SaveDraft(d, s)
    \/ SyncPendingChanges(d, s)
    \/ ApplyConflictResolutions(d, s)
    \/ SyncAll(d, s)
    \/ \E op \in {"unlock", "bio", "password"} : Capture(d, s, op)
    \/ DisableBiometrics(d, s)
    \/ Logout(d, s)
    \/ Login(d, s)

Serve(d, s) == ServePut(d, s) \/ ServeGet(d, s) \/ ServeError(d, s)

Continue(d, s) ==
    \/ PutAccepted(d, s)
    \/ PutConflict(d, s)
    \/ MergeRemote(d, s)
    \/ RefreshIdle(d, s)
    \/ RefreshReplace(d, s)
    \/ Refused(d, s)
    \/ Unreachable(d, s)
    \/ StoredDone(d, s)
    \/ StoredPending(d, s)
    \/ StoredRefreshed(d, s)
    \/ StoredAssign(d, s)
    \/ StoredLoggedIn(d, s)
    \/ DeriveFails(d, s)
    \/ Unlocked(d, s)
    \/ BiometricsEnabled(d, s)
    \/ PasswordChanged(d, s)
    \/ Wiped(d, s)
    \/ LoggedOut(d, s)
    \/ LoginLoaded(d, s)

Next ==
    \/ \E d \in Devices, s \in Slots : Begin(d, s) \/ Serve(d, s) \/ Continue(d, s)
    \/ \E d \in Devices : OpenDraft(d) \/ Lock(d) \/ Restart(d)
    \/ ServeLate

Spec == Init /\ [][Next]_vars

\* A call in progress goes on: the answer comes or the client's timeout ends the
\* wait (client.timeout), awaited local work completes.  What the user does, and
\* when the server refuses, is not fair.
Fairness ==
    \A d \in Devices, s \in Slots : WF_vars(Continue(d, s))

FairSpec == Spec /\ Fairness

----------------------------------------------------------------------------
(* Properties *)

\* Every variable holds a value of its kind.
TypeOK ==
    /\ row \in [blob : Vault, revision : Nat]
    /\ accepted \subseteq [revision : Nat, blob : Vault]
    /\ late \subseteq [vault : Vault, revision : Nat]
    /\ status \in [Devices -> Statuses]
    /\ vault \in [Devices -> Vault \cup {NoVault}]
    /\ cache \in [Devices -> Cache \cup {NoCache}]
    /\ disk \in [Devices -> Cache \cup {NoCache}]
    /\ conflicts \in [Devices -> SUBSET Conflict]
    /\ draft \in [Devices -> Vault \cup {NoVault}]
    /\ timer \in [Devices -> BOOLEAN]
    /\ task \in [Devices -> [Slots -> Task]]
    /\ edits \in Nat
    /\ used \subseteq Ids
    /\ overridden \subseteq Ids

\* The caches of d: in memory, in the file, and on their way to either.
CachesOf(d) == {cache[d], disk[d]} \cup {task[d][s].held : s \in Slots}

\* A cache that is not pending holds exactly what the server accepted as the
\* revision it names, whatever answers were lost, late, or applied out of order:
\* the base of the device's next compare-and-swap is a state it really knows.
CleanCacheIsAccepted ==
    \A d \in Devices : \A c \in CachesOf(d) \ {NoCache} :
        ~c.pending => [revision |-> c.revision, blob |-> c.blob] \in accepted

\* A device never believes in a revision the server has not published: a cache
\* ahead of the server could never be pushed again.
NeverAheadOfServer ==
    \A d \in Devices : \A c \in CachesOf(d) \ {NoCache} : c.revision <= row.revision

\* A vault merged after a 409 contains everything the revision it will replace
\* contains, and nothing in an older version: the retry loses no other device's work.
MergedPushKeepsRemote ==
    \A d \in Devices, s \in Slots :
        LET t == task[d][s] IN
        t.pc = "put" /\ t.attempt > 0 =>
            \A p \in accepted : p.revision = t.revision =>
                \A i \in Ids : Present(p.blob, i) =>
                    Present(t.vault, i) /\ ~Older(t.vault[i], p.blob[i])

\* The PUTs that the server has not served yet: of calls in progress, or given up.
InFlight == late \cup UNION {Unserved({task[d][s] : s \in Slots}) : d \in Devices}

\* The server's part, seen as a register written by compare-and-swap: the writes in
\* flight are the PUTs not served yet, each with the revision its sender captured.
Store == INSTANCE VaultStore WITH
    Values <- Vault,
    value <- row.blob,
    revision <- row.revision,
    published <- accepted,
    writes <- {[base |-> p.revision, value |-> p.vault] : p \in InFlight}

\* UpdateVault implements that register: whatever the devices and the network do,
\* the row changes only to the vault of a PUT not served yet whose sender started
\* from the current revision, and the revision then goes up by one.
ImplementsStore == Store!Spec

\* Nothing secret stays in memory while the vault is locked or logged out: lock()
\* says that here "the secrets are really removed from memory".
LockedHasNoVault == \A d \in Devices : status[d] # "unlocked" => vault[d] = NoVault

\* After a logout the cache file is gone: the vault cannot be reopened without login.
LoggedOutHasNoFile ==
    \A d \in Devices : status[d] = "unauthenticated" => disk[d] = NoCache

\* An edit kept as pending stays until it is pushed: when the mark disappears, no
\* entry has gone back to a version older than the one that was pending.
PendingEditNotReverted ==
    [][\A d \in Devices :
        /\ cache[d] # NoCache /\ cache[d].pending
        /\ cache'[d] # NoCache /\ ~cache'[d].pending
        => \A i \in Ids : ~Older(cache'[d].blob[i], cache[d].blob[i])]_vars

\* No update is lost: what the server once accepted is still there, in that version
\* or a newer one, unless some user took the entry out of a vault or chose a version
\* of it in a conflict.
NoLostUpdate ==
    \A p \in accepted, i \in Ids :
        \/ ~Present(p.blob, i)
        \/ i \in overridden
        \/ Present(row.blob, i) /\ ~Older(row.blob[i], p.blob[i])

Pushes == {"save", "draft", "sync", "syncAll", "resolve"}

\* A push that ends without an error leaves nothing in memory only: the vault the
\* device shows is the one in its cache and in the cache file, pushed or pending.
SavedIsDurable ==
    [][\A d \in Devices, s \in Slots :
        /\ task[d][s].pc = "store" /\ task'[d][s].pc = "idle"
        /\ task[d][s].after \in {"done", "pending"} /\ task[d][s].op \in Pushes
        => /\ disk'[d] = cache'[d]
           /\ vault'[d] # NoVault => vault'[d] = disk'[d].blob]_vars

\* Every asynchronous call ends: at most three pushes, and a timeout on each wait.
CallsEnd ==
    \A d \in Devices, s \in Slots : task[d][s].pc # "idle" ~> task[d][s].pc = "idle"

=============================================================================
