-------------------------- MODULE VaultSyncProofs -------------------------
(***************************************************************************)
(* Theorems about VaultSync, for any devices, calls in progress, entries   *)
(* and bounds: its types, the accuracy of what a device knows of the       *)
(* server, what a merge after a 409 keeps, and that the compare-and-swap   *)
(* implements the register of VaultStore.  Then, for devices whose calls   *)
(* do not overlap, that pushes end durable and that no update is lost.     *)
(* Last, that a call takes a bounded number of steps, and what a lock and  *)
(* a logout leave behind where no call in progress outlives them.          *)
(*                                                                         *)
(* The invariant is stated device by device and call by call: GoodCache    *)
(* and GoodTask say of one cache or one call what the properties say of    *)
(* all of them, against a revision R and a history A of the server, so     *)
(* that a step need only be examined where it changes something.  So are   *)
(* Coherent and FineDevice, FineTask in the later sections.                *)
(***************************************************************************)
EXTENDS VaultSync, VaultMergeProofs

----------------------------------------------------------------------------
(* The inductive invariant *)

\* The server's history: the current row is in it, nothing in it is newer, and a
\* revision names one vault.
GoodHistory(b, R, A) ==
    /\ [revision |-> R, blob |-> b] \in A
    /\ \A p \in A : p.revision <= R
    /\ \A p, q \in A : p.revision = q.revision => p = q

\* From one history to the next: only newer revisions are added.
Grows(R, A, R2, A2) ==
    /\ R <= R2
    /\ A \subseteq A2
    /\ \A p \in A2 \ A : p.revision > R

\* A cache, in memory, in the file or on its way there.
GoodCache(c, R, A) ==
    c # NoCache => /\ c.revision <= R
                   /\ ~c.pending => [revision |-> c.revision, blob |-> c.blob] \in A

\* v contains everything b contains, nothing in an older version.
Keeps(v, b) == \A i \in Ids : Present(b, i) => Present(v, i) /\ ~Older(v[i], b[i])

\* A call in progress: it knows a revision that exists, has what its next step
\* needs, and the answer it got says what the server did.
GoodTask(t, R, A) ==
    /\ GoodCache(t.held, R, A)
    /\ t.revision <= R
    /\ t.pc \in {"put", "mergeGet"} => t.vault \in Vault
    /\ t.pc \in {"store", "derive"} => t.held \in Cache
    /\ t.after = "pending" => t.vault \in Vault
    /\ t.answer.type = "ok" => /\ t.pc = "put"
                               /\ [revision |-> t.answer.revision, blob |-> t.vault] \in A
    /\ t.answer.type = "vault" =>
          [revision |-> t.answer.revision, blob |-> t.answer.blob] \in A
    /\ t.pc = "put" /\ t.attempt > 0 =>
          \A p \in A : p.revision = t.revision => Keeps(t.vault, p.blob)

\* An unlocked device holds a vault.
UnlockedHasVault == \A d \in Devices : status[d] = "unlocked" => vault[d] \in Vault

IInv ==
    /\ TypeOK
    /\ UnlockedHasVault
    /\ GoodHistory(row.blob, row.revision, accepted)
    /\ \A d \in Devices : /\ GoodCache(cache[d], row.revision, accepted)
                          /\ GoodCache(disk[d], row.revision, accepted)
    /\ \A d \in Devices, s \in Slots : GoodTask(task[d][s], row.revision, accepted)

----------------------------------------------------------------------------
(* Lemmas on caches, calls and the history *)

\* What was true of a cache stays true when the history grows.
LEMMA CacheGrows ==
    ASSUME NEW c, NEW R \in Nat, NEW A, NEW R2 \in Nat, NEW A2,
           c # NoCache => c.revision \in Nat,
           Grows(R, A, R2, A2), GoodCache(c, R, A)
    PROVE  GoodCache(c, R2, A2)
  BY DEF Grows, GoodCache

\* And so of a call.
LEMMA TaskGrows ==
    ASSUME NEW t \in Task, NEW R \in Nat, NEW A, NEW R2 \in Nat, NEW A2,
           Grows(R, A, R2, A2), GoodTask(t, R, A)
    PROVE  GoodTask(t, R2, A2)
  <1>1. t.held # NoCache => t.held.revision \in Nat
    BY DEF Task, Cache
  <1>2. t.revision \in Nat
    BY DEF Task
  <1>3. GoodCache(t.held, R2, A2)
    BY <1>1, CacheGrows DEF GoodTask
  <1>4. \A p \in A2 : p.revision = t.revision => p \in A
    BY <1>2 DEF Grows, GoodTask
  <1>5. /\ t.revision <= R2
        /\ A \subseteq A2
    BY <1>2 DEF GoodTask, Grows
  <1>6. QED
    BY <1>3, <1>4, <1>5 DEF GoodTask

\* A free slot.
LEMMA IdleGood ==
    ASSUME NEW R \in Nat, NEW A
    PROVE  Idle \in Task /\ GoodTask(Idle, R, A)
  BY NullAssumption DEF Idle, Task, GoodTask, GoodCache, NoAnswer, Answer, Waits, Continuations, Cache

\* A push that begins.
LEMMA PushGood ==
    ASSUME TypeOK, NEW d \in Devices, NEW op \in Operations, NEW v \in Vault,
           cache[d] # NoCache,
           GoodCache(cache[d], row.revision, accepted)
    PROVE  Push(d, op, v) \in Task /\ GoodTask(Push(d, op, v), row.revision, accepted)
  <1>1. cache[d] \in Cache /\ cache[d].revision \in Nat
    BY DEF TypeOK, Cache
  <1> DEFINE p == Push(d, op, v)
  <1>2. Idle \in Task /\ GoodTask(Idle, row.revision, accepted)
    BY IdleGood DEF TypeOK
  <1>3. p \in Task
    BY <1>1, <1>2 DEF Push, Task, Waits
  <1>4. /\ p.pc = "put" /\ p.vault = v /\ p.revision = cache[d].revision
        /\ p.attempt = Idle.attempt /\ p.held = Idle.held
        /\ p.answer = Idle.answer /\ p.after = Idle.after
    BY <1>2 DEF Push, Task
  <1>5. GoodTask(p, row.revision, accepted)
    BY <1>1, <1>2, <1>4 DEF GoodTask, GoodCache, Idle, NoAnswer
  <1>6. QED
    BY <1>3, <1>5

\* One slot changes, the others stay as they are.
LEMMA TaskChanged ==
    ASSUME TypeOK, NEW d \in Devices, NEW s \in Slots, NEW t \in Task, SetTask(d, s, t)
    PROVE  /\ task' \in [Devices -> [Slots -> Task]]
           /\ task'[d][s] = t
           /\ \A e \in Devices, r \in Slots : task'[e][r] \in {task[e][r], t}
  BY DEF TypeOK, SetTask

\* The types of what a device keeps, and of the history variables.
DeviceTypes ==
    /\ status \in [Devices -> Statuses]
    /\ vault \in [Devices -> Vault \cup {NoVault}]
    /\ cache \in [Devices -> Cache \cup {NoCache}]
    /\ disk \in [Devices -> Cache \cup {NoCache}]
    /\ conflicts \in [Devices -> SUBSET Conflict]
    /\ draft \in [Devices -> Vault \cup {NoVault}]
    /\ timer \in [Devices -> BOOLEAN]

LateType == late \subseteq [vault : Vault, revision : Nat]

GhostTypes ==
    /\ edits \in Nat
    /\ used \subseteq Ids
    /\ overridden \subseteq Ids

\* A step of one call that does not touch the server need only be examined where
\* it changes a cache, a cache file or the call.
LEMMA CallStep ==
    ASSUME IInv, NEW d \in Devices, NEW s \in Slots, NEW t \in Task,
           SetTask(d, s, t), GoodTask(t, row.revision, accepted),
           UNCHANGED <<row, accepted>>,
           LateType', GhostTypes', DeviceTypes', UnlockedHasVault',
           \A e \in Devices : \/ cache'[e] = cache[e]
                              \/ GoodCache(cache'[e], row.revision, accepted),
           \A e \in Devices : \/ disk'[e] = disk[e]
                              \/ GoodCache(disk'[e], row.revision, accepted)
    PROVE  IInv'
  <1>1. /\ task' \in [Devices -> [Slots -> Task]]
        /\ \A e \in Devices, r \in Slots : task'[e][r] \in {task[e][r], t}
    BY TaskChanged DEF IInv
  <1>2. TypeOK'
    BY <1>1 DEF IInv, TypeOK, LateType, GhostTypes, DeviceTypes
  <1>3. \A e \in Devices, r \in Slots : GoodTask(task'[e][r], row.revision, accepted)
    BY <1>1 DEF IInv
  <1>4. QED
    BY <1>2, <1>3 DEF IInv

\* The same when nothing but the call changes.
LEMMA TaskOnlyStep ==
    ASSUME IInv, NEW d \in Devices, NEW s \in Slots, NEW t \in Task,
           SetTask(d, s, t), GoodTask(t, row.revision, accepted),
           UNCHANGED <<server, device, ghosts>>
    PROVE  IInv'
  <1>1. LateType' /\ GhostTypes' /\ DeviceTypes' /\ UnlockedHasVault'
    BY DEF IInv, TypeOK, LateType, GhostTypes, DeviceTypes, UnlockedHasVault,
           server, device, ghosts
  <1>2. UNCHANGED <<row, accepted, cache, disk>>
    BY DEF server, device
  <1>3. QED
    BY <1>1, <1>2, CallStep

\* A call that ends.
LEMMA FinishGood ==
    ASSUME IInv
    PROVE  Idle \in Task /\ GoodTask(Idle, row.revision, accepted)
  BY IdleGood DEF IInv, TypeOK

----------------------------------------------------------------------------
(* Calls that begin *)

\* The vault after an edit is a vault.
LEMMA EditedIsVault ==
    ASSUME edits \in Nat, edits < MaxEdits, NEW v \in Vault,
           NEW put \in SUBSET Ids, NEW del \in SUBSET Ids
    PROVE  Edited(v, put, del) \in Vault
  <1>1. MaxEdits \in Nat /\ edits + 1 \in 1..MaxEdits
    BY BoundsAssumption
  <1>2. [content |-> edits + 1, at |-> Clock[edits + 1]] \in Version
    BY <1>1, BoundsAssumption DEF Version
  <1>3. QED
    BY <1>2 DEF Edited, Vault

\* An edit is shown and its push begins.
LEMMA SaveStep ==
    ASSUME IInv, NEW d \in Devices, NEW s \in Slots, Save(d, s)
    PROVE  IInv'
  <1>1. PICK put, del \in SUBSET Ids :
            /\ vault' = [vault EXCEPT ![d] = Edited(vault[d], put, del)]
            /\ SetTask(d, s, Push(d, "save", Edited(vault[d], put, del)))
            /\ CountEdit(put, del)
    BY DEF Save
  <1> DEFINE v == Edited(vault[d], put, del)
             t == Push(d, "save", v)
  <1>2. v \in Vault
    BY EditedIsVault DEF Save, HasSecrets, IInv, TypeOK, UnlockedHasVault
  <1>3. t \in Task /\ GoodTask(t, row.revision, accepted)
    BY <1>2, PushGood DEF Save, HasSecrets, IInv, Operations
  <1>4. SetTask(d, s, t) /\ vault' = [vault EXCEPT ![d] = v]
    BY <1>1
  <1> HIDE DEF v, t
  <1>5. GhostTypes'
    BY <1>1 DEF CountEdit, IInv, TypeOK, GhostTypes
  <1>6. DeviceTypes' /\ UnlockedHasVault'
    BY <1>2, <1>4 DEF Save, IInv, TypeOK, DeviceTypes, UnlockedHasVault
  <1>7. UNCHANGED <<row, accepted, cache, disk>> /\ LateType'
    BY DEF Save, server, LateType, IInv, TypeOK
  <1>8. QED
    BY <1>3, <1>4, <1>5, <1>6, <1>7, CallStep

\* A new entry is appended to the vault its screen was opened with.
LEMMA SaveDraftStep ==
    ASSUME IInv, NEW d \in Devices, NEW s \in Slots, SaveDraft(d, s)
    PROVE  IInv'
  <1>1. PICK i \in Entries \ used :
            /\ vault' = [vault EXCEPT ![d] = Edited(draft[d], {i}, {})]
            /\ SetTask(d, s, Push(d, "draft", Edited(draft[d], {i}, {})))
            /\ CountEdit({i}, {})
    BY DEF SaveDraft
  <1> DEFINE v == Edited(draft[d], {i}, {})
             t == Push(d, "draft", v)
  <1>2. i \in Ids
    BY DEF Ids
  <1>3. v \in Vault
    BY <1>2, EditedIsVault DEF SaveDraft, IInv, TypeOK
  <1>4. t \in Task /\ GoodTask(t, row.revision, accepted)
    BY <1>3, PushGood DEF SaveDraft, HasSecrets, IInv, Operations
  <1>5. SetTask(d, s, t) /\ vault' = [vault EXCEPT ![d] = v]
    BY <1>1
  <1> HIDE DEF v, t
  <1>6. GhostTypes'
    BY <1>1, <1>2 DEF CountEdit, IInv, TypeOK, GhostTypes
  <1>7. DeviceTypes' /\ UnlockedHasVault'
    BY <1>3, <1>5 DEF SaveDraft, IInv, TypeOK, DeviceTypes, UnlockedHasVault
  <1>8. UNCHANGED <<row, accepted, cache, disk>> /\ LateType'
    BY DEF SaveDraft, server, LateType, IInv, TypeOK
  <1>9. QED
    BY <1>4, <1>5, <1>6, <1>7, <1>8, CallStep

\* The edit screen keeps the vault it is opened with.
LEMMA OpenDraftStep ==
    ASSUME IInv, NEW d \in Devices, OpenDraft(d)
    PROVE  IInv'
  <1>1. TypeOK' /\ UnlockedHasVault'
    BY DEF OpenDraft, IInv, TypeOK, UnlockedHasVault, server, ghosts
  <1>2. UNCHANGED <<row, accepted, cache, disk, task>>
    BY DEF OpenDraft, server
  <1>3. QED
    BY <1>1, <1>2 DEF IInv

\* A push of the vault in memory, of what is pending.
LEMMA PendingPushGood ==
    ASSUME IInv, NEW d \in Devices, HasPending(d), NEW op \in Operations
    PROVE  /\ Push(d, op, vault[d]) \in Task
           /\ GoodTask(Push(d, op, vault[d]), row.revision, accepted)
  BY PushGood DEF HasPending, HasSecrets, IInv, TypeOK

\* What is pending is pushed again.
LEMMA SyncPendingChangesStep ==
    ASSUME IInv, NEW d \in Devices, NEW s \in Slots, SyncPendingChanges(d, s)
    PROVE  IInv'
  <1> DEFINE t == Push(d, "sync", vault[d])
  <1>1. t \in Task /\ GoodTask(t, row.revision, accepted)
    BY PendingPushGood DEF SyncPendingChanges, Operations
  <1>2. SetTask(d, s, t)
    BY DEF SyncPendingChanges
  <1> HIDE DEF t
  <1>3. QED
    BY <1>1, <1>2, TaskOnlyStep DEF SyncPendingChanges

\* The decided vault is shown and its push begins.
LEMMA ApplyConflictResolutionsStep ==
    ASSUME IInv, NEW d \in Devices, NEW s \in Slots, ApplyConflictResolutions(d, s)
    PROVE  IInv'
  <1>1. PICK choice \in [conflicts[d] -> Choices] :
            /\ vault' = [vault EXCEPT ![d] = ResolveConflicts(vault[d], choice)]
            /\ SetTask(d, s, Push(d, "resolve", ResolveConflicts(vault[d], choice)))
            /\ overridden' = overridden \cup Dropped(choice) \cup {i \in Ids : Chosen(choice, i) # {}}
    BY DEF ApplyConflictResolutions
  <1> DEFINE v == ResolveConflicts(vault[d], choice)
             t == Push(d, "resolve", v)
  <1>2. conflicts[d] \in SUBSET Conflict /\ vault[d] \in Vault
    BY DEF ApplyConflictResolutions, IInv, TypeOK
  <1>3. v \in Vault
    BY <1>2, ResolvedIsVault
  <1>4. t \in Task /\ GoodTask(t, row.revision, accepted)
    BY <1>3, PushGood DEF ApplyConflictResolutions, HasSecrets, IInv, Operations
  <1>5. SetTask(d, s, t) /\ vault' = [vault EXCEPT ![d] = v]
    BY <1>1
  <1> HIDE DEF v, t
  <1>6. Dropped(choice) \subseteq Ids
    BY <1>2, DroppedAreEntries
  <1>7. GhostTypes'
    BY <1>1, <1>2, <1>6 DEF ApplyConflictResolutions, IInv, TypeOK, GhostTypes
  <1>8. DeviceTypes' /\ UnlockedHasVault'
    BY <1>3, <1>5 DEF ApplyConflictResolutions, IInv, TypeOK, DeviceTypes, UnlockedHasVault
  <1>9. UNCHANGED <<row, accepted, cache, disk>> /\ LateType'
    BY DEF ApplyConflictResolutions, server, LateType, IInv, TypeOK
  <1>10. QED
    BY <1>4, <1>5, <1>7, <1>8, <1>9, CallStep

\* A synchronisation asks for the server's vault, on the revision of the cache.
LEMMA SyncAllStep ==
    ASSUME IInv, NEW d \in Devices, NEW s \in Slots, SyncAll(d, s)
    PROVE  IInv'
  <1> DEFINE t == [Idle EXCEPT !.op = "syncAll", !.pc = "refreshGet",
                               !.revision = cache[d].revision]
  <1>1. Idle \in Task /\ GoodTask(Idle, row.revision, accepted)
    BY FinishGood
  <1>2. cache[d] \in Cache /\ cache[d].revision \in Nat /\ cache[d].revision <= row.revision
    BY DEF SyncAll, HasSecrets, IInv, TypeOK, GoodCache, Cache
  <1>3. t \in Task
    BY <1>1, <1>2 DEF Task, Operations, Waits
  <1>4. /\ t.pc = "refreshGet" /\ t.revision = cache[d].revision
        /\ t.held = Idle.held /\ t.answer = Idle.answer /\ t.after = Idle.after
    BY <1>1 DEF Task
  <1>5. SetTask(d, s, t)
    BY DEF SyncAll
  <1> HIDE DEF t
  <1>6. GoodTask(t, row.revision, accepted)
    BY <1>1, <1>2, <1>4 DEF GoodTask, Idle, NoAnswer
  <1>7. QED
    BY <1>3, <1>5, <1>6, TaskOnlyStep DEF SyncAll

\* unlock, enableBiometrics and changePassword.
LEMMA CaptureStep ==
    ASSUME IInv, NEW d \in Devices, NEW s \in Slots,
           NEW op \in {"unlock", "bio", "password"}, Capture(d, s, op)
    PROVE  IInv'
  <1> DEFINE t == [Idle EXCEPT !.op = op, !.pc = "derive", !.held = cache[d]]
  <1>1. Idle \in Task /\ GoodTask(Idle, row.revision, accepted)
    BY FinishGood
  <1>2. cache[d] \in Cache /\ GoodCache(cache[d], row.revision, accepted)
    BY DEF Capture, HasSecrets, IInv, TypeOK
  <1>3. t \in Task
    BY <1>1, <1>2 DEF Task, Operations, Waits
  <1>4. /\ t.pc = "derive" /\ t.held = cache[d] /\ t.revision = Idle.revision
        /\ t.answer = Idle.answer /\ t.after = Idle.after
    BY <1>1 DEF Task
  <1>5. SetTask(d, s, t)
    BY DEF Capture
  <1> HIDE DEF t
  <1>6. GoodTask(t, row.revision, accepted)
    BY <1>1, <1>2, <1>4 DEF GoodTask, Idle, NoAnswer
  <1>7. QED
    BY <1>3, <1>5, <1>6, TaskOnlyStep DEF Capture

\* The cache of the moment is about to be written.
LEMMA DisableBiometricsStep ==
    ASSUME IInv, NEW d \in Devices, NEW s \in Slots, DisableBiometrics(d, s)
    PROVE  IInv'
  <1> DEFINE t == [Idle EXCEPT !.op = "bio", !.pc = "store", !.held = cache[d],
                               !.after = "done"]
  <1>1. Idle \in Task /\ GoodTask(Idle, row.revision, accepted)
    BY FinishGood
  <1>2. cache[d] \in Cache /\ GoodCache(cache[d], row.revision, accepted)
    BY DEF DisableBiometrics, HasSecrets, IInv, TypeOK
  <1>3. t \in Task
    BY <1>1, <1>2 DEF Task, Operations, Waits, Continuations
  <1>4. /\ t.pc = "store" /\ t.held = cache[d] /\ t.revision = Idle.revision
        /\ t.answer = Idle.answer /\ t.after = "done"
    BY <1>1 DEF Task
  <1>5. SetTask(d, s, t)
    BY DEF DisableBiometrics
  <1> HIDE DEF t
  <1>6. GoodTask(t, row.revision, accepted)
    BY <1>1, <1>2, <1>4 DEF GoodTask, Idle, NoAnswer
  <1>7. QED
    BY <1>3, <1>5, <1>6, TaskOnlyStep DEF DisableBiometrics

\* logout and login.
LEMMA LogoutLoginStep ==
    ASSUME IInv, NEW d \in Devices, NEW s \in Slots, Logout(d, s) \/ Login(d, s)
    PROVE  IInv'
  <1>1. PICK op \in {"logout", "login"}, pc \in {"wipe", "loginGet"} :
            SetTask(d, s, [Idle EXCEPT !.op = op, !.pc = pc])
    BY DEF Logout, Login
  <1> DEFINE t == [Idle EXCEPT !.op = op, !.pc = pc]
  <1>2. Idle \in Task /\ GoodTask(Idle, row.revision, accepted)
    BY FinishGood
  <1>3. t \in Task
    BY <1>2 DEF Task, Operations, Waits
  <1>4. /\ t.pc = pc /\ t.held = Idle.held /\ t.revision = Idle.revision
        /\ t.answer = Idle.answer /\ t.after = Idle.after
    BY <1>2 DEF Task
  <1>5. SetTask(d, s, t)
    BY <1>1
  <1> HIDE DEF t
  <1>6. GoodTask(t, row.revision, accepted)
    BY <1>2, <1>4 DEF GoodTask, Idle, NoAnswer
  <1>7. QED
    BY <1>3, <1>5, <1>6, TaskOnlyStep DEF Logout, Login


----------------------------------------------------------------------------
(* The server *)

\* A write it accepts extends the history by the next revision.
LEMMA AcceptGrows ==
    ASSUME IInv, NEW v \in Vault, Accept(v)
    PROVE  /\ row' \in [blob : Vault, revision : Nat]
           /\ accepted' \subseteq [revision : Nat, blob : Vault]
           /\ GoodHistory(row'.blob, row'.revision, accepted')
           /\ Grows(row.revision, accepted, row'.revision, accepted')
           /\ row'.revision = row.revision + 1
           /\ [revision |-> row.revision + 1, blob |-> v] \in accepted'
  <1> DEFINE R == row.revision
             new == [revision |-> R + 1, blob |-> v]
  <1>1. R \in Nat /\ \A p \in accepted : p.revision \in Nat /\ p.revision <= R
    BY DEF IInv, TypeOK, GoodHistory
  <1>2. /\ row' = [blob |-> v, revision |-> R + 1]
        /\ accepted' = accepted \cup {new}
    BY DEF Accept
  <1>3. row'.blob = v /\ row'.revision = R + 1 /\ new.revision = R + 1
    BY <1>2
  <1>4. GoodHistory(row'.blob, row'.revision, accepted')
    <2>1. [revision |-> row'.revision, blob |-> row'.blob] \in accepted'
      BY <1>2, <1>3
    <2>2. \A p \in accepted' : p.revision <= row'.revision
      BY <1>1, <1>2, <1>3
    <2>3. \A p, q \in accepted' : p.revision = q.revision => p = q
      BY <1>1, <1>2, <1>3 DEF IInv, GoodHistory
    <2>4. QED
      BY <2>1, <2>2, <2>3 DEF GoodHistory
  <1>5. Grows(R, accepted, row'.revision, accepted')
    BY <1>1, <1>2, <1>3 DEF Grows
  <1>6. QED
    BY <1>1, <1>2, <1>3, <1>4, <1>5 DEF IInv, TypeOK

\* When the history grows, caches and calls stay good.
LEMMA HistoryStep ==
    ASSUME IInv, TypeOK', UnlockedHasVault',
           GoodHistory(row'.blob, row'.revision, accepted'),
           Grows(row.revision, accepted, row'.revision, accepted'),
           UNCHANGED <<cache, disk>>,
           \A e \in Devices, r \in Slots :
              \/ task'[e][r] = task[e][r]
              \/ GoodTask(task'[e][r], row'.revision, accepted')
    PROVE  IInv'
  <1>1. row.revision \in Nat /\ row'.revision \in Nat
    BY DEF IInv, TypeOK
  <1>2. ASSUME NEW e \in Devices
        PROVE  /\ GoodCache(cache'[e], row'.revision, accepted')
               /\ GoodCache(disk'[e], row'.revision, accepted')
    <2>1. /\ cache[e] # NoCache => cache[e].revision \in Nat
          /\ disk[e] # NoCache => disk[e].revision \in Nat
      BY DEF IInv, TypeOK, Cache
    <2>2. QED
      BY <1>1, <2>1, CacheGrows DEF IInv
  <1>3. ASSUME NEW e \in Devices, NEW r \in Slots
        PROVE  GoodTask(task'[e][r], row'.revision, accepted')
    <2>1. task[e][r] \in Task /\ GoodTask(task[e][r], row.revision, accepted)
      BY DEF IInv, TypeOK
    <2>2. GoodTask(task[e][r], row'.revision, accepted')
      BY <1>1, <2>1, TaskGrows
    <2>3. QED
      BY <2>2
  <1>4. QED
    BY <1>2, <1>3 DEF IInv

\* A PUT is accepted, and its sender's answer names the revision it became, or it
\* is refused and nothing changes.
LEMMA ServePutStep ==
    ASSUME IInv, NEW d \in Devices, NEW s \in Slots, ServePut(d, s)
    PROVE  IInv'
  <1> DEFINE t == task[d][s]
  <1>1. /\ t \in Task /\ GoodTask(t, row.revision, accepted)
        /\ t.pc = "put" /\ t.answer.type = "none"
        /\ UNCHANGED <<late, device, ghosts>>
    BY DEF ServePut, IInv, TypeOK
  <1>2. t.vault \in Vault /\ t.revision \in Nat
    BY <1>1 DEF GoodTask, Task
  <1>3. CASE Accepts(t.revision) /\ Accept(t.vault)
             /\ SetTask(d, s, [t EXCEPT !.answer = [type |-> "ok", revision |-> t.revision + 1,
                                                    blob |-> NoVault]])
    <2> DEFINE a == [type |-> "ok", revision |-> t.revision + 1, blob |-> NoVault]
               u == [t EXCEPT !.answer = a]
    <2>1. /\ row' \in [blob : Vault, revision : Nat]
          /\ accepted' \subseteq [revision : Nat, blob : Vault]
          /\ GoodHistory(row'.blob, row'.revision, accepted')
          /\ Grows(row.revision, accepted, row'.revision, accepted')
          /\ [revision |-> row.revision + 1, blob |-> t.vault] \in accepted'
      BY <1>2, <1>3, AcceptGrows
    <2>2. a \in Answer /\ a.type = "ok" /\ a.revision = row.revision + 1
      BY <1>2, <1>3 DEF Answer, Accepts
    <2>3. SetTask(d, s, u)
      BY <1>3
    <2> HIDE DEF a, t
    <2>4. u \in Task
      BY <1>1, <2>2 DEF Task
    <2>5. /\ u.pc = t.pc /\ u.vault = t.vault /\ u.revision = t.revision /\ u.answer = a
          /\ u.held = t.held /\ u.after = t.after /\ u.attempt = t.attempt
      BY <1>1 DEF Task
    <2> HIDE DEF u
    <2>6. GoodTask(t, row'.revision, accepted')
      BY <1>1, <2>1, TaskGrows DEF IInv, TypeOK
    <2>7. GoodTask(u, row'.revision, accepted')
      BY <1>1, <2>1, <2>2, <2>5, <2>6 DEF GoodTask
    <2>8. /\ task' \in [Devices -> [Slots -> Task]]
          /\ \A e \in Devices, r \in Slots : task'[e][r] \in {task[e][r], u}
      BY <2>3, <2>4, TaskChanged DEF IInv
    <2>9. TypeOK' /\ UnlockedHasVault'
      BY <1>1, <2>1, <2>8 DEF IInv, TypeOK, UnlockedHasVault, device, ghosts
    <2>10. UNCHANGED <<cache, disk>>
      BY <1>1 DEF device
    <2>11. QED
      BY <2>1, <2>7, <2>8, <2>9, <2>10, HistoryStep
  <1>4. CASE SetTask(d, s, [t EXCEPT !.answer = [NoAnswer EXCEPT !.type = "conflict"]])
             /\ UNCHANGED <<row, accepted>>
    <2> DEFINE a == [NoAnswer EXCEPT !.type = "conflict"]
               u == [t EXCEPT !.answer = a]
    <2>1. a \in Answer /\ a.type = "conflict"
      BY DEF NoAnswer, Answer
    <2>2. SetTask(d, s, u)
      BY <1>4
    <2> HIDE DEF a, t
    <2>3. u \in Task
      BY <1>1, <2>1 DEF Task
    <2>4. /\ u.pc = t.pc /\ u.vault = t.vault /\ u.revision = t.revision /\ u.answer = a
          /\ u.held = t.held /\ u.after = t.after /\ u.attempt = t.attempt
      BY <1>1 DEF Task
    <2> HIDE DEF u
    <2>5. GoodTask(u, row.revision, accepted)
      BY <1>1, <2>1, <2>4 DEF GoodTask
    <2>6. UNCHANGED <<server, device, ghosts>>
      BY <1>1, <1>4 DEF server
    <2>7. QED
      BY <2>2, <2>3, <2>5, <2>6, TaskOnlyStep
  <1>5. QED
    BY <1>3, <1>4 DEF ServePut

\* The current row is sent, or a refusal.
LEMMA ServeGetStep ==
    ASSUME IInv, NEW d \in Devices, NEW s \in Slots, ServeGet(d, s) \/ ServeError(d, s)
    PROVE  IInv'
  <1> DEFINE t == task[d][s]
             u(a) == [t EXCEPT !.answer = a]
  <1>1. PICK a \in Answer :
            /\ SetTask(d, s, u(a))
            /\ a.type # "ok"
            /\ a.type = "vault" => a.revision = row.revision /\ a.blob = row.blob
    <2>1. row.revision \in Nat /\ row.blob \in Vault
      BY DEF IInv, TypeOK
    <2>2. [type |-> "vault", revision |-> row.revision, blob |-> row.blob] \in Answer
      BY <2>1 DEF Answer
    <2>3. /\ [NoAnswer EXCEPT !.type = "error"] \in Answer
          /\ [NoAnswer EXCEPT !.type = "error"].type = "error"
      BY DEF Answer, NoAnswer
    <2>4. QED
      BY <2>2, <2>3 DEF ServeGet, ServeError
  <1>2. /\ t \in Task /\ GoodTask(t, row.revision, accepted)
        /\ UNCHANGED <<server, device, ghosts>>
    BY DEF ServeGet, ServeError, IInv, TypeOK
  <1> HIDE DEF t
  <1>3. u(a) \in Task
    BY <1>1, <1>2 DEF Task
  <1>4. /\ u(a).pc = t.pc /\ u(a).vault = t.vault /\ u(a).revision = t.revision
        /\ u(a).answer = a /\ u(a).held = t.held /\ u(a).after = t.after
        /\ u(a).attempt = t.attempt
    BY <1>2 DEF Task
  <1> HIDE DEF u
  <1>5. GoodTask(u(a), row.revision, accepted)
    BY <1>1, <1>2, <1>4 DEF GoodTask, IInv, GoodHistory
  <1>6. QED
    BY <1>1, <1>2, <1>3, <1>5, TaskOnlyStep

\* A PUT given up by its sender reaches the server.
LEMMA ServeLateStep ==
    ASSUME IInv, ServeLate
    PROVE  IInv'
  <1>1. PICK p \in late :
            /\ late' = late \ {p}
            /\ IF Accepts(p.revision) THEN Accept(p.vault) ELSE UNCHANGED <<row, accepted>>
            /\ UNCHANGED <<device, task, ghosts>>
    BY DEF ServeLate
  <1>2. p.vault \in Vault
    BY DEF IInv, TypeOK
  <1>3. /\ row' \in [blob : Vault, revision : Nat]
        /\ accepted' \subseteq [revision : Nat, blob : Vault]
        /\ GoodHistory(row'.blob, row'.revision, accepted')
        /\ Grows(row.revision, accepted, row'.revision, accepted')
    <2>1. CASE Accept(p.vault)
      BY <1>2, <2>1, AcceptGrows
    <2>2. CASE UNCHANGED <<row, accepted>>
      BY <2>2 DEF IInv, TypeOK, Grows
    <2>3. QED
      BY <1>1, <2>1, <2>2
  <1>4. TypeOK' /\ UnlockedHasVault' /\ UNCHANGED <<cache, disk, task>>
    BY <1>1, <1>3 DEF IInv, TypeOK, UnlockedHasVault, device, ghosts
  <1>5. QED
    BY <1>3, <1>4, HistoryStep


----------------------------------------------------------------------------
(* Answers *)

\* The server accepted the push: the clean cache is what it accepted.
LEMMA PutAcceptedStep ==
    ASSUME IInv, NEW d \in Devices, NEW s \in Slots, PutAccepted(d, s)
    PROVE  IInv'
  <1> DEFINE t == task[d][s]
             c == Clean(t.vault, t.answer.revision)
             u == [t EXCEPT !.pc = "store", !.held = c, !.after = "done", !.answer = NoAnswer]
  <1>1. /\ t \in Task /\ GoodTask(t, row.revision, accepted)
        /\ t.pc = "put" /\ t.answer.type = "ok"
        /\ UNCHANGED <<server, status, vault, disk, conflicts, draft, timer, ghosts>>
    BY DEF PutAccepted, IInv, TypeOK
  <1>2. c \in Cache /\ GoodCache(c, row.revision, accepted)
    <2>1. t.vault \in Vault /\ t.answer.revision \in Nat
      BY <1>1 DEF GoodTask, Task, Answer
    <2>2. /\ c.revision = t.answer.revision /\ c.blob = t.vault /\ c.pending = FALSE
          /\ c \in Cache
      BY <2>1 DEF Clean, Cache
    <2>3. t.answer.revision <= row.revision
      BY <1>1 DEF GoodTask, IInv, GoodHistory
    <2>4. QED
      BY <1>1, <2>2, <2>3 DEF GoodTask, GoodCache
  <1>3. CASE Finish(d, s) /\ UNCHANGED cache
    <2>1. UNCHANGED <<server, device, ghosts>>
      BY <1>1, <1>3 DEF device
    <2>2. QED
      BY <1>3, <2>1, FinishGood, TaskOnlyStep DEF Finish
  <1>4. CASE cache' = [cache EXCEPT ![d] = c] /\ SetTask(d, s, u)
    <2> HIDE DEF c, t
    <2>1. u \in Task
      BY <1>1, <1>2, FinishGood DEF Task, Idle, Waits, Continuations
    <2>2. /\ u.pc = "store" /\ u.vault = t.vault /\ u.revision = t.revision
          /\ u.answer = NoAnswer /\ u.held = c /\ u.after = "done"
      BY <1>1 DEF Task
    <2>3. SetTask(d, s, u)
      BY <1>4
    <2> HIDE DEF u
    <2>4. GoodTask(u, row.revision, accepted)
      BY <1>1, <1>2, <2>2 DEF GoodTask, NoAnswer
    <2>5. DeviceTypes' /\ LateType' /\ GhostTypes' /\ UnlockedHasVault'
      BY <1>1, <1>2, <1>4 DEF IInv, TypeOK, DeviceTypes, LateType, GhostTypes,
                             UnlockedHasVault, server, ghosts
    <2>6. UNCHANGED <<row, accepted, disk>>
      BY <1>1 DEF server
    <2>7. \A e \in Devices : cache'[e] = cache[e] \/ cache'[e] = c
      BY <1>4 DEF IInv, TypeOK
    <2>8. QED
      BY <1>2, <2>1, <2>3, <2>4, <2>5, <2>6, <2>7, CallStep
  <1>5. QED
    BY <1>3, <1>4 DEF PutAccepted, Pushed

\* The server's vault is asked for after a 409.
LEMMA PutConflictStep ==
    ASSUME IInv, NEW d \in Devices, NEW s \in Slots, PutConflict(d, s)
    PROVE  IInv'
  <1> DEFINE t == task[d][s]
             u == [t EXCEPT !.pc = "mergeGet", !.answer = NoAnswer]
  <1>1. /\ t \in Task /\ GoodTask(t, row.revision, accepted) /\ t.pc = "put"
        /\ UNCHANGED <<server, device, ghosts>> /\ SetTask(d, s, u)
    BY DEF PutConflict, IInv, TypeOK
  <1> HIDE DEF t
  <1>2. u \in Task
    BY <1>1, FinishGood DEF Task, Idle, Waits
  <1>3. /\ u.pc = "mergeGet" /\ u.vault = t.vault /\ u.revision = t.revision
        /\ u.answer = NoAnswer /\ u.held = t.held /\ u.after = t.after
    BY <1>1 DEF Task
  <1> HIDE DEF u
  <1>4. GoodTask(u, row.revision, accepted)
    BY <1>1, <1>3 DEF GoodTask, NoAnswer
  <1>5. QED
    BY <1>1, <1>2, <1>4, TaskOnlyStep

\* The vault pushed again on the revision just read keeps what that revision holds:
\* the revision names one vault, the one that was merged.
LEMMA RetryGood ==
    ASSUME NEW t \in Task, NEW R \in Nat, NEW A, NEW b,
           GoodTask(t, R, A), GoodHistory(b, R, A), t.pc = "mergeGet",
           t.answer.type = "vault", t.answer.blob \in Vault, t.attempt # 2
    PROVE  LET m == MergeVaults(t.vault, t.answer.blob)
           IN  Retry(t, m) \in Task /\ GoodTask(Retry(t, m), R, A)
  <1> DEFINE m == MergeVaults(t.vault, t.answer.blob)
             u == Retry(t, m)
  <1>1. t.vault \in Vault /\ t.answer.blob \in Vault /\ m \in Vault
    BY MergeIsVault DEF GoodTask
  <1>2. Keeps(m, t.answer.blob)
    BY <1>1, MergeKeepsBoth DEF Keeps
  <1> HIDE DEF m
  <1>3. t.answer.revision \in Nat /\ t.answer.revision <= R /\ t.attempt + 1 \in 0..2
    BY DEF Task, Answer, GoodTask, GoodHistory
  <1>4. NoAnswer \in Answer
    BY DEF NoAnswer, Answer
  <1>5. u \in Task
    BY <1>1, <1>3, <1>4 DEF Retry, Task, Waits
  <1>6. /\ u.pc = "put" /\ u.vault = m /\ u.revision = t.answer.revision
        /\ u.answer = NoAnswer /\ u.held = t.held /\ u.after = t.after
    BY DEF Retry, Task
  <1> HIDE DEF u
  <1>7. \A p \in A : p.revision = u.revision => p.blob = t.answer.blob
    BY <1>6 DEF GoodTask, GoodHistory
  <1>8. GoodTask(u, R, A)
    BY <1>1, <1>2, <1>3, <1>6, <1>7 DEF GoodTask, NoAnswer
  <1>9. QED
    BY <1>5, <1>8 DEF u, m

\* A 409 is answered by a merge, which is shown and pushed again or given up.
LEMMA MergeRemoteStep ==
    ASSUME IInv, NEW d \in Devices, NEW s \in Slots, MergeRemote(d, s)
    PROVE  IInv'
  <1> DEFINE t == task[d][s]
             m == MergeVaults(t.vault, t.answer.blob)
  <1>1. /\ t \in Task /\ GoodTask(t, row.revision, accepted)
        /\ t.pc = "mergeGet" /\ t.answer.type = "vault"
        /\ vault' = [vault EXCEPT ![d] = m]
        /\ UNCHANGED <<server, status, cache, disk, draft, timer, ghosts>>
    BY DEF MergeRemote, Show, IInv, TypeOK
  <1>2. t.vault \in Vault /\ t.answer.blob \in Vault /\ m \in Vault
    <2>1. [revision |-> t.answer.revision, blob |-> t.answer.blob] \in accepted
      BY <1>1 DEF GoodTask
    <2>2. t.vault \in Vault /\ t.answer.blob \in Vault
      BY <1>1, <2>1 DEF GoodTask, IInv, TypeOK
    <2>3. QED
      BY <2>2, MergeIsVault
  <1>3. conflicts' \in [Devices -> SUBSET Conflict]
    <2>1. PICK fp \in LocalFp(t.vault) :
              LET found == FindConflicts(t.vault, t.answer.blob, fp)
              IN  conflicts' = IF found = {} THEN conflicts
                               ELSE [conflicts EXCEPT ![d] = found]
      BY DEF MergeRemote
    <2>2. FindConflicts(t.vault, t.answer.blob, fp) \subseteq Conflict
      BY <1>2, FoundAreConflicts
    <2>3. QED
      BY <2>1, <2>2 DEF IInv, TypeOK
  <1>4. PICK u \in Task : SetTask(d, s, u) /\ GoodTask(u, row.revision, accepted)
    <2>1. CASE t.attempt = 2
      BY <2>1, FinishGood DEF MergeRemote, Finish
    <2>2. CASE t.attempt # 2
      <3>1. SetTask(d, s, Retry(t, m))
        BY <2>2 DEF MergeRemote
      <3>2. row.revision \in Nat /\ GoodHistory(row.blob, row.revision, accepted)
        BY DEF IInv, TypeOK
      <3>3. QED
        BY <1>1, <1>2, <2>2, <3>1, <3>2, RetryGood
    <2>3. QED
      BY <2>1, <2>2
  <1> HIDE DEF m, t
  <1>5. DeviceTypes' /\ LateType' /\ GhostTypes' /\ UnlockedHasVault'
    BY <1>1, <1>2, <1>3 DEF IInv, TypeOK, DeviceTypes, LateType, GhostTypes,
                           UnlockedHasVault, server, ghosts
  <1>6. UNCHANGED <<row, accepted, cache, disk>>
    BY <1>1 DEF server
  <1>7. QED
    BY <1>4, <1>5, <1>6, CallStep

\* The second half of syncAll pushes or ends.
LEMMA PushIfPendingGood ==
    ASSUME IInv, NEW d \in Devices, NEW s \in Slots, PushIfPending(d, s)
    PROVE  \E u \in Task : SetTask(d, s, u) /\ GoodTask(u, row.revision, accepted)
  <1>1. CASE HasPending(d)
    <2>1. SetTask(d, s, Push(d, "syncAll", vault[d]))
      BY <1>1 DEF PushIfPending
    <2>2. QED
      BY <1>1, <2>1, PendingPushGood DEF Operations
  <1>2. CASE ~HasPending(d)
    BY <1>2, FinishGood DEF PushIfPending, Finish
  <1>3. QED
    BY <1>1, <1>2

\* A refresh that finds nothing newer.
LEMMA RefreshIdleStep ==
    ASSUME IInv, NEW d \in Devices, NEW s \in Slots, RefreshIdle(d, s)
    PROVE  IInv'
  <1>1. PICK u \in Task : SetTask(d, s, u) /\ GoodTask(u, row.revision, accepted)
    BY PushIfPendingGood DEF RefreshIdle
  <1>2. QED
    BY <1>1, TaskOnlyStep DEF RefreshIdle

\* A refresh that takes the server's vault.
LEMMA RefreshReplaceStep ==
    ASSUME IInv, NEW d \in Devices, NEW s \in Slots, RefreshReplace(d, s)
    PROVE  IInv'
  <1> DEFINE t == task[d][s]
             c == Clean(t.answer.blob, t.answer.revision)
             u == [t EXCEPT !.pc = "store", !.held = c, !.after = "refreshed",
                            !.answer = NoAnswer]
  <1>1. /\ t \in Task /\ GoodTask(t, row.revision, accepted) /\ t.answer.type = "vault"
        /\ UNCHANGED <<server, status, disk, conflicts, draft, timer, ghosts>>
    BY DEF RefreshReplace, IInv, TypeOK
  <1>2. /\ t.answer.blob \in Vault /\ t.answer.revision \in Nat
        /\ t.answer.revision <= row.revision
        /\ [revision |-> t.answer.revision, blob |-> t.answer.blob] \in accepted
    BY <1>1 DEF GoodTask, IInv, TypeOK, GoodHistory
  <1>3. PICK v \in Vault : vault' = [vault EXCEPT ![d] = v]
    <2> DEFINE base == IF vault[d] = NoVault THEN EmptyVault ELSE vault[d]
    <2>1. base \in Vault
      BY DEF EmptyVault, Vault, IInv, TypeOK
    <2>2. MergeVaults(base, t.answer.blob) \in Vault
      BY <1>2, <2>1, MergeIsVault
    <2>3. QED
      BY <1>2, <2>2 DEF RefreshReplace
  <1>4. c \in Cache /\ GoodCache(c, row.revision, accepted)
    <2>1. /\ c.revision = t.answer.revision /\ c.blob = t.answer.blob /\ c.pending = FALSE
          /\ c \in Cache
      BY <1>2 DEF Clean, Cache
    <2>2. QED
      BY <1>2, <2>1 DEF GoodCache
  <1>5. LateType' /\ GhostTypes' /\ UnlockedHasVault'
    BY <1>1, <1>3 DEF IInv, TypeOK, LateType, GhostTypes, UnlockedHasVault, server, ghosts
  <1>6. CASE Finish(d, s) /\ UNCHANGED cache
    <2>1. DeviceTypes'
      BY <1>1, <1>3, <1>6 DEF IInv, TypeOK, DeviceTypes
    <2>2. UNCHANGED <<row, accepted, cache, disk>>
      BY <1>1, <1>6 DEF server
    <2>3. QED
      BY <1>5, <1>6, <2>1, <2>2, FinishGood, CallStep DEF Finish
  <1>7. CASE cache' = [cache EXCEPT ![d] = c] /\ SetTask(d, s, u)
    <2> HIDE DEF c, t
    <2>1. u \in Task
      BY <1>1, <1>4, FinishGood DEF Task, Idle, Waits, Continuations
    <2>2. /\ u.pc = "store" /\ u.revision = t.revision
          /\ u.answer = NoAnswer /\ u.held = c /\ u.after = "refreshed"
      BY <1>1 DEF Task
    <2>3. SetTask(d, s, u)
      BY <1>7
    <2> HIDE DEF u
    <2>4. GoodTask(u, row.revision, accepted)
      BY <1>1, <1>4, <2>2 DEF GoodTask, NoAnswer
    <2>5. DeviceTypes'
      BY <1>1, <1>3, <1>4, <1>7 DEF IInv, TypeOK, DeviceTypes
    <2>6. UNCHANGED <<row, accepted, disk>>
      BY <1>1 DEF server
    <2>7. \A e \in Devices : cache'[e] = cache[e] \/ cache'[e] = c
      BY <1>7 DEF IInv, TypeOK
    <2>8. QED
      BY <1>4, <1>5, <2>1, <2>3, <2>4, <2>5, <2>6, <2>7, CallStep
  <1>8. QED
    BY <1>6, <1>7 DEF RefreshReplace

\* A refusal ends the call, and so does a derivation that fails.
LEMMA EndStep ==
    ASSUME IInv, NEW d \in Devices, NEW s \in Slots, Refused(d, s) \/ DeriveFails(d, s)
    PROVE  IInv'
  <1>1. Finish(d, s) /\ UNCHANGED <<server, device, ghosts>>
    BY DEF Refused, DeriveFails
  <1>2. QED
    BY <1>1, FinishGood, TaskOnlyStep DEF Finish

\* What a device gave up is a vault and a revision.
LEMMA GiveUpType ==
    ASSUME IInv, NEW d \in Devices, NEW ts \in SUBSET {task[d][s] : s \in Slots}, GiveUp(ts)
    PROVE  LateType'
  <1>1. \A t \in ts : t \in Task /\ GoodTask(t, row.revision, accepted)
    BY DEF IInv, TypeOK
  <1>2. \A t \in ts : t.pc = "put" => t.vault \in Vault /\ t.revision \in Nat
    BY <1>1 DEF GoodTask, Task
  <1>3. Unserved(ts) \subseteq [vault : Vault, revision : Nat]
    BY <1>2 DEF Unserved
  <1>4. QED
    BY <1>3 DEF GiveUp, LateType, IInv, TypeOK

\* No answer: a push is kept, marked pending.
LEMMA UnreachableStep ==
    ASSUME IInv, NEW d \in Devices, NEW s \in Slots, Unreachable(d, s)
    PROVE  IInv'
  <1> DEFINE t == task[d][s]
             c == Pending(t.vault, t.revision)
             u == [t EXCEPT !.pc = "store", !.held = c, !.after = "pending",
                            !.answer = NoAnswer]
  <1>1. /\ t \in Task /\ GoodTask(t, row.revision, accepted) /\ GiveUp({t})
        /\ UNCHANGED <<row, accepted, status, vault, disk, conflicts, draft, timer, ghosts>>
    BY DEF Unreachable, IInv, TypeOK
  <1>2. LateType' /\ GhostTypes' /\ UnlockedHasVault'
    BY <1>1, GiveUpType DEF IInv, TypeOK, GhostTypes, UnlockedHasVault, ghosts
  <1>3. CASE Finish(d, s) /\ UNCHANGED cache
    <2>1. DeviceTypes'
      BY <1>1, <1>3 DEF IInv, TypeOK, DeviceTypes
    <2>2. UNCHANGED <<row, accepted, cache, disk>>
      BY <1>1, <1>3
    <2>3. QED
      BY <1>2, <1>3, <2>1, <2>2, FinishGood, CallStep DEF Finish
  <1>4. CASE t.pc \in {"put", "mergeGet"} /\ cache' = [cache EXCEPT ![d] = c] /\ SetTask(d, s, u)
    <2>1. c \in Cache /\ GoodCache(c, row.revision, accepted) /\ t.vault \in Vault
      <3>1. t.vault \in Vault /\ t.revision \in Nat /\ t.revision <= row.revision
        BY <1>1, <1>4 DEF GoodTask, Task
      <3>2. c.revision = t.revision /\ c.pending = TRUE /\ c \in Cache
        BY <3>1 DEF Pending, Cache
      <3>3. QED
        BY <3>1, <3>2 DEF GoodCache
    <2> HIDE DEF c, t
    <2>2. u \in Task
      BY <1>1, <2>1, FinishGood DEF Task, Idle, Waits, Continuations
    <2>3. /\ u.pc = "store" /\ u.revision = t.revision /\ u.vault = t.vault
          /\ u.answer = NoAnswer /\ u.held = c /\ u.after = "pending"
      BY <1>1 DEF Task
    <2>4. SetTask(d, s, u)
      BY <1>4
    <2> HIDE DEF u
    <2>5. GoodTask(u, row.revision, accepted)
      BY <1>1, <2>1, <2>3 DEF GoodTask, NoAnswer
    <2>6. DeviceTypes'
      BY <1>1, <1>4, <2>1 DEF IInv, TypeOK, DeviceTypes
    <2>7. \A e \in Devices : cache'[e] = cache[e] \/ cache'[e] = c
      BY <1>4 DEF IInv, TypeOK
    <2>8. QED
      BY <1>1, <1>2, <2>1, <2>2, <2>4, <2>5, <2>6, <2>7, CallStep
  <1>5. QED
    BY <1>3, <1>4 DEF Unreachable, KeptPending

----------------------------------------------------------------------------
(* The cache file *)

\* What is written is the cache the call holds.
LEMMA WriteGood ==
    ASSUME IInv, NEW d \in Devices, NEW s \in Slots, Write(d, s), task[d][s].pc = "store"
    PROVE  /\ disk' \in [Devices -> Cache \cup {NoCache}]
           /\ \A e \in Devices : \/ disk'[e] = disk[e]
                                 \/ GoodCache(disk'[e], row.revision, accepted)
           /\ task[d][s].held \in Cache
           /\ GoodCache(task[d][s].held, row.revision, accepted)
  BY DEF Write, IInv, TypeOK, GoodTask

\* A push that ends.
LEMMA StoredDoneStep ==
    ASSUME IInv, NEW d \in Devices, NEW s \in Slots, StoredDone(d, s)
    PROVE  IInv'
  <1>1. /\ DeviceTypes' /\ LateType' /\ GhostTypes' /\ UnlockedHasVault'
        /\ UNCHANGED <<row, accepted, cache>>
    BY WriteGood DEF StoredDone, ForgetConflicts, IInv, TypeOK, DeviceTypes, LateType,
                     GhostTypes, UnlockedHasVault, server, ghosts
  <1>2. QED
    BY <1>1, WriteGood, FinishGood, CallStep DEF StoredDone, Finish

\* A push that could not reach the server ends: its vault is shown again.
LEMMA StoredPendingStep ==
    ASSUME IInv, NEW d \in Devices, NEW s \in Slots, StoredPending(d, s)
    PROVE  IInv'
  <1>1. task[d][s].vault \in Vault
    BY DEF StoredPending, IInv, GoodTask
  <1>2. vault' \in [Devices -> Vault \cup {NoVault}] /\ UnlockedHasVault'
    BY <1>1 DEF StoredPending, IInv, TypeOK, UnlockedHasVault
  <1>3. DeviceTypes' /\ LateType' /\ GhostTypes' /\ UNCHANGED <<row, accepted, cache>>
    BY <1>2, WriteGood DEF StoredPending, ForgetConflicts, IInv, TypeOK, DeviceTypes,
                           LateType, GhostTypes, server, ghosts
  <1>4. QED
    BY <1>2, <1>3, WriteGood, FinishGood, CallStep DEF StoredPending, Finish

\* A refresh goes on with what is pending.
LEMMA StoredRefreshedStep ==
    ASSUME IInv, NEW d \in Devices, NEW s \in Slots, StoredRefreshed(d, s)
    PROVE  IInv'
  <1>1. /\ DeviceTypes' /\ LateType' /\ GhostTypes' /\ UnlockedHasVault'
        /\ UNCHANGED <<row, accepted, cache>>
    BY WriteGood DEF StoredRefreshed, IInv, TypeOK, DeviceTypes, LateType,
                     GhostTypes, UnlockedHasVault, server, ghosts
  <1>2. PICK u \in Task : SetTask(d, s, u) /\ GoodTask(u, row.revision, accepted)
    BY PushIfPendingGood DEF StoredRefreshed
  <1>3. QED
    BY <1>1, <1>2, WriteGood, CallStep DEF StoredRefreshed

\* The end of a password change: the cache written becomes the current one.
LEMMA StoredAssignStep ==
    ASSUME IInv, NEW d \in Devices, NEW s \in Slots, StoredAssign(d, s)
    PROVE  IInv'
  <1> DEFINE c == task[d][s].held
  <1>1. c \in Cache /\ GoodCache(c, row.revision, accepted)
    BY WriteGood DEF StoredAssign
  <1>2. cache' = [cache EXCEPT ![d] = c]
    BY DEF StoredAssign
  <1> HIDE DEF c
  <1>3. /\ DeviceTypes' /\ LateType' /\ GhostTypes' /\ UnlockedHasVault'
        /\ UNCHANGED <<row, accepted>>
    BY <1>1, <1>2, WriteGood DEF StoredAssign, IInv, TypeOK, DeviceTypes, LateType,
                     GhostTypes, UnlockedHasVault, server, ghosts
  <1>4. \A e \in Devices : cache'[e] = cache[e] \/ cache'[e] = c
    BY <1>2 DEF IInv, TypeOK
  <1>5. QED
    BY <1>1, <1>3, <1>4, WriteGood, FinishGood, CallStep DEF StoredAssign, Finish

\* The end of a login: the cache written is shown.
LEMMA StoredLoggedInStep ==
    ASSUME IInv, NEW d \in Devices, NEW s \in Slots, StoredLoggedIn(d, s)
    PROVE  IInv'
  <1> DEFINE c == task[d][s].held
  <1>1. c \in Cache /\ GoodCache(c, row.revision, accepted)
    BY WriteGood DEF StoredLoggedIn
  <1>2. cache' = [cache EXCEPT ![d] = c] /\ vault' = [vault EXCEPT ![d] = c.blob]
    BY DEF StoredLoggedIn
  <1>3. c.blob \in Vault
    BY <1>1 DEF Cache
  <1> HIDE DEF c
  <1>4. vault' \in [Devices -> Vault \cup {NoVault}] /\ UnlockedHasVault'
    BY <1>2, <1>3 DEF StoredLoggedIn, IInv, TypeOK, UnlockedHasVault
  <1>5. DeviceTypes' /\ LateType' /\ GhostTypes' /\ UNCHANGED <<row, accepted>>
    BY <1>1, <1>2, <1>4, WriteGood DEF StoredLoggedIn, IInv, TypeOK, DeviceTypes, LateType,
                     GhostTypes, Statuses, server, ghosts
  <1>6. \A e \in Devices : cache'[e] = cache[e] \/ cache'[e] = c
    BY <1>2 DEF IInv, TypeOK
  <1>7. QED
    BY <1>1, <1>4, <1>5, <1>6, WriteGood, FinishGood, CallStep DEF StoredLoggedIn, Finish

----------------------------------------------------------------------------
(* Lock, unlock, logout, login, restart *)

\* Locking clears what is in memory.
LEMMA LockStep ==
    ASSUME IInv, NEW d \in Devices, Lock(d)
    PROVE  IInv'
  <1>1. TypeOK' /\ UnlockedHasVault'
    BY DEF Lock, IInv, TypeOK, UnlockedHasVault, Statuses, server, ghosts
  <1>2. UNCHANGED <<row, accepted, cache, disk, task>>
    BY DEF Lock, server
  <1>3. QED
    BY <1>1, <1>2 DEF IInv

\* Unlocking shows the vault of the cache captured before the derivation.
LEMMA UnlockedStep ==
    ASSUME IInv, NEW d \in Devices, NEW s \in Slots, Unlocked(d, s)
    PROVE  IInv'
  <1>1. task[d][s].held.blob \in Vault
    BY DEF Unlocked, Derives, IInv, GoodTask, Cache
  <1>2. vault' \in [Devices -> Vault \cup {NoVault}] /\ UnlockedHasVault'
    BY <1>1 DEF Unlocked, IInv, TypeOK, UnlockedHasVault
  <1>3. DeviceTypes' /\ LateType' /\ GhostTypes' /\ UNCHANGED <<row, accepted, cache, disk>>
    BY <1>2 DEF Unlocked, IInv, TypeOK, DeviceTypes, LateType, GhostTypes, Statuses,
                server, ghosts
  <1>4. QED
    BY <1>2, <1>3, FinishGood, CallStep DEF Unlocked, Finish

\* The cache captured before the prompt becomes the current one.
LEMMA BiometricsEnabledStep ==
    ASSUME IInv, NEW d \in Devices, NEW s \in Slots, BiometricsEnabled(d, s)
    PROVE  IInv'
  <1> DEFINE t == task[d][s]
             c == t.held
             u == [t EXCEPT !.pc = "store", !.after = "done"]
  <1>1. /\ t \in Task /\ GoodTask(t, row.revision, accepted) /\ t.pc = "derive"
        /\ cache' = [cache EXCEPT ![d] = c] /\ SetTask(d, s, u)
        /\ UNCHANGED <<server, status, vault, disk, conflicts, draft, timer, ghosts>>
    BY DEF BiometricsEnabled, Derives, IInv, TypeOK
  <1>2. c \in Cache /\ GoodCache(c, row.revision, accepted)
    BY <1>1 DEF GoodTask
  <1> HIDE DEF t
  <1>3. u \in Task
    BY <1>1 DEF Task, Waits, Continuations
  <1>4. /\ u.pc = "store" /\ u.held = c /\ u.revision = t.revision
        /\ u.answer = t.answer /\ u.after = "done"
    BY <1>1 DEF Task
  <1> HIDE DEF u
  <1>5. GoodTask(u, row.revision, accepted)
    BY <1>1, <1>2, <1>4 DEF GoodTask
  <1> HIDE DEF c
  <1>6. DeviceTypes' /\ LateType' /\ GhostTypes' /\ UnlockedHasVault'
    BY <1>1, <1>2 DEF IInv, TypeOK, DeviceTypes, LateType, GhostTypes,
                      UnlockedHasVault, server, ghosts
  <1>7. UNCHANGED <<row, accepted, disk>>
    BY <1>1 DEF server
  <1>8. \A e \in Devices : cache'[e] = cache[e] \/ cache'[e] = c
    BY <1>1 DEF IInv, TypeOK
  <1>9. QED
    BY <1>1, <1>2, <1>3, <1>5, <1>6, <1>7, <1>8, CallStep

\* The server accepted the new password: the cache is written first.
LEMMA PasswordChangedStep ==
    ASSUME IInv, NEW d \in Devices, NEW s \in Slots, PasswordChanged(d, s)
    PROVE  IInv'
  <1> DEFINE t == task[d][s]
             u == [t EXCEPT !.pc = "store", !.after = "assign"]
  <1>1. /\ t \in Task /\ GoodTask(t, row.revision, accepted) /\ t.pc = "derive"
        /\ SetTask(d, s, u) /\ UNCHANGED <<server, device, ghosts>>
    BY DEF PasswordChanged, Derives, IInv, TypeOK
  <1> HIDE DEF t
  <1>2. u \in Task
    BY <1>1 DEF Task, Waits, Continuations
  <1>3. /\ u.pc = "store" /\ u.held = t.held /\ u.revision = t.revision
        /\ u.answer = t.answer /\ u.after = "assign"
    BY <1>1 DEF Task
  <1> HIDE DEF u
  <1>4. GoodTask(u, row.revision, accepted)
    BY <1>1, <1>3 DEF GoodTask
  <1>5. QED
    BY <1>1, <1>2, <1>4, TaskOnlyStep

\* The cache file is deleted.
LEMMA WipedStep ==
    ASSUME IInv, NEW d \in Devices, NEW s \in Slots, Wiped(d, s)
    PROVE  IInv'
  <1> DEFINE t == task[d][s]
             u == [t EXCEPT !.pc = "reset"]
  <1>1. /\ t \in Task /\ GoodTask(t, row.revision, accepted) /\ t.pc = "wipe"
        /\ disk' = [disk EXCEPT ![d] = NoCache] /\ SetTask(d, s, u)
        /\ UNCHANGED <<server, status, vault, cache, conflicts, draft, timer, ghosts>>
    BY DEF Wiped, IInv, TypeOK
  <1> HIDE DEF t
  <1>2. u \in Task
    BY <1>1 DEF Task, Waits
  <1>3. /\ u.pc = "reset" /\ u.held = t.held /\ u.revision = t.revision
        /\ u.vault = t.vault /\ u.answer = t.answer /\ u.after = t.after
    BY <1>1 DEF Task
  <1> HIDE DEF u
  <1>4. GoodTask(u, row.revision, accepted)
    BY <1>1, <1>3 DEF GoodTask
  <1>5. DeviceTypes' /\ LateType' /\ GhostTypes' /\ UnlockedHasVault'
    BY <1>1 DEF IInv, TypeOK, DeviceTypes, LateType, GhostTypes, UnlockedHasVault,
                server, ghosts
  <1>6. UNCHANGED <<row, accepted, cache>>
    BY <1>1 DEF server
  <1>7. \A e \in Devices : disk'[e] = disk[e] \/ GoodCache(disk'[e], row.revision, accepted)
    BY <1>1 DEF IInv, TypeOK, GoodCache
  <1>8. QED
    BY <1>1, <1>2, <1>4, <1>5, <1>6, <1>7, CallStep

\* Logging out clears the memory.
LEMMA LoggedOutStep ==
    ASSUME IInv, NEW d \in Devices, NEW s \in Slots, LoggedOut(d, s)
    PROVE  IInv'
  <1>1. DeviceTypes' /\ LateType' /\ GhostTypes' /\ UnlockedHasVault'
    BY DEF LoggedOut, IInv, TypeOK, DeviceTypes, LateType, GhostTypes, UnlockedHasVault,
           Statuses, server, ghosts
  <1>2. UNCHANGED <<row, accepted, disk>>
    BY DEF LoggedOut, server
  <1>3. \A e \in Devices : cache'[e] = cache[e] \/ GoodCache(cache'[e], row.revision, accepted)
    BY DEF LoggedOut, IInv, TypeOK, GoodCache
  <1>4. QED
    BY <1>1, <1>2, <1>3, FinishGood, CallStep DEF LoggedOut, Finish

\* The vault downloaded at login is the clean cache to write.
LEMMA LoginLoadedStep ==
    ASSUME IInv, NEW d \in Devices, NEW s \in Slots, LoginLoaded(d, s)
    PROVE  IInv'
  <1> DEFINE t == task[d][s]
             c == Clean(t.answer.blob, t.answer.revision)
             u == [t EXCEPT !.pc = "store", !.after = "loggedIn", !.answer = NoAnswer,
                            !.held = c]
  <1>1. /\ t \in Task /\ GoodTask(t, row.revision, accepted) /\ t.answer.type = "vault"
        /\ SetTask(d, s, u) /\ UNCHANGED <<server, device, ghosts>>
    BY DEF LoginLoaded, IInv, TypeOK
  <1>2. /\ t.answer.blob \in Vault /\ t.answer.revision \in Nat
        /\ t.answer.revision <= row.revision
        /\ [revision |-> t.answer.revision, blob |-> t.answer.blob] \in accepted
    BY <1>1 DEF GoodTask, IInv, TypeOK, GoodHistory
  <1>3. /\ c.revision = t.answer.revision /\ c.blob = t.answer.blob /\ c.pending = FALSE
        /\ c \in Cache
    BY <1>2 DEF Clean, Cache
  <1>4. GoodCache(c, row.revision, accepted)
    BY <1>2, <1>3 DEF GoodCache
  <1> HIDE DEF c, t
  <1>5. u \in Task
    BY <1>1, <1>3, FinishGood DEF Task, Idle, Waits, Continuations
  <1>6. /\ u.pc = "store" /\ u.revision = t.revision
        /\ u.answer = NoAnswer /\ u.held = c /\ u.after = "loggedIn"
    BY <1>1 DEF Task
  <1> HIDE DEF u
  <1>7. GoodTask(u, row.revision, accepted)
    BY <1>1, <1>3, <1>4, <1>6 DEF GoodTask, NoAnswer
  <1>8. QED
    BY <1>1, <1>5, <1>7, TaskOnlyStep

\* The process starts again from the cache file.
LEMMA RestartStep ==
    ASSUME IInv, NEW d \in Devices, Restart(d)
    PROVE  IInv'
  <1>1. Idle \in Task /\ GoodTask(Idle, row.revision, accepted)
    BY FinishGood
  <1>2. task' = [task EXCEPT ![d] = [s \in Slots |-> Idle]]
    BY DEF Restart
  <1>3. /\ task' \in [Devices -> [Slots -> Task]]
        /\ \A e \in Devices, r \in Slots : task'[e][r] \in {task[e][r], Idle}
    BY <1>1, <1>2 DEF IInv, TypeOK
  <1>4. LateType'
    BY GiveUpType DEF Restart
  <1>5. PICK c \in Loaded(d) :
           /\ disk' = [disk EXCEPT ![d] = c]
           /\ cache' = [cache EXCEPT ![d] = c]
           /\ status' = [status EXCEPT ![d] = IF c = NoCache THEN "unauthenticated"
                                              ELSE "locked"]
    BY DEF Restart
  <1>6. c \in Cache \cup {NoCache} /\ GoodCache(c, row.revision, accepted)
    BY <1>5 DEF Loaded, IInv, TypeOK, GoodCache
  <1>7. TypeOK' /\ UnlockedHasVault'
    BY <1>3, <1>4, <1>5, <1>6
       DEF Restart, IInv, TypeOK, LateType, UnlockedHasVault, Statuses, ghosts
  <1>8. UNCHANGED <<row, accepted>>
    BY DEF Restart
  <1>9. \A e \in Devices : /\ GoodCache(cache'[e], row.revision, accepted)
                           /\ GoodCache(disk'[e], row.revision, accepted)
    BY <1>5, <1>6 DEF IInv, TypeOK
  <1>10. \A e \in Devices, r \in Slots : GoodTask(task'[e][r], row.revision, accepted)
    BY <1>1, <1>3 DEF IInv
  <1>11. QED
    BY <1>7, <1>8, <1>9, <1>10 DEF IInv

----------------------------------------------------------------------------
(* Theorems *)

\* Logged in devices know what the server holds.
LEMMA InitIInv == Init => IInv
  <1> SUFFICES ASSUME Init PROVE IInv
    OBVIOUS
  <1>1. InitialVault \in Vault
    <2>1. [content |-> 0, at |-> 0] \in Version
      BY BoundsAssumption DEF Version
    <2>2. QED
      BY <2>1 DEF InitialVault, Vault
  <1> DEFINE c == Clean(InitialVault, 1)
             p == [revision |-> 1, blob |-> InitialVault]
  <1>2. c \in Cache /\ c.revision = 1 /\ c.blob = InitialVault /\ c.pending = FALSE
    BY <1>1 DEF Clean, Cache
  <1>3. p.revision = 1 /\ p.blob = InitialVault
    OBVIOUS
  <1>4. row.revision = 1 /\ row.blob = InitialVault /\ accepted = {p}
    BY DEF Init
  <1>5. Idle \in Task /\ GoodTask(Idle, 1, accepted)
    BY IdleGood
  <1>6. GoodCache(c, 1, accepted)
    BY <1>2, <1>4 DEF GoodCache
  <1>7. GoodHistory(row.blob, row.revision, accepted)
    BY <1>4 DEF GoodHistory
  <1>8. \A d \in Devices : cache[d] = c /\ disk[d] = c
    BY DEF Init
  <1>9. \A d \in Devices, s \in Slots : task[d][s] = Idle
    BY DEF Init
  <1> HIDE DEF c, p
  <1>10. cache = [d \in Devices |-> c] /\ disk = [d \in Devices |-> c]
    BY DEF Init, c
  <1>11. DeviceTypes
    BY <1>1, <1>2, <1>10 DEF Init, DeviceTypes, Statuses
  <1>12. LateType /\ GhostTypes
    BY ChoiceAssumption DEF Init, LateType, GhostTypes
  <1>13. /\ row \in [blob : Vault, revision : Nat]
         /\ accepted \subseteq [revision : Nat, blob : Vault]
         /\ task \in [Devices -> [Slots -> Task]]
    BY <1>1, <1>4, <1>5 DEF Init, p
  <1>14. TypeOK
    BY <1>11, <1>12, <1>13 DEF TypeOK, DeviceTypes, LateType, GhostTypes
  <1>15. UnlockedHasVault
    BY <1>1 DEF Init, UnlockedHasVault
  <1>16. QED
    BY <1>4, <1>5, <1>6, <1>7, <1>8, <1>9, <1>14, <1>15 DEF IInv

\* A step of one call.
LEMMA CallIInv ==
    ASSUME IInv, NEW d \in Devices, NEW s \in Slots,
           Begin(d, s) \/ Serve(d, s) \/ Continue(d, s)
    PROVE  IInv'
  <1>1. CASE Begin(d, s)
    BY <1>1, SaveStep, SaveDraftStep, SyncPendingChangesStep, ApplyConflictResolutionsStep,
       SyncAllStep, CaptureStep, DisableBiometricsStep, LogoutLoginStep DEF Begin
  <1>2. CASE Serve(d, s)
    BY <1>2, ServePutStep, ServeGetStep DEF Serve
  <1>3. CASE Continue(d, s)
    BY <1>3, PutAcceptedStep, PutConflictStep, MergeRemoteStep, RefreshIdleStep,
       RefreshReplaceStep, EndStep, UnreachableStep, StoredDoneStep, StoredPendingStep,
       StoredRefreshedStep, StoredAssignStep, StoredLoggedInStep, UnlockedStep,
       BiometricsEnabledStep, PasswordChangedStep, WipedStep, LoggedOutStep,
       LoginLoadedStep DEF Continue
  <1>4. QED
    BY <1>1, <1>2, <1>3

\* Every step keeps the invariant.
LEMMA NextIInv == IInv /\ [Next]_vars => IInv'
  <1> SUFFICES ASSUME IInv, [Next]_vars PROVE IInv'
    OBVIOUS
  <1>1. CASE Next
    BY <1>1, CallIInv, OpenDraftStep, LockStep, RestartStep, ServeLateStep DEF Next
  <1>2. CASE UNCHANGED vars
    BY <1>2 DEF vars, IInv, TypeOK, UnlockedHasVault
  <1>3. QED
    BY <1>1, <1>2

\* The invariant holds of every behaviour.
LEMMA Inductive == Spec => []IInv
  BY InitIInv, NextIInv, PTL DEF Spec

\* Every variable keeps to its kind, for any number of devices and calls.
THEOREM Typing == Spec => []TypeOK
  <1>1. IInv => TypeOK
    BY DEF IInv
  <1>2. QED
    BY <1>1, Inductive, PTL

\* A clean cache is what the server accepted under that revision: whatever answers
\* were lost or came late, whatever calls overlapped, no device starts a
\* compare-and-swap from something the server never held.
THEOREM CleanCaches == Spec => []CleanCacheIsAccepted
  <1>1. IInv => CleanCacheIsAccepted
    BY DEF IInv, GoodTask, GoodCache, CleanCacheIsAccepted, CachesOf
  <1>2. QED
    BY <1>1, Inductive, PTL

\* No device is ahead of the server.
THEOREM NeverAhead == Spec => []NeverAheadOfServer
  <1>1. IInv => NeverAheadOfServer
    BY DEF IInv, GoodTask, GoodCache, NeverAheadOfServer, CachesOf
  <1>2. QED
    BY <1>1, Inductive, PTL

\* What is pushed after a 409 keeps every entry of the revision it replaces, in
\* that version or a newer one.
THEOREM MergedPushes == Spec => []MergedPushKeepsRemote
  <1>1. IInv => MergedPushKeepsRemote
    BY DEF IInv, GoodTask, MergedPushKeepsRemote, Keeps
  <1>2. QED
    BY <1>1, Inductive, PTL

----------------------------------------------------------------------------
(* The server implements the register *)

\* The server is changed only by serving a PUT.
LEMMA OthersLeaveRow ==
    ASSUME IInv, Next, ~ServeLate, \A d \in Devices, s \in Slots : ~ServePut(d, s)
    PROVE  UNCHANGED <<row, accepted>>
  <1>1. ASSUME NEW d \in Devices, NEW s \in Slots, Begin(d, s)
        PROVE  UNCHANGED <<row, accepted>>
    BY <1>1 DEF Begin, Save, SaveDraft, SyncPendingChanges, ApplyConflictResolutions, SyncAll,
                Capture, DisableBiometrics, Logout, Login, server
  <1>2. ASSUME NEW d \in Devices, NEW s \in Slots, ServeGet(d, s) \/ ServeError(d, s)
        PROVE  UNCHANGED <<row, accepted>>
    BY <1>2 DEF ServeGet, ServeError, server
  <1>3. ASSUME NEW d \in Devices, NEW s \in Slots, Continue(d, s)
        PROVE  UNCHANGED <<row, accepted>>
    BY <1>3 DEF Continue, PutAccepted, PutConflict, MergeRemote, RefreshIdle, RefreshReplace,
                Refused, Unreachable, StoredDone, StoredPending, StoredRefreshed, StoredAssign,
                StoredLoggedIn, DeriveFails, Unlocked, BiometricsEnabled, PasswordChanged,
                Wiped, LoggedOut, LoginLoaded, server
  <1>4. ASSUME NEW d \in Devices, OpenDraft(d) \/ Lock(d) \/ Restart(d)
        PROVE  UNCHANGED <<row, accepted>>
    BY <1>4 DEF OpenDraft, Lock, Restart, server
  <1>5. QED
    BY <1>1, <1>2, <1>3, <1>4 DEF Next, Serve

\* A PUT that may arrive after its sender gave it up was in flight before.
LEMMA LateInFlight == ASSUME IInv, [Next]_vars PROVE late' \subseteq InFlight
  <1>1. late \subseteq InFlight
    BY DEF InFlight
  <1>2. ASSUME NEW d \in Devices, NEW ts \in SUBSET {task[d][s] : s \in Slots}, GiveUp(ts)
        PROVE  late' \subseteq InFlight
    <2>1. Unserved(ts) \subseteq Unserved({task[d][s] : s \in Slots})
      BY DEF Unserved
    <2>2. QED
      BY <1>2, <2>1 DEF GiveUp, InFlight
  <1>3. ASSUME NEW d \in Devices, NEW s \in Slots, Unreachable(d, s)
        PROVE  late' \subseteq InFlight
    BY <1>2, <1>3 DEF Unreachable
  <1>4. ASSUME NEW d \in Devices, Restart(d)
        PROVE  late' \subseteq InFlight
    BY <1>2, <1>4 DEF Restart
  <1>5. CASE ServeLate
    BY <1>1, <1>5 DEF ServeLate
  <1>6. ASSUME NEW d \in Devices, NEW s \in Slots, Begin(d, s) \/ Serve(d, s)
        PROVE  late' = late
    BY <1>6 DEF Begin, Save, SaveDraft, SyncPendingChanges, ApplyConflictResolutions, SyncAll,
                Capture, DisableBiometrics, Logout, Login, Serve, ServePut, ServeGet, ServeError,
                server
  <1>7. ASSUME NEW d \in Devices, NEW s \in Slots, Continue(d, s), ~Unreachable(d, s)
        PROVE  late' = late
    BY <1>7 DEF Continue, PutAccepted, PutConflict, MergeRemote, RefreshIdle, RefreshReplace,
                Refused, StoredDone, StoredPending, StoredRefreshed, StoredAssign,
                StoredLoggedIn, DeriveFails, Unlocked, BiometricsEnabled, PasswordChanged,
                Wiped, LoggedOut, LoginLoaded, server
  <1>8. ASSUME NEW d \in Devices, OpenDraft(d) \/ Lock(d)
        PROVE  late' = late
    BY <1>8 DEF OpenDraft, Lock, server
  <1>9. CASE UNCHANGED vars
    BY <1>1, <1>9 DEF vars
  <1>10. QED
    BY <1>1, <1>3, <1>4, <1>5, <1>6, <1>7, <1>8, <1>9 DEF Next

\* No PUT is sent from a revision the server has not reached.
LEMMA SentFromThePast ==
    ASSUME IInv, [Next]_vars, UNCHANGED <<row, accepted>>, NEW p \in InFlight', p \notin InFlight
    PROVE  p.vault \in Vault /\ p.revision \in Nat /\ p.revision <= row.revision
  <1>1. PICK d \in Devices : p \in Unserved({task[d][s] : s \in Slots})'
    BY LateInFlight DEF InFlight
  <1>2. PICK s \in Slots : /\ task'[d][s].pc = "put"
                           /\ p = [vault |-> task'[d][s].vault, revision |-> task'[d][s].revision]
    BY <1>1 DEF Unserved
  <1>3. IInv'
    BY NextIInv
  <1>4. task'[d][s] \in Task /\ GoodTask(task'[d][s], row.revision', accepted')
    BY <1>3 DEF IInv, TypeOK
  <1>5. QED
    BY <1>2, <1>4 DEF GoodTask, Task

\* What changes the row is a PUT in flight that started from the current revision,
\* and no other PUT is sent by that step.
LEMMA AcceptedWasInFlight ==
    ASSUME IInv, Next
    PROVE  \/ UNCHANGED <<row, accepted>>
           \/ /\ \E p \in InFlight : p.revision = row.revision /\ Accept(p.vault)
              /\ InFlight' \subseteq InFlight
  <1>1. ASSUME NEW d \in Devices, NEW s \in Slots, ServePut(d, s), ~UNCHANGED <<row, accepted>>
        PROVE  /\ \E p \in InFlight : p.revision = row.revision /\ Accept(p.vault)
               /\ InFlight' \subseteq InFlight
    <2> DEFINE t == task[d][s]
               u == [t EXCEPT !.answer = [type |-> "ok", revision |-> t.revision + 1,
                                          blob |-> NoVault]]
    <2>1. /\ t.pc = "put" /\ t.answer.type = "none"
          /\ t.revision = row.revision /\ Accept(t.vault) /\ SetTask(d, s, u)
          /\ late' = late
      BY <1>1 DEF ServePut, Accepts
    <2>2. [vault |-> t.vault, revision |-> t.revision] \in InFlight
      BY <2>1 DEF InFlight, Unserved
    <2>3. t \in Task /\ u.answer.type = "ok"
      BY DEF IInv, TypeOK, Task
    <2> HIDE DEF u
    <2>4. \A e \in Devices, r \in Slots : task'[e][r] \in {task[e][r], u}
      BY <2>1 DEF SetTask, IInv, TypeOK
    <2>5. ASSUME NEW e \in Devices
          PROVE  Unserved({task[e][r] : r \in Slots})' \subseteq Unserved({task[e][r] : r \in Slots})
      BY <2>3, <2>4 DEF Unserved
    <2>6. InFlight' \subseteq InFlight
      <3>1. SUFFICES ASSUME NEW p \in InFlight', p \notin late PROVE p \in InFlight
        BY DEF InFlight
      <3>2. PICK e \in Devices : p \in Unserved({task[e][r] : r \in Slots})'
        BY <2>1, <3>1 DEF InFlight
      <3>3. QED
        BY <2>5, <3>2 DEF InFlight
    <2>7. QED
      BY <2>1, <2>2, <2>6
  <1>2. ASSUME ServeLate, ~UNCHANGED <<row, accepted>>
        PROVE  /\ \E p \in InFlight : p.revision = row.revision /\ Accept(p.vault)
               /\ InFlight' \subseteq InFlight
    <2>1. PICK p \in late : Accepts(p.revision) /\ Accept(p.vault) /\ late' = late \ {p}
      BY <1>2 DEF ServeLate
    <2>2. task' = task
      BY <1>2 DEF ServeLate
    <2>3. QED
      BY <2>1, <2>2 DEF InFlight, Unserved, Accepts
  <1>3. QED
    BY <1>1, <1>2, OthersLeaveRow

\* Whatever the devices and the network do, the server's row is a register written
\* by compare-and-swap: every step takes one PUT in flight whose sender started from
\* the current revision and publishes its vault as the next one, or leaves the
\* register as it is.
THEOREM Refinement == Spec => ImplementsStore
  <1>1. Init => Store!Init
    <2> SUFFICES ASSUME Init PROVE Store!Init
      OBVIOUS
    <2>1. row \in [blob : Vault, revision : Nat]
      BY InitIInv DEF IInv, TypeOK
    <2>2. InFlight = {}
      BY DEF Init, InFlight, Unserved, Idle
    <2>3. QED
      BY <2>1, <2>2 DEF Init, Store!Init
  <1>2. IInv /\ [Next]_vars => [Store!Next]_(Store!vars)
    <2> SUFFICES ASSUME IInv, [Next]_vars PROVE Store!Next
      OBVIOUS
    <2>1. CASE UNCHANGED <<row, accepted>>
      BY <2>1, SentFromThePast DEF Store!Next, Store!Send, Store!Write
    <2>2. ASSUME NEW p \in InFlight, p.revision = row.revision, Accept(p.vault),
                 InFlight' \subseteq InFlight
          PROVE  Store!Publish
      <3> DEFINE w == [base |-> p.revision, value |-> p.vault]
                 sent == {[base |-> q.revision, value |-> q.vault] : q \in InFlight}
      <3>1. /\ row.blob' = w.value
            /\ row.revision' = row.revision + 1
            /\ accepted' = accepted \cup {[revision |-> row.revision + 1, blob |-> w.value]}
            /\ w \in sent /\ w.base = row.revision
        BY <2>2 DEF Accept
      <3>2. sent' \subseteq sent
        BY <2>2
      <3>3. QED
        BY <3>1, <3>2 DEF Store!Publish
    <2>3. CASE UNCHANGED vars
      BY <2>1, <2>3 DEF vars
    <2>4. QED
      BY <2>1, <2>2, <2>3, AcceptedWasInFlight DEF Store!Next
  <1>3. QED
    BY <1>1, <1>2, Inductive, PTL DEF Spec, ImplementsStore, Store!Spec

----------------------------------------------------------------------------
(* One call at a time *)

\* No two calls of a device are in progress, as when each is awaited before the next.
OneCallAtATime ==
    \A d \in Devices, s, r \in Slots :
        s # r => task[d][s].pc = "idle" \/ task[d][r].pc = "idle"

\* A step of s is a step of the only call of d.
OnlyCall(d, s) == \A r \in Slots \ {s} : task[d][r].pc = "idle"

\* What a call in progress knows of the device: the vault it pushes is the one
\* shown, unless it was locked away, and the cache it holds is the current one.
Coherent(v, c, t) ==
    /\ t.pc \in {"put", "mergeGet"} => v \in {NoVault, t.vault}
    /\ t.pc = "derive" \/ (t.pc = "store" /\ t.after # "loggedIn") => t.held = c
    /\ t.pc = "store" /\ t.after = "pending" => t.held.blob = t.vault
    /\ t.pc = "store" /\ t.after = "done" /\ t.op \in Pushes => v \in {NoVault, t.held.blob}

SInv == \A d \in Devices, s \in Slots : Coherent(vault[d], cache[d], task[d][s])

\* What d shows and keeps in memory is all that changes of what is shown and kept.
OnlyOf(d) == \A e \in Devices \ {d} : vault'[e] = vault[e] /\ cache'[e] = cache[e]

\* A step of a device's only call need only be examined there.
LEMMA CoherentStep ==
    ASSUME IInv, SInv, NEW d \in Devices, NEW s \in Slots, OnlyCall(d, s), NEW t,
           SetTask(d, s, t), OnlyOf(d), Coherent(vault'[d], cache'[d], t)
    PROVE  SInv'
  <1> SUFFICES ASSUME NEW e \in Devices, NEW r \in Slots
               PROVE  Coherent(vault'[e], cache'[e], task'[e][r])
    BY DEF SInv
  <1>1. CASE e = d
    <2>1. CASE r = s
      BY <1>1, <2>1 DEF SetTask, IInv, TypeOK
    <2>2. CASE r # s
      <3>1. task'[e][r] = task[d][r] /\ task[d][r].pc = "idle"
        BY <1>1, <2>2 DEF SetTask, IInv, TypeOK, OnlyCall
      <3>2. QED
        BY <1>1, <3>1 DEF Coherent
    <2>3. QED
      BY <2>1, <2>2
  <1>2. CASE e # d
    BY <1>2 DEF SetTask, IInv, TypeOK, SInv, OnlyOf
  <1>3. QED
    BY <1>1, <1>2

\* A call that is neither pushing, nor deriving, nor writing has nothing to keep to.
LEMMA FreeCoherent ==
    ASSUME NEW t, t.pc \notin {"put", "mergeGet", "derive", "store"}, NEW v, NEW c
    PROVE  Coherent(v, c, t)
  BY DEF Coherent

\* A call ends.
LEMMA FinishCoherent ==
    ASSUME IInv, SInv, NEW d \in Devices, NEW s \in Slots, OnlyCall(d, s),
           Finish(d, s), OnlyOf(d)
    PROVE  SInv'
  <1>1. Idle \in Task /\ Idle.pc = "idle"
    BY FinishGood DEF Idle
  <1>2. QED
    BY <1>1, FreeCoherent, CoherentStep DEF Finish

\* A push begins with the vault that is shown.
LEMMA PushCoherent ==
    ASSUME IInv, SInv, NEW d \in Devices, NEW s \in Slots, OnlyCall(d, s),
           NEW op, NEW v, SetTask(d, s, Push(d, op, v)), vault'[d] = v, OnlyOf(d)
    PROVE  SInv'
  <1>1. Push(d, op, v).pc = "put" /\ Push(d, op, v).vault = v
    BY FinishGood DEF Push, Task
  <1>2. Coherent(vault'[d], cache'[d], Push(d, op, v))
    BY <1>1 DEF Coherent
  <1>3. QED
    BY <1>2, CoherentStep

\* The calls that push.
LEMMA PushesCoherent ==
    ASSUME IInv, SInv, NEW d \in Devices, NEW s \in Slots, OnlyCall(d, s),
           \/ Save(d, s) \/ SaveDraft(d, s) \/ SyncPendingChanges(d, s)
           \/ ApplyConflictResolutions(d, s)
    PROVE  SInv'
  <1>1. PICK op, v :
           /\ SetTask(d, s, Push(d, op, v))
           /\ vault' = [vault EXCEPT ![d] = v] \/ (UNCHANGED vault /\ v = vault[d])
           /\ UNCHANGED cache
    BY DEF Save, SaveDraft, SyncPendingChanges, ApplyConflictResolutions, device
  <1>2. vault \in [Devices -> Vault \cup {NoVault}]
    BY DEF IInv, TypeOK
  <1>3. vault'[d] = v /\ OnlyOf(d)
    BY <1>1, <1>2 DEF OnlyOf
  <1>4. QED
    BY <1>1, <1>3, PushCoherent

\* The second half of syncAll pushes the vault shown, or ends.
LEMMA PushIfPendingCoherent ==
    ASSUME IInv, SInv, NEW d \in Devices, NEW s \in Slots, OnlyCall(d, s),
           PushIfPending(d, s), OnlyOf(d), vault'[d] = vault[d]
    PROVE  SInv'
  BY PushCoherent, FinishCoherent DEF PushIfPending

\* The other calls that begin hold the current cache, or nothing.
LEMMA OthersCoherent ==
    ASSUME IInv, SInv, NEW d \in Devices, NEW s \in Slots, OnlyCall(d, s),
           \/ SyncAll(d, s) \/ (\E op \in {"unlock", "bio", "password"} : Capture(d, s, op))
           \/ DisableBiometrics(d, s) \/ Logout(d, s) \/ Login(d, s)
    PROVE  SInv'
  <1>1. OnlyOf(d) /\ UNCHANGED cache
    BY DEF SyncAll, Capture, DisableBiometrics, Logout, Login, device, OnlyOf
  <1>2. Idle \in Task /\ vault' = vault
    BY FinishGood DEF SyncAll, Capture, DisableBiometrics, Logout, Login, device
  <1>3. CASE SyncAll(d, s)
    <2> DEFINE t == [Idle EXCEPT !.op = "syncAll", !.pc = "refreshGet",
                                 !.revision = cache[d].revision]
    <2>1. SetTask(d, s, t)
      BY <1>3 DEF SyncAll
    <2>2. t.pc = "refreshGet"
      BY <1>2 DEF Task
    <2> HIDE DEF t
    <2>3. QED
      BY <1>1, <2>1, <2>2, FreeCoherent, CoherentStep
  <1>4. ASSUME NEW op \in {"unlock", "bio", "password"}, Capture(d, s, op)
        PROVE  SInv'
    <2> DEFINE t == [Idle EXCEPT !.op = op, !.pc = "derive", !.held = cache[d]]
    <2>1. SetTask(d, s, t)
      BY <1>4 DEF Capture
    <2>2. t.pc = "derive" /\ t.held = cache[d]
      BY <1>2 DEF Task
    <2> HIDE DEF t
    <2>3. Coherent(vault'[d], cache'[d], t)
      BY <1>1, <2>2 DEF Coherent
    <2>4. QED
      BY <1>1, <2>1, <2>3, CoherentStep
  <1>5. CASE DisableBiometrics(d, s)
    <2> DEFINE t == [Idle EXCEPT !.op = "bio", !.pc = "store", !.held = cache[d],
                                 !.after = "done"]
    <2>1. SetTask(d, s, t)
      BY <1>5 DEF DisableBiometrics
    <2>2. t.pc = "store" /\ t.held = cache[d] /\ t.after = "done" /\ t.op = "bio"
      BY <1>2 DEF Task
    <2> HIDE DEF t
    <2>3. Coherent(vault'[d], cache'[d], t)
      BY <1>1, <2>2 DEF Coherent, Pushes
    <2>4. QED
      BY <1>1, <2>1, <2>3, CoherentStep
  <1>6. CASE Logout(d, s)
    <2> DEFINE t == [Idle EXCEPT !.op = "logout", !.pc = "wipe"]
    <2>1. SetTask(d, s, t)
      BY <1>6 DEF Logout
    <2>2. t.pc = "wipe"
      BY <1>2 DEF Task
    <2> HIDE DEF t
    <2>3. QED
      BY <1>1, <2>1, <2>2, FreeCoherent, CoherentStep
  <1>7. CASE Login(d, s)
    <2> DEFINE t == [Idle EXCEPT !.op = "login", !.pc = "loginGet"]
    <2>1. SetTask(d, s, t)
      BY <1>7 DEF Login
    <2>2. t.pc = "loginGet"
      BY <1>2 DEF Task
    <2> HIDE DEF t
    <2>3. QED
      BY <1>1, <2>1, <2>2, FreeCoherent, CoherentStep
  <1>8. QED
    BY <1>3, <1>4, <1>5, <1>6, <1>7

\* An answer changes nothing of what a call holds, and a 409 leaves it pushing.
LEMMA AnswersCoherent ==
    ASSUME IInv, SInv, NEW d \in Devices, NEW s \in Slots, OnlyCall(d, s),
           Serve(d, s) \/ PutConflict(d, s)
    PROVE  SInv'
  <1> DEFINE t == task[d][s]
  <1>1. t \in Task /\ Coherent(vault[d], cache[d], t)
    BY DEF IInv, TypeOK, SInv
  <1>2. UNCHANGED <<vault, cache>> /\ OnlyOf(d)
    BY DEF Serve, ServePut, ServeGet, ServeError, PutConflict, device, OnlyOf
  <1>3. PICK a : \/ SetTask(d, s, [t EXCEPT !.answer = a])
                 \/ t.pc = "put" /\ SetTask(d, s, [t EXCEPT !.pc = "mergeGet", !.answer = a])
    BY DEF Serve, ServePut, ServeGet, ServeError, PutConflict
  <1> HIDE DEF t
  <1>4. CASE SetTask(d, s, [t EXCEPT !.answer = a])
    <2>1. Coherent(vault'[d], cache'[d], [t EXCEPT !.answer = a])
      BY <1>1, <1>2 DEF Coherent, Task
    <2>2. QED
      BY <1>2, <1>4, <2>1, CoherentStep
  <1>5. CASE t.pc = "put" /\ SetTask(d, s, [t EXCEPT !.pc = "mergeGet", !.answer = a])
    <2>1. Coherent(vault'[d], cache'[d], [t EXCEPT !.pc = "mergeGet", !.answer = a])
      BY <1>1, <1>2, <1>5 DEF Coherent, Task
    <2>2. QED
      BY <1>2, <1>5, <2>1, CoherentStep
  <1>6. QED
    BY <1>3, <1>4, <1>5

\* A push that was accepted writes the cache it makes of the vault shown.
LEMMA PutAcceptedCoherent ==
    ASSUME IInv, SInv, NEW d \in Devices, NEW s \in Slots, OnlyCall(d, s), PutAccepted(d, s)
    PROVE  SInv'
  <1> DEFINE t == task[d][s]
             c == Clean(t.vault, t.answer.revision)
             u == [t EXCEPT !.pc = "store", !.held = c, !.after = "done", !.answer = NoAnswer]
  <1>1. /\ t \in Task /\ Coherent(vault[d], cache[d], t) /\ t.pc = "put"
        /\ vault \in [Devices -> Vault \cup {NoVault}]
        /\ cache \in [Devices -> Cache \cup {NoCache}]
    BY DEF PutAccepted, IInv, TypeOK, SInv
  <1>2. UNCHANGED vault
    BY DEF PutAccepted
  <1>3. CASE Finish(d, s) /\ UNCHANGED cache
    BY <1>2, <1>3, FinishCoherent DEF OnlyOf
  <1>4. CASE cache' = [cache EXCEPT ![d] = c] /\ SetTask(d, s, u)
    <2>1. c.blob = t.vault
      BY DEF Clean
    <2> HIDE DEF c, t
    <2>2. cache'[d] = c /\ OnlyOf(d)
      BY <1>1, <1>2, <1>4 DEF OnlyOf
    <2>3. u.pc = "store" /\ u.held = c /\ u.after = "done" /\ u.vault = t.vault
      BY <1>1 DEF Task
    <2>4. Coherent(vault'[d], cache'[d], u)
      BY <1>1, <1>2, <2>1, <2>2, <2>3 DEF Coherent
    <2>5. QED
      BY <1>4, <2>2, <2>4, CoherentStep
  <1>5. QED
    BY <1>3, <1>4 DEF PutAccepted, Pushed

\* A merge is shown and pushed again, or given up.
LEMMA MergeRemoteCoherent ==
    ASSUME IInv, SInv, NEW d \in Devices, NEW s \in Slots, OnlyCall(d, s), MergeRemote(d, s)
    PROVE  SInv'
  <1> DEFINE t == task[d][s]
             m == MergeVaults(t.vault, t.answer.blob)
  <1>1. /\ t \in Task /\ vault \in [Devices -> Vault \cup {NoVault}]
        /\ vault' = [vault EXCEPT ![d] = m] /\ UNCHANGED cache
    BY DEF MergeRemote, Show, IInv, TypeOK
  <1> HIDE DEF m
  <1>2. vault'[d] = m /\ OnlyOf(d)
    BY <1>1 DEF OnlyOf
  <1>3. CASE Finish(d, s)
    BY <1>2, <1>3, FinishCoherent
  <1>4. CASE SetTask(d, s, Retry(t, m))
    <2>1. Retry(t, m).pc = "put" /\ Retry(t, m).vault = m
      BY <1>1 DEF Retry, Task
    <2>2. Coherent(vault'[d], cache'[d], Retry(t, m))
      BY <1>2, <2>1 DEF Coherent
    <2>3. QED
      BY <1>2, <1>4, <2>2, CoherentStep
  <1>5. QED
    BY <1>3, <1>4 DEF MergeRemote, m

\* A refresh holds the cache it made.
LEMMA RefreshReplaceCoherent ==
    ASSUME IInv, SInv, NEW d \in Devices, NEW s \in Slots, OnlyCall(d, s), RefreshReplace(d, s)
    PROVE  SInv'
  <1> DEFINE t == task[d][s]
             c == Clean(t.answer.blob, t.answer.revision)
             u == [t EXCEPT !.pc = "store", !.held = c, !.after = "refreshed",
                            !.answer = NoAnswer]
  <1>1. PICK v : vault' = [vault EXCEPT ![d] = v]
    BY DEF RefreshReplace
  <1>2. /\ t \in Task /\ vault \in [Devices -> Vault \cup {NoVault}]
        /\ cache \in [Devices -> Cache \cup {NoCache}]
    BY DEF IInv, TypeOK
  <1>3. CASE Finish(d, s) /\ UNCHANGED cache
    BY <1>1, <1>2, <1>3, FinishCoherent DEF OnlyOf
  <1>4. CASE cache' = [cache EXCEPT ![d] = c] /\ SetTask(d, s, u)
    <2> HIDE DEF c, t
    <2>1. cache'[d] = c /\ OnlyOf(d)
      BY <1>1, <1>2, <1>4 DEF OnlyOf
    <2>2. u.pc = "store" /\ u.held = c /\ u.after = "refreshed"
      BY <1>2 DEF Task
    <2>3. Coherent(vault'[d], cache'[d], u)
      BY <2>1, <2>2 DEF Coherent
    <2>4. QED
      BY <1>4, <2>1, <2>3, CoherentStep
  <1>5. QED
    BY <1>3, <1>4 DEF RefreshReplace

\* A push that got no answer writes its vault, which is shown unless it was locked.
LEMMA UnreachableCoherent ==
    ASSUME IInv, SInv, NEW d \in Devices, NEW s \in Slots, OnlyCall(d, s), Unreachable(d, s)
    PROVE  SInv'
  <1> DEFINE t == task[d][s]
             c == Pending(t.vault, t.revision)
             u == [t EXCEPT !.pc = "store", !.held = c, !.after = "pending",
                            !.answer = NoAnswer]
  <1>1. /\ t \in Task /\ UNCHANGED vault /\ cache \in [Devices -> Cache \cup {NoCache}]
    BY DEF Unreachable, IInv, TypeOK
  <1>2. CASE Finish(d, s) /\ UNCHANGED cache
    BY <1>1, <1>2, FinishCoherent DEF OnlyOf
  <1>3. CASE cache' = [cache EXCEPT ![d] = c] /\ SetTask(d, s, u)
    <2>1. c.blob = t.vault
      BY DEF Pending
    <2> HIDE DEF c, t
    <2>2. cache'[d] = c /\ OnlyOf(d)
      BY <1>1, <1>3 DEF OnlyOf
    <2>3. u.pc = "store" /\ u.held = c /\ u.after = "pending" /\ u.vault = t.vault
      BY <1>1 DEF Task
    <2>4. Coherent(vault'[d], cache'[d], u)
      BY <2>1, <2>2, <2>3 DEF Coherent
    <2>5. QED
      BY <1>3, <2>2, <2>4, CoherentStep
  <1>4. QED
    BY <1>2, <1>3 DEF Unreachable, KeptPending

\* The calls that end, whatever they leave on their device.
LEMMA EndsCoherent ==
    ASSUME IInv, SInv, NEW d \in Devices, NEW s \in Slots, OnlyCall(d, s),
           \/ Refused(d, s) \/ DeriveFails(d, s) \/ Unlocked(d, s) \/ LoggedOut(d, s)
           \/ StoredDone(d, s) \/ StoredPending(d, s) \/ StoredAssign(d, s)
           \/ StoredLoggedIn(d, s)
    PROVE  SInv'
  <1>1. Finish(d, s)
    BY DEF Refused, DeriveFails, Unlocked, LoggedOut, StoredDone, StoredPending, StoredAssign,
           StoredLoggedIn
  <1>2. OnlyOf(d)
    BY DEF OnlyOf, Refused, DeriveFails, Unlocked, LoggedOut, StoredDone, StoredPending,
           StoredAssign, StoredLoggedIn, device, IInv, TypeOK
  <1>3. QED
    BY <1>1, <1>2, FinishCoherent

\* A refresh that goes on with what is pending.
LEMMA RefreshedCoherent ==
    ASSUME IInv, SInv, NEW d \in Devices, NEW s \in Slots, OnlyCall(d, s),
           RefreshIdle(d, s) \/ StoredRefreshed(d, s)
    PROVE  SInv'
  <1>1. PushIfPending(d, s) /\ UNCHANGED <<vault, cache>>
    BY DEF RefreshIdle, StoredRefreshed, device
  <1>2. QED
    BY <1>1, PushIfPendingCoherent DEF OnlyOf

\* The steps from a captured cache to its writing, of a logout and of a login.
LEMMA StepsCoherent ==
    ASSUME IInv, SInv, NEW d \in Devices, NEW s \in Slots, OnlyCall(d, s),
           \/ BiometricsEnabled(d, s) \/ PasswordChanged(d, s) \/ Wiped(d, s)
           \/ LoginLoaded(d, s)
    PROVE  SInv'
  <1> DEFINE t == task[d][s]
  <1>1. /\ t \in Task /\ Coherent(vault[d], cache[d], t)
        /\ cache \in [Devices -> Cache \cup {NoCache}]
    BY DEF IInv, TypeOK, SInv
  <1>2. CASE BiometricsEnabled(d, s)
    <2> DEFINE u == [t EXCEPT !.pc = "store", !.after = "done"]
    <2>1. /\ SetTask(d, s, u) /\ t.op = "bio" /\ UNCHANGED vault
          /\ cache' = [cache EXCEPT ![d] = t.held]
      BY <1>2 DEF BiometricsEnabled, Derives
    <2> HIDE DEF t
    <2>2. cache'[d] = t.held /\ OnlyOf(d)
      BY <1>1, <2>1 DEF OnlyOf
    <2>3. Coherent(vault'[d], cache'[d], u)
      BY <1>1, <2>1, <2>2 DEF Coherent, Task, Pushes
    <2>4. QED
      BY <2>1, <2>2, <2>3, CoherentStep
  <1>3. CASE PasswordChanged(d, s)
    <2> DEFINE u == [t EXCEPT !.pc = "store", !.after = "assign"]
    <2>1. SetTask(d, s, u) /\ t.pc = "derive" /\ UNCHANGED <<vault, cache>>
      BY <1>3 DEF PasswordChanged, Derives, device
    <2> HIDE DEF t
    <2>2. Coherent(vault'[d], cache'[d], u)
      BY <1>1, <2>1 DEF Coherent, Task
    <2>3. QED
      BY <2>1, <2>2, CoherentStep DEF OnlyOf
  <1>4. CASE Wiped(d, s)
    <2>1. SetTask(d, s, [t EXCEPT !.pc = "reset"]) /\ UNCHANGED <<vault, cache>>
      BY <1>4 DEF Wiped
    <2> HIDE DEF t
    <2>2. [t EXCEPT !.pc = "reset"].pc = "reset"
      BY <1>1 DEF Task
    <2>3. QED
      BY <2>1, <2>2, FreeCoherent, CoherentStep DEF OnlyOf
  <1>5. CASE LoginLoaded(d, s)
    <2> DEFINE c == Clean(t.answer.blob, t.answer.revision)
               u == [t EXCEPT !.pc = "store", !.after = "loggedIn", !.answer = NoAnswer,
                              !.held = c]
    <2>1. SetTask(d, s, u) /\ UNCHANGED <<vault, cache>>
      BY <1>5 DEF LoginLoaded, device
    <2> HIDE DEF t, c
    <2>2. Coherent(vault'[d], cache'[d], u)
      BY <1>1, <2>1 DEF Coherent, Task
    <2>3. QED
      BY <2>1, <2>2, CoherentStep DEF OnlyOf
  <1>6. QED
    BY <1>2, <1>3, <1>4, <1>5

\* The lock clears the vault shown, a restart ends every call of its device.
LEMMA DeviceCoherent ==
    ASSUME IInv, SInv, NEW d \in Devices, OpenDraft(d) \/ Lock(d) \/ Restart(d)
    PROVE  SInv'
  <1>1. CASE OpenDraft(d)
    BY <1>1 DEF OpenDraft, SInv
  <1>2. CASE Lock(d)
    BY <1>2 DEF Lock, SInv, Coherent, IInv, TypeOK
  <1>3. CASE Restart(d)
    <2> SUFFICES ASSUME NEW e \in Devices, NEW r \in Slots
                 PROVE  Coherent(vault'[e], cache'[e], task'[e][r])
      BY DEF SInv
    <2>1. CASE e = d
      <3>1. task'[e][r] = Idle
        BY <1>3, <2>1 DEF Restart, IInv, TypeOK
      <3>2. QED
        BY <3>1, FreeCoherent DEF Idle
    <2>2. CASE e # d
      BY <1>3, <2>2 DEF Restart, IInv, TypeOK, SInv
    <2>3. QED
      BY <2>1, <2>2
  <1>4. QED
    BY <1>1, <1>2, <1>3

\* The call that makes a step is in progress before it or after it.
LEMMA Alone ==
    ASSUME IInv, OneCallAtATime, OneCallAtATime', NEW d \in Devices, NEW s \in Slots,
           Begin(d, s) \/ Serve(d, s) \/ Continue(d, s)
    PROVE  OnlyCall(d, s)
  <1>1. CASE Begin(d, s)
    <2>1. Idle \in Task
      BY FinishGood
    <2>2. PICK t : SetTask(d, s, t) /\ t.pc # "idle"
      <3>1. CASE \E op, v : SetTask(d, s, Push(d, op, v))
        <4>1. PICK op, v : SetTask(d, s, Push(d, op, v))
          BY <3>1
        <4>2. Push(d, op, v).pc = "put"
          BY <2>1 DEF Push, Task
        <4>3. QED
          BY <4>1, <4>2
      <3>2. CASE SyncAll(d, s)
        <4>1. [Idle EXCEPT !.op = "syncAll", !.pc = "refreshGet",
                           !.revision = cache[d].revision].pc = "refreshGet"
          BY <2>1 DEF Task
        <4>2. QED
          BY <3>2, <4>1 DEF SyncAll
      <3>3. CASE \E op \in {"unlock", "bio", "password"} : Capture(d, s, op)
        <4>1. PICK op : Capture(d, s, op)
          BY <3>3
        <4>2. [Idle EXCEPT !.op = op, !.pc = "derive", !.held = cache[d]].pc = "derive"
          BY <2>1 DEF Task
        <4>3. QED
          BY <4>1, <4>2 DEF Capture
      <3>4. CASE DisableBiometrics(d, s)
        <4>1. [Idle EXCEPT !.op = "bio", !.pc = "store", !.held = cache[d],
                           !.after = "done"].pc = "store"
          BY <2>1 DEF Task
        <4>2. QED
          BY <3>4, <4>1 DEF DisableBiometrics
      <3>5. CASE Logout(d, s)
        <4>1. [Idle EXCEPT !.op = "logout", !.pc = "wipe"].pc = "wipe"
          BY <2>1 DEF Task
        <4>2. QED
          BY <3>5, <4>1 DEF Logout
      <3>6. CASE Login(d, s)
        <4>1. [Idle EXCEPT !.op = "login", !.pc = "loginGet"].pc = "loginGet"
          BY <2>1 DEF Task
        <4>2. QED
          BY <3>6, <4>1 DEF Login
      <3>7. QED
        BY <1>1, <3>1, <3>2, <3>3, <3>4, <3>5, <3>6
           DEF Begin, Save, SaveDraft, SyncPendingChanges, ApplyConflictResolutions
    <2>3. task'[d][s] = t /\ \A r \in Slots \ {s} : task'[d][r] = task[d][r]
      BY <2>2 DEF SetTask, IInv, TypeOK
    <2>4. QED
      BY <2>2, <2>3 DEF OneCallAtATime, OnlyCall
  <1>2. CASE Serve(d, s) \/ Continue(d, s)
    <2>1. task[d][s].pc # "idle"
      BY <1>2 DEF Serve, ServePut, ServeGet, ServeError, AtServer, Continue, PutAccepted,
         PutConflict, MergeRemote, RefreshIdle, RefreshReplace, Refused, Unreachable, TimesOut,
         StoredDone, StoredPending, StoredRefreshed, StoredAssign, StoredLoggedIn,
         DeriveFails, Unlocked, Derives, BiometricsEnabled, PasswordChanged, Wiped,
         LoggedOut, LoginLoaded
    <2>2. QED
      BY <2>1 DEF OneCallAtATime, OnlyCall
  <1>3. QED
    BY <1>1, <1>2

\* Every step keeps the calls coherent.
LEMMA NextSInv ==
    IInv /\ SInv /\ OneCallAtATime /\ OneCallAtATime' /\ [Next]_vars => SInv'
  <1> SUFFICES ASSUME IInv, SInv, OneCallAtATime, OneCallAtATime', [Next]_vars PROVE SInv'
    OBVIOUS
  <1>1. ASSUME NEW d \in Devices, NEW s \in Slots, Begin(d, s) \/ Serve(d, s)
        PROVE  SInv'
    BY <1>1, Alone, PushesCoherent, OthersCoherent, AnswersCoherent DEF Begin
  <1>2. ASSUME NEW d \in Devices, NEW s \in Slots, Continue(d, s)
        PROVE  SInv'
    BY <1>2, Alone, PutAcceptedCoherent, AnswersCoherent, MergeRemoteCoherent, RefreshedCoherent,
       RefreshReplaceCoherent, EndsCoherent, UnreachableCoherent, StepsCoherent DEF Continue
  <1>3. CASE ServeLate
    BY <1>3 DEF ServeLate, device, SInv
  <1>4. CASE UNCHANGED vars
    BY <1>4 DEF vars, SInv
  <1>5. QED
    BY <1>1, <1>2, <1>3, <1>4, DeviceCoherent DEF Next

\* The calls of a device that makes one at a time are always coherent with it.
LEMMA CoherentAlways == Spec /\ []OneCallAtATime => [](IInv /\ SInv)
  <1>1. Init => SInv
    <2> SUFFICES ASSUME Init, NEW d \in Devices, NEW s \in Slots
                 PROVE  Coherent(vault[d], cache[d], task[d][s])
      BY DEF SInv
    <2>1. task[d][s].pc = "idle"
      BY DEF Init, Idle
    <2>2. QED
      BY <2>1, FreeCoherent
  <1>2. QED
    BY <1>1, InitIInv, NextIInv, NextSInv, PTL DEF Spec

\* The only steps that end a call waiting for the cache file, once its push is done.
LEMMA StoreEnds ==
    ASSUME IInv, [Next]_vars, NEW d \in Devices, NEW s \in Slots,
           task[d][s].pc = "store", task'[d][s].pc = "idle",
           task[d][s].after \in {"done", "pending"}
    PROVE  StoredDone(d, s) \/ StoredPending(d, s) \/ Restart(d)
  <1> DEFINE t == task[d][s]
  <1>1. task \in [Devices -> [Slots -> Task]]
    BY DEF IInv, TypeOK
  <1> DEFINE Sets(e, r) == \E u : SetTask(e, r, u)
  <1>2. ASSUME NEW e \in Devices, NEW r \in Slots, Sets(e, r)
        PROVE  e = d /\ r = s
    BY <1>1, <1>2 DEF SetTask
  <1>3. ASSUME NEW e \in Devices, NEW r \in Slots, Begin(e, r)
        PROVE  FALSE
    <2>1. task[e][r].pc = "idle"
      BY <1>3 DEF Begin, Starts, Save, SaveDraft, SyncPendingChanges,
         ApplyConflictResolutions, SyncAll, Capture, DisableBiometrics, Logout, Login
    <2>2. Sets(e, r)
      BY <1>3 DEF Begin, Save, SaveDraft, SyncPendingChanges,
         ApplyConflictResolutions, SyncAll, Capture, DisableBiometrics, Logout, Login
    <2>3. QED
      BY <1>2, <2>1, <2>2
  <1>4. ASSUME NEW e \in Devices, NEW r \in Slots, Serve(e, r)
        PROVE  FALSE
    <2>1. task[e][r].pc # "store"
      BY <1>4 DEF Serve, ServePut, ServeGet, ServeError, AtServer
    <2>2. Sets(e, r)
      BY <1>4 DEF Serve, ServePut, ServeGet, ServeError
    <2>3. QED
      BY <1>2, <2>1, <2>2
  <1>5. ASSUME NEW e \in Devices, NEW r \in Slots, Continue(e, r)
        PROVE  StoredDone(d, s) \/ StoredPending(d, s)
    <2>1. \/ StoredDone(e, r) \/ StoredPending(e, r)
          \/ task[e][r].pc # "store"
          \/ task[e][r].after \notin {"done", "pending"}
      BY <1>5 DEF Continue, PutAccepted, PutConflict, MergeRemote, RefreshIdle,
         RefreshReplace, Refused, Unreachable, TimesOut, StoredRefreshed, StoredAssign,
         StoredLoggedIn, DeriveFails, Unlocked, Derives, BiometricsEnabled, PasswordChanged,
         Wiped, LoggedOut, LoginLoaded, AtServer
    <2>2. Sets(e, r)
      BY <1>5 DEF Continue, Finish, PutAccepted, PutConflict, MergeRemote,
         RefreshIdle, RefreshReplace, Refused, Unreachable, StoredDone, StoredPending,
         StoredRefreshed, StoredAssign, StoredLoggedIn, DeriveFails, Unlocked,
         BiometricsEnabled, PasswordChanged, Wiped, LoggedOut, LoginLoaded, PushIfPending
    <2>3. QED
      BY <1>2, <2>1, <2>2
  <1>6. ASSUME NEW e \in Devices, OpenDraft(e) \/ Lock(e) \/ Restart(e)
        PROVE  Restart(d)
    <2>1. task' # task /\ (e # d /\ Restart(e) => task'[d] = task[d])
      BY <1>1 DEF Restart
    <2>2. QED
      BY <1>6, <2>1 DEF OpenDraft, Lock
  <1>7. ~ServeLate /\ ~UNCHANGED vars
    <2>1. task' # task
      OBVIOUS
    <2>2. QED
      BY <2>1 DEF ServeLate, vars
  <1>8. QED
    BY <1>3, <1>4, <1>5, <1>6, <1>7 DEF Next

\* On a device that makes one call at a time, a push that ends without an error leaves
\* nothing in memory only: what is shown is what the cache and the cache file hold
\* (_persistPending and the end of _pushVault).
THEOREM PushesAreDurable == Spec /\ []OneCallAtATime => SavedIsDurable
  <1> DEFINE Durable ==
        \A d \in Devices, s \in Slots :
            /\ task[d][s].pc = "store" /\ task'[d][s].pc = "idle"
            /\ task[d][s].after \in {"done", "pending"} /\ task[d][s].op \in Pushes
            => /\ disk'[d] = cache'[d]
               /\ vault'[d] # NoVault => vault'[d] = disk'[d].blob
  <1>1. IInv /\ SInv /\ [Next]_vars => Durable
    <2> SUFFICES ASSUME IInv, SInv, [Next]_vars, NEW d \in Devices, NEW s \in Slots,
                        task[d][s].pc = "store", task'[d][s].pc = "idle",
                        task[d][s].after \in {"done", "pending"}, task[d][s].op \in Pushes
                 PROVE  /\ disk'[d] = cache'[d]
                        /\ vault'[d] # NoVault => vault'[d] = disk'[d].blob
      OBVIOUS
    <2>1. /\ Coherent(vault[d], cache[d], task[d][s])
          /\ task \in [Devices -> [Slots -> Task]]
          /\ vault \in [Devices -> Vault \cup {NoVault}]
          /\ cache \in [Devices -> Cache \cup {NoCache}]
          /\ disk \in [Devices -> Cache \cup {NoCache}]
      BY DEF IInv, TypeOK, SInv
    <2>2. CASE StoredDone(d, s)
      BY <2>1, <2>2 DEF StoredDone, Write, Coherent
    <2>3. CASE StoredPending(d, s)
      BY <2>1, <2>3 DEF StoredPending, Write, Coherent
    <2>4. CASE Restart(d)
      BY <2>1, <2>4 DEF Restart
    <2>5. StoredDone(d, s) \/ StoredPending(d, s) \/ Restart(d)
      BY StoreEnds
    <2>6. QED
      BY <2>2, <2>3, <2>4, <2>5
  <1>2. QED
    BY <1>1, CoherentAlways, PTL DEF SavedIsDurable, Spec

----------------------------------------------------------------------------
(* No update is lost *)

\* The clocks the devices stamp their edits with agree on the order of the edits.
ClocksAgree == \A m, n \in 1..MaxEdits : m <= n => Clock[m] <= Clock[n]

\* An entry is added to the vault that is shown: it did not change while it was typed.
FreshDrafts ==
    \A d \in Devices, s \in Slots : SaveDraft(d, s) => draft[d] = vault[d]

\* v has what b has, but for the identifiers in O, nothing in an older version.
Retains(v, b, O) ==
    \A i \in Ids \ O : Present(b, i) => Present(v, i) /\ ~Older(v[i], b[i])

\* v was made from everything the history A holds up to revision r.
Builds(v, r, A, O) == \A p \in A : p.revision <= r => Retains(v, p.blob, O)

\* A version is no newer than the edits to come, once N were made.
RecentVersion(x, N) == \A m \in (N + 1)..MaxEdits : x.at <= Clock[m]
Recent(v, N) == \A i \in Ids : Present(v, i) => RecentVersion(v[i], N)

Fine(v, r, A, O, N) == Builds(v, r, A, O) /\ Recent(v, N)
FineCache(c, A, O, N) == c # NoCache => Fine(c.blob, c.revision, A, O, N)

\* Every write accepted was made from all those before it.
FineHistory(A, O, N) ==
    /\ \A p \in A : Recent(p.blob, N)
    /\ \A p, q \in A : p.revision <= q.revision => Retains(q.blob, p.blob, O)

FineLate(p, R, A, O, N) == p.revision <= R /\ Fine(p.vault, p.revision, A, O, N)

\* The vault v, the cache c, the cache file k and the conflicts f of a device: an edit
\* of v is pushed as the successor of c.
FineDevice(v, c, k, f, A, O, N) ==
    /\ FineCache(c, A, O, N) /\ FineCache(k, A, O, N)
    /\ v # NoVault => Recent(v, N) /\ (c # NoCache => Builds(v, c.revision, A, O))
    /\ \A x \in f : RecentVersion(x.local, N) /\ RecentVersion(x.remote, N)

FineTask(t, c, A, O, N) ==
    /\ FineCache(t.held, A, O, N)
    /\ t.pc \in {"put", "mergeGet"} =>
          /\ Fine(t.vault, t.revision, A, O, N)
          /\ c # NoCache => Builds(t.vault, c.revision, A, O)

EInv ==
    /\ edits <= MaxEdits
    /\ FineHistory(accepted, overridden, edits)
    /\ \A p \in late : FineLate(p, row.revision, accepted, overridden, edits)
    /\ \A d \in Devices :
          FineDevice(vault[d], cache[d], disk[d], conflicts[d], accepted, overridden, edits)
    /\ \A d \in Devices, s \in Slots :
          FineTask(task[d][s], cache[d], accepted, overridden, edits)

\* Only newer revisions, more overridden identifiers and more edits.
Follows(R, A, O, N, A2, O2, N2) ==
    /\ A \subseteq A2 /\ \A p \in A2 \ A : p.revision > R
    /\ O \subseteq O2
    /\ N <= N2

\* A vault made from what a revision says is still so when the history grows.
LEMMA FineGrows ==
    ASSUME NEW R \in Nat, NEW A, NEW O, NEW N \in Nat, NEW A2, NEW O2, NEW N2 \in Nat,
           \A p \in A2 : p.revision \in Nat,
           Follows(R, A, O, N, A2, O2, N2)
    PROVE  /\ \A x : RecentVersion(x, N) => RecentVersion(x, N2)
           /\ \A v : Recent(v, N) => Recent(v, N2)
           /\ \A v, b : Retains(v, b, O) => Retains(v, b, O2)
           /\ \A v : \A r \in 0..R : Builds(v, r, A, O) => Builds(v, r, A2, O2)
           /\ \A v : \A r \in 0..R : Fine(v, r, A, O, N) => Fine(v, r, A2, O2, N2)
  <1>1. ASSUME NEW x, RecentVersion(x, N)
        PROVE  RecentVersion(x, N2)
    BY <1>1, BoundsAssumption DEF RecentVersion, Follows
  <1>2. ASSUME NEW v, Recent(v, N)
        PROVE  Recent(v, N2)
    BY <1>1, <1>2 DEF Recent
  <1>3. ASSUME NEW v, NEW b, Retains(v, b, O)
        PROVE  Retains(v, b, O2)
    BY <1>3 DEF Retains, Follows
  <1>4. ASSUME NEW v, NEW r \in 0..R, Builds(v, r, A, O)
        PROVE  Builds(v, r, A2, O2)
    BY <1>3, <1>4 DEF Builds, Follows
  <1>5. QED
    BY <1>1, <1>2, <1>3, <1>4 DEF Fine

LEMMA FineDeviceGrows ==
    ASSUME NEW R \in Nat, NEW A, NEW O, NEW N \in Nat, NEW A2, NEW O2, NEW N2 \in Nat,
           \A p \in A2 : p.revision \in Nat,
           Follows(R, A, O, N, A2, O2, N2),
           NEW v, NEW c, NEW k, NEW f,
           c # NoCache => c.revision \in 0..R,
           k # NoCache => k.revision \in 0..R,
           FineDevice(v, c, k, f, A, O, N)
    PROVE  FineDevice(v, c, k, f, A2, O2, N2)
  <1>1. /\ \A x : RecentVersion(x, N) => RecentVersion(x, N2)
        /\ \A w : Recent(w, N) => Recent(w, N2)
        /\ \A w : \A r \in 0..R : Builds(w, r, A, O) => Builds(w, r, A2, O2)
        /\ \A w : \A r \in 0..R : Fine(w, r, A, O, N) => Fine(w, r, A2, O2, N2)
    BY FineGrows
  <1>2. FineCache(c, A2, O2, N2) /\ FineCache(k, A2, O2, N2)
    BY <1>1 DEF FineDevice, FineCache
  <1>3. v # NoVault => Recent(v, N2) /\ (c # NoCache => Builds(v, c.revision, A2, O2))
    BY <1>1 DEF FineDevice
  <1>4. \A x \in f : RecentVersion(x.local, N2) /\ RecentVersion(x.remote, N2)
    BY <1>1 DEF FineDevice
  <1>5. QED
    BY <1>2, <1>3, <1>4 DEF FineDevice

LEMMA FineTaskGrows ==
    ASSUME NEW R \in Nat, NEW A, NEW O, NEW N \in Nat, NEW A2, NEW O2, NEW N2 \in Nat,
           \A p \in A2 : p.revision \in Nat,
           Follows(R, A, O, N, A2, O2, N2),
           NEW t, NEW c,
           t.revision \in 0..R,
           t.held # NoCache => t.held.revision \in 0..R,
           c # NoCache => c.revision \in 0..R,
           FineTask(t, c, A, O, N)
    PROVE  FineTask(t, c, A2, O2, N2)
  <1>1. /\ \A w : \A r \in 0..R : Builds(w, r, A, O) => Builds(w, r, A2, O2)
        /\ \A w : \A r \in 0..R : Fine(w, r, A, O, N) => Fine(w, r, A2, O2, N2)
    BY FineGrows
  <1>2. FineCache(t.held, A2, O2, N2)
    BY <1>1 DEF FineTask, FineCache
  <1>3. t.pc \in {"put", "mergeGet"} =>
           /\ Fine(t.vault, t.revision, A2, O2, N2)
           /\ c # NoCache => Builds(t.vault, c.revision, A2, O2)
    BY <1>1 DEF FineTask
  <1>4. QED
    BY <1>2, <1>3 DEF FineTask

\* The revisions a device knows exist.
LEMMA RevisionsExist ==
    ASSUME IInv
    PROVE  /\ row.revision \in Nat /\ \A p \in accepted : p.revision \in Nat
           /\ \A d \in Devices : /\ cache[d] # NoCache => cache[d].revision \in 0..row.revision
                                 /\ disk[d] # NoCache => disk[d].revision \in 0..row.revision
           /\ \A d \in Devices, s \in Slots :
                 /\ task[d][s].revision \in 0..row.revision
                 /\ task[d][s].held # NoCache => task[d][s].held.revision \in 0..row.revision
  <1>1. TypeOK
    BY DEF IInv
  <1>2. row.revision \in Nat /\ \A p \in accepted : p.revision \in Nat
    BY <1>1 DEF TypeOK
  <1>3. ASSUME NEW c \in Cache \cup {NoCache}, GoodCache(c, row.revision, accepted), c # NoCache
        PROVE  c.revision \in 0..row.revision
    BY <1>2, <1>3 DEF GoodCache, Cache
  <1>4. ASSUME NEW d \in Devices
        PROVE  /\ cache[d] # NoCache => cache[d].revision \in 0..row.revision
               /\ disk[d] # NoCache => disk[d].revision \in 0..row.revision
    BY <1>1, <1>3 DEF IInv, TypeOK
  <1>5. ASSUME NEW d \in Devices, NEW s \in Slots
        PROVE  /\ task[d][s].revision \in 0..row.revision
               /\ task[d][s].held # NoCache => task[d][s].held.revision \in 0..row.revision
    <2>1. task[d][s] \in Task /\ GoodTask(task[d][s], row.revision, accepted)
      BY <1>1 DEF IInv, TypeOK
    <2>2. QED
      BY <1>2, <1>3, <2>1 DEF GoodTask, Task
  <1>6. QED
    BY <1>2, <1>4, <1>5

\* What d shows, keeps and asks is all that changes of what the devices hold.
OnlyAt(d) == \A e \in Devices \ {d} : /\ vault'[e] = vault[e] /\ cache'[e] = cache[e]
                                      /\ disk'[e] = disk[e] /\ conflicts'[e] = conflicts[e]

\* A step of a device's only call, on a server that does not move, need only be
\* examined on that device.
LEMMA FineStep ==
    ASSUME IInv, IInv', EInv, NEW d \in Devices, NEW s \in Slots, OnlyCall(d, s), NEW t,
           SetTask(d, s, t), OnlyAt(d), UNCHANGED <<row, accepted>>,
           overridden \subseteq overridden', edits <= edits', edits' <= MaxEdits,
           \A p \in late' \ late :
               FineLate(p, row.revision, accepted, overridden, edits),
           FineDevice(vault'[d], cache'[d], disk'[d], conflicts'[d],
                      accepted, overridden', edits'),
           FineTask(t, cache'[d], accepted, overridden', edits')
    PROVE  EInv'
  <1> DEFINE R == row.revision
             A == accepted
             O == overridden
             N == edits
             O2 == overridden'
             N2 == edits'
  <1>1. /\ R \in Nat /\ N \in Nat /\ N2 \in Nat /\ \A p \in A : p.revision \in Nat
        /\ Follows(R, A, O, N, A, O2, N2)
    BY RevisionsExist DEF Follows, IInv, TypeOK
  <1>2. FineHistory(A, O2, N2)
    BY <1>1, FineGrows DEF EInv, FineHistory
  <1>3. ASSUME NEW p \in late'
        PROVE  FineLate(p, R, A, O2, N2)
    <2>1. FineLate(p, R, A, O, N) /\ p.revision \in Nat
      BY <1>3 DEF EInv, IInv, TypeOK
    <2> HIDE DEF R, A, O, N, O2, N2
    <2>2. \A w : \A r \in 0..R : Fine(w, r, A, O, N) => Fine(w, r, A, O2, N2)
      BY <1>1, FineGrows
    <2>3. QED
      BY <1>1, <2>1, <2>2 DEF FineLate
  <1>4. ASSUME NEW e \in Devices
        PROVE  FineDevice(vault'[e], cache'[e], disk'[e], conflicts'[e], A, O2, N2)
    <2>1. CASE e = d
      BY <2>1
    <2>2. CASE e # d
      <3>1. FineDevice(vault[e], cache[e], disk[e], conflicts[e], A, O, N)
        BY DEF EInv
      <3>2. /\ cache[e] # NoCache => cache[e].revision \in 0..R
            /\ disk[e] # NoCache => disk[e].revision \in 0..R
        BY RevisionsExist
      <3> HIDE DEF R, A, O, N, O2, N2
      <3>3. FineDevice(vault[e], cache[e], disk[e], conflicts[e], A, O2, N2)
        BY <1>1, <3>1, <3>2, FineDeviceGrows
      <3>4. QED
        BY <2>2, <3>3 DEF OnlyAt
    <2>3. QED
      BY <2>1, <2>2
  <1>5. ASSUME NEW e \in Devices, NEW r \in Slots
        PROVE  FineTask(task'[e][r], cache'[e], A, O2, N2)
    <2>1. CASE e = d
      <3>1. CASE r = s
        <4>1. task'[e][r] = t
          BY <2>1, <3>1 DEF SetTask, IInv, TypeOK
        <4>2. QED
          BY <2>1, <4>1
      <3>2. CASE r # s
        <4>1. task'[e][r] = task[e][r] /\ task[e][r].pc = "idle"
          BY <2>1, <3>2 DEF SetTask, IInv, TypeOK, OnlyCall
        <4>2. FineTask(task[e][r], NoCache, A, O, N)
          BY <4>1 DEF EInv, FineTask
        <4>3. /\ task[e][r].revision \in 0..R
              /\ task[e][r].held # NoCache => task[e][r].held.revision \in 0..R
          BY RevisionsExist
        <4> HIDE DEF R, A, O, N, O2, N2
        <4>4. FineTask(task[e][r], NoCache, A, O2, N2)
          BY <1>1, <4>2, <4>3, FineTaskGrows
        <4>5. QED
          BY <4>1, <4>4 DEF FineTask
      <3>3. QED
        BY <3>1, <3>2
    <2>2. CASE e # d
      <3>1. FineTask(task[e][r], cache[e], A, O, N)
        BY DEF EInv
      <3>2. /\ cache[e] # NoCache => cache[e].revision \in 0..R
            /\ task[e][r].revision \in 0..R
            /\ task[e][r].held # NoCache => task[e][r].held.revision \in 0..R
        BY RevisionsExist
      <3>3. task'[e][r] = task[e][r] /\ cache'[e] = cache[e]
        BY <2>2 DEF SetTask, IInv, TypeOK, OnlyAt
      <3> HIDE DEF R, A, O, N, O2, N2
      <3>4. FineTask(task[e][r], cache[e], A, O2, N2)
        BY <1>1, <3>1, <3>2, FineTaskGrows
      <3>5. QED
        BY <3>3, <3>4
    <2>3. QED
      BY <2>1, <2>2
  <1>6. QED
    BY <1>2, <1>3, <1>4, <1>5 DEF EInv

\* What a device holds suits it when identifiers are overridden and edits made.
LEMMA DeviceKept ==
    ASSUME IInv, IInv', EInv, NEW d \in Devices,
           overridden \subseteq overridden', edits <= edits'
    PROVE  FineDevice(vault[d], cache[d], disk[d], conflicts[d],
                      accepted, overridden', edits')
  <1> DEFINE R == row.revision
             A == accepted
             O == overridden
             N == edits
             O2 == overridden'
             N2 == edits'
  <1>1. /\ R \in Nat /\ N \in Nat /\ N2 \in Nat /\ \A p \in A : p.revision \in Nat
        /\ Follows(R, A, O, N, A, O2, N2)
    BY RevisionsExist DEF Follows, IInv, TypeOK
  <1>2. FineDevice(vault[d], cache[d], disk[d], conflicts[d], A, O, N)
    BY DEF EInv
  <1>3. /\ cache[d] # NoCache => cache[d].revision \in 0..R
        /\ disk[d] # NoCache => disk[d].revision \in 0..R
    BY RevisionsExist
  <1> HIDE DEF R, A, O, N, O2, N2
  <1>4. FineDevice(vault[d], cache[d], disk[d], conflicts[d], A, O2, N2)
    BY <1>1, <1>2, <1>3, FineDeviceGrows
  <1>5. QED
    BY <1>4 DEF A, O2, N2

\* A call ends.
LEMMA FinishFine ==
    ASSUME IInv, IInv', EInv, NEW d \in Devices, NEW s \in Slots, OnlyCall(d, s),
           Finish(d, s), OnlyAt(d), UNCHANGED <<row, accepted, late, ghosts>>,
           FineDevice(vault'[d], cache'[d], disk'[d], conflicts'[d],
                      accepted, overridden, edits)
    PROVE  EInv'
  <1>1. SetTask(d, s, Idle)
    BY DEF Finish
  <1>2. Idle.pc = "idle" /\ Idle.held = NoCache
    BY FinishGood DEF Idle
  <1>3. FineTask(Idle, cache'[d], accepted, overridden', edits')
    BY <1>2 DEF FineTask, FineCache
  <1>4. overridden' = overridden /\ edits' = edits /\ edits \in Nat /\ edits <= MaxEdits
    BY DEF ghosts, IInv, TypeOK, EInv
  <1>5. QED
    BY <1>1, <1>3, <1>4, FineStep

\* A push begins with a vault made from what the cache holds.
LEMMA PushFine ==
    ASSUME IInv, IInv', EInv, NEW d \in Devices, NEW s \in Slots, OnlyCall(d, s),
           NEW op, NEW v, SetTask(d, s, Push(d, op, v)), vault'[d] = v, OnlyAt(d),
           UNCHANGED <<server, cache, disk, conflicts>>, cache[d] # NoCache,
           overridden \subseteq overridden', edits <= edits', edits' <= MaxEdits,
           Fine(v, cache[d].revision, accepted, overridden', edits')
    PROVE  EInv'
  <1> DEFINE t == Push(d, op, v)
  <1>1. /\ t.pc = "put" /\ t.vault = v /\ t.revision = cache[d].revision
        /\ t.held = NoCache
    BY FinishGood DEF Push, Idle, Task
  <1>2. SetTask(d, s, t)
    OBVIOUS
  <1> HIDE DEF t
  <1>3. FineTask(t, cache'[d], accepted, overridden', edits')
    BY <1>1 DEF FineTask, FineCache, Fine
  <1>4. FineDevice(vault'[d], cache'[d], disk'[d], conflicts'[d],
                   accepted, overridden', edits')
    BY DeviceKept DEF FineDevice, Fine
  <1>5. UNCHANGED <<row, accepted, late>>
    BY DEF server
  <1>6. QED
    BY <1>2, <1>3, <1>4, <1>5, FineStep

\* An edited vault is made from all the vault was made from: the edit is newer than
\* every version accepted before.
LEMMA EditedFine ==
    ASSUME IInv, EInv, ClocksAgree, edits < MaxEdits, NEW v \in Vault, NEW r,
           NEW put \in SUBSET Ids, NEW del \in SUBSET Ids,
           Fine(v, r, accepted, overridden, edits)
    PROVE  Fine(Edited(v, put, del), r, accepted, overridden \cup del, edits + 1)
  <1> DEFINE w == Edited(v, put, del)
             x == [content |-> edits + 1, at |-> Clock[edits + 1]]
  <1>1. edits \in Nat /\ MaxEdits \in Nat /\ edits + 1 \in 1..MaxEdits
    BY BoundsAssumption DEF IInv, TypeOK
  <1>2. x \in Version /\ x # Absent /\ x.at = Clock[edits + 1] /\ x.at \in Nat
    BY <1>1, BoundsAssumption, AbsentAssumption DEF Version
  <1>3. \A i \in Ids : w[i] = IF i \in put THEN x ELSE IF i \in del THEN Absent ELSE v[i]
    BY DEF Edited
  <1> HIDE DEF w, x
  <1>4. ASSUME NEW i \in Ids, Present(w, i)
        PROVE  RecentVersion(w[i], edits + 1)
    <2>1. CASE i \in put
      BY <1>1, <1>2, <1>3, <2>1 DEF ClocksAgree, RecentVersion
    <2>2. CASE i \notin put
      BY <1>1, <1>3, <1>4, <2>2 DEF Fine, Recent, RecentVersion, Present
    <2>3. QED
      BY <2>1, <2>2
  <1>5. ASSUME NEW p \in accepted, p.revision <= r, NEW i \in Ids \ (overridden \cup del),
               Present(p.blob, i)
        PROVE  Present(w, i) /\ ~Older(w[i], p.blob[i])
    <2>1. Present(v, i) /\ ~Older(v[i], p.blob[i])
      BY <1>5 DEF Fine, Builds, Retains
    <2>2. p.blob[i].at <= Clock[edits + 1] /\ p.blob[i].at \in Nat
      <3>1. RecentVersion(p.blob[i], edits) /\ p.blob \in Vault
        BY <1>5 DEF EInv, FineHistory, Recent, IInv, TypeOK
      <3>2. QED
        BY <1>1, <1>5, <3>1, VersionAt DEF RecentVersion, Present
    <2>3. QED
      BY <1>2, <1>3, <2>1, <2>2 DEF Present, Older
  <1>6. Builds(w, r, accepted, overridden \cup del)
    BY <1>5 DEF Builds, Retains
  <1>7. QED
    BY <1>4, <1>6 DEF Fine, Recent, w

LEMMA SaveFine ==
    ASSUME ClocksAgree, IInv, IInv', EInv,
           NEW d \in Devices, NEW s \in Slots, OnlyCall(d, s),
           Save(d, s) \/ (SaveDraft(d, s) /\ draft[d] = vault[d])
    PROVE  EInv'
  <1>1. PICK op, put, del :
            /\ put \in SUBSET Ids /\ del \in SUBSET Ids
            /\ vault' = [vault EXCEPT ![d] = Edited(vault[d], put, del)]
            /\ SetTask(d, s, Push(d, op, Edited(vault[d], put, del)))
            /\ CountEdit(put, del)
    BY DEF Save, SaveDraft, Ids
  <1> DEFINE v == Edited(vault[d], put, del)
  <1>2. /\ edits < MaxEdits /\ cache[d] # NoCache /\ vault[d] \in Vault /\ vault[d] # NoVault
        /\ vault \in [Devices -> Vault \cup {NoVault}] /\ edits \in Nat
        /\ UNCHANGED <<server, cache, disk, conflicts>>
    BY NullAssumption DEF Save, SaveDraft, HasSecrets, UnlockedHasVault, IInv, TypeOK
  <1>3. Fine(vault[d], cache[d].revision, accepted, overridden, edits)
    BY <1>2 DEF EInv, FineDevice, Fine
  <1>4. Fine(v, cache[d].revision, accepted, overridden \cup del, edits + 1)
    BY <1>1, <1>2, <1>3, EditedFine
  <1>5. SetTask(d, s, Push(d, op, v)) /\ vault' = [vault EXCEPT ![d] = v]
    BY <1>1
  <1> HIDE DEF v
  <1>6. vault'[d] = v /\ OnlyAt(d)
    BY <1>2, <1>5 DEF OnlyAt
  <1>7. overridden' = overridden \cup del /\ edits' = edits + 1
    BY <1>1 DEF CountEdit
  <1>8. MaxEdits \in Nat
    BY BoundsAssumption
  <1>9. edits <= edits' /\ edits' <= MaxEdits /\ overridden \subseteq overridden'
    BY <1>2, <1>7, <1>8
  <1>10. Fine(v, cache[d].revision, accepted, overridden', edits')
    BY <1>4, <1>7
  <1>11. QED
    BY <1>2, <1>5, <1>6, <1>9, <1>10, PushFine

\* A decided vault is made from all the vault was made from, but for what was decided.
LEMMA ResolveFine ==
    ASSUME IInv, IInv', EInv,
           NEW d \in Devices, NEW s \in Slots, OnlyCall(d, s), ApplyConflictResolutions(d, s)
    PROVE  EInv'
  <1>1. PICK choice \in [conflicts[d] -> Choices] :
            /\ vault' = [vault EXCEPT ![d] = ResolveConflicts(vault[d], choice)]
            /\ SetTask(d, s, Push(d, "resolve", ResolveConflicts(vault[d], choice)))
            /\ overridden' = overridden \cup Dropped(choice) \cup {i \in Ids : Chosen(choice, i) # {}}
    BY DEF ApplyConflictResolutions
  <1> DEFINE v == vault[d]
             w == ResolveConflicts(v, choice)
  <1>2. /\ cache[d] # NoCache /\ v \in Vault /\ v # NoVault
        /\ vault \in [Devices -> Vault \cup {NoVault}] /\ edits \in Nat /\ edits <= MaxEdits
        /\ UNCHANGED <<server, cache, disk, conflicts, edits>>
    BY NullAssumption DEF ApplyConflictResolutions, HasSecrets, UnlockedHasVault, IInv, TypeOK, EInv
  <1>3. FineDevice(v, cache[d], disk[d], conflicts[d], accepted, overridden, edits)
    BY DEF EInv
  <1>4. \A i \in Ids : w[i] = IF ~Present(v, i) \/ i \in Dropped(choice) THEN Absent
                              ELSE IF Chosen(choice, i) = {} THEN v[i]
                              ELSE CHOOSE x \in Chosen(choice, i) : TRUE
    BY DEF ResolveConflicts
  <1>5. \A i \in Ids : \A x \in Chosen(choice, i) : RecentVersion(x, edits)
    BY <1>3 DEF Chosen, FineDevice
  <1>6. SetTask(d, s, Push(d, "resolve", w)) /\ vault' = [vault EXCEPT ![d] = w]
    BY <1>1
  <1> HIDE DEF v, w
  <1>7. Recent(w, edits)
    <2> SUFFICES ASSUME NEW i \in Ids, Present(w, i)
                 PROVE  RecentVersion(w[i], edits)
      BY DEF Recent
    <2>1. CASE Chosen(choice, i) = {}
      BY <1>2, <1>3, <1>4, <2>1 DEF Present, FineDevice, Recent
    <2>2. CASE Chosen(choice, i) # {}
      <3>1. (CHOOSE x \in Chosen(choice, i) : TRUE) \in Chosen(choice, i)
        BY <2>2
      <3>2. w[i] \in Chosen(choice, i)
        BY <1>4, <2>2, <3>1 DEF Present
      <3>3. QED
        BY <1>5, <3>2
    <2>3. QED
      BY <2>1, <2>2
  <1>8. Builds(w, cache[d].revision, accepted, overridden')
    <2>1. Builds(v, cache[d].revision, accepted, overridden)
      BY <1>2, <1>3 DEF FineDevice
    <2>2. \A i \in Ids \ overridden' : Present(v, i) => w[i] = v[i]
      BY <1>1, <1>4
    <2>3. QED
      BY <1>1, <2>1, <2>2 DEF Builds, Retains, Present
  <1>9. vault'[d] = w /\ OnlyAt(d)
    BY <1>2, <1>6 DEF OnlyAt
  <1>10. overridden \subseteq overridden' /\ edits <= edits' /\ edits' <= MaxEdits
    BY <1>1, <1>2
  <1>11. Fine(w, cache[d].revision, accepted, overridden', edits')
    BY <1>2, <1>7, <1>8 DEF Fine
  <1>12. QED
    BY <1>2, <1>6, <1>9, <1>10, <1>11, PushFine

\* A step that changes nothing but what a call is doing.
LEMMA CallFine ==
    ASSUME IInv, IInv', EInv, NEW d \in Devices, NEW s \in Slots, OnlyCall(d, s), NEW t,
           SetTask(d, s, t), UNCHANGED <<server, device, ghosts>>,
           FineTask(t, cache[d], accepted, overridden, edits)
    PROVE  EInv'
  <1>1. /\ UNCHANGED <<row, accepted, late, vault, cache, disk, conflicts, overridden, edits>>
        /\ OnlyAt(d) /\ edits \in Nat /\ edits <= MaxEdits
    BY DEF server, device, ghosts, OnlyAt, IInv, TypeOK, EInv
  <1>2. FineDevice(vault'[d], cache'[d], disk'[d], conflicts'[d],
                   accepted, overridden', edits')
    BY <1>1 DEF EInv
  <1>3. QED
    BY <1>1, <1>2, FineStep

\* A call that pushes nothing and holds a cache of its device.
LEMMA HoldFine ==
    ASSUME IInv, IInv', EInv, NEW d \in Devices, NEW s \in Slots, OnlyCall(d, s), NEW t,
           SetTask(d, s, t), UNCHANGED <<server, device, ghosts>>,
           t.pc \notin {"put", "mergeGet"}, t.held \in {NoCache, cache[d], task[d][s].held}
    PROVE  EInv'
  <1>1. /\ FineCache(cache[d], accepted, overridden, edits)
        /\ FineCache(task[d][s].held, accepted, overridden, edits)
    BY DEF EInv, FineDevice, FineTask
  <1>2. FineCache(t.held, accepted, overridden, edits)
    BY <1>1 DEF FineCache
  <1>3. FineTask(t, cache[d], accepted, overridden, edits)
    BY <1>2 DEF FineTask
  <1>4. QED
    BY <1>3, CallFine

\* What is shown of what is pending is pushed, or the call ends.
LEMMA PushPendingFine ==
    ASSUME IInv, IInv', EInv, NEW d \in Devices, NEW s \in Slots, OnlyCall(d, s),
           NEW op, HasPending(d), SetTask(d, s, Push(d, op, vault[d])),
           UNCHANGED <<server, device, ghosts>>
    PROVE  EInv'
  <1>1. /\ cache[d] # NoCache /\ vault[d] # NoVault /\ edits \in Nat /\ edits <= MaxEdits
        /\ UNCHANGED <<vault, cache, disk, conflicts, overridden, edits>> /\ OnlyAt(d)
    BY DEF HasPending, HasSecrets, device, ghosts, OnlyAt, IInv, TypeOK, EInv
  <1>2. Fine(vault[d], cache[d].revision, accepted, overridden, edits)
    BY <1>1 DEF EInv, FineDevice, Fine
  <1>3. QED
    BY <1>1, <1>2, PushFine

\* The other calls that begin.
LEMMA OthersFine ==
    ASSUME IInv, IInv', EInv, NEW d \in Devices, NEW s \in Slots, OnlyCall(d, s),
           \/ SyncPendingChanges(d, s) \/ SyncAll(d, s)
           \/ (\E op \in {"unlock", "bio", "password"} : Capture(d, s, op))
           \/ DisableBiometrics(d, s) \/ Logout(d, s) \/ Login(d, s)
    PROVE  EInv'
  <1>1. /\ Idle \in Task /\ Idle.held = NoCache
        /\ UNCHANGED <<server, device, ghosts>>
    BY FinishGood DEF SyncPendingChanges, SyncAll, Capture, DisableBiometrics, Logout, Login, Idle
  <1>2. CASE SyncPendingChanges(d, s)
    BY <1>2, PushPendingFine DEF SyncPendingChanges
  <1>3. CASE SyncAll(d, s)
    <2> DEFINE t == [Idle EXCEPT !.op = "syncAll", !.pc = "refreshGet",
                                 !.revision = cache[d].revision]
    <2>1. SetTask(d, s, t)
      BY <1>3 DEF SyncAll
    <2>2. t.pc = "refreshGet" /\ t.held = NoCache
      BY <1>1 DEF Task
    <2> HIDE DEF t
    <2>3. QED
      BY <1>1, <2>1, <2>2, HoldFine
  <1>4. ASSUME NEW op \in {"unlock", "bio", "password"}, Capture(d, s, op)
        PROVE  EInv'
    <2> DEFINE t == [Idle EXCEPT !.op = op, !.pc = "derive", !.held = cache[d]]
    <2>1. SetTask(d, s, t)
      BY <1>4 DEF Capture
    <2>2. t.pc = "derive" /\ t.held = cache[d]
      BY <1>1 DEF Task
    <2> HIDE DEF t
    <2>3. QED
      BY <1>1, <2>1, <2>2, HoldFine
  <1>5. CASE DisableBiometrics(d, s)
    <2> DEFINE t == [Idle EXCEPT !.op = "bio", !.pc = "store", !.held = cache[d],
                                 !.after = "done"]
    <2>1. SetTask(d, s, t)
      BY <1>5 DEF DisableBiometrics
    <2>2. t.pc = "store" /\ t.held = cache[d]
      BY <1>1 DEF Task
    <2> HIDE DEF t
    <2>3. QED
      BY <1>1, <2>1, <2>2, HoldFine
  <1>6. CASE Logout(d, s)
    <2> DEFINE t == [Idle EXCEPT !.op = "logout", !.pc = "wipe"]
    <2>1. SetTask(d, s, t)
      BY <1>6 DEF Logout
    <2>2. t.pc = "wipe" /\ t.held = NoCache
      BY <1>1 DEF Task
    <2> HIDE DEF t
    <2>3. QED
      BY <1>1, <2>1, <2>2, HoldFine
  <1>7. CASE Login(d, s)
    <2> DEFINE t == [Idle EXCEPT !.op = "login", !.pc = "loginGet"]
    <2>1. SetTask(d, s, t)
      BY <1>7 DEF Login
    <2>2. t.pc = "loginGet" /\ t.held = NoCache
      BY <1>1 DEF Task
    <2> HIDE DEF t
    <2>3. QED
      BY <1>1, <2>1, <2>2, HoldFine
  <1>8. QED
    BY <1>2, <1>3, <1>4, <1>5, <1>6, <1>7

\* A vault made from the current revision may become its successor.
LEMMA AcceptFine ==
    ASSUME IInv, IInv', EInv, NEW v \in Vault, Accept(v),
           Fine(v, row.revision, accepted, overridden, edits),
           UNCHANGED <<device, ghosts>>, late' \subseteq late,
           \A e \in Devices, r \in Slots :
               /\ task'[e][r].pc = task[e][r].pc /\ task'[e][r].vault = task[e][r].vault
               /\ task'[e][r].revision = task[e][r].revision
               /\ task'[e][r].held = task[e][r].held
    PROVE  EInv'
  <1> DEFINE R == row.revision
             new == [revision |-> R + 1, blob |-> v]
             A == accepted
             O == overridden
             N == edits
             R2 == row'.revision
             A2 == accepted'
  <1>1. /\ R \in Nat /\ N \in Nat /\ R2 = R + 1 /\ A2 = A \cup {new}
        /\ \A p \in A2 : p.revision \in Nat /\ p.blob \in Vault
        /\ new.revision = R + 1 /\ new.blob = v
        /\ UNCHANGED <<vault, cache, disk, conflicts, overridden, edits>>
    BY DEF Accept, IInv, TypeOK, device, ghosts
  <1>2. Follows(R, A, O, N, A2, O, N)
    BY <1>1 DEF Follows
  <1>3. \A p \in A : p.revision <= R
    BY DEF IInv, GoodHistory
  <1>4. FineHistory(A2, O, N)
    <2>1. \A p \in A2 : Recent(p.blob, N)
      BY <1>1 DEF EInv, FineHistory, Fine
    <2>2. Retains(v, v, O)
      BY VersionAt DEF Retains, Older, Present
    <2>3. \A p \in A : Retains(v, p.blob, O)
      BY <1>3 DEF Fine, Builds
    <2>4. ASSUME NEW p \in A2, NEW q \in A2, p.revision <= q.revision
          PROVE  Retains(q.blob, p.blob, O)
      <3>1. CASE q = new
        BY <1>1, <2>2, <2>3, <3>1
      <3>2. CASE q # new
        <4>1. q \in A /\ p \in A
          BY <1>1, <1>3, <2>4, <3>2
        <4>2. QED
          BY <2>4, <4>1 DEF EInv, FineHistory
      <3>3. QED
        BY <3>1, <3>2
    <2>5. QED
      BY <2>1, <2>4 DEF FineHistory
  <1>5. ASSUME NEW p \in late'
        PROVE  FineLate(p, R2, A2, O, N)
    <2>1. FineLate(p, R, A, O, N) /\ p.revision \in Nat
      BY DEF EInv, IInv, TypeOK
    <2>2. R \in Nat /\ R <= R2 /\ p.revision <= R2
      BY <1>1, <2>1 DEF FineLate
    <2> HIDE DEF A, O, N, A2, R, R2, new
    <2>3. \A w : \A r \in 0..R : Fine(w, r, A, O, N) => Fine(w, r, A2, O, N)
      BY <1>1, <1>2, FineGrows
    <2>4. QED
      BY <2>1, <2>2, <2>3 DEF FineLate
  <1>6. ASSUME NEW e \in Devices
        PROVE  FineDevice(vault[e], cache[e], disk[e], conflicts[e], A2, O, N)
    <2>1. FineDevice(vault[e], cache[e], disk[e], conflicts[e], A, O, N)
      BY DEF EInv
    <2>2. /\ cache[e] # NoCache => cache[e].revision \in 0..R
          /\ disk[e] # NoCache => disk[e].revision \in 0..R
      BY RevisionsExist
    <2> HIDE DEF A, O, N, A2, R, R2, new
    <2>3. QED
      BY <1>1, <1>2, <2>1, <2>2, FineDeviceGrows
  <1>7. ASSUME NEW e \in Devices, NEW r \in Slots
        PROVE  FineTask(task'[e][r], cache[e], A2, O, N)
    <2>1. FineTask(task[e][r], cache[e], A, O, N)
      BY DEF EInv
    <2>2. /\ cache[e] # NoCache => cache[e].revision \in 0..R
          /\ task[e][r].revision \in 0..R
          /\ task[e][r].held # NoCache => task[e][r].held.revision \in 0..R
      BY RevisionsExist
    <2> HIDE DEF A, O, N, A2, R, R2, new
    <2>3. FineTask(task[e][r], cache[e], A2, O, N)
      BY <1>1, <1>2, <2>1, <2>2, FineTaskGrows
    <2>4. QED
      BY <2>3 DEF FineTask
  <1>8. EInv!1'
    BY <1>1 DEF EInv
  <1>9. QED
    BY <1>1, <1>4, <1>5, <1>6, <1>7, <1>8 DEF EInv

\* The server serves a call, and the writes whose sender gave them up.
LEMMA ServeFine ==
    ASSUME IInv, IInv', EInv, NEW d \in Devices, NEW s \in Slots, OnlyCall(d, s),
           Serve(d, s) \/ PutConflict(d, s)
    PROVE  EInv'
  <1> DEFINE t == task[d][s]
  <1>1. /\ t \in Task /\ FineTask(t, cache[d], accepted, overridden, edits)
        /\ task \in [Devices -> [Slots -> Task]] /\ GoodTask(t, row.revision, accepted)
    BY DEF IInv, TypeOK, EInv
  <1>2. CASE ServePut(d, s) /\ Accepts(t.revision) /\ Accept(t.vault)
    <2>1. PICK a : SetTask(d, s, [t EXCEPT !.answer = a])
      BY <1>2 DEF ServePut, Accepts
    <2>2. /\ t.vault \in Vault /\ UNCHANGED <<late, device, ghosts>>
          /\ Fine(t.vault, row.revision, accepted, overridden, edits)
      BY <1>1, <1>2 DEF ServePut, GoodTask, Accepts, FineTask
    <2>3. \A e \in Devices, r \in Slots :
             /\ task'[e][r].pc = task[e][r].pc /\ task'[e][r].vault = task[e][r].vault
             /\ task'[e][r].revision = task[e][r].revision
             /\ task'[e][r].held = task[e][r].held
      BY <1>1, <2>1 DEF SetTask, Task
    <2>4. QED
      BY <1>2, <2>2, <2>3, AcceptFine
  <1>3. CASE UNCHANGED <<server, device, ghosts>>
             /\ \E a : \/ SetTask(d, s, [t EXCEPT !.answer = a])
                       \/ t.pc = "put" /\ SetTask(d, s, [t EXCEPT !.pc = "mergeGet", !.answer = a])
    <2>1. PICK a : \/ SetTask(d, s, [t EXCEPT !.answer = a])
                   \/ t.pc = "put" /\ SetTask(d, s, [t EXCEPT !.pc = "mergeGet", !.answer = a])
      BY <1>3
    <2> HIDE DEF t
    <2>2. CASE SetTask(d, s, [t EXCEPT !.answer = a])
      <3>1. FineTask([t EXCEPT !.answer = a], cache[d], accepted, overridden, edits)
        BY <1>1 DEF FineTask, Task
      <3>2. QED
        BY <1>3, <2>2, <3>1, CallFine
    <2>3. CASE t.pc = "put" /\ SetTask(d, s, [t EXCEPT !.pc = "mergeGet", !.answer = a])
      <3>1. FineTask([t EXCEPT !.pc = "mergeGet", !.answer = a], cache[d],
                     accepted, overridden, edits)
        BY <1>1, <2>3 DEF FineTask, Task
      <3>2. QED
        BY <1>3, <2>3, <3>1, CallFine
    <2>4. QED
      BY <2>1, <2>2, <2>3
  <1>4. QED
    BY <1>2, <1>3 DEF Serve, ServePut, ServeGet, ServeError, PutConflict, server

LEMMA ServeLateFine ==
    ASSUME IInv, IInv', EInv, ServeLate
    PROVE  EInv'
  <1>1. PICK p \in late :
            /\ late' = late \ {p}
            /\ IF Accepts(p.revision) THEN Accept(p.vault) ELSE UNCHANGED <<row, accepted>>
            /\ UNCHANGED <<device, task, ghosts>>
    BY DEF ServeLate
  <1>2. p.vault \in Vault /\ Fine(p.vault, p.revision, accepted, overridden, edits)
    BY DEF IInv, TypeOK, EInv, FineLate
  <1>3. CASE Accepts(p.revision) /\ Accept(p.vault)
    BY <1>1, <1>2, <1>3, AcceptFine DEF Accepts
  <1>4. CASE UNCHANGED <<row, accepted>>
    BY <1>1, <1>4 DEF EInv, device, ghosts
  <1>5. QED
    BY <1>1, <1>3, <1>4

\* What the server accepted was made from everything before it.
LEMMA AcceptedFine ==
    ASSUME EInv, NEW r, NEW b \in Vault, [revision |-> r, blob |-> b] \in accepted
    PROVE  Fine(b, r, accepted, overridden, edits)
  <1> DEFINE q == [revision |-> r, blob |-> b]
  <1>1. q \in accepted /\ q.revision = r /\ q.blob = b
    OBVIOUS
  <1> HIDE DEF q
  <1>2. QED
    BY <1>1 DEF EInv, FineHistory, Fine, Builds

\* A merge is made from what both its sides were made from.
LEMMA MergedFine ==
    ASSUME IInv, EInv, NEW l \in Vault, NEW b \in Vault, Recent(l, edits), Recent(b, edits)
    PROVE  /\ Recent(MergeVaults(l, b), edits)
           /\ \A r : \/ Builds(l, r, accepted, overridden)
                     \/ Builds(b, r, accepted, overridden)
                     => Builds(MergeVaults(l, b), r, accepted, overridden)
  <1> DEFINE m == MergeVaults(l, b)
  <1>1. m \in Vault /\ \A i \in Ids : m[i] = IF RemoteWins(l, b, i) THEN b[i] ELSE l[i]
    BY MergeIsVault, MergeAt
  <1>2. \A i \in Ids : /\ Present(l, i) => Present(m, i) /\ ~Older(m[i], l[i])
                       /\ Present(b, i) => Present(m, i) /\ ~Older(m[i], b[i])
    BY MergeKeepsBoth
  <1> HIDE DEF m
  <1>3. Recent(m, edits)
    BY <1>1 DEF Recent, Present, RemoteWins
  <1>4. ASSUME NEW w \in {l, b}, NEW r, Builds(w, r, accepted, overridden)
        PROVE  Builds(m, r, accepted, overridden)
    <2> SUFFICES ASSUME NEW p \in accepted, p.revision <= r,
                        NEW i \in Ids \ overridden, Present(p.blob, i)
                 PROVE  Present(m, i) /\ ~Older(m[i], p.blob[i])
      BY DEF Builds, Retains
    <2>1. Present(w, i) /\ ~Older(w[i], p.blob[i])
      BY <1>4 DEF Builds, Retains
    <2>2. Present(m, i) /\ ~Older(m[i], w[i])
      BY <1>2, <2>1
    <2>3. p.blob \in Vault /\ w \in Vault
      BY DEF IInv, TypeOK
    <2>4. p.blob[i].at \in Nat /\ w[i].at \in Nat /\ m[i].at \in Nat
      BY <1>1, <2>1, <2>2, <2>3, VersionAt DEF Present
    <2>5. QED
      BY <2>1, <2>2, <2>4 DEF Older, Present
  <1>5. QED
    BY <1>3, <1>4 DEF m

\* The versions a conflict keeps are those of the vaults it was found in.
LEMMA FoundRecent ==
    ASSUME NEW l \in Vault, NEW b \in Vault, NEW fp \in LocalFp(l), NEW N,
           Recent(l, N), Recent(b, N), NEW x \in FindConflicts(l, b, fp)
    PROVE  RecentVersion(x.local, N) /\ RecentVersion(x.remote, N)
  <1>1. ASSUME NEW i \in Entries
        PROVE  i \in Ids /\ (Present(b, i) => b[i] \in Version)
    BY VersionAt DEF Ids, Present
  <1>2. CASE x \in EditedEdited(l, b)
    BY <1>1, <1>2 DEF EditedEdited, Recent
  <1>3. CASE x \in Duplicates(l, b, fp)
    <2>1. PICK j \in Entries : /\ Present(b, j) /\ fp[b[j].content] # Absent
                               /\ x.local = l[fp[b[j].content]] /\ x.remote = b[j]
      BY <1>3 DEF Duplicates
    <2> DEFINE c == b[j].content
               same == {i \in Entries : Present(l, i) /\ l[i].content = c}
    <2>2. c \in Contents
      BY <1>1, <2>1 DEF Version
    <2>3. fp[c] \in same
      BY <2>1, <2>2 DEF LocalFp
    <2>4. QED
      BY <1>1, <2>1, <2>3 DEF Recent
  <1>4. QED
    BY <1>2, <1>3 DEF FindConflicts

\* A push that was accepted leaves the server's new revision in the cache.
LEMMA PutAcceptedFine ==
    ASSUME IInv, IInv', SInv, EInv,
           NEW d \in Devices, NEW s \in Slots, OnlyCall(d, s), PutAccepted(d, s)
    PROVE  EInv'
  <1> DEFINE t == task[d][s]
             c == Clean(t.vault, t.answer.revision)
             u == [t EXCEPT !.pc = "store", !.held = c, !.after = "done", !.answer = NoAnswer]
  <1>1. /\ t \in Task /\ t.pc = "put" /\ t.answer.type = "ok" /\ edits \in Nat
        /\ GoodTask(t, row.revision, accepted) /\ Coherent(vault[d], cache[d], t)
        /\ FineDevice(vault[d], cache[d], disk[d], conflicts[d], accepted, overridden, edits)
        /\ cache \in [Devices -> Cache \cup {NoCache}] /\ edits <= MaxEdits
        /\ UNCHANGED <<row, accepted, late, vault, disk, conflicts, overridden, edits>>
    BY DEF PutAccepted, IInv, TypeOK, SInv, EInv, server, ghosts
  <1>2. Fine(t.vault, t.answer.revision, accepted, overridden, edits)
    BY <1>1, AcceptedFine DEF GoodTask
  <1>3. CASE Finish(d, s) /\ UNCHANGED cache
    BY <1>1, <1>3, FinishFine DEF OnlyAt, PutAccepted
  <1>4. CASE cache' = [cache EXCEPT ![d] = c] /\ SetTask(d, s, u)
    <2>1. FineCache(c, accepted, overridden, edits) /\ c.revision = t.answer.revision
      BY <1>2 DEF FineCache, Clean
    <2> HIDE DEF c, t
    <2>2. cache'[d] = c /\ OnlyAt(d)
      BY <1>1, <1>4 DEF OnlyAt
    <2>3. u.pc = "store" /\ u.held = c
      BY <1>1 DEF Task
    <2>4. FineTask(u, cache'[d], accepted, overridden', edits')
      BY <1>1, <2>1, <2>3 DEF FineTask
    <2>5. FineDevice(vault'[d], cache'[d], disk'[d], conflicts'[d],
                     accepted, overridden', edits')
      BY <1>1, <1>2, <2>1, <2>2 DEF FineDevice, Coherent, Fine
    <2>6. QED
      BY <1>1, <1>4, <2>2, <2>4, <2>5, FineStep
  <1>5. QED
    BY <1>3, <1>4 DEF PutAccepted, Pushed

\* A merge after a 409 is made from the revision it will replace.
LEMMA MergeRemoteFine ==
    ASSUME IInv, IInv', EInv,
           NEW d \in Devices, NEW s \in Slots, OnlyCall(d, s), MergeRemote(d, s)
    PROVE  EInv'
  <1> DEFINE t == task[d][s]
             b == t.answer.blob
             m == MergeVaults(t.vault, b)
             r == t.answer.revision
             f == conflicts'[d]
  <1>1. /\ t \in Task /\ t.pc = "mergeGet" /\ t.answer.type = "vault" /\ edits \in Nat
        /\ GoodTask(t, row.revision, accepted)
        /\ FineDevice(vault[d], cache[d], disk[d], conflicts[d], accepted, overridden, edits)
        /\ FineTask(t, cache[d], accepted, overridden, edits)
        /\ vault \in [Devices -> Vault \cup {NoVault}] /\ edits <= MaxEdits
        /\ vault' = [vault EXCEPT ![d] = m]
        /\ UNCHANGED <<row, accepted, late, cache, disk, overridden, edits>>
        /\ UNCHANGED ghosts
    BY DEF MergeRemote, Show, IInv, TypeOK, EInv, server, ghosts
  <1>2. t.vault \in Vault /\ b \in Vault /\ [revision |-> r, blob |-> b] \in accepted
    BY <1>1 DEF GoodTask, IInv, TypeOK
  <1>3. /\ Fine(b, r, accepted, overridden, edits)
        /\ Recent(t.vault, edits)
        /\ cache[d] # NoCache => Builds(t.vault, cache[d].revision, accepted, overridden)
    BY <1>1, <1>2, AcceptedFine DEF FineTask, Fine
  <1>4. /\ Fine(m, r, accepted, overridden, edits)
        /\ cache[d] # NoCache => Builds(m, cache[d].revision, accepted, overridden)
    BY <1>2, <1>3, MergedFine DEF Fine
  <1>5. /\ \A x \in f : RecentVersion(x.local, edits) /\ RecentVersion(x.remote, edits)
        /\ \A e \in Devices \ {d} : conflicts'[e] = conflicts[e]
    <2>1. PICK fp \in LocalFp(t.vault) :
              LET found == FindConflicts(t.vault, b, fp)
              IN  conflicts' = IF found = {} THEN conflicts
                               ELSE [conflicts EXCEPT ![d] = found]
      BY DEF MergeRemote
    <2> DEFINE found == FindConflicts(t.vault, b, fp)
    <2>2. \A x \in found : RecentVersion(x.local, edits) /\ RecentVersion(x.remote, edits)
      BY <1>2, <1>3, FoundRecent DEF Fine
    <2> HIDE DEF found
    <2>3. conflicts' = IF found = {} THEN conflicts ELSE [conflicts EXCEPT ![d] = found]
      BY <2>1 DEF found
    <2>4. conflicts \in [Devices -> SUBSET Conflict]
      BY DEF IInv, TypeOK
    <2>5. QED
      BY <1>1, <2>2, <2>3, <2>4 DEF FineDevice
  <1>6. CASE Finish(d, s)
    <2> HIDE DEF m, f, t, b, r
    <2>1. vault'[d] = m /\ OnlyAt(d)
      BY <1>1, <1>5 DEF OnlyAt
    <2>2. FineDevice(vault'[d], cache'[d], disk'[d], conflicts'[d],
                     accepted, overridden, edits)
      BY <1>1, <1>4, <1>5, <2>1 DEF FineDevice, Fine, f
    <2>3. QED
      BY <1>1, <1>6, <2>1, <2>2, FinishFine
  <1>7. CASE SetTask(d, s, Retry(t, m))
    <2> DEFINE u == Retry(t, m)
    <2>1. /\ u.pc = "put" /\ u.vault = m /\ u.revision = r /\ u.held = t.held
      BY <1>1 DEF Retry, Task
    <2>2. SetTask(d, s, u)
      BY <1>7
    <2> HIDE DEF u, m, f, t, b, r
    <2>3. FineTask(u, cache'[d], accepted, overridden', edits')
      BY <1>1, <1>4, <2>1 DEF FineTask
    <2>4. vault'[d] = m /\ OnlyAt(d)
      BY <1>1, <1>5 DEF OnlyAt
    <2>5. FineDevice(vault'[d], cache'[d], disk'[d], conflicts'[d],
                     accepted, overridden', edits')
      BY <1>1, <1>4, <1>5, <2>4 DEF FineDevice, Fine, f
    <2>6. QED
      BY <1>1, <2>2, <2>3, <2>4, <2>5, FineStep
  <1>8. QED
    BY <1>6, <1>7 DEF MergeRemote

\* A refresh takes the server's vault, merged with the one shown or not.
LEMMA RefreshReplaceFine ==
    ASSUME IInv, IInv', EInv,
           NEW d \in Devices, NEW s \in Slots, OnlyCall(d, s), RefreshReplace(d, s)
    PROVE  EInv'
  <1> DEFINE t == task[d][s]
             b == t.answer.blob
             r == t.answer.revision
             c == Clean(b, r)
             u == [t EXCEPT !.pc = "store", !.held = c, !.after = "refreshed",
                            !.answer = NoAnswer]
  <1>1. /\ t \in Task /\ t.pc = "refreshGet" /\ t.answer.type = "vault" /\ edits \in Nat
        /\ GoodTask(t, row.revision, accepted)
        /\ FineDevice(vault[d], cache[d], disk[d], conflicts[d], accepted, overridden, edits)
        /\ vault \in [Devices -> Vault \cup {NoVault}] /\ edits <= MaxEdits
        /\ cache \in [Devices -> Cache \cup {NoCache}]
        /\ UNCHANGED <<row, accepted, late, disk, conflicts, overridden, edits>>
        /\ UNCHANGED ghosts
    BY DEF RefreshReplace, IInv, TypeOK, EInv, server, ghosts
  <1>2. b \in Vault /\ [revision |-> r, blob |-> b] \in accepted
    BY <1>1 DEF GoodTask, IInv, TypeOK
  <1>3. Fine(b, r, accepted, overridden, edits)
    BY <1>2, AcceptedFine
  <1>4. PICK v : vault' = [vault EXCEPT ![d] = v] /\ Fine(v, r, accepted, overridden, edits)
    <2> DEFINE base == IF vault[d] = NoVault THEN EmptyVault ELSE vault[d]
    <2>1. base \in Vault /\ Recent(base, edits)
      BY <1>1 DEF EmptyVault, Vault, FineDevice, Recent, Present
    <2>2. Fine(MergeVaults(base, b), r, accepted, overridden, edits)
      BY <1>2, <1>3, <2>1, MergedFine DEF Fine
    <2>3. QED
      BY <1>3, <2>2 DEF RefreshReplace
  <1>5. CASE Finish(d, s) /\ cache[d] = NoCache /\ UNCHANGED cache
    <2> HIDE DEF t, b, r
    <2>1. vault'[d] = v /\ OnlyAt(d)
      BY <1>1, <1>4, <1>5 DEF OnlyAt
    <2>2. FineDevice(vault'[d], cache'[d], disk'[d], conflicts'[d],
                     accepted, overridden, edits)
      BY <1>1, <1>4, <1>5, <2>1 DEF FineDevice, Fine
    <2>3. QED
      BY <1>1, <1>5, <2>1, <2>2, FinishFine
  <1>6. CASE cache' = [cache EXCEPT ![d] = c] /\ SetTask(d, s, u)
    <2>1. FineCache(c, accepted, overridden, edits) /\ c.revision = r
      BY <1>3 DEF FineCache, Clean
    <2> HIDE DEF c, t, b, r
    <2>2. cache'[d] = c /\ vault'[d] = v /\ OnlyAt(d)
      BY <1>1, <1>4, <1>6 DEF OnlyAt
    <2>3. u.pc = "store" /\ u.held = c
      BY <1>1 DEF Task
    <2>4. FineTask(u, cache'[d], accepted, overridden', edits')
      BY <1>1, <2>1, <2>3 DEF FineTask
    <2>5. FineDevice(vault'[d], cache'[d], disk'[d], conflicts'[d],
                     accepted, overridden', edits')
      BY <1>1, <1>4, <2>1, <2>2 DEF FineDevice, Fine
    <2>6. QED
      BY <1>1, <1>6, <2>2, <2>4, <2>5, FineStep
  <1>7. QED
    BY <1>5, <1>6 DEF RefreshReplace

\* What a device gives up was made from the revision it names.
LEMMA GiveUpFine ==
    ASSUME IInv, EInv, NEW d \in Devices, NEW ts \in SUBSET {task[d][s] : s \in Slots},
           GiveUp(ts)
    PROVE  \A p \in late' \ late : FineLate(p, row.revision, accepted, overridden, edits)
  <1>1. PICK arriving \in SUBSET Unserved(ts) : late' = late \cup arriving
    BY DEF GiveUp
  <1>2. ASSUME NEW p \in arriving
        PROVE  FineLate(p, row.revision, accepted, overridden, edits)
    <2>1. PICK s \in Slots : /\ task[d][s].pc = "put"
                             /\ p.vault = task[d][s].vault
                             /\ p.revision = task[d][s].revision
      BY DEF Unserved
    <2>2. task[d][s].revision \in 0..row.revision
      BY RevisionsExist
    <2>3. row.revision \in Nat
      BY RevisionsExist
    <2>4. QED
      BY <2>1, <2>2, <2>3 DEF EInv, FineTask, FineLate
  <1>3. QED
    BY <1>1, <1>2

\* A push that got no answer leaves its vault in the cache.
LEMMA UnreachableFine ==
    ASSUME IInv, IInv', SInv, EInv,
           NEW d \in Devices, NEW s \in Slots, OnlyCall(d, s), Unreachable(d, s)
    PROVE  EInv'
  <1> DEFINE t == task[d][s]
             c == Pending(t.vault, t.revision)
             u == [t EXCEPT !.pc = "store", !.held = c, !.after = "pending",
                            !.answer = NoAnswer]
  <1>1. /\ t \in Task /\ edits \in Nat /\ Coherent(vault[d], cache[d], t)
        /\ FineDevice(vault[d], cache[d], disk[d], conflicts[d], accepted, overridden, edits)
        /\ FineTask(t, cache[d], accepted, overridden, edits)
        /\ cache \in [Devices -> Cache \cup {NoCache}] /\ edits <= MaxEdits
        /\ UNCHANGED <<row, accepted, vault, disk, conflicts, overridden, edits>>
    BY DEF Unreachable, IInv, TypeOK, SInv, EInv, ghosts
  <1>2. \A p \in late' \ late : FineLate(p, row.revision, accepted, overridden, edits)
    BY GiveUpFine DEF Unreachable
  <1>3. CASE Finish(d, s) /\ UNCHANGED cache
    <2>1. SetTask(d, s, Idle) /\ Idle.pc = "idle" /\ Idle.held = NoCache /\ OnlyAt(d)
      BY <1>1, <1>3, FinishGood DEF Finish, Idle, OnlyAt
    <2>2. FineTask(Idle, cache'[d], accepted, overridden', edits')
      BY <2>1 DEF FineTask, FineCache
    <2> HIDE DEF t
    <2>3. FineDevice(vault'[d], cache'[d], disk'[d], conflicts'[d],
                     accepted, overridden', edits')
      BY <1>1, <1>3
    <2>4. QED
      BY <1>1, <1>2, <2>1, <2>2, <2>3, FineStep
  <1>4. CASE /\ t.pc \in {"put", "mergeGet"}
             /\ cache' = [cache EXCEPT ![d] = c] /\ SetTask(d, s, u)
    <2>1. /\ FineCache(c, accepted, overridden, edits) /\ c.revision = t.revision
          /\ Fine(t.vault, t.revision, accepted, overridden, edits)
      BY <1>1, <1>4 DEF FineCache, FineTask, Pending
    <2> HIDE DEF c, t
    <2>2. cache'[d] = c /\ OnlyAt(d)
      BY <1>1, <1>4 DEF OnlyAt
    <2>3. u.pc = "store" /\ u.held = c
      BY <1>1 DEF Task
    <2>4. FineTask(u, cache'[d], accepted, overridden', edits')
      BY <1>1, <2>1, <2>3 DEF FineTask
    <2>5. FineDevice(vault'[d], cache'[d], disk'[d], conflicts'[d],
                     accepted, overridden', edits')
      BY <1>1, <1>4, <2>1, <2>2 DEF FineDevice, Coherent, Fine
    <2>6. QED
      BY <1>1, <1>2, <1>4, <2>2, <2>4, <2>5, FineStep
  <1>5. QED
    BY <1>3, <1>4 DEF Unreachable, KeptPending

\* The ends of calls: what they write, show or keep is a cache that was fine.
LEMMA EndsFine ==
    ASSUME IInv, IInv', SInv, EInv, NEW d \in Devices, NEW s \in Slots, OnlyCall(d, s),
           \/ Refused(d, s) \/ DeriveFails(d, s) \/ Unlocked(d, s) \/ LoggedOut(d, s)
           \/ StoredDone(d, s) \/ StoredPending(d, s) \/ StoredAssign(d, s)
           \/ StoredLoggedIn(d, s)
    PROVE  EInv'
  <1> DEFINE t == task[d][s]
             h == t.held
  <1>1. /\ GoodTask(t, row.revision, accepted) /\ Coherent(vault[d], cache[d], t)
        /\ FineDevice(vault[d], cache[d], disk[d], conflicts[d], accepted, overridden, edits)
        /\ FineCache(h, accepted, overridden, edits)
        /\ vault \in [Devices -> Vault \cup {NoVault}]
        /\ cache \in [Devices -> Cache \cup {NoCache}]
        /\ disk \in [Devices -> Cache \cup {NoCache}]
        /\ conflicts \in [Devices -> SUBSET Conflict]
    BY DEF IInv, TypeOK, SInv, EInv, FineTask
  <1>2. t.pc \in {"store", "derive"} => h # NoCache
    BY <1>1, NullAssumption DEF GoodTask, Cache
  <1>3. Finish(d, s) /\ UNCHANGED <<row, accepted, late, ghosts>>
    BY DEF Refused, DeriveFails, Unlocked, LoggedOut, StoredDone, StoredPending,
           StoredAssign, StoredLoggedIn, server
  <1>4. OnlyAt(d)
    BY <1>1 DEF OnlyAt, Refused, DeriveFails, Unlocked, LoggedOut, StoredDone, StoredPending,
           StoredAssign, StoredLoggedIn, device, Write, ForgetConflicts
  <1> DEFINE Holds(v, c, k, f) ==
        vault'[d] = v /\ cache'[d] = c /\ disk'[d] = k /\ conflicts'[d] = f
  <1>5. ASSUME NEW v, NEW c, NEW k, NEW f, Holds(v, c, k, f),
               FineDevice(v, c, k, f, accepted, overridden, edits)
        PROVE  EInv'
    BY <1>3, <1>4, <1>5, FinishFine
  <1>6. CASE Refused(d, s) \/ DeriveFails(d, s)
    <2>1. Holds(vault[d], cache[d], disk[d], conflicts[d])
      BY <1>6 DEF Refused, DeriveFails, device
    <2>2. QED
      BY <1>1, <1>5, <2>1
  <1>7. CASE Unlocked(d, s)
    <2>1. t.pc = "derive" /\ Holds(h.blob, cache[d], disk[d], conflicts[d])
      BY <1>1, <1>7 DEF Unlocked, Derives
    <2>2. FineDevice(h.blob, cache[d], disk[d], conflicts[d], accepted, overridden, edits)
      BY <1>1, <1>2, <2>1 DEF Coherent, FineDevice, FineCache, Fine
    <2>3. QED
      BY <1>5, <2>1, <2>2
  <1>8. CASE LoggedOut(d, s)
    <2>1. Holds(NoVault, NoCache, disk[d], {})
      BY <1>1, <1>8 DEF LoggedOut
    <2>2. FineDevice(NoVault, NoCache, disk[d], {}, accepted, overridden, edits)
      BY <1>1 DEF FineDevice, FineCache
    <2>3. QED
      BY <1>5, <2>1, <2>2
  <1>9. CASE StoredDone(d, s)
    <2>1. \E f \in {conflicts[d], {}} : Holds(vault[d], cache[d], h, f)
      BY <1>1, <1>9 DEF StoredDone, Write, ForgetConflicts
    <2>2. \A f \in {conflicts[d], {}} :
             FineDevice(vault[d], cache[d], h, f, accepted, overridden, edits)
      BY <1>1 DEF FineDevice
    <2>3. QED
      BY <1>5, <2>1, <2>2
  <1>10. CASE StoredPending(d, s)
    <2>1. /\ t.pc = "store" /\ t.after = "pending"
          /\ \E v \in {NoVault, t.vault} : \E f \in {conflicts[d], {}} : Holds(v, cache[d], h, f)
      BY <1>1, <1>10 DEF StoredPending, Write, ForgetConflicts
    <2>2. \A v \in {NoVault, t.vault} : \A f \in {conflicts[d], {}} :
             FineDevice(v, cache[d], h, f, accepted, overridden, edits)
      BY <1>1, <1>2, <2>1 DEF Coherent, FineDevice, FineCache, Fine
    <2>3. QED
      BY <1>5, <2>1, <2>2
  <1>11. CASE StoredAssign(d, s)
    <2>1. t.pc = "store" /\ t.after = "assign" /\ Holds(vault[d], h, h, conflicts[d])
      BY <1>1, <1>11 DEF StoredAssign, Write
    <2>2. FineDevice(vault[d], h, h, conflicts[d], accepted, overridden, edits)
      BY <1>1, <2>1 DEF Coherent, FineDevice
    <2>3. QED
      BY <1>5, <2>1, <2>2
  <1>12. CASE StoredLoggedIn(d, s)
    <2>1. t.pc = "store" /\ Holds(h.blob, h, h, conflicts[d])
      BY <1>1, <1>12 DEF StoredLoggedIn, Write
    <2>2. FineDevice(h.blob, h, h, conflicts[d], accepted, overridden, edits)
      BY <1>1, <1>2, <2>1 DEF FineDevice, FineCache, Fine
    <2>3. QED
      BY <1>5, <2>1, <2>2
  <1>13. QED
    BY <1>6, <1>7, <1>8, <1>9, <1>10, <1>11, <1>12

\* A refresh that goes on with what is pending.
LEMMA RefreshedFine ==
    ASSUME IInv, IInv', EInv, NEW d \in Devices, NEW s \in Slots, OnlyCall(d, s),
           RefreshIdle(d, s) \/ StoredRefreshed(d, s)
    PROVE  EInv'
  <1> DEFINE p == Push(d, "syncAll", vault[d])
             h == task[d][s].held
  <1>1. /\ FineDevice(vault[d], cache[d], disk[d], conflicts[d], accepted, overridden, edits)
        /\ FineCache(h, accepted, overridden, edits)
        /\ disk \in [Devices -> Cache \cup {NoCache}]
        /\ edits \in Nat /\ edits <= MaxEdits
    BY DEF IInv, TypeOK, EInv, FineTask
  <1>2. /\ PushIfPending(d, s)
        /\ UNCHANGED <<row, accepted, late, vault, cache, conflicts, overridden, edits>>
    BY DEF RefreshIdle, StoredRefreshed, device, server, ghosts
  <1>3. OnlyAt(d) /\ disk'[d] \in {disk[d], h}
    BY <1>1, <1>2 DEF RefreshIdle, StoredRefreshed, device, Write, OnlyAt
  <1>4. FineDevice(vault'[d], cache'[d], disk'[d], conflicts'[d],
                   accepted, overridden', edits')
    BY <1>1, <1>2, <1>3 DEF FineDevice
  <1>5. CASE HasPending(d) /\ SetTask(d, s, p)
    <2>1. p.pc = "put" /\ p.vault = vault[d] /\ p.revision = cache[d].revision /\ p.held = NoCache
      BY FinishGood DEF Push, Idle, Task
    <2> HIDE DEF p
    <2>2. FineTask(p, cache'[d], accepted, overridden', edits')
      BY <1>1, <1>2, <1>5, <2>1
         DEF FineTask, FineCache, FineDevice, Fine, HasPending, HasSecrets
    <2>3. QED
      BY <1>1, <1>2, <1>3, <1>4, <1>5, <2>2, FineStep
  <1>6. CASE Finish(d, s)
    <2>1. SetTask(d, s, Idle) /\ Idle.pc = "idle" /\ Idle.held = NoCache
      BY <1>6, FinishGood DEF Finish, Idle
    <2>2. FineTask(Idle, cache'[d], accepted, overridden', edits')
      BY <2>1 DEF FineTask, FineCache
    <2>3. QED
      BY <1>1, <1>2, <1>3, <1>4, <2>1, <2>2, FineStep
  <1>7. QED
    BY <1>2, <1>5, <1>6 DEF PushIfPending

\* The steps from a captured cache to its writing, of a logout and of a login.
LEMMA StepsFine ==
    ASSUME IInv, IInv', SInv, EInv, NEW d \in Devices, NEW s \in Slots, OnlyCall(d, s),
           \/ BiometricsEnabled(d, s) \/ PasswordChanged(d, s) \/ Wiped(d, s)
           \/ LoginLoaded(d, s)
    PROVE  EInv'
  <1> DEFINE t == task[d][s]
  <1>1. /\ t \in Task /\ Coherent(vault[d], cache[d], t) /\ GoodTask(t, row.revision, accepted)
        /\ FineDevice(vault[d], cache[d], disk[d], conflicts[d], accepted, overridden, edits)
        /\ FineTask(t, cache[d], accepted, overridden, edits)
        /\ cache \in [Devices -> Cache \cup {NoCache}]
        /\ disk \in [Devices -> Cache \cup {NoCache}]
        /\ edits \in Nat /\ edits <= MaxEdits
    BY DEF IInv, TypeOK, SInv, EInv
  <1>2. CASE BiometricsEnabled(d, s)
    <2> DEFINE u == [t EXCEPT !.pc = "store", !.after = "done"]
    <2>1. /\ SetTask(d, s, u) /\ t.pc = "derive"
          /\ UNCHANGED <<row, accepted, late, vault, disk, conflicts, overridden, edits>>
          /\ cache' = [cache EXCEPT ![d] = t.held]
      BY <1>2 DEF BiometricsEnabled, Derives, server, ghosts
    <2> HIDE DEF t
    <2>2. cache'[d] = cache[d] /\ OnlyAt(d)
      BY <1>1, <2>1 DEF OnlyAt, Coherent
    <2>3. u.pc = "store" /\ u.held = t.held
      BY <1>1 DEF Task
    <2>4. FineTask(u, cache'[d], accepted, overridden', edits')
      BY <1>1, <2>1, <2>3 DEF FineTask
    <2>5. FineDevice(vault'[d], cache'[d], disk'[d], conflicts'[d],
                     accepted, overridden', edits')
      BY <1>1, <2>1, <2>2
    <2>6. QED
      BY <1>1, <2>1, <2>2, <2>4, <2>5, FineStep
  <1>3. CASE PasswordChanged(d, s)
    <2> DEFINE u == [t EXCEPT !.pc = "store", !.after = "assign"]
    <2>1. SetTask(d, s, u) /\ UNCHANGED <<server, device, ghosts>>
      BY <1>3 DEF PasswordChanged
    <2>2. u.pc = "store" /\ u.held = task[d][s].held
      BY <1>1 DEF Task
    <2> HIDE DEF u
    <2>3. QED
      BY <2>1, <2>2, HoldFine
  <1>4. CASE Wiped(d, s)
    <2> DEFINE u == [t EXCEPT !.pc = "reset"]
    <2>1. /\ SetTask(d, s, u) /\ disk' = [disk EXCEPT ![d] = NoCache]
          /\ UNCHANGED <<row, accepted, late, vault, cache, conflicts, overridden, edits>>
      BY <1>4 DEF Wiped, server, ghosts
    <2>2. u.pc = "reset" /\ u.held = t.held
      BY <1>1 DEF Task
    <2> HIDE DEF t, u
    <2>3. disk'[d] = NoCache /\ OnlyAt(d)
      BY <1>1, <2>1 DEF OnlyAt
    <2>4. FineTask(u, cache'[d], accepted, overridden', edits')
      BY <1>1, <2>1, <2>2 DEF FineTask
    <2>5. FineDevice(vault'[d], cache'[d], disk'[d], conflicts'[d],
                     accepted, overridden', edits')
      BY <1>1, <2>1, <2>3 DEF FineDevice, FineCache
    <2>6. QED
      BY <1>1, <2>1, <2>3, <2>4, <2>5, FineStep
  <1>5. CASE LoginLoaded(d, s)
    <2> DEFINE c == Clean(t.answer.blob, t.answer.revision)
               u == [t EXCEPT !.pc = "store", !.after = "loggedIn", !.answer = NoAnswer,
                              !.held = c]
    <2>1. /\ SetTask(d, s, u) /\ t.answer.type = "vault"
          /\ UNCHANGED <<server, device, ghosts>>
      BY <1>5 DEF LoginLoaded
    <2>2. t.answer.blob \in Vault
          /\ [revision |-> t.answer.revision, blob |-> t.answer.blob] \in accepted
      BY <1>1, <2>1 DEF GoodTask, IInv, TypeOK
    <2>3. FineCache(c, accepted, overridden, edits)
      BY <2>2, AcceptedFine DEF FineCache, Clean
    <2> HIDE DEF c, t
    <2>4. u.pc = "store" /\ u.held = c
      BY <1>1 DEF Task
    <2> HIDE DEF u
    <2>5. FineTask(u, cache[d], accepted, overridden, edits)
      BY <2>3, <2>4 DEF FineTask
    <2>6. QED
      BY <2>1, <2>5, CallFine
  <1>6. QED
    BY <1>2, <1>3, <1>4, <1>5

\* The lock clears what is shown, a restart goes on from the cache file.
LEMMA DeviceFine ==
    ASSUME IInv, EInv, NEW d \in Devices, OpenDraft(d) \/ Lock(d) \/ Restart(d)
    PROVE  EInv'
  <1>1. CASE OpenDraft(d)
    BY <1>1 DEF OpenDraft, EInv, server, ghosts
  <1>2. \A e \in Devices :
           FineDevice(vault[e], cache[e], disk[e], conflicts[e], accepted, overridden, edits)
    BY DEF EInv
  <1>3. /\ vault \in [Devices -> Vault \cup {NoVault}]
        /\ cache \in [Devices -> Cache \cup {NoCache}]
        /\ disk \in [Devices -> Cache \cup {NoCache}]
        /\ conflicts \in [Devices -> SUBSET Conflict]
        /\ task \in [Devices -> [Slots -> Task]]
    BY DEF IInv, TypeOK
  <1>4. CASE Lock(d)
    <2>1. /\ vault' = [vault EXCEPT ![d] = NoVault] /\ conflicts' = [conflicts EXCEPT ![d] = {}]
          /\ UNCHANGED <<row, accepted, late, cache, disk, task, overridden, edits>>
      BY <1>4 DEF Lock, server, ghosts
    <2>2. ASSUME NEW e \in Devices
          PROVE  FineDevice(vault'[e], cache[e], disk[e], conflicts'[e],
                            accepted, overridden, edits)
      BY <1>2, <1>3, <2>1 DEF FineDevice
    <2>3. QED
      BY <2>1, <2>2 DEF EInv
  <1>5. CASE Restart(d)
    <2>1. PICK c \in {disk[d], NoCache} :
              /\ disk' = [disk EXCEPT ![d] = c] /\ cache' = [cache EXCEPT ![d] = c]
      BY <1>5 DEF Restart, Loaded
    <2>2. /\ vault' = [vault EXCEPT ![d] = NoVault] /\ conflicts' = [conflicts EXCEPT ![d] = {}]
          /\ task' = [task EXCEPT ![d] = [s \in Slots |-> Idle]]
          /\ UNCHANGED <<row, accepted, overridden, edits>>
      BY <1>5 DEF Restart, ghosts
    <2>3. FineCache(c, accepted, overridden, edits)
      BY <1>2, <2>1 DEF FineDevice, FineCache
    <2>4. ASSUME NEW e \in Devices
          PROVE  FineDevice(vault'[e], cache'[e], disk'[e], conflicts'[e],
                            accepted, overridden, edits)
      BY <1>2, <1>3, <2>1, <2>2, <2>3 DEF FineDevice
    <2>5. ASSUME NEW e \in Devices, NEW s \in Slots
          PROVE  FineTask(task'[e][s], cache'[e], accepted, overridden, edits)
      <3>1. CASE e = d
        <4>1. task'[e][s] = Idle
          BY <1>3, <2>2, <3>1
        <4>2. Idle.pc = "idle" /\ Idle.held = NoCache
          BY DEF Idle
        <4>3. QED
          BY <4>1, <4>2 DEF FineTask, FineCache
      <3>2. CASE e # d
        <4>1. task'[e][s] = task[e][s] /\ cache'[e] = cache[e]
          BY <1>3, <2>1, <2>2, <3>2
        <4>2. QED
          BY <4>1 DEF EInv
      <3>3. QED
        BY <3>1, <3>2
    <2>6. \A p \in late' : FineLate(p, row.revision, accepted, overridden, edits)
      BY <1>5, GiveUpFine DEF Restart, EInv
    <2>7. QED
      BY <2>2, <2>4, <2>5, <2>6 DEF EInv
  <1>6. QED
    BY <1>1, <1>4, <1>5

\* Every step keeps the devices fine.
LEMMA NextEInv ==
    ASSUME ClocksAgree
    PROVE  /\ IInv /\ SInv /\ EInv
           /\ OneCallAtATime /\ OneCallAtATime' /\ [FreshDrafts]_vars /\ [Next]_vars
           => EInv'
  <1> SUFFICES ASSUME IInv, SInv, EInv, OneCallAtATime, OneCallAtATime', [FreshDrafts]_vars,
                      [Next]_vars
               PROVE  EInv'
    OBVIOUS
  <1>1. IInv'
    BY NextIInv
  <1>2. ASSUME NEW d \in Devices, NEW s \in Slots, Begin(d, s)
        PROVE  EInv'
    <2>1. CASE SaveDraft(d, s)
      <3>1. CASE FreshDrafts
        <4>1. draft[d] = vault[d]
          BY <2>1, <3>1 DEF FreshDrafts
        <4>2. QED
          BY <1>1, <1>2, <2>1, <4>1, Alone, SaveFine
      <3>2. CASE UNCHANGED vars
        BY <3>2 DEF vars, EInv
      <3>3. QED
        BY <3>1, <3>2
    <2>2. CASE ~SaveDraft(d, s)
      BY <1>1, <1>2, <2>2, Alone, SaveFine, ResolveFine, OthersFine DEF Begin
    <2>3. QED
      BY <2>1, <2>2
  <1>3. ASSUME NEW d \in Devices, NEW s \in Slots, Serve(d, s) \/ Continue(d, s)
        PROVE  EInv'
    BY <1>1, <1>3, Alone, ServeFine, PutAcceptedFine, MergeRemoteFine, RefreshedFine,
       RefreshReplaceFine, EndsFine, UnreachableFine, StepsFine DEF Continue
  <1>4. CASE ServeLate
    BY <1>1, <1>4, ServeLateFine
  <1>5. CASE UNCHANGED vars
    BY <1>5 DEF vars, EInv
  <1>6. QED
    BY <1>2, <1>3, <1>4, <1>5, DeviceFine DEF Next

\* The devices start with the vault that the server holds.
LEMMA InitEInv == Init => EInv
  <1> SUFFICES ASSUME Init PROVE EInv
    OBVIOUS
  <1> DEFINE p == [revision |-> 1, blob |-> InitialVault]
             c == Clean(InitialVault, 1)
  <1>1. /\ accepted = {p} /\ p.revision = 1 /\ p.blob = InitialVault
        /\ c.revision = 1 /\ c.blob = InitialVault /\ edits = 0 /\ late = {}
        /\ MaxEdits \in Nat
    BY BoundsAssumption DEF Init, Clean
  <1>2. \A d \in Devices : /\ vault[d] = InitialVault /\ cache[d] = c /\ disk[d] = c
                           /\ conflicts[d] = {}
                           /\ \A s \in Slots : task[d][s] = Idle
    BY DEF Init
  <1>3. Idle.pc = "idle" /\ Idle.held = NoCache
    BY DEF Idle
  <1> HIDE DEF p, c
  <1>4. \A i \in Ids : Present(InitialVault, i) => InitialVault[i].at = 0
    BY DEF InitialVault, Present
  <1>5. Recent(InitialVault, 0)
    BY <1>1, <1>4, BoundsAssumption DEF Recent, RecentVersion
  <1>6. Retains(InitialVault, InitialVault, overridden)
    BY <1>4 DEF Retains, Older, Present
  <1>7. Fine(InitialVault, 1, accepted, overridden, edits)
    BY <1>1, <1>5, <1>6 DEF Fine, Builds
  <1>8. FineCache(c, accepted, overridden, edits)
    BY <1>1, <1>7 DEF FineCache
  <1>9. FineHistory(accepted, overridden, edits)
    BY <1>1, <1>5, <1>6 DEF FineHistory
  <1>10. \A d \in Devices :
            FineDevice(vault[d], cache[d], disk[d], conflicts[d], accepted, overridden, edits)
    BY <1>1, <1>2, <1>7, <1>8 DEF FineDevice, Fine
  <1>11. \A d \in Devices, s \in Slots :
            FineTask(task[d][s], cache[d], accepted, overridden, edits)
    BY <1>2, <1>3 DEF FineTask, FineCache
  <1>12. /\ edits <= MaxEdits
         /\ \A q \in late : FineLate(q, row.revision, accepted, overridden, edits)
    BY <1>1
  <1>13. QED
    BY <1>9, <1>10, <1>11, <1>12 DEF EInv

\* On devices that make one call at a time, whose clocks agree and whose edit screens
\* are not left open over a change of the vault, no update is lost: whatever was accepted
\* is still there, or in a newer version, unless a user took it out or chose a version
\* of it (_pushVault with its merge after a 409, refreshFromServer, _persistPending, and the
\* UPDATE guarded by vault_revision).
THEOREM NothingIsLost ==
    ASSUME ClocksAgree
    PROVE  Spec /\ []OneCallAtATime /\ [][FreshDrafts]_vars => []NoLostUpdate
  <1>1. IInv /\ EInv => NoLostUpdate
    <2> SUFFICES ASSUME IInv, EInv, NEW p \in accepted, NEW i \in Ids \ overridden,
                        Present(p.blob, i)
                 PROVE  Present(row.blob, i) /\ ~Older(row.blob[i], p.blob[i])
      BY DEF NoLostUpdate
    <2> DEFINE q == [revision |-> row.revision, blob |-> row.blob]
    <2>1. q \in accepted /\ q.blob = row.blob /\ p.revision <= q.revision
      BY DEF IInv, GoodHistory
    <2> HIDE DEF q
    <2>2. QED
      BY <2>1 DEF EInv, FineHistory, Retains
  <1>2. QED
    BY <1>1, InitEInv, NextEInv, CoherentAlways, PTL DEF Spec

----------------------------------------------------------------------------
(* Pending edits *)

\* v has the edits that the cache c keeps for a later push.
Kept(v, c, O) == c # NoCache /\ c.pending => Retains(v, c.blob, O)

\* The cache k has the edits that the cache c keeps for a later push.
Passes(c, k, O) == k # NoCache => Kept(k.blob, c, O)

\* The vault v shown, the cache c in memory and the cache file k: what is written last
\* is pending in the file, in memory and on the screen.
PendingDevice(v, c, k, O) ==
    /\ v # NoVault => Kept(v, c, O) /\ Kept(v, k, O)
    /\ Passes(k, c, O)

\* What is pushed has what is pending; a login finds no cache, and a logout ends
\* without a cache file.
PendingTask(t, c, k, O) ==
    /\ t.pc \in {"put", "mergeGet"} => Kept(t.vault, c, O) /\ Kept(t.vault, k, O)
    /\ (t.pc = "loginGet" \/ (t.pc = "store" /\ t.after = "loggedIn"))
       => c = NoCache /\ k = NoCache
    /\ t.pc = "reset" => k = NoCache

\* No call of d is between a change of the cache and that of the cache file.
Settled(d) == \A s \in Slots : task[d][s].pc \notin {"store", "reset"}

PInv ==
    /\ \A d \in Devices :
          /\ PendingDevice(vault[d], cache[d], disk[d], overridden)
          /\ Settled(d) => disk[d] = cache[d]
          /\ status[d] = "unauthenticated" => cache[d] = NoCache
    /\ \A d \in Devices, s \in Slots :
          PendingTask(task[d][s], cache[d], disk[d], overridden)

\* A step keeps what the cache file had pending, and what the cache in memory had
\* once it was in the file.
PendingPassed ==
    \A d \in Devices :
        /\ Passes(disk[d], disk'[d], overridden')
        /\ disk[d] = cache[d] => Passes(cache[d], cache'[d], overridden')

\* What is pending stays, in this version or a newer one, in whatever replaces it: the
\* cache of a push, of a refresh, of a restart.
PendingEditsKept == [][PendingPassed]_vars

\* No refresh brings something new to a device whose edits are still pending
\* (refreshFromServer clears the mark without pushing them).
NoRefreshOverPending ==
    \A d \in Devices, s \in Slots :
        LET t == task[d][s] IN
        /\ t.pc = "refreshGet" /\ t.answer.type = "vault" /\ t.answer.revision > t.revision
        /\ cache[d] # NoCache
        => ~cache[d].pending

\* A vault has what it has, and what is had by something it has.
LEMMA RetainsItself ==
    ASSUME NEW v \in Vault, NEW O
    PROVE  Retains(v, v, O)
  BY VersionAt DEF Retains, Older, Present

LEMMA RetainsMore ==
    ASSUME NEW O, NEW O2, O \subseteq O2
    PROVE  /\ \A v, b : Retains(v, b, O) => Retains(v, b, O2)
           /\ \A v, c : Kept(v, c, O) => Kept(v, c, O2)
           /\ \A c, k : Passes(c, k, O) => Passes(c, k, O2)
           /\ \A v, c, k : PendingDevice(v, c, k, O) => PendingDevice(v, c, k, O2)
           /\ \A t, c, k : PendingTask(t, c, k, O) => PendingTask(t, c, k, O2)
  <1>1. ASSUME NEW v, NEW b, Retains(v, b, O)
        PROVE  Retains(v, b, O2)
    BY <1>1 DEF Retains
  <1>2. ASSUME NEW v, NEW c, Kept(v, c, O)
        PROVE  Kept(v, c, O2)
    BY <1>1, <1>2 DEF Kept
  <1>3. ASSUME NEW c, NEW k, Passes(c, k, O)
        PROVE  Passes(c, k, O2)
    BY <1>2, <1>3 DEF Passes
  <1>4. QED
    BY <1>1, <1>2, <1>3 DEF PendingDevice, PendingTask

\* A cache passes on to itself.
LEMMA PassesItself ==
    ASSUME NEW c \in Cache \cup {NoCache}, NEW O
    PROVE  Passes(c, c, O) /\ (c # NoCache => Kept(c.blob, c, O))
  <1>1. c # NoCache => c.blob \in Vault
    BY DEF Cache
  <1>2. QED
    BY <1>1, RetainsItself DEF Passes, Kept

\* A merge has what the vault merged into has.
LEMMA MergeRetains ==
    ASSUME NEW l \in Vault, NEW r \in Vault, NEW c \in Cache \cup {NoCache}, NEW O,
           Kept(l, c, O)
    PROVE  Kept(MergeVaults(l, r), c, O)
  <1> DEFINE m == MergeVaults(l, r)
  <1>1. m \in Vault /\ \A i \in Ids : Present(l, i) => Present(m, i) /\ ~Older(m[i], l[i])
    BY MergeIsVault, MergeKeepsBoth
  <1> HIDE DEF m
  <1>2. ASSUME c # NoCache, c.pending, NEW i \in Ids \ O, Present(c.blob, i)
        PROVE  Present(m, i) /\ ~Older(m[i], c.blob[i])
    <2>1. Present(l, i) /\ ~Older(l[i], c.blob[i]) /\ c.blob \in Vault
      BY <1>2 DEF Kept, Retains, Cache
    <2>2. Present(m, i) /\ ~Older(m[i], l[i])
      BY <1>1, <2>1
    <2>3. c.blob[i].at \in Nat /\ l[i].at \in Nat /\ m[i].at \in Nat
      BY <1>1, <1>2, <2>1, <2>2, VersionAt DEF Present
    <2>4. QED
      BY <2>1, <2>2, <2>3 DEF Older, Present
  <1>3. QED
    BY <1>2 DEF Kept, Retains, m

\* An edit is newer than what it replaces.
LEMMA EditRetains ==
    ASSUME IInv, ClocksAgree, edits < MaxEdits, NEW v \in Vault,
           NEW put \in SUBSET Ids, NEW del \in SUBSET Ids,
           NEW c \in Cache \cup {NoCache}, NEW r, NEW A,
           FineCache(c, A, overridden, edits), Kept(v, c, overridden)
    PROVE  Kept(Edited(v, put, del), c, overridden \cup del)
  <1> DEFINE w == Edited(v, put, del)
             x == [content |-> edits + 1, at |-> Clock[edits + 1]]
  <1>1. edits \in Nat /\ MaxEdits \in Nat /\ edits + 1 \in 1..MaxEdits
    BY BoundsAssumption DEF IInv, TypeOK
  <1>2. x \in Version /\ x # Absent /\ x.at = Clock[edits + 1] /\ x.at \in Nat
    BY <1>1, BoundsAssumption, AbsentAssumption DEF Version
  <1>3. \A i \in Ids : w[i] = IF i \in put THEN x ELSE IF i \in del THEN Absent ELSE v[i]
    BY DEF Edited
  <1> HIDE DEF w, x
  <1>4. ASSUME c # NoCache, c.pending, NEW i \in Ids \ (overridden \cup del),
               Present(c.blob, i)
        PROVE  Present(w, i) /\ ~Older(w[i], c.blob[i])
    <2>1. Present(v, i) /\ ~Older(v[i], c.blob[i]) /\ c.blob \in Vault
      BY <1>4 DEF Kept, Retains, Cache
    <2>2. c.blob[i].at <= Clock[edits + 1] /\ c.blob[i].at \in Nat
      <3>1. RecentVersion(c.blob[i], edits)
        BY <1>4 DEF FineCache, Fine, Recent
      <3>2. QED
        BY <1>1, <1>4, <2>1, <3>1, VersionAt DEF RecentVersion, Present
    <2>3. QED
      BY <1>2, <1>3, <1>4, <2>1, <2>2 DEF Present, Older
  <1>5. QED
    BY <1>4 DEF Kept, Retains, w

\* What d shows, keeps and writes is all that changes of what is shown, kept and written.
OnlyOn(d) == \A e \in Devices \ {d} : /\ vault'[e] = vault[e] /\ cache'[e] = cache[e]
                                      /\ disk'[e] = disk[e] /\ status'[e] = status[e]

\* What a step of a device's only call may leave: the call as t, the vault v shown, the
\* cache c and the cache file k.
Leaves(d, s, t, v, c, k) ==
    /\ SetTask(d, s, t) /\ OnlyOn(d)
    /\ vault'[d] = v /\ cache'[d] = c /\ disk'[d] = k
    /\ overridden \subseteq overridden'
    /\ status'[d] = "unauthenticated" => c = NoCache
    /\ t.pc \notin {"store", "reset"} => k = c

\* Such a step need only be examined on that device.
LEMMA PendingStep ==
    ASSUME IInv, PInv, NEW d \in Devices, NEW s \in Slots, OnlyCall(d, s),
           NEW t, NEW v, NEW c, NEW k, Leaves(d, s, t, v, c, k),
           PendingDevice(v, c, k, overridden'), PendingTask(t, c, k, overridden'),
           Passes(disk[d], k, overridden'),
           disk[d] = cache[d] => Passes(cache[d], c, overridden')
    PROVE  PInv' /\ PendingPassed
  <1>1. /\ task \in [Devices -> [Slots -> Task]]
        /\ cache \in [Devices -> Cache \cup {NoCache}]
        /\ disk \in [Devices -> Cache \cup {NoCache}]
    BY DEF IInv, TypeOK
  <1>2. /\ task'[d][s] = t /\ \A r \in Slots \ {s} : task'[d][r].pc = "idle"
        /\ \A e \in Devices \ {d} : task'[e] = task[e]
    BY <1>1 DEF Leaves, SetTask, OnlyCall
  <1>3. overridden \subseteq overridden'
    BY DEF Leaves
  <1>4. ASSUME NEW e \in Devices
        PROVE  /\ PendingDevice(vault'[e], cache'[e], disk'[e], overridden')
               /\ Settled(e)' => disk'[e] = cache'[e]
               /\ status'[e] = "unauthenticated" => cache'[e] = NoCache
    <2>1. CASE e = d
      BY <1>2, <2>1 DEF Leaves, Settled
    <2>2. CASE e # d
      <3>1. PendingDevice(vault[e], cache[e], disk[e], overridden')
        BY <1>3, RetainsMore DEF PInv
      <3>2. QED
        BY <1>2, <2>2, <3>1 DEF Leaves, OnlyOn, PInv, Settled
    <2>3. QED
      BY <2>1, <2>2
  <1>5. ASSUME NEW e \in Devices, NEW r \in Slots
        PROVE  PendingTask(task'[e][r], cache'[e], disk'[e], overridden')
    <2>1. CASE e = d /\ r = s
      BY <1>2, <2>1 DEF Leaves
    <2>2. CASE e = d /\ r # s
      BY <1>2, <2>2 DEF PendingTask
    <2>3. CASE e # d
      <3>1. PendingTask(task[e][r], cache[e], disk[e], overridden')
        BY <1>3, RetainsMore DEF PInv
      <3>2. QED
        BY <1>2, <2>3, <3>1 DEF Leaves, OnlyOn
    <2>4. QED
      BY <2>1, <2>2, <2>3
  <1>6. ASSUME NEW e \in Devices
        PROVE  /\ Passes(disk[e], disk'[e], overridden')
               /\ disk[e] = cache[e] => Passes(cache[e], cache'[e], overridden')
    <2>1. CASE e = d
      BY <2>1 DEF Leaves
    <2>2. CASE e # d
      BY <1>1, <2>2, PassesItself DEF Leaves, OnlyOn
    <2>3. QED
      BY <2>1, <2>2
  <1>7. QED
    BY <1>4, <1>5, <1>6 DEF PInv, PendingPassed

\* What holds of a device and of its only call.
LEMMA PendingHere ==
    ASSUME IInv, PInv, NEW d \in Devices, NEW s \in Slots, OnlyCall(d, s)
    PROVE  /\ task[d][s] \in Task /\ GoodTask(task[d][s], row.revision, accepted)
           /\ vault \in [Devices -> Vault \cup {NoVault}]
           /\ cache \in [Devices -> Cache \cup {NoCache}]
           /\ disk \in [Devices -> Cache \cup {NoCache}]
           /\ status \in [Devices -> Statuses]
           /\ vault[d] \in Vault \cup {NoVault} /\ cache[d] \in Cache \cup {NoCache}
           /\ disk[d] \in Cache \cup {NoCache}
           /\ PendingDevice(vault[d], cache[d], disk[d], overridden)
           /\ PendingTask(task[d][s], cache[d], disk[d], overridden)
           /\ task[d][s].pc \notin {"store", "reset"} => disk[d] = cache[d]
           /\ status[d] = "unauthenticated" => cache[d] = NoCache
  <1>1. TypeOK
    BY DEF IInv
  <1>2. /\ task[d][s] \in Task /\ GoodTask(task[d][s], row.revision, accepted)
        /\ vault \in [Devices -> Vault \cup {NoVault}]
        /\ cache \in [Devices -> Cache \cup {NoCache}]
        /\ disk \in [Devices -> Cache \cup {NoCache}]
        /\ status \in [Devices -> Statuses]
    BY <1>1 DEF IInv, TypeOK
  <1>3. task[d][s].pc \notin {"store", "reset"} => Settled(d)
    BY DEF OnlyCall, Settled
  <1>4. QED
    BY <1>2, <1>3 DEF PInv

\* A step that changes nothing on the device but what the call is doing.
LEMMA CallPending ==
    ASSUME IInv, PInv, NEW d \in Devices, NEW s \in Slots, OnlyCall(d, s), NEW t,
           SetTask(d, s, t), UNCHANGED <<device, ghosts>>,
           task[d][s].pc \notin {"store", "reset"},
           PendingTask(t, cache[d], disk[d], overridden)
    PROVE  PInv' /\ PendingPassed
  <1>1. UNCHANGED <<vault, cache, disk, status, overridden>>
    BY DEF device, ghosts
  <1>2. Leaves(d, s, t, vault[d], cache[d], disk[d])
    BY <1>1, PendingHere DEF Leaves, OnlyOn
  <1>3. PendingDevice(vault[d], cache[d], disk[d], overridden')
    BY <1>1, PendingHere
  <1>4. /\ Passes(disk[d], disk[d], overridden')
        /\ disk[d] = cache[d] => Passes(cache[d], cache[d], overridden')
    BY PendingHere, PassesItself
  <1>5. QED
    BY <1>1, <1>2, <1>3, <1>4, PendingStep

\* A call that neither pushes, logs in, nor writes the cache file.
LEMMA FreePending ==
    ASSUME NEW t, NEW c, NEW k, NEW O,
           t.pc \notin {"put", "mergeGet", "loginGet", "store", "reset"}
    PROVE  PendingTask(t, c, k, O)
  BY DEF PendingTask

\* A push begins with a vault that has what is pending.
LEMMA PushPending ==
    ASSUME IInv, PInv, NEW d \in Devices, NEW s \in Slots, OnlyCall(d, s),
           NEW op, NEW v, SetTask(d, s, Push(d, op, v)), vault'[d] = v, OnlyOn(d),
           UNCHANGED <<cache, disk, status>>, task[d][s].pc = "idle",
           overridden \subseteq overridden', Kept(v, cache[d], overridden')
    PROVE  PInv' /\ PendingPassed
  <1> DEFINE t == Push(d, op, v)
             c == cache[d]
             k == disk[d]
  <1>1. t.pc = "put" /\ t.vault = v /\ SetTask(d, s, t)
    BY FinishGood DEF Push, Idle, Task
  <1>2. k = c /\ c \in Cache \cup {NoCache} /\ (status[d] = "unauthenticated" => c = NoCache)
    BY PendingHere
  <1>3. Passes(c, c, overridden')
    BY <1>2, PassesItself
  <1> HIDE DEF t
  <1>4. PendingTask(t, c, k, overridden')
    BY <1>1, <1>2 DEF PendingTask
  <1>5. PendingDevice(v, c, k, overridden')
    BY <1>2, <1>3 DEF PendingDevice
  <1>6. Leaves(d, s, t, v, c, k)
    BY <1>1, <1>2 DEF Leaves
  <1> HIDE DEF c, k
  <1>7. QED
    BY <1>2, <1>3, <1>4, <1>5, <1>6, PendingStep DEF c, k

LEMMA SavePending ==
    ASSUME ClocksAgree, IInv, EInv, PInv,
           NEW d \in Devices, NEW s \in Slots, OnlyCall(d, s),
           Save(d, s) \/ (SaveDraft(d, s) /\ draft[d] = vault[d])
    PROVE  PInv' /\ PendingPassed
  <1>1. PICK op, put, del :
            /\ put \in SUBSET Ids /\ del \in SUBSET Ids
            /\ vault' = [vault EXCEPT ![d] = Edited(vault[d], put, del)]
            /\ SetTask(d, s, Push(d, op, Edited(vault[d], put, del)))
            /\ CountEdit(put, del)
    BY DEF Save, SaveDraft, Ids
  <1> DEFINE v == Edited(vault[d], put, del)
  <1>2. /\ edits < MaxEdits /\ vault[d] \in Vault /\ vault[d] # NoVault
        /\ vault \in [Devices -> Vault \cup {NoVault}]
        /\ UNCHANGED <<cache, disk, status>> /\ task[d][s].pc = "idle"
    BY NullAssumption DEF Save, SaveDraft, Starts, HasSecrets, UnlockedHasVault, IInv, TypeOK
  <1>3. /\ FineCache(cache[d], accepted, overridden, edits)
        /\ cache[d] \in Cache \cup {NoCache} /\ Kept(vault[d], cache[d], overridden)
    BY <1>2, PendingHere DEF EInv, FineDevice, PendingDevice
  <1>4. Kept(v, cache[d], overridden \cup del)
    BY <1>1, <1>2, <1>3, EditRetains
  <1>5. SetTask(d, s, Push(d, op, v)) /\ vault' = [vault EXCEPT ![d] = v]
    BY <1>1
  <1> HIDE DEF v
  <1>6. vault'[d] = v /\ OnlyOn(d)
    BY <1>2, <1>5 DEF OnlyOn
  <1>7. overridden' = overridden \cup del
    BY <1>1 DEF CountEdit
  <1>8. overridden \subseteq overridden' /\ Kept(v, cache[d], overridden')
    BY <1>4, <1>7
  <1>9. QED
    BY <1>2, <1>5, <1>6, <1>8, PushPending

LEMMA ResolvePending ==
    ASSUME IInv, PInv, NEW d \in Devices, NEW s \in Slots, OnlyCall(d, s),
           ApplyConflictResolutions(d, s)
    PROVE  PInv' /\ PendingPassed
  <1>1. PICK choice \in [conflicts[d] -> Choices] :
            /\ vault' = [vault EXCEPT ![d] = ResolveConflicts(vault[d], choice)]
            /\ SetTask(d, s, Push(d, "resolve", ResolveConflicts(vault[d], choice)))
            /\ overridden' = overridden \cup Dropped(choice) \cup {i \in Ids : Chosen(choice, i) # {}}
    BY DEF ApplyConflictResolutions
  <1> DEFINE v == vault[d]
             w == ResolveConflicts(v, choice)
  <1>2. /\ v # NoVault /\ vault \in [Devices -> Vault \cup {NoVault}]
        /\ UNCHANGED <<cache, disk, status>> /\ task[d][s].pc = "idle"
    BY DEF ApplyConflictResolutions, Starts, IInv, TypeOK
  <1>3. Kept(v, cache[d], overridden)
    BY <1>2, PendingHere DEF PendingDevice
  <1>4. \A i \in Ids : w[i] = IF ~Present(v, i) \/ i \in Dropped(choice) THEN Absent
                              ELSE IF Chosen(choice, i) = {} THEN v[i]
                              ELSE CHOOSE x \in Chosen(choice, i) : TRUE
    BY DEF ResolveConflicts
  <1>5. SetTask(d, s, Push(d, "resolve", w)) /\ vault' = [vault EXCEPT ![d] = w]
    BY <1>1
  <1> HIDE DEF v, w
  <1>6. \A i \in Ids \ overridden' : Present(v, i) => w[i] = v[i]
    BY <1>1, <1>4
  <1>7. overridden \subseteq overridden' /\ Kept(w, cache[d], overridden')
    BY <1>1, <1>3, <1>6 DEF Kept, Retains, Present
  <1>8. vault'[d] = w /\ OnlyOn(d)
    BY <1>2, <1>5 DEF OnlyOn
  <1>9. QED
    BY <1>2, <1>5, <1>7, <1>8, PushPending

\* What is shown of what is pending is pushed.
LEMMA PushShownPending ==
    ASSUME IInv, PInv, NEW d \in Devices, NEW s \in Slots, OnlyCall(d, s),
           NEW op, HasPending(d), SetTask(d, s, Push(d, op, vault[d])),
           UNCHANGED <<device, ghosts>>, task[d][s].pc \notin {"store", "reset"}
    PROVE  PInv' /\ PendingPassed
  <1> DEFINE t == Push(d, op, vault[d])
  <1>1. t.pc = "put" /\ t.vault = vault[d] /\ SetTask(d, s, t)
    BY FinishGood DEF Push, Idle, Task
  <1> HIDE DEF t
  <1>2. vault[d] # NoVault
    BY DEF HasPending
  <1>3. PendingTask(t, cache[d], disk[d], overridden)
    BY <1>1, <1>2, PendingHere DEF PendingTask, PendingDevice
  <1>4. QED
    BY <1>1, <1>3, CallPending

\* The other calls that begin.
LEMMA OthersPending ==
    ASSUME IInv, PInv, NEW d \in Devices, NEW s \in Slots, OnlyCall(d, s),
           \/ SyncPendingChanges(d, s) \/ SyncAll(d, s)
           \/ (\E op \in {"unlock", "bio", "password"} : Capture(d, s, op))
           \/ DisableBiometrics(d, s) \/ Logout(d, s) \/ Login(d, s)
    PROVE  PInv' /\ PendingPassed
  <1>1. /\ Idle \in Task /\ UNCHANGED <<device, ghosts>> /\ task[d][s].pc = "idle"
    BY FinishGood
       DEF SyncPendingChanges, SyncAll, Capture, DisableBiometrics, Logout, Login, Starts
  <1>2. CASE SyncPendingChanges(d, s)
    BY <1>1, <1>2, PushShownPending DEF SyncPendingChanges
  <1>3. CASE SyncAll(d, s)
    <2> DEFINE t == [Idle EXCEPT !.op = "syncAll", !.pc = "refreshGet",
                                 !.revision = cache[d].revision]
    <2>1. SetTask(d, s, t)
      BY <1>3 DEF SyncAll
    <2>2. t.pc = "refreshGet"
      BY <1>1 DEF Task
    <2> HIDE DEF t
    <2>3. QED
      BY <1>1, <2>1, <2>2, FreePending, CallPending
  <1>4. ASSUME NEW op \in {"unlock", "bio", "password"}, Capture(d, s, op)
        PROVE  PInv' /\ PendingPassed
    <2> DEFINE t == [Idle EXCEPT !.op = op, !.pc = "derive", !.held = cache[d]]
    <2>1. SetTask(d, s, t)
      BY <1>4 DEF Capture
    <2>2. t.pc = "derive"
      BY <1>1 DEF Task
    <2> HIDE DEF t
    <2>3. QED
      BY <1>1, <2>1, <2>2, FreePending, CallPending
  <1>5. CASE DisableBiometrics(d, s)
    <2> DEFINE t == [Idle EXCEPT !.op = "bio", !.pc = "store", !.held = cache[d],
                                 !.after = "done"]
    <2>1. SetTask(d, s, t)
      BY <1>5 DEF DisableBiometrics
    <2>2. t.pc = "store" /\ t.after = "done"
      BY <1>1 DEF Task
    <2> HIDE DEF t
    <2>3. PendingTask(t, cache[d], disk[d], overridden)
      BY <2>2 DEF PendingTask
    <2>4. QED
      BY <1>1, <2>1, <2>3, CallPending
  <1>6. CASE Logout(d, s)
    <2> DEFINE t == [Idle EXCEPT !.op = "logout", !.pc = "wipe"]
    <2>1. SetTask(d, s, t)
      BY <1>6 DEF Logout
    <2>2. t.pc = "wipe"
      BY <1>1 DEF Task
    <2> HIDE DEF t
    <2>3. QED
      BY <1>1, <2>1, <2>2, FreePending, CallPending
  <1>7. CASE Login(d, s)
    <2> DEFINE t == [Idle EXCEPT !.op = "login", !.pc = "loginGet"]
    <2>1. SetTask(d, s, t) /\ status[d] = "unauthenticated"
      BY <1>7 DEF Login
    <2>2. t.pc = "loginGet"
      BY <1>1 DEF Task
    <2> HIDE DEF t
    <2>3. PendingTask(t, cache[d], disk[d], overridden)
      BY <1>1, <2>1, <2>2, PendingHere DEF PendingTask
    <2>4. QED
      BY <1>1, <2>1, <2>3, CallPending
  <1>8. QED
    BY <1>2, <1>3, <1>4, <1>5, <1>6, <1>7

\* The server answers, and a 409 leaves the call pushing.
LEMMA AnswersPending ==
    ASSUME IInv, PInv, NEW d \in Devices, NEW s \in Slots, OnlyCall(d, s),
           Serve(d, s) \/ PutConflict(d, s)
    PROVE  PInv' /\ PendingPassed
  <1> DEFINE t == task[d][s]
  <1>1. /\ t \in Task /\ PendingTask(t, cache[d], disk[d], overridden)
        /\ UNCHANGED <<device, ghosts>> /\ t.pc \notin {"store", "reset"}
    BY PendingHere DEF Serve, ServePut, ServeGet, ServeError, PutConflict, AtServer
  <1>2. PICK a : \/ SetTask(d, s, [t EXCEPT !.answer = a])
                 \/ t.pc = "put" /\ SetTask(d, s, [t EXCEPT !.pc = "mergeGet", !.answer = a])
    BY DEF Serve, ServePut, ServeGet, ServeError, PutConflict
  <1>3. CASE SetTask(d, s, [t EXCEPT !.answer = a])
    <2>1. PendingTask([t EXCEPT !.answer = a], cache[d], disk[d], overridden)
      <3> HIDE DEF t
      <3>1. QED
        BY <1>1 DEF PendingTask, Task
    <2>2. QED
      BY <1>1, <1>3, <2>1, CallPending
  <1>4. CASE t.pc = "put" /\ SetTask(d, s, [t EXCEPT !.pc = "mergeGet", !.answer = a])
    <2>1. PendingTask([t EXCEPT !.pc = "mergeGet", !.answer = a], cache[d], disk[d], overridden)
      <3> HIDE DEF t
      <3>1. QED
        BY <1>1, <1>4 DEF PendingTask, Task
    <2>2. QED
      BY <1>1, <1>4, <2>1, CallPending
  <1>5. QED
    BY <1>2, <1>3, <1>4

\* A call ends, having left the vault v, the cache c and the cache file c.
LEMMA FinishPending ==
    ASSUME IInv, PInv, NEW d \in Devices, NEW s \in Slots, OnlyCall(d, s),
           Finish(d, s), OnlyOn(d), UNCHANGED ghosts,
           NEW v, NEW c, vault'[d] = v, cache'[d] = c, disk'[d] = c,
           v # NoVault => Kept(v, c, overridden), Passes(c, c, overridden),
           status'[d] = "unauthenticated" => c = NoCache,
           Passes(disk[d], c, overridden),
           disk[d] = cache[d] => Passes(cache[d], c, overridden)
    PROVE  PInv' /\ PendingPassed
  <1>1. SetTask(d, s, Idle) /\ Idle.pc = "idle" /\ overridden' = overridden
    BY FinishGood DEF Finish, Idle, ghosts
  <1>2. PendingTask(Idle, c, c, overridden')
    BY <1>1, FreePending
  <1>3. Leaves(d, s, Idle, v, c, c) /\ PendingDevice(v, c, c, overridden')
    BY <1>1 DEF Leaves, PendingDevice
  <1>4. QED
    BY <1>1, <1>2, <1>3, PendingStep

\* A push that was accepted: the cache made of it has what the file has pending.
LEMMA PutAcceptedPending ==
    ASSUME IInv, PInv, NEW d \in Devices, NEW s \in Slots, OnlyCall(d, s), PutAccepted(d, s)
    PROVE  PInv' /\ PendingPassed
  <1> DEFINE t == task[d][s]
             c == Clean(t.vault, t.answer.revision)
             k == disk[d]
             u == [t EXCEPT !.pc = "store", !.held = c, !.after = "done", !.answer = NoAnswer]
  <1>1. /\ t \in Task /\ t.pc = "put" /\ UNCHANGED <<vault, disk, status, overridden>>
        /\ cache \in [Devices -> Cache \cup {NoCache}]
        /\ PendingTask(t, cache[d], k, overridden)
        /\ PendingDevice(vault[d], cache[d], k, overridden)
        /\ k = cache[d] /\ k \in Cache \cup {NoCache}
    BY PendingHere DEF PutAccepted, ghosts
  <1>2. CASE Finish(d, s) /\ UNCHANGED cache
    <2>1. SetTask(d, s, Idle) /\ Idle.pc = "idle"
      BY <1>2, FinishGood DEF Finish, Idle
    <2>2. PendingTask(Idle, cache[d], disk[d], overridden) /\ UNCHANGED <<device, ghosts>>
      BY <1>2, <2>1, FreePending DEF PutAccepted, device
    <2>3. QED
      BY <1>1, <2>1, <2>2, CallPending
  <1>3. CASE cache[d] # NoCache /\ cache' = [cache EXCEPT ![d] = c] /\ SetTask(d, s, u)
    <2>1. c.blob = t.vault /\ c.pending = FALSE /\ (status[d] = "unauthenticated" => FALSE)
      BY <1>3, PendingHere DEF Clean
    <2>2. u.pc = "store" /\ u.after = "done"
      BY <1>1 DEF Task
    <2> HIDE DEF c, t, u, k
    <2>3. PendingTask(u, c, k, overridden')
      BY <2>2 DEF PendingTask
    <2>4. Leaves(d, s, u, vault[d], c, k)
      BY <1>1, <1>3, <2>1, <2>2 DEF Leaves, OnlyOn, k
    <2>5. Passes(k, c, overridden') /\ Passes(k, k, overridden')
      BY <1>1, <2>1, PassesItself DEF PendingTask, Passes
    <2>6. PendingDevice(vault[d], c, k, overridden')
      BY <1>1, <2>1, <2>5 DEF PendingDevice, Kept
    <2>7. QED
      BY <1>1, <2>3, <2>4, <2>5, <2>6, PendingStep DEF k
  <1>4. QED
    BY <1>2, <1>3 DEF PutAccepted, Pushed

\* A merge has what the vault being pushed has, and it is shown.
LEMMA MergeRemotePending ==
    ASSUME IInv, PInv, NEW d \in Devices, NEW s \in Slots, OnlyCall(d, s), MergeRemote(d, s)
    PROVE  PInv' /\ PendingPassed
  <1> DEFINE t == task[d][s]
             c == cache[d]
             m == MergeVaults(t.vault, t.answer.blob)
  <1>1. /\ t \in Task /\ t.pc = "mergeGet" /\ t.answer.type = "vault"
        /\ UNCHANGED <<cache, disk, status, overridden>>
        /\ vault' = [vault EXCEPT ![d] = m] /\ vault \in [Devices -> Vault \cup {NoVault}]
        /\ disk[d] = c /\ c \in Cache \cup {NoCache}
        /\ (status[d] = "unauthenticated" => c = NoCache)
        /\ PendingTask(t, c, c, overridden) /\ GoodTask(t, row.revision, accepted)
    BY PendingHere DEF MergeRemote, Show, ghosts
  <1>2. t.vault \in Vault /\ t.answer.blob \in Vault
    BY <1>1 DEF GoodTask, IInv, TypeOK
  <1>3. Kept(m, c, overridden)
    BY <1>1, <1>2, MergeRetains DEF PendingTask
  <1>4. PICK u : SetTask(d, s, u) /\ (u = Idle \/ u = Retry(t, m))
    BY DEF MergeRemote, Finish
  <1> HIDE DEF m, t, c
  <1>5. u.pc = "idle" \/ (u.pc = "put" /\ u.vault = m)
    <2>1. Retry(t, m).pc = "put" /\ Retry(t, m).vault = m /\ Idle.pc = "idle"
      BY <1>1 DEF Retry, Task, Idle
    <2>2. QED
      BY <1>4, <2>1
  <1>6. PendingTask(u, c, c, overridden')
    BY <1>1, <1>3, <1>5 DEF PendingTask
  <1>7. vault'[d] = m /\ OnlyOn(d)
    BY <1>1 DEF OnlyOn
  <1>8. Leaves(d, s, u, m, c, c)
    BY <1>1, <1>4, <1>5, <1>7 DEF Leaves, c
  <1>9. Passes(c, c, overridden')
    BY <1>1, PassesItself
  <1>10. PendingDevice(m, c, c, overridden')
    BY <1>1, <1>3, <1>9 DEF PendingDevice
  <1>11. QED
    BY <1>1, <1>6, <1>8, <1>9, <1>10, PendingStep DEF c

\* A refresh replaces a cache that has nothing pending.
LEMMA RefreshReplacePending ==
    ASSUME IInv, PInv, NoRefreshOverPending,
           NEW d \in Devices, NEW s \in Slots, OnlyCall(d, s), RefreshReplace(d, s)
    PROVE  PInv' /\ PendingPassed
  <1> DEFINE t == task[d][s]
             c == Clean(t.answer.blob, t.answer.revision)
             k == disk[d]
             u == [t EXCEPT !.pc = "store", !.held = c, !.after = "refreshed",
                            !.answer = NoAnswer]
  <1>1. /\ t \in Task /\ t.pc = "refreshGet" /\ UNCHANGED <<disk, status, overridden>>
        /\ vault \in [Devices -> Vault \cup {NoVault}]
        /\ cache \in [Devices -> Cache \cup {NoCache}]
        /\ k = cache[d] /\ k \in Cache \cup {NoCache}
        /\ (status[d] = "unauthenticated" => k = NoCache)
    BY PendingHere DEF RefreshReplace, ghosts
  <1>2. k # NoCache => ~k.pending
    BY <1>1 DEF NoRefreshOverPending, RefreshReplace
  <1>3. PICK v : vault' = [vault EXCEPT ![d] = v]
    BY DEF RefreshReplace
  <1>4. c.pending = FALSE
    BY DEF Clean
  <1>5. vault'[d] = v
    BY <1>1, <1>3
  <1>6. \A w : Kept(w, k, overridden')
    BY <1>2 DEF Kept
  <1>7. CASE k = NoCache /\ Finish(d, s) /\ UNCHANGED cache
    <2>1. SetTask(d, s, Idle) /\ Idle.pc = "idle"
      BY <1>7, FinishGood DEF Finish, Idle
    <2>2. PendingTask(Idle, k, k, overridden') /\ PendingDevice(v, k, k, overridden')
      BY <1>6, <2>1, FreePending DEF PendingDevice, Passes
    <2>3. Leaves(d, s, Idle, v, k, k)
      BY <1>1, <1>3, <1>5, <1>7, <2>1 DEF Leaves, OnlyOn
    <2>4. Passes(k, k, overridden')
      BY <1>6 DEF Passes
    <2>5. QED
      BY <1>1, <2>2, <2>3, <2>4, PendingStep
  <1>8. CASE k # NoCache /\ cache' = [cache EXCEPT ![d] = c] /\ SetTask(d, s, u)
    <2>1. u.pc = "store" /\ u.after = "refreshed"
      BY <1>1 DEF Task
    <2> HIDE DEF c, t, u
    <2>2. PendingTask(u, c, k, overridden')
      BY <2>1 DEF PendingTask
    <2>3. PendingDevice(v, c, k, overridden')
      BY <1>4, <1>6 DEF PendingDevice, Kept, Passes
    <2> HIDE DEF k
    <2>4. Leaves(d, s, u, v, c, k)
      BY <1>1, <1>3, <1>5, <1>8, <2>1 DEF Leaves, OnlyOn, k
    <2>5. Passes(k, c, overridden') /\ Passes(k, k, overridden')
      BY <1>6 DEF Passes
    <2>6. QED
      BY <1>1, <2>2, <2>3, <2>4, <2>5, PendingStep DEF k
  <1>9. QED
    BY <1>1, <1>7, <1>8 DEF RefreshReplace

\* A push without an answer becomes pending: it has what was pending before.
LEMMA UnreachablePending ==
    ASSUME IInv, SInv, PInv,
           NEW d \in Devices, NEW s \in Slots, OnlyCall(d, s), Unreachable(d, s)
    PROVE  PInv' /\ PendingPassed
  <1> DEFINE t == task[d][s]
             c == Pending(t.vault, t.revision)
             k == disk[d]
             v == vault[d]
             u == [t EXCEPT !.pc = "store", !.held = c, !.after = "pending",
                            !.answer = NoAnswer]
  <1>1. /\ t \in Task /\ t.pc \notin {"store", "reset"}
        /\ UNCHANGED <<vault, disk, status, overridden>>
        /\ cache \in [Devices -> Cache \cup {NoCache}]
        /\ PendingTask(t, k, k, overridden) /\ GoodTask(t, row.revision, accepted)
        /\ PendingDevice(v, k, k, overridden)
        /\ k = cache[d] /\ k \in Cache \cup {NoCache}
        /\ (status[d] = "unauthenticated" => k = NoCache)
    BY PendingHere DEF Unreachable, TimesOut, AtServer, ghosts
  <1>2. CASE Finish(d, s) /\ UNCHANGED cache
    <2>1. SetTask(d, s, Idle) /\ Idle.pc = "idle"
      BY <1>2, FinishGood DEF Finish, Idle
    <2>2. PendingTask(Idle, cache[d], disk[d], overridden) /\ UNCHANGED <<device, ghosts>>
      BY <1>2, <2>1, FreePending DEF Unreachable, device
    <2>3. QED
      BY <1>1, <2>1, <2>2, CallPending
  <1>3. CASE /\ t.pc \in {"put", "mergeGet"} /\ k # NoCache
             /\ cache' = [cache EXCEPT ![d] = c] /\ SetTask(d, s, u)
    <2>1. c.blob = t.vault /\ t.vault \in Vault
      BY <1>1, <1>3 DEF Pending, GoodTask
    <2>2. u.pc = "store" /\ u.after = "pending"
      BY <1>1 DEF Task
    <2>3. v \in {NoVault, t.vault}
      BY <1>3 DEF SInv, Coherent
    <2> HIDE DEF c, t, u, k, v
    <2>4. PendingTask(u, c, k, overridden')
      BY <2>2 DEF PendingTask
    <2>5. Leaves(d, s, u, v, c, k)
      BY <1>1, <1>3, <2>1, <2>2 DEF Leaves, OnlyOn, k, v
    <2>6. Passes(k, c, overridden') /\ Passes(k, k, overridden')
      BY <1>1, <1>3, <2>1, PassesItself DEF PendingTask, Passes
    <2>7. v # NoVault => Kept(v, c, overridden')
      BY <2>1, <2>3, RetainsItself DEF Kept
    <2>8. PendingDevice(v, c, k, overridden')
      BY <1>1, <2>6, <2>7 DEF PendingDevice
    <2>9. QED
      BY <1>1, <2>4, <2>5, <2>6, <2>8, PendingStep DEF k
  <1>4. QED
    BY <1>1, <1>2, <1>3 DEF Unreachable, KeptPending

\* The calls that end with the cache they hold, and a logout.
LEMMA EndsPending ==
    ASSUME IInv, SInv, PInv, NEW d \in Devices, NEW s \in Slots, OnlyCall(d, s),
           \/ Refused(d, s) \/ DeriveFails(d, s) \/ Unlocked(d, s) \/ LoggedOut(d, s)
           \/ StoredDone(d, s) \/ StoredPending(d, s) \/ StoredAssign(d, s)
           \/ StoredLoggedIn(d, s)
    PROVE  PInv' /\ PendingPassed
  <1> DEFINE t == task[d][s]
             h == t.held
             v == vault[d]
             c == cache[d]
             k == disk[d]
             O == overridden
  <1>1. /\ GoodTask(t, row.revision, accepted) /\ Coherent(v, c, t)
        /\ vault \in [Devices -> Vault \cup {NoVault}]
        /\ cache \in [Devices -> Cache \cup {NoCache}]
        /\ disk \in [Devices -> Cache \cup {NoCache}]
        /\ status \in [Devices -> Statuses]
        /\ v \in Vault \cup {NoVault} /\ c \in Cache \cup {NoCache} /\ k \in Cache \cup {NoCache}
        /\ PendingDevice(v, c, k, O) /\ PendingTask(t, c, k, O)
        /\ t.pc \notin {"store", "reset"} => k = c
        /\ status[d] = "unauthenticated" => c = NoCache
    BY PendingHere DEF SInv
  <1>2. t.pc \in {"store", "derive"} => h # NoCache /\ h \in Cache /\ h.blob \in Vault
    BY <1>1, NullAssumption DEF GoodTask, Cache
  <1>3. Finish(d, s) /\ UNCHANGED ghosts
    BY DEF Refused, DeriveFails, Unlocked, LoggedOut, StoredDone, StoredPending,
           StoredAssign, StoredLoggedIn
  <1>4. OnlyOn(d)
    BY <1>1 DEF OnlyOn, Refused, DeriveFails, Unlocked, LoggedOut, StoredDone, StoredPending,
           StoredAssign, StoredLoggedIn, device, Write
  <1>5. Passes(c, c, O) /\ Passes(k, k, O)
    BY <1>1, PassesItself
  <1>6. t.pc \in {"store", "derive"} =>
           Passes(h, h, O) /\ Kept(h.blob, h, O) /\ Passes(NoCache, h, O)
    BY <1>2, PassesItself DEF Passes, Kept
  <1> DEFINE Ends(w, x) ==
        /\ vault'[d] = w /\ cache'[d] = x /\ disk'[d] = x
        /\ w # NoVault => Kept(w, x, O)
        /\ status'[d] = "unauthenticated" => x = NoCache
        /\ Passes(x, x, O) /\ Passes(k, x, O) /\ (k = c => Passes(c, x, O))
  <1>7. ASSUME NEW w, NEW x, Ends(w, x)
        PROVE  PInv' /\ PendingPassed
    BY <1>3, <1>4, <1>7, FinishPending
  <1>8. CASE Refused(d, s) \/ DeriveFails(d, s)
    <2>1. t.pc \notin {"store", "reset"} /\ UNCHANGED <<vault, cache, disk, status>>
      BY <1>8 DEF Refused, DeriveFails, device, AtServer
    <2>2. Ends(v, c)
      BY <1>1, <1>5, <2>1 DEF PendingDevice
    <2>3. QED
      BY <1>7, <2>2
  <1>9. CASE Unlocked(d, s)
    <2>1. /\ t.pc = "derive" /\ h = c /\ k = c
          /\ vault'[d] = h.blob /\ UNCHANGED <<cache, disk>> /\ status'[d] = "unlocked"
      BY <1>1, <1>9 DEF Unlocked, Derives, Coherent
    <2>2. Ends(h.blob, h)
      BY <1>6, <2>1
    <2>3. QED
      BY <1>7, <2>2
  <1>10. CASE LoggedOut(d, s)
    <2>1. t.pc = "reset" /\ vault'[d] = NoVault /\ cache'[d] = NoCache /\ disk' = disk
      BY <1>1, <1>10 DEF LoggedOut
    <2>2. k = NoCache
      BY <1>1, <2>1 DEF PendingTask
    <2>3. Ends(NoVault, NoCache)
      BY <2>1, <2>2 DEF Passes
    <2>4. QED
      BY <1>7, <2>3
  <1>11. ASSUME t.pc = "store", h = c, NEW w \in {NoVault, v, h.blob},
                vault'[d] = w, cache'[d] = c, disk'[d] = h, status' = status
         PROVE  PInv' /\ PendingPassed
    <2>1. w # NoVault => Kept(w, h, O)
      BY <1>1, <1>6, <1>11 DEF PendingDevice
    <2>2. Passes(k, h, O)
      BY <1>1, <1>11 DEF PendingDevice
    <2>3. Ends(w, h)
      BY <1>1, <1>6, <1>11, <2>1, <2>2
    <2>4. QED
      BY <1>7, <2>3
  <1>12. CASE StoredDone(d, s) \/ StoredAssign(d, s)
    <2>1. t.pc = "store" /\ h = c
      BY <1>1, <1>12 DEF StoredDone, StoredAssign, Coherent
    <2>2. vault'[d] = v /\ cache'[d] = c /\ disk'[d] = h /\ status' = status
      BY <1>1, <1>12, <2>1 DEF StoredDone, StoredAssign, Write
    <2>3. QED
      BY <1>11, <2>1, <2>2
  <1>13. CASE StoredPending(d, s)
    <2>1. t.pc = "store" /\ h = c /\ h.blob = t.vault
      BY <1>1, <1>13 DEF StoredPending, Coherent
    <2>2. /\ vault'[d] \in {NoVault, h.blob} /\ cache'[d] = c /\ disk'[d] = h
          /\ status' = status
      BY <1>1, <1>13, <2>1 DEF StoredPending, Write
    <2>3. QED
      BY <1>11, <2>1, <2>2
  <1>14. CASE StoredLoggedIn(d, s)
    <2>1. /\ t.pc = "store" /\ c = NoCache /\ k = NoCache
          /\ vault'[d] = h.blob /\ cache'[d] = h /\ disk'[d] = h /\ status'[d] = "unlocked"
      BY <1>1, <1>14 DEF StoredLoggedIn, Write, PendingTask
    <2>2. Ends(h.blob, h)
      BY <1>6, <2>1
    <2>3. QED
      BY <1>7, <2>2
  <1>15. QED
    BY <1>8, <1>9, <1>10, <1>12, <1>13, <1>14

\* A refresh that goes on with what is pending.
LEMMA RefreshedPending ==
    ASSUME IInv, SInv, PInv, NEW d \in Devices, NEW s \in Slots, OnlyCall(d, s),
           RefreshIdle(d, s) \/ StoredRefreshed(d, s)
    PROVE  PInv' /\ PendingPassed
  <1> DEFINE t == task[d][s]
             p == Push(d, "syncAll", vault[d])
             v == vault[d]
             c == cache[d]
             k == disk[d]
             O == overridden
  <1>1. /\ Coherent(v, c, t) /\ disk \in [Devices -> Cache \cup {NoCache}]
        /\ c \in Cache \cup {NoCache} /\ PendingDevice(v, c, k, O)
        /\ t.pc \notin {"store", "reset"} => k = c
        /\ status[d] = "unauthenticated" => c = NoCache
    BY PendingHere DEF SInv
  <1>2. PushIfPending(d, s) /\ UNCHANGED <<vault, cache, status, overridden>>
    BY DEF RefreshIdle, StoredRefreshed, device, ghosts
  <1>3. disk'[d] = c /\ OnlyOn(d)
    BY <1>1, <1>2 DEF RefreshIdle, StoredRefreshed, device, Write, OnlyOn, Coherent
  <1>4. PICK u : SetTask(d, s, u) /\ (u = Idle \/ (u = p /\ HasPending(d)))
    BY <1>2 DEF PushIfPending, Finish
  <1>5. u.pc = "idle" \/ (u.pc = "put" /\ u.vault = v /\ v # NoVault)
    <2>1. p.pc = "put" /\ p.vault = v /\ Idle.pc = "idle"
      BY FinishGood DEF Push, Idle, Task
    <2> HIDE DEF p
    <2>2. QED
      BY <1>4, <2>1 DEF HasPending
  <1> HIDE DEF p, t
  <1>6. Passes(c, c, O) /\ Passes(k, c, O)
    BY <1>1, PassesItself DEF PendingDevice
  <1>7. PendingDevice(v, c, c, O) /\ PendingTask(u, c, c, O)
    BY <1>1, <1>5, <1>6 DEF PendingDevice, PendingTask
  <1>8. Leaves(d, s, u, v, c, c)
    BY <1>1, <1>2, <1>3, <1>4 DEF Leaves
  <1> HIDE DEF v, c, k
  <1>9. QED
    BY <1>2, <1>6, <1>7, <1>8, PendingStep DEF c, k, O

\* The steps from a captured cache to its writing, of a logout and of a login.
LEMMA StepsPending ==
    ASSUME IInv, SInv, PInv, NEW d \in Devices, NEW s \in Slots, OnlyCall(d, s),
           \/ BiometricsEnabled(d, s) \/ PasswordChanged(d, s) \/ Wiped(d, s)
           \/ LoginLoaded(d, s)
    PROVE  PInv' /\ PendingPassed
  <1> DEFINE t == task[d][s]
             c == cache[d]
             k == disk[d]
  <1>1. /\ t \in Task /\ Coherent(vault[d], c, t)
        /\ PendingTask(t, c, k, overridden) /\ PendingDevice(vault[d], c, k, overridden)
        /\ cache \in [Devices -> Cache \cup {NoCache}]
        /\ disk \in [Devices -> Cache \cup {NoCache}]
        /\ c \in Cache \cup {NoCache}
        /\ status[d] = "unauthenticated" => c = NoCache
    BY PendingHere DEF SInv
  <1>2. CASE BiometricsEnabled(d, s) \/ PasswordChanged(d, s)
    <2>1. PICK a \in {"done", "assign"} :
             SetTask(d, s, [t EXCEPT !.pc = "store", !.after = a])
      BY <1>2 DEF BiometricsEnabled, PasswordChanged
    <2> DEFINE u == [t EXCEPT !.pc = "store", !.after = a]
    <2>2. t.pc = "derive" /\ UNCHANGED ghosts
      BY <1>2 DEF BiometricsEnabled, PasswordChanged, Derives
    <2>3. UNCHANGED device
      <3>1. t.held = c
        BY <1>1, <2>2 DEF Coherent
      <3>2. [cache EXCEPT ![d] = c] = cache
        BY <1>1
      <3>3. QED
        BY <1>2, <3>1, <3>2 DEF BiometricsEnabled, PasswordChanged, device
    <2>4. SetTask(d, s, u)
      BY <2>1
    <2>5. PendingTask(u, c, k, overridden)
      <3> HIDE DEF t, c, k
      <3>1. u.pc = "store" /\ u.after = a
        BY <1>1 DEF Task
      <3>2. QED
        BY <3>1 DEF PendingTask
    <2> HIDE DEF u
    <2>6. QED
      BY <2>2, <2>3, <2>4, <2>5, CallPending
  <1>3. CASE Wiped(d, s)
    <2> DEFINE u == [t EXCEPT !.pc = "reset"]
    <2>1. /\ SetTask(d, s, u) /\ disk' = [disk EXCEPT ![d] = NoCache]
          /\ UNCHANGED <<vault, cache, status, overridden>>
      BY <1>3 DEF Wiped, ghosts
    <2>2. u.pc = "reset"
      BY <1>1 DEF Task
    <2> HIDE DEF t, u
    <2>3. disk'[d] = NoCache /\ OnlyOn(d)
      BY <1>1, <2>1 DEF OnlyOn
    <2>4. Leaves(d, s, u, vault[d], c, NoCache)
      BY <1>1, <2>1, <2>2, <2>3 DEF Leaves
    <2>5. PendingTask(u, c, NoCache, overridden')
      BY <2>2 DEF PendingTask
    <2>6. PendingDevice(vault[d], c, NoCache, overridden')
      BY <1>1, <2>1 DEF PendingDevice, Kept, Passes
    <2>7. Passes(k, NoCache, overridden') /\ Passes(c, c, overridden')
      BY <1>1, PassesItself DEF Passes
    <2>8. QED
      BY <2>4, <2>5, <2>6, <2>7, PendingStep
  <1>4. CASE LoginLoaded(d, s)
    <2> DEFINE h == Clean(t.answer.blob, t.answer.revision)
               u == [t EXCEPT !.pc = "store", !.after = "loggedIn", !.answer = NoAnswer,
                              !.held = h]
    <2>1. SetTask(d, s, u) /\ t.pc = "loginGet" /\ UNCHANGED <<device, ghosts>>
      BY <1>4 DEF LoginLoaded
    <2> HIDE DEF h
    <2>2. u.pc = "store"
      BY <1>1 DEF Task
    <2> HIDE DEF u
    <2>3. PendingTask(u, c, k, overridden)
      BY <1>1, <2>1, <2>2 DEF PendingTask
    <2>4. QED
      BY <2>1, <2>3, CallPending
  <1>5. QED
    BY <1>2, <1>3, <1>4

\* The lock clears what is shown, a restart goes on from the cache file.
LEMMA DevicePending ==
    ASSUME IInv, PInv, NEW d \in Devices, OpenDraft(d) \/ Lock(d) \/ Restart(d)
    PROVE  PInv' /\ PendingPassed
  <1>1. /\ vault \in [Devices -> Vault \cup {NoVault}]
        /\ cache \in [Devices -> Cache \cup {NoCache}]
        /\ disk \in [Devices -> Cache \cup {NoCache}]
        /\ status \in [Devices -> Statuses]
        /\ task \in [Devices -> [Slots -> Task]]
        /\ overridden' = overridden
    BY DEF IInv, TypeOK, OpenDraft, Lock, Restart, ghosts
  <1>2. \A e \in Devices : /\ Passes(disk[e], disk[e], overridden)
                           /\ Passes(cache[e], cache[e], overridden)
    BY <1>1, PassesItself
  <1>3. CASE OpenDraft(d)
    BY <1>1, <1>2, <1>3 DEF OpenDraft, PInv, PendingPassed, Settled
  <1>4. CASE Lock(d)
    <2>1. /\ vault' = [vault EXCEPT ![d] = NoVault] /\ status' = [status EXCEPT ![d] = "locked"]
          /\ UNCHANGED <<cache, disk, task>>
      BY <1>4 DEF Lock
    <2>2. \A e \in Devices :
             /\ PendingDevice(vault'[e], cache[e], disk[e], overridden)
             /\ status'[e] = "unauthenticated" => cache[e] = NoCache
      BY <1>1, <2>1 DEF PInv, PendingDevice
    <2>3. QED
      BY <1>1, <1>2, <2>1, <2>2 DEF PInv, PendingPassed, Settled
  <1>5. CASE Restart(d)
    <2>1. PICK c \in {disk[d], NoCache} :
              /\ disk' = [disk EXCEPT ![d] = c] /\ cache' = [cache EXCEPT ![d] = c]
              /\ status' = [status EXCEPT ![d] = IF c = NoCache THEN "unauthenticated"
                                                 ELSE "locked"]
      BY <1>5 DEF Restart, Loaded
    <2>2. /\ vault' = [vault EXCEPT ![d] = NoVault]
          /\ task' = [task EXCEPT ![d] = [s \in Slots |-> Idle]]
      BY <1>5 DEF Restart
    <2>3. c \in Cache \cup {NoCache} /\ Passes(c, c, overridden) /\ Passes(disk[d], c, overridden)
      BY <1>1, <1>2, <2>1, PassesItself DEF Passes
    <2>4. ASSUME NEW e \in Devices
          PROVE  /\ PendingDevice(vault'[e], cache'[e], disk'[e], overridden)
                 /\ Settled(e)' => disk'[e] = cache'[e]
                 /\ status'[e] = "unauthenticated" => cache'[e] = NoCache
                 /\ Passes(disk[e], disk'[e], overridden)
                 /\ disk[e] = cache[e] => Passes(cache[e], cache'[e], overridden)
      <3>1. CASE e = d
        BY <1>1, <2>1, <2>2, <2>3, <3>1 DEF PendingDevice
      <3>2. CASE e # d
        BY <1>1, <1>2, <2>1, <2>2, <3>2 DEF PInv, Settled
      <3>3. QED
        BY <3>1, <3>2
    <2>5. ASSUME NEW e \in Devices, NEW s \in Slots
          PROVE  PendingTask(task'[e][s], cache'[e], disk'[e], overridden)
      <3>1. CASE e = d
        <4>1. task'[e][s] = Idle /\ Idle.pc = "idle"
          BY <1>1, <2>2, <3>1 DEF Idle
        <4>2. QED
          BY <4>1, FreePending
      <3>2. CASE e # d
        BY <1>1, <2>1, <2>2, <3>2 DEF PInv
      <3>3. QED
        BY <3>1, <3>2
    <2>6. QED
      BY <1>1, <2>4, <2>5 DEF PInv, PendingPassed
  <1>6. QED
    BY <1>3, <1>4, <1>5

\* Every step keeps what is pending, but a refresh that finds something new over it.
LEMMA NextPInv ==
    ASSUME ClocksAgree
    PROVE  /\ IInv /\ SInv /\ EInv /\ PInv /\ NoRefreshOverPending
           /\ OneCallAtATime /\ OneCallAtATime' /\ [FreshDrafts]_vars /\ [Next]_vars
           => PInv' /\ PendingPassed
  <1> SUFFICES ASSUME IInv, SInv, EInv, PInv, NoRefreshOverPending,
                      OneCallAtATime, OneCallAtATime', [FreshDrafts]_vars, [Next]_vars
               PROVE  PInv' /\ PendingPassed
    OBVIOUS
  <1>1. CASE UNCHANGED <<vault, cache, disk, status, task, overridden>>
    <2>1. \A e \in Devices : /\ Passes(disk[e], disk[e], overridden)
                             /\ Passes(cache[e], cache[e], overridden)
      BY PassesItself DEF IInv, TypeOK
    <2>2. QED
      BY <1>1, <2>1 DEF PInv, PendingPassed, Settled
  <1>2. ASSUME NEW d \in Devices, NEW s \in Slots, Begin(d, s)
        PROVE  PInv' /\ PendingPassed
    <2>1. CASE SaveDraft(d, s)
      <3>1. CASE FreshDrafts
        <4>1. draft[d] = vault[d]
          BY <2>1, <3>1 DEF FreshDrafts
        <4>2. QED
          BY <1>2, <2>1, <4>1, Alone, SavePending
      <3>2. CASE UNCHANGED vars
        BY <1>1, <3>2 DEF vars
      <3>3. QED
        BY <3>1, <3>2
    <2>2. CASE ~SaveDraft(d, s)
      BY <1>2, <2>2, Alone, SavePending, ResolvePending, OthersPending DEF Begin
    <2>3. QED
      BY <2>1, <2>2
  <1>3. ASSUME NEW d \in Devices, NEW s \in Slots, Serve(d, s) \/ Continue(d, s)
        PROVE  PInv' /\ PendingPassed
    BY <1>3, Alone, AnswersPending, PutAcceptedPending, MergeRemotePending, RefreshedPending,
       RefreshReplacePending, EndsPending, UnreachablePending, StepsPending DEF Continue
  <1>4. CASE ServeLate
    BY <1>1, <1>4 DEF ServeLate, device, ghosts
  <1>5. CASE UNCHANGED vars
    BY <1>1, <1>5 DEF vars
  <1>6. QED
    BY <1>2, <1>3, <1>4, <1>5, DevicePending DEF Next

\* On devices that make one call at a time, whose clocks agree and whose edit screens are
\* not left open over a change of the vault, no edit kept as pending is missing from the
\* cache that replaces it, whatever pushes fail, wherever the app is killed and started
\* again, unless a refresh finds something new while it is pending: refreshFromServer alone,
\* which clears the mark without having pushed the edit, can lose it (_pushVault,
\* _persistPending, syncPendingChanges, _init).
THEOREM OnlyRefreshDropsPending ==
    ASSUME ClocksAgree
    PROVE  Spec /\ []OneCallAtATime /\ [][FreshDrafts]_vars /\ []NoRefreshOverPending
           => PendingEditsKept
  <1>1. Init => PInv
    <2> SUFFICES ASSUME Init PROVE PInv
      OBVIOUS
    <2> DEFINE c == Clean(InitialVault, 1)
    <2>1. c.pending = FALSE /\ c.blob = InitialVault
      BY DEF Clean
    <2>2. \A d \in Devices : /\ vault[d] = InitialVault /\ cache[d] = c /\ disk[d] = c
                             /\ status[d] = "unlocked"
                             /\ \A s \in Slots : task[d][s] = Idle
      BY DEF Init
    <2> HIDE DEF c
    <2>3. PendingDevice(InitialVault, c, c, overridden)
      BY <2>1 DEF PendingDevice, Passes, Kept
    <2>4. PendingTask(Idle, c, c, overridden)
      BY FreePending DEF Idle
    <2>5. QED
      BY <2>2, <2>3, <2>4 DEF PInv
  <1>2. QED
    BY <1>1, InitEInv, NextEInv, NextPInv, CoherentAlways, PTL DEF Spec, PendingEditsKept

----------------------------------------------------------------------------
(* Calls end: what they have left to do                                    *)

\* The waits that a call may still go through.  A push that is refused three times
\* goes through three PUTs and three downloads; a synchronisation goes through a
\* download and a write before it pushes.
Stage(t) ==
    CASE t.pc = "idle" -> 0
      [] t.pc = "store" /\ t.after # "refreshed" -> 1
      [] t.pc = "reset" -> 1
      [] t.pc \in {"derive", "wipe", "loginGet"} -> 2
      [] t.pc = "mergeGet" -> 10 - 4 * t.attempt
      [] t.pc = "put" -> 12 - 4 * t.attempt
      [] t.pc = "store" /\ t.after = "refreshed" -> 14
      [] t.pc = "refreshGet" -> 15

\* And the answer it waits for.
Unanswered(t) == t.pc \in AtServer /\ t.answer.type = "none"
Left(t) == Stage(t) + (IF Unanswered(t) THEN 1 ELSE 0)

\* A step of a call in progress brings it nearer to its end.
Nearer(t, u) == u = t \/ t.pc = "idle" \/ Left(u) < Left(t)
Advance == \A d \in Devices, s \in Slots : Nearer(task[d][s], task'[d][s])

\* What is left at each wait.
LEMMA LeftAt ==
    ASSUME NEW t \in Task
    PROVE  /\ Left(t) \in 0..16
           /\ Left(t) = 0 <=> t.pc = "idle"
           /\ t.pc = "store" /\ t.after # "refreshed" => Left(t) = 1
           /\ t.pc = "reset" => Left(t) = 1
           /\ t.pc \in {"derive", "wipe"} => Left(t) = 2
           /\ t.pc = "loginGet" => Left(t) \in 2..3
           /\ t.pc = "mergeGet" => Left(t) \in {10 - 4 * t.attempt, 11 - 4 * t.attempt}
           /\ t.pc = "put" => Left(t) \in {12 - 4 * t.attempt, 13 - 4 * t.attempt}
           /\ t.pc = "store" /\ t.after = "refreshed" => Left(t) = 14
           /\ t.pc = "refreshGet" => Left(t) \in 15..16
           /\ t.pc \in AtServer /\ t.answer.type # "none" => Left(t) = Stage(t)
           /\ t.pc \in AtServer /\ t.answer.type = "none" => Left(t) = Stage(t) + 1
  <1>1. t.pc \in Waits /\ t.attempt \in 0..2
    BY DEF Task
  <1>2. CASE t.pc \in {"idle", "reset", "derive", "wipe"}
    BY <1>2 DEF Left, Stage, Unanswered, AtServer
  <1>3. CASE t.pc = "store"
    BY <1>3 DEF Left, Stage, Unanswered, AtServer
  <1>4. CASE t.pc \in AtServer
    BY <1>1, <1>4 DEF Left, Stage, Unanswered, AtServer
  <1>5. QED
    BY <1>1, <1>2, <1>3, <1>4 DEF Waits, AtServer

\* One slot changes.
LEMMA SlotAdvances ==
    ASSUME IInv, NEW d \in Devices, NEW s \in Slots, NEW u, SetTask(d, s, u),
           Nearer(task[d][s], u)
    PROVE  Advance
  BY DEF IInv, TypeOK, SetTask, Nearer, Advance

\* A call that ends is at its end.
LEMMA FinishAdvances ==
    ASSUME IInv, NEW d \in Devices, NEW s \in Slots, Finish(d, s)
    PROVE  Advance
  <1>1. Nearer(task[d][s], Idle)
    <2>1. task[d][s] \in Task /\ Idle \in Task /\ Idle.pc = "idle"
      BY IdleGood DEF IInv, TypeOK, Idle
    <2>2. Left(Idle) = 0 /\ Left(task[d][s]) \in 0..16
          /\ (Left(task[d][s]) = 0 <=> task[d][s].pc = "idle")
      BY <2>1, LeftAt
    <2>3. QED
      BY <2>2 DEF Nearer
  <1>2. QED
    BY <1>1, SlotAdvances DEF Finish

\* An answer arrives.
LEMMA AnswerAdvances ==
    ASSUME IInv, NEW d \in Devices, NEW s \in Slots, NEW a,
           task[d][s].pc \in AtServer, task[d][s].answer.type = "none", a.type # "none",
           SetTask(d, s, [task[d][s] EXCEPT !.answer = a])
    PROVE  Advance
  <1>1. task[d][s] \in Task
    BY DEF IInv, TypeOK
  <1> DEFINE t == task[d][s]
             u == [t EXCEPT !.answer = a]
  <1>2. u.pc = t.pc /\ u.after = t.after /\ u.attempt = t.attempt /\ u.answer = a
    BY <1>1 DEF Task
  <1>3. SetTask(d, s, u)
    OBVIOUS
  <1>4. Unanswered(t)
    BY DEF Unanswered
  <1> HIDE DEF t, u
  <1>5. Stage(u) = Stage(t) /\ ~Unanswered(u)
    BY <1>2 DEF Stage, Unanswered
  <1>6. Stage(t) \in Int
    BY <1>1 DEF Stage, Task, Waits, t
  <1>7. Left(u) < Left(t)
    BY <1>4, <1>5, <1>6 DEF Left
  <1>8. QED
    BY <1>3, <1>7, SlotAdvances DEF Nearer, t

\* The server answers.
LEMMA ServeAdvances ==
    ASSUME IInv, NEW d \in Devices, NEW s \in Slots, Serve(d, s)
    PROVE  Advance
  <1>1. CASE ServePut(d, s)
    <2> DEFINE ok == [type |-> "ok", revision |-> task[d][s].revision + 1, blob |-> NoVault]
               conflict == [NoAnswer EXCEPT !.type = "conflict"]
    <2>1. ok.type # "none" /\ conflict.type # "none"
      BY DEF NoAnswer
    <2>2. task[d][s].pc \in AtServer /\ task[d][s].answer.type = "none"
      BY <1>1 DEF ServePut, AtServer
    <2>3. \/ SetTask(d, s, [task[d][s] EXCEPT !.answer = ok])
          \/ SetTask(d, s, [task[d][s] EXCEPT !.answer = conflict])
      BY <1>1 DEF ServePut
    <2> HIDE DEF ok, conflict
    <2>4. QED
      BY <2>1, <2>2, <2>3, AnswerAdvances
  <1>2. CASE ServeGet(d, s)
    <2> DEFINE a == [type |-> "vault", revision |-> row.revision, blob |-> row.blob]
    <2>1. a.type # "none"
      OBVIOUS
    <2>2. /\ task[d][s].pc \in AtServer /\ task[d][s].answer.type = "none"
          /\ SetTask(d, s, [task[d][s] EXCEPT !.answer = a])
      BY <1>2 DEF ServeGet
    <2> HIDE DEF a
    <2>3. QED
      BY <2>1, <2>2, AnswerAdvances
  <1>3. CASE ServeError(d, s)
    <2> DEFINE a == [NoAnswer EXCEPT !.type = "error"]
    <2>1. a.type # "none"
      BY DEF NoAnswer
    <2>2. /\ task[d][s].pc \in AtServer /\ task[d][s].answer.type = "none"
          /\ SetTask(d, s, [task[d][s] EXCEPT !.answer = a])
      BY <1>3 DEF ServeError
    <2> HIDE DEF a
    <2>3. QED
      BY <2>1, <2>2, AnswerAdvances
  <1>4. QED
    BY <1>1, <1>2, <1>3 DEF Serve

\* A call that goes on goes to a wait with less behind it.
LEMMA OnwardAdvances ==
    ASSUME IInv, IInv', NEW d \in Devices, NEW s \in Slots, NEW u, SetTask(d, s, u),
           u \in Task => Left(u) < Left(task[d][s])
    PROVE  Advance
  <1>1. u \in Task
    BY DEF IInv, TypeOK, SetTask
  <1>2. QED
    BY <1>1, SlotAdvances DEF Nearer

\* After a PUT.
LEMMA PutAdvances ==
    ASSUME IInv, IInv', NEW d \in Devices, NEW s \in Slots,
           PutAccepted(d, s) \/ PutConflict(d, s) \/ MergeRemote(d, s)
    PROVE  Advance
  <1> DEFINE t == task[d][s]
  <1>1. t \in Task /\ t.attempt \in 0..2
    BY DEF IInv, TypeOK, Task
  <1>2. CASE Finish(d, s)
    BY <1>2, FinishAdvances
  <1>3. CASE PutAccepted(d, s) /\ ~Finish(d, s)
    <2> DEFINE c == Pushed(d, t)
               u == [t EXCEPT !.pc = "store", !.held = c, !.after = "done", !.answer = NoAnswer]
    <2>1. SetTask(d, s, u) /\ t.pc = "put"
      BY <1>3 DEF PutAccepted
    <2>2. u.pc = "store" /\ u.after = "done"
      BY <1>1 DEF Task
    <2> HIDE DEF u, t
    <2>3. u \in Task => Left(u) = 1
      BY <2>2, LeftAt
    <2>4. Left(t) \in {12 - 4 * t.attempt, 13 - 4 * t.attempt}
      BY <1>1, <2>1, LeftAt
    <2>5. u \in Task => Left(u) < Left(t)
      BY <1>1, <2>3, <2>4
    <2>6. QED
      BY <2>1, <2>5, OnwardAdvances DEF t
  <1>4. CASE PutConflict(d, s)
    <2> DEFINE u == [t EXCEPT !.pc = "mergeGet", !.answer = NoAnswer]
    <2>1. SetTask(d, s, u) /\ t.pc = "put"
      BY <1>4 DEF PutConflict
    <2>2. u.pc = "mergeGet" /\ u.attempt = t.attempt
      BY <1>1 DEF Task
    <2> HIDE DEF u, t
    <2>3. u \in Task => Left(u) \in {10 - 4 * t.attempt, 11 - 4 * t.attempt}
      BY <2>2, LeftAt
    <2>4. Left(t) \in {12 - 4 * t.attempt, 13 - 4 * t.attempt}
      BY <1>1, <2>1, LeftAt
    <2>5. u \in Task => Left(u) < Left(t)
      BY <1>1, <2>3, <2>4
    <2>6. QED
      BY <2>1, <2>5, OnwardAdvances DEF t
  <1>5. CASE MergeRemote(d, s) /\ ~Finish(d, s)
    <2> DEFINE m == MergeVaults(t.vault, t.answer.blob)
               u == Retry(t, m)
    <2>1. SetTask(d, s, u) /\ t.pc = "mergeGet" /\ t.answer.type = "vault"
      BY <1>5 DEF MergeRemote
    <2>2. u.pc = "put" /\ u.attempt = t.attempt + 1 /\ u.answer.type = "none"
      BY <1>1 DEF Retry, Task, NoAnswer
    <2> HIDE DEF u, t
    <2>3. u \in Task => Left(u) \in {12 - 4 * u.attempt, 13 - 4 * u.attempt}
      BY <2>2, LeftAt
    <2>4. Left(t) \in {10 - 4 * t.attempt, 11 - 4 * t.attempt}
      BY <1>1, <2>1, LeftAt
    <2>5. u \in Task => Left(u) < Left(t)
      BY <1>1, <2>2, <2>3, <2>4
    <2>6. QED
      BY <2>1, <2>5, OnwardAdvances DEF t
  <1>6. QED
    BY <1>2, <1>3, <1>4, <1>5

\* The second half of a synchronisation.
LEMMA PushIfPendingAdvances ==
    ASSUME IInv, IInv', NEW d \in Devices, NEW s \in Slots, PushIfPending(d, s),
           Left(task[d][s]) > 13
    PROVE  Advance
  <1>1. CASE Finish(d, s)
    BY <1>1, FinishAdvances
  <1>2. CASE ~Finish(d, s)
    <2> DEFINE u == Push(d, "syncAll", vault[d])
    <2>1. SetTask(d, s, u)
      BY <1>2 DEF PushIfPending
    <2>2. u.pc = "put" /\ u.attempt = 0
      BY DEF Push, Idle
    <2> HIDE DEF u
    <2>3. u \in Task => Left(u) \in {12 - 4 * u.attempt, 13 - 4 * u.attempt}
      BY <2>2, LeftAt
    <2>4. u \in Task => Left(u) < Left(task[d][s])
      <3>1. task[d][s] \in Task
        BY DEF IInv, TypeOK
      <3>2. Left(task[d][s]) \in 0..16
        BY <3>1, LeftAt
      <3>3. QED
        BY <2>2, <2>3, <3>2
    <2>5. QED
      BY <2>1, <2>4, OnwardAdvances
  <1>3. QED
    BY <1>1, <1>2

\* A synchronisation has its answer, or has stored it.
LEMMA RefreshAdvances ==
    ASSUME IInv, IInv', NEW d \in Devices, NEW s \in Slots,
           RefreshIdle(d, s) \/ RefreshReplace(d, s) \/ StoredRefreshed(d, s)
    PROVE  Advance
  <1> DEFINE t == task[d][s]
  <1>1. t \in Task
    BY DEF IInv, TypeOK
  <1>2. CASE RefreshIdle(d, s)
    <2>1. PushIfPending(d, s) /\ t.pc = "refreshGet"
      BY <1>2 DEF RefreshIdle
    <2>2. Left(t) \in 15..16
      BY <1>1, <2>1, LeftAt
    <2>3. QED
      BY <2>1, <2>2, PushIfPendingAdvances
  <1>3. CASE StoredRefreshed(d, s)
    <2>1. PushIfPending(d, s) /\ t.pc = "store" /\ t.after = "refreshed"
      BY <1>3 DEF StoredRefreshed
    <2>2. Left(t) = 14
      BY <1>1, <2>1, LeftAt
    <2>3. QED
      BY <2>1, <2>2, PushIfPendingAdvances
  <1>4. CASE RefreshReplace(d, s) /\ Finish(d, s)
    BY <1>4, FinishAdvances
  <1>5. CASE RefreshReplace(d, s) /\ ~Finish(d, s)
    <2> DEFINE c == Clean(t.answer.blob, t.answer.revision)
               u == [t EXCEPT !.pc = "store", !.held = c, !.after = "refreshed",
                              !.answer = NoAnswer]
    <2>1. SetTask(d, s, u) /\ t.pc = "refreshGet"
      BY <1>5 DEF RefreshReplace
    <2>2. u.pc = "store" /\ u.after = "refreshed"
      BY <1>1 DEF Task
    <2> HIDE DEF u, t
    <2>3. u \in Task => Left(u) = 14
      BY <2>2, LeftAt
    <2>4. Left(t) \in 15..16
      BY <1>1, <2>1, LeftAt
    <2>5. u \in Task => Left(u) < Left(t)
      BY <2>3, <2>4
    <2>6. QED
      BY <2>1, <2>5, OnwardAdvances DEF t
  <1>6. QED
    BY <1>2, <1>3, <1>4, <1>5

\* A call that gives up on the server, or goes on to write the cache file.
LEMMA StoreAdvances ==
    ASSUME IInv, IInv', NEW d \in Devices, NEW s \in Slots, NEW u, SetTask(d, s, u),
           task[d][s].pc \in AtServer \cup {"derive"},
           u.pc = "store", u.after # "refreshed"
    PROVE  Advance
  <1>1. task[d][s] \in Task
    BY DEF IInv, TypeOK
  <1>2. u \in Task => Left(u) = 1
    BY LeftAt
  <1>3. Left(task[d][s]) > 1
    <2> DEFINE t == task[d][s]
    <2>1. t.attempt \in 0..2
      BY <1>1 DEF Task
    <2> HIDE DEF t
    <2>2. \/ Left(t) = 2 \/ Left(t) \in 2..3 \/ Left(t) \in 15..16
          \/ Left(t) \in {10 - 4 * t.attempt, 11 - 4 * t.attempt}
          \/ Left(t) \in {12 - 4 * t.attempt, 13 - 4 * t.attempt}
      BY <1>1, LeftAt DEF AtServer, t
    <2>3. QED
      BY <2>1, <2>2 DEF t
  <1>4. QED
    BY <1>2, <1>3, OnwardAdvances

LEMMA WritingAdvances ==
    ASSUME IInv, IInv', NEW d \in Devices, NEW s \in Slots,
           \/ Unreachable(d, s) \/ LoginLoaded(d, s)
           \/ BiometricsEnabled(d, s) \/ PasswordChanged(d, s)
    PROVE  Advance
  <1> DEFINE t == task[d][s]
  <1>1. t \in Task
    BY DEF IInv, TypeOK
  <1>2. CASE Unreachable(d, s) /\ Finish(d, s)
    BY <1>2, FinishAdvances
  <1>3. CASE Unreachable(d, s) /\ ~Finish(d, s)
    <2> DEFINE c == KeptPending(t)
               u == [t EXCEPT !.pc = "store", !.held = c, !.after = "pending",
                              !.answer = NoAnswer]
    <2>1. SetTask(d, s, u) /\ t.pc \in AtServer
      BY <1>3 DEF Unreachable, TimesOut
    <2>2. u.pc = "store" /\ u.after # "refreshed"
      BY <1>1 DEF Task
    <2> HIDE DEF u
    <2>3. QED
      BY <2>1, <2>2, StoreAdvances
  <1>4. CASE LoginLoaded(d, s)
    <2> DEFINE u == [t EXCEPT !.pc = "store", !.after = "loggedIn", !.answer = NoAnswer,
                              !.held = Clean(t.answer.blob, t.answer.revision)]
    <2>1. SetTask(d, s, u) /\ t.pc \in AtServer
      BY <1>4 DEF LoginLoaded, AtServer
    <2>2. u.pc = "store" /\ u.after # "refreshed"
      BY <1>1 DEF Task
    <2> HIDE DEF u
    <2>3. QED
      BY <2>1, <2>2, StoreAdvances
  <1>5. CASE BiometricsEnabled(d, s)
    <2> DEFINE u == [t EXCEPT !.pc = "store", !.after = "done"]
    <2>1. SetTask(d, s, u) /\ t.pc = "derive"
      BY <1>5 DEF BiometricsEnabled, Derives
    <2>2. u.pc = "store" /\ u.after # "refreshed"
      BY <1>1 DEF Task
    <2> HIDE DEF u
    <2>3. QED
      BY <2>1, <2>2, StoreAdvances
  <1>6. CASE PasswordChanged(d, s)
    <2> DEFINE u == [t EXCEPT !.pc = "store", !.after = "assign"]
    <2>1. SetTask(d, s, u) /\ t.pc = "derive"
      BY <1>6 DEF PasswordChanged, Derives
    <2>2. u.pc = "store" /\ u.after # "refreshed"
      BY <1>1 DEF Task
    <2> HIDE DEF u
    <2>3. QED
      BY <2>1, <2>2, StoreAdvances
  <1>7. QED
    BY <1>2, <1>3, <1>4, <1>5, <1>6

\* Logout goes on from one half to the other.
LEMMA WipedAdvances ==
    ASSUME IInv, IInv', NEW d \in Devices, NEW s \in Slots, Wiped(d, s)
    PROVE  Advance
  <1> DEFINE t == task[d][s]
             u == [t EXCEPT !.pc = "reset"]
  <1>1. t \in Task
    BY DEF IInv, TypeOK
  <1>2. SetTask(d, s, u) /\ t.pc = "wipe"
    BY DEF Wiped
  <1>3. u.pc = "reset"
    BY <1>1 DEF Task
  <1> HIDE DEF u, t
  <1>4. u \in Task => Left(u) < Left(t)
    BY <1>1, <1>2, <1>3, LeftAt
  <1>5. QED
    BY <1>2, <1>4, OnwardAdvances DEF t

LEMMA ContinueAdvances ==
    ASSUME IInv, IInv', NEW d \in Devices, NEW s \in Slots, Continue(d, s)
    PROVE  Advance
  <1>1. CASE \/ Refused(d, s) \/ StoredDone(d, s) \/ StoredPending(d, s)
             \/ StoredAssign(d, s) \/ StoredLoggedIn(d, s)
             \/ DeriveFails(d, s) \/ Unlocked(d, s) \/ LoggedOut(d, s)
    BY <1>1, FinishAdvances
       DEF Refused, StoredDone, StoredPending, StoredAssign, StoredLoggedIn, DeriveFails,
           Unlocked, LoggedOut
  <1>2. QED
    BY <1>1, PutAdvances, RefreshAdvances, WritingAdvances, WipedAdvances DEF Continue

\* A call begins in a slot where nothing was in progress.
LEMMA BeginAdvances ==
    ASSUME IInv, NEW d \in Devices, NEW s \in Slots, Begin(d, s)
    PROVE  Advance
  <1>1. task[d][s].pc = "idle" /\ \E u : SetTask(d, s, u)
    BY DEF Begin, Save, SaveDraft, SyncPendingChanges, ApplyConflictResolutions, SyncAll,
           Capture, DisableBiometrics, Logout, Login, Starts
  <1>2. QED
    BY <1>1, SlotAdvances DEF Nearer

\* The process ends, and every call of the device with it.
LEMMA RestartAdvances ==
    ASSUME IInv, NEW d \in Devices, Restart(d)
    PROVE  Advance
  <1>1. SUFFICES ASSUME NEW e \in Devices, NEW s \in Slots
                 PROVE  Nearer(task[e][s], task'[e][s])
    BY DEF Advance
  <1>2. task[e][s] \in Task
    BY DEF IInv, TypeOK
  <1>3. task'[e][s] = task[e][s] \/ task'[e][s] = Idle
    BY DEF Restart, IInv, TypeOK
  <1>4. Idle \in Task /\ Idle.pc = "idle"
    BY IdleGood DEF IInv, TypeOK, Idle
  <1>5. Left(Idle) = 0 /\ Left(task[e][s]) \in 0..16
        /\ (Left(task[e][s]) = 0 <=> task[e][s].pc = "idle")
    BY <1>2, <1>4, LeftAt
  <1>6. QED
    BY <1>3, <1>5 DEF Nearer

LEMMA NextAdvances == IInv /\ IInv' /\ [Next]_vars => Advance
  <1>1. SUFFICES ASSUME IInv, IInv', [Next]_vars PROVE Advance
    OBVIOUS
  <1>2. CASE UNCHANGED task
    BY <1>2 DEF Advance, Nearer
  <1>3. CASE \E d \in Devices, s \in Slots : Begin(d, s) \/ Serve(d, s) \/ Continue(d, s)
    BY <1>1, <1>3, BeginAdvances, ServeAdvances, ContinueAdvances
  <1>4. CASE \E d \in Devices : Restart(d)
    BY <1>1, <1>4, RestartAdvances
  <1>5. UNCHANGED task \/ (Next /\ ~UNCHANGED task)
    BY <1>1 DEF vars
  <1>6. CASE Next /\ ~UNCHANGED task
    BY <1>1, <1>2, <1>3, <1>4, <1>6 DEF Next, OpenDraft, Lock, ServeLate
  <1>7. QED
    BY <1>2, <1>5, <1>6

\* What is left is a number up to sixteen, and 0 just when the call has ended.
LeftIsBounded ==
    \A d \in Devices, s \in Slots :
        /\ Left(task[d][s]) \in 0..16
        /\ Left(task[d][s]) = 0 <=> task[d][s].pc = "idle"

\* Between its beginning and its end a call takes at most sixteen steps, whatever the
\* server answers and however often its push is refused: each step of a call in
\* progress lowers what is left (client.timeout, and the attempts of _pushVault).
\* CallsEnd follows when a call in progress does take its next step.
THEOREM CallsAreFinite == Spec => []LeftIsBounded /\ [][Advance]_vars
  <1>1. IInv => LeftIsBounded
    BY LeftAt DEF IInv, TypeOK, LeftIsBounded
  <1>2. IInv /\ IInv' /\ [Next]_vars => [Advance]_vars
    BY NextAdvances
  <1>3. QED
    BY <1>1, <1>2, Inductive, PTL DEF Spec

----------------------------------------------------------------------------
(* What a lock and a logout leave behind                                   *)

\* No download is awaited on a device that is not unlocked.
NoDownloadWhileLocked ==
    \A d \in Devices, s \in Slots :
        status[d] # "unlocked" => task[d][s].pc \notin {"mergeGet", "refreshGet"}

\* One device's vault and status at a time.
LEMMA LockedOn ==
    ASSUME TypeOK, LockedHasNoVault, NEW d \in Devices,
           \A e \in Devices \ {d} : status'[e] = status[e] /\ vault'[e] = vault[e],
           status'[d] # "unlocked" => vault'[d] = NoVault
    PROVE  LockedHasNoVault'
  BY DEF LockedHasNoVault, TypeOK

LEMMA BeginLocked ==
    ASSUME TypeOK, LockedHasNoVault, NEW d \in Devices, NEW s \in Slots, Begin(d, s)
    PROVE  LockedHasNoVault'
  <1>1. CASE Save(d, s) \/ SaveDraft(d, s) \/ ApplyConflictResolutions(d, s)
    <2>1. status[d] = "unlocked" /\ status' = status
          /\ \A e \in Devices \ {d} : vault'[e] = vault[e]
      BY <1>1 DEF Save, SaveDraft, ApplyConflictResolutions, HasSecrets, TypeOK
    <2>2. QED
      BY <2>1, LockedOn
  <1>2. CASE UNCHANGED <<status, vault>>
    BY <1>2 DEF LockedHasNoVault
  <1>3. QED
    BY <1>1, <1>2 DEF Begin, SyncPendingChanges, SyncAll, Capture, DisableBiometrics,
                      Logout, Login, device

LEMMA ContinueLocked ==
    ASSUME TypeOK, LockedHasNoVault, NoDownloadWhileLocked,
           NEW d \in Devices, NEW s \in Slots, Continue(d, s)
    PROVE  LockedHasNoVault'
  <1>1. CASE MergeRemote(d, s) \/ RefreshReplace(d, s)
    <2>1. task[d][s].pc \in {"mergeGet", "refreshGet"} /\ status' = status
          /\ \A e \in Devices \ {d} : vault'[e] = vault[e]
      BY <1>1 DEF MergeRemote, RefreshReplace, Show, TypeOK
    <2>2. status[d] = "unlocked"
      BY <2>1 DEF NoDownloadWhileLocked
    <2>3. QED
      BY <2>1, <2>2, LockedOn
  <1>2. CASE StoredPending(d, s)
    <2>1. status' = status /\ \A e \in Devices \ {d} : vault'[e] = vault[e]
      BY <1>2 DEF StoredPending, TypeOK
    <2>2. vault[d] = NoVault => vault'[d] = NoVault
      BY <1>2 DEF StoredPending
    <2>3. QED
      BY <2>1, <2>2, LockedOn DEF LockedHasNoVault
  <1>3. CASE StoredLoggedIn(d, s) \/ Unlocked(d, s) \/ LoggedOut(d, s)
    <2>1. /\ status'[d] # "unlocked" => vault'[d] = NoVault
          /\ \A e \in Devices \ {d} : status'[e] = status[e] /\ vault'[e] = vault[e]
      BY <1>3 DEF StoredLoggedIn, Unlocked, LoggedOut, TypeOK
    <2>2. QED
      BY <2>1, LockedOn
  <1>4. CASE UNCHANGED <<status, vault>>
    BY <1>4 DEF LockedHasNoVault
  <1>5. QED
    BY <1>1, <1>2, <1>3, <1>4
       DEF Continue, PutAccepted, PutConflict, RefreshIdle, Refused, Unreachable, StoredDone,
           StoredRefreshed, StoredAssign, DeriveFails, BiometricsEnabled, PasswordChanged,
           Wiped, LoginLoaded, device

LEMMA NextLocked ==
    TypeOK /\ LockedHasNoVault /\ NoDownloadWhileLocked /\ [Next]_vars => LockedHasNoVault'
  <1> SUFFICES ASSUME TypeOK, LockedHasNoVault, NoDownloadWhileLocked, [Next]_vars
               PROVE  LockedHasNoVault'
    OBVIOUS
  <1>1. CASE UNCHANGED <<status, vault>>
    BY <1>1 DEF LockedHasNoVault
  <1>2. CASE \E d \in Devices, s \in Slots : Begin(d, s)
    BY <1>2, BeginLocked
  <1>3. CASE \E d \in Devices, s \in Slots : Continue(d, s)
    BY <1>3, ContinueLocked
  <1>4. CASE \E d \in Devices : Lock(d) \/ Restart(d)
    <2>1. PICK d \in Devices : Lock(d) \/ Restart(d)
      BY <1>4
    <2>2. /\ vault'[d] = NoVault
          /\ \A e \in Devices \ {d} : status'[e] = status[e] /\ vault'[e] = vault[e]
      BY <2>1 DEF Lock, Restart, TypeOK
    <2>3. QED
      BY <2>2, LockedOn
  <1>5. CASE Next /\ ~UNCHANGED <<status, vault>>
    BY <1>2, <1>3, <1>4, <1>5
       DEF Next, Serve, ServePut, ServeGet, ServeError, ServeLate, OpenDraft, device
  <1>6. QED
    BY <1>1, <1>5 DEF vars

\* As long as no download of a merge or of a synchronisation is still awaited when the
\* vault is locked, nothing brings it back into memory: of all that a call may resume
\* after lock(), logout or a restart, only those two continuations show a vault.
THEOREM LockedStaysEmpty == Spec /\ []NoDownloadWhileLocked => []LockedHasNoVault
  <1>1. Init => LockedHasNoVault
    BY DEF Init, LockedHasNoVault
  <1>2. QED
    BY <1>1, NextLocked, Typing, PTL DEF Spec

\* When a logout has deleted the cache file, no call has that file to write any more,
\* except the next login.
NoStoreAfterWipe ==
    \A d \in Devices, s \in Slots : task[d][s].pc = "store" =>
        /\ status[d] = "unauthenticated" => task[d][s].after = "loggedIn"
        /\ \A u \in Slots : task[d][u].pc # "reset"

\* Between the two halves of a logout the file is gone already.
WipedHasNoFile ==
    \A d \in Devices, s \in Slots : task[d][s].pc = "reset" => disk[d] = NoCache

NoFile == LoggedOutHasNoFile /\ WipedHasNoFile

\* A step that leaves the files and the logins alone, and starts no reset.
LEMMA NoFileKept ==
    ASSUME TypeOK, NoFile, NEW d \in Devices, NEW s \in Slots, NEW u, SetTask(d, s, u),
           u.pc # "reset", disk' = disk,
           \A e \in Devices : status'[e] = "unauthenticated" => status[e] = "unauthenticated"
    PROVE  NoFile'
  <1>1. LoggedOutHasNoFile'
    BY DEF NoFile, LoggedOutHasNoFile
  <1>2. WipedHasNoFile'
    BY DEF NoFile, WipedHasNoFile, SetTask, TypeOK
  <1>3. QED
    BY <1>1, <1>2 DEF NoFile

\* A cache file is written.
LEMMA WriteNoFile ==
    ASSUME TypeOK, NoFile, NoStoreAfterWipe, NEW d \in Devices, NEW s \in Slots,
           NEW u, SetTask(d, s, u), u.pc # "reset", Write(d, s), task[d][s].pc = "store",
           \A e \in Devices \ {d} : status'[e] = status[e],
           \/ status'[d] = status[d] /\ task[d][s].after # "loggedIn"
           \/ status'[d] = "unlocked"
    PROVE  NoFile'
  <1>1. \A e \in Devices \ {d} : disk'[e] = disk[e]
    BY DEF Write, TypeOK
  <1>2. status'[d] # "unauthenticated" /\ \A t \in Slots : task[d][t].pc # "reset"
    BY DEF NoStoreAfterWipe
  <1>3. \A e \in Devices, t \in Slots : task'[e][t].pc = "reset" => task[e][t].pc = "reset"
    BY DEF SetTask, TypeOK
  <1>4. QED
    BY <1>1, <1>2, <1>3 DEF NoFile, LoggedOutHasNoFile, WipedHasNoFile

\* A push begins with its PUT.
LEMMA PushWaits == \A d, op, v : Push(d, op, v).pc = "put"
  BY DEF Push, Idle

LEMMA BeginNoFile ==
    ASSUME TypeOK, NoFile, NEW d \in Devices, NEW s \in Slots, Begin(d, s)
    PROVE  NoFile'
  <1>1. status' = status /\ disk' = disk
    BY DEF Begin, Save, SaveDraft, SyncPendingChanges, ApplyConflictResolutions, SyncAll,
           Capture, DisableBiometrics, Logout, Login, device
  <1>2. \E u : SetTask(d, s, u) /\ u.pc # "reset"
    <2>1. CASE \/ Save(d, s) \/ SaveDraft(d, s) \/ SyncPendingChanges(d, s)
               \/ ApplyConflictResolutions(d, s)
      <3>1. \E op, v : SetTask(d, s, Push(d, op, v))
        BY <2>1 DEF Save, SaveDraft, SyncPendingChanges, ApplyConflictResolutions
      <3>2. QED
        BY <3>1, PushWaits
    <2>2. CASE SyncAll(d, s)
      <3> DEFINE u == [Idle EXCEPT !.op = "syncAll", !.pc = "refreshGet",
                                   !.revision = cache[d].revision]
      <3>1. SetTask(d, s, u)
        BY <2>2 DEF SyncAll
      <3>2. u.pc = "refreshGet"
        BY DEF Idle
      <3> HIDE DEF u
      <3>3. QED
        BY <3>1, <3>2
    <2>3. CASE \E op \in {"unlock", "bio", "password"} : Capture(d, s, op)
      <3> DEFINE u(op) == [Idle EXCEPT !.op = op, !.pc = "derive", !.held = cache[d]]
      <3>1. \E op : SetTask(d, s, u(op))
        BY <2>3 DEF Capture
      <3>2. \A op : u(op).pc = "derive"
        BY DEF Idle
      <3> HIDE DEF u
      <3>3. QED
        BY <3>1, <3>2
    <2>4. CASE DisableBiometrics(d, s)
      <3> DEFINE u == [Idle EXCEPT !.op = "bio", !.pc = "store", !.held = cache[d],
                                   !.after = "done"]
      <3>1. SetTask(d, s, u)
        BY <2>4 DEF DisableBiometrics
      <3>2. u.pc = "store"
        BY DEF Idle
      <3> HIDE DEF u
      <3>3. QED
        BY <3>1, <3>2
    <2>5. CASE Logout(d, s) \/ Login(d, s)
      <3> DEFINE u(op, pc) == [Idle EXCEPT !.op = op, !.pc = pc]
      <3>1. SetTask(d, s, u("logout", "wipe")) \/ SetTask(d, s, u("login", "loginGet"))
        BY <2>5 DEF Logout, Login
      <3>2. \A op, pc : u(op, pc).pc = pc
        BY DEF Idle
      <3> HIDE DEF u
      <3>3. QED
        BY <3>1, <3>2
    <2>6. QED
      BY <2>1, <2>2, <2>3, <2>4, <2>5 DEF Begin
  <1>3. QED
    BY <1>1, <1>2, NoFileKept

LEMMA ServeNoFile ==
    ASSUME TypeOK, NoFile, NEW d \in Devices, NEW s \in Slots, Serve(d, s)
    PROVE  NoFile'
  <1>1. status' = status /\ disk' = disk
    BY DEF Serve, ServePut, ServeGet, ServeError, device
  <1>2. task[d][s] \in Task
    BY DEF TypeOK
  <1>3. \E a : SetTask(d, s, [task[d][s] EXCEPT !.answer = a]) /\ task[d][s].pc \in AtServer
    BY DEF Serve, ServePut, ServeGet, ServeError, AtServer
  <1>4. \E u : SetTask(d, s, u) /\ u.pc # "reset"
    <2>1. PICK a : SetTask(d, s, [task[d][s] EXCEPT !.answer = a])
                   /\ task[d][s].pc \in AtServer
      BY <1>3
    <2>2. [task[d][s] EXCEPT !.answer = a].pc # "reset"
      BY <1>2, <2>1 DEF Task, AtServer
    <2>3. QED
      BY <2>1, <2>2
  <1>5. QED
    BY <1>1, <1>4, NoFileKept

\* The ways in which a push goes on.
LEMMA PushIfPendingResumes ==
    ASSUME NEW d \in Devices, NEW s \in Slots, PushIfPending(d, s)
    PROVE  \E u : SetTask(d, s, u) /\ u.pc # "reset"
  <1>1. Idle.pc # "reset"
    BY DEF Idle
  <1>2. QED
    BY <1>1, PushWaits DEF PushIfPending, Finish

LEMMA AnswersNoFile ==
    ASSUME TypeOK, NoFile, NEW d \in Devices, NEW s \in Slots,
           \/ PutAccepted(d, s) \/ PutConflict(d, s) \/ MergeRemote(d, s) \/ RefreshIdle(d, s)
           \/ RefreshReplace(d, s) \/ Refused(d, s) \/ Unreachable(d, s) \/ DeriveFails(d, s)
           \/ Unlocked(d, s) \/ BiometricsEnabled(d, s) \/ PasswordChanged(d, s)
           \/ LoginLoaded(d, s)
    PROVE  NoFile'
  <1> DEFINE t == task[d][s]
  <1>1. t \in Task /\ Idle.pc # "reset"
    BY DEF TypeOK, Idle
  <1>2. disk' = disk
        /\ \A e \in Devices : status'[e] = "unauthenticated" => status[e] = "unauthenticated"
    BY DEF TypeOK, PutAccepted, PutConflict, MergeRemote, RefreshIdle, RefreshReplace, Refused,
           Unreachable, DeriveFails, Unlocked, BiometricsEnabled, PasswordChanged, LoginLoaded,
           device
  <1>3. CASE Finish(d, s) \/ PushIfPending(d, s)
    BY <1>1, <1>2, <1>3, PushIfPendingResumes, NoFileKept DEF Finish
  <1>4. CASE ~(Finish(d, s) \/ PushIfPending(d, s))
    <2> DEFINE stored(c, after) == [t EXCEPT !.pc = "store", !.held = c, !.after = after,
                                             !.answer = NoAnswer]
               login == [t EXCEPT !.pc = "store", !.after = "loggedIn", !.answer = NoAnswer,
                                  !.held = Clean(t.answer.blob, t.answer.revision)]
               merge == [t EXCEPT !.pc = "mergeGet", !.answer = NoAnswer]
               retry == Retry(t, MergeVaults(t.vault, t.answer.blob))
               written(after) == [t EXCEPT !.pc = "store", !.after = after]
    <2>1. \/ SetTask(d, s, stored(Pushed(d, t), "done"))
          \/ SetTask(d, s, merge)
          \/ SetTask(d, s, retry)
          \/ SetTask(d, s, stored(Clean(t.answer.blob, t.answer.revision), "refreshed"))
          \/ SetTask(d, s, stored(KeptPending(t), "pending"))
          \/ SetTask(d, s, written("done"))
          \/ SetTask(d, s, written("assign"))
          \/ SetTask(d, s, login)
      BY <1>4 DEF PutAccepted, PutConflict, MergeRemote, RefreshIdle, RefreshReplace, Refused,
                  Unreachable, DeriveFails, Unlocked, BiometricsEnabled, PasswordChanged,
                  LoginLoaded
    <2>2. /\ \A c, a : stored(c, a).pc = "store"
          /\ \A a : written(a).pc = "store"
          /\ login.pc = "store" /\ merge.pc = "mergeGet" /\ retry.pc = "put"
      BY <1>1 DEF Task, Retry
    <2> HIDE DEF stored, login, merge, retry, written, t
    <2>3. \E u : SetTask(d, s, u) /\ u.pc # "reset"
      BY <2>1, <2>2
    <2>4. QED
      BY <1>2, <2>3, NoFileKept
  <1>5. QED
    BY <1>3, <1>4

LEMMA StoresNoFile ==
    ASSUME TypeOK, NoFile, NoStoreAfterWipe, NEW d \in Devices, NEW s \in Slots,
           \/ StoredDone(d, s) \/ StoredPending(d, s) \/ StoredRefreshed(d, s)
           \/ StoredAssign(d, s) \/ StoredLoggedIn(d, s)
    PROVE  NoFile'
  <1>1. /\ Write(d, s) /\ task[d][s].pc = "store"
        /\ \A e \in Devices \ {d} : status'[e] = status[e]
        /\ \/ status'[d] = status[d] /\ task[d][s].after # "loggedIn"
           \/ status'[d] = "unlocked"
    BY DEF StoredDone, StoredPending, StoredRefreshed, StoredAssign, StoredLoggedIn, TypeOK
  <1>2. Finish(d, s) \/ PushIfPending(d, s)
    BY DEF StoredDone, StoredPending, StoredRefreshed, StoredAssign, StoredLoggedIn
  <1>3. \E u : SetTask(d, s, u) /\ u.pc # "reset"
    BY <1>2, PushIfPendingResumes DEF Finish, Idle
  <1>4. QED
    BY <1>1, <1>3, WriteNoFile

\* The two halves of logout, and a restart.
LEMMA WipesNoFile ==
    ASSUME TypeOK, NoFile, NEW d \in Devices, NEW s \in Slots,
           Wiped(d, s) \/ LoggedOut(d, s) \/ Restart(d)
    PROVE  NoFile'
  <1>1. \A e \in Devices \ {d} : /\ status'[e] = status[e] /\ disk'[e] = disk[e]
                                 /\ task'[e] = task[e]
    BY DEF Wiped, LoggedOut, Restart, Finish, SetTask, TypeOK
  <1>2. CASE Wiped(d, s)
    <2>1. status' = status /\ disk'[d] = NoCache
      BY <1>2 DEF Wiped, TypeOK
    <2>2. QED
      BY <1>1, <2>1 DEF NoFile, LoggedOutHasNoFile, WipedHasNoFile
  <1>3. CASE LoggedOut(d, s)
    <2>1. disk' = disk /\ disk[d] = NoCache
      BY <1>3 DEF LoggedOut, NoFile, WipedHasNoFile
    <2>2. QED
      BY <1>1, <2>1 DEF NoFile, LoggedOutHasNoFile, WipedHasNoFile
  <1>4. CASE Restart(d)
    <2>1. /\ status'[d] = "unauthenticated" => disk'[d] = NoCache
          /\ \A u \in Slots : task'[d][u].pc # "reset"
      BY <1>4 DEF Restart, TypeOK, Idle
    <2>2. QED
      BY <1>1, <2>1 DEF NoFile, LoggedOutHasNoFile, WipedHasNoFile
  <1>5. QED
    BY <1>2, <1>3, <1>4

LEMMA NextNoFile == TypeOK /\ NoFile /\ NoStoreAfterWipe /\ [Next]_vars => NoFile'
  <1> SUFFICES ASSUME TypeOK, NoFile, NoStoreAfterWipe, [Next]_vars
               PROVE  NoFile'
    OBVIOUS
  <1>1. CASE UNCHANGED <<status, disk, task>>
    BY <1>1 DEF NoFile, LoggedOutHasNoFile, WipedHasNoFile
  <1>2. CASE \E d \in Devices, s \in Slots : Begin(d, s) \/ Serve(d, s) \/ Continue(d, s)
    BY <1>2, BeginNoFile, ServeNoFile, AnswersNoFile, StoresNoFile, WipesNoFile DEF Continue
  <1>3. CASE \E d \in Devices : Lock(d)
    <2>1. disk' = disk /\ task' = task
          /\ \A e \in Devices : status'[e] = "unauthenticated" => status[e] = "unauthenticated"
      BY <1>3 DEF Lock, TypeOK
    <2>2. QED
      BY <2>1 DEF NoFile, LoggedOutHasNoFile, WipedHasNoFile
  <1>4. CASE \E d \in Devices : Restart(d)
    <2>1. PICK d \in Devices : Restart(d)
      BY <1>4
    <2>2. CASE Slots = {}
      BY <2>1, <2>2 DEF NoFile, LoggedOutHasNoFile, WipedHasNoFile, Restart, TypeOK
    <2>3. QED
      BY <2>1, <2>2, WipesNoFile
  <1>5. CASE Next /\ ~UNCHANGED <<status, disk, task>>
    BY <1>2, <1>3, <1>4, <1>5 DEF Next, OpenDraft, ServeLate, device
  <1>6. QED
    BY <1>1, <1>5 DEF vars

\* As long as no write of the cache file is still to come when a logout has deleted it,
\* a logged-out device has no file: a late write of an earlier call is the only way the
\* vault reaches the disk again without a login.
THEOREM LoggedOutStaysClean == Spec /\ []NoStoreAfterWipe => []LoggedOutHasNoFile
  <1>1. Init => NoFile
    BY DEF Init, NoFile, LoggedOutHasNoFile, WipedHasNoFile, Idle
  <1>2. NoFile => LoggedOutHasNoFile
    BY DEF NoFile
  <1>3. QED
    BY <1>1, <1>2, NextNoFile, Typing, PTL DEF Spec
=============================================================================
