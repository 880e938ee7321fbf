# PassOne: a verification project

PassOne is a password manager: a Flutter app that keeps an encrypted vault and
works offline, and a Go server with a SQLite database that stores one encrypted
blob per account under a revision number. The app's vault is merged on the
devices, the server cannot read it. The key of a vault is derived from the master
password by Argon2, in C behind a bridge in `app/packages/argon2_ffi`. This
directory holds TLA+ models of the parts where order, failure and limits decide the
result, the TLC configurations that check them, and TLAPS proofs of what they
guarantee for every size of system.

Paths below are relative to `src/`; `session.dart` is
`app/lib/state/session.dart`, `store.go` is `server/internal/store/store.go`, and the C
files are those of `app/packages/argon2_ffi/ios/Classes`, which the builds of iOS,
Android, Linux and Windows share; macOS has a copy of them.

## 1. Inventory

| Component | State | Operations | Correct when |
|---|---|---|---|
| Merge and conflicts (`session.dart` `_mergeVaults`, `conflicts.dart`, `conflict_resolution_screen.dart`) | none: functions on vaults | merge of two vaults, finding conflicts, applying decisions, default decisions | nothing is discarded unasked, both sides agree, decisions do what they say |
| Vault synchronisation (`session.dart`, cache part of `settings.dart`, `client.dart`) | session state in memory (status, vault, cache, conflicts), cache file, pending mark, lock timer, calls in progress | save, sync, refresh, resolve, lock, unlock, login, logout, start, biometrics, password | a clean cache is what the server has accepted, no accepted update is lost, an edit that could not be pushed survives, nothing secret survives a lock or a logout |
| Vault revision on the server (`UpdateVault`, `handleVaultPut`) | `vault_blob`, `vault_revision` of a row | get, compare-and-swap | revisions follow one another, each replaces the one its writer knew |
| Accounts and sessions on the server (`store.go`, `handlers_*.go`, `middleware.go`, user commands of `main.go`) | tables `users` and `sessions`, requests in progress | create, invite, set up, register, login, recover, change password, log out, disable, delete | one account per name, sessions only of accounts that are set up, a reset ends every session, a set-up account is never set up again |
| Rate limiter (`ratelimit.go`) | buckets by address | allow, collect | never more than the limit in a window |
| TLS and pairing (`tlscert.go`, `tls.dart`) | key file, certificate file, pinned fingerprint | ensure, rotate, pin, check | key and certificate match after any crash; the fingerprint shown is the one served |
| Keys in the local cache (`CachedVault` fields) | wrapped keys, biometric key, token | login, password change, biometrics, recovery | the cache opens with the password the server accepts |
| Autofill and passkeys (`autofill.dart`, `session.dart` 1262-1500, Kotlin services) | session key, snapshot, pending saves, pending requests, intents | set up, clear, import, confirm, create, get | no session key after a lock, no captured credential lost, each request answered once |
| Bridge to Argon2 (`argon2_ffi.c`) | a buffer for the tag | hash, Base64 | what it returns is the tag |
| Argon2 calls (`argon2.c`, `core.c`) | context, instance, buffers | hash, verify, validate, allocate, first blocks, finalize | accepted parameters give a sound layout, buffers are freed once and cleared, a verification accepts only the password |
| Fill of the memory (`core.c`, `ref.c`, `thread.c`) | memory, threads and their positions | fill with 1 to n threads, join, failures | no two threads meet on a block, the result does not depend on the schedule |
| Text of a hash (`encoding.c`) | none | encode, decode, lengths | decoding returns what was encoded; one text per hash |
| BLAKE2b and the block rounds (`blake2/*`) | `blake2b_state` | init, update, final, long hash, rounds | the digest does not depend on the pieces; every variant computes the same |
| Biometrics, KDF, vault crypto, vault files, TOTP, generator | none, or the key store | pure functions | test vectors |
| Server start, configuration, backup, web pages | files | start, dump | not concurrent with themselves |

How they interact: the app calls the server over HTTP with timeouts; every call
of `SessionController` is an asynchronous function, so the code of any other call
runs at each `await`, and nothing keeps two calls apart. The server runs a
goroutine per request on a database with one connection (`store.go` 116), so a
statement or a transaction is atomic, and other statements come between two
statements of a handler. The cache file links one run of the app to the next. `kdf.dart` calls the bridge on
an isolate; within one call the fill starts a thread per lane and joins them at four
points of every pass.

What is hard: state captured before an await and used after it; answers lost,
late or applied in another order; a PUT that arrives after its sender gave up;
handlers that decide on a row read earlier; lock, logout and restart in the middle
of anything; in the C code threads that share one memory without locks, errors in
the middle of a loop of threads, buffers that change owner, 32-bit arithmetic on
parameters, and pieces that end at a block's boundary. `PROJECT.json` lists these hazards at their lines.

## 2. Modules

| Module | Models | Extends / instantiates |
|---|---|---|
| `VaultMerge` | the pure algorithms: merge, conflicts, decisions, defaults | |
| `VaultStore` | what the server promises about a vault: a register that a write replaces only if its sender started from the current revision | |
| `VaultSync` | devices, network and the server's row | extends `VaultMerge`, refines `VaultStore` |
| `Accounts` | the server's tables and the requests on them | |
| `Argon2Fill` | the main thread and a thread per lane on one memory | |
| `Argon2Context` | parameters, limits, error codes, `validate_inputs`, the layout | |
| `Argon2Hash` | a call of `argon2_hash`, `argon2_verify` or the bridge, with its heap | extends `Argon2Context` |
| `Argon2Encoding` | the text of a hash, and the Base64 of the bridge | extends `Argon2Context` |
| `Blake2b` | the streaming hash | |
| `Blake2bCompress`, `Blake2bLong` | the compression function, and H' | |
| `Blamka`, `BlamkaOpt` | `fill_block` with the scalar round, and the vector rounds | `BlamkaOpt` instantiates `Blamka` |
| `LittleEndian` | loads and stores of words | |
| `VaultMergeProofs`, `MCVaultMergeProofs`, `VaultStoreProofs`, `VaultSyncProofs`, `AccountsProofs`, `Argon2FillProofs`, `Argon2HashProofs`, `Blake2bProofs` | theorems and their proofs | extend the module and `TLAPS`; `Argon2HashProofs` has those of `Argon2Context` too, `Blake2bProofs` those of `Blake2bLong`, which it instantiates |
| `MCVaultMerge`, `MCVaultSync`, `MCAccounts`, `MCArgon2Fill`, `MCArgon2Hash` | instances for TLC | extend the module |
| `MCArgon2Kernels` | one instance of all sequential kernels | extends `Blake2b`, instantiates the others |

**VaultMerge.** A vault is a function from the identifiers of entries and folders
to a version (content, `updatedAt`) or `Absent`. The list order is left out: every
merge sorts by name. It decides one thing, which of several entries of equal
content stands for them in `findConflicts`; there the model allows each
(`LocalFp`).

**VaultStore.** The abstract server: a register with its revision, its past, and the
writes in flight, each with the revision its sender started from (`base`, the field
`base_revision` of a PUT). `Publish` takes a write whose base is the current revision;
`Send` is everything else that may happen to writes - sent, lost, refused, withdrawn -
and leaves the register alone.

**VaultSync.** An action is the code between two awaits. A call in progress is a
*task*: the values it captured (`vault`, `revision`, `held`), what it awaits (`pc`),
and, for a request, the answer. `Save`, `SaveDraft`, `SyncPendingChanges`,
`ApplyConflictResolutions` start `_pushVault`; `PutAccepted`, `PutConflict`,
`MergeRemote`, `Unreachable`, `Refused` are its continuations; `StoredX` is what
follows the write of the cache file. `SyncAll`, `RefreshIdle`, `RefreshReplace` are
`refreshFromServer` inside `syncAll`. `Capture` starts unlock, biometrics and
password change, which hold a copy of the cache over their awaits. `Lock` is the
button or the timer. `ServePut` and `ServeGet` are the server; `ServeLate` serves a
PUT its sender gave up. `Restart` ends the process anywhere; the new one finds the
cache file or, if it has expired, deletes it. A draft is the vault the entry list
was drawn with, to which its form later appends.

The history variables `accepted`, `used`, `overridden`, `edits` only serve the
properties and the bounds. An identifier is overridden when a user has removed the
entry or picked a version of it in a conflict: what a user decides is no lost
update.

**Accounts.** An action is one SQL statement (or transaction) of `store.go` with the
handler's code up to the next. A request keeps the row it read, as the handlers
do. Secrets are numbers drawn in order; the password and the recovery key sent
in one request share a number, so a key can be told from its successors. `grant`
and `resetAt` are history: on which password a session was granted, and when the
account was last reset by recovery key. The conditions that guard against stale
decisions have operators of their own: `MayActivate` (the WHERE clause of
`ActivateUser`), `Free` (the UNIQUE column), `MayHaveSession` and `Cascaded` (the
foreign key), `AfterReset` (the DELETE in the transaction of `UpdateAuthMaterial`).
An expired session is one that is removed, as `GetUserBySessionToken` does when it
meets it. Requests that only read are no actions, nor are those refused on what
they read.

The operations an instance explores are the constant `Explored` in `VaultSync` and
`Accounts`; every definition is there in every instance.

**Argon2Fill.** `MainRuns` is the main thread: the loops of `fill_memory_blocks_mt` over
passes, slices and lanes, with the join that keeps at most `threads` threads running.
`MainFails` is what befalls it: an allocation, a creation or a join that fails. After a
failed creation the loop of `core.c` 339 ignores the result of its joins: `DrainFails` is
one that fails there, `JoinAgain` one of a thread joined before, which C leaves undefined. With one thread it behaves as
`fill_memory_blocks_st`, where nothing fails. `ThreadStep(l)` is the thread of a lane, in
the steps another thread can observe: choosing the reference, reading two or three
blocks, copying the new block, XORing onto it. What is done with bits (permutation,
addresses, first blocks) are constants; `Golden` is the recurrence that one thread would
compute, fixed by the assumption `GoldenAssumption`. A thread joined twice, or
running after its data was freed, sets `undefined`.

**Argon2Hash.** A call goes through the bridge (`FfiX`), `argon2_hash` (`HashX`) or
`argon2_verify` (`VerifyX`) and then `argon2_ctx` (`CtxX`). A *cell* is a pointer variable of
the code with what it points to: nothing, a live block, a freed block, a block of the
caller. Writing to or freeing the wrong one makes it `misused`. Each `malloc` may fail if
its cell is in `Failing`. A content is what it was computed from: the tag of a call is
the value `Tag`, whatever its bytes are. The fill is one step here: that it computes
the recurrence is `Argon2Fill`'s.

**Argon2Encoding.** The parser and the printer on sequences of character codes, with the
branch-free comparisons of `encoding.c` in 16-bit arithmetic (what they shift out lies
in bits 8 to 15) and the accumulators of Base64 in 20 bits (14 are in use). One text
may be damaged in one place between the two. `decode_string` folds over `Format`, the parts
of a text in the order of the code's `CC`, `DECIMAL_U32` and `BIN` lines.

**Blake2b.** A byte is its place in the key or the message, and the chain value is the
list of compressions so far, so equal chain values mean equal inputs in equal order
with equal counters and final marks.

**Kernels.** In `Blamka` and `Blake2bCompress` a word is the set of input words it depends
on. `BlamkaOpt` computes, on words of 8 bits (a byte of the code is a bit here, and
rotations are scaled alike), with each of the six forms of the round and compares with
`Blamka`'s. No build includes `blamka-round-opt.h` (the build files compile `ref.c`); it is
modelled because it is in the package, in place to be used. `LittleEndian` has bytes of
one bit.

Definitions named as a *mutant* of another are not part of the specifications: each
is a plausible error in that definition, and with it in place the property it is
recorded with (`PROJECT.json`, `mutants`) is violated.

## 3. Runs

All bounds are in the configurations; deadlock is not checked because every instance
may stop: the bounds on edits, revisions, accounts and secrets are met, or the C
function returns. State counts are for two workers.

| Run | Instance | Checks | States |
|---|---|---|---|
| `merge` | every pair of vaults of 2 entries and a folder, 2 contents, 2 times, every choice of decisions | `MergeConverges`, `NothingDiscardedUnasked`, `DefaultsKeepMerge`, `UnmixedDecisionsHonoured`, `ResolutionIsLocal` | 0.18 million |
| `network` | 2 devices, a call each, 2 entries, 2 edits, 3 revisions, a late PUT, conflicts decided | `NoLostUpdate`, `SavedIsDurable`, `ImplementsStore` | 1.26 million |
| `device` | 1 device, 2 overlapping calls, 2 revisions, every operation but deciding conflicts, refusals, restarts; no late PUT | `TypeOK`, `CleanCacheIsAccepted` | 1.28 million |
| `retries` | 2 devices, 4 edits, 4 revisions | `MergedPushKeepsRemote`, `CallsEnd` (fair) | 0.26 million |
| `accounts` | 1 username, 2 requests, 2 accounts, 5 secrets, 2 revisions, every operation | `TypeOK`, `OneAccountPerName`, `SessionsOpenAccounts`, `NoTokenSurvivesReset`, `SetUpOnce`, `DisabledStaysDisabled` | 0.88 million |
| `argon2_fill` | 3 lanes, 1 to 3 threads, 2 passes, segments of 3 blocks, blocks of 61 values | `TypeOK`, `NoRace`, `FillIsDetermined`, `NoThreadOutlivesFill`, `JoinedOnce`, `FillEnds` (fair) | 0.19 million |
| `argon2_hash` | 6-bit words, at most 3 lanes, every cost, length, type, platform and string at its limits, every allocation may fail | `TypeOK`, `NeverMisused`, `SoundInstance`, `AllOrNothing`, `CorrectVerdict`, `ClearedBeforeRelease`, `LeaksOnlyAfterFailedFill` | 3 141 |
| `argon2_kernels` | BLAKE2b with blocks of 3 bytes, up to 4 of them; H' up to 21 bytes with digests of 4 and lengths limited to 20; six vector rounds from three seeds; 14 hashes and every damage of one character | `DigestIsHash`, `FullDiffusion`, `VectorIsScalar`, `BlockMixedEvenly`, `LongIsHPrime`, `BytesAgree`, `RoundTrip`, `Canonical`, `BridgeIsBase64` | 0.21 million |

Why the bounds are enough for the cases in question: two devices are what a
conflict takes, and four edits what three conflicts in a row take (one by the
pusher, three by the other device). Two entries let an edit of one meet a conflict
on the other. Two calls of one device are what every overlap needs, as each
continuation reads only its own task and the shared state. Two account ids let an
account be deleted and its name registered again while requests on the old one
are in progress. Devices, calls, usernames and requests are interchangeable and
symmetric, except in the fair run. What is not bounded by the code and is here -
edits, revisions, late PUTs - is unbounded in the proofs.

Three lanes are the least where a thread limit (two) is neither the lanes nor one.
Segments of three blocks have a first block, one that uses the last word of an
address block and one that needs the next; two passes are what a rotation of the
previous block and an XOR onto an older one take. On a machine of 6-bit words
`8 * lanes` wraps with 8 lanes, as it does with 2^29 lanes on the real one, and a
`size_t` is larger than a word, so that lengths can be cut. A message of four blocks
has a first, two inner and a last block in every split into pieces, and a counter
word of 5 values carries. The damaged texts hold the characters at the borders of
every range the code compares with.

The properties, each with the behaviour it is about:

- `CleanCacheIsAccepted`: a cache without the pending mark holds what the server
  accepted under its revision, so a compare-and-swap never starts from a state that
  never was - whatever answers were lost or calls overlapped. The run has two
  revisions and no late PUT; answers that change places over more revisions and PUTs
  that arrive late are in the theorem `CleanCaches`, which bounds neither.
- `MergedPushKeepsRemote`: the vault of a retry contains the revision it replaces.
- `NoLostUpdate`: what was accepted stays, in that version or a newer one, unless
  overridden. It holds for one call at a time on a device, in spite of lost answers, and
  not beyond that (sections 4 and 6).
- `SavedIsDurable`: a push that ends without throwing leaves the vault shown, the
  cache and the cache file the same.
- `ImplementsStore`: the refinement of `VaultStore`: the row changes only by a PUT in
  flight whose sender started from the current revision - of all the PUTs that name
  one revision, late ones included, one is accepted. A server without the condition
  of `store.go` 300 (`AcceptsAny`) violates it.
- `CallsEnd`: see section 5.
- `SetUpOnce`, `DisabledStaysDisabled`, `OneAccountPerName`, `SessionsOpenAccounts`,
  `NoTokenSurvivesReset`: the stale decisions of a handler do no harm to accounts.
- `NoRace`, `FillIsDetermined`: a block under construction is touched by its own lane
  only, and a fill that returns OK leaves the recurrence's memory - which is why the
  number of threads is no part of a hash.
- `NoThreadOutlivesFill`, `JoinedOnce`: they say exactly when the error paths are not
  safe. A thread outlives the call only after a failed join, and a handle is joined
  twice only then or when a creation fails with fewer threads than lanes
  (`core.c` 338-340 joins from lane 0, what 321 has joined included). `argon2_hash` and
  `decode_string` ask for as many threads as lanes, so the second case takes a caller
  of `argon2_ctx` with a context of its own, which the app is not.
- `SoundInstance`: what is accepted gives lanes of four equal segments of two blocks or
  more, within 32 bits and within `size_t`.
- `NeverMisused`, `CorrectVerdict`: the exchange of buffers in `argon2_verify`.
- `AllOrNothing`, `ClearedBeforeRelease`, `LeaksOnlyAfterFailedFill`: what is left in
  buffers on every path. After a failed fill the memory is neither cleared nor freed
  (`argon2.c` 88-93): the property names the exception.
- `DigestIsHash`, `LongIsHPrime`: however the message is cut, the digest is that of the
  key block and the message; H' is the chain of the specification, and a length beyond
  32 bits is refused (`blake2b.c` 339) with nothing written.
- `VectorIsScalar`, `FullDiffusion`, `BlockMixedEvenly`, `BytesAgree`: an index out of place
  in the hand-written permutations and shifts.
- `RoundTrip`, `Canonical`, `BridgeIsBase64`: a text decodes to what was encoded, no other
  text decodes to it, and the announced length is exact. `Canonical` is about texts
  without negative characters: where `char` is signed, `EQ` (`encoding.c` 74) shifts the
  sign bits down, and every non-ASCII character decodes as `+` or `/`.

## 4. Where the code departs from what it says

Each of these runs expects a counterexample, and TLC finds it.

| Run | Property | What happens |
|---|---|---|
| `pending_dropped` | `PendingEditNotReverted` | with an edit pending, a refresh writes the server's blob to the cache and clears the mark (`session.dart` 923-931): killed before the next push, the app has lost the edit |
| `locked_vault` | `LockedHasNoVault` | a push waiting for the server shows its merge in a session locked meanwhile (856) |
| `reset_keeps_login` | `ResetRevokesSessions` | a login checked before a reset creates its session after it (`handlers_auth.go` 259-278) |
| `argon2_macos` | `ResultIsTag` | the macOS copy of the bridge knows the types 0 and 1 only; for Argon2id, which the app asks for, it encodes the array on its stack as it is (`macos/Classes/argon2_ffi.c` 116-131), though `macos/Classes/README.txt` says the copies should stay in sync |

Further counterexamples have a configuration and are no run of `PROJECT.json`; `tlc
-config <configuration> <module>` shows them:

| Configuration, module | Property | What happens |
|---|---|---|
| `MCVaultSyncDraft`, `MCVaultSync` | `NoLostUpdate` | the entry list appends to the vault it was drawn with (`entry_list_screen.dart` 133-173): what a refresh brought meanwhile is taken back, with the older time winning |
| `MCVaultSyncOverlap`, `MCVaultSync` | `NoLostUpdate` | two saves of one device overlap and meet a conflict: the older merge is shown last (`session.dart` 851-866), over a cache that is at a newer revision, and the next save replaces with it what the newer one had written (about 4 million states) |
| `MCVaultSyncLogout`, `MCVaultSync` | `LoggedOutHasNoFile` | a push that ends during a logout writes the cache file again (961) |
| `MCVaultMergeDecisions`, `MCVaultMerge` | `DecisionsHonoured` | a decision on a duplicate removes the entry that another decision kept (`conflicts.dart` 103-117) |
| `MCAccountsRecoveryKey`, `MCAccounts` | `RecoveryKeyUsedOnce` | two resets check one recovery key before either burns it (`handlers_auth_ops.go` 153-171) |
| `MCArgon2HashFailure`, `MCArgon2Hash` | `ResultIsTag` | without memory for the fill the iOS bridge, which ignores every return code, encodes what `malloc` left in its buffer (`argon2_ffi.c` 114-151); its comment (137-139) tells of a key that differs between setup and login for that reason |

For six of these TLAPS proves that the overlap or the failure TLC shows is the only one
that breaks the property: without it the property holds, for any number of devices,
requests and accounts. The theorems are `LockedStaysEmpty` (`LockedHasNoVault`),
`LoggedOutStaysClean` (`LoggedOutHasNoFile`), `ResetsRevokeAllButGrants`
(`ResetRevokesSessions`), `KeysAreBurned` (`RecoveryKeyUsedOnce`), `BridgeCorrect`
(`ResultIsTag`) and `NothingIsLost` (`NoLostUpdate`, with three hypotheses).
`OnlyRefreshDropsPending` does so for `pending_dropped`, with `PendingEditsKept`, which asks
more than `PendingEditNotReverted` - the edit is still there, also in a cache that is
itself pending - but exempts what a user removed or decided in a conflict.

Other behaviour met while modelling, present in the models:

- Two saves of one device overlap; the offline end of the older shows its vault
  again (903-905) and the next save starts from it (`NoLostUpdate` fails with two
  calls and `save`, `sync`).
- `unlock` shows the cache it captured before the key derivation (502, 528-533); a
  push that ended meanwhile is taken back by the next save (`NoLostUpdate` fails with
  `lock` and `unlock`).
- A second conflicting push replaces the conflicts not yet decided (857-860).
- `logout` does not cancel the lock timer (964-973), which leads to a locked session
  with no cache.
- The failure to revoke the other sessions after a password change is only logged
  (`handlers_auth_ops.go` 93-95).
- Two password changes at the same time both succeed and each deletes the other's
  session.
- A 409 names as `current_revision` the one read before the compare-and-swap
  (`handlers_vault.go` 88).
- The comment on `UpdateAuthMaterial` (`store.go` 318-320) says it revokes all
  sessions and sets the recovery hash only when burning; the code deletes sessions
  only when burning and sets the hash always.
- `handleRecover` does not look at the status: a disabled account can be reset, and
  the session it gets is refused by `authed`.
- `b64_encode` writes to what `malloc` returned without looking (`argon2_ffi.c` 55-56): in
  the model the call ends there.
- `kdf.dart` (82-112) falls back to PBKDF2, for this and every later derivation, when
  the bridge throws; on a failed hash the bridge returns other bytes instead.

## 5. Fairness

`retries` and `argon2_fill` assume any. In `retries` it is weak fairness of `Continue(d, s)`, the continuation of a
call in progress. The code justifies it: each request has a timeout
(`client.dart` 163), whose expiry is `Unreachable`, and local awaits (file writes, key
derivation) complete. The server is not assumed to answer, and what a user does
is not fair. `CallsEnd` then says that retries are bounded: without the bound of
three attempts, or with one wait without a timeout, it fails.

In `argon2_fill` it is weak fairness of `MainRuns` and of each lane's `ThreadStep`: the
operating system runs every thread that can run, nothing in `fill_segment` waits, and
`pthread_join` returns when its thread has ended. No failure is fair: that an
allocation, a creation or a join fails (`MainFails`) may happen and is never promised,
so a main thread that waits is released by the end of the thread it waits for or not
at all. `FillEnds` then says that the call returns, unless it stands before a join of a
thread that was joined before, which C does not define (`AtJoined`; the case of
`JoinedOnce`, with fewer threads than lanes and a creation that failed). Joining the
thread about to be created, as the mutant `JoinLimitSelf` does, waits for ever.
Its safety part is proved (`WaitsCorrect`, section 6): the main thread waits only for a
thread that it created in this slice and has not joined, as the two loops of joins
(`core.c` 319-325, 349-356) share the threads between them.

## 6. Proofs

Proved by TLAPS for any devices, calls, entries, clocks, usernames and bounds, with the
hypotheses a theorem names.
The assumptions are the named ones of the modules: null values are not data,
entries and folders have different identifiers, bounds are numbers.

**VaultMerge.** `MergeKeepsBoth` (everything of both sides, no version that neither
has, and the local one unless the other is newer), `MergeIsStable`, `MergeIsAssociative`,
`MergeCommutes`, `UntouchedByResolution`, from what the merge does at one identifier.

**MCVaultMerge.** The five properties of the `merge` run, for vaults of any size
(`MCVaultMergeProofs`; the times are natural numbers). The invariant is short: `merged` is
the merge of the two sides, or its resolution, and the decisions are on the conflicts
one call of `findConflicts` names (`Decided`). `NothingUnasked` rests on `Edits`: there is
a conflict for every entry whose contents differ, also where the merge keeps the local
one. `UnmixedHonoured` rests on `CopyStays`: decisions on duplicates alone remove some
of the copies of a content and never the last, because the map by fingerprint names
one local entry for a content. With edited entries among them this fails, which is
what `MCVaultMergeDecisions` shows.

**VaultStore.** `History`: one vault per revision, the register holds the last.
`LinearHistory` is inductive with the types.

**VaultSync.** The inductive invariant `IInv` is `TypeOK`; an unlocked device holds a
vault (or a save would push none); the history is linear (`GoodHistory`: otherwise a
revision might stand for two vaults); every clean cache in memory or file is in it
and no cache is ahead of it (`GoodCache`); and every task is in order (`GoodTask`: the
caches it holds are good, its answer is a record of the history, its retried vault
keeps the revision it will replace). `GoodTask` is why an answer can be applied at
any later time: it speaks of the history, which only grows, and never of the current
row. `Typing`, `CleanCaches`, `NeverAhead` and `MergedPushes` follow.

`Refinement` maps the PUTs on their way - those a call awaits and those its sender gave up -
to the writes of `VaultStore`, each with the revision its sender started from, and shows
every step to be a `Send`, a `Publish` or a stutter. Only `ServePut` and `ServeLate` change
the row; `AcceptedWasInFlight` says that what they store is a write in flight with the
current revision as its base, `SentFromThePast` that a new write names a revision the
server has had, and `LateInFlight` that a PUT its sender gave up was on its way before. The
compare-and-swap is needed for it: without it a PUT of an older base would be taken.

These hold whatever calls of a device overlap. Two properties do not, and are proved of
the executions in which the calls of a device do not overlap, a hypothesis on the
execution and not on the number of slots (`[]OneCallAtATime`):

- `PushesAreDurable`. `SInv` says that a call in progress knows its device (`Coherent`): the
  vault being pushed is the one shown, unless a lock took it away; the cache a
  derivation or a write holds is the one in memory; a vault to be kept as pending is
  the one shown. Only a call of the device itself changes any of that, so a second one
  is exactly what breaks it: TLC finds `SavedIsDurable` violated by a save during a save (one device, two
  slots, depth 6).
- `NothingIsLost`. `NoLostUpdate` is not inductive: whether the next PUT drops an accepted
  version depends on the vault a device shows, on the revision its cache names, on the
  answers it has not read and on the PUTs still on their way. `EInv` says of each of
  them that its vault was made from everything the history holds up to the revision
  it names (`Builds`; `Fine` adds that no version is newer than the edits to come) - the
  cache and the cache file, the vault shown with the revision of the cache, the vault
  pushed with the revision sent, the cache a call holds, late PUTs - and that the
  history is in order itself (`FineHistory`: each accepted vault retains what those before
  it had). Accepting a PUT then preserves `FineHistory` because the compare-and-swap
  lets only the successor of the current revision in. Two hypotheses more:
  `ClocksAgree` - a later edit does not have an earlier `updatedAt`, or the merge
  prefers the older of two edits - and `FreshDrafts`: an entry is not added to a vault
  that changed while it was typed (`entry_list_screen.dart` 133-173).

The code guarantees none of the three hypotheses, and each is needed: TLC finds the
property violated with overlapping saves (`MCVaultSyncOverlap`), with a stale draft
(`MCVaultSyncDraft`), and at depth 7 with clocks that run backwards. What the theorem shows is
that the model has no fourth reason: lost and late answers, conflicts, retries, locks,
restarts, logouts, password changes and any number of devices lose nothing by
themselves.

- `OnlyRefreshDropsPending`, of the same executions: what a cache keeps as pending is, in
  that version or a newer one, in whatever cache replaces it, in the file and, once
  written there, in memory, unless `refreshFromServer` finds something new while it is
  pending (`NoRefreshOverPending` excludes that). `PInv` says where a pending edit is: what
  is pending in the file is in the cache, in the vault shown and in every vault being
  pushed, and the file is the cache whenever no write is to come; `EInv` adds that
  the next edit is newer. A merge, a failed retry, a password change, a lock or a restart
  then has nothing to start from that lacks the edit. A logout and an expired file
  delete the cache with what is pending in it; an edit killed before its cache file is
  written was never kept.

Three theorems more, without the hypothesis of one call at a time:

- `CallsAreFinite` is the part of `CallsEnd` that is no liveness: `Left(t)`, what a call has
  left to wait for, is a number up to 16 and 0 just when the call has ended, and every
  step of a call in progress lowers it. A push has three attempts of two waits, each of
  which may be answered before it is continued; a synchronisation has a download and a
  write before it pushes. What fairness adds is that a call in progress takes its steps.
- `LockedStaysEmpty`: as long as no download of a merge or of a synchronisation is awaited
  on a device that is not unlocked, such a device shows no vault. Every continuation
  that shows a vault - there are seven - unlocks, finds the device unlocked, or is one
  of those two; `StoredPending` asks whether a vault is shown, which those two do not.
- `LoggedOutStaysClean`: as long as no write of the cache file is to come after a logout
  deleted it, except a login's, a logged-out device has no file. `NoFile` adds that the
  file is gone between the two halves of a logout.

**Accounts.** `AInv` adds to the properties that a pending account has no password and
an active one has (`GoodRow`), that ids above the last are unused, that tokens and
resets are not ahead of the secrets drawn, and that a request past its check acts on
an id whose row, *if it still exists*, is set up (`GoodRequest`) - which is stable
because ids are never used twice and no statement undoes a setup. Every step
preserves it and is `Lawful`: a row disappears or keeps its name, stays set up, never
loses a revision, stays disabled. `Typing`, `NamesAreUnique`, `SessionsAreSound`,
`ResetsRevoke`, `SetUpIsFinal` and `DisabledIsFinal` follow, and `DeletedIsFinal`: an id
that is gone stays gone, so what a stale request writes by id reaches nobody.

Two properties have counterexamples, and are proved of the executions without the
overlap these show. `ResetsRevokeAllButGrants`: if no request is about to grant a session
to an account while another is about to reset it (`NoGrantDuringReset`), no session from
before a reset is left after it. The invariant `GrantedSinceReset` says the same of the
sessions still to be granted. `KeysAreBurned`: if no two requests are about to write the
password of one account, one of them a reset (`OneWriterPerReset`), a key that is still
held by a reset in progress is the one in the table.

**Argon2Context** (in `Argon2HashProofs`). `ValidatedLayout`: if `validate_inputs` accepts, the layout is sound. It
needs of the machine only `LimitAssumption`: `8 * MAX_LANES` fits a word, and
`MAX_MEMORY` blocks fit `size_t`. The nonlinear steps (division into segments, the check
of the product in `allocate_memory`) are lemmas of their own.

**Argon2Fill.** For any lanes, threads, passes, segments and block functions. The
invariant says where the main thread is with respect to the lanes (which slices are
built, which threads may run), and of every lane that the blocks below its position
are those of `Golden` and the others those of the pass before or untouched. The lemma
under it is about `index_alpha`: a reference to another lane lies in a segment that is
finished, because the current segment of other lanes is left out of the area. From
that, a step of one lane cannot disturb what another reads (`NoRaceCorrect`), every
block is built from the recurrence's values (`FillDeterminedCorrect`), and the joins cover
all threads, each once and after its creation (`NoThreadOutlives`, `JoinedOnceCorrect`,
`WaitsCorrect`). `FillIsFinite` is the part of `FillEnds` that
is no liveness: the main thread and each lane have a variant, the lanes to create and
join in this slice and the ones after, and four steps for each block left, which every
step of theirs lowers.

**Argon2Hash.** `Inv` has a part per concern: which positions belong to which call
(`PcInv`), the context was validated (`LayoutInv`), which of the three states the pointers
of a verification are in (`PtrInv`), the status of each cell at each position
(`BufferInv`, `BlockInv`), the codes that can be pending (`CodeInv`), what each block
holds (`ContentInv`) and what was released (`KindInv`). The status by position is why no
block is freed twice, the content by position why a verdict compares the right ones. `BridgeCorrect` adds what
the bridge hands to Dart: the tag if the copy computes the type and `argon2_hash`
succeeded, memory that nobody wrote otherwise. The invariant `BridgeInv` follows the
buffer `hash1` from its allocation to the text. So an Argon2id on macOS and a failed hash
are all the counterexamples that `ResultIsTag` has.

**Blake2b.** `Inv` says that the state is a function of the number of bytes taken: the
compressions are the full blocks before the last, the buffer holds the rest, and the
last block is never compressed early (`InvHolds`); `DigestCorrect` follows for any sizes.

**Blake2bLong** (in `Blake2bProofs`). `LongCorrect`: for outputs and digests of any
length, the digests of an even one (`LongSizes`; BLAKE2b has 64), `blake2b_long` writes the
H' of RFC 9106 and nothing past it, or refuses a length beyond 32 bits. `LongInv` says that the loop has written the first
halves of the digests so far and that more than a half is left; `LastKeeps` is the
arithmetic of the end: what is left lies between a half and a digest, so that the
number of halves is `r` of the RFC.

**Only model-checked:** `CallsEnd` and `FillEnds` (liveness is out of the prover's reach;
their variants are proved), and of the kernels: `BytesAgree`, `RoundTrip`, `Canonical` and `BridgeIsBase64`, because
`Argon2Encoding` and `LittleEndian` rest on bitwise operators, which the prover does not
read, and on recursion over the data; `VectorIsScalar`, `FullDiffusion` and
`BlockMixedEvenly`, which have no parameter - the permutations are of one size, and
TLC computes the whole of them.

## 7. Not modelled

- Contents of entries, encryption, JSON: a content is a value and a blob is its vault.
- In `VaultSync`: registration and recovery on the device, the migration of old
  tokens in `unlock`, health checks, the time of the expiry, wrapped keys and
  `encryptedToken`, the two halves of `saveCache` (temporary file and rename), a
  second user on one device.
- In `Accounts`: `UpdateLastLogin`, KDF parameters, wrapped keys, prelogin, the
  recovery payload, listing.
- In the Argon2 package: callers of `argon2_ctx` that bring a context of their own
  (allocation callbacks, clearing flags, secret, associated data - their checks in
  `validate_inputs` are modelled, their use is not), `genkat.c` and the printing under
  `GENKAT`, `argon2_error_message`, `hashStuff`, the bits that BLAKE2b and the permutation
  compute. The macOS copies of the other C files are identical to those modelled.
- Rate limiter, TLS, autofill and passkeys, TOTP, generator, backup: see the plan.
- Generated texts, web pages, build scripts: no logic of PassOne.

## 8. Plan

Done: `VaultMerge`, `VaultStore`, `VaultSync`, `Accounts`, the Argon2 package from the
bridge to the rounds, and the proofs listed. Next, in this order:

1. `LocalCache`: the other fields of `CachedVault` - wrapped keys, biometric key,
   recovery key, token - read and written over awaits by login, password change,
   recovery, biometrics and pushes, for two users of one device, with `saveCache` in
   two halves; its claim: the cache opens with a password the server accepts, and
   never mixes two users.
2. `Autofill`: session key and snapshot against lock and unlock, pull and
   confirmation of pending saves, passkey requests and their intents.
3. `Pairing`: `Ensure` and `Rotate` with a crash between two files, and the pinned
   fingerprint of a client.
4. `RateLimiter`: tokens and refill against the abstract limit per window.
5. Proofs: the safety of those modules; which overlaps `NothingIsLost` could allow (a
   refresh during a save, a lock and an unlock).
