# File Transit Desk: TLA+ models and proofs

File Transit Desk lets people reach files of a server through a browser: a Go
backend (Fiber, one SQLite connection) and a Vue client. This directory holds
TLA+ models of the parts whose correctness depends on what happens *between* two
steps of different actors, the TLC runs that check them on small instances, and
TLAPS proofs of what matters most for every instance.

## 1. Inventory

What runs concurrently: request handlers of the backend (one goroutine each),
its maintenance goroutine and cleanup worker, the process being stopped or
killed; and many browser tabs, each single-threaded between two `await`s. What
serialises: SQLite through one connection (`SetMaxOpenConns(1)`, so a statement
outside a transaction and a whole transaction are atomic steps),
`configWriteMu`, `transferGateMu`, the chat locks, and a few mutexes around maps.

| Component | State | Operations | Talks to | Hard behaviour | Correct when |
|---|---|---|---|---|---|
| Public sharing (`server.go`, `store.go`) | tables `tokens`, `download_leases`, `upload_leases` | create, look up, reserve, exchange, mint, upload, adjust, release, redeem, revoke, delete, expire | configuration (fingerprints), uploads, maintenance | a handler is 3 to 6 transactions; failures and crashes between them; revocation meanwhile | uses and bytes are exact and within limits; revocation is final |
| Chat store (`store/chat.go`) | messages, change log, generation; read-write lock, gates | create, withdraw, delete, batch delete, clear, clean up, two snapshot reads | chat API, maintenance | batches in opposite orders, overlapping operations on one message, holes in the log | one winner per message, nobody waits for ever, removals change the generation |
| Chat client (`useChatFeed.ts`) | projection with watermarks, cursor, generation, timer, reset streak | load, older, poll, reset, give up, reload, rebind, send, withdraw, delete (one, several), clear, hide, show | chat API, authentication state | late, lost and reordered answers; resets in a row; its own writes | what is shown is current or will be; polling is never lost |
| Uploads (`server.go`, `transfers.go`) | permits, transfer records, staging files | acquire, bind, register, commit, cancel, release | configuration publish, sharing, cleanup | publish against a running upload, late binding | nothing lands in a resource that has changed; no permit is leaked |
| Downloads (`download_safety.go`) | flights per lease, hash slots, `last_used_at` | first use, join, verify, revalidate | leases | joining a flight that ends, a file that changes | one verification per first use; every waiter is answered |
| Accounts and sessions (`accounts.go`, `users.go`, `auth`) | `users`, `sessions`, private leases | register, log in, heartbeat, change, disable, delete, expire | leases, client authentication | password hashing between read and write, grace period | no session or lease of an older `auth_version` survives; no place to hash in is lost |
| Configuration (`server.go`, `config/`) | published configuration, prepared file | prepare, revoke, commit, publish, abort | all | crash or failure between steps | memory and disk agree; old authorisations are gone |
| Lifecycle (`lifecycle.go`) | draining, active requests, wait group | admit, drain, shut down, maintain | all | work that starts while stopping | shutdown ends, and closes the store last |
| Temp cleanup (`maintenance.go`) | running flag, pending roots | trigger, run, coalesce | uploads | a trigger while the worker stops | every trigger is served; no active file is removed |
| Limiters (`limiter.go`) | windows per key, failures | allow many, fail, reset, prune | logins, creation | several keys at once, full table | all keys or none are charged |
| Client queue (`useUploadQueue.ts`) | items, batch, identity, hold | run, retry, cancel, stop, dispose | authentication | identity changes during an upload | no file is sent under another identity |
| Client authentication (`auth*.ts`) | epoch, binding, recovery, tabs | log in, out, restore, revalidate, heartbeat | all views | late answers, messages of other tabs | a late answer never restores a state that was left |

Not modelled, because they are pure functions, I/O or layout: YAML parsing and
merging, path resolution, file picker and listing, share origins, proxy and
listener resolution, cryptography, the audit log, routes, forms and layout. Not
modelled although they keep state: the rate limiters, deterministic code under
one mutex that its unit tests reach. `PROJECT.json` lists every component with its
status, and under `hazards` what is hard to test in each of them, at its line.

## 2. Modules

| Module | Models | Checked by | Proved in |
|---|---|---|---|
| `PublicShares` | tokens, leases, handlers, publication, crash | `MCPublicShares`, `Shares*.cfg` | `PublicSharesProofs` |
| `ChatPromise` | abstract: what the chat promises to its readers | as a property of `ChatGates` | |
| `ChatStore` | the chat tables: each transaction one operator | through the two below | `ChatStoreProofs` (lemmas) |
| `ChatGates` (extends `ChatStore`) | concurrent calls: read-write lock and gates | `MCChatGates`, `Gates*.cfg` | `ChatGatesProofs` |
| `ChatSync` (extends `ChatStore`) | one polling client, its requests in flight, everybody else | `MCChatSync`, `Sync*.cfg` | `ChatSyncProofs` |
| `UploadResources` | configured resources as uploads see them | through the three below | |
| `UploadPromise` (extends it) | abstract: what the server promises about uploads | as a property of `UploadGate` | |
| `UploadGate` (extends `UploadResources`) | permits, transfers, staging, publication, crash | through `ServerRuntime` | `UploadGateProofs` |
| `ServerRuntime` (extends `UploadGate`) | admission, drain, shutdown, maintenance, cleanup worker | `MCServerRuntime`, `UploadsAndShutdown.cfg` | `ServerRuntimeProofs` |
| `Accounts` | accounts, sessions, private leases, handlers | through `Downloads` | `AccessProofs` |
| `Downloads` (extends `Accounts`) | first use of a download lease, verification of the file | `MCAccess`, `AccountsAndDownloads.cfg` | `AccessProofs` |
| `AuthTabs` | the tabs of a browser and their shared cookie | `MCClient`, `TabsAndQueue.cfg` | `ClientProofs` |
| `UploadQueue` | one upload queue of a page | `MCClient` | `ClientProofs` |
| `SessionRecovery` | one page whose session goes idle, and its heartbeats | `MCClient` | `ClientProofs` |

### PublicShares

One action per SQL statement or transaction. A handler is a record in `req`
with the point it has reached, what it has looked up, and the bytes it has
reserved: `Goto` and `Finish` move it. `ReserveTokenUse`, `ReleaseTokenUse`,
`AdjustTokenUploadedBytes`, `ReserveUploadLease`, `Create*LeaseLimited`,
`RevokeTokenAndLeases`, `DeleteTokenAndLeases`, `AdmitDownloadLease` are the
functions of the same names; `CheckBeforeReserve`, `CheckAfterReserve` and `Quit`
are the early returns of the handlers; `FailReserved` and `ReservationLeaks` their
error paths (the second is a release that itself fails). The columns `uses` and
`uploaded_bytes` are kept beside what an observer would count (`spent`, `stored`,
`leaked`, `leakedBytes`). Configuration is one resource, identified by its
authorisation fingerprint: `RevokeBeforePublish`, `Publish`, `PublishFails` are
the steps of `updateConfigWithBeforePublish`. Time is nondeterministic
(`TokenExpires`, `LeaseExpires`). `Crash` drops all handlers and keeps the
database; if the configuration was being written, either file may be in place.

### ChatPromise, ChatStore

`msgs[i]` is the status of message `i`, `chg[s]` the message of change `s` (0 once
its row is gone), `gen` the generation. Both ids are AUTOINCREMENT, so the
lengths of the sequences are the high-water marks `sqlite_sequence` keeps.
Authors, bodies, windows and audit rows are left out: who may do what is left to
the caller. `CleanupChat` may remove any messages up to its batch, because
`created_at` is the clock of a request and need not grow with the id.

`ChatPromise` says what a reader may rely on, without tables, locks or pages: a message
goes from active to withdrawn to deleted and never back, an id is never used again, each
change of status comes under a change of its own that is later than all before (those of
a batch in the order of the ids), and messages leave together with their changes only
when the generation moves on by one. `KeepsChatPromise` is `ChatPromise!PromiseSpec` with
`status` read off `msgs`, and `touched[i]` the greatest change in `chg` that names `i`;
it is stated of the tables, and implemented by both modules that share them.

### ChatGates

The state of a call (`call[c].pc`) names where it stands at `chatDestructiveMu`
and at the gates of its messages. `beginChatMutation` is `PublishGate` when it
created the gate (which it locks before it lets go of `chatMutationMu`) and
`JoinGate` followed by `TakeGate` when it did not; `endChatMutation` is
`UnlockGate` and `LeaveGate`. `RLock`, `AnnounceWriter` and `Lock` follow Go's
`sync.RWMutex`: a waiting writer parks later readers, and releases them when it
unlocks. A transaction may always be refused (`Refuse`).

### ChatSync

The client runs to completion between two awaits: an action per timer, user
action, visibility change or answer. Requests sit in slots `net[s]`: sent, then
answered by one snapshot or transaction of the store, then delivered, in any
order. A request is `stale` once `stateRevision` or its own request id has moved
on; `Current` is `requestContextIsCurrent`. Aborting drops a request the server
has not answered (if it was served, its effect is that of `Others`) and leaves an
answer that is already there to be delivered and ignored. Watermarks carry no
generation, because only one generation of messages is kept at a time. The
capabilities are assumed to be loaded, a batch deletes any of the messages that can be
selected (`Selectable`), and pages are those the server makes, so `validatedChangePage` never fails here.

### UploadResources, UploadPromise, UploadGate

`UploadGate` follows a request of any kind (a form that names its resource late, a
form or a raw body that comes with a lease) through the points of `pc`. At those in `InGate` it holds the
read side of `transferGateMu`: `EnterAcquire` and `TryAcquireUploadPermit`,
`EnterBind` and `BindUploadPermit`, `EnterRegister` and `RegisterUploadTransfer`,
`EnterCommit` and `CommitUploadCandidate` are the checks and the steps of
`acquireUploadPermit`, `bindUploadPermit`, `registerUploadTransfer` and
`commitUploadCandidate`. `GiveUp` is every failure of the file in hand, `Failed` the
removal of the files a failing request had saved, `Done` the release. A transfer is
cancelled in two steps, as in `transferRegistry.cancel`: it is marked under the lock
and its callback runs after it (`CancelTransfer`, `CallCancel`). A publication is
`PrepareSave` (which includes the revocation of leases), `AnnounceSave`, `LockGate`,
`CommitSave` (the rename), `ReplaceConfig`, `CancelUploadsByDirIDs` and `UnlockGate`;
`AbortSave` and the second branch of `CommitSave` are its failures. `Restart` is a
crash at any point and a start from the settings file. Resources with one
fingerprint under different spellings of a path are kept apart (`Resources`,
`Fingerprint`), because a publication compares the configuration and an upload the
fingerprint. Staging files of earlier lives of the process are left out of the gate:
nothing promotes them.

`UploadPromise` says the same without locks, permits or transfers: a request is
authorized under the configuration in force, a publication ends the authorizations
of what it changes, a file lands only for an authorization that is still open, and a
request that fails leaves nothing. `KeepsPromise` is `UploadPromise!PromiseSpec` with
`published` the settings on the disk, `session` read off the permits, and `landed` and
`answer` the files and the replies. Between the rename and the cancellation the
permits of changed resources already count as revoked (`Void`): the write side of
the gate is held, so nobody can use them.

### ServerRuntime

Composes the gate with one life of the process after another: `BeginUpload` and
`EndUpload` count `active` as `requestAdmission` and `requestCleanup` do,
`BeginPublication` to `EndPublication` is the administrator's request, `Trigger` and the
actions up to `ExitSweep` the cleanup worker (`triggerUploadTempCleanup`,
`runUploadTempCleanupWorker`), `MaintenanceTick` to `StopMaintenance` the maintenance
goroutine, and `BeginDrain`, `ShutdownApp` and `CloseStore` the steps of `Shutdown`.
`wg` is the wait group. `Age` makes a registered staging file older than the
retention, so the sweep may meet live files of any age. `NextLife` is a crash, a
second signal, or a start after a shutdown; the staging files it leaves behind are
`orphans`, kept as the paths where they lie, and are what the sweep is there to remove
(`RemoveStale`). A root is the path of a resource, its fingerprint in `UploadGate`.

### Accounts

One action per transaction; a handler is a record in `req` with what it has read
(`seen`), what it was given and where it stands. Passwords are compared while the
handler holds a slot (`slot`, `hashing`) and outside any transaction; every path on
which a handler ends says for itself what becomes of its slot, and `SlotsAreExact` is
that none is lost and none given back twice. A heartbeat (`TouchSession`) is an UPDATE
by id that writes no absolute term: that it prolongs nothing that is over follows from
the statement alone, and no property is spent on it. `UpdateAccount`
is the transaction of that name, with the revocation of sessions and leases in it;
`CreateAccountSession`, `SaveNewPassword` and `CreateLeaseLimited` look at the account
or the session again in their own transaction. Time is an abstraction: a session is
fresh, idle within its grace, lapsed, or beyond its absolute term (`Ages`, `Ends`),
and a lease that has expired counts as gone, since every query refuses it.
`sessions.opened` and `leases.version` are what an observer remembers. The session a
login reads back to answer its client, the names and the login limiter are left out.

### Downloads

A version of the file is what the code tells apart: an inode with a size and a
modification time. `Look` is its size and time, `Content` its hash, so that one
version may look like another. A visit that finds its lease unused joins the flight
of the lease or leads one (`JoinOrLead`); the leader rereads the row, hashes in a
slot, compares, revalidates, and delivers one outcome to all who wait, also when it
panics. After the last look the file may still change before it is opened; the
promise is about what was looked at.

### AuthTabs

Each tab runs to completion between two awaits. A call carries the cookie of the
moment it is sent and sets the cookie when its answer arrives; `fresh` says that the
epoch of its tab is still the one it was sent in (`authEpoch.ts`). `Invalidate` is
`handleSubjectInvalidation`, `Revalidating` and `LoopOn` the loop of
`runSubjectRevalidationLoop`, `Publish` and `HandleEvent` the messages of `authSync.ts`.
The server's part is `auth` with its check of the binding.

### UploadQueue

`run` is the await that `uploadAll` or `retry` has reached: the lease, the body,
`onItemSuccess`, `shouldStopBatch`, `onBatchFinished`. `captured` is the identity of the
batch, `asked` whom the lease was asked for, `fresh` whether the page has shown that
one since. The second look of `UploadView` at the identity happens in the same
breath as that of `runItem` and is one with it. The order of the files is left out.

### SessionRecovery

A call that is refused because its session is idle asks `coordinateHeartbeat`:
`Coordinated` is its decision, and `Recover` what follows. An attempt is one
heartbeat; `observed` is the attempt a call was sent in, so that refusals that come
late find the outcome of the heartbeat that has been sent since. Activities are
numbered, a permit is the number of the last one, and `lapsed` the last one that is
older than the 75 s window. The epoch and the recovery generation always move
together and are one flag. The page forgets the oldest outcome beyond 16
(`MaxRemembered`; 1 in the run, so that one is forgotten while its call is under way).

## 3. Runs

| Run | Question | Properties | Bounds |
|---|---|---|---|
| `shares_upload` | accounting of an upload token | `WithinLimits` `UsesExact` `BytesExact` `OneUploadPerLease` | 1 token of 2 uses and quota 3, sizes 1 and 2, 2 leases, 2 requests, 1 crash |
| `shares_exchange` | exchange and redemption of download tokens | `OutstandingWithinLimit` `RevocationStopsReservations` | 2 tokens, 2 leases (total limit 1), 2 requests, 1 publication, 1 crash |
| `shares_revoke_race` | expected violation | `RevokedTokenLeavesNoLease` | as above, 1 token |
| `shares_recreate` | expected violation | `NoTokenOutlivesItsResource` | 1 token, 2 publications |
| `gates_meeting` | calls on the same messages | `GatesAreCounted` `OneWinner` `FirstRunsFirst` | 2 messages, 2 calls that withdraw or delete in batches (both orders), 1 that deletes |
| `gates_return` | termination, waiting, and what readers are promised | `EveryCallReturns` `NobodyWaitsInACircle` `KeepsChatPromise` | 3 calls: batches in both orders, creations, a clear, a cleanup |
| `sync_reads` | reads against everybody's writes, the client's own included | `OutdatedIsPending` `CursorStaysGood` | 2 messages, pages of 1, 2 requests in flight, 1 removal, 2 own mutations at a time, batches among them; others send, withdraw and clean up |
| `sync_settles` | resets in a row, failures, visibility, subjects | `OnlyOwnProjection` `FeedSettles` | 2 messages, 2 removals, 2 disturbances, gives up after 1 reset; others send, delete and clear |
| `sync_gives_up` | expected violation | `ShownChatPolls` | as `sync_settles`, all operations of others, no disturbance |
| `uploads_shutdown` | uploads against publications, and a process that sweeps, drains and ends | `LivePermitIsCurrent` `WithinCapacity` `StoreOutlivesUsers` `NoAddAfterWait` `NoCleanupIsForgotten` `StreamingKeepsItsTemp` `DrainNeverStuck` `KeepsPromise` | 3 uploads of 2 owners on 2 resources at the gate alone; 1 upload on 1 resource in the whole process; limits 2, 1 and 1, 1 file each |
| `accounts_downloads` | handlers of one account against each other; downloads of its lease | `SessionsAreCurrent` `LeasesAreCurrent` `SlotsAreExact` `ChangesReplaceWhatWasVerified` `WaitersAreLed` `ServedIsLeased` | 1 account, 2 passwords, 2 sessions, 1 lease, 2 handlers, 1 password slot, 3 versions of the account; 3 versions of the file, 2 visits, 1 hash slot |
| `client` | tabs, the upload queue, the recovery of a session | `DeliveredToItsSubject` `CurrentStaysShown` `TabsSettle` `BodyIsForTheBatch` `OutcomesAreFinal` `StoppedSendsNothing` `OneBeatPerAttempt` `RepeatsSafely` `KeepsWhatItWasTold` `EveryRequestEnds` | 2 tabs that start with the cookie of a session, 2 sessions, 2 calls and 1 message per tab, 2 turns; 3 files, 2 subjects; 2 calls, 2 sessions, 1 activity, 2 turns |

Three runs check several modules at once: a behaviour is one *scene*, and the others
stand still in it. `MCServerRuntime` has a crowd of uploads at the gate (with a second
directory that is always there), or the whole process with one upload. `MCAccess` has
either accounts at work (whose leases are for uploads, of whose sessions at most one
is past its idle time, and where a session without an account comes alone), or one
account that is signed in, mints one lease at a time, downloads and may be disabled
once. `MCClient` has tabs, a queue, or the recovery of a session. What a scene leaves
out of `Accounts` and `UploadGate` is covered by their proofs, which know no scenes.

Why these bounds reach the cases: two requests are enough for every pair of
steps to interleave, a quota of 3 with sizes 1 and 2 makes two uploads fit or not
depending on their order, a total limit below the number of leases makes it
bite, and a crash falls between any two steps. The limit per owner, which is 2, never
binds among two leases whose total is 1: that part of `OutstandingWithinLimit` rests on
the theorem `OutstandingLimited`, which holds for any limits. Three calls and two messages give
a holder, a waiter and a latecomer at a gate, and a cycle of two batches. With pages of
one row the client pages, skips holes and falls behind after two changes; one
allowed reset lets it give up after two removals. Every bound is a constant:
`MaxPublications`, `MaxCrashes`, `MaxMessages`, `MaxOwn`, `MaxDisturbances`,
`MaxGeneration`; `MaxFiles`, `MaxExiting`, `MaxServed`; `MaxVersion`; `MaxCalls`,
`MaxEvents`, `MaxTurns`; `MaxRequests`, `MaxActs`, `MaxShifts`. `Global`, `PerResource`,
`PerOwner`, `MaxSlots`, `HashSlots` and `MaxRemembered` are limits of the program, set
low enough to be reached. `Ops`, `OwnOps` and `OtherOps` choose the operations of a run, and
each one is part of a passing run; the sizes of `Tokens`, `Leases`, `Requests`, `Calls` and `Slots`
bound the rest.

Two uploads of one session and a third of a token, whose lease names its directory
(the others may name theirs late), reach every limit at the gate
and meet on one resource; a publication takes their resource away and may bring it
back, which is the case in which a stale permit would be mistaken for a new one.
Two handlers are a login against a change of the same account; two passwords make a
verified one differ from the stored one, and a third version of the account lets it
change after a change. Of three versions of a file one looks like another with a
different content. In `AuthTabs` two turns are a login after a logout, or an expiry
and a login; two calls of a tab at a time leave one late. In `SessionRecovery` two
calls are refused together or one after the other; two shifts let a session go idle
and then end, go idle again, or be replaced by another tab's.

Requests, leases, calls and slots are symmetric; symmetry is used
only in runs without liveness.

Deadlock is checked for `ChatGates` and `ServerRuntime`. In `PublicShares` all rows may
be used up, in `ChatSync` a client without a binding or on a hidden page waits for its
user, in `Accounts` the versions run out, and in the three parts of the client the
turns do; those configurations turn the check off.

Every property of a passing run is violated by a mutation of the model that
resembles a bug of the code (`mutants` in `PROJECT.json`; the mutated forms stand
before the definitions they replace).

The type invariants document the state and are not among the properties of the runs,
and neither are `OneHolderPerMessage` and `DestructiveIsAlone`. All of these are proved.

## 4. Fairness

`PublicShares` has none: its properties are safety.

`ChatGates!FairSpec`: weak fairness of every running call, since goroutines are
scheduled and transactions end; strong fairness of taking a gate and of
announcing a writer, since a Go mutex that is contended for more than a
millisecond hands itself to the head of its queue. No fairness for starting.

`ChatSync!FairSpec`: weak fairness of the timer of a visible page, of the server
answering a request and of the delivery of an answer. Failures, hidden pages and
changes of subject are bounded disturbances; other users' writes are bounded by
`MaxMessages` and `MaxGeneration`. Nothing makes the user click.

`AuthTabs!AuthFairness`: per tab, weak fairness of every call (its server answers or
refuses it, the page receives the answer), of the handling of a message, and of the
next call of a page that shows somebody: pages poll or their users act. That last
one matters. An answer to a login that another tab's message has made late sets the
cookie without any tab being told; tabs agree again only when a page makes its next
call and its binding is refused. Losses are bounded by `MaxTurns`.

`SessionRecovery!RecoveryFairness`: weak fairness of `Progress`, some answer, failure or
reception being due. A heartbeat is aborted after 9 s (`HEARTBEAT_TIMEOUT_MS`), a fetch
ends in an answer or an error, and what ends is handled at once.

`UploadGate`, `ServerRuntime`, `Accounts`, `Downloads` and `UploadQueue` state none. That a
drain ends is stated without fairness: `DrainNeverStuck` says that until the server is
closed somebody waits neither for a counter nor for a lock (`DrainGoesOn`, read off the
guards, so that it can be proved), and that some step of the server is indeed enabled.
How long it lasts is up to the requests (`src/backend/README.md:325`).

## 5. Proofs

All theorems hold for all constants that satisfy the assumptions of their modules:
any numbers of tokens, leases, requests, uploads, accounts, sessions, files, calls and
messages, any limits.

| Module | Theorem | States |
|---|---|---|
| `PublicSharesProofs` | `TypeCorrect` | `Spec => []TypeOK` |
| | `UsesAreExact` | `Spec => []UsesExact` |
| | `LimitsHold` | `Spec => []WithinLimits` |
| | `RevocationHolds` | `Spec => RevocationStopsReservations` |
| | `OutstandingLimited` | `Spec => []OutstandingWithinLimit` |
| | `BytesAreExact` | `Spec => []BytesExact` |
| | `LeasesServeOneUpload` | `Spec => []OneUploadPerLease` |
| `ChatGatesProofs` | `TypeCorrect` | `Spec => []TypeOK` |
| | `GatesCounted` | `Spec => []GatesAreCounted` |
| | `HoldersAlone` | `Spec => []OneHolderPerMessage` |
| | `WinnersAlone` | `Spec => []OneWinner` |
| | `FirstHold` | `Spec => []FirstRunsFirst` |
| | `DestructiveAlone` | `Spec => []DestructiveIsAlone` |
| | `NoCircle` | `Spec => []NobodyWaitsInACircle` |
| | `GatesKeepPromise` | `Spec => KeepsChatPromise` |
| `ChatSyncProofs` | `TypeCorrect` | `Spec => []TypeOK` |
| | `NothingOutdatedStays` | `Spec => []OutdatedIsPending` |
| | `CursorNeverReset` | `Spec => []CursorStaysGood` |
| | `ProjectionIsOwn` | `Spec => []OnlyOwnProjection` |
| | `SyncKeepsPromise` | `Spec => KeepsChatPromise` |
| | `PagesAreExact` | `Spec => [](...HistoryExact... /\ ...ChangesExact...)`, for all cursors and limits |
| `UploadGateProofs` | `TypeCorrect` | `Spec => []TypeOK` |
| | `LivePermitsAreCurrent` | `Spec => []LivePermitIsCurrent` |
| | `ActiveRecordsArePermitted` | `Spec => []ActiveRecordIsPermitted` |
| | `UploadsAreAllOrNothing` | `Spec => []AllOrNothing` |
| | `CapacityHolds` | `Spec => []WithinCapacity` |
| | `GateKeepsPromise` | `Spec => KeepsPromise` |
| `ServerRuntimeProofs` | `StoreClosesLast` | `ProcessSpec => []StoreOutlivesUsers` |
| | `WaitsForWorkers` | `ProcessSpec => []NoAddAfterWait` |
| | `CleanupsAreRemembered` | `ProcessSpec => []NoCleanupIsForgotten` |
| | `StreamsKeepTheirTemps` | `ProcessSpec => []StreamingKeepsItsTemp` |
| | `DrainIsNeverStuck` | `ProcessSpec => []DrainGoesOn` |
| | `ProcessRunsGate` | `ProcessSpec => Spec` |
| | `ProcessKeepsPermits` | `ProcessSpec => []LivePermitIsCurrent` |
| | `ProcessKeepsLimits` | `ProcessSpec => []WithinCapacity` |
| | `ProcessKeepsPromise` | `ProcessSpec => KeepsPromise` |
| `AccessProofs` | `TypeCorrect` | `AccountsSpec => []AccountsTypeOK` |
| | `SlotsHold` | `AccountsSpec => []SlotsAreExact` |
| | `SessionsHold` | `AccountsSpec => []SessionsAreCurrent` |
| | `LeasesHold` | `AccountsSpec => []LeasesAreCurrent` |
| | `ChangesHold` | `AccountsSpec => ChangesReplaceWhatWasVerified` |
| | `DownloadsTypeCorrect` | `DownloadsSpec => [](AccountsTypeOK /\ DownloadsTypeOK)` |
| | `DownloadsKeepAccounts` | `DownloadsSpec => [](SessionsAreCurrent /\ LeasesAreCurrent)` |
| | `WaitersLed` | `DownloadsSpec => []WaitersAreLed` |
| | `WhatIsServed` | `DownloadsSpec => ServedIsLeased` |
| `ClientProofs` | `QueueTypeCorrect` | `QueueSpec => []QueueTypeOK` |
| | `HoldsAreExact` | `QueueSpec => []HoldIsExact` |
| | `BodiesAreForTheBatch` | `QueueSpec => BodyIsForTheBatch` |
| | `OutcomesStay` | `QueueSpec => OutcomesAreFinal` |
| | `StopsHold` | `QueueSpec => StoppedSendsNothing` |
| | `AuthTypeCorrect` | `AuthSpec => []AuthTypeOK` |
| | `Delivery` | `AuthSpec => []DeliveredToItsSubject` |
| | `CurrentStays` | `AuthSpec => CurrentStaysShown` |
| | `HeartbeatsAreShared` | `RecoverySpec => []OneBeatPerAttempt` |
| | `RepeatsAreSafe` | `RecoverySpec => RepeatsSafely` |
| | `KeptOnceTold` | `RecoverySpec => KeepsWhatItWasTold` |
| | `HeartbeatsAreBounded` | `RecoverySpec => []AttemptsAreBounded` |
| | `RecoveryTypeCorrect` | `RecoverySpec => []RecoveryTypeOK` |

**`PublicSharesProofs`.** `TypeOK` is not inductive: a handler indexes the tables with
the token and the lease it remembers, so that these exist must be part of the
invariant, and that a row which is inserted starts from an empty account. `IInv` adds
`HandlersRefer`, `LeasesRefer` and `FreshTokens`; `InitInv` and a step theorem prove it.
Each action is reduced to what it does to the tables and to one handler
(`TablesType`, `HandlingTablesType`, `StartingHandler`, `HandlingHandler`,
`HandlingRows`), so later proofs need not open it again. `UsesExact` then follows by
counting: a step changes the set of reservations of one token by at most the acting
request, and `uses`, `spent` and `leaked` by the same. `WithinLimits` needs the guard of
the reservation and that adjustments only lower `uploaded_bytes`.

`OutstandingWithinLimit` counts leases, of which there may be any number: only a lease
that is inserted becomes outstanding, so each step adds one to the set or none, under
the guard of its insertion, and with no limit the set stays finite. `BytesExact` is a sum
over the reservations of a token. The sum is a fold, and its unfolding is proved first:
a function that adds up every subset exists (`SumExists`, one cardinality after the
other, by the least natural number that fails), it does not depend on the order
(`SumAddsAny`), so a request that starts, ends or settles moves the sum by its own
bytes. `BytesInv` adds that an exchange declares no bytes and that nothing is accounted
to a token before its row is there. For `OneUploadPerLease`, `LeaseUse` relates the row
of an upload lease to the requests past its reservation: none before it is reserved,
the same one after, and none once a file is stored.

**`ChatGatesProofs`.** That the map counts the users of a gate holds only because each
call remembers its leases correctly. `IInv` therefore says of every call on its own
how its point, its leases, what it overlapped and what it won go together
(`WellFormed`); then that the map, the counts and the leases agree (`Mapped`), that a
held gate is held by a call at a point where it may (`Owned`), that of two users of a
message one found the gate in use (`Overlaps`), that the other is not overtaken
(`Ordered`), and that a winner did not overlap (`Wins`). `OneWinner` follows from the
middle three and is carried along. Joining and leaving change a count by one, which
`FiniteSetTheorems` turns into arithmetic; that a free gate always exists, with one gate
more than there are calls and messages to use it, is the pigeonhole principle. `Writers`
treats the read-write lock apart. The types of the tables are kept because each call of the
server writes them once or not at all (`ChatStoreProofs`).

`NoCircle` needs two more: whoever holds a gate is one of its users (`HeldByUsers`), and a
call asks for its gates in ascending order of the messages (`Ascending`). Suppose that each
of some calls waits for another of them. One that is at a gate waits for a holder that is
past the lock, hence at a gate as well, of a greater message; take the one whose message is the
greatest, and there is none at a gate. A writer that has announced itself waits for readers,
of which none is left, and nobody waits for anything but such a writer. Nothing else
is assumed of `normalizedChatMutationIDs` than that order, and without it TLC finds two
batches in a circle. `GatesKeepPromise` reduces a step to at most one transaction of the
store (`StepWrites`), and the rest is said of the tables.

**`ChatStoreProofs`.** What a transaction of the store does to its readers, in two forms.
`Grows`: the log is extended, every new entry names a message that is present afterwards,
and a message that is new or whose status changed is named by a new entry; so a creation
and a change of status (`CreateGrows`, `ChangeGrows`). `Removes`: the generation
moves on, and what was read before is void; so a deletion or a clear that removes
anything (`RemoveRemoves`). A change of several messages logs them by id: `Ranks` shows
that counting the smaller ids numbers a finite set without gaps. `WritesKeepPromise` maps
every transaction to a step of `ChatPromise`: the last change of a message is the one
that is appended for it (`GrowsTouches`, `ChangeTouches`), whose order is that of the ranks.

The pages are read by cursors that know nothing of what was removed meanwhile.
`HistoryExact`: a page of the history holds every present message from its "next" up to
the id asked for, has exactly the limit when it is not the last, and then leaves something
older, so that a client that follows "next" loses nothing, repeats nothing and comes to an end.
`ChangesExact`: a reader is told to start over exactly when its cursor is of another
generation or ahead, or one of the changes its page would hold, or of the one behind it,
is gone; otherwise its page is every change up to the limit. The query counts rows
(`limit + 1`, ordered) and never looks for a hole; that its test of `Continuous` finds each of them
is the counting of `OldestOfStart`, `OldestOfInterval` and `NewestCount`.

**`ChatSyncProofs`.** What the client shows is right only together with what is under way
to it, so `CInv` speaks of the view and of every answer that still counts and is of the
store's generation. `Valid`: a row is what the store holds, or a later change of that
message says so. `Faithful`: every row shown is valid, and its changes up to the cursor
are in it. `Covered`: a message of the loaded range that is not shown has a change
ahead of the cursor. `GoodCursor`: no change after the cursor was removed. An answer with a
page is complete below its latest change (`PageOk`), one with changes starts at the
client's own cursor and holds every change up to its end (`ChangesOk`), one to a mutation
is never behind what the cursor has passed (`MutationOk`). `OneReader`, that no two reads
of changes count at once, is what allows the cursor to move to the end of an answer.
Requests that were aborted stay under way, and nothing is claimed of them but that they
are stale. The proof separates the two kinds of step: one of the store keeps all this for
any client, because it grows or removes (`GrowsSound`, `RemovesSound`), and one of the
client keeps it because of what it takes from one answer (`AppliedSound`, `StepSound`).
`NothingOutdatedStays` and `CursorNeverReset` (with `ChangesExact`) follow from `CInv`;
`ProjectionIsOwn` is
inductive beside it: a change of subject empties the view, and an answer counts only for the
subject it was asked for.

**`UploadGateProofs`.** `IInv` adds to `TypeOK` and `LivePermitIsCurrent` what makes them
hold from step to step. `SaveOK`: outside the rename and the switch the configuration
on the disk and in memory are one, and what a publication changes is what `Changed`
says. `GateOK`: while the write side is held nobody is at a point of `InGate`, and
whoever is at one has a target that is still granted. `Accounted` relates the files of
a request to what it has saved and to its reply, `Permitted` its point to its permit,
`Registered` its record to both. Each action has one lemma, with one step per part it
can disturb. `GateKeepsPromise` needs no more than `IInv` in each state: every step of
the gate is a step of `UploadPromise` under the mapping or leaves it alone. The rename
is its `Publish`; the switch and the cancellation that follow change nothing there,
because `Void` has revoked those permits since the rename. `CapacityHolds` counts: a
late permit counts against the global limit and its owner only, and is counted against
its resource from the binding on, so the binding has to look again (`AcquireWithinCapacity`,
`BindWithinCapacity`); every other step keeps or shrinks each set that is counted.

**`ServerRuntimeProofs`.** `PInv` adds three parts to the invariant and the type. `Counts`:
`active` is the number of requests under way, the administrator's included, and `wg` that
of the maintenance, the worker and the workers that are late to leave. `Stages`: each
stage of the end has waited for its counter, only a worker has roots pending, and a save is
under way exactly while the administrator's request publishes.
`Staged`: a request has its staging file exactly while it works on it, an old
one is registered, and the list a walk takes after it has looked at the ages holds every
one that is old. Hence the walk removes files of earlier lives only, a step of the process is
one of the gate or leaves the gate alone, and the theorems about the gate hold of it
(`ProcessRunsGate`). `DrainIsNeverStuck` assumes that all wait: then no request is at the gate
or kept out of it, so none is under way, no publication is, and both counters that the
end waits for are zero, which is what it waits for. `ExitingAssumption`, that a worker may be
late at all, is the only thing it needs of the bound on late workers.

**`AccessProofs`.** A handler acts on what it read long ago. `Dated` says that this is
of the past: the version it saw is not ahead of the account's, and while it is the
same so is the password. It is kept because an account changes its password or is
disabled only with its version (`UsersAdvance`). With `Refers` (a handler works on
something that exists, and stands where its operation can), `SlotsAreExact` and the
two properties of sessions and leases it is inductive; each operation is again one
lemma. The downloads keep this invariant, since they only look at leases and delete
those that lapse (`AccessInv`). Of the downloads themselves, `DInv` says that flights and
their leaders point at each other, and `Verified` what a visit knows before it looks at
the file for the last time: the version it has seen has the content of its lease. The
last look compares the file with that version, which gives `ServedIsLeased`.

**`ClientProofs`, the queue.** `QInv` adds to the type that a run has the hold until it is over
or its page is gone, has one file in hand, and has only files before it that were not
uploaded (`RunIsSound`), that a lease in time is of the subject of the batch
(`LeaseIsForTheBatch`), and that a cancellation which finds a transfer ends it
(`CancelsReachTheWire`). What an await is followed by (`ItemDone`, `Finish`, `Send`) has
lemmas of its own, shared by the actions. The action properties follow from
`BodyAfterLease` and `ItemChanges`, which say what a single step can do.

**`ClientProofs`, the tabs.** `TabSound` says of one tab what holds whatever the others do: work in
time was sent, and answered, for the session that is shown; a `/me` in time is of the
cookie if the tab shows that; only a login brings a session, the one it opened. The
cookie is shared, so this would break if a login brought a session that another tab
already shows: `Unseen` says that until the answer arrives nobody has seen the session,
neither as a cookie nor in a call, and that no two logins bring the same. A step of one
tab is then reduced to what the tab shows and knows afterwards (`TabStep`, `GoOnInv`);
the arrival of a login is the one step that is not of that form (`LoginArrives`).

**`ClientProofs`, the recovery.** `Beats` says that no attempt after the current one has a
heartbeat, and that the one of the current attempt, if it was sent, is under way and of
this epoch: every turn and every end of a heartbeat moves the attempt on, so none can
be sent a second time. `Waits` relates a waiting call to its heartbeat, which is under
way and left behind with it; `Sure` says that a call which was refused as recoverable
is no longer with the server. `KeepsWhatItWasTold` needs more (`SInv`): what is fresh is
of the session shown, every attempt since a fresh call was sent ended with a heartbeat
of this epoch (`Remembers`), none of which ended the session, and a page that
shows nobody has one call under way (`Alone`); so the heartbeat a late refusal finds is
the one that was answered "ok". Neither uses that the attempts stay within `Attempts`,
which is shown last, since it needs `SInv`: `AttemptsAreBounded` says that a page begins at
most two attempts for each call and two for each shift. Every call not yet over
(`Unspent`) and every one that has not asked for a heartbeat (`Unasked`) has one attempt to
spend, and the heartbeat under way one or two (`BeatOwes`): it ends its own attempt and, if it
ends the session, the next, but then the calls that waited for it end with it. What is
spent and what is left never exceeds two for each call and shift (`WithinBudget`).

Only model-checked, since it is beyond the prover: all liveness (`EveryCallReturns`,
`FeedSettles`, `TabsSettle`, `EveryRequestEnds`) and the half of `DrainNeverStuck` that is stated
with `ENABLED`; its other half, `DrainGoesOn`, is a theorem, as is every other property of
a passing run. Of `EveryCallReturns` the safety half, that nobody waits in a circle, is one too.

## 6. Where code and documents disagree

- **A revoked token can leave a usable lease** (`shares_revoke_race`). An exchange
  reserves a use, the token is revoked and its leases deleted, and the exchange
  then inserts its lease, which stays valid until it expires.
- **A token can outlive its resource** (`shares_recreate`). `createToken` reads the
  configuration and inserts later, outside `configWriteMu`; a token inserted after
  the revocation becomes valid again when the same resource is configured anew.
- **A feed that gave up shows messages without polling** (`sync_gives_up`).
  `retryInitial` and a page becoming visible reload the history without resetting
  `resetBlocked`.

What looks like a fourth is deliberate: `clearAll` sends `latestChangeSeq`, which the
client's own mutations raise beyond what it has read, so a clear may remove a
message its user has not seen. `useChatFeed.test.ts:724` asserts this, and no
property forbids it.

Observed while modelling and not stated as runs, since nothing in the repository
promises otherwise: an answer to a login of an earlier session that arrives late may
take away the cookie of a newer login; a tab may stay in the state "unknown" with no
`/me` pending when a login that was begun during a revalidation fails, until the next
navigation restores it.

## 7. Not modelled, and why

- The rate limiters (`limiter.go`): sliding windows under one mutex, no interleaving.
- The audit log: rows that nothing reads back to decide anything.
- Path resolution, listing, file picker, share origins, proxies, listeners, secrets:
  functions of their input, or I/O. Configuration files as text.
- The hold of `api.ts` that turns an expiry during an upload into an event of its own.
- The capabilities request of the chat client, and the toggling of its selection: a
  batch may take any messages that can be selected.

## 8. Plan

Done: `PublicShares`, the chat with its promise, uploads with theirs, the runtime, accounts,
downloads, and the three parts of the client, with their runs, and a theorem for every
property of a run that the prover can state. Left: the rate limiters, and an abstract
specification of the tokens (a use is held, spent or lost) for `PublicShares` to implement.
