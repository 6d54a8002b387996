# A TLA+ model of oneVegetable

oneVegetable is an operations tool for shops on Alibaba.com: a browser
extension and a self-hosted back end (the BFF: Hono on Node with SQLite, or on a
Cloudflare Worker with D1) that read and write products, media, orders and
social posts through platforms which answer late, twice, wrongly or not at all.
The part of it that is hard to get right is not the documents it transforms but
the *jobs* it keeps about writes that have left: rows that say what is known of
a write, that stop a second one from being sent too early, and that are touched
by several requests at once. This directory models those jobs, checks them with
TLC and proves the most important facts with TLAPS.

## 1. Inventory

Paths are relative to `src/`. "Handler" means one HTTP request of the BFF; on
D1 every SQL statement is an `await` of its own, so any two handlers interleave
between any two statements, and a handler may be cut off at each of them.

| Component | State | Operations | What is hard | What makes it correct |
|---|---|---|---|---|
| Product mutation jobs, `apps/api/src/product-mutations` | rows of `product_mutation_jobs`: status, revision, target and original state | submitDisplay (a batch), submitUpdate, submitCreation, refresh, recover | the platform answers late, in part, or never; read-back lags; a row per product of a batch; recovery races with everything | one unfinished job per product or payload; one recovery write; failed means refused; no blind repetition |
| Social publishing, `apps/api/src/social-meta/publishing-*.ts`, `meta-publisher.ts` | rows of `social_publish_jobs` | prepare, publish, advance, cancel, expiry, cleanup | two-phase publication on Instagram, lost answers, cancellation under way | one post per job; a record that never contradicts Meta; idempotency keys |
| Mutation lifecycle of the extension, `apps/extension/lib/product-display-mutation-lifecycle.ts` | jobs in `chrome.storage.local`, a promise chain in memory | submit, submitCreation, submitUpdate, refresh, recover | the service worker is stopped at any time and its lock with it | the promises of the BFF jobs, with a weaker store |
| Gateway credential vault, `apps/api/src/gateway/credential-vault.ts` | one revisioned row per protocol with a refresh lease and an error code | import, clear, test, refresh | a refresh token is consumed by its first use; the lease may expire while the call is under way | a consumed IOP token is never sent again; an import is never overwritten by an older refresh |
| Dual authorization, `gateway/dual-authorization.ts` | a binding of two configuration ids | confirm, select | credentials replaced during a confirmation | a binding never outlives the ids it names |
| Credential acquisition, `alibaba-credential-acquisition` | jobs, one active slot | start, continue, status, cancel, expire | the browser driver answers after a cancellation | one active job; a finished job stays finished |
| Meta connection, `social-meta/service.ts` | OAuth states, connections, destinations | configure, startOAuth, completeOAuth, disconnect | callbacks race, replacing lists of destinations | a state is used once; no destination without its connection |
| Extension devices, `social-meta/extension-device-*.ts` | pairings and devices | start, status, approve, revoke, authenticate | two polls of one approved pairing, an answer lost | one active device per pairing |
| Authentication, `auth` | users, sessions, passkeys, challenges | bootstrap, login, logout, change and reset of passwords, passkey ceremonies | slow password checks between read and write | lock-out; revoked sessions stay revoked; challenges are used once |
| Video uploads, `packages/core/src/video-upload-service.ts` | records with a busy lease and a revision | create, initiate, part, complete, submit, verify, reconcile, cancel | a command outlives its lease; multipart calls without an answer | one submission; nothing uncertain is retried |
| Gallery transfers, `packages/core/src/gallery-transfer-runner.ts` | tasks and items in IndexedDB, a Web Lock | run, pause, cancel, skip, recover | tabs closed in the middle of an item, commands during a run | an item is written once; an uncertain one is only verified |
| Batch maintenance, `packages/core/src/product-batch-runner.ts` | items of a batch in memory | preview, execute, verify, stop | an answer lost in the middle of a batch | no update is sent twice; a stop keeps the receipts |
| Description templates, order attachments, maintenance records | revisioned rows | create, update, finish | concurrent edits | no lost update |
| Everything else | | | adapters, signing, parsing, views, generated data, scripts | left to example-based tests |

How they interact: a route of `app.ts` builds a service per request; the service
calls its repository (SQL, the only shared state) and a gateway (one HTTP call
with a timeout). The batch runner and the pages of the UI are clients of the
mutation jobs; credentials are read by every gateway call. The extension runs
the same gateway code in its service worker with its own storage.

## 2. Modules

| Module | Models |
|---|---|
| `MutationJobs` | the status machine of a job: statuses, blocking statuses, `assertTransition`, and what a failure is recorded as |
| `ProductMutations` | submitDisplay, submitUpdate, refresh and recover over many products, with the platform |
| `ProductCreation` | submitCreation and refreshCreation, where the product is named by the answer only |
| `ExtensionMutations` | the same jobs in the extension: one operation at a time, a worker that dies, a store that forgets |
| `BatchMaintenance` | the runner of a batch of updates in one tab, with the jobs the back end keeps of them |
| `SocialPublishing` | the publishing service over many jobs, with Meta |
| `CredentialVault` | one slot of the credential vault: renewals, imports, clearing, and the token endpoint |
| `CredentialAcquisition` | the jobs that fetch the credentials through a remote browser |
| `UserAccounts` | logins, changes of users and the sessions they end |
| `GalleryTransfer` | one transfer task: the runner under its lock, commands from any tab, late calls |
| `VideoUpload` | one upload task: commands under a lease, the multipart upload, the submission |
| `WriteOnce`, `WriteAhead` | the abstract promises of a recorded write |
| `TaskProofs` | theorems about `GalleryTransfer`, `VideoUpload` and `BatchMaintenance` |
| the other `*Proofs` | theorems about the module they are named after |
| `MC*` | symmetry sets, bounds and model values for TLC |

`MutationJobs` is extended by the two models of mutation jobs that use its whole
machine and by the batch, whose server side is that machine and nothing else.
`SocialPublishing` instantiates `WriteOnce`; `GalleryTransfer` and `VideoUpload`
instantiate `WriteAhead`.

### How state and actions correspond to the code

*Rows.* `job` is the table. A row is named after the request that inserts it (a
`<<request, product>>` pair for a batch), since each handler draws a fresh id.
`rev` is the `revision` column, which every UPDATE tests. `aged` (mutations)
stands for two minutes since the write, `late` (publishing, acquisition) for the
passing of an expiry time, `lapsed` for the end of a lease, `waiting` for
`next_advance_time_utc`: time is the nondeterministic moment at which a deadline
passes.

*Handlers.* `pc[r]` is the `await` a request stands at and `req[r]` its local
variables: what it read, the revision it will test, the verdict its catch block
will write (`hand` holds both in the smaller models). Each action is what
happens between two awaits. `Abort` (mutations) and `Crash` (publishing) end a
handler at any await: an evicted worker, a version conflict, an index violation,
a database error. `create` and `transition` return the row by a separate SELECT;
the step `Reread` is that SELECT, and it may find a revision another handler
wrote.

*Platforms.* `call[r]` is what the platform made of the write of a request:
pending, then carried out, refused, or never decided. The answer is a separate
step, so it can be lost (`AnswerUnknown`) whatever the platform did. In
`ProductMutations` an accepted write becomes visible product by product, may
start a review, and may be accepted for only a part of a batch. In
`SocialPublishing` an error for an answer says nothing of what Meta did: a call
may be carried out before or after a server in front of Meta has rejected it
(`takenRejected`).

*Calm weather.* Two models carry a variable `calm`, chosen by `Init` and never
changed. It marks the behaviours in which the callers do not do what the code
does nothing to prevent: in `ProductMutations`, refresh or recover a job whose
handler is at work, or have the platform act after the handler has gone; in
`CredentialAcquisition`, read or expire a job while another request stands
between its read of it and its write. Crashes, lost answers and failing calls
are part of calm weather too. `OutcomeHolds`,
`OutboundRespectsOpenJobsWhenCalm` and `EndIsFinal` hold only there, and their
complements are findings 1 and 5 and a remark below. All other properties hold
in any weather, and every run explores both.

*History.* Where the code allows one particular order that breaks a promise, the
model does not leave the order out: a history variable records that it happened,
and the property names it as the one exception. `doubled` and `loose`
(acquisition), `owed`, `raced` and `late` (accounts) and `versions` (vault) are
of this kind. Such a property says that nothing else breaks the promise.

*The extension.* `work` is the one operation the promise chain `#exclusive` lets
run; `Die` stops the worker at any of its awaits, or stands for a storage write
that fails, and loses it. `Retained` is the pruning of old finished jobs, which
accompanies every store. Revisions are left out: they only refuse requests.

*The batch.* `phase` is the await of the one runner, `index` its position,
`stopped` the flag any part of the page may set. `update` is what became of the
update of an item on its way to the back end, `server` the job kept of it, which
other clients may move on. What a schema says is abstracted to whether it still
agrees with the preview.

*The vault.* `row` is the row of a slot and `control` the revision the triggers
of migration 16 keep beside it. A document stands for the refresh token in it,
named by the import it came with and the number of its renewals; every import
brings a token of its own, as a new authorization does (importing an exported
bundle again is outside the model). `seen[c]` is the version a client read: a
renewal at its first step, an import or a clearing when the administrator's
page was shown. `wire[r]` is what the token endpoint made of a call, which may
arrive long after its client gave up; an explicit refusal means that the token
was not taken. `lapsed` is the end of the 60 seconds of a lease. `versions` is
history, kept for the properties only.

*Acquisition.* `row` is the job, `open` the browsers that are signed in, `hand`
the request at work with the snapshot it took. The model has one status `asking`
for the two in which the administrator is asked for something, and one `ended`
for the three in which nothing was fetched. A close may fail without a word
(`Closes`): `driver.cancel` returns when it cannot connect
(`cloudflare-playwright-driver.ts:167`) and `closeSession` swallows what it
throws. `loose` collects the jobs whose session escaped in that way, or because
`expire` closes nothing, the process ended before the session was on record, or
the session was attached while a request that had read the job before was about
to write it. `doubled` are the jobs that two continues resumed at one time: both
read that the job asks the user, and `update` tests no status. The limit of
three starts in half an hour is left out.

*Accounts.* A password is named by the revision of the user row that set it, so
that a session knows which password opened it. A session is `late` if it was
inserted after its user had been disabled or given another password; `owed` are
the users whose sessions a request had yet to end when it was stopped between
the two statements; `raced` records that a demotion was written while another
one of a different user was past its count. First-time setup, new users,
passkeys and the lock after failed logins are left out.

*Gallery.* Each IndexedDB transaction is one action; `pc` is the await of the
tab that holds the Web Lock, and `idle` frees it. `flight` counts the calls of
an item that may still land and `applied` those that did. `sends`, `stop` and
`afterStop` are history: calls made, and what left after the last pause or
cancellation. The scan that plans a task is represented by the plans it may
produce: imports into a new and into an existing group, exports to storage and
into an archive.

*Video.* A request works on a copy `loc[r]` of the row and writes it back by a
test of the revision; `current` is the set of requests whose copy still has the
present one, which makes a counter unnecessary. The lease `busy` may lapse while
its command is still at work. `multi`, `stored` and `object` are the store,
`posted` and `visible` the video platform, `wire[r]` the call a request made,
which may arrive after the request gave up.

*Where the models are coarser than the code.*
- `submitDisplay` lists the products of the batch page by page; `DisplayRead` is
  one step. What the handler remembers of each product is stale by the time it
  is used in either case.
- `refresh` and `recover` read the row and then the platform: one step. The row
  is tested for the same revision when it is written, and every change of a row
  changes its revision, so a row that changed between the two reads leads to the
  same end (a conflict) as one that changed after them. In the extension nobody
  else writes the storage between the two.
- A display row keeps revision 1 until its handler settles it (`DisplaySettle`):
  the row the code re-reads after its INSERT can be at a later revision only
  when another handler moved it on, and no status it can then have allows
  `verifying`, except `verifying` itself, which only this handler writes.
- A renewal that fails in `completeRefresh` goes through the same catch block as
  one without an answer: `Uncertain` stands for both. A renewal that loses its
  lease or its revision, or is refused the lease, writes nothing: `Leave`.
- The reads of a batch (account, product, schema) are one await: nothing between
  them changes state, and a stop may fall into any of them.
- Messages, audit entries, fingerprints and patches are left out, except that
  the audit entry of an accepted update is a step, because its failure is caught
  and changes the row (`UpdateAuditFails`).

### Abstract specifications

`WriteOnce` states what a recorded write promises: the intent is on record
before a call leaves, at most one call leaves, and the verdict rests on what is
known: "done" on a write that was carried out, "refused" on an error for an
answer to every call that left, "withdrawn" on an intent never recorded;
`unknown` is the only verdict that may be replaced. A rejected call may still be
carried out, since the error may come from a server in front of the platform.
`SocialPublishing` implements it (`KeepsPromise`): the intent of a Facebook post
is the row in `processing`, that of an Instagram post is
`final_publish_attempted_time_utc`. A job cancelled or expired *before* it was
started is withdrawn for good. One that is cancelled later is not: the handler
that started it may pick the cancelled row up and carry on (below, "known
disagreements"), so the refinement mapping promises nothing about it until the
post has left.

`WriteAhead` is weaker and fits work that is resumed: a write may be tried
again, but only after the earlier call is known to have had no effect. The
receipt comes first, a call leaves only while none is alive or landed, and the
receipt is torn up only then. `GalleryTransfer` implements it item by item
(`KeepsPromise`: the receipt of an item is its status), `VideoUpload` for its
submission (`SubmitsOnce`: the receipt is `submit_attempted`, that is
`row.submit`).

## 3. Runs

The runs use symmetry over requests, products, jobs, renewals and the like
(interchangeable in every definition); the two runs with liveness, `gallery` and
`batch`, use none. Deadlock is not checked: every request of a behaviour ends
and the system then stops.

| Run | Instance | Shows |
|---|---|---|
| `mutations` | 3 requests on one of 2 products in any weather, or 2 requests on both in calm weather; 2 contents | `RecoverOnce` and `FailedNeverApplied` under every interleaving, with batches refused in part; in calm weather `OutboundRespectsOpenJobsWhenCalm`, and `OutcomeHolds`: verified and recovered are true of the product |
| `creation` | 3 requests, 2 payloads | `NoBlindRepeat`, `AcceptedKeepsProduct`, `FailedMadeNothing`, `OneLockPerProduct` |
| `extension` | 3 jobs, 2 products, 1 payload | `OutboundRespectsOpenJobs` in any weather, `RestoreOnce`, `FailedNeverApplied`, `CreatedOnce`, with a worker that dies anywhere |
| `batch` | 3 products | `StatesAreTrue`, `LeavesInTurn`, `BatchEnds` |
| `publishing` | 3 jobs, 4 requests, 1 key; all requests on one job, or one beside every prepare | `AtMostOnePost`, `CancelledStaysOff`, `RecordIsTrue`, `IdempotencyHolds`, `KeepsPromise` |
| `vault` | 3 renewals, an IOP and a TOP import, 1 clearing, 2 renewals per document | unless a revision is reused: `SpentOnce`, `UnfencedIsFresh`, `HolderKeepsLease`, and nobody writes over a document it has not read |
| `acquisition` | 2 jobs, 3 requests | `OneActive`; `OneDriver` but for doubled continues; `NoSessionLeft` but for sessions that escaped their close; in calm weather `EndIsFinal` |
| `accounts` | 2 users, 2 requests, 2 writes in all, 3 kinds of sessions | `WritesOnlyItsOwn`; `AdminRemains` but for two demotions at once; `SessionsAreCurrent`: three causes, and no other, leave a session behind |
| `gallery` | 2 items, 4 plans, 3 calls per item | `ReceiptsKept`, `OrderHolds`, `StopIsHeard`, `KeepsPromise`, `NeverStuckRunning` |
| `video` | 3 requests of which 2 are at work, 1 part | `OneFate`, `CancelledIsClean`, `ClaimsAreTrue`, `SubmitsOnce` |
| `mutations_overlap` | as `mutations` | finding 1: `OutboundRespectsOpenJobs` fails |
| `batch_deadline` | as `batch` | finding 2: `OneAtATime` fails |

Why the bounds are enough: mutation jobs interact only through a product (or a
payload, or a key), so one product with three requests shows every pair of
handlers together with a third that frees the product or moves the row; two
products are needed only for what a batch does row by row, and both begin with
the same content, since contents are interchangeable. A publishing job needs at
most one publish and one advance request to be posted; four requests leave a
competitor to each of them. In the vault three renewals show a holder, its
successor and one that read before both; two imports and a clearing are what it
takes to reuse a revision, and one import of each protocol puts an IOP and a TOP
document into the same slot, as `primary` allows. Acquisition has one active
slot, so a second job is there only to compete for it, and three requests show a
driver, one that ends its job and one that comes with an old snapshot. Accounts
need two users for the last administrator, and two writes (`TwoWrites`), of one
row for a stale write or of both for a race of demotions. A transfer item
depends on at most its group and on the items before it, and a second run after
an uncertain one uses the third call. A video command competes with the one
whose lease it took over; the third request is only a late call. A batch of
three has an item before and one after the one that goes wrong.

`OutcomeHolds` is false in rough weather: a platform that carries out a write
after the handler gave up on it changes the product behind a recovered job, and
so does a handler whose job was recovered under it. The code cannot prevent the
first; the second is finding 1. `OneOpenJob` of `ProductMutations` and of
`ExtensionMutations`, `OneOpenCreation`, and the type invariants are not listed
in a run: they are parts of the inductive invariants of section 4 and are
proved.

### Findings

Two runs are expected to fail. Each states a sentence of the repository.

1. `mutations_overlap`: `docs/product-display-mutation-lifecycle.md:18` says
   that no new write leaves for a product with an unfinished job. `recover`
   accepts a `submitted` job (`service.ts:487`). If its handler has not sent its
   write and the product still shows its original state, the job becomes
   `recovered`, a second job opens, and the first write leaves.
2. `batch_deadline`: the comment at `product-batch-runner.ts:277` says of an
   accepted update that still needs a readback: "no automatic writes to the next
   item", and `docs/product-batch-maintenance.md:19` that an unresolved write
   stops subsequent products. `verify` does so at the head of its loop, but its
   test after the pause of five seconds (line 254) returns without `stop()`.
   When the five minutes end during a pause, which is where nearly all of the
   time is spent, the item stays `pending` and the next product is written.

Four more configurations fail as well. They are kept beside the runs for whoever
wants to see the trace (`tlc -config MCUserAccounts_demotions.cfg
MCUserAccounts`, and so on); each checks one property, and TLC contradicts it in
a few seconds.

3. `MCUserAccounts_demotions.cfg`, `LastAdminStays`:
   `packages/ui/src/i18n/messages/en-US/admin.ts:327` says "The last active
   administrator cannot be demoted.", and the test
   `apps/api/test/admin-service.test.ts:66` expects `LAST_ACTIVE_ADMIN`. The
   count (`admin-service.ts:77`) and the write are two statements, and the write
   tests the revision of its own row only: two demotions that count each other's
   administrator are both stored and leave none.
4. `MCCredentialVault_reuse.cfg`, `NoBlindOverwrite`:
   `docs/node-credential-management.md:32` says that revision and lease prevent
   concurrent overwriting. `save` reads the control row in a statement before
   its INSERT (`credential-vault.ts:163`). If another import and its clearing
   fall between the two, the new row has the revision of the cleared one, and a
   renewal that read the cleared one stores its tokens over the new document.
   The reuse of a revision, `RevisionsUnique`, is the only cause, as the run
   `vault` and the theorems about it show.
5. `MCCredentialAcquisition_reactivation.cfg`, `OverStaysOver`: the test
   `packages/core/test/alibaba-credential-acquisition.test.ts:75` says that a
   job "refuses transitions after a terminal result". The state machine does so
   for the status of the snapshot it is given; `repository.update` (line 139)
   writes without a test of the status, so that a job which was cancelled or
   expired in between becomes active again.
6. `MCSocialPublishing_errors.cfg`, `FailedIsNotPosted`:
   `docs/social-gallery-sharing.md:47` says that a request that times out after
   the platform took it leaves the job `unknown`. Every HTTP error counts as an
   explicit refusal (`meta-publisher.ts:244`), a 504 of a server in front of
   Meta included, so that a post that exists may be recorded as `failed`.

Known disagreements without a configuration:
- `docs/product-display-mutation-lifecycle.md:16`, `failed` is what Alibaba
  never accepted. When the recovery write of the extension is refused, its catch
  block (`lifecycle.ts:709`) makes the job `failed`, although the first write
  was carried out; the BFF writes `recovery-required` there (`service.ts:537`).
  `FailedNeverApplied` of `ExtensionMutations` speaks of jobs that were not
  recovered for this reason.
- The same line counts a failure of the local preparation as `failed`. When the
  second INSERT of a batch fails, the catch block (`service.ts:260`) writes
  `recovery-required` to the first row, although nothing was sent
  (`DisplayInsertFails`, `DisplayGiveUp`).
- `docs/social-gallery-sharing.md:47`, the sentence of finding 6: a Facebook job
  can be cancelled while its call is under way (`publishing-service.ts:317`) and
  then stays `cancelled`.
- `updateJob` returns the row of a second SELECT
  (`publishing-repository.ts:211`); a cancellation in between is handed to the
  publish request, whose next update passes the revision test and writes
  `processing` or `published` over it.
- A pause or cancellation that is given between the read of a task and the start
  of its run is cleared with the command field (`StopIsKept` of
  `GalleryTransfer`); `StopIsHeard` covers all others.
- `docs/openapi-auth.md:74` says that the browser session is closed immediately.
  The driver returns silently when it cannot connect
  (`cloudflare-playwright-driver.ts:167`) and the service swallows its errors
  (`service.ts:318`): the job ends and its browser may stay signed in until the
  browser service ends it. `NoSessionLeft` lists this among the ways a session
  is left (`loose`).
- Two continues that both read a job's question both drive its browser
  (`service.ts:145`): the exception `doubled` of `OneDriver`.
- A login whose password check began before a reset stores its session after it
  (`auth/service.ts:166`), and a process that ends between the write of a row
  and the end of the sessions (`admin-service.ts:90` and `101`, `133` and `144`)
  leaves them to live on: `late` and `owed` in `SessionsAreCurrent`.

### Fairness and liveness

Most of the system is moved by its users: a handler may be cut off at any await
and nothing restarts it, and a job moves on only when somebody asks for a
refresh. No action of those models deserves fairness. Two parts run on their
own.

`TransferLiveSpec`: a live tab goes on with its run (weak fairness of
the runner's steps; a step that kills the tab is none of them), and `recover`,
which every start and refresh of the gallery page calls, takes the lock some
time when it is free again and again (strong fairness, since other runs may hold
it in between). Commands, failures and landing calls are promised nothing. Then
a task is not `running` for ever (`NeverStuckRunning`).

`BatchLiveSpec`: every await of the runner ends, because calls have
a time limit and pauses are timers, and the five minutes of a verification pass.
No assumption is made about the page, the back end or the platform. Then an
execution that began ends (`BatchEnds`), even if its jobs never move.

## 4. Proofs

Each theorem holds for every value of the constants, under the named assumption
of the module.

*`ProductMutationsProofs`* proves `TypeCorrect`, `OneJobPerProduct`,
`OneRestore` (`RecoverOnce`), `FailedIsHarmless` (`FailedNeverApplied`),
`WritesWaitForOpenJobs` (`OutboundRespectsOpenJobsWhenCalm`) and
`ClosedJobsTellTheTruth` (`OutcomeHolds`), from `MutationsAssumption` (a content
is neither a display state nor what a failed read returns). None of these is
inductive alone. A row may become `failed` only through a handler that saw its
write refused; that the platform did not take it rests on what that handler
knows. `Inductive` therefore says, for each request, what its rows look like
while it has not sent (`Places`), what the platform may have made of its write
at each step (`Sent`) and what it may still do to its rows (`Rows`); for each
row, which write it remembers (`Remembers`); and of recover requests that only
one is past the transition to `recovering` (`OneRestorer`), because that
transition tests a revision and a row that recorded its recovery never goes
back. Under `calm` it adds `Held`: while a handler is still to send or waits for
the answer, its rows are open and nobody else touches them. The proof of a step
goes by the request that moves: `StepKeeps` collects what a step may do to rows,
writes and locals, so that the rows of other requests are treated once
(`OthersKeep`) and not once per action.

`OutcomeHolds` needs more than that: a verdict is written an await after the
reading it rests on, and stays in the row for ever. `Truthful` is proved over
`Inductive` and adds that the open job of a product is its last one, that a
request which has read a row nobody wrote since (`Current`) still holds what the
product is (`Reads`), and that the last row of a product, once closed, is true
of it (`TellsTruth`). The step that could break all three is a write of the
platform that lands. In calm weather it lands while its handler waits, so that
the open job of the product is the one the write belongs to (`AppliesToItsJob`);
that job is the last, so no closed row speaks of the product, and whoever has
read the row has read an earlier revision or has not begun.

*`ProductCreationProofs`* proves `TypeCorrect`, `OneCreationPerPayload`,
`ProductNeverLost`, `FailedIsHarmless`, `ProductLockedOnce` and
`NoRepeatInTheDark`, that is, every property of the run `creation`, from
`CreationAssumption` (the null value is no request and no payload). The
invariant `Inductive` adds, for each row, how its status, product and revision
relate to the call of its request (`RowInv`), and for each handler what it knows
at the step it stands at (`HandlerInv`, one clause per `pc`): a handler at
`giveup` with verdict failed has seen a refusal, one at `settle` an acceptance,
a refresh holds a reading that stays true because products are never unlisted.

*`ExtensionMutationsProofs`* proves `TypeCorrect`, `OneJobPerProduct`,
`FailedIsHarmless`, `NoContentTwice`, `WritesWaitForOpenJobs` and `OneRestore`
in any weather. The invariant relates each stored job to its two calls
(`JobsInOrder`) and the operation at work to the jobs it holds (`WorkInv`). That
one operation runs at a time replaces the whole apparatus of
`ProductMutationsProofs`; the death of the worker is harmless because every call
is preceded by a store.

*`SocialPublishingProofs`* proves `TypeCorrect`, `PostedOnce`,
`CancelledNeverPosted`, `RecordTrue` and `KeysHold` from `SocialAssumption`,
whatever errors the servers in front of Meta answer with. The heart is
`OneSender`: of all requests past the record of an intent, at most one per job
and kind. It needs to know which revision each handler holds (`HandlerInv`) and
which flags a row of that revision has (`RowInv`): flags are only ever set, and
the UPDATE that sets one is conditional on a revision at which it was not set,
so that two handlers that both wrote it would have to have held the same
revision. `Reread` breaks the simpler argument "my revision is mine alone"; the
predicates `Undecided` and `Active` say what is still known of a row after it.

Its last part proves `ImplementsWriteOnce`: initial states map to initial
states, and each action maps to `Record`, `Dispatch`, `Take`, `Reject`,
`Conclude` or a stutter, from the invariants above and with no assumption on
what the servers answer.

*`CredentialVaultProofs`* proves `TypeCorrect` without conditions, and
`TokenSpentOnce`, `UnfencedFresh`, `LeaseKept` and `NothingBlind` for every
state up to which no revision was reused, from `VaultAssumption` (the kinds of
clients are disjoint, the null value is none of them). `Inductive` has two
layers. `Sound` holds always: what a renewal knows at each step, and that every
document in the row or in a client's memory is in the history. `Exclusive` holds
while `RevisionsUnique` does: a document has one version and the row the latest
of its import (`DocumentsAdvance`), a leased IOP row is fenced and only its
holder's call may be out (`LeaseFenced`), and a renewal about to send is alone
(`SenderAlone`). The fence, not the time limit, is what keeps a second IOP
renewal out (`FenceKeepsOut`); it is lowered by a refusal, a new document, and
nothing else. Since `versions` only grows, a state with unique revisions had
only such predecessors, which makes the conditional invariant inductive.

*`CredentialAcquisitionProofs`* proves `TypeCorrect` and `OneJobActive`, from
the index over active jobs, `OneDriverPerJob` and `SessionsClosed`, all in any
weather, and `EndStands` in calm weather, from `AcquisitionAssumption`. The
invariant says how a row and the request that drives it relate (`Shape`,
`Decided`, `Newborn`). Of a job that is not `doubled` one request at most is
anywhere between its question and the next (`Single`): two could be only if both
had passed the test of the question, which is what `doubled` records. An open
session of a job that is not `loose` is on the row of an active job, or in the
hands of a request that is about to attach it, and every request about to end
the job knows of it (`Known`). Under `calm` a snapshot is held by one request
and is of an active job (`Alone`), which is what `EndStands` rests on.
`CompletedStored` adds that a completed job has the credentials it promises; no
run checks it.

*`UserAccountsProofs`* proves `TypeCorrect`, `NothingUndone`,
`AdministratorRemains` and `NoSessionOutlives` for every interleaving and
wherever a request is stopped, from `AccountsAssumption`. What a request read is
still the row when the revision test lets it write (`Snapshot`). Until two
demotions have met, each that has passed its count still has an administrator
besides its own user (`Witness`): whoever takes that one away is a demotion past
its count as well. A session that is not current has one of the three causes
(`Explained`), since a row gets a new password, or is disabled, only by a step
after which its request stands at the end of the sessions.

*`TaskProofs`* is about the three long tasks. Their variables are apart, so
that one module can hold all three; each has an invariant of its own.

- *Gallery* (`TaskAssumption`): `TransferTypeCorrect`, `NoReceiptIsLost`
  (`ReceiptsKept`), `ItemsKeepOrder` (`OrderHolds`), `StopsAreHeard`
  (`StopIsHeard`) and the refinement `TransferWritesAhead` (`KeepsPromise`), for
  every plan of any length. `TransferInvariant` adds what ties the record to the
  runner: one item at most is `running`, and it is the one at work or the one a
  dead tab left (`OneRunning`); no item has two calls that can have an effect,
  and one that was not sent, or was refused, has none (`CallsCounted`); a
  command given during a run stays on the record until the run ends, and the
  runner does not pass the check before the write (`CommandStands`). Order is
  kept because verdicts stand: an item that was ready to be sent stays so
  (`ReadyStands`).
- *Video* (`VideoAssumption`): `UploadTypeCorrect`, `AssembledOrRemoved`
  (`OneFate`), `CancellationIsClean` (`CancelledIsClean`), `TheRecordIsTrue`
  (`ClaimsAreTrue`) and the refinement `SubmissionWritesAhead` (`SubmitsOnce`),
  for any number of requests and parts. The properties speak of the row and the
  outside; what makes them inductive is what the copies say. A copy that may
  still be stored has the flags of the row (`CopyFits`), so that no write takes
  a flag back; a call that is about to leave was announced by its flag
  (`FlagsFit`); the upload is opened by one request and its id unknown until
  that one has its answer (`CreatedOnceFits`), which is why a cancellation of a
  task without an id must be refused; `SubmittedOnceFits` says the same of the
  submission. `ClosedFits` carries a cancellation from the moment it is judged
  to the moment it is stored. A step either changes what one request remembers,
  or stores its copy, or lets a call arrive: one lemma for each kind
  (`RememberingKeepsTheInvariant`, `StoringKeepsTheInvariant`,
  `LandingKeepsTheInvariant`) treats everybody else, and the lemmas of the
  actions only say what the moving request does.
- *Batch* (`BatchAssumption`): `BatchTypeCorrect`, `ItemsTellTheTruth`
  (`StatesAreTrue`) and `UpdatesLeaveInTurn` (`LeavesInTurn`), for any number of
  products. `BatchInvariant` splits the items at the index of the runner: those
  ahead are as the preview left them (`AheadBlank`), the one at the index is
  described await by await (`AtIndex`), and those behind are settled unless the
  batch was stopped or five minutes ended during a pause (`OthersSettled`).

The invariants of this module were checked by TLC on the instances of the runs
before they were proved.

Every invariant and every action property of a passing run is stated by a
theorem. Only model-checked: liveness (`NeverStuckRunning`, `BatchEnds`), which
is out of the reach of TLAPS under fairness. Unconditional `SpentOnce`,
`NoBlindOverwrite`, `StopIsKept`, `OneAtATime`, `LastAdminStays`,
`OverStaysOver` and `FailedIsNotPosted` are false, for the reasons given under
the findings.

## 5. What is left

In the order in which it matters: extension devices (two polls of one approved
pairing, an answer that is lost), the Meta connection (OAuth states, the
replacement of destinations), the binding of two configurations over two vault
slots, passkeys with their one-time challenges, the publication queue of the UI
in `localStorage`, and the small revisioned tables (templates, attachments,
maintenance records).

Not modelled, and not planned: adapters and parsers (pure functions over large
documents), signing and HTTP, the remote browser's pages, views, generated data,
build scripts and the archived version 1. They hold no state that several actors
share, and example-based tests reach them.
