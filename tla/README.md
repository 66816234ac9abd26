# Verification of openfeature-local-provider-audit

TLA+ models of the library in `packages/local-provider/src`, TLC configurations
that model-check them on small instances, and TLAPS proofs that hold for every
value of the constants. Paths below are relative to that directory unless they
start with `docs/`.

1. [The system](#1-the-system)
2. [Modules](#2-modules)
3. [Runs](#3-runs)
4. [Proofs](#4-proofs)
5. [Observed divergence from the documentation](#5-observed-divergence-from-the-documentation)
6. [What is not modelled](#6-what-is-not-modelled)
7. [Status](#7-status)

## 1. The system

An OpenFeature provider evaluates flags locally from a snapshot, writes an audit
event for each evaluation, and may have its snapshot replaced at run time from a
file, from HTTPS or S3, optionally signed, and optionally recovered from a
durable journal. Everything runs on the JavaScript event loop of one process, so
code between two `await`s is atomic; the files it shares with other processes
are not.

| component | state | operations | talks to |
| --- | --- | --- | --- |
| snapshot refresher (`sources/snapshot-refresher.ts`, `refresh-operation.ts`, `abortable.ts`) | replay floor, last committed delivery and its ETag, the operation in flight (stage, deadline, outstanding reads), closed | `refresh`, `close`, `getProvenance` | awaits source and store; drives the provider; its deadline timer may fire at every await |
| signed artifacts (`sources/signed-snapshot.ts`, `flags/snapshot-provenance.ts`) | none | verify for activation, verify historically, capture provenance | called by store and refresher |
| snapshot store (`sources/snapshot-store.ts`, `snapshot-journal.ts`, `store-cleanup.ts`) | the journal file, the lock file beside it | `load`, `commit` | other processes through the file system |
| local provider (`provider/local-provider.ts`) | active state (snapshot, hash, provenance, overrides, expiry), the update reservation, closed | evaluations, `updateSnapshot`, `prepareSnapshot` with `commit`/`cancel`, `onClose` | emits ConfigurationChanged synchronously; writes to the audit sink |
| managed provider (`provider/managed-provider.ts`) | polling timer, closing | start-up recovery, `start`, `refresh`, `close` | owns provider, refresher and store |
| operational status (`provider/operational-state.ts`) | counters and times | counts refreshes and audit writes | provider, refresher |
| active expiry (`provider/active-snapshot-expiry.ts`) | a latch per artifact | `unavailable` | evaluation, twice |
| audit policy (`provider/audit-policy.ts`) | none | bounded wait for an audit write | evaluation |
| queued sink (`audit/queued-sink.ts`, `batch-writer.ts`) | pending count and bytes, retained failures | `write`, `writeConfirmed`, `flush` | a writer, one at a time or in batches |
| rotating file sink (`audit/audit-sink.ts`, `process-write-queue.ts`) | per-path queue, lock file, rotated files | append, rotate | other writers of the path |
| chained sink (`audit/chained-file-sink.ts` and helpers) | manifest, segments, head of the hash chain | append, publish, prune, recover, checkpoint | other processes through the directory |
| audit and journal readers (`audit/diagnose-directory.ts`, `audit/export-evidence.ts`, `sources/diagnose-snapshot-journal.ts`) | what was read so far | diagnose without the lock, export under it | the directory that writers change |
| watcher and watched provider (`flags/snapshot-file.ts`, `provider/watched-provider.ts`) | last accepted input, native watchers, debounce timer, queued reload | `reload`, `close`, file events | provider, application callbacks |
| sources (`sources/https-source.ts`, `s3-source.ts`, `source-policy.ts`) | attempt, its timer, the total timer, the body in use | `fetch` with retries | network |
| evaluator (`evaluator/*`), overrides (`env/*`) | indexes and parsed operands kept beside the snapshot; parsed override values | precedence, conditions, rollout, schedule | provider |
| validation and parsing (`flags/*`) | none | accept and capture a snapshot | provider, evaluator |
| command line and replay (`cli/*`, `replay/*`) | none | compile segments, import flagd, simulate, compare, replay | validator, evaluator |
| metrics, errors, public types | observers, values | | everything |

What is hard here, and what makes each component correct:

* **Refresh.** A source or a store may take arbitrarily long, ignore its abort
  signal, fail after its effect, or answer after the deadline; meanwhile the
  application may install other snapshots, close either object or start another
  refresh. Correct means: nothing stale, late, rolled back or foreign is
  applied; failures are counted once; nothing is left reserved or waiting.
* **Journal.** Several processes commit to one path; any system call may fail and
  any process may die between two of them; clocks step. Correct means: seen
  through its head the journal only advances, and what was acknowledged stays.
* **Restart.** Only the journal survives. Correct means: what was live before
  the crash still bounds what can become live afterwards.
* **Audit chain and file.** Lock files, rotation, and a hash chain that must
  survive a crash at every point. Correct means: the chain only grows, every
  confirmed write has a record of its own in it, no write has two, and no line of
  the rotated file is lost but with the oldest file.
* **Audit queue.** Two bounds, two overflow policies, groups that fail in part,
  overlapping flushes. Correct means: the counters describe the calls, storage
  sees events in order, and every failure is reported once.
* **Readers.** A diagnosis reads piece by piece what others change. Correct means:
  it tells the truth or says that it could not, and never takes a change or an
  interruption for corruption.
* **Evaluation and its audit.** The state is replaced, the artifact expires, the
  clock steps back and the audit write times out and settles later, all while one
  evaluation waits. Correct means: what is returned belongs to the captured state
  and to what was audited, nothing of an expired artifact is returned, and the
  counters are right.
* **Watcher.** Events during reloads, coalesced requests, in-place writes under a
  read, close during a reload. Correct means: the last contents of the file are
  eventually active, and nothing is delivered after close.
* **Polling and reads.** Timers, retries, manual refreshes and close race; a
  client answers after it was given up. Correct means: one chain of polls, one
  release of every body, no answer after the deadline.
* **Decisions.** Sequential but subtle: precedence, three-valued conditions,
  indexed against linear search, caches beside objects a caller may edit, segments
  expanded in place. Correct means: equal to a reference definition that has
  neither index nor cache.

`PROJECT.json` lists every component and every hazard with its source line.

## 2. Modules

```
SignedSnapshots            artifacts, freshness, replay rule, mergeFloor
  AcceptedSnapshot         abstract: the register a durable store is
  SignedDelivery           abstract: what durable signed delivery promises
  SnapshotStore            createFileSnapshotStore, several processes
                             implements AcceptedSnapshot
    SnapshotJournalReaders   diagnoseSnapshotJournal beside the commits
  SnapshotRefresher        createSnapshotRefresher + RefreshOperation + the
                             provider's updates + managed restart
                             uses AcceptedSnapshot, implements SignedDelivery
AuditLog                   abstract: an append-only log of confirmed writes
  AuditChain               createChainedFileAuditSink, several processes
                             implements AuditLog
    AuditReaders             diagnoseAuditDirectory and the export beside them
AuditQueue                 createQueuedAuditSink and createBatchWriter
AuditWriters               the rotating file sink, several processes
LocalProvider              evaluations, audits, expiry, updates, close
SnapshotWatchHandle        how a change of a file comes to be noticed
  SnapshotWatcher          reloads and createWatchedLocalProvider
SourceReads                readWithPolicy over readAttempt
  ManagedProvider          polling, manual refresh, close
TargetingConditions        conditions.ts
  SnapshotSchema           validation, capture with indexes, rollout, schedule
    EnvOverrides           overrides from the environment
      FlagEvaluation       evaluateWithTrace on owned and on edited snapshots
        SnapshotTools      compile, import, simulate, compare, replay

MCSnapshotRefresher, MCSnapshotStore, MCJournalReaders, MCAuditReaders,
MCAuditQueue, MCAuditWriters, MCLocalProvider, MCSnapshotWatcher,
MCManagedProvider, MCFlagEvaluation                      instances for TLC
SnapshotStoreProofs, SnapshotRefresherProofs, LocalProviderProofs,
SnapshotWatcherProofs, AuditQueueProofs, AuditWritersProofs,
AuditChainProofs, ManagedProviderProofs                  proofs
```

Indentation is EXTENDS or INSTANCE. The promise one module proves is what the
next assumes: a refresh in `ManagedProvider` is one step whose inside is
`SnapshotRefresher`; the sink of `LocalProvider` may resolve, fail or never
settle, which contains every behaviour of `AuditQueue`, `AuditWriters` and
`AuditChain`; the evaluator of `LocalProvider` is any function, and what it
computes is `FlagEvaluation`.

**SignedSnapshots.** An artifact is a record of its claims (`seq`, `issuedAt`,
`expiresAt`), its contents and a tag; equality of artifacts is equality of
`artifactHash`. Bytes that do not authenticate are outside `Artifacts`.
`Historic` and `Fresh` are the two policies of `assertFreshness`, `Continues`
the replay rule of `verify(content, previous)`, `Compatible` and `MergeFloor`
the two halves of `mergeFloor`.

**SnapshotStore.** One action per system call that others can observe: creating
the lock (`Opens`), `lock.stat`, reading the journal, the decision
(`Refuses`, `Repeats`, `Stages`), `rename`, the directory flush, the release.
`Fails` is a failing call at any of these points; `Abandons` is a process that
dies, or a removal of the lock that fails, and leaves the lock file behind.
`Releases` is `releaseLock` in `withStoreCleanup`: the commit is acknowledged
only if neither it nor the cleanup failed. How much history fits in `maxBytes`
is a choice of a prefix. The lock file is identified by the commit that created
it, as the code does with device and inode. The operator removes a lock only
when its commit is not running, the documented procedure.

**SnapshotJournalReaders** adds one diagnosis: one action per look at the file
system: the `stat` of the directory, the lock, the listing, the journal's presence, its
`stat` and its contents, then both stats again, one after the other
(`ComparesDirectory`, `ComparesJournal`), and the lock again, with whose answer the verdict falls
(`Reports`). A commit may come between any two. Every entry that is created, renamed or
removed changes the directory's stat; two changes are taken to have different
time stamps. `seen` keeps, for the property only, what was there when the stats
were compared, and `overtaken` that a commit took the lock after that: one that began and
ended between the comparison and the second look for the lock leaves nothing the
code could notice.

**SnapshotRefresher.** `phase` is where the worker is, `wait` and `got` the await
it is in and what it returned. Each block of `performRefresh` and
`persistAndActivate` between two awaits is one action with the guards of that
block; the ways a block may end early are separate actions (`ResumesTooLate`,
`LoadFails`, `LoadedButUnusable`, `FetchFails`, `ContentInvalid`,
`SignatureInvalid`, `ValidatedTooLate`, `UpdateRefused`, `PersistFails`,
`PersistedTooLate`, `PersistedButClosed`, `PersistedButStale`,
`ReverifiedTooLate`), and each says what it does to the floor and whether it
counts a failure.

* `due` says that the deadline has passed, `timedOut` that `expire` ran: by its
  timer (`TimerFires`) or by `assertNotTimedOut` in a block that resumed first.
  `ValidatedTooLate` and `ReverifiedTooLate` are verifications that outlast it.
* `reads` counts started reads that have not settled; with `SlotAfterWorker` and
  `SlotAfterRead` it is `releaseIfIdle`. In phase `draining` the worker is done
  and the slot is held by a read nobody waits for.
* A load first opens the journal (`LoadOpens`) and may return it after another
  process replaced it. A commit takes effect (`CommitTakesEffect`) some time
  before it settles, and may fail after that.
* `ReplacedByHandler` is a ConfigurationChanged handler that installs another
  snapshot inside `applyState`, before the refresher looks again.
* `Crash`, `LoadsRecovery` and `Restart` are a process that dies and is created
  again by `createManagedLocalProvider`; `closed` and `provClosed` end a
  process's refreshing, and only a crash and restart undo them.
* `AppUpdates`, `AppPrepares`, `AppEndsTransaction` are the application's own use
  of the same provider.

**SignedDelivery** knows two values, the accepted head and what delivery last
activated. It allows accepting an artifact that continues the head, and
activating an artifact that the head continues and that continues what was
active. Without this order a restart could lose the floor of something that was
already live.

**AuditChain.** `manifest` and `files` are the directory, `lock` the lock file,
`sink[w]` what process `w` is doing: `pc` is the position in `writeEvents`,
`view` the manifest in memory, `todo` the events not appended yet. A record is
identified with the history of events its hash commits to, so `Follows` is
`verifyAuditChainRecord` and a checkpoint is a history. `Loads` is `load`,
`RecoversSuffix` and `RecoversOrphan` the two halves of `recover`, `Publishes`
the rename in `writeChainMetadata`, `Prunes` one `unlink` of `pruneSegments`,
`Appends` one `persist` up to its manifest. Reading happens under the lock and
is one step with the decision it leads to; everything others can observe is a
step of its own. `AppendBreaks` leaves any part of a chunk, with or without a
torn line, and possibly an empty new segment; `IOFails` is any other failing
call, `ReleaseFails` a lock that cannot be removed, `Crash` the end of the
process. `CannotAppend` is a record that exceeds `maxRecordBytes`: it is built
one event ahead of the chunk that would be persisted, so it takes that chunk
with it (`Buildable`). `Asks(w, <<>>)` is `getCheckpoint`, which recovers like a
write and then reads everything back (`Verified`).

**AuditLog** is the promise: `log` only grows, and for every event the number of
its records lies between the number of its confirmed and of its submitted
writes. `AuditChain` maps `log` to the history at the published head after the
initial checkpoint; what was pruned stays part of it.

**AuditReaders** adds a diagnosis without the lock, one step per await: stat, listing,
lock, the manifest's stat and contents, each segment, and in the end both stats again
(`RechecksDirectory`, `RechecksManifest`) and the lock again, with whose answer the verdict
falls (`Reports`). Writers may come between any two. `touched` says that the stat that is
compared next has changed since the first look; `seen`, for the property only, is the
directory when its stat was compared, and `overtaken` says that somebody took the
lock after that. A write that begins and ends between the comparison and the second look
for the lock leaves nothing the code could notice.
`MaxLookAttempts` bounds how much was submitted when a diagnosis runs. `Exportable` is what
`exportChainedAuditEvidence` accepts of a copy made under the lock.

**AuditQueue.** `write[w]` is where a call is, from `enqueueWrite` to its
settlement; `accepted` the order of acceptance, `group` what the storage works
on. `TakeGroup` is the loop of `drain` with its count and byte limits; the storage
may store a group, or part of it and then fail, or never answer. A sink without a
batch writer is the same with groups of one. `FlushWaits` and `FlushReturns` are
the serialized `flush` with the failures it reports and the causes it keeps.

**AuditWriters.** Two layers: `queue` and `active` are `serializeProcessWrite` of
each process, with a signal that cancels what has not begun; `marker` is the
lock file, an inode with an owner token. Creating it, its `stat`, the token
written into it, the renames of `rotate`, the append, and the release with its
two checks before the `unlink` are steps of their own; any may fail and the
process may crash between any two. The operator recovers a marker after every
process has stopped. `Replace` is a program that puts a marker of its own in the place of the
owner's and does not touch the files. A call with a signal is the export.

**LocalProvider.** `evaluation[e]` is a call: the state it captured, the result
so far, the code its audit event tells, and the audit outcome. `Evaluate` is
`evaluateAndResolve` up to its first await, and all of it in `nonBlocking` mode;
`ResumeInTime` and `ResumeTooLate` are the rest, with the second look at expiry.
`AuditSettles` is the sink's promise, whenever it settles. `Times` may be read in
any order; `Invalid` is a clock that throws. An expiry object is a number
(`latch`), kept as long as the artifact stays the same (`LatchFor`).

**SnapshotWatchHandle** and **SnapshotWatcher.** `handle` has the events on their
way from the directory watcher, the file watcher (macOS, rearmed after a rename)
and the poll. `queued` is the reload that waits, `active` the one that runs and
`reloading` the manual reload that calls share; `Merged` is what becomes of a second
request. A read is opened, may be
changed under, and is compared with its stat afterwards. Delivery calls the
provider (`Deliver`), which may refuse (`Refuse`); `Accept` is what the watcher
believes afterwards.

**SourceReads** and **ManagedProvider.** What is left of each time (`total`, `due`, `wake`)
is counted in ticks; timers fire some time after nothing is left, and everything the code does in
reaction to a settled promise is one step. `tries[k]` is one attempt with what
its client handed over, so that an answer that comes after the attempt was given
up can still be counted. The polling chain is `timers`, `polls` and `owed` (the
step between them).

**TargetingConditions ... SnapshotTools.** Values are tagged by their `typeof`;
`MatchesCondition` is two-valued, `CheckedCondition` its three-valued twin below `not`.
`ValidateFlagSnapshot` is `ValidSnapshot` and the captured copy with its
indexes; rollouts and schedules are searched through an index or front to back.
`FlagEvaluation` has two snapshots: `owned`, validated and captured, and the
caller's own, which may be edited between evaluations while parsed operands stay
behind in a cache. `SnapshotTools` runs the commands on documents and compares
what they emit with what the documents say; reading one of them is `Load`.
A condition is a tree of `TargetingCondition`, which is `MaxHeight` levels of `not`, `all`
and `any` over `Leaves` and their indexed copies (`Level`); what is computed of a condition,
a rollout, a search or the environment's variables is a recursive function over such a set or over
positions. The conditions of documents, which may also be references, are a set of their own,
`Authored`; `Expanding` and its reference `Unfolding` are recursive functions of the levels left
(`MaxDepth`), because a reference leads from one tree into another, perhaps back into itself.

Definitions marked `variant` model a plausible mistake in the definition that
follows; the specification does not use them. They are there so that each
property can be seen to fail when the code is wrong.

## 3. Runs

| run | question | instance |
| --- | --- | --- |
| `durable_refresh` | does signed refresh with a store keep its bookkeeping and its promise, and answer its callers? | 3 artifacts, 1 caller, clock 0..3; 303 388 states |
| `local_refresh` | does a process without a store ever deliver a rollback? | 4 artifacts, clock 0..3; 369 652 states |
| `unsigned_refresh` | is a 304 believed only for its own contents? | 3 bodies, 2 application snapshots; 16 637 states |
| `store_commits` | do concurrent commits implement the register, and what does a diagnosis beside them see? | 3 commits, 5 artifacts, history of 2, clock 0..3; 3 959 884 states up to symmetry |
| `store_flush` | is what was acknowledged always flushed? (it is not, section 5) | 2 commits, 2 artifacts |
| `audit_chain` | does the chained directory survive interruption anywhere, implement the log and settle every write, and what does a diagnosis see? | 2 processes, 3 groups over 3 events, 3 submissions, 2 retained segments; 587 056 states |
| `audit_queue` | do the queue's bounds, order and reports hold at its limits? | 3 calls, 2 confirmed, 2 flushes, 2 calls and 4 bytes; 443 687 states |
| `file_writers` | does the rotated file lose or reorder lines, and is every call answered? | 2 processes, 2 writes, 1 export, 2 mishaps; 610 400 states |
| `provider_audit` | are result, audit, expiry and status consistent when evaluations overlap with everything else? | 2 evaluations, every policy, 2 updates, clock 0..1 and invalid; 1 428 930 states |
| `watched_reload` | does the last content arrive, and are reloads fresh? | 2 changes, 4 texts, 1 manual reload, 1 native error; 905 932 states |
| `managed_polling` | is there one chain of polls and one release per body, within the deadlines? | 2 attempts of 2 ticks within 3; 80 062 states |
| `evaluation` | do indexes, caches, validation and tools change a decision? | 30 snapshots in 6 families, 4 environments, about 60 requests, 12 authoring and 6 flagd documents; 121 500 states |

The properties, and what would break them:

* `RefresherSound` (types, `NoOverlappingIO`, `ReservationHeldWhilePersisting`): one
  forgotten `cancel` blocks all updates for the life of the provider, an early one
  lets the application overtake a commit; freeing the slot at the deadline would let
  a retry run next to a read that ignores its signal.
* `FailureCountedExactlyOnce`: deadline, worker and provider all report.
* `FloorCoversDelivered`: recovering the floor only from a fresh head forgets it
  after an outage longer than the lifetime of the artifact.
* `AppliesOnlyInTime`: an artifact may expire, the deadline pass, and either
  object be closed while `store.commit` runs.
* `LocalUpdatesKept`: the application may update during each of the awaits.
* `ResultReflectsSource`: an ETag must not outlive the contents it came with.
* `NoRollback`: an unsigned local update clears the provider's provenance; the
  floor must not be derived from the provider alone. Every artifact made active is
  compared, also one that a ConfigurationChanged handler replaces at once; such a one is
  not compared *with* unless there is a store, the exception
  `docs/library/signed-snapshots.md` (106-108) states.
* `DeliveryPromise`: accept durably, then activate, never backwards.
* `CallersAnswered`, `SlotReleased`: bounded waiting, and no leaked slot.
* `StoreSound`, `AcknowledgedKept`, `ImplementsRegister`: lock ownership, history
  order, no lost acknowledgment, the head only advances.
* `JournalDiagnosisSound`: freshness decided before the last look at the file
  system, or a journal that is not compared, reports a journal that is not the one
  described. What is reported was so when the stats were compared, and still is unless a
  call failed or a commit took the lock since.
* `DirectorySound`: what was committed is on disk, unbroken and of the recorded size
  (a base size not reset by a rotation breaks it); at most one interrupted chunk
  (`chained-file-sink.ts:307`; publishing once per group leaves more); whole lines are
  always adopted by the next writer; failed deletions are retried.
* `EvidenceKept`: pruning before the new manifest is published would delete
  records the old one still names.
* `ImplementsLog`: lines that are not reset after a chunk are written twice; a
  confirmation before publication could be lost.
* `AuditDiagnosisSound`: without the final comparison a live change reads as
  corruption (`diagnose-directory.ts`: "Never label a detected live change as
  corruption"). It too speaks of the directory when its stat was compared, and after that
  for as long as nobody takes the lock.
* `WritesSettle`, `CallsAnswered`: without the lock timeout one dead process blocks
  all others.
* `QueueBounded`, `StoredInOrder`: a release of count and bytes in one path but not
  the other; a failed group followed by one that overtakes it.
* `FlushReports`: a failure reported by two flushes, by none, or with a foreign cause.
* `EverythingSettles`: a flush that waits for writes that came after it.
* `WritersSound`: a marker that is taken over although its owner is at work; a cancelled
  call that stays in the queue and runs for a caller that was answered.
* `RotationKeepsLines`: renames in the wrong order, or a retry after half a rotation.
* `StatusTruthful`: a late settlement counted after its timeout.
* `FailsClosed`: a timeout that is not a failure, or an event about another result.
* `ExpiryIsFinal`: a latch per state and not per artifact; no second look. It ends where
  the artifact goes out of use: one that comes back after other or unsigned contents has a
  new guard (`docs/library/active-snapshot-expiry.md`, 34-36), and a clock that
  stepped back then makes it usable.
* `Answered`: a wait without a timer.
* `ReloadsConsistent`, `NothingAfterClose`, `LastContentsArrive`: a manual reload
  answered by an older one, delivery after close, a watcher left on a renamed file,
  or an event that is dropped because a reload is running.
* `OnePollChain`, `PollingGoesOn`: `start` twice, a manual refresh or a close in the
  middle of a poll, or a failed refresh, adding or ending a chain.
* `BodiesReleased`, `ReadsKeepPolicy`: abort, timer, end and late answer each try to
  release the body; timers that run late must not admit an answer.
* `EvaluationsSound`: a decision differs from that of the plain snapshot as it is now,
  a negation of unreadable data matches, or an override is someone else's.
* `ValidationSuffices`: a captured snapshot fails an evaluation, shares of a rollout
  are not the buckets it gets, a schedule takes back what it gave.
* `ToolsFaithful`: compiled or imported snapshots decide otherwise than their documents
  read; a comparison miscounts, or overlooks a decision that differs only in the stage,
  percentage or time of a schedule (`inspection.ts:111`); a limit that is met counts as exceeded; a replay of
  what was just recorded reports a mismatch.

**Bounds.** The artifacts contain a successor, two artifacts under one sequence
(equivocation), a higher sequence issued earlier (backdating) and different
contents with different lifetimes, so that each clause of the replay rule and of
the freshness policy decides some step. The clock may step backwards and
forwards over all their dates. A history of two entries is the smallest from
which an entry is dropped. Three commits are enough for one running, one
abandoned and one arriving; they differ in nothing but names, and no property of
that run is about liveness, so they are a symmetry set. One caller suffices because callers
share one promise and `waiting` is read by no guard of the worker. Unbounded
quantities of the refresher are `now` (`MaxTime`) only: `reads` is proved to be at
most one, and a refresh may be repeated for ever.

For the chain, records of 2 and 3 bytes with batches and segments of 5 make
groups that fit one chunk, need two, and start a new segment; a third event's
record exceeds `maxRecordBytes`. The initial checkpoint is not genesis. Three
submissions (`MaxAttempts`) with two retained segments are enough for a deletion that fails, is
retried, and follows another rotation; the properties, mutants included, gave the
same answers with four.

In the queue, the large event fits beside the small one in the queue but not in a
group, and not beside the medium one at all; one retained cause (`MaxCauses`) is
less than the failures possible. `MaxMishaps` bounds failed steps, crashes and
replaced markers of the file writers together. Two updates of the provider are
enough for a renewal, a replacement by unsigned contents, and a return of the same
artifact after it, which has a guard of its own; longer histories are
covered by the proofs. `MaxWrites` is also what makes the file quiet in the end;
a Windows handle polls only, which the polling Linux handle contains. Two changes
are one that a reload races and one that races its successor. `MaxBackoff` caps the
retry delay as the code does. The families of snapshots each have members the
validator must refuse; `MinMembership`, `MinRollout` and `MinStages` are the sizes
from which the code builds an index, lowered so that both searches occur;
`BucketScale` is the number of buckets, and percentages are counted in halves of
one so that too fine ones exist. `MaxVisits`, `MaxDepth`, `MaxNodes` and
`MaxChildren` are the limits of the code, lowered so that documents exceed them. `MaxHeight`
bounds the set of conditions only, and is above the height of each in the run.

**Fairness.** What is assumed is that the event loop runs what is ready and that
timers fire, and, where a property needs it, that the operating system answers.

* `SnapshotRefresher`: a ready worker block runs, the monotonic clock reaches the
  deadline, a due timer fires. Nothing is assumed of source, store, callers,
  application or crashes for `CallersAnswered`. `SlotReleased` assumes in addition, in
  its own statement, that started reads and commits settle: the code deliberately
  keeps the slot and the reservation until then (`docs/library/https-snapshots.md`).
* `AuditChain`: the file system answers each call, with success or an error; crashes
  and failures are not bounded.
* `AuditQueue`: promise reactions run. That the storage answers is a premise of
  `EverythingSettles`, not part of the specification.
* `AuditWriters`: each process continues, and its waiting time expires; nothing makes
  the holder of the lock release it.
* `LocalProvider`: timers and reactions run; the sink may never settle.
* `SnapshotWatcher`: notifications arrive, timers fire, reads end, the loop runs.
  Without the first no watcher could promise anything; errors that end a native
  watcher are in the model and excuse it only when nothing polls.
* `ManagedProvider`: time passes, timers fire, reactions run; the client may never
  answer, and whether it does is not assumed.

Deadlock checking is off (`CHECK_DEADLOCK FALSE`) where the system may really come
to rest: when all calls of the queue, of the file writers or of the provider have
been made, when a watched provider is closed or its file quiet, and when a managed
provider was closed. It is on in every other run.

## 4. Proofs

Everything that the runs check of safety and that holds is also proved: of the snapshot
store, the diagnosis of its journal, the refresher, the local provider, the watcher, polling
with its reads, the audit queue, the file writers, the audit chain and its diagnosis, of
evaluation with validation and overrides, and of the commands around it. The proofs are for
any artifacts, callers, commits, evaluations, processes, policies, snapshots, documents,
requests, environments, texts, sizes and bounds, from the assumptions
`ArtifactAssumption`, `PolicyAssumption`, `RefresherAssumption`, `StoreAssumption`,
`ProviderAssumption`, `HandlesAssumption`, `WatcherAssumption`, `QueueAssumption`,
`WritersAssumption`, `ChainAssumption`, `ReadersAssumption`, `ReadsAssumption`,
`ConditionsAssumption`, `DepthAssumption`, `RolloutsAssumption`, `FlagOrderAssumption`,
`EvaluationAssumption`, `DocumentsAssumption` and `RequestsAssumption`. Liveness is the other exception, at the end of this section.
Some conjuncts of the assumptions are there for the provers only and true of every
instance: that powers of two are natural numbers, that `None` is neither a result of a
read nor a call or a marker nor a list of segments, that a torn line is no history, that
`Undefined` is none of the values it is told apart from, and that `Null` is not `NotFinite`.

What the seven assumptions of evaluation and its commands say otherwise is what the types of the source say
before anything is validated: a leaf has one of the operators and an operand of its kind
(`IsLeaf`); a rollout, a list of rules or of stages is an array, and the seeds of a rollout
are strings (`Seeds`); every flag key has one place in the order of entries; the hash puts
every key in a bucket that is a natural number; and percentages and stage times, which the
validator bounds, are assumed nothing of. So an unvalidated snapshot may
have every fault that the type `FlagSnapshot` does not exclude. A document's conditions are
leaves, references, negations and groups whose parts are conditions too, and its references
may be missing, shared or cyclic; the levels a condition may have (`MaxDepth`) are no more than
the model's conditions have (`MaxHeight`); a limit of a comparison is a natural number.

* **SnapshotStoreProofs**: the inductive invariant adds to `OneWriter` that
  acknowledged artifacts lie behind the head, that a commit past its decision
  holds an admitted artifact over the journal it read, and that journals are
  ordered. A rename then keeps order (`RenameKeepsOrder`), all other steps leave
  the journal alone. `StoreImplementsRegister`: only `Renames` changes the head,
  to an artifact that continues it. `JournalDiagnosisIsSound` (`LookInv`): while no
  commit has touched the file since the diagnosis first looked, what it noted is what
  an inspection of the journal notes, whenever made (`Noted`); the second look tells
  whether one has (`CommitsTouch`). That the history of the journal never looks out of
  order (`NoDisorder`) is `Ordered`, the invariant of the commits. From the comparison
  on, what was noted is `seen`, which is what is there until a commit takes the lock.
* **SnapshotRefresherProofs**: the replay rule is reflexive, transitive and
  antisymmetric on artifacts, and `mergeFloor` of compatible claims continues both;
  every argument about floors uses only these facts. `Typed` ties each phase to its await, its
  outstanding read and the type of its result; without it neither
  `NoOverlappingIO` nor the type of `Delivery` is inductive. `CountedSoFar` adds
  that while a worker runs only the deadline can have counted or answered.
  `Covered` has five parts: the floor covers what was
  delivered while the process lives; the head covers it with a store; what a
  restart has read lies between the two; what is being persisted continues the
  floor and is covered by the head once it has taken effect; and without a
  store, or without a verifier, there is nothing to cover when there is no
  process. Floor and head are needed together because a crash destroys one and
  another process may move the other. From it follow `FloorNeverBehind`,
  `DeliveryNeverRollsBack` and the refinement `DeliveryKeepsPromise`. `BeforeKept`
  (while persisting, the provider still has what the refresh started from) needs
  the reservation invariant and gives `LocalUpdatesWin`. `RefreshReflectsSource` needs
  `TagsTell`: without signatures, the ETag that is kept came with the contents
  committed, the one that is sent is that of the state the fetch started from, and a
  304 answers the one that was sent. The replay rule plays no part in it.
* **LocalProviderProofs**: `EvaluateBegins` and `ResumeEnds` say once what the two
  steps of an evaluation do, whatever the clock says; everything else uses them.
  `ProviderFailsClosed` needs `EventTells`: while an audit is waited for, its event
  tells the result it stands for, or it failed. `ProviderExpiryIsFinal` needs
  `Lineage`: states of one activation share their expiry object, whether the
  provider or an evaluation holds them, and only enforced signed states have one;
  a new activation has a number nobody holds. `ProviderStatusTruthful` needs
  `Counting`, the five counters as cardinalities of disjoint sets of evaluations,
  each step adding or removing one; that the counters are natural numbers, part of
  `TypeOK`, is a consequence and not a premise, because `pending` is decremented.
* **LocalProviderProofs**, second part: evaluation. The invariant `EvaluationInv` says
  that the captured copy is that of a snapshot that was valid, that an operand kept in a cache
  says what its own text does (`CacheSound`), that the overrides are those of the captured
  flags, and that the last answer is what its snapshot decides *with nothing kept*. Without
  the caches it is not inductive: the next answer is made of operands that earlier
  evaluations left, perhaps of a text that was edited since. TLC found it to hold on the run
  `evaluation`. From it `EvaluationsAreSound` and `ValidationIsEnough`, along four lines:
  - *Conditions.* A property of conditions is proved level by level (`ConditionInduction`,
    an induction on the number of levels with a set in place of the predicate), and each
    recursive function over them is first shown to exist (`MatchesDefined`, `HoldsDefined`,
    `ReadableDefined`...). `LeafAnswers` is the heart: an indexed leaf, with operands from a
    sound cache, answers as the text does. Below `not`, `CheckedMeaning`: the
    three-valued answer is unknown if and only if something below cannot be read, else
    the classical truth. `MatchedMeaning` puts them together.
  - *Searches.* `SearchFinds` is well-founded induction on the span that is left.
    Bounds of a valid rollout rise and stages are ordered (`BoundsRise`, `StagesRise`), so that
    the indexed search and the linear one agree (`IndexFindsRule`, `StageFound`); of a
    snapshot that was not validated the code uses the linear one only, and so does the model.
  - *Shares.* The buckets of a rule are those between its bound and the one before;
    counting them is a bijection onto the places its percentage asks for
    (`SharesOfVariant`). It needs that the validator refuses percentages finer than a
    bucket: with rounding the counts would not add up.
    `ValidScheduleGrows` needs that stages never lower a percentage.
  - *Overrides.* The loop over the flags keeps, for each flag, what the reference says of
    those before it, and of the cache that every entry was parsed as its own text
    (`OneFlagApplied`, `AllFlagsApplied`); flags without a variable in the environment change
    nothing (`IndexedOverrides`).

  `DecisionAlike` then follows an evaluation through its precedence, one lemma for each place where
  it may end. The theorems hold of `EvaluationSpec` and of `LoadingSpec`, in which the caller
  may also read any other snapshot (`Load`).
* **LocalProviderProofs**, third part: the commands. `ToolsAreFaithful` says of `ToolsSpec` that
  every report is faithful, from `EvaluationInv` and the four claims of `ToolsFaithful`
  themselves (`ToolsReport`, one case for each command).
  - *Compilation.* The code expands in one pass, with the set of references on the way, and
    never builds the unfolded condition the claim is about. `ExpansionReplaces` and
    `ExpansionAccepts` are inductions on the levels left: what is accepted has the nodes of
    the unfolded condition and matches as it does (a reference is a group of one), and what
    unfolds within the limits is accepted. The second is where the set of references matters: it
    needs `Separate`, that a definition on the way needs at least as many levels as
    what is being expanded, so that a condition which is refused as a cycle could not have
    been unfolded either. `AcceptableExpands` adds depth, nodes and leaves. Each rule, each
    definition and the count of visits then agree (`ValidWithConditions`, `TotalWith`), and
    two snapshots whose conditions match alike decide alike (`DecisionWith`): `CompilesAsWritten`.
  - *Import.* Without rules, rollout and schedule a flag answers its default
    (`DefaultAnswered`); that the default has the flag's type is what `ValidSnapshot` passed.
  - *Comparison and replay.* Overrides from the index, from the flags and from the text of
    the snapshot are the same for each flag (`OverridesOfText`), so that `DecisionAlike` lets
    both sides be read front to back (`DecisionFromText`). `ShareWithin` is the arithmetic of
    a limit that is met.

  Every step of `ToolsSpec` is one of `LoadingSpec` (`ToolsAreLoading`), since what the commands
  emit is a snapshot; so what is proved of evaluation holds between commands as well
  (`EmittedEvaluationsAreSound`, `EmittedValidationIsEnough`).
* **SnapshotWatcherProofs**: `WatcherSilentAfterClose` needs no invariant, only the
  guards. `WatcherReloadsConsistent` needs four. `Typed`: what is delivered was
  parsed. `Aligned`: between `Deliver` and `Accept` the provider is ahead of what is
  accepted, and nothing is accepted before the first reload. `Attributed`: once the
  provider is open, a request that does not report, waiting or running, is one the
  shared manual reload waits for; without it the failure of such a request could
  have nobody to count it. `Fresh`: the request a manual reload waits for skips
  nothing, whatever was merged into it, and opens the file after the call. All rest
  on `Enqueued`, what a merge does to the request that waits.

* **AuditQueueProofs**: `Located` ties a call's progress to the place it is in,
  waiting or in the group; `InOrder` says that what is in flight is the end of what
  was accepted and that no call was accepted twice; `StoredSound` that the storage
  has only calls it is done with, each after those accepted before it. Order in the
  storage is not inductive without both: a group is appended after everything stored
  before because its calls come after all that are done (`AnsweredKeeps`, for a group
  of which any first part is stored). `Accounting` needs one lemma per way in and out
  of `Pending`, and `BytesOf` is additive (`BytesOfOneMore`) because it is a
  cardinality. `FlushReports` needs that a flush knows no more calls than were accepted.
* **AuditWritersProofs**: `OneHolder` says that one process at most is between the
  creation of the marker and its removal (`stat`, `record`, working, `check`,
  `token`, `unlink`), that there is a marker as long, and whose token it carries:
  the holder's own or, after `Replace`, a stranger's. Mutual exclusion alone is not
  inductive, since the removal compares identity and token before it unlinks.
  `LinesOnce` follows the line of a call from its append to its answer, `Attended` the
  call through the queue of its process, from which `OnlyUnanswered`: what waits or runs
  has a caller. `NoLineOverwritten` rests on
  `NextNumberFree`: when a file is moved, its next number is free, whatever earlier
  rotation was interrupted, because the highest such number is moved first.
* **AuditChainProofs**: the invariant `IInv` says that there is one history, `full`, of
  which everything readable in the directory is a part (`Witnessed(full)`). `Chain`
  ties the directory to it: the segments of the manifest cut its published part into
  adjacent pieces (`Cut`), each file holds its piece (`Stored`), the tip's file or the
  next one may hold more of it (`Committed`, `Leftover`: at most one chunk, with a
  partial line behind it at most), and one whole file at most waits for its removal
  (`Pruned`).
  `Aware` is what the lock holder's view has in common with the manifest at each
  stage, `Faithful` and `Counted` that an event asked for is on disk or still owed, and
  none more often than it was submitted. `full` is the witness because nothing in the
  state is: between an append and the manifest that publishes it, the only trace of
  an event is a file that no process has read yet. Few steps change the directory:
  appending extends `full` (`Grown`), publication moves the boundary (`Sealed`,
  `PublicationSound`), pruning shortens what is stored (`Deleted`). For the others it is
  enough that the moving process knows what it must (`QuietKeeps`, `StepKeeps`).
  `DirectoryIsSound`, `EvidenceIsKept` and `ChainImplementsLog` follow from `IInv`; in
  the refinement, the log is the published part of `full`, and only `Publishes` moves it.
  `AuditDiagnosisIsSound` adds `ReaderInv`: while the stat is untouched and the lock
  free, what was noted is real (`IssuesReal`) and what was passed over is sound
  (`NothingMissed`). Files change only under the lock (`FilesNeedLock`), and taking it
  touches the stat; with the lock free and the stat untouched, the directory is the one
  that was read (`WritesTouch`), and `seen` when that is compared
  (`RechecksDirectorySees`). What was seen stays so until the lock is taken (`StillSo`,
  `WritesTraced`). `SegmentSeen` is that a segment of the published manifest
  shows an interrupted append at most, never corruption.
* **ManagedProviderProofs**: `PollsInv` adds to `OnePollChain` that only a running
  refresh has polls to answer and that before `start` there is no chain at all.
  `ReadsInv` is one predicate per attempt, `TrySound`: what was handed over is
  released if, and only if, the attempt is over; each step of a read keeps it
  (`InterruptSound`, `FinishedSound`, `EndsSound`), and a read ends before its fetch
  (`due <= total`). From it `ReadsFollowPolicy`, whose premise is that a result is
  accepted in one step with the look at both times.

Only model-checked:

* liveness (`CallersAnswered`, `SlotReleased`, `WritesSettle`, `EverythingSettles`,
  `CallsAnswered`, `Answered`, `LastContentsArrive`, `PollingGoesOn`): liveness under
  fairness is out of the prover's reach here.

## 5. Observed divergence from the documentation

`docs/library/snapshot-recovery.md` (113-117) says that the parent directory is
flushed on POSIX, and advises after an ambiguous error to "retry the identical
artifact". `commit` returns for an artifact that already is the head
(`sources/snapshot-store.ts:184`) before it reaches the flush. In the run
`store_flush` a commit renames its journal, its directory flush fails and it
reports an error; the documented retry is acknowledged without a flush, so that
a power loss may still undo what was acknowledged. `AcknowledgedKept`, which is
about crashes of processes and not of the machine, holds.

Three boundaries the models make precise, which contradict no statement of the
documentation:

* `docs/library/audit-chain.md` says that the chain "fails closed". A process that
  dies, or an append that fails, between creating a new segment and its first
  complete line leaves an empty segment, and one that dies while the very first
  manifest is written leaves a temporary file in a directory without a manifest.
  Both refuse every later write until an operator acts, although no record is
  damaged. `RecoversUnlessPartial`, part of `DirectorySound`, states exactly these
  exceptions.
* A writer releases its lock by comparing identity and token and then unlinking
  the path (`audit/audit-sink.ts:287-299`), which `docs/library/audit-event-v1.md`
  (164-166) says is "not atomic conditional unlink". `Replace` between `CheckToken`
  and `Unlink` is that window: the replacement is removed, and the next process
  acquires the lock. `Exclusive` speaks of the library's own processes, and holds
  because they create a marker only where there is none.
* A watcher that reported an error and does not poll may miss later changes; the
  application was told. `InUse` excuses exactly this case.

## 6. What is not modelled

* Inside the snapshot modules: Windows; sizes in bytes; retired verification
  keys (an entry that stops authenticating is modelled by the clock only);
  failure categories and messages; `getProvenance` and `diagnoseFailure`, which
  change nothing; `allowFirstStart` (a restart without a journal may always
  start); a failing audience or key check (such bytes are `Forged`); custom
  providers, verifiers and stores other than the library's own; deletion or
  rollback of the journal by someone else, which the documentation excludes.
* In the audit modules: loss of power (`fsync`), ownership, type and permission
  checks of files, damage to committed files from outside, the capture and the
  contents of events (redaction and pseudonyms are pure functions of one event),
  limits on directory entries, cancellation of a diagnosis, which throws.
* In `LocalProvider`: metrics, the outcome observer and logging, which cannot
  change anything; refused updates and reservations, which `SnapshotRefresher` has.
* In `SnapshotWatcher`: watchers that cannot be created at the start, and errors that
  native watchers emit before anything was loaded (`snapshot-file.ts:173-178`). Which
  watcher the operating system tells of which change is external, taken from how
  the code uses each.
* In `SourceReads`: URL, header and size checks, redirects, which reject at once
  without retry; the AWS client.
* In the evaluation modules: the syntax of JSON, YAML and semantic versions (their
  order is a constant), hashing (the bucket of a key is a constant), messages and
  the text of explanations; infinite numbers, which an operand that was not validated could
  hold; and requests whose own `context` or `targetingKey` is inherited or an accessor, which
  matching reads and the three-valued check refuses (`conditions.ts:101-109`, `293-305`).
* `generate-types`, the verification and diagnosis commands and the HTML and
  Markdown reports of the command line: formatting of one input, or a single
  call of a function that is modelled.
* Metrics and errors: observers and values without behaviour of their own; public
  types: declarations.
* Examples, release tooling and benchmarks (`examples/`, `scripts/`, two fifths of
  the implementation lines of the repository): scripts that run once in a fresh
  checkout, start other tools and compare their output; they share no state with
  the library and have no interleavings to check.

`PROJECT.json` gives the status of each component.

## 7. Status

The models are complete in the sense of section 6, and every safety property the runs
check is proved but `AcknowledgedFlushed`, which does not hold. What could be added are the
parts section 6 leaves out; liveness stays with TLC.
