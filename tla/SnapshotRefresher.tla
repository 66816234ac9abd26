--------------------------- MODULE SnapshotRefresher ---------------------------
(***************************************************************************)
(* createSnapshotRefresher with the RefreshOperation it runs, the part of  *)
(* the reloadable provider it drives (state swap, update reservation,      *)
(* close), and the crash and managed restart of the process that owns      *)
(* them.                                                                   *)
(*                                                                         *)
(* One refresh is one worker.  Between two awaits its JavaScript runs      *)
(* without interruption, so each such block is one action; at an await     *)
(* anything else may run: the deadline timer, close(), application         *)
(* updates, other callers, the source and the store.  The durable store    *)
(* is the register of AcceptedSnapshot, which SnapshotStore implements;    *)
(* other processes may commit to the same journal at any time.             *)
(*                                                                         *)
(* Failure categories, messages and the numeric counters of getStatus()    *)
(* are left out; that a failure is counted, and how often, is kept.        *)
(***************************************************************************)
EXTENDS SignedSnapshots

CONSTANTS
  Signed,      (* a verifier is configured                                *)
  Durable,     (* a store is configured as well                           *)
  Bootstrap,   (* the application's safe initial snapshot                 *)
  AppOrigins,  (* what the application itself may install                 *)
  Malformed,   (* a body that is oversized, undecodable or unparsable     *)
  Forged,      (* a body whose framing or signature does not verify       *)
  Callers,     (* concurrent callers of refresh()                         *)
  MaxTime      (* bound of the wall clock                                 *)

Bodies == Artifacts \cup {Malformed, Forged}

(***************************************************************************)
(* What the provider evaluates with: contents and, when they came from a   *)
(* verifier, the artifact they came from (captureSnapshotProvenance ties   *)
(* the two by snapshotHash).                                               *)
(***************************************************************************)
Origins == {o \in [snap : Snapshots, art : Artifacts \cup {None}] :
              o.art # None => o.art.snapshot = o.snap}

FromArtifact(a) == [snap |-> a.snapshot, art |-> a]
Unsigned(s)     == [snap |-> s, art |-> None]

ASSUME RefresherAssumption ==
  /\ Signed \in BOOLEAN
  /\ Durable \in BOOLEAN
  /\ Durable => Signed
  /\ Bootstrap \in Snapshots
  /\ AppOrigins \subseteq Origins
  /\ Malformed \notin Artifacts \cup {None, Forged}
  /\ Forged \notin Artifacts \cup {None}
  /\ MaxTime \in Nat

VARIABLES
  (*************************** the provider ********************************)
  active,         (* this.state: contents and origin in use               *)
  pendingUpdate,  (* whose reservation holds back other updates           *)
  provClosed,     (* this.closed                                          *)
  (*************************** the refresher *******************************)
  closed,         (* close() was called                                   *)
  floor,          (* replayFloor                                          *)
  committed,      (* the last adopted delivery: its origin and its ETag   *)
  (*************************** the operation *******************************)
  phase,          (* where the worker is; "idle" when the slot is free    *)
  wait,           (* the await in progress, or how it ended; a load is    *)
                  (* "opened" once it holds the journal file it will read *)
  got,            (* what the settled await returned                      *)
  reads,          (* pendingReads: started reads that have not settled    *)
  stored,         (* the running store.commit has taken effect            *)
  op,             (* the RefreshOperation's own fields                    *)
  (*************************** the environment *****************************)
  head,           (* the durably accepted artifact                        *)
  now,            (* the wall clock                                       *)
  waiting,        (* callers waiting for the shared promise               *)
  (*************************** history *************************************)
  activated,      (* the artifact a delivery made active last             *)
  delivered       (* the last of them that was adopted or durably accepted*)

providerVars  == <<active, pendingUpdate, provClosed>>
refresherVars == <<closed, floor, committed>>
operationVars == <<phase, wait, got, reads, stored, op>>
vars == <<providerVars, refresherVars, operationVars, head, now, waiting, activated, delivered>>

Journal == INSTANCE AcceptedSnapshot

Responses == [kind : {"content", "notModified"}, body : Bodies, tagged : BOOLEAN]

NewOperation ==
  [before |-> Unsigned(Bootstrap), etag |-> None, due |-> FALSE, aborted |-> FALSE,
   timedOut |-> FALSE, counted |-> 0, answer |-> "none"]

Operations ==
  [before : Origins, etag : Bodies \cup {None}, due : BOOLEAN, aborted : BOOLEAN,
   timedOut : BOOLEAN, counted : 0..1, answer : {"none", "ok", "error", "timeout"}]

Running == {"starting", "loading", "fetching", "persisting"}

TypeOK ==
  /\ active \in Origins
  /\ pendingUpdate \in {"none", "refresh", "app"}
  /\ provClosed \in BOOLEAN
  /\ closed \in BOOLEAN
  /\ floor \in Artifacts \cup {None}
  /\ committed \in [origin : Origins, etag : Bodies \cup {None}] \cup {None}
  /\ phase \in Running \cup {"idle", "draining", "down", "recovering"}
  /\ wait \in {"none", "pending", "opened", "value", "failed"}
  /\ got \in Responses \cup Artifacts \cup {None}
  /\ reads \in Nat
  /\ stored \in BOOLEAN
  /\ op \in Operations
  /\ head \in Artifacts \cup {None}
  /\ now \in 0..MaxTime
  /\ waiting \in SUBSET Callers
  /\ {activated, delivered} \subseteq Artifacts \cup {None}

Init ==
  /\ active = Unsigned(Bootstrap)
  /\ pendingUpdate = "none"
  /\ provClosed = FALSE
  /\ closed = FALSE
  /\ floor = None
  /\ committed = None
  /\ phase = "idle"
  /\ wait = "none"
  /\ got = None
  /\ reads = 0
  /\ stored = FALSE
  /\ op = NewOperation
  /\ Journal!RegisterInit
  /\ now = 0
  /\ waiting = {}
  /\ activated = None
  /\ delivered = None

(***************************************************************************)
(* RefreshOperation.  reportFailure counts once per operation; expire()    *)
(* rejects the shared promise, aborts the signal and reports;              *)
(* assertNotTimedOut expires late when the timer has not run yet, but      *)
(* never after the signal was already aborted by close().                  *)
(***************************************************************************)
CountOnce(n) == IF n = 0 THEN 1 ELSE n

Counted(o) == [o EXCEPT !.counted = CountOnce(@)]

ExpireUncounted(o) ==                     \* variant: the timer does not report
  [o EXCEPT !.timedOut = TRUE, !.aborted = TRUE,
            !.answer = IF @ = "none" THEN "timeout" ELSE @]

Expire(o) ==
  [Counted(o) EXCEPT !.timedOut = TRUE, !.aborted = TRUE,
                     !.answer = IF @ = "none" THEN "timeout" ELSE @]

TimeUp(o) == o.timedOut \/ (o.due /\ ~o.aborted)

TimedOut(o) == IF o.timedOut THEN o ELSE Expire(o)

SlotAfterWorker == IF reads = 0 THEN "idle" ELSE "draining"

(* The worker settles: the race answers every waiting caller unless the    *)
(* deadline did, and the slot is released unless a read is outstanding.    *)
Finish(o, answer) ==
  /\ op' = [NewOperation EXCEPT !.counted = o.counted,
                                !.answer = IF o.answer = "none" THEN answer ELSE o.answer]
  /\ phase' = SlotAfterWorker
  /\ wait' = "none"
  /\ got' = None
  /\ stored' = FALSE
  /\ waiting' = {}
  /\ UNCHANGED <<reads, provClosed, closed, head, now>>

Fail(o) ==
  /\ Finish(o, "error")
  /\ UNCHANGED <<active, committed, activated, delivered>>

Alive == phase \notin {"down", "recovering"}

(***************************************************************************)
(* refresh(): starts the worker or joins the operation in flight.  Once    *)
(* the shared promise has been answered a late joiner is answered at once, *)
(* which changes nothing here.  Aborting a caller's own signal ends only   *)
(* that caller's wait.                                                     *)
(***************************************************************************)
Refresh(c) ==
  /\ Alive
  /\ ~closed /\ ~provClosed
  /\ c \notin waiting
  /\ \/ /\ phase = "idle"
        /\ phase' = "starting"
        /\ op' = NewOperation
     \/ /\ phase # "idle"
        /\ op.answer = "none"
        /\ UNCHANGED <<phase, op>>
  /\ waiting' = waiting \cup {c}
  /\ UNCHANGED <<providerVars, refresherVars, wait, got, reads, stored, head, now,
                 activated, delivered>>

CancelWait(c) ==
  /\ c \in waiting
  /\ waiting' = waiting \ {c}
  /\ UNCHANGED <<providerVars, refresherVars, operationVars, head, now,
                 activated, delivered>>

(***************************************************************************)
(* The worker, block by block.                                             *)
(***************************************************************************)
Pending == wait \in {"pending", "opened"}

Resumes(p) == phase = p /\ ~Pending

(* Any block that begins at or after the deadline.                         *)
ResumesTooLate ==
  /\ \E p \in {"starting", "loading", "fetching"} : Resumes(p)
  /\ TimeUp(op)
  /\ Fail(TimedOut(op))
  /\ UNCHANGED <<pendingUpdate, floor>>

StartsClosed ==
  /\ Resumes("starting")
  /\ ~TimeUp(op)
  /\ closed \/ provClosed
  /\ Fail(op)
  /\ UNCHANGED <<pendingUpdate, floor>>

BeginRead(p, o) ==
  /\ phase' = p
  /\ wait' = "pending"
  /\ got' = None
  /\ reads' = reads + 1
  /\ op' = o

EtagOfAnyContents ==                      \* variant: not tied to what is active
  IF committed # None THEN committed.etag ELSE None

(* The ETag is sent only while what it came with is still active, contents *)
(* and origin.                                                             *)
ConditionalEtag ==
  IF committed # None /\ committed.origin = active THEN committed.etag ELSE None

Starts ==
  /\ Resumes("starting")
  /\ ~TimeUp(op)
  /\ ~closed /\ ~provClosed
  /\ BeginRead(IF Durable THEN "loading" ELSE "fetching",
               [op EXCEPT !.before = active, !.etag = ConditionalEtag])
  /\ UNCHANGED <<providerVars, refresherVars, stored, head, now, waiting,
                 activated, delivered>>

LoadFails ==
  /\ Resumes("loading")
  /\ ~TimeUp(op)
  /\ wait = "failed" \/ ~Compatible(floor, got)
  /\ Fail(IF closed THEN op ELSE Counted(op))
  /\ UNCHANGED <<pendingUpdate, floor>>

Loaded ==
  /\ Resumes("loading")
  /\ ~TimeUp(op)
  /\ wait = "value" /\ Compatible(floor, got)
  /\ floor' = MergeFloor(floor, got)

LoadedButUnusable ==
  /\ Loaded
  /\ \/ /\ closed \/ provClosed
        /\ Fail(op)
     \/ /\ ~closed /\ ~provClosed
        /\ active # op.before
        /\ Fail(Counted(op))
  /\ UNCHANGED pendingUpdate

Fetches ==
  /\ Loaded
  /\ ~closed /\ ~provClosed
  /\ active = op.before
  /\ BeginRead("fetching", op)
  /\ UNCHANGED <<providerVars, closed, committed, stored, head, now, waiting,
                 activated, delivered>>

FetchFails ==
  /\ Resumes("fetching")
  /\ ~TimeUp(op)
  /\ \/ /\ closed \/ provClosed
        /\ Fail(op)
     \/ /\ ~closed /\ ~provClosed
        /\ wait = "failed" \/ active # op.before
        /\ Fail(Counted(op))
  /\ UNCHANGED <<pendingUpdate, floor>>

(* The block after a successful fetch; nothing can interleave with it.     *)
Fetched ==
  /\ Resumes("fetching")
  /\ ~TimeUp(op)
  /\ wait = "value"
  /\ ~closed /\ ~provClosed
  /\ active = op.before

(* captureSourceResponse and captureSourceArtifact; an unsigned body must  *)
(* also parse.                                                             *)
Acceptable(response) ==
  /\ response.kind = "notModified" => op.etag # None
  /\ response.kind = "content" =>
       response.body # Malformed /\ (~Signed => response.body # Forged)

Delivery == IF got.kind = "content" THEN got.body ELSE committed.origin.art

DeliveredOrigin ==
  IF Signed THEN FromArtifact(Delivery)
  ELSE Unsigned(IF got.kind = "content" THEN got.body.snapshot ELSE active.snap)

FloorOfActiveOnly == op.before.art         \* variant: local updates reset it

SignatureFloor == MergeFloor(floor, op.before.art)

ContentInvalid ==
  /\ Fetched
  /\ ~Acceptable(got)
  /\ Fail(Counted(op))
  /\ UNCHANGED <<pendingUpdate, floor>>

Verified ==
  Signed => /\ Compatible(floor, op.before.art)
            /\ Verifies(Delivery, SignatureFloor, now)

SignatureInvalid ==
  /\ Fetched
  /\ Acceptable(got)
  /\ ~Verified
  /\ floor' = IF Compatible(floor, op.before.art) THEN SignatureFloor ELSE floor
  /\ Fail(Counted(op))
  /\ UNCHANGED pendingUpdate

Validated ==
  /\ Fetched
  /\ Acceptable(got)
  /\ Verified

ValidationFloor == IF Signed THEN SignatureFloor ELSE floor

(* Verification and hashing outlast the deadline before its timer can run. *)
ValidatedTooLate ==
  /\ Validated
  /\ floor' = ValidationFloor
  /\ Fail(Expire(op))
  /\ UNCHANGED pendingUpdate

NeverRefused == TRUE                      \* variant: the reservation is not looked at

UpdateAvailable == pendingUpdate = "none"

(* assertUpdateAvailable: the provider counts a refused update itself.     *)
UpdateRefused ==
  /\ Validated
  /\ ~UpdateAvailable
  /\ floor' = ValidationFloor
  /\ Fail(Counted(op))
  /\ UNCHANGED pendingUpdate

(* prepareSnapshot reserves the provider; store.commit starts.             *)
Reserves ==
  /\ Validated
  /\ Durable
  /\ UpdateAvailable
  /\ pendingUpdate' = "refresh"
  /\ floor' = SignatureFloor
  /\ phase' = "persisting"
  /\ wait' = "pending"
  /\ stored' = FALSE
  /\ UNCHANGED <<active, provClosed, closed, committed, got, reads, op, head, now,
                 waiting, activated, delivered>>

(***************************************************************************)
(* applyState followed by the checks of performRefresh.  A change of       *)
(* contents emits ConfigurationChanged synchronously, and a handler may    *)
(* install something else before the refresher looks again.                *)
(***************************************************************************)
Replacements(origin) ==
  IF origin.snap # active.snap THEN AppOrigins \ {origin} ELSE {}

EtagToKeep ==
  IF got.kind = "notModified" THEN committed.etag
  ELSE IF got.tagged THEN got.body ELSE None

Adopt(origin) ==
  /\ active' = origin
  /\ committed' = [origin |-> origin, etag |-> EtagToKeep]
  /\ Finish(op, "ok")

ReplacedByHandler(origin) ==
  /\ active' \in Replacements(origin)
  /\ Finish(Counted(op), "error")
  /\ UNCHANGED committed

(* Without a store only an adopted delivery moves the replay floor, though *)
(* one that a handler replaced was active while its event was emitted.     *)
AppliesDirectly ==
  /\ Validated
  /\ ~Durable
  /\ UpdateAvailable
  /\ activated' = IF Signed THEN Delivery ELSE activated
  /\ \/ /\ Adopt(DeliveredOrigin)
        /\ floor' = IF Signed THEN Delivery ELSE floor
        /\ delivered' = IF Signed THEN Delivery ELSE delivered
     \/ /\ ReplacedByHandler(DeliveredOrigin)
        /\ floor' = ValidationFloor
        /\ UNCHANGED delivered
  /\ UNCHANGED pendingUpdate

(***************************************************************************)
(* persistAndActivate after store.commit settled.  An acknowledgment moves *)
(* the floor first, whatever else still prevents activation; the           *)
(* reservation is released on every path.                                  *)
(***************************************************************************)
ReleaseIfOpen ==                          \* variant: a close keeps the reservation
  pendingUpdate' = IF closed THEN pendingUpdate ELSE "none"

Release == pendingUpdate' = "none"

PersistFails ==
  /\ Resumes("persisting")
  /\ wait = "failed"
  /\ Fail(Counted(op))
  /\ Release
  /\ UNCHANGED floor

SettledSomehow ==                         \* variant: best-effort persistence
  /\ Resumes("persisting")
  /\ floor' = Delivery
  /\ Release

Acknowledged ==
  /\ Resumes("persisting")
  /\ wait = "value"
  /\ floor' = Delivery
  /\ Release

VerifiedBefore == TRUE                    \* variant: no verification after the wait

StillVerifies == Verifies(Delivery, Delivery, now)

PersistedTooLate ==
  /\ Acknowledged
  /\ TimeUp(op)
  /\ Fail(TimedOut(op))

PersistedButClosed ==
  /\ Acknowledged
  /\ ~TimeUp(op)
  /\ closed \/ provClosed
  /\ Fail(op)

PersistedButStale ==
  /\ Acknowledged
  /\ ~TimeUp(op)
  /\ ~closed /\ ~provClosed
  /\ ~StillVerifies
  /\ Fail(Counted(op))

Activatable ==
  /\ Acknowledged
  /\ ~TimeUp(op)
  /\ ~closed /\ ~provClosed
  /\ StillVerifies

(* The final verification outlasts the deadline before its timer can run.  *)
ReverifiedTooLate ==
  /\ Activatable
  /\ Fail(Expire(op))

Activates ==
  /\ Activatable
  /\ Adopt(DeliveredOrigin) \/ ReplacedByHandler(DeliveredOrigin)
  /\ activated' = Delivery
  /\ delivered' = Delivery

(***************************************************************************)
(* The deadline.  Its timer may run later than the instant it is due.      *)
(***************************************************************************)
DeadlinePasses ==
  /\ phase \in Running
  /\ ~op.due
  /\ op' = [op EXCEPT !.due = TRUE]
  /\ UNCHANGED <<providerVars, refresherVars, phase, wait, got, reads, stored, head, now,
                 waiting, activated, delivered>>

(* Aborting the signal ends the wait for a read, never for store.commit.   *)
AbortWait ==
  wait' = IF Pending /\ phase \in {"loading", "fetching"} THEN "failed" ELSE wait

DeadlineOfReads == {"loading", "fetching"} \* variant: store.commit has no deadline

DeadlinePhases == {"loading", "fetching", "persisting"}

TimerFires ==
  /\ phase \in DeadlinePhases
  /\ op.due
  /\ ~op.timedOut
  /\ op' = Expire(op)
  /\ AbortWait
  /\ waiting' = {}
  /\ UNCHANGED <<providerVars, refresherVars, phase, got, reads, stored, head, now,
                 activated, delivered>>

(***************************************************************************)
(* close() of the refresher, onClose() of the provider.                    *)
(***************************************************************************)
Close ==
  /\ Alive
  /\ ~closed
  /\ closed' = TRUE
  /\ op' = IF phase \in Running THEN [op EXCEPT !.aborted = TRUE] ELSE op
  /\ AbortWait
  /\ UNCHANGED <<providerVars, floor, committed, phase, got, reads, stored, head, now,
                 waiting, activated, delivered>>

ProviderCloses ==
  /\ Alive
  /\ ~provClosed
  /\ provClosed' = TRUE
  /\ UNCHANGED <<active, pendingUpdate, refresherVars, operationVars, head, now, waiting,
                 activated, delivered>>

(***************************************************************************)
(* Updates by the application: updateSnapshot (refused while a reservation *)
(* is held, accepted even after close) and its own transactions.           *)
(***************************************************************************)
AppUpdates(origin) ==
  /\ Alive
  /\ UpdateAvailable
  /\ active' = origin
  /\ UNCHANGED <<pendingUpdate, provClosed, refresherVars, operationVars, head, now, waiting,
                 activated, delivered>>

AppPrepares ==
  /\ Alive
  /\ ~provClosed
  /\ UpdateAvailable
  /\ pendingUpdate' = "app"
  /\ UNCHANGED <<active, provClosed, refresherVars, operationVars, head, now, waiting,
                 activated, delivered>>

AppEndsTransaction ==
  /\ pendingUpdate = "app"
  /\ pendingUpdate' = "none"
  /\ \/ active' \in AppOrigins /\ ~provClosed
     \/ UNCHANGED active
  /\ UNCHANGED <<provClosed, refresherVars, operationVars, head, now, waiting,
                 activated, delivered>>

(***************************************************************************)
(* The source and the store settle, or never do.                           *)
(***************************************************************************)

(* A rename while a load has the journal open leaves it the older one.     *)
LoadOpens ==
  /\ phase = "loading" /\ wait = "pending"
  /\ wait' = "opened"
  /\ got' = head
  /\ UNCHANGED <<providerVars, refresherVars, phase, reads, stored, op, head, now, waiting,
                 activated, delivered>>

LoadSettles ==
  /\ phase = "loading" /\ Pending
  /\ reads' = reads - 1
  /\ \/ wait' = "failed"
     \/ /\ wait = "opened" /\ (got # None => Historic(got, now))
        /\ wait' = "value"
  /\ UNCHANGED <<providerVars, refresherVars, phase, got, stored, op, head, now, waiting,
                 activated, delivered>>

FetchSettles ==
  /\ phase = "fetching" /\ wait = "pending"
  /\ reads' = reads - 1
  /\ \/ wait' = "failed" /\ got' = None
     \/ /\ wait' = "value"
        /\ \/ got' \in [kind : {"content"}, body : Bodies, tagged : BOOLEAN]
           \/ got' = [kind |-> "notModified",
                      body |-> IF op.etag = None THEN Malformed ELSE op.etag,
                      tagged |-> FALSE]
  /\ UNCHANGED <<providerVars, refresherVars, phase, stored, op, head, now, waiting,
                 activated, delivered>>

(* A read whose waiter gave up still settles, and may free the slot.       *)
SlotKept == phase                         \* variant: releaseIfIdle is not called

SlotAfterRead == IF phase = "draining" /\ reads = 1 THEN "idle" ELSE phase

AbandonedReadSettles ==
  /\ reads > 0
  /\ ~Pending
  /\ reads' = reads - 1
  /\ phase' = SlotAfterRead
  /\ UNCHANGED <<providerVars, refresherVars, wait, got, stored, op, head, now, waiting,
                 activated, delivered>>

CommitTakesEffect ==
  /\ phase = "persisting" /\ wait = "pending"
  /\ ~stored
  /\ Journal!Accept(Delivery)
  /\ stored' = TRUE
  /\ UNCHANGED <<providerVars, refresherVars, phase, wait, got, reads, op, now, waiting,
                 activated, delivered>>

(* A commit may fail before or after its journal became visible.           *)
CommitSettles ==
  /\ phase = "persisting" /\ wait = "pending"
  /\ wait' = "failed" \/ (stored /\ wait' = "value")
  /\ stored' = FALSE
  /\ UNCHANGED <<providerVars, refresherVars, phase, got, reads, op, head, now, waiting,
                 activated, delivered>>

OtherWriterAccepts ==
  /\ Durable
  /\ Journal!RegisterNext
  /\ UNCHANGED <<providerVars, refresherVars, operationVars, now, waiting,
                 activated, delivered>>

ClockMoves ==
  /\ now' \in 0..MaxTime
  /\ UNCHANGED <<providerVars, refresherVars, operationVars, head, waiting,
                 activated, delivered>>

(***************************************************************************)
(* The process dies; only the journal survives.  A managed restart reads   *)
(* it, activates its head if that is still fresh and keeps its provenance  *)
(* as the floor in any case.  A head that does not authenticate refuses    *)
(* to start.  Without a store nothing is remembered.                       *)
(***************************************************************************)
Crash ==
  /\ phase # "down"
  /\ phase' = "down"
  /\ active' = Unsigned(Bootstrap)
  /\ pendingUpdate' = "none"
  /\ provClosed' = FALSE
  /\ closed' = FALSE
  /\ floor' = None
  /\ committed' = None
  /\ wait' = "none"
  /\ got' = None
  /\ reads' = 0
  /\ stored' = FALSE
  /\ op' = NewOperation
  /\ waiting' = {}
  /\ activated' = IF Durable THEN activated ELSE None
  /\ delivered' = IF Durable THEN delivered ELSE None
  /\ UNCHANGED <<head, now>>

LoadsRecovery ==
  /\ Durable
  /\ phase = "down"
  /\ phase' = "recovering"
  /\ got' = head
  /\ UNCHANGED <<providerVars, refresherVars, wait, reads, stored, op, head, now, waiting,
                 activated, delivered>>

FloorOfFreshOnly ==                       \* variant: an expired head is forgotten
  IF Verifies(got, got, now) THEN got ELSE None

RecoveredFloor == got

Recovered ==
  IF got # None
  THEN /\ Historic(got, now)
       /\ floor' = RecoveredFloor
       /\ IF Verifies(got, got, now)
          THEN active' = FromArtifact(got) /\ activated' = got /\ delivered' = got
          ELSE UNCHANGED <<active, activated, delivered>>
  ELSE UNCHANGED <<floor, active, activated, delivered>>

Restart ==
  /\ phase = IF Durable THEN "recovering" ELSE "down"
  /\ phase' = "idle"
  /\ Recovered
  /\ got' = None
  /\ UNCHANGED <<pendingUpdate, provClosed, closed, committed, wait, reads, stored, op, head, now,
                 waiting>>

Worker ==
  \/ ResumesTooLate \/ StartsClosed \/ Starts
  \/ LoadFails \/ LoadedButUnusable \/ Fetches
  \/ FetchFails \/ ContentInvalid \/ SignatureInvalid \/ ValidatedTooLate
  \/ UpdateRefused \/ Reserves \/ AppliesDirectly
  \/ PersistFails \/ PersistedTooLate \/ PersistedButClosed \/ PersistedButStale
  \/ ReverifiedTooLate \/ Activates

InputOutput ==
  \/ LoadOpens \/ LoadSettles \/ FetchSettles \/ AbandonedReadSettles
  \/ CommitTakesEffect \/ CommitSettles

Application ==
  \/ \E c \in Callers : Refresh(c) \/ CancelWait(c)
  \/ \E origin \in AppOrigins : AppUpdates(origin)
  \/ AppPrepares \/ AppEndsTransaction
  \/ Close \/ ProviderCloses

Next ==
  \/ Worker \/ InputOutput \/ Application
  \/ DeadlinePasses \/ TimerFires
  \/ OtherWriterAccepts \/ ClockMoves
  \/ Crash \/ LoadsRecovery \/ Restart

Spec == Init /\ [][Next]_vars

(***************************************************************************)
(* The event loop runs what is ready and the monotonic clock advances.     *)
(* Nothing is assumed of callers, of the source or of the store.           *)
(***************************************************************************)
Fairness ==
  /\ WF_vars(Worker)
  /\ WF_vars(DeadlinePasses)
  /\ WF_vars(TimerFires)

FairSpec == Spec /\ Fairness
(***************************************************************************)
(* Properties.                                                             *)
(***************************************************************************)

(* The provider's reservation is held exactly while store.commit runs:     *)
(* every way out of persistAndActivate, late, closed, stale or failed,     *)
(* gives updates back to the application.                                  *)
ReservationHeldWhilePersisting ==
  pendingUpdate = "refresh" <=> phase = "persisting"

(* Refreshes never overlap on the source or the store, even when a timed   *)
(* out read is ignored by its source: the slot stays taken until the read  *)
(* has really settled.                                                     *)
NoOverlappingIO ==
  /\ reads <= 1
  /\ phase \notin {"loading", "fetching", "draining"} => reads = 0

(* The refresher's bookkeeping: the provider is reserved exactly while the *)
(* store commits, and the one slot covers every outstanding read           *)
(* (persistAndActivate, RefreshOperation.read).                            *)
RefresherSound ==
  /\ TypeOK
  /\ ReservationHeldWhilePersisting
  /\ NoOverlappingIO

(* Callers of an open refresher that were refused, by an error or by the   *)
(* deadline, find exactly one more failed refresh in the status, whichever *)
(* of deadline, store, source, verifier or provider spoke first; a         *)
(* successful refresh counted none.                                        *)
FailureCountedExactlyOnce ==
  /\ op.answer = "ok" => op.counted = 0
  /\ (op.answer \in {"error", "timeout"} /\ ~closed /\ ~provClosed) => op.counted = 1

(* While the process lives, its replay floor is never behind what it last  *)
(* delivered, across unsigned updates, failed refreshes and restarts; with *)
(* a store also when a handler replaced that at once.                      *)
FloorCoversDelivered ==
  delivered # None /\ Alive => floor # None /\ Continues(floor, delivered)

(* The refresher's own change of the active snapshot.                      *)
Applies ==
  /\ phase \in {"fetching", "persisting"}
  /\ phase' \in {"idle", "draining"}
  /\ active' # active

(* Nothing is applied once callers were told the refresh timed out, after  *)
(* close of refresher or provider, or when the signed artifact is no       *)
(* longer fresh, however long the source or the store took.                *)
AppliesOnlyInTime ==
  [][Applies => /\ op.answer = "none"
                /\ ~closed /\ ~provClosed
                /\ Signed => Fresh(Delivery, now)]_vars

(* A refresh never overwrites what the application installed while the     *)
(* source or the store was being awaited.                                  *)
LocalUpdatesKept ==
  [][Applies => active = op.before]_vars

(* A successful unsigned refresh leaves exactly what the source last had:  *)
(* a 304 is believed only for the contents its ETag was delivered with.    *)
ResultReflectsSource ==
  [][(~Signed /\ phase = "fetching" /\ op'.answer = "ok") =>
        active'.snap = got.body.snapshot]_vars

(* Signed delivery of one process never replays: whatever artifact it      *)
(* makes active, be it only until a handler replaces it, continues the     *)
(* last one that was adopted.  Only a crash without a store forgets, and,  *)
(* without a store, one that a handler replaced within its own event does  *)
(* not count itself (signed-snapshots.md: "reentrant configuration          *)
(* replacement commits neither new provenance, ETag nor replay state"); a  *)
(* store has no such exception.                                            *)
NoRollback ==
  [][activated' # activated /\ phase' # "down" =>
       Continues(activated', IF Durable THEN activated ELSE delivered)]_vars

(* With a store, delivery keeps the promise of SignedDelivery across       *)
(* crashes and next to other writers: accept durably, then activate, never *)
(* backwards.                                                              *)
Promise == INSTANCE SignedDelivery

DeliveryPromise == Promise!DeliverySpec

(* Every caller is answered, whatever the source and the store do.         *)
CallersAnswered ==
  \A c \in Callers : c \in waiting ~> c \notin waiting

(* If started I/O eventually settles, the slot is eventually free again    *)
(* for the next refresh, and with it the provider's reservation.           *)
IOSettles ==
  /\ WF_vars(LoadSettles) /\ WF_vars(FetchSettles)
  /\ WF_vars(AbandonedReadSettles) /\ WF_vars(CommitSettles)

SlotReleased ==
  IOSettles => (phase \in Running \cup {"draining"} ~> phase \notin Running \cup {"draining"})
==============================================================================
