----------------------------- MODULE AuditQueue -----------------------------
(***************************************************************************)
(* createQueuedAuditSink: the queue between the callers of an audit sink   *)
(* and its storage.  A call is accepted, dropped or rejected at once by    *)
(* count and bytes; accepted calls are stored in order, in groups, never   *)
(* two groups at a time; flush waits until nothing is pending and reports  *)
(* the failures nobody has reported yet.                                   *)
(*                                                                         *)
(* A sink without a batch writer is the case MaxGroup = 1: the promise     *)
(* chain stores one event after the other.  An event is identified with    *)
(* the call that submits it; its failure cause too.  The storage may fail  *)
(* any group and may never answer.                                         *)
(***************************************************************************)
EXTENDS Integers, Sequences, FiniteSets, SequencesExt, FiniteSetsExt

CONSTANTS
  Writes,         (* calls of write and writeConfirmed                     *)
  Confirmed,      (* those that are calls of writeConfirmed                *)
  Size,           (* bytes of the line of each call's event                *)
  MaxSize,        (* maxQueueSize, or Unlimited                            *)
  MaxBytes,       (* maxQueueBytes, or Unlimited                           *)
  Unlimited,
  DropsNewest,    (* queueOverflowPolicy is dropNewest                     *)
  MaxGroup,       (* events and bytes of a group handed to the storage     *)
  MaxGroupBytes,
  MaxCauses,      (* MAX_RETAINED_FAILURE_CAUSES                           *)
  Flushes         (* calls of flush                                        *)

ASSUME QueueAssumption ==
  /\ IsFiniteSet(Writes)
  /\ Confirmed \subseteq Writes
  /\ Size \in [Writes -> Nat \ {0}]
  /\ MaxSize \in (Nat \ {0}) \cup {Unlimited}
  /\ MaxBytes \in (Nat \ {0}) \cup {Unlimited}
  /\ Unlimited \notin Nat
  /\ DropsNewest \in BOOLEAN
  /\ MaxGroup \in Nat \ {0}
  /\ MaxGroupBytes \in Nat \ {0}
  /\ MaxCauses \in Nat \ {0}

VARIABLES
  write,          (* progress of each call                                 *)
  waiting,        (* accepted calls not handed to the storage yet          *)
  group,          (* the calls the storage is working on                   *)
  queuedWrites, pendingBytes, droppedWrites, rejectedWrites,
  unreported,     (* unreportedFailureCount                                *)
  causes,         (* failureCauses                                         *)
  flush,          (* progress of each call of flush                        *)
  flushQueue,     (* the calls of flush that have not returned             *)
  accepted,       (* history: accepted calls in their order                *)
  stored,         (* history: the storage's contents                       *)
  told            (* history: failures flushes have reported               *)

counters == <<queuedWrites, pendingBytes, droppedWrites, rejectedWrites>>
report   == <<unreported, causes>>
flushing == <<flush, flushQueue>>
history  == <<accepted, stored, told>>
vars == <<write, waiting, group, counters, report, flushing, history>>

(* succeeding and failing: the storage has answered, the call's own        *)
(* handlers have not run, so that it still counts as pending.              *)
Pending  == {w \in Writes : write[w] \in {"waiting", "storing", "succeeding", "failing"}}
Failed   == {w \in Writes : write[w] = "failed"}
InFlight == group \o waiting

(* The bytes of a set of calls: their positions, counted.                  *)
BytesOf(calls) == Cardinality(UNION {{w} \X (1..Size[w]) : w \in calls})

(* awaited: what allSettled waits for; earlier: history, how many calls    *)
(* had been accepted when flush was called.                                *)
FlushCalls ==
  [pc : {"none", "queued", "waiting", "settled"}, awaited : SUBSET Writes, earlier : Nat]

TypeOK ==
  /\ write \in [Writes -> {"none", "waiting", "storing", "succeeding", "failing",
                           "stored", "failed", "dropped", "rejected"}]
  /\ waiting \in Seq(Writes)
  /\ group \in Seq(Writes)
  /\ queuedWrites \in Nat /\ pendingBytes \in Nat
  /\ droppedWrites \in Nat /\ rejectedWrites \in Nat
  /\ unreported \in Nat
  /\ causes \in Seq(Writes)
  /\ flush \in [Flushes -> FlushCalls]
  /\ flushQueue \in Seq(Flushes)
  /\ accepted \in Seq(Writes)
  /\ stored \in Seq(Writes)
  /\ told \in Nat

Init ==
  /\ write = [w \in Writes |-> "none"]
  /\ waiting = <<>> /\ group = <<>>
  /\ queuedWrites = 0 /\ pendingBytes = 0
  /\ droppedWrites = 0 /\ rejectedWrites = 0
  /\ unreported = 0 /\ causes = <<>>
  /\ flush = [f \in Flushes |-> [pc |-> "none", awaited |-> {}, earlier |-> 0]]
  /\ flushQueue = <<>>
  /\ accepted = <<>> /\ stored = <<>> /\ told = 0

(***************************************************************************)
(* Submitting an event.                                                    *)
(***************************************************************************)
CountFull == MaxSize # Unlimited /\ queuedWrites >= MaxSize

LenientBytesFull(w) ==                \* variant: the newest event is not counted
  MaxBytes # Unlimited /\ pendingBytes > MaxBytes

BytesFull(w) ==
  MaxBytes # Unlimited /\ Size[w] > MaxBytes - pendingBytes

Droppable(w) == DropsNewest /\ w \notin Confirmed

Drop(w) ==
  /\ Droppable(w)
  /\ write' = [write EXCEPT ![w] = "dropped"]
  /\ droppedWrites' = droppedWrites + 1
  /\ UNCHANGED <<waiting, queuedWrites, pendingBytes, rejectedWrites, accepted>>

Reject(w) ==
  /\ ~Droppable(w)
  /\ write' = [write EXCEPT ![w] = "rejected"]
  /\ rejectedWrites' = rejectedWrites + 1
  /\ UNCHANGED <<waiting, queuedWrites, pendingBytes, droppedWrites, accepted>>

Accept(w) ==
  /\ write' = [write EXCEPT ![w] = "waiting"]
  /\ waiting' = Append(waiting, w)
  /\ accepted' = Append(accepted, w)
  /\ queuedWrites' = queuedWrites + 1
  /\ pendingBytes' = pendingBytes + Size[w]
  /\ UNCHANGED <<droppedWrites, rejectedWrites>>

(* write, writeConfirmed: up to the await of the tracked write.            *)
Submit(w) ==
  /\ write[w] = "none"
  /\ IF CountFull \/ BytesFull(w) THEN Drop(w) \/ Reject(w) ELSE Accept(w)
  /\ UNCHANGED <<group, report, flushing, stored, told>>

(***************************************************************************)
(* Storing groups.                                                         *)
(***************************************************************************)
(* The first n waiting calls may be stored together; one always may.       *)
Fits(n) ==
  /\ n <= Len(waiting)
  /\ n <= MaxGroup
  /\ n = 1 \/ BytesOf({waiting[i] : i \in 1..n}) <= MaxGroupBytes

GroupSize == Max({n \in 1..Len(waiting) : Fits(n)})

StoppedGroupDue ==                    \* variant: drain gives up after a failure
  waiting # <<>> /\ group = <<>> /\ Failed = {}

GroupDue == waiting # <<>> /\ group = <<>>

(* One round of drain: the longest prefix that fits is handed over.        *)
TakeGroup ==
  /\ GroupDue
  /\ group' = SubSeq(waiting, 1, GroupSize)
  /\ waiting' = SubSeq(waiting, GroupSize + 1, Len(waiting))
  /\ write' = [w \in Writes |-> IF Contains(group', w) THEN "storing" ELSE write[w]]
  /\ UNCHANGED <<counters, report, flushing, history>>

Answered(outcome) ==
  /\ write' = [w \in Writes |-> IF Contains(group, w) THEN outcome ELSE write[w]]
  /\ group' = <<>>
  /\ UNCHANGED <<waiting, counters, report, flushing, accepted, told>>

GroupStored ==
  /\ group # <<>>
  /\ stored' = stored \o group
  /\ Answered("succeeding")

SwallowedFailure == "succeeding"      \* variant: nobody rejects the calls

FailureOutcome == "failing"

(* Some of the group's events may be durable although it failed.           *)
GroupFailed ==
  /\ group # <<>>
  /\ \E n \in 0..Len(group) : stored' = stored \o SubSeq(group, 1, n)
  /\ Answered(FailureOutcome)

Uncounted(w) ==
  /\ queuedWrites' = queuedWrites - 1
  /\ pendingBytes' = pendingBytes - Size[w]
  /\ UNCHANGED <<droppedWrites, rejectedWrites>>

TrackStored(w) ==
  /\ write[w] = "succeeding"
  /\ write' = [write EXCEPT ![w] = "stored"]
  /\ Uncounted(w)
  /\ UNCHANGED <<waiting, group, report, flushing, history>>

TrackFailed(w) ==
  /\ write[w] = "failing"
  /\ write' = [write EXCEPT ![w] = "failed"]
  /\ unreported' = unreported + 1
  /\ causes' = IF Len(causes) < MaxCauses THEN Append(causes, w) ELSE causes
  /\ Uncounted(w)
  /\ UNCHANGED <<waiting, group, flushing, history>>

(***************************************************************************)
(* flush.                                                                  *)
(***************************************************************************)
CallFlush(f) ==
  /\ flush[f].pc = "none"
  /\ flush' = [flush EXCEPT ![f].pc = "queued", ![f].earlier = Len(accepted)]
  /\ flushQueue' = Append(flushQueue, f)
  /\ UNCHANGED <<write, waiting, group, counters, report, history>>

(* The while loop is at its condition: it starts, or allSettled returned.  *)
AtLoop(f) ==
  /\ flushQueue # <<>> /\ Head(flushQueue) = f
  /\ flush[f].pc = "queued" \/ flush[f].awaited \cap Pending = {}

RetainedCauses == causes              \* variant: reported causes are kept

CausesLeft == <<>>

FlushWaits(f) ==
  /\ AtLoop(f)
  /\ Pending # {}
  /\ flush' = [flush EXCEPT ![f].pc = "waiting", ![f].awaited = Pending]
  /\ UNCHANGED <<write, waiting, group, counters, report, flushQueue, history>>

FlushReturns(f) ==
  /\ AtLoop(f)
  /\ Pending = {}
  /\ flush' = [flush EXCEPT ![f].pc = "settled"]
  /\ told' = told + unreported
  /\ flushQueue' = Tail(flushQueue)
  /\ unreported' = 0
  /\ causes' = CausesLeft
  /\ UNCHANGED <<write, waiting, group, counters, accepted, stored>>

Next ==
  \/ \E w \in Writes : Submit(w) \/ TrackStored(w) \/ TrackFailed(w)
  \/ TakeGroup \/ GroupStored \/ GroupFailed
  \/ \E f \in Flushes : CallFlush(f) \/ FlushWaits(f) \/ FlushReturns(f)

Spec == Init /\ [][Next]_vars

(* Promise reactions run; nothing makes the storage answer.                *)
Fairness ==
  /\ WF_vars(TakeGroup)
  /\ \A w \in Writes : WF_vars(TrackStored(w)) /\ WF_vars(TrackFailed(w))
  /\ \A f \in Flushes : WF_vars(FlushWaits(f)) /\ WF_vars(FlushReturns(f))

FairSpec == Spec /\ Fairness

(***************************************************************************)
(* Properties.                                                             *)
(***************************************************************************)
(* The counters of getStats agree with the calls: what is queued and its   *)
(* bytes are those of the calls still pending, and what overflowed is      *)
(* counted once (enqueueWrite and its finally handler).                    *)
Accounting ==
  /\ queuedWrites = Cardinality(Pending)
  /\ pendingBytes = BytesOf(Pending)
  /\ droppedWrites = Cardinality({w \in Writes : write[w] = "dropped"})
  /\ rejectedWrites = Cardinality({w \in Writes : write[w] = "rejected"})

(* However groups fail, the pending calls never exceed the configured      *)
(* count and bytes, the storage never works on a group over its limits     *)
(* unless it is a single event, and a writeConfirmed is never dropped      *)
(* silently (enqueueWrite, drain).                                         *)
WithinBounds ==
  /\ MaxSize # Unlimited => Cardinality(Pending) <= MaxSize
  /\ MaxBytes # Unlimited => BytesOf(Pending) <= MaxBytes
  /\ Len(group) <= MaxGroup
  /\ Len(group) > 1 => BytesOf(ToSet(group)) <= MaxGroupBytes
  /\ \A w \in Confirmed : write[w] # "dropped"

(* The queue's limits hold for the calls, by counters that describe them.  *)
QueueBounded == TypeOK /\ Accounting /\ WithinBounds

(* Every failure is reported by exactly one flush, or still waits for one; *)
(* the retained causes are those of unreported failures, so that a flush   *)
(* that reports a single failure throws its cause; and when flush has      *)
(* returned, everything accepted before it was called has settled and no   *)
(* failure of it is left for a later flush (flush, failureCauses).         *)
FlushReports ==
  /\ Cardinality(Failed) = unreported + told
  /\ Len(causes) = Min({unreported, MaxCauses})
  /\ ToSet(causes) \subseteq Failed
  /\ \A f \in Flushes : flush[f].pc = "settled" =>
       \A i \in 1..flush[f].earlier :
         accepted[i] \notin Pending /\ ~Contains(causes, accepted[i])

(* Events reach the storage in the order of acceptance and at most once,   *)
(* whatever fails, and a call that succeeds has its event stored: the log  *)
(* a reader sees is what was accepted, with gaps only at failures          *)
(* (drain, and the promise chain of a sink without a batch writer).        *)
StoredInOrder ==
  /\ IsSuffix(InFlight, accepted)
  /\ \A i, j \in 1..Len(stored) : i < j =>
       \E k, l \in 1..Len(accepted) : k < l /\ accepted[k] = stored[i] /\ accepted[l] = stored[j]
  /\ \A w \in Writes : write[w] \in {"succeeding", "stored"} => Contains(stored, w)

(* If the storage keeps answering, every accepted call and every flush     *)
(* settles; the calls of one process are finitely many.                    *)
StorageAnswers == []<>(group = <<>>)

EverythingSettles ==
  StorageAnswers =>
    /\ \A w \in Writes : (write[w] = "waiting") ~> (write[w] \in {"stored", "failed"})
    /\ \A f \in Flushes : (flush[f].pc = "queued") ~> (flush[f].pc = "settled")
=============================================================================
