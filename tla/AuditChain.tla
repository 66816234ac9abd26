------------------------------ MODULE AuditChain ------------------------------
(***************************************************************************)
(* createChainedFileAuditSink: several processes append to one segmented,  *)
(* hash-chained log in a directory, under an advisory lock file.  A write  *)
(* loads the manifest, adopts what an interrupted writer left behind,      *)
(* appends its group in chunks and publishes a new manifest after each.    *)
(* A process may die between any two system calls, and any call may fail.  *)
(*                                                                         *)
(* A record is identified with the events of the chain up to and including *)
(* it: that is what its hash commits to (no two chains collide).  The last *)
(* event of that history is the record's own; a checkpoint is the history  *)
(* at its head, its sequence number the history's length.                  *)
(*                                                                         *)
(* Left out: JSON and event capture, ownership and identity checks of the  *)
(* files (the directory belongs to the sink), loss of power (fsync), and   *)
(* the limits of the file system.                                          *)
(***************************************************************************)
EXTENDS Integers, Sequences, FiniteSets, SequencesExt, FiniteSetsExt

CONSTANTS
  Writers,              (* processes writing to the directory              *)
  Events,               (* redacted audit events                           *)
  Groups,               (* the groups of events the queue hands over       *)
  Initial,              (* history at the trusted initial checkpoint       *)
  Size,                 (* bytes of the encoded record of each event       *)
  MaxRecordBytes,       (* options of the sink                             *)
  MaxBatchBytes,
  MaxSegmentBytes,
  MaxSegments,
  MaxChainBatchRecords, (* hard limits shared by writers and recovery      *)
  MaxChainBatchBytes,
  None, Torn, Abandoned, (* no manifest or lock; a partial line; the lock  *)
                         (* of a process that is gone                      *)
  MaxAttempts           (* bound: submissions of one event                 *)

Histories == Seq(Events)
Segments  == [start : Histories, head : Histories, size : Nat]

ASSUME ChainAssumption ==
  /\ IsFiniteSet(Writers)
  /\ Initial \in Histories
  /\ Size \in [Events -> Nat \ {0}]
  /\ \A group \in Groups : group \in Seq(Events) /\ Len(group) \in 1..MaxChainBatchRecords
  /\ MaxRecordBytes \in Nat \ {0}
  /\ MaxChainBatchRecords \in Nat \ {0} /\ MaxChainBatchBytes \in Nat \ {0}
  /\ MaxBatchBytes \in 1..MaxChainBatchBytes
  /\ MaxSegmentBytes \in Nat \ {0}
  /\ MaxSegments \in Nat \ {0}
  /\ Torn \notin Histories
  /\ None \notin Seq(Segments)
  /\ None \notin Writers /\ Abandoned \notin Writers /\ None # Abandoned
  /\ MaxAttempts \in Nat

VARIABLES
  manifest,   (* the segments of manifest.json, None when it is missing    *)
  files,      (* segment files by the sequence number in their name        *)
  litter,     (* a temporary manifest was left in the directory            *)
  lock,       (* whose manifest.json.lock exists                           *)
  sink,       (* per process, the write in progress                        *)
  submitted,  (* history: how often each event was handed to a sink        *)
  confirmed   (* history: how often each event's write was confirmed       *)

disk == <<manifest, files, litter>>
vars == <<disk, lock, sink, submitted, confirmed>>

HeadOf(segments) == IF segments = <<>> THEN Initial ELSE Last(segments).head

ViewOf(raw) == IF raw = None THEN <<>> ELSE raw

(* The log the published manifest describes, pruned records included.      *)
AcceptedLog ==
  LET head == HeadOf(ViewOf(manifest)) IN SubSeq(head, Len(Initial) + 1, Len(head))

Log == INSTANCE AuditLog WITH log <- AcceptedLog

(* view: the manifest in memory; todo: the events not appended yet; asked: *)
(* the whole group, empty for getCheckpoint; stage: what a manifest is     *)
(* being published, or files are being pruned, for.                        *)
Sinks ==
  [pc : {"idle", "acquiring", "loading", "suffix", "orphan", "publishing", "pruning",
         "writing", "releasing", "rejecting"},
   stage : {"loading", "suffix", "orphan", "writing"},
   view : Seq(Segments), todo : Seq(Events), asked : Seq(Events)]

TypeOK ==
  /\ manifest \in Seq(Segments) \cup {None}
  /\ DOMAIN files \subseteq Nat
  /\ \A f \in DOMAIN files : files[f] \in Seq(Histories \cup {Torn})
  /\ litter \in BOOLEAN
  /\ lock \in Writers \cup {None, Abandoned}
  /\ sink \in [Writers -> Sinks]
  /\ submitted \in [Events -> Nat]
  /\ confirmed \in [Events -> Nat]

NoWrite == [pc |-> "idle", stage |-> "loading", view |-> <<>>, todo |-> <<>>, asked |-> <<>>]

Init ==
  /\ manifest = None
  /\ files = <<>>
  /\ litter = FALSE
  /\ lock = None
  /\ sink = [w \in Writers |-> NoWrite]
  /\ submitted = [e \in Events |-> 0]
  /\ confirmed = [e \in Events |-> 0]

(***************************************************************************)
(* Records, segments and the checks on them.                               *)
(***************************************************************************)
Follows(record, previous) ==
  /\ record # Torn
  /\ Len(record) = Len(previous) + 1
  /\ IsPrefix(previous, record)
  /\ Size[Last(record)] <= MaxRecordBytes

Chained(records, start) ==
  \A i \in 1..Len(records) :
    Follows(records[i], IF i = 1 THEN start ELSE records[i - 1])

LineBytes(record) == IF record = Torn THEN 1 ELSE Size[Last(record)]

(* The positions of all bytes of all lines, counted.                       *)
Bytes(records) ==
  Cardinality(UNION {{i} \X (1..LineBytes(records[i])) : i \in 1..Len(records)})

(* The records the events become when appended to a history.               *)
RecordsOf(events, start) ==
  [i \in 1..Len(events) |-> start \o SubSeq(events, 1, i)]

NameAfter(history) == Len(history) + 1

FileOf(segment) == NameAfter(segment.start)

RecordCount(segment) == Len(segment.head) - Len(segment.start)

Retain(segments) ==
  SubSeq(segments, Max({1, Len(segments) - MaxSegments + 1}), Len(segments))

WithTip(segments, tip) == Retain(Append(Front(segments), tip))
WithNew(segments, new) == Retain(Append(segments, new))

(* parseChainManifest.                                                     *)
WellFormed(segments) ==
  \A i \in 1..Len(segments) :
    /\ Len(segments[i].head) > Len(segments[i].start)
    /\ Len(segments[i].start) >= Len(Initial)
    /\ i > 1 => segments[i].start = segments[i - 1].head
    /\ Len(segments[i].start) = Len(Initial) => segments[i].start = Initial

AdoptRecord(records, previous) ==         \* variant: one record at a time
  Len(records) = 1 /\ Chained(records, previous)

(* parseSuffix, under the limits writers keep to as well.                  *)
Adoptable(records, previous) ==
  /\ records # <<>>
  /\ Chained(records, previous)
  /\ Len(records) <= MaxChainBatchRecords
  /\ Len(records) > 1 => Bytes(records) <= MaxChainBatchBytes

TipFile(segments) == files[FileOf(Last(segments))]

(* Sealed files are compared by size only, the tip by its last record.     *)
Intact(segments) ==
  /\ \A i \in 1..Len(segments) : FileOf(segments[i]) \in DOMAIN files
  /\ \A i \in 1..Len(segments) - 1 : Bytes(files[FileOf(segments[i])]) = segments[i].size
  /\ segments # <<>> =>
       LET count == RecordCount(Last(segments))
       IN  /\ Len(TipFile(segments)) >= count
           /\ TipFile(segments)[count] = Last(segments).head

Suffix(segments) ==
  IF segments = <<>> THEN <<>>
  ELSE SubSeq(TipFile(segments), RecordCount(Last(segments)) + 1, Len(TipFile(segments)))

(***************************************************************************)
(* Steps of one write.                                                     *)
(***************************************************************************)
At(w, pc) == sink[w].pc = pc

Goes(w, pc) == sink' = [sink EXCEPT ![w].pc = pc]

Rejects(w) == Goes(w, "rejecting")

(* The state in memory advances with the publication: a write that cannot  *)
(* complete it never uses the state again.                                 *)
Publish(w, stage, segments) ==
  sink' = [sink EXCEPT ![w].pc = "publishing", ![w].stage = stage, ![w].view = segments]

(* A group from the queue, or getCheckpoint; a process runs one at a time  *)
(* (the queue's drain loop and serializeProcessWrite).                     *)
Asks(w, group) ==
  /\ At(w, "idle")
  /\ sink' = [sink EXCEPT ![w] = [NoWrite EXCEPT !.pc = "acquiring", !.todo = group, !.asked = group]]
  /\ submitted' = Log!Plus(submitted, group)
  /\ \A e \in Events : submitted'[e] <= MaxAttempts
  /\ UNCHANGED <<disk, lock, confirmed>>

Acquires(w) ==
  /\ At(w, "acquiring")
  /\ lock = None
  /\ lock' = w
  /\ Goes(w, "loading")
  /\ UNCHANGED <<disk, submitted, confirmed>>

WaitsForTheLock(w) ==                     \* variant: no lock timeout
  /\ At(w, "acquiring")
  /\ lock = None
  /\ Goes(w, "idle")
  /\ UNCHANGED <<disk, lock, submitted, confirmed>>

(* The lock timeout, or a lock file that cannot be created.                *)
GivesUp(w) ==
  /\ At(w, "acquiring")
  /\ Goes(w, "idle")
  /\ UNCHANGED <<disk, lock, submitted, confirmed>>

(* load(): only an empty directory is given a first manifest.              *)
Loads(w) ==
  /\ At(w, "loading")
  /\ \/ /\ manifest # None
        /\ WellFormed(manifest)
        /\ sink' = [sink EXCEPT ![w].pc = "suffix", ![w].view = manifest]
     \/ /\ manifest = None
        /\ files = <<>> /\ ~litter
        /\ Publish(w, "loading", ViewOf(manifest))
     \/ /\ IF manifest = None THEN files # <<>> \/ litter ELSE ~WellFormed(manifest)
        /\ Rejects(w)
  /\ UNCHANGED <<disk, lock, submitted, confirmed>>

(* recover(), first part: the records after the committed tip.             *)
RecoversSuffix(w) ==
  LET view == sink[w].view
      tip  == Last(view)
  IN
  /\ At(w, "suffix")
  /\ \/ /\ Intact(view) /\ Suffix(view) = <<>>
        /\ Goes(w, "orphan")
     \/ /\ Intact(view) /\ Adoptable(Suffix(view), HeadOf(view))
        /\ Publish(w, "suffix",
             WithTip(view, [tip EXCEPT !.head = Last(TipFile(view)), !.size = Bytes(TipFile(view))]))
     \/ /\ Intact(view) => Suffix(view) # <<>> /\ ~Adoptable(Suffix(view), HeadOf(view))
        /\ Rejects(w)
  /\ UNCHANGED <<disk, lock, submitted, confirmed>>

(* recover(), second part: a file that begins right after the head.        *)
RecoversOrphan(w) ==
  LET view   == sink[w].view
      head   == HeadOf(view)
      orphan == files[NameAfter(head)]
  IN
  /\ At(w, "orphan")
  /\ \/ /\ NameAfter(head) \notin DOMAIN files
        /\ sink' = [sink EXCEPT ![w].pc = "pruning", ![w].stage = "orphan"]
     \/ /\ NameAfter(head) \in DOMAIN files
        /\ Adoptable(orphan, head)
        /\ Publish(w, "orphan",
             WithNew(view, [start |-> head, head |-> Last(orphan), size |-> Bytes(orphan)]))
     \/ /\ NameAfter(head) \in DOMAIN files
        /\ ~Adoptable(orphan, head)
        /\ Rejects(w)
  /\ UNCHANGED <<disk, lock, submitted, confirmed>>

(* writeChainMetadata: the rename is what makes the manifest visible.      *)
Publishes(w) ==
  /\ At(w, "publishing")
  /\ manifest' = sink[w].view
  /\ Goes(w, IF sink[w].stage = "loading" THEN "suffix" ELSE "pruning")
  /\ UNCHANGED <<files, litter, lock, submitted, confirmed>>

Prunable(segments) ==
  IF segments = <<>> \/ segments[1].start = Initial THEN {}
  ELSE {f \in DOMAIN files : f > Len(Initial) /\ f <= Len(segments[1].start)}

Prunes(w) ==
  /\ At(w, "pruning")
  /\ \/ /\ \E f \in Prunable(sink[w].view) : files' = [g \in DOMAIN files \ {f} |-> files[g]]
        /\ UNCHANGED sink
     \/ /\ Prunable(sink[w].view) = {}
        /\ Goes(w, IF sink[w].stage = "suffix" THEN "orphan" ELSE "writing")
        /\ UNCHANGED files
  /\ UNCHANGED <<manifest, litter, lock, submitted, confirmed>>

(***************************************************************************)
(* The append loop of writeEvents.  A chunk is as many events as fit the   *)
(* batch and the segment, but at least one; it starts a new segment when   *)
(* its first record does not fit the current one.                          *)
(***************************************************************************)
Rotates(view, todo) == view = <<>> \/ Last(view).size + Size[Head(todo)] > MaxSegmentBytes

BaseSize(view, todo) == IF Rotates(view, todo) THEN 0 ELSE Last(view).size

Fits(view, todo, n) ==
  LET bytes == Bytes(RecordsOf(SubSeq(todo, 1, n), <<>>))
  IN  bytes <= MaxBatchBytes /\ BaseSize(view, todo) + bytes <= MaxSegmentBytes

Chunk(view, todo) ==
  SubSeq(todo, 1, Max({n \in 1..Len(todo) : n = 1 \/ Fits(view, todo, n)}))

(* Records are built one event ahead of the chunk that is persisted, so an *)
(* event whose record is too large takes its predecessors down with it.    *)
Buildable(view, todo) ==
  LET ahead == Len(Chunk(view, todo)) + 1
  IN  \A i \in 1..Len(todo) : i <= ahead => Size[todo[i]] <= MaxRecordBytes

Target(view, todo) ==
  IF Rotates(view, todo) THEN NameAfter(HeadOf(view)) ELSE FileOf(Last(view))

Lines(view, todo) == RecordsOf(Chunk(view, todo), HeadOf(view))

(* The target's contents after some lines; a new segment must not exist.   *)
Extended(view, todo, lines) ==
  LET target == Target(view, todo)
      before == IF Rotates(view, todo) THEN <<>> ELSE files[target]
  IN  [f \in DOMAIN files \cup {target} |-> IF f = target THEN before \o lines ELSE files[f]]

MayAppend(w) ==
  /\ At(w, "writing")
  /\ sink[w].todo # <<>>
  /\ Buildable(sink[w].view, sink[w].todo)
  /\ Rotates(sink[w].view, sink[w].todo) <=>
       Target(sink[w].view, sink[w].todo) \notin DOMAIN files

NextView(view, todo) ==
  LET lines == Lines(view, todo)
      size  == BaseSize(view, todo) + Bytes(lines)
  IN  IF Rotates(view, todo)
      THEN WithNew(view, [start |-> HeadOf(view), head |-> Last(lines), size |-> size])
      ELSE WithTip(view, [Last(view) EXCEPT !.head = Last(lines), !.size = size])

PruneFirst(rest) == "pruning"             \* variant: retention before the rename

AfterChunk(rest) == "publishing"

LinesKept(view, todo) ==                  \* variant: the lines are not reset
  IF Len(Chunk(view, todo)) = Len(todo) THEN <<>> ELSE todo

Rest(view, todo) == SubSeq(todo, Len(Chunk(view, todo)) + 1, Len(todo))

Appends(w) ==
  LET view == sink[w].view
      todo == sink[w].todo
  IN
  /\ MayAppend(w)
  /\ files' = Extended(view, todo, Lines(view, todo))
  /\ sink' = [sink EXCEPT ![w] =
                [@ EXCEPT !.pc = AfterChunk(Rest(view, todo)), !.stage = "writing",
                          !.view = NextView(view, todo), !.todo = Rest(view, todo)]]
  /\ UNCHANGED <<manifest, litter, lock, submitted, confirmed>>

(* The append fails, or the process dies in it, after any of its bytes.    *)
AppendBreaks(w) ==
  LET lines == Lines(sink[w].view, sink[w].todo)
  IN
  /\ MayAppend(w)
  /\ \E n \in 0..Len(lines), tail \in {<<>>, <<Torn>>} :
       /\ tail # <<>> => n < Len(lines)
       /\ files' = Extended(sink[w].view, sink[w].todo, SubSeq(lines, 1, n) \o tail)
  /\ Rejects(w)
  /\ UNCHANGED <<manifest, litter, lock, submitted, confirmed>>

CannotAppend(w) ==
  /\ At(w, "writing")
  /\ sink[w].todo # <<>>
  /\ ~MayAppend(w)
  /\ Rejects(w)
  /\ UNCHANGED <<disk, lock, submitted, confirmed>>

(* What getCheckpoint reads back in full, across segments.                 *)
Verified(segments) ==
  LET start == IF segments = <<>> THEN Initial ELSE segments[1].start
      lines == FlattenSeq([i \in 1..Len(segments) |-> files[FileOf(segments[i])]])
  IN  /\ Chained(lines, start)
      /\ HeadOf(segments) = IF lines = <<>> THEN start ELSE Last(lines)

Finishes(w) ==
  /\ At(w, "writing")
  /\ sink[w].todo = <<>>
  /\ Goes(w, IF sink[w].asked = <<>> /\ ~Verified(sink[w].view) THEN "rejecting" ELSE "releasing")
  /\ UNCHANGED <<disk, lock, submitted, confirmed>>

(* Only a write whose lock was removed as well is confirmed.               *)
Releases(w) ==
  /\ At(w, "releasing") \/ At(w, "rejecting")
  /\ lock' = None
  /\ confirmed' = IF At(w, "releasing") THEN Log!Plus(confirmed, sink[w].asked) ELSE confirmed
  /\ sink' = [sink EXCEPT ![w] = NoWrite]
  /\ UNCHANGED <<disk, submitted>>

ReleaseFails(w) ==
  /\ At(w, "releasing") \/ At(w, "rejecting")
  /\ lock' = Abandoned
  /\ sink' = [sink EXCEPT ![w] = NoWrite]
  /\ UNCHANGED <<disk, submitted, confirmed>>

Holding(w) == lock = w

(* A temporary manifest may stay behind.                                   *)
MayLitter(w) ==
  /\ litter' \in IF At(w, "publishing") THEN {litter, TRUE} ELSE {litter}
  /\ UNCHANGED <<manifest, files>>

(* Some other system call of the write fails.                              *)
IOFails(w) ==
  /\ Holding(w)
  /\ ~At(w, "releasing") /\ ~At(w, "rejecting")
  /\ MayLitter(w)
  /\ Rejects(w)
  /\ UNCHANGED <<lock, submitted, confirmed>>

(* The process dies and is started again; its lock file stays.             *)
Crash(w) ==
  /\ ~At(w, "idle")
  /\ MayLitter(w)
  /\ lock' = IF Holding(w) THEN Abandoned ELSE lock
  /\ sink' = [sink EXCEPT ![w] = NoWrite]
  /\ UNCHANGED <<submitted, confirmed>>

(* An operator removes the lock once its writer is known to have stopped.  *)
OperatorUnlocks ==
  /\ lock = Abandoned
  /\ lock' = None
  /\ UNCHANGED <<disk, sink, submitted, confirmed>>

Step(w) ==
  \/ Acquires(w) \/ GivesUp(w)
  \/ Loads(w) \/ RecoversSuffix(w) \/ RecoversOrphan(w)
  \/ Publishes(w) \/ Prunes(w)
  \/ Appends(w) \/ CannotAppend(w) \/ Finishes(w)
  \/ Releases(w)

Breaks(w) == AppendBreaks(w) \/ ReleaseFails(w) \/ IOFails(w) \/ Crash(w)

Next ==
  \/ \E w \in Writers : Step(w) \/ Breaks(w) \/ \E group \in Groups \cup {<<>>} : Asks(w, group)
  \/ OperatorUnlocks

Spec == Init /\ [][Next]_vars

(* The event loop and the file system answer, with success or an error.    *)
FairSpec == Spec /\ \A w \in Writers : WF_vars(Step(w))

(***************************************************************************)
(* Properties.                                                             *)
(***************************************************************************)
Published == ViewOf(manifest)

(* The published manifest always describes an unbroken chain of records    *)
(* that are all on disk, whatever was interrupted: a committed record is   *)
(* never lost, replaced or out of order.                                   *)
ManifestVerified ==
  /\ WellFormed(Published)
  /\ \A i \in 1..Len(Published) :
       LET segment == Published[i]
           count   == RecordCount(segment)
       IN  /\ FileOf(segment) \in DOMAIN files
           /\ Len(files[FileOf(segment)]) >= count
           /\ Chained(SubSeq(files[FileOf(segment)], 1, count), segment.start)
           /\ files[FileOf(segment)][count] = segment.head
           /\ segment.size = Bytes(SubSeq(files[FileOf(segment)], 1, count))

Untouched == {f \in DOMAIN files : f > Len(HeadOf(Published))}

(* Recovery needs at most one bounded suffix or one orphan that comes next *)
(* in sequence, even across rotation: nothing else is ever left behind.    *)
OneInterruptedChunk ==
  /\ Untouched \subseteq {NameAfter(HeadOf(Published))}
  /\ \A i \in 1..Len(Published) :
       Len(files[FileOf(Published[i])]) > RecordCount(Published[i]) =>
         i = Len(Published) /\ Untouched = {}
  /\ \A f \in DOMAIN files : f <= Len(HeadOf(Published)) =>
       \/ \E i \in 1..Len(Published) : f = FileOf(Published[i])
       \/ f \in Prunable(Published)

(* The directory never holds more than one segment above the retention     *)
(* limit, however often pruning or rotation is interrupted.                *)
RetentionBounded == Cardinality(DOMAIN files) <= MaxSegments + 1

Partial(f) == files[f] = <<>> \/ Torn \in Range(files[f])

(* The sink fails closed only on a partial line, an empty segment or an    *)
(* interrupted first manifest.  Everything else an interruption leaves is  *)
(* adopted by the next writer.                                             *)
RecoversUnlessPartial ==
  (~litter /\ \A f \in DOMAIN files : ~Partial(f)) =>
    /\ manifest = None => files = <<>>
    /\ Intact(Published)
    /\ Suffix(Published) # <<>> => Adoptable(Suffix(Published), HeadOf(Published))
    /\ Untouched # {} => Adoptable(files[NameAfter(HeadOf(Published))], HeadOf(Published))

(* The published chain is one that a verifier accepts, all of it on disk,  *)
(* and what an interruption leaves beside it is bounded and can be         *)
(* recovered (commitSegments, persist, recover, pruneSegments).            *)
DirectorySound ==
  /\ TypeOK
  /\ ManifestVerified
  /\ OneInterruptedChunk
  /\ RetentionBounded
  /\ RecoversUnlessPartial

(* Segment files only grow, and are deleted only after a manifest that no  *)
(* longer retains them was published; evidence of an interruption is never *)
(* deleted, truncated or overwritten.                                      *)
EvidenceKept ==
  [][\A f \in DOMAIN files :
       IF f \in DOMAIN files'
       THEN IsPrefix(files[f], files'[f])
       ELSE /\ Published # <<>> /\ f <= Len(Published[1].start)
            /\ \A r \in Range(files[f]) : r # Torn /\ IsPrefix(r, HeadOf(Published))]_vars

(* The directory implements the log: it only grows, every confirmed write  *)
(* has its own record, and no write has two, also when groups are cut      *)
(* short and adopted by the recovery of another process.                   *)
ImplementsLog == Log!LogSpec

(* Every write is eventually confirmed or rejected, also behind a lock     *)
(* nobody will ever release.                                               *)
WritesSettle == \A w \in Writers : []<>At(w, "idle")
==============================================================================
