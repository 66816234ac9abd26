----------------------------- MODULE AuditReaders -----------------------------
(***************************************************************************)
(* The readers of a chained audit directory beside its writers.            *)
(* diagnoseAuditDirectory observes without the lock: it lists, looks for   *)
(* the lock, reads the manifest and each segment, and in the end compares  *)
(* the stats of directory and manifest with the first ones and looks for   *)
(* the lock again.  Each await is a step, which writers may come between.  *)
(* exportChainedAuditEvidence copies the directory under the writers'      *)
(* lock and verifies the copy afterwards.                                  *)
(*                                                                         *)
(* Creating, renaming and deleting an entry changes the directory's        *)
(* stat; appending to a segment does not.  Time stamps are taken to tell   *)
(* two changes apart.  A segment is read in one step: a change during the  *)
(* read is caught by the comparison of its own stats and yields "changed". *)
(*                                                                         *)
(* Left out: ownership and type of directory and files, entries that are   *)
(* not the sink's, byte and entry limits, cancellation, which throws, and  *)
(* a first look at the directory that fails.                               *)
(***************************************************************************)
EXTENDS AuditChain

CONSTANTS
  MaxRecords,      (* option of both readers                               *)
  MaxLookAttempts  (* bound: submissions of one event before and during a  *)
                   (* diagnosis                                            *)

ASSUME ReadersAssumption == MaxRecords \in Nat /\ MaxLookAttempts \in Nat

VARIABLES
  reader,   (* the diagnosis in progress                                   *)
  touched,  (* the directory's stat differs from the diagnosis' first or,  *)
            (* once that was compared, the manifest's differs              *)
  seen,     (* history: the directory when its stat was last compared      *)
  overtaken (* history: the lock was taken since                           *)

allVars == <<vars, reader, touched, seen, overtaken>>

Corruption == {"MANIFEST_INVALID", "SEGMENT_SIZE_MISMATCH", "CHAIN_INVALID"}
Unreadable == {"READ_FAILED", "MANIFEST_UNREADABLE", "SEGMENT_UNREADABLE"}
Leftovers  == {"MANIFEST_MISSING", "UNREFERENCED_SEGMENTS", "TEMPORARY_FILES", "UNCOMMITTED_TAIL"}
IssueCodes == Corruption \cup Unreadable \cup Leftovers \cup {"VERIFICATION_LIMIT"}

NothingListed == [segments |-> {}, manifest |-> FALSE, temporary |-> FALSE, lock |-> FALSE]

(* found: manifestPresent; statted: manifestBefore was taken.              *)
Idle ==
  [pc |-> "idle", listed |-> NothingListed, found |-> FALSE, statted |-> FALSE, busy |-> FALSE,
   changed |-> FALSE, rest |-> <<>>, records |-> 0, issues |-> {}]

NothingSeen == [exportable |-> FALSE, empty |-> FALSE]

ReaderTypeOK ==
  /\ reader \in [pc      : {"idle", "listing", "locking", "statting", "manifest", "segments",
                            "rechecking", "recheckingManifest", "reporting"},
                 listed  : [segments : SUBSET Nat, manifest : BOOLEAN, temporary : BOOLEAN, lock : BOOLEAN],
                 found   : BOOLEAN,
                 statted : BOOLEAN,
                 busy    : BOOLEAN,
                 changed : BOOLEAN,
                 rest    : Seq(Segments),
                 records : 0..MaxRecords,
                 issues  : SUBSET IssueCodes]
  /\ touched \in BOOLEAN
  /\ seen \in [exportable : BOOLEAN, empty : BOOLEAN] /\ overtaken \in BOOLEAN

ReadersInit ==
  Init /\ reader = Idle /\ touched = FALSE /\ seen = NothingSeen /\ overtaken = FALSE

(***************************************************************************)
(* What a reader of the files finds.                                       *)
(***************************************************************************)
(* readChainLines yields complete lines within the record limit, and       *)
(* throws on a partial one.                                                *)
Readable(records) == \A r \in Range(records) : r # Torn /\ LineBytes(r) <= MaxRecordBytes

(* What copy() and the verification of the copy ask of a segment.          *)
Copied(segment) ==
  LET records == files[FileOf(segment)]
  IN  /\ FileOf(segment) \in DOMAIN files
      /\ Bytes(records) = segment.size
      /\ Readable(records)
      /\ Chained(records, segment.start)
      /\ Last(records) = segment.head

Declared(segments) ==
  IF segments = <<>> THEN 0 ELSE Len(HeadOf(segments)) - Len(segments[1].start)

(* The directory is exported only as manifest and segments that all verify *)
(* and nothing beside them.                                                *)
Exportable ==
  /\ manifest # None
  /\ WellFormed(manifest)
  /\ ~litter
  /\ DOMAIN files = {FileOf(segment) : segment \in Range(manifest)}
  /\ Declared(manifest) <= MaxRecords
  /\ \A segment \in Range(manifest) : Copied(segment)

DirectoryEmpty == manifest = None /\ files = <<>> /\ ~litter

Present == [exportable |-> Exportable, empty |-> DirectoryEmpty]

(***************************************************************************)
(* Steps of a diagnosis.                                                   *)
(***************************************************************************)
Reading(pc) == reader.pc = pc

Observes(next) == reader' = next /\ UNCHANGED <<vars, touched, seen, overtaken>>

Notes(codes) == [reader EXCEPT !.issues = @ \cup codes]

Rechecks(codes) ==
  [Notes(codes) EXCEPT !.pc = "rechecking", !.listed = NothingListed, !.rest = <<>>, !.records = 0]

(* The stat of the directory every later one is compared with.             *)
Looks ==
  /\ Reading("idle")
  /\ \A e \in Events : submitted[e] <= MaxLookAttempts
  /\ reader' = [Idle EXCEPT !.pc = "listing"]
  /\ touched' = FALSE
  /\ UNCHANGED <<vars, seen, overtaken>>

Lists ==
  /\ Reading("listing")
  /\ Observes([reader EXCEPT !.pc = "locking", !.found = manifest # None,
                 !.listed = [segments |-> DOMAIN files, manifest |-> manifest # None,
                             temporary |-> litter, lock |-> lock # None]])

(* Nothing else is read while a writer is at work.                         *)
LooksForLock ==
  LET listed == reader.listed
      left   == IF listed.temporary THEN {"TEMPORARY_FILES"} ELSE {}
  IN
  /\ Reading("locking")
  /\ \/ /\ lock # None
        /\ Observes([Rechecks({}) EXCEPT !.busy = TRUE])
     \/ /\ lock = None /\ listed.manifest
        /\ Observes([Notes(left) EXCEPT !.pc = "statting"])
     \/ /\ lock = None /\ ~listed.manifest
        /\ Observes(Rechecks(left \cup
             (IF listed.segments # {} \/ listed.temporary \/ listed.lock THEN {"MANIFEST_MISSING"} ELSE {})))

(* A manifest replaced after this is told by the directory's stat or,      *)
(* later than that, by its own.                                            *)
StatsManifest ==
  /\ Reading("statting")
  /\ Observes(IF manifest = None THEN Rechecks({"MANIFEST_UNREADABLE"})
              ELSE [reader EXCEPT !.pc = "manifest", !.statted = TRUE])

ReadsManifest ==
  LET segments     == ViewOf(manifest)
      unreferenced == reader.listed.segments \ {FileOf(s) : s \in Range(segments)}
  IN
  /\ Reading("manifest")
  /\ \/ /\ manifest = None
        /\ Observes(Rechecks({"MANIFEST_UNREADABLE"}))
     \/ /\ manifest # None /\ ~WellFormed(manifest)
        /\ Observes(Rechecks({"MANIFEST_INVALID"}))
     \/ /\ manifest # None /\ WellFormed(manifest)
        /\ Observes([Notes(IF unreferenced = {} THEN {} ELSE {"UNREFERENCED_SEGMENTS"})
                       EXCEPT !.pc = "segments", !.listed = NothingListed, !.rest = segments])

(* The first thing wrong with a segment, in the order the code looks.      *)
SegmentIssue(segment, tip) ==
  LET records == files[FileOf(segment)]
      budget  == MaxRecords - reader.records
      within  == SubSeq(records, 1, Min({budget, Len(records)}))
  IN  IF FileOf(segment) \notin DOMAIN files                        THEN {"SEGMENT_UNREADABLE"}
      ELSE IF tip /\ Bytes(records) > segment.size                  THEN {"UNCOMMITTED_TAIL"}
      ELSE IF Bytes(records) # segment.size                         THEN {"SEGMENT_SIZE_MISMATCH"}
      ELSE IF ~Readable(within) \/ ~Chained(within, segment.start)  THEN {"CHAIN_INVALID"}
      ELSE IF Len(records) > budget                                 THEN {"VERIFICATION_LIMIT"}
      ELSE IF Last(records) # segment.head                          THEN {"CHAIN_INVALID"}
      ELSE {}

VerifiesSegment ==
  /\ Reading("segments")
  /\ \/ /\ reader.rest = <<>>
        /\ Observes(Rechecks({}))
     \/ /\ reader.rest # <<>>
        /\ LET segment == Head(reader.rest)
               issue   == SegmentIssue(segment, Len(reader.rest) = 1)
           IN  Observes(IF issue # {} THEN Rechecks(issue)
                        ELSE [reader EXCEPT !.rest = Tail(@), !.records = @ + RecordCount(segment)])

(* A call of the diagnosis fails: one more issue, then the recheck.        *)
ReadFails ==
  \/ /\ reader.pc \in {"listing", "locking"}
     /\ Observes(Rechecks({"READ_FAILED"}))
  \/ /\ reader.pc \in {"statting", "manifest"}
     /\ Observes(Rechecks({"MANIFEST_UNREADABLE"}))
  \/ /\ Reading("segments")
     /\ Observes(Rechecks({"SEGMENT_UNREADABLE"}))

AfterDirectory == IF reader.statted THEN "recheckingManifest" ELSE "reporting"

TrustsReading ==                          \* variant: the directory is not compared
  /\ Reading("rechecking")
  /\ reader' = [reader EXCEPT !.pc = AfterDirectory]
  /\ seen' = Present
  /\ touched' = FALSE
  /\ UNCHANGED <<vars, overtaken>>

(* The directory is as it was, whatever was found in it, or all that was   *)
(* read is in doubt and none of it is reported.                            *)
RechecksDirectory ==
  /\ Reading("rechecking")
  /\ \/ /\ ~touched /\ ~reader.busy
        /\ reader' = [reader EXCEPT !.pc = AfterDirectory]
        /\ seen' = Present
     \/ /\ touched \/ reader.busy
        /\ reader' = [Idle EXCEPT !.pc = AfterDirectory, !.busy = reader.busy, !.changed = touched]
        /\ seen' = NothingSeen
  /\ touched' = FALSE
  /\ UNCHANGED <<vars, overtaken>>

RechecksManifest ==
  /\ Reading("recheckingManifest")
  /\ reader' = [reader EXCEPT !.pc = "reporting", !.changed = @ \/ touched]
  /\ touched' = FALSE
  /\ UNCHANGED <<vars, seen, overtaken>>

(* The lock is looked for again and, with the answer, the verdict falls.   *)
Verdict ==
  IF reader.busy \/ lock # None THEN "busy"
  ELSE IF reader.changed        THEN "changed"
  ELSE IF reader.issues # {}    THEN "issues"
  ELSE IF reader.found          THEN "valid"
  ELSE "empty"

Concludes ==
  /\ reader' = Idle
  /\ touched' = FALSE
  /\ seen' = NothingSeen
  /\ overtaken' = FALSE
  /\ UNCHANGED vars

Reports == Reading("reporting") /\ Concludes

(* What cannot be compared counts as changed or, with a lock, as busy.     *)
RecheckFails == reader.pc \in {"rechecking", "recheckingManifest"} /\ Concludes

Diagnoses ==
  \/ Looks \/ Lists \/ LooksForLock \/ StatsManifest \/ ReadsManifest \/ VerifiesSegment \/ ReadFails
  \/ RechecksDirectory \/ RechecksManifest \/ RecheckFails \/ Reports

(***************************************************************************)
(* The writers and the export beside it.                                   *)
(***************************************************************************)
Early == reader.pc \in {"listing", "locking", "statting", "manifest", "segments", "rechecking"}

Rechecked == reader.pc \in {"recheckingManifest", "reporting"} /\ ~reader.busy /\ ~reader.changed

(* Notices at least the changes that leave another directory, or another   *)
(* manifest, behind.                                                       *)
Notice ==
  /\ touched' =
       \/ Early /\ (touched \/ <<manifest, DOMAIN files, litter, lock>>' # <<manifest, DOMAIN files, litter, lock>>)
       \/ Reading("recheckingManifest") /\ (touched \/ manifest' # manifest)
  /\ overtaken' = (Rechecked /\ (overtaken \/ (lock = None /\ lock' # None)))
  /\ UNCHANGED <<reader, seen>>

Writes ==
  /\ Next
  /\ Reading("idle") \/ \A e \in Events : submitted'[e] <= MaxLookAttempts
  /\ Notice

(* Writers cannot move while the export has the lock, so its part under    *)
(* the lock is one step, which leaves the lock behind when it dies in it.  *)
Exports ==
  /\ lock = None
  /\ lock' \in {None, Abandoned}
  /\ touched' = (touched \/ Early)
  /\ overtaken' = Rechecked
  /\ UNCHANGED <<disk, sink, submitted, confirmed, reader, seen>>

ReadersNext == Writes \/ Exports \/ Diagnoses

ReadersSpec ==
  /\ ReadersInit /\ [][ReadersNext]_allVars
  /\ \A w \in Writers : WF_vars(Step(w))

(***************************************************************************)
(* Properties.                                                             *)
(***************************************************************************)
(* A diagnosis that reports neither a writer nor a change tells the truth  *)
(* about the directory as it was when its stat was compared, though it     *)
(* read it piece by piece without the lock: "valid" is a directory the     *)
(* export accepts, "empty" has nothing in it, and an issue is one the      *)
(* export refuses.  No live change and no interruption is ever reported as *)
(* corruption (diagnoseAuditDirectory: "Never label a detected live change *)
(* as corruption").  And the directory is still so, unless the diagnosis   *)
(* never learned of the lock at first or somebody took it after the        *)
(* comparison: a writer at work before that does not go unnoticed.         *)
DiagnosisTruthful ==
  Reading("reporting") /\ Verdict \notin {"busy", "changed"} =>
    /\ Verdict = "valid" => seen.exportable
    /\ Verdict = "empty" => seen.empty
    /\ Verdict = "issues" =>
         /\ reader.issues \cap Corruption = {}
         /\ reader.issues \cap Unreadable = {} => ~seen.exportable /\ ~seen.empty
    /\ \/ overtaken \/ "READ_FAILED" \in reader.issues
       \/ seen = Present

AuditDiagnosisSound == ReaderTypeOK /\ DiagnosisTruthful
==============================================================================
