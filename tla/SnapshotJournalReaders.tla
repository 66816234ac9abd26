------------------------ MODULE SnapshotJournalReaders ------------------------
(***************************************************************************)
(* diagnoseSnapshotJournal beside the commits of SnapshotStore: it looks   *)
(* for the lock, lists the directory, reads and inspects the journal, and  *)
(* in the end compares the stats of directory and journal with the first   *)
(* ones, looks for the lock again and only then asks whether the head is   *)
(* fresh.  Each await is a step, which commits may come between.           *)
(*                                                                         *)
(* Creating, renaming and deleting an entry changes the directory's stat;  *)
(* time stamps are taken to tell two changes apart.  The journal is        *)
(* replaced by rename only, so that one read finds one journal.            *)
(*                                                                         *)
(* Left out: ownership and type of directory and files, byte and entry     *)
(* limits, and cancellation, which throws.                                 *)
(***************************************************************************)
EXTENDS SnapshotStore

VARIABLES
  look,     (* the diagnosis in progress                                   *)
  touched,  (* the directory's stat differs from the diagnosis' first      *)
  litter,   (* a commit left its temporary file behind                     *)
  seen,     (* history: journal head and litter when last compared         *)
  overtaken (* history: a commit has taken the lock since                  *)

allVars == <<vars, look, touched, litter, seen, overtaken>>

IssueCodes ==
  {"READ_FAILED", "JOURNAL_INVALID", "TEMPORARY_FILES", "HEAD_UNVERIFIABLE",
   "HISTORY_UNVERIFIABLE", "HISTORY_ORDER_INVALID", "HEAD_NOT_ACTIVATABLE"}

(* verifying: verification settings were given, chosen when first used;    *)
(* found: journalPresent; statted: fileBefore was taken.                   *)
NoLook ==
  [pc |-> "idle", verifying |-> FALSE, found |-> FALSE, statted |-> FALSE, busy |-> FALSE,
   changed |-> FALSE, head |-> None, issues |-> {}]

NothingSeen == [head |-> None, litter |-> FALSE]

Present == [head |-> FloorOf(journal), litter |-> litter]

LookTypeOK ==
  /\ look \in [pc        : {"idle", "locking", "listing", "finding", "statting", "reading",
                            "comparing", "comparingJournal", "reporting"},
               verifying : BOOLEAN,
               found     : BOOLEAN,
               statted   : BOOLEAN,
               busy      : BOOLEAN,
               changed   : BOOLEAN,
               head      : Artifacts \cup {None},
               issues    : SUBSET IssueCodes]
  /\ touched \in BOOLEAN /\ litter \in BOOLEAN
  /\ seen \in [head : Artifacts \cup {None}, litter : BOOLEAN] /\ overtaken \in BOOLEAN

ReadersInit ==
  Init /\ look = NoLook /\ touched = FALSE /\ litter = FALSE /\ seen = NothingSeen /\ overtaken = FALSE

(***************************************************************************)
(* inspect(): the newest entry first; without a verifiable head nothing    *)
(* else is looked at, other entries that do not verify are noted and       *)
(* skipped, and those that do must be in order with the one before.        *)
(***************************************************************************)
HistoryIssues(entries) ==
  LET verifiable == {i \in DOMAIN entries : Historic(entries[i], now)}
      adjacent(i, j) == i < j /\ \A k \in verifiable : ~(i < k /\ k < j)
  IN  (IF verifiable = DOMAIN entries THEN {} ELSE {"HISTORY_UNVERIFIABLE"})
      \cup (IF \A i, j \in verifiable : adjacent(i, j) => Precedes(entries[j], entries[i])
            THEN {} ELSE {"HISTORY_ORDER_INVALID"})

Inspection(entries) ==
  IF Historic(entries[1], now)
  THEN [head |-> entries[1], issues |-> HistoryIssues(entries)]
  ELSE [head |-> None, issues |-> {"HEAD_UNVERIFIABLE"}]

(***************************************************************************)
(* Steps of a diagnosis.                                                   *)
(***************************************************************************)
Looking(pc) == look.pc = pc

Observes(next) == look' = next /\ UNCHANGED <<vars, touched, litter, seen, overtaken>>

Compares(issues) == [look EXCEPT !.pc = "comparing", !.issues = @ \cup issues]

(* The stat of the directory that a later one is compared with.            *)
Looks ==
  /\ Looking("idle")
  /\ look' = [NoLook EXCEPT !.pc = "locking"]
  /\ touched' = FALSE
  /\ UNCHANGED <<vars, litter, seen, overtaken>>

(* Nothing else is read while a commit is at work.                         *)
LooksForLock ==
  /\ Looking("locking")
  /\ Observes(IF lock = None THEN [look EXCEPT !.pc = "listing"]
              ELSE [Compares({}) EXCEPT !.busy = TRUE])

Lists ==
  /\ Looking("listing")
  /\ Observes([look EXCEPT !.pc = "finding", !.issues = IF litter THEN {"TEMPORARY_FILES"} ELSE {}])

LooksForJournal ==
  /\ Looking("finding")
  /\ Observes(IF journal = <<>> THEN Compares({})
              ELSE [look EXCEPT !.pc = "statting", !.found = TRUE])

(* A journal replaced after this is told by the directory's stat or, later *)
(* than that, by its own.                                                  *)
StatsJournal ==
  /\ Looking("statting")
  /\ Observes([look EXCEPT !.pc = "reading", !.statted = TRUE])

ReadsJournal ==
  /\ Looking("reading")
  /\ \/ Observes([Compares(Inspection(journal).issues) EXCEPT
                     !.verifying = TRUE, !.head = Inspection(journal).head])
     \/ Observes(Compares({}))

(* A call of the diagnosis fails: one more issue, then the comparison.     *)
ReadFails ==
  /\ look.pc \in {"locking", "listing", "finding", "statting", "reading"}
  /\ Observes(Compares({"READ_FAILED"}))

(* The directory is as it was, or all that was read is in doubt and none   *)
(* of it is reported.                                                      *)
InDoubt(l) == [l EXCEPT !.changed = TRUE, !.head = None, !.issues = {}]

ComparesDirectory ==
  /\ Looking("comparing")
  /\ LET next == [look EXCEPT !.pc = IF look.statted THEN "comparingJournal" ELSE "reporting"]
     IN  look' = IF touched THEN InDoubt(next) ELSE next
  /\ seen' = IF touched \/ look.busy THEN NothingSeen ELSE Present
  /\ touched' = FALSE
  /\ UNCHANGED <<vars, litter, overtaken>>

TrustsDirectory ==                        \* variant: the directory's stat is enough
  /\ Looking("comparingJournal")
  /\ look' = [look EXCEPT !.pc = "reporting"]
  /\ seen' = [seen EXCEPT !.head = FloorOf(journal)]
  /\ UNCHANGED <<vars, touched, litter, overtaken>>

(* A rename brings another head, so another journal is another stat.       *)
ComparesJournal ==
  /\ Looking("comparingJournal")
  /\ LET next == [look EXCEPT !.pc = "reporting"]
     IN  Observes(IF FloorOf(journal) = seen.head THEN next ELSE InDoubt(next))

Believes(a) == FALSE                      \* variant: fresh when it was read

HeadStale(a) == ~Verifies(a, a, now)

(* Freshness follows all observations of the file system.                  *)
HeadIssues ==
  IF look.head # None /\ "HISTORY_ORDER_INVALID" \notin look.issues /\ HeadStale(look.head)
  THEN {"HEAD_NOT_ACTIVATABLE"} ELSE {}

Issues == look.issues \cup HeadIssues

Verdict ==
  IF look.busy \/ lock # None THEN "busy"
  ELSE IF look.changed        THEN "changed"
  ELSE IF Issues # {}         THEN "issues"
  ELSE IF ~look.found         THEN "missing"
  ELSE IF look.verifying      THEN "valid"
  ELSE "structureOnly"

Concludes ==
  /\ look' = NoLook
  /\ seen' = NothingSeen
  /\ overtaken' = FALSE
  /\ touched' = FALSE
  /\ UNCHANGED <<vars, litter>>

(* The lock is looked for again and, with the answer, the verdict falls.   *)
Reports == Looking("reporting") /\ Concludes

(* What cannot be compared counts as changed or, with a lock, as busy.     *)
ComparisonFails == look.pc \in {"comparing", "comparingJournal"} /\ Concludes

Diagnoses ==
  \/ Looks \/ LooksForLock \/ Lists \/ LooksForJournal \/ StatsJournal \/ ReadsJournal \/ ReadFails
  \/ ComparesDirectory \/ ComparesJournal \/ ComparisonFails \/ Reports

(***************************************************************************)
(* The commits beside it.                                                  *)
(***************************************************************************)
(* A commit that ends before its rename may leave the temporary file.      *)
MayLitter ==
  \E w \in Writers :
    /\ step[w] \in {"read", "staged"} /\ Admits(w)
    /\ step'[w] \in {"idle", "failed"}

Reading == look.pc \in {"locking", "listing", "finding", "statting", "reading", "comparing"}

Compared == look.pc \in {"comparingJournal", "reporting"} /\ ~look.busy /\ ~look.changed

(* Notices at least the changes that leave another directory behind.       *)
Commits ==
  /\ Next
  /\ litter' \in IF MayLitter THEN {litter, TRUE} ELSE {litter}
  /\ touched' = (Reading /\ (touched \/ <<journal, lock, litter>>' # <<journal, lock, litter>>))
  /\ overtaken' = (Compared /\ (overtaken \/ (lock = None /\ lock' # None)))
  /\ UNCHANGED <<look, seen>>

ReadersNext == Commits \/ Diagnoses

ReadersSpec == ReadersInit /\ [][ReadersNext]_allVars

(***************************************************************************)
(* Properties.                                                             *)
(***************************************************************************)
(* What load() would now offer of a journal with this head.                *)
Activatable(head) == head # None /\ Verifies(head, head, now)

(* A diagnosis that reports neither a commit nor a change tells the truth  *)
(* about the files as they were when it compared their stats, though it    *)
(* read them piece by piece without the lock: "valid" is a journal whose   *)
(* head can be activated, at the time of the report, whatever the clock    *)
(* did since it was read, "missing" is a path with nothing at it, a        *)
(* temporary file or a stale head is one that was there, and no commit,    *)
(* complete or not, leaves an invalid order (diagnoseSnapshotJournal: "an  *)
(* atomic replacement can otherwise resemble corruption", "Freshness       *)
(* follows all asynchronous filesystem observations").  And the files are  *)
(* still so, unless a call failed or a commit took the lock after the      *)
(* comparison: one at work before it does not go unnoticed.                *)
DiagnosisTruthful ==
  Looking("reporting") /\ Verdict \notin {"busy", "changed"} =>
    /\ Verdict = "valid" => Activatable(seen.head) /\ ~seen.litter
    /\ Verdict = "structureOnly" => seen.head # None /\ ~seen.litter
    /\ Verdict = "missing" => seen.head = None /\ ~seen.litter
    /\ "TEMPORARY_FILES" \in Issues => seen.litter
    /\ "HEAD_NOT_ACTIVATABLE" \in Issues => seen.head # None /\ ~Activatable(seen.head)
    /\ {"JOURNAL_INVALID", "HISTORY_ORDER_INVALID"} \cap Issues = {}
    /\ \/ overtaken \/ "READ_FAILED" \in Issues
       \/ seen = Present

JournalDiagnosisSound == LookTypeOK /\ DiagnosisTruthful
==============================================================================
