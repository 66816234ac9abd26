----------------------------- MODULE SnapshotStore -----------------------------
(***************************************************************************)
(* createFileSnapshotStore: commits of several processes to one journal    *)
(* path on a POSIX file system, each step of a commit being a system call  *)
(* that other processes, failures and crashes may come between.            *)
(*                                                                         *)
(* The journal is the sequence of its artifacts, newest first; the empty   *)
(* sequence is the missing file.  The lock is the sibling .lock file,      *)
(* which holds the identity of the commit that created it.  The temporary  *)
(* file has a random name nobody else opens and is flushed before the      *)
(* rename, so it shows only as the step "staged".  Sizes are left out: how *)
(* much history fits is a choice, and so is a system call that fails.      *)
(*                                                                         *)
(* The operator follows the documented procedure and removes a lock only   *)
(* when the commit that created it is no longer running.  A commit that    *)
(* finds the lock taken, or captures oversized bytes, fails at once and    *)
(* changes nothing.                                                        *)
(***************************************************************************)
EXTENDS SignedSnapshots, Sequences

CONSTANTS
  Writers,      (* commits that may be running, in any process            *)
  MaxHistory,   (* FileSnapshotStoreOptions.maxHistory                    *)
  MaxTime       (* bound of the wall clock                                *)

ASSUME StoreAssumption ==
  /\ MaxHistory \in Nat \ {0}
  /\ MaxTime \in Nat
  /\ None \notin Writers

VARIABLES
  journal,      (* what a reader of the path finds                        *)
  flushed,      (* the journal whose directory entry was flushed last     *)
  lock,         (* the commit that created the lock file, or None         *)
  step,         (* step[w]: how far commit w is                           *)
  verified,     (* verified[w]: the artifact commit w was given           *)
  previous,     (* previous[w]: the journal commit w read                 *)
  now,          (* the wall clock                                         *)
  acknowledged  (* artifacts whose commit returned (history variable)     *)

commitVars == <<step, verified, previous>>
vars == <<journal, flushed, lock, commitVars, now, acknowledged>>

Steps == {"idle", "locked", "read", "staged", "renamed", "done", "failed"}

Journals == {entries \in Seq(Artifacts) : Len(entries) <= MaxHistory}

TypeOK ==
  /\ journal \in Journals
  /\ flushed \in Journals
  /\ lock \in Writers \cup {None}
  /\ step \in [Writers -> Steps]
  /\ verified \in [Writers -> Artifacts \cup {None}]
  /\ previous \in [Writers -> Journals]
  /\ now \in 0..MaxTime
  /\ acknowledged \in SUBSET Artifacts

Init ==
  /\ journal = <<>>
  /\ flushed = <<>>
  /\ lock = None
  /\ step = [w \in Writers |-> "idle"]
  /\ verified = [w \in Writers |-> None]
  /\ previous = [w \in Writers |-> <<>>]
  /\ now = 0
  /\ acknowledged = {}

(* The head supplies the replay floor, fresh or not.                       *)
FloorOf(entries) == IF entries = <<>> THEN None ELSE entries[1]

Precedes(older, newer) == newer.seq > older.seq /\ newer.issuedAt >= older.issuedAt

Ordered(entries) ==
  \A i, j \in DOMAIN entries : i < j => Precedes(entries[j], entries[i])

(* authenticate: the head must verify historically; entries that do not    *)
(* are skipped, and the others must be in order.                           *)
Authentic(entries) ==
  entries # <<>> =>
    /\ Historic(entries[1], now)
    /\ \A i, j \in DOMAIN entries :
         i < j /\ Historic(entries[i], now) /\ Historic(entries[j], now)
           => Precedes(entries[j], entries[i])

AdmitsFresh(w) ==                         \* variant: no continuity with the head
  Authentic(previous[w]) /\ Verifies(verified[w], None, now)

Admits(w) ==
  Authentic(previous[w]) /\ Verifies(verified[w], FloorOf(previous[w]), now)

(* The new head and as much of the old journal as the bounds leave room    *)
(* for, oldest entries dropped first.                                      *)
Appended(a, entries, n) ==                \* variant: oldest entries first
  [i \in 1..n |-> IF i = n THEN a ELSE entries[i]]

Prepended(a, entries, n) == [i \in 1..n |-> IF i = 1 THEN a ELSE entries[i - 1]]

NewestFirst(a, entries) ==
  {Prepended(a, entries, n) :
     n \in {k \in 1..MaxHistory : k <= Len(entries) + 1}}

Goes(w, s) == step' = [step EXCEPT ![w] = s]

Ends(w) ==
  /\ Goes(w, "idle")
  /\ verified' = [verified EXCEPT ![w] = None]
  /\ previous' = [previous EXCEPT ![w] = <<>>]

LockIsFree == lock = None

Opens(w, a) ==
  /\ step[w] = "idle"
  /\ LockIsFree
  /\ lock' = w
  /\ Goes(w, "locked")
  /\ verified' = [verified EXCEPT ![w] = a]
  /\ UNCHANGED <<journal, flushed, previous, now, acknowledged>>

(* Without the identity of its own lock file a commit may not remove it.   *)
StatFails(w) ==
  /\ step[w] = "locked"
  /\ Ends(w)
  /\ UNCHANGED <<journal, flushed, lock, now, acknowledged>>

Reads(w) ==
  /\ step[w] = "locked"
  /\ Goes(w, "read")
  /\ previous' = [previous EXCEPT ![w] = journal]
  /\ UNCHANGED <<journal, flushed, lock, verified, now, acknowledged>>

Refuses(w) ==
  /\ step[w] = "read"
  /\ ~Admits(w)
  /\ Goes(w, "failed")
  /\ UNCHANGED <<journal, flushed, lock, verified, previous, now, acknowledged>>

(* An artifact that already is the head is acknowledged as it stands.      *)
Repeats(w) ==
  /\ step[w] = "read"
  /\ Admits(w)
  /\ verified[w] = FloorOf(previous[w])
  /\ Goes(w, "done")
  /\ UNCHANGED <<journal, flushed, lock, verified, previous, now, acknowledged>>

Stages(w) ==
  /\ step[w] = "read"
  /\ Admits(w)
  /\ verified[w] # FloorOf(previous[w])
  /\ Goes(w, "staged")
  /\ UNCHANGED <<journal, flushed, lock, verified, previous, now, acknowledged>>

Renames(w) ==
  /\ step[w] = "staged"
  /\ journal' \in NewestFirst(verified[w], previous[w])
  /\ Goes(w, "renamed")
  /\ UNCHANGED <<flushed, lock, verified, previous, now, acknowledged>>

FlushesDirectory(w) ==
  /\ step[w] = "renamed"
  /\ flushed' = journal
  /\ Goes(w, "done")
  /\ UNCHANGED <<journal, lock, verified, previous, now, acknowledged>>

(* A system call fails, before or after the rename.                        *)
MayFail == {"locked", "read", "staged", "renamed", "done"}

Fails(w) ==
  /\ step[w] \in MayFail
  /\ Goes(w, "failed")
  /\ UNCHANGED <<journal, flushed, lock, verified, previous, now, acknowledged>>

AcknowledgesAlways(w) ==                  \* variant: cleanup swallows the failure
  acknowledged' = acknowledged \cup {verified[w]}

Acknowledges(w) ==
  acknowledged' = IF step[w] = "done" THEN acknowledged \cup {verified[w]} ELSE acknowledged

(* Only the lock file this commit created is removed.                      *)
Releases(w) ==
  /\ step[w] \in {"done", "failed"}
  /\ lock' = IF lock = w THEN None ELSE lock
  /\ Acknowledges(w)
  /\ Ends(w)
  /\ UNCHANGED <<journal, flushed, now>>

(* The lock file stays behind when its removal fails or the process dies.  *)
Abandons(w) ==
  /\ step[w] # "idle"
  /\ Ends(w)
  /\ UNCHANGED <<journal, flushed, lock, now, acknowledged>>

OperatorRemovesLock ==
  /\ lock # None
  /\ step[lock] = "idle"
  /\ lock' = None
  /\ UNCHANGED <<journal, flushed, commitVars, now, acknowledged>>

ClockMoves ==
  /\ now' \in 0..MaxTime
  /\ UNCHANGED <<journal, flushed, lock, commitVars, acknowledged>>

CommitStep(w) ==
  \/ StatFails(w) \/ Reads(w) \/ Refuses(w) \/ Repeats(w) \/ Stages(w)
  \/ Renames(w) \/ FlushesDirectory(w) \/ Fails(w) \/ Releases(w) \/ Abandons(w)

Next ==
  \/ \E w \in Writers : CommitStep(w) \/ \E a \in Artifacts : Opens(w, a)
  \/ OperatorRemovesLock
  \/ ClockMoves

Spec == Init /\ [][Next]_vars

(***************************************************************************)
(* Properties.                                                             *)
(***************************************************************************)

(* Between opening the lock and settling, a commit is alone, so that the   *)
(* journal it read is still the journal it replaces: crashes, failed       *)
(* removals and the operator never let a second one in.                    *)
OneWriter ==
  \A w \in Writers : step[w] # "idle" =>
    /\ lock = w
    /\ step[w] \in {"read", "staged"} => previous[w] = journal

(* History stays in the order authenticate() insists on, so no sequence of *)
(* commits can produce a journal that the next load or commit rejects.     *)
JournalOrdered == Ordered(journal)

(* Commits exclude each other, and the journal one leaves is a journal the *)
(* next one reads (commit, authenticate, boundedSnapshotJournal).          *)
StoreSound ==
  /\ TypeOK
  /\ OneWriter
  /\ JournalOrdered

(* What a commit returned for is never lost to a crash or to other         *)
(* commits: the journal's head continues it.                               *)
AcknowledgedKept ==
  \A a \in acknowledged : journal # <<>> /\ Continues(journal[1], a)

(* The store implements the register: seen through its head, every step of *)
(* every commit either accepts a continuing artifact or changes nothing.   *)
Register == INSTANCE AcceptedSnapshot WITH head <- FloorOf(journal)

ImplementsRegister == Register!RegisterSpec

(* docs/library/snapshot-recovery.md: the parent directory is flushed on   *)
(* POSIX.  If every commit that returns did so, what it returned for would *)
(* be behind a flushed rename.                                             *)
AcknowledgedFlushed ==
  \A a \in acknowledged : flushed # <<>> /\ Continues(flushed[1], a)
==============================================================================
