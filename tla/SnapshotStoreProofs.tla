-------------------------- MODULE SnapshotStoreProofs --------------------------
(***************************************************************************)
(* Proofs about SnapshotStore, for any number of commits, any artifacts    *)
(* and any bounds: the journal stays ordered, commits exclude each other,  *)
(* what was acknowledged is kept, and the store implements the register of *)
(* AcceptedSnapshot.                                                       *)
(***************************************************************************)
EXTENDS SnapshotJournalReaders, SequenceTheorems, TLAPS

(* The replay rule orders artifacts: it allows the accepted one again, and *)
(* what continues a continuation continues the first.                      *)
LEMMA ContinuesReflexive ==
  \A a \in Artifacts : Continues(a, a)
PROOF BY ArtifactAssumption DEF Continues

(* What continues a continuation continues the first.                      *)
LEMMA ContinuesTransitive ==
  ASSUME NEW a \in Artifacts, NEW b \in Artifacts, NEW c \in Artifacts,
         Continues(a, b), Continues(b, c)
  PROVE  Continues(a, c)
PROOF BY ArtifactAssumption DEF Continues

(* A journal is a sequence whose length its domain tells.                  *)
LEMMA JournalIsSequence ==
  ASSUME NEW entries \in Journals
  PROVE  /\ entries \in Seq(Artifacts)
         /\ Len(entries) \in 0..MaxHistory
         /\ DOMAIN entries = 1..Len(entries)
         /\ entries = <<>> <=> Len(entries) = 0
PROOF
<1>1. entries \in Seq(Artifacts) /\ Len(entries) <= MaxHistory
  BY DEF Journals
<1>2. Len(entries) \in Nat /\ DOMAIN entries = 1..Len(entries)
  BY <1>1, LenProperties
<1> QED BY <1>1, <1>2, EmptySeq, StoreAssumption

(* What a commit stages is a journal again: the new artifact, then a       *)
(* prefix of the journal it read.                                          *)
LEMMA StagedJournal ==
  ASSUME NEW a \in Artifacts, NEW entries \in Journals,
         NEW result \in NewestFirst(a, entries)
  PROVE  /\ result \in Journals
         /\ result # <<>>
         /\ result[1] = a
         /\ \A i \in DOMAIN result :
              i # 1 => i - 1 \in DOMAIN entries /\ result[i] = entries[i - 1]
PROOF
<1>1. PICK n \in 1..MaxHistory : n <= Len(entries) + 1 /\ result = Prepended(a, entries, n)
  BY DEF NewestFirst
<1>2. /\ entries \in Seq(Artifacts)
      /\ Len(entries) \in 0..MaxHistory
      /\ DOMAIN entries = 1..Len(entries)
  BY JournalIsSequence
<1>3. result = [i \in 1..n |-> IF i = 1 THEN a ELSE entries[i - 1]]
  BY <1>1 DEF Prepended
<1>4. DOMAIN result = 1..n /\ 1 \in 1..n
  BY <1>1, <1>3, StoreAssumption
<1>5. \A i \in 1..n : i # 1 => i - 1 \in DOMAIN entries /\ result[i] = entries[i - 1]
  BY <1>1, <1>2, <1>3, StoreAssumption
<1>6. result \in [1..n -> Artifacts]
  <2>1. \A i \in 1..n : entries[i - 1] \in Artifacts \/ i = 1
    BY <1>2, <1>5, ElementOfSeq
  <2> QED BY <2>1, <1>3
<1>7. result \in Seq(Artifacts) /\ Len(result) = n
  <2>1. n \in Nat
    BY <1>1, StoreAssumption
  <2>2. result \in Seq(Artifacts)
    BY <1>6, <2>1, SeqDef
  <2> QED BY <2>1, <2>2, <1>4, LenProperties
<1>8. result \in Journals /\ result # <<>>
  BY <1>1, <1>7, EmptySeq, StoreAssumption DEF Journals
<1> QED BY <1>3, <1>4, <1>5, <1>8

(***************************************************************************)
(* The inductive invariant.  A commit under way knows its artifact, is     *)
(* alone, and is ahead of the journal until it has become its head.        *)
(***************************************************************************)
CommitsKnown ==
  \A w \in Writers : step[w] # "idle" => verified[w] \in Artifacts

CommitsAhead ==
  \A w \in Writers :
    /\ step[w] = "staged" =>
         /\ verified[w] # FloorOf(journal)
         /\ Continues(verified[w], FloorOf(journal))
    /\ step[w] \in {"renamed", "done"} =>
         /\ journal # <<>>
         /\ journal[1] = verified[w]

Typed == TypeOK /\ CommitsKnown

StoreInv ==
  /\ Typed
  /\ OneWriter
  /\ CommitsAhead
  /\ JournalOrdered
  /\ AcknowledgedKept

(* Typed holds in every state.                                             *)
LEMMA TypedInvariant == Spec => []Typed
PROOF
<1>1. Init => Typed
  <2>1. <<>> \in Journals
    BY EmptySeq, StoreAssumption DEF Journals
  <2> QED BY <2>1, StoreAssumption DEF Init, Typed, TypeOK, CommitsKnown, Steps
<1>2. Typed /\ [Next]_vars => Typed'
  <2> SUFFICES ASSUME Typed, [Next]_vars PROVE Typed'
    OBVIOUS
  <2> USE DEF Typed, TypeOK, CommitsKnown, Goes, Steps
  <2>1. ASSUME NEW w \in Writers, CommitStep(w) PROVE Typed'
    <3>1. <<>> \in Journals
      BY EmptySeq, StoreAssumption DEF Journals
    <3>2. CASE StatFails(w) BY <3>1, <3>2 DEF StatFails, Ends
    <3>3. CASE Reads(w) BY <3>3 DEF Reads
    <3>4. CASE Refuses(w) BY <3>4 DEF Refuses
    <3>5. CASE Repeats(w) BY <3>5 DEF Repeats
    <3>6. CASE Stages(w) BY <3>6 DEF Stages
    <3>7. CASE Renames(w) BY <3>7, StagedJournal DEF Renames
    <3>8. CASE FlushesDirectory(w) BY <3>8 DEF FlushesDirectory
    <3>9. CASE Fails(w) BY <3>9 DEF Fails, MayFail
    <3>10. CASE Releases(w) BY <3>1, <3>10 DEF Releases, Ends, Acknowledges
    <3>11. CASE Abandons(w) BY <3>1, <3>11 DEF Abandons, Ends
    <3> QED BY <2>1, <3>2, <3>3, <3>4, <3>5, <3>6, <3>7, <3>8, <3>9, <3>10, <3>11 DEF CommitStep
  <2>2. ASSUME NEW w \in Writers, NEW a \in Artifacts, Opens(w, a) PROVE Typed'
    BY <2>2 DEF Opens
  <2>3. CASE OperatorRemovesLock BY <2>3 DEF OperatorRemovesLock, commitVars
  <2>4. CASE ClockMoves BY <2>4 DEF ClockMoves, commitVars
  <2>5. CASE UNCHANGED vars BY <2>5 DEF vars, commitVars
  <2> QED BY <2>1, <2>2, <2>3, <2>4, <2>5 DEF Next
<1> QED BY <1>1, <1>2, PTL DEF Spec

(* Every reachable state is a state of the program: in particular the      *)
(* bound of the history is never exceeded.                                 *)
THEOREM StoreTypeCorrect == Spec => []TypeOK
PROOF
<1>1. Typed => TypeOK
  BY DEF Typed
<1> QED BY <1>1, TypedInvariant, PTL

(***************************************************************************)
(* A rename puts a continuing artifact in front of an ordered journal.     *)
(***************************************************************************)
(* An admitted artifact over an ordered journal gives an ordered one.      *)
LEMMA RenameKeepsOrder ==
  ASSUME NEW a \in Artifacts, NEW entries \in Journals, Ordered(entries),
         Continues(a, FloorOf(entries)), a # FloorOf(entries),
         NEW result \in NewestFirst(a, entries)
  PROVE  Ordered(result)
PROOF
<1>1. /\ entries \in Seq(Artifacts)
      /\ Len(entries) \in Nat
      /\ DOMAIN entries = 1..Len(entries)
      /\ entries = <<>> <=> Len(entries) = 0
  BY JournalIsSequence, StoreAssumption
<1>2. /\ result[1] = a
      /\ \A i \in DOMAIN result : i # 1 => i - 1 \in DOMAIN entries /\ result[i] = entries[i - 1]
      /\ DOMAIN result = 1..Len(result)
      /\ Len(result) \in Nat
  BY StagedJournal, JournalIsSequence, StoreAssumption
<1>3. ASSUME NEW k \in DOMAIN entries PROVE Precedes(entries[k], a)
  <2>1. entries[k] \in Artifacts /\ entries[1] \in Artifacts
    BY <1>1, <1>3, ElementOfSeq
  <2>2. entries # <<>> /\ 1 \in DOMAIN entries
    BY <1>1, <1>3
  <2>3. Precedes(entries[1], a)
    BY <2>1, <2>2, ArtifactAssumption DEF Continues, FloorOf, Precedes
  <2>4. CASE k = 1
    BY <2>3, <2>4
  <2>5. CASE k # 1
    <3>1. Precedes(entries[k], entries[1])
      BY <1>1, <1>3, <2>2, <2>5 DEF Ordered
    <3> QED BY <2>1, <2>3, <3>1, ArtifactAssumption DEF Precedes
  <2> QED BY <2>4, <2>5
<1>4. ASSUME NEW i \in DOMAIN result, NEW j \in DOMAIN result, i < j
      PROVE  Precedes(result[j], result[i])
  <2>1. j # 1 /\ j - 1 \in DOMAIN entries /\ result[j] = entries[j - 1]
    BY <1>2, <1>4
  <2>2. CASE i = 1
    BY <1>2, <1>3, <2>1, <2>2
  <2>3. CASE i # 1
    <3>1. i - 1 \in DOMAIN entries /\ result[i] = entries[i - 1] /\ i - 1 < j - 1
      BY <1>2, <1>4, <2>3
    <3> QED BY <2>1, <3>1 DEF Ordered
  <2> QED BY <2>2, <2>3
<1> QED BY <1>4 DEF Ordered

(***************************************************************************)
(* The steps of one commit preserve the invariant; only the rename changes *)
(* the journal and only a release acknowledges.                            *)
(***************************************************************************)
(* One step of a commit keeps the invariant.                               *)
LEMMA CommitPreserves ==
  ASSUME StoreInv, Typed', NEW w \in Writers, CommitStep(w)
  PROVE  StoreInv'
PROOF
<1> USE DEF Goes
<1> DEFINE Quiet == journal' = journal /\ acknowledged' = acknowledged
<1>0. TypeOK /\ CommitsKnown /\ OneWriter /\ CommitsAhead /\ JournalOrdered /\ AcknowledgedKept
  BY DEF StoreInv, Typed
<1>1. ASSUME Quiet PROVE JournalOrdered' /\ AcknowledgedKept'
  BY <1>0, <1>1 DEF JournalOrdered, AcknowledgedKept, Ordered, Precedes, Continues
<1>2. ASSUME Quiet, lock' = lock, verified' = verified, previous' = previous,
             NEW s \in {"done", "failed"}, step' = [step EXCEPT ![w] = s], step[w] # "idle",
             s = "done" => journal # <<>> /\ journal[1] = verified[w]
      PROVE  OneWriter' /\ CommitsAhead'
  BY <1>0, <1>2 DEF TypeOK, OneWriter, CommitsAhead, FloorOf, Continues
<1>3. CASE StatFails(w) \/ Abandons(w)
  <2>1. OneWriter' /\ CommitsAhead' /\ Quiet
    BY <1>0, <1>3 DEF StatFails, Abandons, Ends, TypeOK, OneWriter, CommitsAhead, FloorOf, Continues
  <2> QED BY <1>1, <2>1 DEF StoreInv
<1>4. CASE Reads(w)
  <2>1. OneWriter' /\ CommitsAhead' /\ Quiet
    BY <1>0, <1>4 DEF Reads, TypeOK, OneWriter, CommitsAhead, FloorOf, Continues
  <2> QED BY <1>1, <2>1 DEF StoreInv
<1>5. CASE Refuses(w)
  <2>1. OneWriter' /\ CommitsAhead' /\ Quiet
    BY <1>2, <1>5 DEF Refuses
  <2> QED BY <1>1, <2>1 DEF StoreInv
<1>6. CASE Repeats(w)
  <2>1. journal # <<>> /\ journal[1] = verified[w]
    BY <1>0, <1>6, ArtifactAssumption DEF Repeats, OneWriter, FloorOf, CommitsKnown
  <2>2. OneWriter' /\ CommitsAhead' /\ Quiet
    BY <1>2, <1>6, <2>1 DEF Repeats
  <2> QED BY <1>1, <2>2 DEF StoreInv
<1>7. CASE Stages(w)
  <2>1. previous[w] = journal /\ Continues(verified[w], FloorOf(journal)) /\ verified[w] # FloorOf(journal)
    BY <1>0, <1>7 DEF Stages, OneWriter, Admits, Verifies
  <2>2. OneWriter' /\ CommitsAhead' /\ Quiet
    BY <1>0, <1>7, <2>1 DEF Stages, TypeOK, OneWriter, CommitsAhead, FloorOf, Continues
  <2> QED BY <1>1, <2>2 DEF StoreInv
<1>8. CASE Renames(w)
  <2>1. /\ previous[w] = journal /\ lock = w
        /\ verified[w] # FloorOf(journal)
        /\ Continues(verified[w], FloorOf(journal))
        /\ journal' \in NewestFirst(verified[w], journal)
        /\ verified[w] \in Artifacts /\ journal \in Journals
    BY <1>0, <1>8 DEF Renames, OneWriter, CommitsAhead, CommitsKnown, TypeOK
  <2>2. journal' # <<>> /\ journal'[1] = verified[w]
    BY <2>1, StagedJournal
  <2>3. \A v \in Writers : v # w => step[v] = "idle"
    BY <1>0, <2>1 DEF OneWriter
  <2>4. OneWriter' /\ CommitsAhead'
    BY <1>0, <1>8, <2>2, <2>3 DEF Renames, TypeOK, OneWriter, CommitsAhead
  <2>5. JournalOrdered'
    <3>1. Ordered(journal')
      BY <1>0, <2>1, RenameKeepsOrder DEF JournalOrdered
    <3> QED BY <3>1 DEF JournalOrdered, Ordered, Precedes
  <2>6. AcknowledgedKept'
    <3>1. ASSUME NEW a \in acknowledged PROVE Continues(verified[w], a)
      <4>1. journal # <<>> /\ Continues(journal[1], a) /\ a \in Artifacts
        BY <1>0, <3>1 DEF AcknowledgedKept, TypeOK
      <4>2. journal[1] \in Artifacts
        BY <2>1, <4>1, JournalIsSequence, ElementOfSeq, StoreAssumption
      <4>3. Continues(verified[w], journal[1])
        BY <2>1, <4>1 DEF FloorOf
      <4> QED BY <2>1, <4>1, <4>2, <4>3, ContinuesTransitive
    <3> QED BY <1>8, <2>2, <3>1 DEF Renames, AcknowledgedKept, Continues
  <2> QED BY <2>4, <2>5, <2>6 DEF StoreInv
<1>9. CASE FlushesDirectory(w)
  <2>1. OneWriter' /\ CommitsAhead' /\ Quiet
    BY <1>0, <1>2, <1>9 DEF FlushesDirectory, CommitsAhead
  <2> QED BY <1>1, <2>1 DEF StoreInv
<1>10. CASE Fails(w)
  <2>1. OneWriter' /\ CommitsAhead' /\ Quiet
    BY <1>2, <1>10 DEF Fails, MayFail
  <2> QED BY <1>1, <2>1 DEF StoreInv
<1>11. CASE Releases(w)
  <2>1. OneWriter' /\ CommitsAhead' /\ journal' = journal
    BY <1>0, <1>11, StoreAssumption
       DEF Releases, Ends, TypeOK, OneWriter, CommitsAhead, FloorOf, Continues
  <2>2. JournalOrdered'
    BY <1>0, <2>1 DEF JournalOrdered, Ordered, Precedes
  <2>3. step[w] = "done" => journal # <<>> /\ journal[1] = verified[w] /\ verified[w] \in Artifacts
    BY <1>0 DEF CommitsAhead, CommitsKnown
  <2>4. AcknowledgedKept'
    BY <1>0, <1>11, <2>1, <2>3, ContinuesReflexive
       DEF Releases, Acknowledges, AcknowledgedKept, Continues
  <2> QED BY <2>1, <2>2, <2>4 DEF StoreInv
<1> QED BY <1>3, <1>4, <1>5, <1>6, <1>7, <1>8, <1>9, <1>10, <1>11 DEF CommitStep

(* Opening needs the lock file to be absent, so every other commit is idle. *)
LEMMA OpenPreserves ==
  ASSUME StoreInv, Typed', NEW w \in Writers, NEW a \in Artifacts, Opens(w, a)
  PROVE  StoreInv'
PROOF
<1>0. TypeOK /\ OneWriter /\ CommitsAhead /\ JournalOrdered /\ AcknowledgedKept
  BY DEF StoreInv, Typed
<1>1. \A v \in Writers : step[v] = "idle"
  BY <1>0, StoreAssumption DEF Opens, LockIsFree, OneWriter
<1>2. OneWriter' /\ CommitsAhead'
  BY <1>0, <1>1 DEF Opens, Goes, TypeOK, OneWriter, CommitsAhead
<1>3. JournalOrdered' /\ AcknowledgedKept'
  BY <1>0 DEF Opens, JournalOrdered, AcknowledgedKept, Ordered, Precedes, Continues
<1> QED BY <1>2, <1>3 DEF StoreInv

(* StoreInv holds in every state.                                          *)
LEMMA StoreInvariant == Spec => []StoreInv
PROOF
<1>1. Init => Typed
  <2>1. <<>> \in Journals
    BY EmptySeq, StoreAssumption DEF Journals
  <2> QED BY <2>1, StoreAssumption DEF Init, Typed, TypeOK, CommitsKnown, Steps
<1>2. Init /\ Typed => StoreInv
  BY DEF Init, StoreInv, OneWriter, CommitsAhead, JournalOrdered, Ordered, AcknowledgedKept
<1>3. StoreInv /\ Typed' /\ [Next]_vars => StoreInv'
  <2> SUFFICES ASSUME StoreInv, Typed', [Next]_vars PROVE StoreInv'
    OBVIOUS
  <2>1. ASSUME NEW w \in Writers, CommitStep(w) PROVE StoreInv'
    BY <2>1, CommitPreserves
  <2>2. ASSUME NEW w \in Writers, NEW a \in Artifacts, Opens(w, a) PROVE StoreInv'
    BY <2>2, OpenPreserves
  <2>3. CASE OperatorRemovesLock
    <3>1. OneWriter' /\ CommitsAhead' /\ JournalOrdered' /\ AcknowledgedKept'
      BY <2>3 DEF StoreInv, Typed, TypeOK, OperatorRemovesLock, commitVars, OneWriter, CommitsAhead,
                  JournalOrdered, AcknowledgedKept, Ordered, Precedes, Continues, FloorOf
    <3> QED BY <3>1 DEF StoreInv
  <2>4. CASE ClockMoves \/ UNCHANGED vars
    <3>1. OneWriter' /\ CommitsAhead' /\ JournalOrdered' /\ AcknowledgedKept'
      BY <2>4 DEF StoreInv, ClockMoves, vars, commitVars, OneWriter, CommitsAhead,
                  JournalOrdered, AcknowledgedKept, Ordered, Precedes, Continues, FloorOf
    <3> QED BY <3>1 DEF StoreInv
  <2> QED BY <2>1, <2>2, <2>3, <2>4 DEF Next
<1> QED BY <1>1, <1>2, <1>3, TypedInvariant, PTL DEF Spec

(* However many commits crash, fail or leave their lock behind, no two are *)
(* ever between lock and release, and none works from an outdated journal. *)
THEOREM CommitsExclusive == Spec => []OneWriter
PROOF
<1>1. StoreInv => OneWriter
  BY DEF StoreInv
<1> QED BY <1>1, StoreInvariant, PTL

(* No sequence of commits leads to a journal that authenticate() rejects   *)
(* for its order.                                                          *)
THEOREM JournalStaysOrdered == Spec => []JournalOrdered
PROOF
<1>1. StoreInv => JournalOrdered
  BY DEF StoreInv
<1> QED BY <1>1, StoreInvariant, PTL

(* The store's types, exclusion and order together, as the runs check them.*)
THEOREM StoreIsSound == Spec => []StoreSound
PROOF
<1>1. TypeOK /\ OneWriter /\ JournalOrdered => StoreSound
  BY DEF StoreSound
<1> QED BY <1>1, StoreTypeCorrect, CommitsExclusive, JournalStaysOrdered, PTL

(* What a commit returned for stays behind every later head.               *)
THEOREM AcknowledgmentsKept == Spec => []AcknowledgedKept
PROOF
<1>1. StoreInv => AcknowledgedKept
  BY DEF StoreInv
<1> QED BY <1>1, StoreInvariant, PTL

(* The file store implements the register: through its head, every step of *)
(* every commit accepts a continuing artifact or changes nothing.          *)
THEOREM StoreImplementsRegister == Spec => ImplementsRegister
PROOF
<1>1. Init => Register!RegisterInit
  BY DEF Init, Register!RegisterInit, FloorOf
<1>2. StoreInv /\ [Next]_vars => [Register!RegisterNext]_(FloorOf(journal))
  <2> SUFFICES ASSUME StoreInv, [Next]_vars
               PROVE  Register!RegisterNext \/ FloorOf(journal)' = FloorOf(journal)
    OBVIOUS
  <2>1. ASSUME NEW w \in Writers, Renames(w) PROVE Register!RegisterNext
    <3>1. /\ previous[w] = journal
          /\ Continues(verified[w], FloorOf(journal))
          /\ verified[w] \in Artifacts /\ journal \in Journals
          /\ journal' \in NewestFirst(verified[w], journal)
      BY <2>1 DEF Renames, StoreInv, Typed, TypeOK, OneWriter, CommitsAhead, CommitsKnown
    <3>2. FloorOf(journal)' = verified[w]
      BY <3>1, StagedJournal DEF FloorOf
    <3>3. Register!Accept(verified[w])
      BY <3>1, <3>2 DEF Register!Accept, Continues, Register!Continues
    <3> QED BY <3>1, <3>3 DEF Register!RegisterNext
  <2>2. ASSUME NEW w \in Writers, CommitStep(w), ~Renames(w) PROVE journal' = journal
    BY <2>2 DEF CommitStep, StatFails, Reads, Refuses, Repeats, Stages, FlushesDirectory, Fails,
                Releases, Abandons
  <2>3. ASSUME NEW w \in Writers, NEW a \in Artifacts, Opens(w, a) PROVE journal' = journal
    BY <2>3 DEF Opens
  <2>4. CASE OperatorRemovesLock \/ ClockMoves \/ UNCHANGED vars
    BY <2>4 DEF OperatorRemovesLock, ClockMoves, vars, FloorOf
  <2> QED BY <2>1, <2>2, <2>3, <2>4 DEF Next, FloorOf
<1> QED BY <1>1, <1>2, StoreInvariant, PTL DEF Spec, ImplementsRegister, Register!RegisterSpec

(***************************************************************************)
(* A diagnosis beside the commits.  The steps of both are steps of the     *)
(* store, or change nothing of it.                                         *)
(***************************************************************************)
(* A step of a diagnosis leaves the store as it is.                        *)
LEMMA DiagnosesOnlyLook ==
  ASSUME Diagnoses
  PROVE  UNCHANGED <<vars, litter>>
PROOF BY DEF Diagnoses, Looks, LooksForLock, Lists, LooksForJournal, StatsJournal, ReadsJournal, ReadFails,
             ComparesDirectory, ComparesJournal, ComparisonFails, Reports, Concludes, Observes

(* The store's invariant holds beside diagnoses.                           *)
LEMMA StoreBesideReaders == ReadersSpec => []StoreInv
PROOF
<1>1. ReadersInit => Init
  BY DEF ReadersInit
<1>2. [ReadersNext]_allVars => [Next]_vars
  BY DiagnosesOnlyLook DEF ReadersNext, Commits, allVars
<1>3. ReadersSpec => Spec
  BY <1>1, <1>2, PTL DEF ReadersSpec, Spec
<1> QED BY <1>3, StoreInvariant, PTL

(***************************************************************************)
(* What a diagnosis has written down is true of the directory as long as   *)
(* its stat is the one it began with, and of what it has compared.         *)
(***************************************************************************)
(* What is in the journal never shows as an issue of its order.            *)
IssuesPossible ==
  look.issues \subseteq {"READ_FAILED", "TEMPORARY_FILES", "HEAD_UNVERIFIABLE", "HISTORY_UNVERIFIABLE"}

ReadPcs == {"comparing", "comparingJournal", "reporting"}

(* Nothing was noted before the directory was listed and the journal found.*)
NothingNoted ==
  /\ look.pc \in {"idle", "locking", "listing"} => look.issues = {}
  /\ look.pc \in {"idle", "locking", "listing", "finding"} => look.head = None /\ ~look.found
  /\ look.pc \in {"statting", "reading"} => look.found /\ look.head = None
  /\ look.pc \notin ReadPcs => ~look.verifying

(* A journal that was found is still there: no commit removes it.          *)
JournalPresent == look.found => journal # <<>>

(* The diagnosis saw no lock and no call has failed.                       *)
Undisturbed == ~look.busy /\ "READ_FAILED" \notin look.issues

(* It got through the directory's entries, and looked for the journal.     *)
Listed == look.pc \in {"finding", "statting", "reading"} \/ (look.pc \in ReadPcs /\ Undisturbed)

Found == look.pc \in {"statting", "reading"} \/ (look.pc \in ReadPcs /\ Undisturbed)

(* The notes are true of files with this head and litter.                  *)
Noted(files) ==
  /\ "TEMPORARY_FILES" \in look.issues => files.litter
  /\ Listed /\ files.litter => "TEMPORARY_FILES" \in look.issues
  /\ Found /\ ~look.found => files.head = None
  /\ look.found => files.head # None
  /\ look.head # None => look.found /\ look.head = files.head
  /\ look.pc \in ReadPcs /\ Undisturbed /\ look.found /\ look.verifying =>
       look.head # None \/ "HEAD_UNVERIFIABLE" \in look.issues

(* Nobody has taken the lock since it was looked for.                      *)
LockFree == look.pc \notin {"idle", "locking"} /\ Undisturbed => lock = None

TrueSoFar == Reading /\ ~touched => Noted(Present) /\ LockFree

TrueWhenCompared ==
  Compared => /\ Noted(seen)
              /\ overtaken \/ (Undisturbed => seen = Present /\ lock = None)

LookInv ==
  /\ LookTypeOK
  /\ IssuesPossible
  /\ NothingNoted
  /\ JournalPresent
  /\ TrueSoFar
  /\ TrueWhenCompared

(* What a reader learns from the first entry.                              *)
LEMMA HeadOfJournal ==
  ASSUME StoreInv
  PROVE  /\ FloorOf(journal) \in Artifacts \cup {None}
         /\ FloorOf(journal) = None <=> journal = <<>>
         /\ journal # <<>> => FloorOf(journal) = journal[1]
PROOF
<1>1. journal # <<>> => journal[1] \in Artifacts
  BY JournalIsSequence, ElementOfSeq, StoreAssumption DEF StoreInv, Typed, TypeOK
<1> QED BY <1>1, ArtifactAssumption DEF FloorOf

(* The entries that verify are in the order commits keep.                  *)
LEMMA NoDisorder ==
  ASSUME NEW entries \in Journals, Ordered(entries), entries # <<>>
  PROVE  LET result == Inspection(entries)
         IN  /\ result.issues \subseteq {"HEAD_UNVERIFIABLE", "HISTORY_UNVERIFIABLE"}
             /\ result.head \in Artifacts \cup {None}
             /\ result.head # None => result.head = entries[1]
             /\ result.head # None \/ "HEAD_UNVERIFIABLE" \in result.issues
PROOF
<1>1. entries[1] \in Artifacts
  BY JournalIsSequence, ElementOfSeq, StoreAssumption
<1>2. HistoryIssues(entries) \subseteq {"HISTORY_UNVERIFIABLE"}
  BY DEF HistoryIssues, Ordered
<1>3. CASE Historic(entries[1], now)
  <2>1. Inspection(entries) = [head |-> entries[1], issues |-> HistoryIssues(entries)]
    BY <1>3 DEF Inspection
  <2> QED BY <1>1, <1>2, <2>1, ArtifactAssumption
<1>4. CASE ~Historic(entries[1], now)
  <2>1. Inspection(entries) = [head |-> None, issues |-> {"HEAD_UNVERIFIABLE"}]
    BY <1>4 DEF Inspection
  <2> QED BY <2>1
<1> QED BY <1>3, <1>4

(* What a step may leave as it is.                                         *)
Unread == UNCHANGED <<journal, lock, litter, touched, seen, overtaken>>

(* The first steps note what they see.                                     *)
LEMMA ReadingNotes ==
  ASSUME StoreInv, LookInv,
         \/ Looks \/ LooksForLock \/ Lists \/ LooksForJournal \/ StatsJournal \/ ReadFails
  PROVE  LookInv'
PROOF
<1>1. UNCHANGED <<journal, lock, litter>>
  BY DiagnosesOnlyLook DEF Diagnoses, vars
<1>2. /\ FloorOf(journal) = None <=> journal = <<>>
      /\ FloorOf(journal)' = FloorOf(journal)
  BY <1>1, HeadOfJournal DEF FloorOf
<1>3. LookTypeOK /\ IssuesPossible /\ NothingNoted /\ JournalPresent /\ TrueSoFar
  BY DEF LookInv
<1>4. CASE Looks
  <2>1. /\ touched' = FALSE /\ UNCHANGED <<seen, overtaken>>
        /\ look' \in [pc : {"locking"}, verifying : {FALSE}, found : {FALSE}, statted : BOOLEAN,
                      busy : {FALSE}, changed : BOOLEAN, head : {None}, issues : {{}}]
    BY <1>4 DEF Looks, NoLook
  <2>2. LookTypeOK'
    BY <1>1, <1>3, <2>1 DEF LookTypeOK, IssueCodes
  <2>3. /\ look'.pc = "locking" /\ look'.found = FALSE /\ look'.head = None /\ look'.issues = {}
        /\ ~look'.verifying
    BY <2>1
  <2> QED BY <2>2, <2>3 DEF LookInv, IssuesPossible, NothingNoted, JournalPresent, TrueSoFar,
              TrueWhenCompared, Noted, Listed, Found, Undisturbed, LockFree, ReadPcs, Reading, Compared, Present
<1>5. CASE LooksForLock
  <2>1. look.pc = "locking" /\ Unread
    BY <1>1, <1>5 DEF LooksForLock, Looking, Observes, Unread
  <2>2. \/ lock = None /\ look' = [look EXCEPT !.pc = "listing"]
        \/ look' = [[look EXCEPT !.pc = "comparing", !.issues = @ \cup {}] EXCEPT !.busy = TRUE]
    BY <1>5 DEF LooksForLock, Observes, Compares
  <2>3. LookTypeOK'
    BY <1>3, <2>1, <2>2 DEF LookTypeOK, IssueCodes, Unread
  <2>4. /\ look'.issues = look.issues /\ look'.head = look.head /\ look'.found = look.found
        /\ look'.verifying = look.verifying
        /\ \/ lock = None /\ look'.pc = "listing"
           \/ look'.pc = "comparing" /\ look'.busy = TRUE
    <3>1. look.issues \cup {} = look.issues
      OBVIOUS
    <3> QED BY <1>3, <2>2, <3>1 DEF LookTypeOK
  <2>5. look.issues = {} /\ look.head = None /\ ~look.found
    BY <1>3, <2>1 DEF NothingNoted
  <2> QED BY <2>1, <2>3, <2>4, <2>5, <1>2 DEF LookInv, IssuesPossible, NothingNoted, JournalPresent, TrueSoFar,
              TrueWhenCompared, Noted, Listed, Found, Undisturbed, LockFree, ReadPcs, Reading, Compared, Present, Unread
<1>6. CASE Lists
  <2> DEFINE issues == IF litter THEN {"TEMPORARY_FILES"} ELSE {}
  <2>1. look.pc = "listing" /\ Unread /\ look' = [look EXCEPT !.pc = "finding", !.issues = issues]
    BY <1>1, <1>6 DEF Lists, Looking, Observes, Unread
  <2>2. issues \subseteq {"TEMPORARY_FILES"} /\ ("TEMPORARY_FILES" \in issues <=> litter)
    OBVIOUS
  <2> HIDE DEF issues
  <2>3. LookTypeOK'
    BY <1>3, <2>1, <2>2 DEF LookTypeOK, IssueCodes, Unread
  <2>4. /\ look'.issues = issues /\ look'.head = look.head /\ look'.found = look.found
        /\ look'.busy = look.busy /\ look'.pc = "finding" /\ look'.verifying = look.verifying
    BY <1>3, <2>1 DEF LookTypeOK
  <2>5. look.head = None /\ ~look.found /\ look.issues = {}
    BY <1>3, <2>1 DEF NothingNoted
  <2>6. ~touched => LockFree
    BY <1>3, <2>1 DEF TrueSoFar, Reading
  <2> QED BY <2>1, <2>2, <2>3, <2>4, <2>5, <2>6 DEF LookInv, IssuesPossible, NothingNoted, JournalPresent, TrueSoFar,
              TrueWhenCompared, Noted, Listed, Found, Undisturbed, LockFree, ReadPcs, Reading, Compared, Present, Unread
<1>7. CASE LooksForJournal
  <2>1. look.pc = "finding" /\ Unread
    BY <1>1, <1>7 DEF LooksForJournal, Looking, Observes, Unread
  <2>2. \/ journal = <<>> /\ look' = [look EXCEPT !.pc = "comparing", !.issues = @ \cup {}]
        \/ journal # <<>> /\ look' = [look EXCEPT !.pc = "statting", !.found = TRUE]
    BY <1>7 DEF LooksForJournal, Observes, Compares
  <2>3. LookTypeOK'
    BY <1>3, <2>1, <2>2 DEF LookTypeOK, IssueCodes, Unread
  <2>4. /\ look'.issues = look.issues /\ look'.head = look.head /\ look'.busy = look.busy
        /\ look'.verifying = look.verifying
        /\ \/ journal = <<>> /\ look'.pc = "comparing" /\ look'.found = look.found
           \/ journal # <<>> /\ look'.pc = "statting" /\ look'.found = TRUE
    <3>1. look.issues \cup {} = look.issues
      OBVIOUS
    <3> QED BY <1>3, <2>2, <3>1 DEF LookTypeOK
  <2>5. look.head = None /\ ~look.found
    BY <1>3, <2>1 DEF NothingNoted
  <2>6. ~touched => LockFree /\ ("TEMPORARY_FILES" \in look.issues <=> litter)
    BY <1>3, <2>1 DEF TrueSoFar, Reading, Noted, Listed, Present
  <2> QED BY <1>2, <1>3, <2>1, <2>3, <2>4, <2>5, <2>6 DEF LookInv, IssuesPossible, NothingNoted, JournalPresent, TrueSoFar,
              TrueWhenCompared, Noted, Listed, Found, Undisturbed, LockFree, ReadPcs, Reading, Compared, Present, Unread
<1>8. CASE StatsJournal
  <2>1. look.pc = "statting" /\ Unread /\ look' = [look EXCEPT !.pc = "reading", !.statted = TRUE]
    BY <1>1, <1>8 DEF StatsJournal, Looking, Observes, Unread
  <2>2. LookTypeOK'
    BY <1>3, <2>1 DEF LookTypeOK, Unread
  <2>3. /\ look'.issues = look.issues /\ look'.head = look.head /\ look'.busy = look.busy
        /\ look'.pc = "reading" /\ look'.found = look.found /\ look'.verifying = look.verifying
    BY <1>3, <2>1 DEF LookTypeOK
  <2> QED BY <1>2, <1>3, <2>1, <2>2, <2>3 DEF LookInv, IssuesPossible, NothingNoted, JournalPresent, TrueSoFar,
              TrueWhenCompared, Noted, Listed, Found, Undisturbed, LockFree, ReadPcs, Reading, Compared, Present, Unread
<1>9. CASE ReadFails
  <2>1. /\ look.pc \in {"locking", "listing", "finding", "statting", "reading"} /\ Unread
        /\ look' = [look EXCEPT !.pc = "comparing", !.issues = @ \cup {"READ_FAILED"}]
    BY <1>1, <1>9 DEF ReadFails, Observes, Compares, Unread
  <2>2. LookTypeOK'
    BY <1>3, <2>1 DEF LookTypeOK, IssueCodes, Unread
  <2>3. /\ look'.pc = "comparing" /\ look'.found = look.found /\ look'.head = look.head
        /\ look'.issues = look.issues \cup {"READ_FAILED"}
    BY <1>3, <2>1 DEF LookTypeOK
  <2> QED BY <1>2, <1>3, <2>1, <2>2, <2>3 DEF LookInv, IssuesPossible, NothingNoted, JournalPresent, TrueSoFar,
              TrueWhenCompared, Noted, Listed, Found, Undisturbed, LockFree, ReadPcs, Reading, Compared, Present, Unread
<1> QED BY <1>4, <1>5, <1>6, <1>7, <1>8, <1>9

(* So does the inspection of the journal.                                  *)
LEMMA InspectionNotes ==
  ASSUME StoreInv, LookInv, ReadsJournal
  PROVE  LookInv'
PROOF
<1> DEFINE found == Inspection(journal)
<1>1. look.pc = "reading" /\ Unread
  BY DiagnosesOnlyLook DEF Diagnoses, vars, ReadsJournal, Looking, Observes, Unread
<1>2. \/ look' = [look EXCEPT !.pc = "comparing", !.issues = @ \cup {}]
      \/ look' = [[look EXCEPT !.pc = "comparing", !.issues = @ \cup found.issues]
                  EXCEPT !.verifying = TRUE, !.head = found.head]
  BY DEF ReadsJournal, Observes, Compares
<1>3. /\ LookTypeOK /\ IssuesPossible /\ NothingNoted /\ JournalPresent /\ TrueSoFar
      /\ journal \in Journals /\ Ordered(journal)
  BY DEF LookInv, StoreInv, Typed, TypeOK, JournalOrdered
<1>4. journal # <<>> /\ look.found /\ look.head = None
  BY <1>1, <1>3 DEF JournalPresent, NothingNoted
<1>5. /\ found.issues \subseteq {"HEAD_UNVERIFIABLE", "HISTORY_UNVERIFIABLE"}
      /\ found.head \in Artifacts \cup {None}
      /\ found.head # None => found.head = journal[1]
      /\ found.head # None \/ "HEAD_UNVERIFIABLE" \in found.issues
  BY <1>3, <1>4, NoDisorder
<1> HIDE DEF found
<1>6. LookTypeOK'
  <2>1. found.issues \subseteq IssueCodes
    BY <1>5 DEF IssueCodes
  <2>2. CASE look' = [look EXCEPT !.pc = "comparing", !.issues = @ \cup {}]
    BY <1>1, <1>3, <2>2 DEF LookTypeOK, Unread
  <2>3. CASE look' = [[look EXCEPT !.pc = "comparing", !.issues = @ \cup found.issues]
                      EXCEPT !.verifying = TRUE, !.head = found.head]
    <3>1. /\ TRUE \in BOOLEAN /\ look.issues \cup found.issues \in SUBSET IssueCodes
          /\ found.head \in Artifacts \cup {None}
      BY <1>3, <1>5, <2>1 DEF LookTypeOK
    <3> QED BY <1>1, <1>3, <2>3, <3>1 DEF LookTypeOK, Unread
  <2> QED BY <1>2, <2>2, <2>3
<1>7. /\ look'.pc = "comparing" /\ look'.found = look.found /\ look'.busy = look.busy
      /\ \/ ~look'.verifying /\ look'.issues = look.issues /\ look'.head = look.head
         \/ look'.issues = look.issues \cup found.issues /\ look'.head = found.head
  <2>1. look.issues \cup {} = look.issues
    OBVIOUS
  <2>2. ~look.verifying
    BY <1>1, <1>3 DEF NothingNoted, ReadPcs
  <2> QED BY <1>2, <1>3, <2>1, <2>2 DEF LookTypeOK
<1>8. ~touched => LockFree /\ ("TEMPORARY_FILES" \in look.issues <=> litter)
  BY <1>1, <1>3 DEF TrueSoFar, Reading, Noted, Listed, Present
<1>9. /\ "TEMPORARY_FILES" \in look'.issues <=> "TEMPORARY_FILES" \in look.issues
      /\ "READ_FAILED" \in look'.issues <=> "READ_FAILED" \in look.issues
  BY <1>5, <1>7
<1>10. FloorOf(journal) = journal[1] /\ FloorOf(journal) # None /\ FloorOf(journal)' = FloorOf(journal)
  BY <1>1, <1>4, HeadOfJournal DEF FloorOf, Unread
<1>11. IssuesPossible' /\ NothingNoted' /\ JournalPresent' /\ TrueWhenCompared'
  BY <1>1, <1>3, <1>4, <1>5, <1>7
     DEF IssuesPossible, NothingNoted, JournalPresent, TrueWhenCompared, Compared, ReadPcs, Unread
<1>12. look'.verifying => look'.head # None \/ "HEAD_UNVERIFIABLE" \in look'.issues
  BY <1>5, <1>7
<1>13. TrueSoFar'
  BY <1>1, <1>4, <1>5, <1>7, <1>8, <1>9, <1>10, <1>12
     DEF TrueSoFar, Noted, Listed, Found, Undisturbed, LockFree, ReadPcs, Reading, Present, Unread
<1> QED BY <1>6, <1>11, <1>13 DEF LookInv

(* The comparisons tell whether the notes are still true.                  *)
LEMMA ComparisonKeeps ==
  ASSUME StoreInv, LookInv, ComparesDirectory \/ ComparesJournal
  PROVE  LookInv'
PROOF
<1>1. UNCHANGED <<journal, lock, litter>>
  BY DiagnosesOnlyLook DEF Diagnoses, vars
<1>2. /\ FloorOf(journal) = None <=> journal = <<>>
      /\ FloorOf(journal) \in Artifacts \cup {None}
      /\ Present' = Present
  BY <1>1, HeadOfJournal DEF FloorOf, Present
<1>3. LookTypeOK /\ IssuesPossible /\ NothingNoted /\ JournalPresent /\ TrueSoFar /\ TrueWhenCompared
  BY DEF LookInv
<1>4. CASE ComparesDirectory
  <2>1. /\ look.pc = "comparing" /\ touched' = FALSE /\ overtaken' = overtaken
        /\ seen' = IF touched \/ look.busy THEN NothingSeen ELSE Present
        /\ \E pc \in {"comparingJournal", "reporting"} :
             \/ touched /\ look' = [[look EXCEPT !.pc = pc]
                                    EXCEPT !.changed = TRUE, !.head = None, !.issues = {}]
             \/ ~touched /\ look' = [look EXCEPT !.pc = pc]
    BY <1>4 DEF ComparesDirectory, Looking, InDoubt
  <2>2. LookTypeOK'
    BY <1>1, <1>2, <1>3, <2>1 DEF LookTypeOK, Present, NothingSeen
  <2>3. /\ look'.pc \in {"comparingJournal", "reporting"}
        /\ look'.found = look.found /\ look'.verifying = look.verifying /\ look'.busy = look.busy
        /\ \/ look'.changed /\ look'.issues = {}
           \/ ~touched /\ look'.issues = look.issues /\ look'.head = look.head
    BY <1>3, <2>1 DEF LookTypeOK
  <2>4. ~touched => Noted(Present) /\ LockFree
    BY <1>3, <2>1 DEF TrueSoFar, Reading
  <2>5. IssuesPossible' /\ NothingNoted' /\ JournalPresent' /\ TrueSoFar'
    BY <1>1, <1>3, <2>3 DEF IssuesPossible, NothingNoted, JournalPresent, TrueSoFar, Reading, ReadPcs
  <2>6. TrueWhenCompared'
    <3> SUFFICES ASSUME Compared'
                 PROVE  Noted(seen)' /\ (overtaken' \/ (Undisturbed' => seen' = Present' /\ lock' = None))
      BY DEF TrueWhenCompared
    <3>1. /\ ~touched /\ ~look'.busy /\ seen' = Present
          /\ look'.issues = look.issues /\ look'.head = look.head
      BY <2>1, <2>3 DEF Compared
    <3>2. Noted(seen)'
      BY <2>1, <2>3, <2>4, <3>1 DEF Noted, Listed, Found, Undisturbed, ReadPcs
    <3>3. Undisturbed' => lock' = None
      BY <1>1, <2>1, <2>3, <2>4, <3>1 DEF LockFree, Undisturbed
    <3> QED BY <1>2, <3>1, <3>2, <3>3
  <2> QED BY <2>2, <2>5, <2>6 DEF LookInv
<1>5. CASE ComparesJournal
  <2>1. /\ look.pc = "comparingJournal" /\ Unread
        /\ \/ look' = [[look EXCEPT !.pc = "reporting"] EXCEPT !.changed = TRUE, !.head = None, !.issues = {}]
           \/ look' = [look EXCEPT !.pc = "reporting"]
    BY <1>1, <1>5 DEF ComparesJournal, Looking, InDoubt, Observes, Unread
  <2>2. LookTypeOK'
    BY <1>3, <2>1 DEF LookTypeOK, Unread
  <2>3. /\ look'.pc = "reporting"
        /\ look'.found = look.found /\ look'.verifying = look.verifying /\ look'.busy = look.busy
        /\ \/ look'.changed /\ look'.issues = {}
           \/ look'.changed = look.changed /\ look'.issues = look.issues /\ look'.head = look.head
    BY <1>3, <2>1 DEF LookTypeOK
  <2>4. IssuesPossible' /\ NothingNoted' /\ JournalPresent' /\ TrueSoFar'
    BY <1>1, <1>3, <2>3 DEF IssuesPossible, NothingNoted, JournalPresent, TrueSoFar, Reading, ReadPcs
  <2>5. TrueWhenCompared'
    <3> SUFFICES ASSUME Compared'
                 PROVE  Noted(seen)' /\ (overtaken' \/ (Undisturbed' => seen' = Present' /\ lock' = None))
      BY DEF TrueWhenCompared
    <3>1. Compared /\ look'.issues = look.issues /\ look'.head = look.head
      BY <2>1, <2>3 DEF Compared
    <3>2. Noted(seen)'
      BY <1>3, <2>1, <2>3, <3>1 DEF TrueWhenCompared, Noted, Listed, Found, Undisturbed, ReadPcs, Unread
    <3> QED BY <1>2, <1>3, <2>1, <2>3, <3>1, <3>2 DEF TrueWhenCompared, Undisturbed, Unread
  <2> QED BY <2>2, <2>4, <2>5 DEF LookInv
<1> QED BY <1>4, <1>5

(* A report clears the notes.                                              *)
LEMMA ReportsClear ==
  ASSUME StoreInv, LookInv, ComparisonFails \/ Reports
  PROVE  LookInv'
PROOF
<1>1. /\ UNCHANGED <<journal, lock, litter>> /\ look' = NoLook /\ seen' = NothingSeen
      /\ overtaken' = FALSE /\ touched' = FALSE
  BY DEF ComparisonFails, Reports, Concludes, vars
<1>2. /\ LookTypeOK' /\ look'.pc = "idle" /\ look'.found = FALSE /\ look'.head = None
      /\ look'.issues = {} /\ ~look'.verifying
  BY <1>1 DEF LookInv, LookTypeOK, NoLook, NothingSeen
<1> QED BY <1>2 DEF LookInv, IssuesPossible, NothingNoted, JournalPresent, TrueSoFar, TrueWhenCompared,
                    Reading, Compared, ReadPcs

(* The steps of a diagnosis keep its notes true.                           *)
LEMMA DiagnosisNotes ==
  ASSUME StoreInv, LookInv, Diagnoses
  PROVE  LookInv'
PROOF BY ReadingNotes, InspectionNotes, ComparisonKeeps, ReportsClear DEF Diagnoses

(* No commit empties the journal.                                          *)
LEMMA CommitsKeepJournal ==
  ASSUME StoreInv, Next, journal # <<>>
  PROVE  journal' # <<>>
PROOF
<1>1. ASSUME NEW w \in Writers, Renames(w) PROVE journal' # <<>>
  <2>1. /\ verified[w] \in Artifacts /\ previous[w] \in Journals
        /\ journal' \in NewestFirst(verified[w], previous[w])
    BY <1>1 DEF Renames, StoreInv, Typed, TypeOK, CommitsKnown
  <2> QED BY <2>1, StagedJournal
<1>2. ASSUME NEW w \in Writers, CommitStep(w), ~Renames(w) PROVE journal' = journal
  BY <1>2 DEF CommitStep, StatFails, Reads, Refuses, Repeats, Stages, FlushesDirectory, Fails,
              Releases, Abandons
<1> QED BY <1>1, <1>2 DEF Next, Opens, OperatorRemovesLock, ClockMoves

(* Without the lock a commit changes nothing that a diagnosis sees.        *)
LEMMA CommitsNeedLock ==
  ASSUME StoreInv, Commits, lock = None, lock' = None
  PROVE  journal' = journal /\ litter' = litter
PROOF
<1>1. \A w \in Writers : step[w] = "idle"
  BY StoreAssumption DEF StoreInv, OneWriter
<1>2. ~MayLitter
  BY <1>1 DEF MayLitter
<1>3. \A w \in Writers : ~CommitStep(w)
  BY <1>1 DEF CommitStep, StatFails, Reads, Refuses, Repeats, Stages, Renames, FlushesDirectory, Fails,
              MayFail, Releases, Abandons
<1> QED BY <1>2, <1>3 DEF Commits, Next, Opens, OperatorRemovesLock, ClockMoves

(* A commit leaves what was seen as it was, or touches the directory, or,  *)
(* after the comparison, takes the lock.                                   *)
LEMMA CommitsTouch ==
  ASSUME StoreInv, LookInv, Commits
  PROVE  LookInv'
PROOF
<1>1. look' = look /\ seen' = seen /\ litter' \in {litter, TRUE}
  BY DEF Commits
<1>2. Reading /\ ~touched' => ~touched /\ journal' = journal /\ litter' = litter /\ lock' = lock
  BY DEF Commits
<1>3. touched' \in BOOLEAN /\ overtaken' \in BOOLEAN
  BY DEF Commits
<1>4. journal # <<>> => journal' # <<>>
  BY CommitsKeepJournal DEF Commits
<1>5. Compared /\ ~overtaken' => ~overtaken /\ (lock = None => lock' = None)
  BY DEF Commits
<1>6. LookTypeOK' /\ IssuesPossible' /\ NothingNoted' /\ JournalPresent'
  BY <1>1, <1>3, <1>4 DEF LookInv, LookTypeOK, IssuesPossible, NothingNoted, JournalPresent
<1>7. TrueSoFar'
  BY <1>1, <1>2 DEF LookInv, TrueSoFar, Reading, Noted, Listed, Found, Undisturbed, LockFree, Present,
                    FloorOf
<1>8. Noted(seen)' <=> Noted(seen)
  BY <1>1 DEF Noted, Listed, Found, Undisturbed
<1>9. TrueWhenCompared'
  <2> SUFFICES ASSUME Compared'
               PROVE  Noted(seen)' /\ (overtaken' \/ (Undisturbed' => seen' = Present' /\ lock' = None))
    BY DEF TrueWhenCompared
  <2>1. Compared /\ (Undisturbed' <=> Undisturbed)
    BY <1>1 DEF Compared, Undisturbed
  <2>2. Noted(seen) /\ (overtaken \/ (Undisturbed => seen = Present /\ lock = None))
    BY <2>1 DEF LookInv, TrueWhenCompared
  <2>3. ~overtaken' /\ Undisturbed => seen = Present /\ lock = None /\ lock' = None
    BY <1>5, <2>1, <2>2
  <2>4. ~overtaken' /\ Undisturbed => Present' = Present
    BY <2>3, CommitsNeedLock DEF Present, FloorOf
  <2> QED BY <1>1, <1>8, <2>1, <2>2, <2>3, <2>4
<1> QED BY <1>6, <1>7, <1>9 DEF LookInv

(* The notes stay true, whatever commits beside the diagnosis.             *)
LEMMA LookInvariant == ReadersSpec => []LookInv
PROOF
<1>1. ReadersInit => LookInv
  <2> SUFFICES ASSUME ReadersInit PROVE LookInv
    OBVIOUS
  <2>1. /\ LookTypeOK /\ look.pc = "idle" /\ look.found = FALSE /\ look.head = None
        /\ look.issues = {} /\ ~look.verifying
    BY DEF ReadersInit, NoLook, NothingSeen, LookTypeOK
  <2> QED BY <2>1 DEF LookInv, IssuesPossible, NothingNoted, JournalPresent, TrueSoFar,
                      TrueWhenCompared, Reading, Compared, ReadPcs
<1>2. StoreInv /\ LookInv /\ [ReadersNext]_allVars => LookInv'
  <2> SUFFICES ASSUME StoreInv, LookInv, [ReadersNext]_allVars PROVE LookInv'
    OBVIOUS
  <2>1. CASE Commits
    BY <2>1, CommitsTouch
  <2>2. CASE Diagnoses
    BY <2>2, DiagnosisNotes
  <2>3. CASE UNCHANGED allVars
    BY <2>3 DEF allVars, vars, LookInv, LookTypeOK, IssuesPossible, NothingNoted, JournalPresent, TrueSoFar,
                TrueWhenCompared, Reading, Compared, Noted, Listed, Found, Undisturbed, LockFree, Present, FloorOf
  <2> QED BY <2>1, <2>2, <2>3 DEF ReadersNext
<1> QED BY <1>1, <1>2, StoreBesideReaders, PTL DEF ReadersSpec

(* However many commits run beside it, a diagnosis that reports neither a  *)
(* commit nor a change tells the truth about the files as it compared them,*)
(* and only a commit that took the lock after that can have changed them   *)
(* since; it never calls a journal out of order.                           *)
THEOREM JournalDiagnosisIsSound == ReadersSpec => []JournalDiagnosisSound
PROOF
<1>1. StoreInv /\ LookInv => DiagnosisTruthful
  <2> SUFFICES ASSUME StoreInv, LookInv, Looking("reporting"), Verdict \notin {"busy", "changed"}
               PROVE  /\ Verdict = "valid" => Activatable(seen.head) /\ ~seen.litter
                      /\ Verdict = "structureOnly" => seen.head # None /\ ~seen.litter
                      /\ Verdict = "missing" => seen.head = None /\ ~seen.litter
                      /\ "TEMPORARY_FILES" \in Issues => seen.litter
                      /\ "HEAD_NOT_ACTIVATABLE" \in Issues => seen.head # None /\ ~Activatable(seen.head)
                      /\ {"JOURNAL_INVALID", "HISTORY_ORDER_INVALID"} \cap Issues = {}
                      /\ \/ overtaken \/ "READ_FAILED" \in Issues
                         \/ seen = Present
    BY DEF DiagnosisTruthful
  <2>1. ~look.busy /\ ~look.changed /\ look.pc = "reporting"
    BY DEF Verdict, Looking
  <2>2. /\ Noted(seen) /\ IssuesPossible
        /\ overtaken \/ (Undisturbed => seen = Present /\ lock = None)
    BY <2>1 DEF LookInv, TrueWhenCompared, Compared
  <2>3. Issues = look.issues \cup HeadIssues /\ HeadIssues \subseteq {"HEAD_NOT_ACTIVATABLE"}
    BY DEF Issues, HeadIssues
  <2>4. Verdict \in {"valid", "structureOnly", "missing"} => Issues = {}
    BY <2>1 DEF Verdict
  <2>5. Issues = {} => ~seen.litter /\ (look.found <=> seen.head # None)
    <3> SUFFICES ASSUME Issues = {} PROVE ~seen.litter /\ (look.found <=> seen.head # None)
      OBVIOUS
    <3>1. look.issues = {}
      BY <2>3
    <3>2. Listed /\ Found
      BY <2>1, <3>1 DEF Listed, Found, Undisturbed, ReadPcs
    <3>3. seen.litter \in BOOLEAN
      BY DEF LookInv, LookTypeOK
    <3> QED BY <2>2, <3>1, <3>2, <3>3 DEF Noted
  <2>6. /\ Verdict = "valid" => Issues = {} /\ look.found /\ look.verifying
        /\ Verdict = "structureOnly" => Issues = {} /\ look.found
        /\ Verdict = "missing" => Issues = {} /\ ~look.found
    BY <2>1, <2>4 DEF Verdict
  <2>7. Verdict = "valid" => Activatable(seen.head)
    <3> SUFFICES ASSUME Verdict = "valid" PROVE Activatable(seen.head)
      OBVIOUS
    <3>1. look.issues = {} /\ look.found /\ look.verifying
      BY <2>3, <2>6
    <3>2. Undisturbed /\ look.pc \in ReadPcs
      BY <2>1, <3>1 DEF Undisturbed, ReadPcs
    <3>3. look.head # None /\ look.head = seen.head
      BY <2>2, <3>1, <3>2 DEF Noted
    <3>4. ~HeadStale(look.head)
      BY <2>3, <2>6, <3>1, <3>3 DEF HeadIssues
    <3> QED BY <3>3, <3>4 DEF HeadStale, Activatable
  <2>8. "HEAD_NOT_ACTIVATABLE" \in Issues => seen.head # None /\ ~Activatable(seen.head)
    <3> SUFFICES ASSUME "HEAD_NOT_ACTIVATABLE" \in Issues
                 PROVE  seen.head # None /\ ~Activatable(seen.head)
      OBVIOUS
    <3>1. "HEAD_NOT_ACTIVATABLE" \in HeadIssues
      BY <2>2, <2>3 DEF IssuesPossible
    <3>2. look.head # None /\ HeadStale(look.head)
      BY <3>1 DEF HeadIssues
    <3> QED BY <2>2, <3>2 DEF Noted, HeadStale, Activatable
  <2>9. /\ "TEMPORARY_FILES" \in Issues => seen.litter
        /\ {"JOURNAL_INVALID", "HISTORY_ORDER_INVALID"} \cap Issues = {}
        /\ "READ_FAILED" \notin Issues => Undisturbed
    BY <2>1, <2>2, <2>3 DEF Noted, IssuesPossible, Undisturbed
  <2> QED BY <2>2, <2>5, <2>6, <2>7, <2>8, <2>9
<1>2. StoreInv /\ LookInv => JournalDiagnosisSound
  BY <1>1 DEF JournalDiagnosisSound, LookInv
<1> QED BY <1>2, StoreBesideReaders, LookInvariant, PTL
==============================================================================
