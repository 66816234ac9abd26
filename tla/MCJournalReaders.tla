--------------------------- MODULE MCJournalReaders ---------------------------
(***************************************************************************)
(* A small instance of SnapshotJournalReaders, with the artifacts of       *)
(* MCSnapshotRefresher and histories short enough to drop entries.         *)
(***************************************************************************)
EXTENDS SnapshotJournalReaders, TLC

CONSTANTS w1, w2, w3, s1, s2

First     == [tag |-> "first",  seq |-> 1, issuedAt |-> 0, expiresAt |-> 2, snapshot |-> s1]
Second    == [tag |-> "second", seq |-> 2, issuedAt |-> 1, expiresAt |-> 3, snapshot |-> s2]
Equivocal == [tag |-> "equiv",  seq |-> 2, issuedAt |-> 1, expiresAt |-> 3, snapshot |-> s1]
Backdated == [tag |-> "back",   seq |-> 3, issuedAt |-> 0, expiresAt |-> 4, snapshot |-> s2]
Third     == [tag |-> "third",  seq |-> 3, issuedAt |-> 1, expiresAt |-> 4, snapshot |-> s1]

AllSnapshots  == {s1, s2}
FiveArtifacts == {First, Second, Equivocal, Backdated, Third}

(* Commits differ in nothing but their names, and only safety is checked.  *)
CommitsAlike == Permutations(Writers)
==============================================================================
