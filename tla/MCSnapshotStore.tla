--------------------------- MODULE MCSnapshotStore ---------------------------
(***************************************************************************)
(* A small instance of SnapshotStore, with the artifacts of                 *)
(* MCSnapshotRefresher.                                                    *)
(***************************************************************************)
EXTENDS SnapshotStore

CONSTANTS w1, w2, s1, s2

First     == [tag |-> "first",  seq |-> 1, issuedAt |-> 0, expiresAt |-> 2, snapshot |-> s1]
Second    == [tag |-> "second", seq |-> 2, issuedAt |-> 1, expiresAt |-> 3, snapshot |-> s2]

AllSnapshots  == {s1, s2}
TwoArtifacts  == {First, Second}
==============================================================================
