-------------------------- MODULE MCSnapshotRefresher --------------------------
(***************************************************************************)
(* Small instances of SnapshotRefresher.  The artifacts are chosen so that *)
(* the interesting cases occur: a successor, two artifacts under one       *)
(* sequence, one with an earlier issuance than its sequence suggests, and  *)
(* different origins of equal contents.                                    *)
(***************************************************************************)
EXTENDS SnapshotRefresher, TLC

CONSTANTS s0, s1, s2   \* flag contents

First      == [tag |-> "first",  seq |-> 1, issuedAt |-> 0, expiresAt |-> 2, snapshot |-> s1]
Second     == [tag |-> "second", seq |-> 2, issuedAt |-> 1, expiresAt |-> 3, snapshot |-> s2]
Equivocal  == [tag |-> "equiv",  seq |-> 2, issuedAt |-> 1, expiresAt |-> 3, snapshot |-> s1]
Backdated  == [tag |-> "back",   seq |-> 3, issuedAt |-> 0, expiresAt |-> 4, snapshot |-> s2]

ThreeArtifacts == {First, Second, Equivocal}
FourArtifacts  == {First, Second, Equivocal, Backdated}
AllSnapshots   == {s0, s1, s2}

UnsignedOnly   == {Unsigned(s0), Unsigned(s1)}
SignedAsWell   == {Unsigned(s0), FromArtifact(Second)}
OneReset       == {Unsigned(s0)}
==============================================================================
