--------------------------- MODULE SignedSnapshots ---------------------------
(***************************************************************************)
(* Signed snapshot artifacts and the rules by which the verifiers of       *)
(* sources/signed-snapshot.ts and the continuity floor of                  *)
(* sources/snapshot-refresher.ts order and date them.                      *)
(*                                                                         *)
(* An artifact is a record: what the JWS claims say of it (seq, issuedAt,  *)
(* expiresAt), the flag contents it carries (snapshot) and a tag that      *)
(* tells apart tokens whose claims agree.  Equality of artifacts stands    *)
(* for equality of artifactHash, equality of the snapshot field for        *)
(* equality of snapshotHash.  Only artifacts whose framing, signature and  *)
(* audience verify are in Artifacts; everything else a source may return   *)
(* is a body outside that set.                                             *)
(***************************************************************************)
EXTENDS Integers

CONSTANTS
  Snapshots,    (* flag contents, told apart by snapshotHash              *)
  Artifacts,    (* authentic signed artifacts for the expected audience   *)
  None,         (* the absent artifact, provenance or ETag                *)
  MinSequence,  (* SnapshotVerificationOptions.minSequence                *)
  MaxAge,       (* SnapshotVerificationOptions.maxAgeMs                   *)
  MaxLifetime,  (* SnapshotVerificationOptions.maxLifetimeMs              *)
  ClockSkew     (* SnapshotVerificationOptions.clockSkewMs                *)

ASSUME ArtifactAssumption ==
  /\ \A a \in Artifacts :
        /\ a.seq \in Nat
        /\ a.issuedAt \in Nat
        /\ a.expiresAt \in Nat
        /\ a.issuedAt < a.expiresAt
        /\ a.snapshot \in Snapshots
  /\ None \notin Artifacts

ASSUME PolicyAssumption ==
  /\ MinSequence \in Nat
  /\ MaxAge \in Nat \ {0}
  /\ MaxLifetime \in Nat \ {0}
  /\ ClockSkew \in Nat

(***************************************************************************)
(* assertFreshness: the policy of the activation verifier and the weaker   *)
(* one of the historical verifier, which ignores age, expiry and the       *)
(* configured minimum sequence.                                            *)
(***************************************************************************)
Historic(a, now) ==
  /\ a.issuedAt <= now + ClockSkew
  /\ a.expiresAt - a.issuedAt <= MaxLifetime

Fresh(a, now) ==
  /\ Historic(a, now)
  /\ a.seq >= MinSequence
  /\ now < a.expiresAt
  /\ now - a.issuedAt <= MaxAge

(***************************************************************************)
(* The replay rule of verify(content, previous): never a lower sequence,   *)
(* never an earlier issuance, and no second artifact under one sequence.   *)
(***************************************************************************)
Continues(a, previous) ==
  previous # None =>
    /\ a.seq >= previous.seq
    /\ a.issuedAt >= previous.issuedAt
    /\ a.seq = previous.seq => a = previous

Verifies(a, previous, now) ==
  /\ a \in Artifacts
  /\ Fresh(a, now)
  /\ Continues(a, previous)

(***************************************************************************)
(* mergeFloor: two continuity claims conflict when neither artifact        *)
(* continues the other; otherwise the higher sequence is kept.             *)
(***************************************************************************)
Compatible(previous, candidate) ==
  previous # None /\ candidate # None =>
    Continues(candidate, previous) \/ Continues(previous, candidate)

MergeFloor(previous, candidate) ==
  IF candidate # None /\ (previous = None \/ candidate.seq > previous.seq)
  THEN candidate ELSE previous
==============================================================================
