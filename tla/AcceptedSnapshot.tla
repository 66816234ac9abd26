--------------------------- MODULE AcceptedSnapshot ---------------------------
(***************************************************************************)
(* What a durable snapshot store promises, whatever its file format: one   *)
(* accepted artifact at a time, replaced only by an artifact that          *)
(* continues it.  SnapshotStore is shown to implement this register;       *)
(* SnapshotRefresher uses it as its environment.                           *)
(***************************************************************************)
EXTENDS SignedSnapshots

VARIABLE head  (* the artifact whose provenance is the durable replay floor *)

RegisterInit == head = None

Accept(a) ==
  /\ Continues(a, head)
  /\ head' = a

RegisterNext == \E a \in Artifacts : Accept(a)

RegisterSpec == RegisterInit /\ [][RegisterNext]_head
==============================================================================
