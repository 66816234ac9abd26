---------------------------- MODULE SignedDelivery ----------------------------
(***************************************************************************)
(* What durable signed delivery promises to an application, across every   *)
(* restart of its process and next to any other writer of the journal:     *)
(*   - the accepted head only ever advances;                               *)
(*   - an artifact is activated only after it was accepted, so a restart   *)
(*     can never lose the floor of something that was already live;        *)
(*   - what is activated never rolls back behind what was activated        *)
(*     before.                                                             *)
(* Nothing is promised about the application's own unsigned updates.       *)
(***************************************************************************)
EXTENDS SignedSnapshots

VARIABLES
  head,       (* the durably accepted artifact, None before the first one *)
  delivered   (* the artifact most recently activated by delivery         *)

DeliveryInit ==
  /\ head = None
  /\ delivered = None

AcceptNewer ==
  /\ head' \in Artifacts
  /\ Continues(head', head)
  /\ UNCHANGED delivered

ActivateAccepted ==
  /\ head # None
  /\ delivered' \in Artifacts
  /\ Continues(head, delivered')
  /\ Continues(delivered', delivered)
  /\ UNCHANGED head

DeliveryNext == AcceptNewer \/ ActivateAccepted

DeliverySpec == DeliveryInit /\ [][DeliveryNext]_<<head, delivered>>
==============================================================================
