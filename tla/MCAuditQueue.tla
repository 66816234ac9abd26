----------------------------- MODULE MCAuditQueue -----------------------------
(***************************************************************************)
(* A small instance of AuditQueue: the large event fits beside the small   *)
(* one in the queue but not in a group, and not beside the medium one.     *)
(***************************************************************************)
EXTENDS AuditQueue

CONSTANTS small, medium, large, flush1, flush2

Sizes == [w \in Writes |-> CASE w = small -> 1 [] w = medium -> 2 [] w = large -> 3]
===============================================================================
