---------------------------- MODULE MCAuditReaders ----------------------------
(***************************************************************************)
(* A small instance of AuditReaders: groups that need two chunks, that     *)
(* need a new segment, and one with a record that is too large.            *)
(***************************************************************************)
EXTENDS AuditReaders

CONSTANTS w1, w2, a, b, huge

Sizes == [e \in Events |-> CASE e = a -> 2 [] e = b -> 3 [] e = huge -> 5]

OldHistory == <<b>>

MixedGroups == {<<a, b>>, <<b, a, a>>, <<a, huge>>}
==============================================================================
