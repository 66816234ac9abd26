---------------------------- MODULE MCLocalProvider ----------------------------
(***************************************************************************)
(* A small instance of LocalProvider: a signed snapshot, which may be      *)
(* delivered again at once or after other contents, and unsigned contents. *)
(***************************************************************************)
EXTENDS LocalProvider

CONSTANTS on, off, e1, e2

Signed == [snapshot |-> on, expiresAt |-> 1]

SignedOnly == {Signed}
================================================================================
