--------------------------- MODULE MCManagedProvider ---------------------------
(***************************************************************************)
(* A small instance of ManagedProvider: two reads of two ticks within      *)
(* three, so that the second may lack the time it is given.                *)
(***************************************************************************)
EXTENDS ManagedProvider
================================================================================
