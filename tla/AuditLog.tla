------------------------------- MODULE AuditLog -------------------------------
(***************************************************************************)
(* What a chained audit sink promises, whatever its files: one log that    *)
(* only grows, in which every confirmed write has a record of its own and  *)
(* no write has more than one.  A write that was rejected may still be     *)
(* accepted, then or later.                                                *)
(***************************************************************************)
EXTENDS Integers, Sequences, FiniteSets, SequencesExt

CONSTANTS
  Events,  (* redacted audit events                                        *)
  Groups   (* the groups of events a producer may write at once            *)

VARIABLES
  log,        (* accepted events, oldest first                             *)
  submitted,  (* how often each event was handed to a sink                 *)
  confirmed   (* how often each event's write was confirmed                *)

Occurrences(s, e) == Cardinality({i \in 1..Len(s) : s[i] = e})

Plus(count, group) == [e \in Events |-> count[e] + Occurrences(group, e)]

LogInit ==
  /\ log = <<>>
  /\ submitted = [e \in Events |-> 0]
  /\ confirmed = [e \in Events |-> 0]

SubmitGroup ==
  /\ \E group \in Groups : submitted' = Plus(submitted, group)
  /\ UNCHANGED <<log, confirmed>>

AcceptSome ==
  /\ IsStrictPrefix(log, log')
  /\ \A e \in Events : Occurrences(log', e) <= submitted[e]
  /\ UNCHANGED <<submitted, confirmed>>

ConfirmGroup ==
  /\ \E group \in Groups : confirmed' = Plus(confirmed, group)
  /\ \A e \in Events : confirmed'[e] <= Occurrences(log, e)
  /\ UNCHANGED <<log, submitted>>

LogNext == SubmitGroup \/ AcceptSome \/ ConfirmGroup

LogSpec == LogInit /\ [][LogNext]_<<log, submitted, confirmed>>
==============================================================================
