---------------------------- MODULE MCAuditWriters ----------------------------
(***************************************************************************)
(* A small instance of AuditWriters: two processes, two writes and an      *)
(* export, files of one line, the active one and one of the two rotated    *)
(* ones there from an earlier run.                                         *)
(***************************************************************************)
EXTENDS AuditWriters, TLC

CONSTANTS p1, p2, w1, w2, e1, old1, old2

MCHome == [w \in Calls |-> IF w \in {w1, e1} THEN p1 ELSE p2]

Line(w) == <<[of |-> w, whole |-> TRUE]>>
MCEarlier == (0 :> Line(old2)) @@ (1 :> Line(old1)) @@ (2 :> <<>>)
================================================================================
