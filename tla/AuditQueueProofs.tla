--------------------------- MODULE AuditQueueProofs ---------------------------
(***************************************************************************)
(* Proofs about AuditQueue, for any calls, sizes and limits: the queue is  *)
(* bounded and its counters are true, every failure is reported once, and  *)
(* events are stored in the order in which they were accepted.             *)
(***************************************************************************)
EXTENDS AuditQueue, SequenceTheorems, FiniteSetTheorems, WellFoundedInduction, TLAPS

(***************************************************************************)
(* The inductive invariant.                                                *)
(***************************************************************************)
(* How many accepted calls the storage is done with.                       *)
Handled == Len(accepted) - Len(group) - Len(waiting)

(* Accepted calls leave the queue in the order they entered it.            *)
InOrder ==
  /\ Handled \in Nat
  /\ \A i \in 1 .. Len(group) : accepted[Handled + i] = group[i]
  /\ \A i \in 1 .. Len(waiting) : accepted[Handled + Len(group) + i] = waiting[i]
  /\ \A i, j \in 1 .. Len(accepted) : accepted[i] = accepted[j] => i = j

(* Where a call is, its progress says.                                     *)
Located ==
  /\ \A i \in 1 .. Len(accepted) : write[accepted[i]] \notin {"none", "dropped", "rejected"}
  /\ \A i \in 1 .. Len(waiting) : write[waiting[i]] = "waiting"
  /\ \A i \in 1 .. Len(group) : write[group[i]] = "storing"

(* Only calls the storage is done with are in it, each after those that    *)
(* were accepted before it.                                                *)
StoredSound ==
  /\ \A i \in 1 .. Len(stored) : \E k \in 1 .. Handled : accepted[k] = stored[i]
  /\ \A i, j \in 1 .. Len(stored) : i < j =>
       \E k, l \in 1 .. Handled : k < l /\ accepted[k] = stored[i] /\ accepted[l] = stored[j]
  /\ \A w \in Writes : write[w] \in {"succeeding", "stored"} => Contains(stored, w)

Reported ==
  /\ FlushReports
  /\ \A f \in Flushes : flush[f].earlier <= Len(accepted)

IInv == QueueBounded /\ InOrder /\ Located /\ StoredSound /\ Reported

(***************************************************************************)
(* Bytes.                                                                  *)
(***************************************************************************)
(* Bytes of no call, and of one call more.                                 *)
LEMMA BytesOfNone == BytesOf({}) = 0
PROOF
<1>1. UNION {{w} \X (1 .. Size[w]) : w \in {}} = {}
  OBVIOUS
<1> QED BY <1>1, FS_EmptySet DEF BytesOf

(* Numbers from 1 on.                                                      *)
LEMMA IntervalCounted ==
  ASSUME NEW n \in Nat
  PROVE  IsFiniteSet(1 .. n) /\ Cardinality(1 .. n) = n
PROOF
<1>1. 1 \in Int /\ n \in Int
  OBVIOUS
<1>2. IsFiniteSet(1 .. n) /\ Cardinality(1 .. n) = IF 1 > n THEN 0 ELSE n - 1 + 1
  BY <1>1, FS_Interval
<1> QED BY <1>2

(* The positions of the bytes of some calls.                               *)
LEMMA PositionsFinite ==
  ASSUME NEW calls \in SUBSET Writes
  PROVE  IsFiniteSet(UNION {{w} \X (1 .. Size[w]) : w \in calls})
PROOF
<1> DEFINE T == {{w} \X (1 .. Size[w]) : w \in calls}
           f == [w \in calls |-> {w} \X (1 .. Size[w])]
<1>1. IsFiniteSet(calls)
  BY QueueAssumption, FS_Subset
<1>2. f \in Surjection(calls, T)
  BY DEF Surjection
<1>3. IsFiniteSet(T)
  <2> HIDE DEF f, T
  <2> QED BY <1>1, <1>2, FS_Surjection
<1>4. ASSUME NEW w \in calls PROVE IsFiniteSet({w} \X (1 .. Size[w]))
  <2>1. Size[w] \in Nat
    BY QueueAssumption
  <2>2. IsFiniteSet({w}) /\ IsFiniteSet(1 .. Size[w])
    BY <2>1, FS_Singleton, IntervalCounted
  <2> QED BY <2>2, FS_Product
<1>5. \A U \in T : IsFiniteSet(U)
  BY <1>4
<1> HIDE DEF T
<1>6. IsFiniteSet(UNION T)
  BY <1>3, <1>5, FS_UNION
<1> QED BY <1>6 DEF T

(* The bytes of one call more.                                             *)
LEMMA BytesOfOneMore ==
  ASSUME NEW calls \in SUBSET Writes, NEW w \in Writes \ calls
  PROVE  /\ BytesOf(calls) \in Nat
         /\ BytesOf(calls \cup {w}) = BytesOf(calls) + Size[w]
PROOF
<1> DEFINE P(S) == UNION {{x} \X (1 .. Size[x]) : x \in S}
           own  == {w} \X (1 .. Size[w])
<1>1. IsFiniteSet(P(calls)) /\ Cardinality(P(calls)) \in Nat
  BY PositionsFinite, FS_CardinalityType
<1>2. IsFiniteSet(own) /\ Cardinality(own) = Size[w]
  <2>1. Size[w] \in Nat
    BY QueueAssumption
  <2>2. /\ IsFiniteSet({w}) /\ IsFiniteSet(1 .. Size[w])
        /\ Cardinality({w}) = 1 /\ Cardinality(1 .. Size[w]) = Size[w]
    BY <2>1, FS_Singleton, IntervalCounted
  <2>3. IsFiniteSet(own) /\ Cardinality(own) = Cardinality({w}) * Cardinality(1 .. Size[w])
    BY <2>2, FS_Product
  <2> QED BY <2>1, <2>2, <2>3
<1>3. P(calls \cup {w}) = P(calls) \cup own
  OBVIOUS
<1>4. P(calls) \cap own = {}
  OBVIOUS
<1>5. Cardinality(P(calls) \cup own) = Cardinality(P(calls)) + Cardinality(own) - Cardinality(P(calls) \cap own)
  <2> HIDE DEF P, own
  <2> QED BY <1>1, <1>2, FS_Union
<1>6. Cardinality(P(calls) \cap own) = 0
  BY <1>4, FS_EmptySet
<1>7. Size[w] \in Nat
  BY QueueAssumption
<1>8. BytesOf(calls) = Cardinality(P(calls)) /\ BytesOf(calls \cup {w}) = Cardinality(P(calls \cup {w}))
  BY DEF BytesOf
<1>9. Cardinality(P(calls \cup {w})) = Cardinality(P(calls)) + Size[w]
  <2>1. Cardinality(P(calls \cup {w})) = Cardinality(P(calls) \cup own)
    BY <1>3
  <2> HIDE DEF P, own
  <2> QED BY <2>1, <1>1, <1>2, <1>5, <1>6, <1>7
<1> HIDE DEF P, own
<1> QED BY <1>1, <1>8, <1>9

(***************************************************************************)
(* Counting.                                                               *)
(***************************************************************************)
(* One pending call more, and one less.                                    *)
LEMMA PendingMore ==
  ASSUME NEW w \in Writes, w \notin Pending, Pending' = Pending \cup {w}
  PROVE  /\ Cardinality(Pending) \in Nat /\ Cardinality(Pending') = Cardinality(Pending) + 1
         /\ BytesOf(Pending) \in Nat /\ BytesOf(Pending') = BytesOf(Pending) + Size[w]
PROOF
<1>1. Pending \in SUBSET Writes /\ IsFiniteSet(Pending)
  BY QueueAssumption, FS_Subset DEF Pending
<1>2. Cardinality(Pending) \in Nat /\ Cardinality(Pending \cup {w}) = Cardinality(Pending) + 1
  BY <1>1, FS_AddElement, FS_CardinalityType
<1>3. BytesOf(Pending) \in Nat /\ BytesOf(Pending \cup {w}) = BytesOf(Pending) + Size[w]
  BY <1>1, BytesOfOneMore
<1> HIDE DEF Pending
<1> QED BY <1>2, <1>3

(* A call that is no longer pending gives back its place and its bytes.    *)
LEMMA PendingLess ==
  ASSUME NEW w \in Writes, w \in Pending, Pending' = Pending \ {w}
  PROVE  /\ Cardinality(Pending') \in Nat /\ Cardinality(Pending) = Cardinality(Pending') + 1
         /\ BytesOf(Pending') \in Nat /\ BytesOf(Pending) = BytesOf(Pending') + Size[w]
PROOF
<1> DEFINE S == Pending \ {w}
<1>1. S \in SUBSET Writes /\ IsFiniteSet(S) /\ w \notin S /\ Pending = S \cup {w}
  BY QueueAssumption, FS_Subset DEF Pending
<1> HIDE DEF S
<1>2. Cardinality(S) \in Nat /\ Cardinality(S \cup {w}) = Cardinality(S) + 1
  BY <1>1, FS_AddElement, FS_CardinalityType
<1>3. BytesOf(S) \in Nat /\ BytesOf(S \cup {w}) = BytesOf(S) + Size[w]
  BY <1>1, BytesOfOneMore
<1>4. Pending' = S
  BY DEF S
<1> QED BY <1>1, <1>2, <1>3, <1>4

(* How many calls have come to some point, when one comes to it.           *)
LEMMA OneReaches ==
  ASSUME NEW T, write \in [Writes -> T], NEW w \in Writes, NEW to \in T, write[w] # to,
         write' = [write EXCEPT ![w] = to]
  PROVE  /\ Cardinality({x \in Writes : write[x] = to}) \in Nat
         /\ Cardinality({x \in Writes : write'[x] = to}) =
              Cardinality({x \in Writes : write[x] = to}) + 1
PROOF
<1> DEFINE S == {x \in Writes : write[x] = to}
<1>1. IsFiniteSet(S) /\ w \notin S
  BY QueueAssumption, FS_Subset
<1>2. {x \in Writes : write'[x] = to} = S \cup {w}
  OBVIOUS
<1> HIDE DEF S
<1>3. Cardinality(S) \in Nat /\ Cardinality(S \cup {w}) = Cardinality(S) + 1
  BY <1>1, FS_AddElement, FS_CardinalityType
<1>4. {x \in Writes : write[x] = to} = S
  BY DEF S
<1> QED BY <1>2, <1>3, <1>4

(***************************************************************************)
(* The size of a group.                                                    *)
(***************************************************************************)
(* A group is not empty, and fits.                                         *)
LEMMA GroupSizeFits ==
  ASSUME waiting \in Seq(Writes), waiting # <<>>
  PROVE  GroupSize \in 1 .. Len(waiting) /\ Fits(GroupSize)
PROOF
<1> DEFINE S == {n \in 1 .. Len(waiting) : Fits(n)}
           T == {Len(waiting) - n : n \in S}
<1>1. Len(waiting) \in Nat /\ Len(waiting) >= 1
  BY EmptySeq, LenProperties
<1>2. 1 \in S
  BY <1>1, QueueAssumption DEF Fits
<1>3. T \subseteq Nat /\ T # {}
  BY <1>1, <1>2
<1>4. \E x \in T : \A y \in T : ~ (<<y, x>> \in OpToRel(<, Nat))
  <2> HIDE DEF T
  <2> QED BY <1>3, NatLessThanWellFounded, WFMin
<1>5. PICK x \in T : \A y \in T : ~(y < x)
  <2> HIDE DEF T
  <2> QED BY <1>3, <1>4 DEF OpToRel
<1>6. PICK n \in S : x = Len(waiting) - n
  OBVIOUS
<1>7. ASSUME NEW m \in S PROVE n >= m
  <2>1. Len(waiting) - m \in T /\ m \in Int /\ n \in Int
    BY <1>6
  <2>2. ~(Len(waiting) - m < Len(waiting) - n)
    <3> HIDE DEF T
    <3> QED BY <1>5, <1>6, <2>1
  <2> QED BY <1>1, <2>1, <2>2
<1> HIDE DEF S
<1>8. GroupSize \in S
  <2>1. GroupSize = CHOOSE m \in S : \A k \in S : m >= k
    BY DEF GroupSize, Max, S
  <2> QED BY <1>6, <1>7, <2>1
<1> QED BY <1>8 DEF S

(***************************************************************************)
(* Steps that leave the queue as it is.                                    *)
(***************************************************************************)
(* The progress a call makes outside the queue.                            *)
Outside == {<<"none", "dropped">>, <<"none", "rejected">>,
            <<"succeeding", "stored">>, <<"failing", "failed">>}

(* A drop, a rejection and an answer disturb neither order nor storage.    *)
LEMMA QueueLeft ==
  ASSUME TypeOK, InOrder, Located, StoredSound, UNCHANGED <<waiting, group, accepted, stored>>,
         UNCHANGED write \/ (\E w \in Writes : \E step \in Outside :
           write[w] = step[1] /\ write' = [write EXCEPT ![w] = step[2]])
  PROVE  InOrder' /\ Located' /\ StoredSound'
PROOF
<1>1. InOrder' /\ UNCHANGED Handled
  BY DEF InOrder, Handled
<1>2. \A i \in 1 .. Len(accepted) : accepted[i] \in Writes
  BY ElementOfSeq DEF TypeOK
<1>3. \A i \in 1 .. Len(waiting) : waiting[i] \in Writes
  BY ElementOfSeq DEF TypeOK
<1>4. \A i \in 1 .. Len(group) : group[i] \in Writes
  BY ElementOfSeq DEF TypeOK
<1>5. CASE UNCHANGED write
  BY <1>1, <1>5 DEF Located, StoredSound, Contains
<1>6. ASSUME NEW w \in Writes, NEW step \in Outside, write[w] = step[1],
             write' = [write EXCEPT ![w] = step[2]]
      PROVE  Located' /\ StoredSound'
  <2>1. \A x \in Writes : write'[x] = IF x = w THEN step[2] ELSE write[x]
    BY <1>6 DEF TypeOK
  <2>2. /\ write[w] \notin {"waiting", "storing"}
        /\ write[w] = "none" \/ step[2] \notin {"none", "dropped", "rejected"}
        /\ step[2] = "stored" => write[w] = "succeeding"
        /\ step[2] # "succeeding"
    BY <1>6 DEF Outside
  <2>3. Located'
    BY <1>2, <1>3, <1>4, <2>1, <2>2 DEF Located
  <2>4. StoredSound'
    BY <1>1, <2>1, <2>2 DEF StoredSound, Contains
  <2> QED BY <2>3, <2>4
<1> QED BY <1>1, <1>5, <1>6

(* Reports do not change when no failure is tracked and no flush returns.  *)
LEMMA ReportsLeft ==
  ASSUME TypeOK, Located, Reported, UNCHANGED <<unreported, causes, told>>, Failed' = Failed,
         accepted' \in Seq(Writes), Len(accepted) <= Len(accepted'),
         \A i \in 1 .. Len(accepted) : accepted'[i] = accepted[i],
         Pending' \cap {accepted[i] : i \in 1 .. Len(accepted)} \subseteq Pending,
         \A f \in Flushes : /\ flush'[f].pc = "settled" => flush[f].pc = "settled"
                            /\ flush'[f].earlier = flush[f].earlier \/
                               (flush'[f].pc # "settled" /\ flush'[f].earlier = Len(accepted))
  PROVE  Reported'
PROOF
<1>1. /\ Len(accepted) \in Nat /\ Len(accepted') \in Nat
      /\ \A f \in Flushes : flush[f].earlier \in Nat /\ flush[f].earlier <= Len(accepted)
  BY LenProperties DEF TypeOK, FlushCalls, Reported
<1>2. ASSUME NEW f \in Flushes, flush'[f].pc = "settled", NEW i \in 1 .. flush'[f].earlier
      PROVE  accepted'[i] \notin Pending' /\ ~Contains(causes', accepted'[i])
  <2>1. i \in 1 .. flush[f].earlier /\ i \in 1 .. Len(accepted) /\ flush[f].pc = "settled"
    BY <1>1, <1>2
  <2>2. accepted'[i] = accepted[i] /\ accepted[i] \notin Pending /\ ~Contains(causes, accepted[i])
    BY <2>1 DEF Reported, FlushReports
  <2> QED BY <2>1, <2>2 DEF Contains
<1>3. ASSUME NEW f \in Flushes PROVE flush'[f].earlier <= Len(accepted')
  BY <1>1
<1> HIDE DEF Pending, Failed
<1>4. /\ Cardinality(Failed') = unreported' + told' /\ Len(causes') = Min({unreported', MaxCauses})
      /\ ToSet(causes') \subseteq Failed'
  BY DEF Reported, FlushReports
<1> QED BY <1>2, <1>3, <1>4 DEF Reported, FlushReports

(***************************************************************************)
(* The steps.                                                              *)
(***************************************************************************)
Overflows(w, to) ==
  /\ write[w] = "none" /\ to \in {"dropped", "rejected"}
  /\ to = "dropped" => w \notin Confirmed
  /\ write' = [write EXCEPT ![w] = to]
  /\ droppedWrites'  = IF to = "dropped" THEN droppedWrites + 1 ELSE droppedWrites
  /\ rejectedWrites' = IF to = "rejected" THEN rejectedWrites + 1 ELSE rejectedWrites
  /\ UNCHANGED <<waiting, group, queuedWrites, pendingBytes, report, flushing, history>>

(* A call is dropped or rejected.                                          *)
LEMMA OverflowKeeps ==
  ASSUME IInv, NEW w \in Writes, NEW to, Overflows(w, to)
  PROVE  IInv'
PROOF
<1> USE DEF Overflows, report, flushing, history
<1>1. TypeOK /\ Accounting /\ WithinBounds /\ InOrder /\ Located /\ StoredSound /\ Reported
  BY DEF IInv, QueueBounded
<1>2. \A x \in Writes : write'[x] = IF x = w THEN to ELSE write[x]
  BY <1>1 DEF TypeOK
<1>a. write \in [Writes -> {"none", "waiting", "storing", "succeeding", "failing",
                           "stored", "failed", "dropped", "rejected"}] /\ Accounting
  BY <1>1 DEF TypeOK
<1>3. Pending' = Pending /\ Failed' = Failed
  BY <1>2 DEF Pending, Failed
<1>4. InOrder' /\ Located' /\ StoredSound'
  <2>1. \E step \in Outside : write[w] = step[1] /\ write' = [write EXCEPT ![w] = step[2]]
    BY DEF Outside
  <2> QED BY <1>1, <2>1, QueueLeft
<1>5. Reported'
  <2>1. /\ UNCHANGED <<unreported, causes, told, accepted, flush>>
        /\ accepted \in Seq(Writes) /\ Len(accepted) \in Nat
    BY <1>1, LenProperties DEF TypeOK
  <2>f. \A f \in Flushes : /\ flush'[f].pc = "settled" => flush[f].pc = "settled"
                           /\ flush'[f].earlier = flush[f].earlier \/
                              (flush'[f].pc # "settled" /\ flush'[f].earlier = Len(accepted))
    BY <2>1 DEF TypeOK
  <2>2. \A i \in 1 .. Len(accepted) : accepted'[i] = accepted[i]
    OBVIOUS
  <2>3. accepted' \in Seq(Writes) /\ Len(accepted) <= Len(accepted')
    BY <2>1
  <2>4. Pending' \cap {accepted[i] : i \in 1 .. Len(accepted)} \subseteq Pending
    BY <1>3
  <2> HIDE DEF Overflows
  <2> QED BY <1>1, <1>3, <2>1, <2>2, <2>3, <2>4, <2>f, ReportsLeft
<1>6. Cardinality({x \in Writes : write'[x] = "dropped"}) = droppedWrites'
  <2>1. CASE to = "dropped"
    BY <1>a, <2>1, OneReaches DEF Accounting
  <2>2. CASE to # "dropped"
    <3>1. {x \in Writes : write'[x] = "dropped"} = {x \in Writes : write[x] = "dropped"}
      BY <1>2, <2>2
    <3> QED BY <1>1, <2>2, <3>1 DEF Accounting
  <2> QED BY <2>1, <2>2
<1>7. Cardinality({x \in Writes : write'[x] = "rejected"}) = rejectedWrites'
  <2>1. CASE to = "rejected"
    BY <1>a, <2>1, OneReaches DEF Accounting
  <2>2. CASE to # "rejected"
    <3>1. {x \in Writes : write'[x] = "rejected"} = {x \in Writes : write[x] = "rejected"}
      BY <1>2, <2>2
    <3> QED BY <1>1, <2>2, <3>1 DEF Accounting
  <2> QED BY <2>1, <2>2
<1>8. TypeOK'
  BY <1>1 DEF TypeOK
<1>9. Accounting'
  <2> HIDE DEF Pending
  <2> QED BY <1>1, <1>3, <1>6, <1>7 DEF Accounting
<1>10. WithinBounds'
  BY <1>1, <1>2, <1>3, QueueAssumption DEF WithinBounds
<1> QED BY <1>4, <1>5, <1>8, <1>9, <1>10 DEF IInv, QueueBounded

(* A call is accepted, unless the queue is full.                           *)
LEMMA AcceptKeeps ==
  ASSUME IInv, NEW w \in Writes, write[w] = "none", ~CountFull, ~BytesFull(w), Accept(w),
         UNCHANGED <<group, report, flushing, stored, told>>
  PROVE  IInv'
PROOF
<1> USE DEF Accept, report, flushing
<1>1. TypeOK /\ Accounting /\ WithinBounds /\ InOrder /\ Located /\ StoredSound /\ Reported
  BY DEF IInv, QueueBounded
<1>2. \A x \in Writes : write'[x] = IF x = w THEN "waiting" ELSE write[x]
  BY <1>1 DEF TypeOK
<1>3. Pending' = Pending \cup {w} /\ w \notin Pending /\ Failed' = Failed
  BY <1>2 DEF Pending, Failed
<1>4. /\ Cardinality(Pending) \in Nat /\ Cardinality(Pending') = Cardinality(Pending) + 1
      /\ BytesOf(Pending) \in Nat /\ BytesOf(Pending') = BytesOf(Pending) + Size[w]
  BY <1>3, PendingMore
<1>5. Size[w] \in Nat
  BY QueueAssumption
<1>6. Accounting'
  <2>1. /\ {x \in Writes : write'[x] = "dropped"} = {x \in Writes : write[x] = "dropped"}
        /\ {x \in Writes : write'[x] = "rejected"} = {x \in Writes : write[x] = "rejected"}
    BY <1>2
  <2> HIDE DEF Pending
  <2> QED BY <1>1, <1>4, <2>1 DEF Accounting
<1>7. WithinBounds'
  <2>1. MaxSize # Unlimited => Cardinality(Pending') <= MaxSize
    <3> HIDE DEF Pending
    <3> QED BY <1>1, <1>4, QueueAssumption DEF CountFull, Accounting
  <2>2. MaxBytes # Unlimited => BytesOf(Pending') <= MaxBytes
    <3> HIDE DEF Pending
    <3> QED BY <1>1, <1>4, <1>5, QueueAssumption DEF BytesFull, Accounting
  <2>3. \A x \in Confirmed : write'[x] # "dropped"
    BY <1>1, <1>2, QueueAssumption DEF WithinBounds
  <2> QED BY <1>1, <2>1, <2>2, <2>3 DEF WithinBounds
<1>8. /\ Len(waiting) \in Nat /\ Len(group) \in Nat /\ Len(accepted) \in Nat
      /\ waiting' \in Seq(Writes) /\ accepted' \in Seq(Writes)
      /\ Len(waiting') = Len(waiting) + 1 /\ waiting'[Len(waiting) + 1] = w
      /\ \A i \in 1 .. Len(waiting) : waiting'[i] = waiting[i]
      /\ Len(accepted') = Len(accepted) + 1 /\ accepted'[Len(accepted) + 1] = w
      /\ \A i \in 1 .. Len(accepted) : accepted'[i] = accepted[i]
  BY <1>1, LenProperties, AppendProperties DEF TypeOK
<1>9. TypeOK'
  BY <1>1, <1>5, <1>8 DEF TypeOK
<1>10. /\ \A i \in 1 .. Len(accepted) : accepted[i] \in Writes /\ accepted[i] # w
       /\ \A i \in 1 .. Len(waiting) : waiting[i] \in Writes /\ waiting[i] # w
       /\ \A i \in 1 .. Len(group) : group[i] \in Writes /\ group[i] # w
  BY <1>1, ElementOfSeq DEF TypeOK, Located
<1>11. Handled' = Handled /\ Handled \in Nat
  BY <1>1, <1>8 DEF InOrder, Handled
<1>12. /\ \A i \in 1 .. Len(waiting') : i \in 1 .. Len(waiting) \/ i = Len(waiting) + 1
       /\ \A i \in 1 .. Len(accepted') : i \in 1 .. Len(accepted) \/ i = Len(accepted) + 1
  BY <1>8
<1>13. InOrder'
  <2>1. \A i \in 1 .. Len(group) : accepted'[Handled + i] = group[i]
    <3>1. \A i \in 1 .. Len(group) : Handled + i \in 1 .. Len(accepted)
      BY <1>8, <1>11 DEF Handled
    <3> QED BY <1>1, <1>8, <3>1 DEF InOrder
  <2>2. \A i \in 1 .. Len(waiting') : accepted'[Handled + Len(group) + i] = waiting'[i]
    <3>1. /\ \A i \in 1 .. Len(waiting) : Handled + Len(group) + i \in 1 .. Len(accepted)
          /\ Handled + Len(group) + (Len(waiting) + 1) = Len(accepted) + 1
      BY <1>8, <1>11 DEF Handled
    <3> QED BY <1>1, <1>8, <1>12, <3>1 DEF InOrder
  <2>3. \A i, j \in 1 .. Len(accepted') : accepted'[i] = accepted'[j] => i = j
    BY <1>1, <1>8, <1>10, <1>12 DEF InOrder
  <2> QED BY <1>11, <2>1, <2>2, <2>3 DEF InOrder
<1>14. Located'
  BY <1>1, <1>2, <1>8, <1>10, <1>12 DEF Located
<1>15. StoredSound'
  <2>1. \A k \in 1 .. Handled : accepted'[k] = accepted[k]
    BY <1>8, <1>11 DEF Handled
  <2>2. \A x \in Writes : write'[x] \in {"succeeding", "stored"} => write[x] \in {"succeeding", "stored"}
    BY <1>2
  <2>3. UNCHANGED stored
    OBVIOUS
  <2> HIDE DEF Accept
  <2>4. \A i \in 1 .. Len(stored') : \E k \in 1 .. Handled' : accepted'[k] = stored'[i]
    BY <1>1, <1>11, <2>1, <2>3 DEF StoredSound
  <2>5. \A i, j \in 1 .. Len(stored') : i < j =>
          \E k, l \in 1 .. Handled' : k < l /\ accepted'[k] = stored'[i] /\ accepted'[l] = stored'[j]
    BY <1>1, <1>11, <2>1, <2>3 DEF StoredSound
  <2>6. \A x \in Writes : write'[x] \in {"succeeding", "stored"} => Contains(stored', x)
    BY <1>1, <2>2, <2>3 DEF StoredSound, Contains
  <2> QED BY <2>4, <2>5, <2>6 DEF StoredSound
<1>16. Reported'
  <2>1. Pending' \cap {accepted[i] : i \in 1 .. Len(accepted)} \subseteq Pending
    BY <1>3, <1>10
  <2>2. Len(accepted) <= Len(accepted')
    BY <1>8
  <2>3. UNCHANGED <<unreported, causes, told, flush>>
    OBVIOUS
  <2>f. \A f \in Flushes : /\ flush'[f].pc = "settled" => flush[f].pc = "settled"
                           /\ flush'[f].earlier = flush[f].earlier \/
                              (flush'[f].pc # "settled" /\ flush'[f].earlier = Len(accepted))
    BY <2>3
  <2> HIDE DEF Accept
  <2> QED BY <1>1, <1>3, <1>8, <2>1, <2>2, <2>3, <2>f, ReportsLeft
<1> QED BY <1>6, <1>7, <1>9, <1>13, <1>14, <1>15, <1>16 DEF IInv, QueueBounded

(* The storage is given the next group.                                    *)
LEMMA TakeGroupKeeps ==
  ASSUME IInv, TakeGroup
  PROVE  IInv'
PROOF
<1> DEFINE n == GroupSize
<1> USE DEF TakeGroup, GroupDue, counters, report, flushing, history
<1>1. TypeOK /\ Accounting /\ WithinBounds /\ InOrder /\ Located /\ StoredSound /\ Reported
  BY DEF IInv, QueueBounded
<1>2. n \in 1 .. Len(waiting) /\ Fits(n)
  BY <1>1, GroupSizeFits DEF TypeOK
<1>3. /\ Len(waiting) \in Nat /\ Len(accepted) \in Nat /\ Len(group) = 0
      /\ n \in Nat /\ n >= 1 /\ n <= Len(waiting)
  BY <1>1, <1>2, LenProperties, EmptySeq DEF TypeOK
<1>4. \A i \in 1 .. Len(waiting) : waiting[i] \in Writes /\ write[waiting[i]] = "waiting"
  BY <1>1, ElementOfSeq DEF TypeOK, Located
<1>5. \A i, j \in 1 .. Len(waiting) : waiting[i] = waiting[j] => i = j
  <2>1. \A i \in 1 .. Len(waiting) : /\ Handled + i \in 1 .. Len(accepted)
                                     /\ accepted[Handled + i] = waiting[i]
    BY <1>1, <1>3 DEF InOrder, Handled
  <2> QED BY <1>1, <2>1 DEF InOrder
<1>t. group' = SubSeq(waiting, 1, n) /\ waiting' = SubSeq(waiting, n + 1, Len(waiting))
  OBVIOUS
<1>w. write' = [w \in Writes |-> IF Contains(group', w) THEN "storing" ELSE write[w]]
  OBVIOUS
<1>u. UNCHANGED <<queuedWrites, pendingBytes, droppedWrites, rejectedWrites, unreported, causes,
                  flush, flushQueue, accepted, stored, told>>
  OBVIOUS
<1> HIDE DEF n, TakeGroup
<1>6. /\ group' \in Seq(Writes) /\ Len(group') = n
      /\ \A i \in 1 .. n : group'[i] = waiting[i]
  <2>1. 1 \in 1 .. (n + 1) /\ n \in (1 - 1) .. Len(waiting)
    BY <1>3
  <2>2. \A j \in 1 .. n : waiting[j] \in Writes
    BY <1>3, <1>4
  <2> QED BY <1>t, <1>3, <2>1, <2>2, SubSeqProperties
<1>7. /\ waiting' \in Seq(Writes) /\ Len(waiting') = Len(waiting) - n
      /\ \A i \in 1 .. Len(waiting) - n : waiting'[i] = waiting[n + i]
  <2>2. \A j \in (n + 1) .. Len(waiting) : waiting[j] \in Writes
    BY <1>3, <1>4
  <2>3. /\ waiting' \in Seq(Writes)
        /\ Len(waiting') = IF n + 1 <= Len(waiting) THEN Len(waiting) - (n + 1) + 1 ELSE 0
        /\ \A i \in 1 .. Len(waiting) - (n + 1) + 1 : waiting'[i] = waiting[n + 1 + i - 1]
    BY <1>t, <1>3, <2>2, SubSeqProperties
  <2> QED BY <1>3, <2>3
<1>8. \A w \in Writes : Contains(group', w) <=> \E i \in 1 .. n : waiting[i] = w
  BY <1>6 DEF Contains
<1>9. \A w \in Writes : /\ Contains(group', w) => write[w] = "waiting" /\ write'[w] = "storing"
                        /\ ~Contains(group', w) => write'[w] = write[w]
  BY <1>3, <1>4, <1>8, <1>w
<1>10. Pending' = Pending /\ Failed' = Failed
  BY <1>9 DEF Pending, Failed
<1>11. TypeOK'
  BY <1>1, <1>6, <1>7, <1>u, <1>w DEF TypeOK
<1>12. Accounting'
  <2>1. /\ {w \in Writes : write'[w] = "dropped"} = {w \in Writes : write[w] = "dropped"}
        /\ {w \in Writes : write'[w] = "rejected"} = {w \in Writes : write[w] = "rejected"}
    BY <1>9
  <2> HIDE DEF Pending
  <2> QED BY <1>1, <1>10, <1>u, <2>1 DEF Accounting
<1>13. WithinBounds'
  <2>1. ToSet(group') = {waiting[i] : i \in 1 .. n}
    <3>1. DOMAIN group' = 1 .. n
      BY <1>6, LenProperties
    <3> QED BY <1>6, <3>1 DEF ToSet
  <2>2. Len(group') <= MaxGroup /\ (Len(group') > 1 => BytesOf(ToSet(group')) <= MaxGroupBytes)
    BY <1>2, <1>6, <2>1 DEF Fits
  <2>3. \A w \in Confirmed : write'[w] # "dropped"
    BY <1>1, <1>9, QueueAssumption DEF WithinBounds
  <2> QED BY <1>1, <1>10, <2>2, <2>3 DEF WithinBounds
<1>14. Handled' = Handled /\ Handled \in Nat
  BY <1>1, <1>3, <1>6, <1>7, <1>u DEF InOrder, Handled
<1>15. InOrder'
  <2>1. ASSUME NEW i \in 1 .. Len(group') PROVE accepted'[Handled' + i] = group'[i]
    <3>1. i \in 1 .. Len(waiting) /\ group'[i] = waiting[i]
      BY <1>3, <1>6
    <3>2. accepted[Handled + Len(group) + i] = waiting[i] /\ Handled + Len(group) + i = Handled' + i
      BY <1>1, <1>3, <1>14, <3>1 DEF InOrder
    <3> QED BY <3>1, <3>2, <1>u
  <2>2. ASSUME NEW i \in 1 .. Len(waiting')
        PROVE  accepted'[Handled' + Len(group') + i] = waiting'[i]
    <3>1. n + i \in 1 .. Len(waiting) /\ waiting'[i] = waiting[n + i]
      BY <1>3, <1>7
    <3>2. accepted[Handled + Len(group) + (n + i)] = waiting[n + i]
      BY <1>1, <3>1 DEF InOrder
    <3>3. Handled' + Len(group') + i = Handled + Len(group) + (n + i)
      BY <1>3, <1>6, <1>7, <1>14
    <3> QED BY <3>1, <3>2, <3>3, <1>u
  <2> QED BY <1>1, <1>14, <1>u, <2>1, <2>2 DEF InOrder
<1>16. Located'
  <2>1. \A i \in 1 .. Len(group') : write'[group'[i]] = "storing"
    <3>1. \A i \in 1 .. n : waiting[i] \in Writes
      BY <1>3, <1>4
    <3> QED BY <1>6, <1>8, <1>9, <3>1
  <2>2. ASSUME NEW i \in 1 .. Len(waiting') PROVE write'[waiting'[i]] = "waiting"
    <3>1. n + i \in 1 .. Len(waiting) /\ waiting'[i] = waiting[n + i]
      BY <1>3, <1>7
    <3>2. \A j \in 1 .. n : j \in 1 .. Len(waiting) /\ j # n + i
      BY <1>3, <3>1
    <3>3. waiting[n + i] \in Writes /\ ~Contains(group', waiting[n + i])
      BY <1>4, <1>5, <1>8, <3>1, <3>2
    <3> QED BY <1>4, <1>9, <3>1, <3>3
  <2>3. \A i \in 1 .. Len(accepted) : accepted[i] \in Writes
    BY <1>1, ElementOfSeq DEF TypeOK
  <2>4. \A i \in 1 .. Len(accepted) : write'[accepted[i]] \notin {"none", "dropped", "rejected"}
    BY <1>1, <1>9, <2>3 DEF Located
  <2> QED BY <2>1, <2>2, <2>4, <1>u DEF Located
<1>17. StoredSound'
  <2>1. \A w \in Writes : write'[w] \in {"succeeding", "stored"} => Contains(stored, w)
    BY <1>1, <1>9 DEF StoredSound
  <2> QED BY <1>1, <1>14, <1>u, <2>1 DEF StoredSound, Contains
<1>18. Reported'
  <2>1. Pending' \cap {accepted[i] : i \in 1 .. Len(accepted)} \subseteq Pending
    BY <1>10
  <2>2. Len(accepted) <= Len(accepted') /\ accepted' \in Seq(Writes)
    BY <1>1, <1>3, <1>u DEF TypeOK
  <2>3. \A i \in 1 .. Len(accepted) : accepted'[i] = accepted[i]
    BY <1>u
  <2>4. \A f \in Flushes : /\ flush'[f].pc = "settled" => flush[f].pc = "settled"
                           /\ flush'[f].earlier = flush[f].earlier \/
                              (flush'[f].pc # "settled" /\ flush'[f].earlier = Len(accepted))
    BY <1>u
  <2>5. UNCHANGED <<unreported, causes, told>>
    BY <1>u
  <2> QED BY <1>1, <1>10, <2>1, <2>2, <2>3, <2>4, <2>5, ReportsLeft
<1> QED BY <1>11, <1>12, <1>13, <1>15, <1>16, <1>17, <1>18 DEF IInv, QueueBounded

(* The storage answers for its group, of which it has stored the first n   *)
(* events, all of them when the calls succeed.                             *)
LEMMA AnsweredKeeps ==
  ASSUME IInv, NEW n \in 0 .. Len(group), NEW outcome \in {"succeeding", "failing"},
         outcome = "succeeding" => n = Len(group), Answered(outcome),
         stored' \in Seq(Writes), Len(stored') = Len(stored) + n,
         \A i \in 1 .. Len(stored) : stored'[i] = stored[i],
         \A i \in 1 .. n : stored'[Len(stored) + i] = group[i]
  PROVE  IInv'
PROOF
<1>1. TypeOK /\ Accounting /\ WithinBounds /\ InOrder /\ Located /\ StoredSound /\ Reported
  BY DEF IInv, QueueBounded
<1>2. /\ Len(waiting) \in Nat /\ Len(accepted) \in Nat /\ Len(group) \in Nat
      /\ Len(stored) \in Nat /\ n \in Nat /\ n <= Len(group)
  BY <1>1, LenProperties DEF TypeOK
<1>3. \A i \in 1 .. Len(group) : group[i] \in Writes /\ write[group[i]] = "storing"
  BY <1>1, ElementOfSeq DEF TypeOK, Located
<1>w. write' = [w \in Writes |-> IF Contains(group, w) THEN outcome ELSE write[w]]
  BY DEF Answered
<1>u. /\ UNCHANGED <<waiting, queuedWrites, pendingBytes, droppedWrites, rejectedWrites, unreported,
                     causes, flush, flushQueue, accepted, told>>
      /\ group' = <<>>
  BY DEF Answered, counters, report, flushing
<1>4. group' \in Seq(Writes) /\ Len(group') = 0
  BY <1>u, EmptySeq
<1>5. \A w \in Writes : /\ Contains(group, w) => write[w] = "storing" /\ write'[w] = outcome
                        /\ ~Contains(group, w) => write'[w] = write[w]
  BY <1>3, <1>w DEF Contains
<1>6. Pending' = Pending /\ Failed' = Failed
  BY <1>5 DEF Pending, Failed
<1>7. TypeOK'
  BY <1>1, <1>4, <1>u, <1>w DEF TypeOK
<1>8. Accounting'
  <2>1. /\ {w \in Writes : write'[w] = "dropped"} = {w \in Writes : write[w] = "dropped"}
        /\ {w \in Writes : write'[w] = "rejected"} = {w \in Writes : write[w] = "rejected"}
    BY <1>5
  <2> HIDE DEF Pending
  <2> QED BY <1>1, <1>6, <1>u, <2>1 DEF Accounting
<1>9. WithinBounds'
  <2>1. \A w \in Confirmed : write'[w] # "dropped"
    BY <1>1, <1>5, QueueAssumption DEF WithinBounds
  <2> QED BY <1>1, <1>4, <1>6, <2>1, QueueAssumption DEF WithinBounds
<1>10. Handled' = Handled + Len(group) /\ Handled \in Nat
  BY <1>1, <1>2, <1>4, <1>u DEF InOrder, Handled
<1>11. InOrder'
  <2>1. \A i \in 1 .. Len(group') : accepted'[Handled' + i] = group'[i]
    BY <1>4
  <2>2. ASSUME NEW i \in 1 .. Len(waiting')
        PROVE  accepted'[Handled' + Len(group') + i] = waiting'[i]
    <3>1. Handled' + Len(group') + i = Handled + Len(group) + i
      BY <1>2, <1>4, <1>10, <1>u
    <3> QED BY <1>1, <1>u, <3>1 DEF InOrder
  <2>3. Handled' \in Nat
    BY <1>2, <1>10
  <2> QED BY <1>1, <1>u, <2>1, <2>2, <2>3 DEF InOrder
<1>12. Located'
  <2>1. \A i \in 1 .. Len(accepted) : accepted[i] \in Writes
    BY <1>1, ElementOfSeq DEF TypeOK
  <2>2. \A i \in 1 .. Len(waiting) : waiting[i] \in Writes
    BY <1>1, ElementOfSeq DEF TypeOK
  <2>3. \A i \in 1 .. Len(accepted) : write'[accepted[i]] \notin {"none", "dropped", "rejected"}
    BY <1>1, <1>5, <2>1 DEF Located
  <2>4. \A i \in 1 .. Len(waiting) : write'[waiting[i]] = "waiting"
    BY <1>1, <1>5, <2>2 DEF Located
  <2> QED BY <1>4, <1>u, <2>3, <2>4 DEF Located
<1>13. StoredSound'
  <2>1. ASSUME NEW i \in 1 .. Len(stored')
        PROVE  \/ /\ i \in 1 .. Len(stored) /\ stored'[i] = stored[i]
               \/ /\ i - Len(stored) \in 1 .. n
                  /\ Handled + (i - Len(stored)) \in Handled + 1 .. Handled'
                  /\ accepted[Handled + (i - Len(stored))] = stored'[i]
    <3>1. CASE i <= Len(stored)
      BY <3>1, <1>2
    <3>2. CASE i > Len(stored)
      <4> DEFINE j == i - Len(stored)
      <4>1. j \in 1 .. n /\ j \in 1 .. Len(group) /\ Len(stored) + j = i
        BY <1>2, <3>2
      <4>2. stored'[i] = group[j] /\ accepted[Handled + j] = group[j]
        BY <1>1, <4>1 DEF InOrder
      <4>3. Handled + j \in Handled + 1 .. Handled'
        BY <1>2, <1>10, <4>1
      <4> QED BY <4>1, <4>2, <4>3
    <3> QED BY <3>1, <3>2, <1>2
  <2>2. \A k \in 1 .. Handled : k \in 1 .. Handled' /\ k < Handled + 1
    BY <1>2, <1>10
  <2>3. \A k \in Handled + 1 .. Handled' : k \in 1 .. Handled'
    BY <1>2, <1>10
  <2>4. /\ \A i \in 1 .. Len(stored) : \E k \in 1 .. Handled : accepted[k] = stored[i]
        /\ \A i, j \in 1 .. Len(stored) : i < j =>
             \E k, l \in 1 .. Handled : k < l /\ accepted[k] = stored[i] /\ accepted[l] = stored[j]
    BY <1>1 DEF StoredSound
  <2>5. \A i \in 1 .. Len(stored') : \E k \in 1 .. Handled' : accepted[k] = stored'[i]
    BY <2>1, <2>2, <2>3, <2>4
  <2>6. ASSUME NEW i \in 1 .. Len(stored'), NEW j \in 1 .. Len(stored'), i < j
        PROVE  \E k, l \in 1 .. Handled' : k < l /\ accepted[k] = stored'[i] /\ accepted[l] = stored'[j]
    <3>1. CASE j \in 1 .. Len(stored)
      <4>1. i \in 1 .. Len(stored)
        BY <1>2, <2>6, <3>1
      <4>2. PICK k \in 1 .. Handled, l \in 1 .. Handled :
              k < l /\ accepted[k] = stored[i] /\ accepted[l] = stored[j]
        BY <2>4, <2>6, <3>1, <4>1
      <4>3. stored'[i] = stored[i] /\ stored'[j] = stored[j]
        BY <3>1, <4>1
      <4> QED BY <2>2, <4>2, <4>3
    <3>2. CASE j \notin 1 .. Len(stored)
      <4> DEFINE l == Handled + (j - Len(stored))
      <4>1. l \in Handled + 1 .. Handled' /\ accepted[l] = stored'[j] /\ j - Len(stored) \in 1 .. n
        BY <2>1, <3>2
      <4>2. CASE i \in 1 .. Len(stored)
        <5>1. PICK k \in 1 .. Handled : accepted[k] = stored[i]
          BY <2>4, <4>2
        <5>2. k < l /\ k \in 1 .. Handled' /\ l \in 1 .. Handled' /\ accepted[k] = stored'[i]
          BY <1>2, <1>10, <2>2, <2>3, <4>1, <4>2, <5>1
        <5> HIDE DEF l
        <5> QED BY <4>1, <5>2
      <4>3. CASE i \notin 1 .. Len(stored)
        <5> DEFINE k == Handled + (i - Len(stored))
        <5>1. k \in Handled + 1 .. Handled' /\ accepted[k] = stored'[i]
          BY <2>1, <4>3
        <5>2. k < l
          BY <1>2, <1>10, <2>6
        <5> HIDE DEF k, l
        <5> QED BY <2>3, <4>1, <5>1, <5>2
      <4> QED BY <4>2, <4>3
    <3> QED BY <3>1, <3>2
  <2>7. ASSUME NEW w \in Writes, write'[w] \in {"succeeding", "stored"} PROVE Contains(stored', w)
    <3>1. CASE Contains(group, w)
      <4>1. n = Len(group)
        BY <1>5, <2>7, <3>1
      <4>2. PICK i \in 1 .. Len(group) : group[i] = w
        BY <3>1 DEF Contains
      <4>3. Len(stored) + i \in 1 .. Len(stored') /\ stored'[Len(stored) + i] = w
        BY <1>2, <4>1, <4>2
      <4> QED BY <4>3 DEF Contains
    <3>2. CASE ~Contains(group, w)
      <4>1. PICK i \in 1 .. Len(stored) : stored[i] = w
        BY <1>1, <1>5, <2>7, <3>2 DEF StoredSound, Contains
      <4>2. i \in 1 .. Len(stored') /\ stored'[i] = w
        BY <1>2, <4>1
      <4> QED BY <4>2 DEF Contains
    <3> QED BY <3>1, <3>2
  <2> QED BY <1>u, <2>5, <2>6, <2>7 DEF StoredSound
<1>14. Reported'
  <2>1. Pending' \cap {accepted[i] : i \in 1 .. Len(accepted)} \subseteq Pending
    BY <1>6
  <2>2. Len(accepted) <= Len(accepted') /\ accepted' \in Seq(Writes)
    BY <1>1, <1>2, <1>u DEF TypeOK
  <2>3. \A i \in 1 .. Len(accepted) : accepted'[i] = accepted[i]
    BY <1>u
  <2>4. \A f \in Flushes : /\ flush'[f].pc = "settled" => flush[f].pc = "settled"
                           /\ flush'[f].earlier = flush[f].earlier \/
                              (flush'[f].pc # "settled" /\ flush'[f].earlier = Len(accepted))
    BY <1>u
  <2>5. UNCHANGED <<unreported, causes, told>>
    BY <1>u
  <2> QED BY <1>1, <1>6, <2>1, <2>2, <2>3, <2>4, <2>5, ReportsLeft
<1> QED BY <1>7, <1>8, <1>9, <1>11, <1>12, <1>13, <1>14 DEF IInv, QueueBounded

(* The group is stored.                                                    *)
LEMMA GroupStoredKeeps ==
  ASSUME IInv, GroupStored
  PROVE  IInv'
PROOF
<1>1. stored \in Seq(Writes) /\ group \in Seq(Writes)
  BY DEF IInv, QueueBounded, TypeOK
<1>2. stored' = stored \o group /\ Answered("succeeding")
  BY DEF GroupStored
<1>3. /\ stored' \in Seq(Writes) /\ Len(stored') = Len(stored) + Len(group)
      /\ \A i \in 1 .. Len(stored) + Len(group) :
           stored'[i] = IF i <= Len(stored) THEN stored[i] ELSE group[i - Len(stored)]
  BY <1>1, <1>2, ConcatProperties
<1>4. Len(stored) \in Nat /\ Len(group) \in Nat
  BY <1>1, LenProperties
<1>5. /\ \A i \in 1 .. Len(stored) : stored'[i] = stored[i]
      /\ \A i \in 1 .. Len(group) : stored'[Len(stored) + i] = group[i]
      /\ Len(group) \in 0 .. Len(group)
  BY <1>3, <1>4
<1> QED BY <1>2, <1>3, <1>5, AnsweredKeeps

(* The group fails, some of it stored.                                     *)
LEMMA GroupFailedKeeps ==
  ASSUME IInv, GroupFailed
  PROVE  IInv'
PROOF
<1>1. stored \in Seq(Writes) /\ group \in Seq(Writes)
  BY DEF IInv, QueueBounded, TypeOK
<1>2. Len(stored) \in Nat /\ Len(group) \in Nat
  BY <1>1, LenProperties
<1>3. PICK n \in 0 .. Len(group) : stored' = stored \o SubSeq(group, 1, n)
  BY DEF GroupFailed
<1>4. Answered("failing")
  BY DEF GroupFailed, FailureOutcome
<1> DEFINE first == SubSeq(group, 1, n)
<1>5. /\ first \in Seq(Writes) /\ Len(first) = n
      /\ \A i \in 1 .. n : first[i] = group[i]
  <2>1. \A j \in 1 .. n : group[j] \in Writes
    BY <1>1, <1>2, ElementOfSeq
  <2>2. /\ SubSeq(group, 1, n) \in Seq(Writes)
        /\ Len(SubSeq(group, 1, n)) = IF 1 <= n THEN n - 1 + 1 ELSE 0
        /\ \A i \in 1 .. n - 1 + 1 : SubSeq(group, 1, n)[i] = group[1 + i - 1]
    BY <1>1, <1>2, <2>1, SubSeqProperties
  <2> QED BY <1>2, <2>2
<1>6. stored' = stored \o first
  BY <1>3
<1> HIDE DEF first
<1>7. /\ stored' \in Seq(Writes) /\ Len(stored') = Len(stored) + Len(first)
      /\ \A i \in 1 .. Len(stored) + Len(first) :
           stored'[i] = IF i <= Len(stored) THEN stored[i] ELSE first[i - Len(stored)]
  BY <1>1, <1>5, <1>6, ConcatProperties
<1>8. /\ \A i \in 1 .. Len(stored) : stored'[i] = stored[i]
      /\ \A i \in 1 .. n : stored'[Len(stored) + i] = group[i]
      /\ Len(stored') = Len(stored) + n
  BY <1>2, <1>5, <1>7
<1> QED BY <1>4, <1>7, <1>8, AnsweredKeeps

(* A tracked call no longer counts as pending, in a step that leaves the   *)
(* rest of the queue as it is.                                             *)
LEMMA TrackedKeeps ==
  ASSUME IInv, NEW w \in Writes, NEW to,
         (write[w] = "succeeding" /\ to = "stored") \/ (write[w] = "failing" /\ to = "failed"),
         write' = [write EXCEPT ![w] = to], Uncounted(w),
         UNCHANGED <<waiting, group, accepted, stored>>
  PROVE  /\ Accounting' /\ WithinBounds' /\ InOrder' /\ Located' /\ StoredSound'
         /\ write' \in [Writes -> {"none", "waiting", "storing", "succeeding", "failing",
                                   "stored", "failed", "dropped", "rejected"}]
         /\ queuedWrites' \in Nat /\ pendingBytes' \in Nat
         /\ w \in Pending /\ Pending' = Pending \ {w}
PROOF
<1>1. TypeOK /\ Accounting /\ WithinBounds /\ InOrder /\ Located /\ StoredSound /\ Reported
  BY DEF IInv, QueueBounded
<1>2. \A x \in Writes : write'[x] = IF x = w THEN to ELSE write[x]
  BY <1>1 DEF TypeOK
<1>3. w \in Pending /\ Pending' = Pending \ {w}
  BY <1>2 DEF Pending
<1>4. /\ Cardinality(Pending') \in Nat /\ Cardinality(Pending) = Cardinality(Pending') + 1
      /\ BytesOf(Pending') \in Nat /\ BytesOf(Pending) = BytesOf(Pending') + Size[w]
  BY <1>3, PendingLess
<1>5. Size[w] \in Nat
  BY QueueAssumption
<1>6. Accounting' /\ queuedWrites' \in Nat /\ pendingBytes' \in Nat
  <2>1. /\ {x \in Writes : write'[x] = "dropped"} = {x \in Writes : write[x] = "dropped"}
        /\ {x \in Writes : write'[x] = "rejected"} = {x \in Writes : write[x] = "rejected"}
    BY <1>2
  <2>2. /\ queuedWrites' = queuedWrites - 1 /\ pendingBytes' = pendingBytes - Size[w]
        /\ UNCHANGED <<droppedWrites, rejectedWrites>>
    BY DEF Uncounted
  <2>3. queuedWrites = Cardinality(Pending) /\ pendingBytes = BytesOf(Pending)
    BY <1>1 DEF Accounting
  <2> HIDE DEF Pending
  <2>4. queuedWrites' = Cardinality(Pending') /\ pendingBytes' = BytesOf(Pending')
    BY <1>4, <1>5, <2>2, <2>3
  <2>5. queuedWrites' \in Nat /\ pendingBytes' \in Nat
    BY <1>4, <2>4
  <2> QED BY <1>1, <2>1, <2>2, <2>4, <2>5 DEF Accounting
<1>7. WithinBounds'
  <2>1. \A x \in Confirmed : write'[x] # "dropped"
    BY <1>1, <1>2, QueueAssumption DEF WithinBounds
  <2>2. MaxSize # Unlimited => Cardinality(Pending') <= MaxSize
    <3> HIDE DEF Pending
    <3> QED BY <1>1, <1>4, QueueAssumption DEF WithinBounds
  <2>3. MaxBytes # Unlimited => BytesOf(Pending') <= MaxBytes
    <3> HIDE DEF Pending
    <3> QED BY <1>1, <1>4, <1>5, QueueAssumption DEF WithinBounds
  <2> QED BY <1>1, <2>1, <2>2, <2>3 DEF WithinBounds
<1>8. InOrder' /\ Located' /\ StoredSound'
  <2>1. \E step \in Outside : write[w] = step[1] /\ write' = [write EXCEPT ![w] = step[2]]
    BY DEF Outside
  <2> QED BY <1>1, <2>1, QueueLeft
<1>9. write' \in [Writes -> {"none", "waiting", "storing", "succeeding", "failing",
                             "stored", "failed", "dropped", "rejected"}]
  BY <1>1 DEF TypeOK
<1> QED BY <1>3, <1>6, <1>7, <1>8, <1>9

(* A stored call's handlers run.                                           *)
LEMMA TrackStoredKeeps ==
  ASSUME IInv, NEW w \in Writes, TrackStored(w)
  PROVE  IInv'
PROOF
<1>1. TypeOK /\ Located /\ Reported
  BY DEF IInv, QueueBounded
<1>2. /\ write[w] = "succeeding" /\ write' = [write EXCEPT ![w] = "stored"] /\ Uncounted(w)
      /\ UNCHANGED <<waiting, group, unreported, causes, flush, flushQueue, accepted, stored, told>>
  BY DEF TrackStored, report, flushing, history
<1>3. /\ Accounting' /\ WithinBounds' /\ InOrder' /\ Located' /\ StoredSound'
      /\ write' \in [Writes -> {"none", "waiting", "storing", "succeeding", "failing",
                                "stored", "failed", "dropped", "rejected"}]
      /\ queuedWrites' \in Nat /\ pendingBytes' \in Nat
      /\ w \in Pending /\ Pending' = Pending \ {w}
  <2>1. \/ write[w] = "succeeding" /\ "stored" = "stored"
        \/ write[w] = "failing" /\ "stored" = "failed"
    BY <1>2
  <2>2. UNCHANGED <<waiting, group, accepted, stored>>
    BY <1>2
  <2> HIDE DEF Pending
  <2> QED BY <1>2, <2>1, <2>2, TrackedKeeps
<1>4. TypeOK'
  BY <1>1, <1>2, <1>3 DEF TypeOK, Uncounted
<1>5. Reported'
  <2>1. Pending' \cap {accepted[i] : i \in 1 .. Len(accepted)} \subseteq Pending
    BY <1>3
  <2>2. Len(accepted) <= Len(accepted') /\ accepted' \in Seq(Writes)
    BY <1>1, <1>2, LenProperties DEF TypeOK
  <2>3. \A i \in 1 .. Len(accepted) : accepted'[i] = accepted[i]
    BY <1>2
  <2>4. \A f \in Flushes : /\ flush'[f].pc = "settled" => flush[f].pc = "settled"
                           /\ flush'[f].earlier = flush[f].earlier \/
                              (flush'[f].pc # "settled" /\ flush'[f].earlier = Len(accepted))
    BY <1>2
  <2>5. UNCHANGED <<unreported, causes, told>>
    BY <1>2
  <2>6. Failed' = Failed
    BY <1>1, <1>2 DEF TypeOK, Failed
  <2> QED BY <1>1, <2>1, <2>2, <2>3, <2>4, <2>5, <2>6, ReportsLeft
<1> QED BY <1>3, <1>4, <1>5 DEF IInv, QueueBounded

(* The smaller of two numbers.                                             *)
LEMMA MinOfTwo ==
  ASSUME NEW a \in Nat, NEW b \in Nat
  PROVE  Min({a, b}) = IF a <= b THEN a ELSE b
PROOF
<1> DEFINE m == IF a <= b THEN a ELSE b
<1>1. m \in {a, b} /\ (\A y \in {a, b} : m <= y)
  OBVIOUS
<1>2. \A x \in {a, b} : (\A y \in {a, b} : x <= y) => x = m
  OBVIOUS
<1> HIDE DEF m
<1>3. Min({a, b}) = m
  BY <1>1, <1>2 DEF Min
<1> QED BY <1>3 DEF m

(* A failed call's handlers run.                                           *)
LEMMA TrackFailedKeeps ==
  ASSUME IInv, NEW w \in Writes, TrackFailed(w)
  PROVE  IInv'
PROOF
<1>1. TypeOK /\ Located /\ Reported
  BY DEF IInv, QueueBounded
<1>2. /\ write[w] = "failing" /\ write' = [write EXCEPT ![w] = "failed"] /\ Uncounted(w)
      /\ unreported' = unreported + 1
      /\ causes' = IF Len(causes) < MaxCauses THEN Append(causes, w) ELSE causes
      /\ UNCHANGED <<waiting, group, flush, flushQueue, accepted, stored, told>>
  BY DEF TrackFailed, flushing, history
<1>3. /\ Accounting' /\ WithinBounds' /\ InOrder' /\ Located' /\ StoredSound'
      /\ write' \in [Writes -> {"none", "waiting", "storing", "succeeding", "failing",
                                "stored", "failed", "dropped", "rejected"}]
      /\ queuedWrites' \in Nat /\ pendingBytes' \in Nat
      /\ w \in Pending /\ Pending' = Pending \ {w}
  <2>1. \/ write[w] = "succeeding" /\ "failed" = "stored"
        \/ write[w] = "failing" /\ "failed" = "failed"
    BY <1>2
  <2>2. UNCHANGED <<waiting, group, accepted, stored>>
    BY <1>2
  <2> HIDE DEF Pending
  <2> QED BY <1>2, <2>1, <2>2, TrackedKeeps
<1>4. /\ causes \in Seq(Writes) /\ Len(causes) \in Nat /\ MaxCauses \in Nat /\ MaxCauses >= 1
      /\ unreported \in Nat /\ told \in Nat
  BY <1>1, QueueAssumption, LenProperties DEF TypeOK
<1>5. /\ causes' \in Seq(Writes)
      /\ Len(causes') = IF Len(causes) < MaxCauses THEN Len(causes) + 1 ELSE Len(causes)
      /\ \A i \in 1 .. Len(causes') : causes'[i] = w \/ (i \in 1 .. Len(causes) /\ causes'[i] = causes[i])
  <2>1. CASE Len(causes) < MaxCauses
    <3>1. causes' = Append(causes, w)
      BY <1>2, <2>1
    <3>2. /\ causes' \in Seq(Writes) /\ Len(causes') = Len(causes) + 1
          /\ causes'[Len(causes) + 1] = w
          /\ \A i \in 1 .. Len(causes) : causes'[i] = causes[i]
      BY <1>4, <3>1, AppendProperties
    <3> QED BY <1>4, <2>1, <3>2
  <2>2. CASE ~(Len(causes) < MaxCauses)
    BY <1>2, <1>4, <2>2
  <2> QED BY <2>1, <2>2
<1>6. TypeOK'
  BY <1>1, <1>2, <1>3, <1>5 DEF TypeOK, Uncounted
<1>7. Cardinality(Failed') = unreported' + told'
  <2>1. write \in [Writes -> {"none", "waiting", "storing", "succeeding", "failing",
                              "stored", "failed", "dropped", "rejected"}]
    BY <1>1 DEF TypeOK
  <2>2. /\ Cardinality({x \in Writes : write[x] = "failed"}) \in Nat
        /\ Cardinality({x \in Writes : write'[x] = "failed"}) =
             Cardinality({x \in Writes : write[x] = "failed"}) + 1
    BY <1>2, <2>1, OneReaches
  <2> QED BY <1>1, <1>2, <1>4, <2>2 DEF Reported, FlushReports, Failed
<1>8. Len(causes') = Min({unreported', MaxCauses})
  <2>1. Len(causes) = IF unreported <= MaxCauses THEN unreported ELSE MaxCauses
    BY <1>1, <1>4, MinOfTwo DEF Reported, FlushReports
  <2>2. Min({unreported', MaxCauses}) = IF unreported' <= MaxCauses THEN unreported' ELSE MaxCauses
    BY <1>2, <1>4, MinOfTwo
  <2> QED BY <1>2, <1>4, <1>5, <2>1, <2>2
<1>9. ToSet(causes') \subseteq Failed'
  <2>1. Failed \subseteq Failed' /\ w \in Failed'
    BY <1>1, <1>2 DEF TypeOK, Failed
  <2>2. DOMAIN causes = 1 .. Len(causes) /\ DOMAIN causes' = 1 .. Len(causes')
    BY <1>4, <1>5, LenProperties
  <2>3. \A i \in 1 .. Len(causes) : causes[i] \in Failed
    BY <1>1, <2>2 DEF Reported, FlushReports, ToSet
  <2> HIDE DEF Failed
  <2>4. \A i \in 1 .. Len(causes') : causes'[i] \in Failed'
    BY <1>5, <2>1, <2>3
  <2> QED BY <2>2, <2>4 DEF ToSet
<1>10. ASSUME NEW f \in Flushes, flush'[f].pc = "settled", NEW i \in 1 .. flush'[f].earlier
       PROVE  accepted'[i] \notin Pending' /\ ~Contains(causes', accepted'[i])
  <2>1. flush[f].pc = "settled" /\ i \in 1 .. flush[f].earlier
    BY <1>2, <1>10
  <2>2. accepted[i] \notin Pending /\ ~Contains(causes, accepted[i])
    BY <1>1, <2>1 DEF Reported, FlushReports
  <2>3. accepted[i] # w
    BY <1>3, <2>2
  <2> HIDE DEF Pending
  <2> QED BY <1>2, <1>3, <1>5, <2>2, <2>3 DEF Contains
<1>11. \A f \in Flushes : flush'[f].earlier <= Len(accepted')
  BY <1>1, <1>2 DEF Reported
<1>12. Reported'
  BY <1>7, <1>8, <1>9, <1>10, <1>11 DEF Reported, FlushReports
<1> QED BY <1>3, <1>6, <1>12 DEF IInv, QueueBounded

(* Steps of flush leave the calls alone.                                   *)
LEMMA FlushLeaves ==
  ASSUME IInv, UNCHANGED <<write, waiting, group, queuedWrites, pendingBytes, droppedWrites,
                           rejectedWrites, accepted, stored>>
  PROVE  Accounting' /\ WithinBounds' /\ InOrder' /\ Located' /\ StoredSound'
PROOF
<1>1. TypeOK /\ Accounting /\ WithinBounds /\ InOrder /\ Located /\ StoredSound
  BY DEF IInv, QueueBounded
<1>2. InOrder' /\ Located' /\ StoredSound'
  BY <1>1, QueueLeft
<1>3. Pending' = Pending
  BY DEF Pending
<1>4. Accounting'
  <2> HIDE DEF Pending
  <2> QED BY <1>1, <1>3 DEF Accounting
<1>5. WithinBounds'
  <2> HIDE DEF Pending
  <2> QED BY <1>1, <1>3 DEF WithinBounds
<1> QED BY <1>2, <1>4, <1>5

(* flush is called.                                                        *)
LEMMA CallFlushKeeps ==
  ASSUME IInv, NEW f \in Flushes, CallFlush(f)
  PROVE  IInv'
PROOF
<1>1. TypeOK /\ Located /\ Reported
  BY DEF IInv, QueueBounded
<1>2. /\ flush[f].pc = "none"
      /\ flush' = [flush EXCEPT ![f].pc = "queued", ![f].earlier = Len(accepted)]
      /\ flushQueue' = Append(flushQueue, f)
      /\ UNCHANGED <<write, waiting, group, queuedWrites, pendingBytes, droppedWrites,
                     rejectedWrites, unreported, causes, accepted, stored, told>>
  BY DEF CallFlush, counters, report, history
<1>3. Accounting' /\ WithinBounds' /\ InOrder' /\ Located' /\ StoredSound'
  BY <1>2, FlushLeaves
<1>4. flush \in [Flushes -> FlushCalls] /\ Len(accepted) \in Nat
  BY <1>1, LenProperties DEF TypeOK
<1>5. [flush[f] EXCEPT !.pc = "queued", !.earlier = Len(accepted)] \in FlushCalls
  BY <1>4, Zenon DEF FlushCalls
<1>6. flush' \in [Flushes -> FlushCalls]
  BY <1>2, <1>4, <1>5
<1>7. TypeOK'
  BY <1>1, <1>2, <1>6, AppendProperties DEF TypeOK
<1>8. Reported'
  <2>1. Pending' = Pending /\ Failed' = Failed
    BY <1>2 DEF Pending, Failed
  <2>2. Pending' \cap {accepted[i] : i \in 1 .. Len(accepted)} \subseteq Pending
    BY <2>1
  <2>3. Len(accepted) <= Len(accepted') /\ accepted' \in Seq(Writes)
    BY <1>1, <1>2, <1>4 DEF TypeOK
  <2>4. \A i \in 1 .. Len(accepted) : accepted'[i] = accepted[i]
    BY <1>2
  <2>5. flush'[f].pc = "queued" /\ flush'[f].earlier = Len(accepted)
    BY <1>2, <1>4 DEF FlushCalls
  <2>6. \A g \in Flushes : g # f => flush'[g] = flush[g]
    BY <1>2, <1>4
  <2>7. \A g \in Flushes : /\ flush'[g].pc = "settled" => flush[g].pc = "settled"
                           /\ flush'[g].earlier = flush[g].earlier \/
                              (flush'[g].pc # "settled" /\ flush'[g].earlier = Len(accepted))
    BY <2>5, <2>6
  <2>8. UNCHANGED <<unreported, causes, told>>
    BY <1>2
  <2> QED BY <1>1, <2>1, <2>2, <2>3, <2>4, <2>7, <2>8, ReportsLeft
<1> QED BY <1>3, <1>7, <1>8 DEF IInv, QueueBounded

(* flush waits for the calls that are pending.                             *)
LEMMA FlushWaitsKeeps ==
  ASSUME IInv, NEW f \in Flushes, FlushWaits(f)
  PROVE  IInv'
PROOF
<1>1. TypeOK /\ Located /\ Reported
  BY DEF IInv, QueueBounded
<1>2. /\ flush' = [flush EXCEPT ![f].pc = "waiting", ![f].awaited = Pending]
      /\ UNCHANGED <<write, waiting, group, queuedWrites, pendingBytes, droppedWrites,
                     rejectedWrites, unreported, causes, flushQueue, accepted, stored, told>>
  BY DEF FlushWaits, counters, report, history
<1>3. Accounting' /\ WithinBounds' /\ InOrder' /\ Located' /\ StoredSound'
  BY <1>2, FlushLeaves
<1>4. flush \in [Flushes -> FlushCalls] /\ Pending \in SUBSET Writes /\ Len(accepted) \in Nat
  BY <1>1, LenProperties DEF TypeOK, Pending
<1> HIDE DEF Pending
<1>5. [flush[f] EXCEPT !.pc = "waiting", !.awaited = Pending] \in FlushCalls
  BY <1>4, Zenon DEF FlushCalls
<1>6. flush' \in [Flushes -> FlushCalls]
  BY <1>2, <1>4, <1>5
<1>7. TypeOK'
  BY <1>1, <1>2, <1>6 DEF TypeOK
<1>8. Reported'
  <2>1. Pending' = Pending /\ Failed' = Failed
    BY <1>2 DEF Pending, Failed
  <2>2. Pending' \cap {accepted[i] : i \in 1 .. Len(accepted)} \subseteq Pending
    BY <2>1
  <2>3. Len(accepted) <= Len(accepted') /\ accepted' \in Seq(Writes)
    BY <1>1, <1>2, <1>4 DEF TypeOK
  <2>4. \A i \in 1 .. Len(accepted) : accepted'[i] = accepted[i]
    BY <1>2
  <2>5. flush'[f].pc = "waiting" /\ flush'[f].earlier = flush[f].earlier
    BY <1>2, <1>4 DEF FlushCalls
  <2>6. \A g \in Flushes : g # f => flush'[g] = flush[g]
    BY <1>2, <1>4
  <2>7. \A g \in Flushes : /\ flush'[g].pc = "settled" => flush[g].pc = "settled"
                           /\ flush'[g].earlier = flush[g].earlier \/
                              (flush'[g].pc # "settled" /\ flush'[g].earlier = Len(accepted))
    BY <2>5, <2>6
  <2>8. UNCHANGED <<unreported, causes, told>>
    BY <1>2
  <2> QED BY <1>1, <2>1, <2>2, <2>3, <2>4, <2>7, <2>8, ReportsLeft
<1> QED BY <1>3, <1>7, <1>8 DEF IInv, QueueBounded

(* flush returns and reports the failures.                                 *)
LEMMA FlushReturnsKeeps ==
  ASSUME IInv, NEW f \in Flushes, FlushReturns(f)
  PROVE  IInv'
PROOF
<1>1. TypeOK /\ Located /\ Reported
  BY DEF IInv, QueueBounded
<1>2. /\ flushQueue # <<>> /\ Pending = {}
      /\ flush' = [flush EXCEPT ![f].pc = "settled"]
      /\ told' = told + unreported /\ flushQueue' = Tail(flushQueue)
      /\ unreported' = 0 /\ causes' = <<>>
      /\ UNCHANGED <<write, waiting, group, queuedWrites, pendingBytes, droppedWrites,
                     rejectedWrites, accepted, stored>>
  BY DEF FlushReturns, AtLoop, counters, CausesLeft
<1>3. Accounting' /\ WithinBounds' /\ InOrder' /\ Located' /\ StoredSound'
  BY <1>2, FlushLeaves
<1>4. flush \in [Flushes -> FlushCalls] /\ told \in Nat /\ unreported \in Nat
  BY <1>1 DEF TypeOK
<1>5. [flush[f] EXCEPT !.pc = "settled"] \in FlushCalls
  BY <1>4, Zenon DEF FlushCalls
<1>6. flush' \in [Flushes -> FlushCalls]
  BY <1>2, <1>4, <1>5
<1>7. causes' \in Seq(Writes) /\ Len(causes') = 0 /\ DOMAIN causes' = {}
  BY <1>2, EmptySeq
<1>8. TypeOK'
  <2>1. flushQueue' \in Seq(Flushes)
    BY <1>1, <1>2, HeadTailProperties DEF TypeOK
  <2>2. told' \in Nat /\ unreported' \in Nat
    BY <1>2, <1>4
  <2> QED BY <1>1, <1>2, <1>6, <1>7, <2>1, <2>2 DEF TypeOK
<1>9. Pending' = {} /\ Failed' = Failed
  BY <1>2 DEF Pending, Failed
<1>10. Cardinality(Failed') = unreported' + told'
  <2> HIDE DEF Failed
  <2> QED BY <1>1, <1>2, <1>4, <1>9 DEF Reported, FlushReports
<1>11. Len(causes') = Min({unreported', MaxCauses})
  <2>1. 0 \in Nat /\ MaxCauses \in Nat /\ 0 <= MaxCauses
    BY QueueAssumption
  <2>2. Min({0, MaxCauses}) = 0
    BY <2>1, MinOfTwo
  <2> QED BY <1>2, <1>7, <2>2
<1>12. ToSet(causes') \subseteq Failed'
  BY <1>7 DEF ToSet
<1>13. \A i : ~Contains(causes', i)
  BY <1>7 DEF Contains
<1>14. \A g \in Flushes : flush'[g].earlier <= Len(accepted')
  <2>1. \A g \in Flushes : flush'[g].earlier = flush[g].earlier
    BY <1>2, <1>4 DEF FlushCalls
  <2> QED BY <1>1, <1>2, <2>1 DEF Reported
<1> HIDE DEF Pending, Failed
<1>15. Reported'
  BY <1>9, <1>10, <1>11, <1>12, <1>13, <1>14 DEF Reported, FlushReports
<1> QED BY <1>3, <1>8, <1>15 DEF IInv, QueueBounded

(***************************************************************************)
(* The invariant.                                                          *)
(***************************************************************************)
(* A new queue is empty.                                                   *)
LEMMA InitKeeps == Init => IInv
PROOF
<1> SUFFICES ASSUME Init PROVE IInv
  OBVIOUS
<1> USE DEF Init
<1>1. Len(<<>>) = 0 /\ DOMAIN <<>> = {} /\ <<>> \in Seq(Writes) /\ <<>> \in Seq(Flushes)
  BY EmptySeq
<1>2. \A w \in Writes : write[w] = "none"
  OBVIOUS
<1>3. Pending = {} /\ Failed = {}
  BY <1>2 DEF Pending, Failed
<1>4. Cardinality({}) = 0
  BY FS_EmptySet
<1>5. TypeOK
  <2>1. [pc |-> "none", awaited |-> {}, earlier |-> 0] \in FlushCalls
    BY DEF FlushCalls
  <2>2. flush \in [Flushes -> FlushCalls]
    BY <2>1
  <2> QED BY <1>1, <2>2 DEF TypeOK
<1>6. Accounting
  <2>1. {w \in Writes : write[w] = "dropped"} = {} /\ {w \in Writes : write[w] = "rejected"} = {}
    BY <1>2
  <2> HIDE DEF Pending
  <2> QED BY <1>3, <1>4, <2>1, BytesOfNone DEF Accounting
<1>7. WithinBounds
  <2>1. \A w \in Confirmed : write[w] # "dropped"
    BY <1>2, QueueAssumption
  <2> HIDE DEF Pending
  <2> QED BY <1>1, <1>3, <1>4, <2>1, BytesOfNone, QueueAssumption DEF WithinBounds
<1>8. InOrder /\ Located /\ StoredSound
  BY <1>1, <1>2 DEF InOrder, Handled, Located, StoredSound
<1>9. Reported
  <2>1. Len(causes) = Min({unreported, MaxCauses})
    BY <1>1, QueueAssumption, MinOfTwo
  <2>2. \A f \in Flushes : flush[f].pc = "none" /\ flush[f].earlier = 0
    OBVIOUS
  <2> HIDE DEF Failed
  <2> QED BY <1>1, <1>3, <1>4, <2>1, <2>2 DEF Reported, FlushReports, ToSet
<1> QED BY <1>5, <1>6, <1>7, <1>8, <1>9 DEF IInv, QueueBounded

(* An event is submitted.                                                  *)
LEMMA SubmitKeeps ==
  ASSUME IInv, NEW w \in Writes, Submit(w)
  PROVE  IInv'
PROOF
<1>1. write[w] = "none" /\ UNCHANGED <<group, report, flushing, stored, told>>
  BY DEF Submit
<1>2. CASE CountFull \/ BytesFull(w)
  <2>1. Drop(w) \/ Reject(w)
    BY <1>2 DEF Submit
  <2>2. CASE Drop(w)
    <3>1. Overflows(w, "dropped")
      BY <1>1, <2>2 DEF Overflows, Drop, Droppable, history
    <3> QED BY <3>1, OverflowKeeps
  <2>3. CASE Reject(w)
    <3>1. Overflows(w, "rejected")
      BY <1>1, <2>3 DEF Overflows, Reject, history
    <3> QED BY <3>1, OverflowKeeps
  <2> QED BY <2>1, <2>2, <2>3
<1>3. CASE ~(CountFull \/ BytesFull(w))
  <2>1. Accept(w)
    BY <1>3 DEF Submit
  <2> QED BY <1>1, <1>3, <2>1, AcceptKeeps
<1> QED BY <1>2, <1>3

(* A step that changes nothing.                                            *)
LEMMA StutterKeeps ==
  ASSUME IInv, UNCHANGED vars
  PROVE  IInv'
PROOF
<1> USE DEF vars, counters, report, flushing, history
<1>1. TypeOK /\ Reported
  BY DEF IInv, QueueBounded
<1>2. Accounting' /\ WithinBounds' /\ InOrder' /\ Located' /\ StoredSound'
  BY FlushLeaves
<1>3. TypeOK'
  BY <1>1 DEF TypeOK
<1>4. Reported'
  BY <1>1 DEF Reported, FlushReports, Pending, Failed
<1> QED BY <1>2, <1>3, <1>4 DEF IInv, QueueBounded

(* The inductive invariant holds in every state the queue reaches.         *)
LEMMA QueueInvariant == Spec => []IInv
PROOF
<1>1. Init => IInv
  BY InitKeeps
<1>2. IInv /\ [Next]_vars => IInv'
  <2> SUFFICES ASSUME IInv, [Next]_vars PROVE IInv'
    OBVIOUS
  <2>1. ASSUME NEW w \in Writes, Submit(w) \/ TrackStored(w) \/ TrackFailed(w) PROVE IInv'
    BY <2>1, SubmitKeeps, TrackStoredKeeps, TrackFailedKeeps
  <2>2. CASE TakeGroup
    BY <2>2, TakeGroupKeeps
  <2>3. CASE GroupStored \/ GroupFailed
    BY <2>3, GroupStoredKeeps, GroupFailedKeeps
  <2>4. ASSUME NEW f \in Flushes, CallFlush(f) \/ FlushWaits(f) \/ FlushReturns(f) PROVE IInv'
    BY <2>4, CallFlushKeeps, FlushWaitsKeeps, FlushReturnsKeeps
  <2>5. CASE UNCHANGED vars
    BY <2>5, StutterKeeps
  <2> QED BY <2>1, <2>2, <2>3, <2>4, <2>5 DEF Next
<1> QED BY <1>1, <1>2, PTL DEF Spec

(* The counters describe the calls and the limits hold for the calls,      *)
(* whatever the sizes, the limits and the failures (enqueueWrite, drain).  *)
THEOREM QueueIsBounded == Spec => []QueueBounded
PROOF
<1>1. IInv => QueueBounded
  BY DEF IInv
<1> QED BY <1>1, QueueInvariant, PTL

(* Every failure is reported by one flush or waits for one, and a flush    *)
(* that has returned leaves nothing accepted before it (flush).            *)
THEOREM FlushReportsOnce == Spec => []FlushReports
PROOF
<1>1. IInv => FlushReports
  BY DEF IInv, Reported
<1> QED BY <1>1, QueueInvariant, PTL

(* A sequence whose elements are the last ones of another is its suffix.   *)
LEMMA SuffixByPosition ==
  ASSUME NEW S, NEW s \in Seq(S), NEW t \in Seq(S), Len(t) - Len(s) \in Nat,
         \A i \in 1 .. Len(s) : t[Len(t) - Len(s) + i] = s[i]
  PROVE  IsSuffix(s, t)
PROOF
<1>1. Len(s) \in Nat /\ Len(t) \in Nat
  BY LenProperties
<1> DEFINE p == [i \in 1 .. Len(s) |-> s[Len(s) - i + 1]]
           q == [i \in 1 .. Len(t) |-> t[Len(t) - i + 1]]
<1>2. Reverse(s) = p /\ Reverse(t) = q
  BY DEF Reverse
<1>3. /\ p \in Seq(S) /\ q \in Seq(S) /\ Len(p) = Len(s) /\ Len(q) = Len(t)
  <2>1. \A i \in 1 .. Len(s) : s[Len(s) - i + 1] \in S
    BY <1>1, ElementOfSeq
  <2>2. \A i \in 1 .. Len(t) : t[Len(t) - i + 1] \in S
    BY <1>1, ElementOfSeq
  <2> QED BY <1>1, <2>1, <2>2
<1>4. \A i \in 1 .. Len(s) : p[i] = q[i]
  <2> SUFFICES ASSUME NEW i \in 1 .. Len(s) PROVE p[i] = q[i]
    OBVIOUS
  <2>1. i \in 1 .. Len(t) /\ Len(s) - i + 1 \in 1 .. Len(s)
    BY <1>1
  <2>2. t[Len(t) - Len(s) + (Len(s) - i + 1)] = s[Len(s) - i + 1]
    BY <2>1
  <2>3. Len(t) - Len(s) + (Len(s) - i + 1) = Len(t) - i + 1
    BY <1>1
  <2> QED BY <2>1, <2>2, <2>3
<1> HIDE DEF p, q
<1>5. SubSeq(q, 1, Len(s)) = p
  <2>1. Len(s) \in 0 .. Len(q) /\ Len(s) <= Len(q)
    BY <1>1, <1>3
  <2>2. \A i \in 1 .. Len(s) : i \in 1 .. Len(q) /\ q[i] \in S
    BY <1>1, <1>3, <2>1, ElementOfSeq
  <2>3. /\ SubSeq(q, 1, Len(s)) \in Seq(S)
        /\ Len(SubSeq(q, 1, Len(s))) = IF 1 <= Len(s) THEN Len(s) - 1 + 1 ELSE 0
        /\ \A i \in 1 .. Len(s) - 1 + 1 : SubSeq(q, 1, Len(s))[i] = q[1 + i - 1]
    BY <1>1, <1>3, <2>2, SubSeqProperties
  <2>4. Len(SubSeq(q, 1, Len(s))) = Len(p) /\ (\A i \in 1 .. Len(p) : SubSeq(q, 1, Len(s))[i] = p[i])
    BY <1>1, <1>3, <1>4, <2>3
  <2> QED BY <1>3, <2>3, <2>4, SeqEqual
<1>6. IsPrefix(p, q)
  BY <1>1, <1>3, <1>5 DEF IsPrefix
<1> QED BY <1>2, <1>6 DEF IsSuffix

(* Events reach the storage in the order of acceptance, at most once, and  *)
(* those of calls that succeed do reach it (drain).                        *)
THEOREM EventsStoredInOrder == Spec => []StoredInOrder
PROOF
<1>1. ASSUME IInv PROVE StoredInOrder
  <2>1. TypeOK /\ InOrder /\ StoredSound
    BY <1>1 DEF IInv, QueueBounded
  <2>2. /\ group \in Seq(Writes) /\ waiting \in Seq(Writes) /\ accepted \in Seq(Writes)
        /\ Len(group) \in Nat /\ Len(waiting) \in Nat /\ Len(accepted) \in Nat
    BY <2>1, LenProperties DEF TypeOK
  <2>3. /\ InFlight \in Seq(Writes) /\ Len(InFlight) = Len(group) + Len(waiting)
        /\ \A i \in 1 .. Len(group) + Len(waiting) :
             InFlight[i] = IF i <= Len(group) THEN group[i] ELSE waiting[i - Len(group)]
    BY <2>2, ConcatProperties DEF InFlight
  <2> HIDE DEF InFlight
  <2>4. ASSUME NEW i \in 1 .. Len(InFlight) PROVE accepted[Handled + i] = InFlight[i]
    <3>1. CASE i <= Len(group)
      <4>1. i \in 1 .. Len(group)
        BY <2>2, <2>3, <3>1
      <4> QED BY <2>1, <2>3, <3>1, <4>1 DEF InOrder
    <3>2. CASE i > Len(group)
      <4>1. i - Len(group) \in 1 .. Len(waiting) /\ ~(i <= Len(group))
        BY <2>2, <2>3, <3>2
      <4>2. accepted[Handled + Len(group) + (i - Len(group))] = waiting[i - Len(group)]
        BY <2>1, <4>1 DEF InOrder
      <4>3. Handled + Len(group) + (i - Len(group)) = Handled + i
        BY <2>1, <2>2, <2>3 DEF InOrder
      <4> QED BY <2>3, <4>1, <4>2, <4>3
    <3> QED BY <2>2, <2>3, <3>1, <3>2
  <2>5. Handled = Len(accepted) - Len(InFlight) /\ Handled \in Nat /\ Len(InFlight) \in Nat
    BY <2>1, <2>2, <2>3 DEF Handled, InOrder
  <2>6. IsSuffix(InFlight, accepted)
    BY <2>2, <2>3, <2>4, <2>5, SuffixByPosition
  <2>7. \A i, j \in 1 .. Len(stored) : i < j =>
          \E k, l \in 1 .. Len(accepted) : k < l /\ accepted[k] = stored[i] /\ accepted[l] = stored[j]
    <3>1. \A k \in 1 .. Handled : k \in 1 .. Len(accepted)
      BY <2>2, <2>5
    <3>2. \A i, j \in 1 .. Len(stored) : i < j =>
            \E k, l \in 1 .. Handled : k < l /\ accepted[k] = stored[i] /\ accepted[l] = stored[j]
      BY <2>1 DEF StoredSound
    <3> HIDE DEF Handled
    <3> QED BY <3>1, <3>2
  <2> QED BY <2>1, <2>6, <2>7 DEF StoredInOrder, StoredSound
<1>2. IInv => StoredInOrder
  BY <1>1
<1> QED BY <1>2, QueueInvariant, PTL
===============================================================================
