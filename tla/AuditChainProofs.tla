--------------------------- MODULE AuditChainProofs ---------------------------
(***************************************************************************)
(* Proofs about AuditChain and AuditReaders, for any number of processes,  *)
(* groups, limits and interruptions: the directory stays recoverable,      *)
(* evidence is kept, the chain implements the log of AuditLog, and a       *)
(* diagnosis beside the writers tells the truth.                           *)
(***************************************************************************)
EXTENDS AuditReaders, SequenceTheorems, FiniteSetTheorems, WellFoundedInduction, TLAPS

(***************************************************************************)
(* First parts of sequences.                                               *)
(***************************************************************************)
(* The first n elements.                                                   *)
LEMMA FirstOf ==
  ASSUME NEW S, NEW s \in Seq(S), NEW n \in 0 .. Len(s)
  PROVE  /\ SubSeq(s, 1, n) \in Seq(S) /\ Len(SubSeq(s, 1, n)) = n
         /\ \A i \in 1 .. n : SubSeq(s, 1, n)[i] = s[i]
PROOF
<1>1. Len(s) \in Nat
  BY LenProperties
<1>2. \A j \in 1 .. n : s[j] \in S
  BY <1>1, ElementOfSeq
<1>3. /\ SubSeq(s, 1, n) \in Seq(S)
      /\ Len(SubSeq(s, 1, n)) = IF 1 <= n THEN n - 1 + 1 ELSE 0
      /\ \A i \in 1 .. n - 1 + 1 : SubSeq(s, 1, n)[i] = s[1 + i - 1]
  BY <1>1, <1>2, SubSeqProperties
<1> QED BY <1>1, <1>3

(* The elements after the first n.                                         *)
LEMMA RestOf ==
  ASSUME NEW S, NEW s \in Seq(S), NEW n \in 0 .. Len(s)
  PROVE  /\ SubSeq(s, n + 1, Len(s)) \in Seq(S) /\ Len(SubSeq(s, n + 1, Len(s))) = Len(s) - n
         /\ \A i \in 1 .. Len(s) - n : SubSeq(s, n + 1, Len(s))[i] = s[n + i]
PROOF
<1>1. Len(s) \in Nat
  BY LenProperties
<1>2. \A j \in n + 1 .. Len(s) : s[j] \in S
  BY <1>1, ElementOfSeq
<1>3. /\ SubSeq(s, n + 1, Len(s)) \in Seq(S)
      /\ Len(SubSeq(s, n + 1, Len(s))) = IF n + 1 <= Len(s) THEN Len(s) - (n + 1) + 1 ELSE 0
      /\ \A i \in 1 .. Len(s) - (n + 1) + 1 : SubSeq(s, n + 1, Len(s))[i] = s[n + 1 + i - 1]
  BY <1>1, <1>2, SubSeqProperties
<1> QED BY <1>1, <1>3

(* The first of the first.                                                 *)
LEMMA FirstOfFirst ==
  ASSUME NEW S, NEW s \in Seq(S), NEW n \in 0 .. Len(s), NEW m \in 0 .. n
  PROVE  SubSeq(SubSeq(s, 1, n), 1, m) = SubSeq(s, 1, m)
PROOF
<1> DEFINE t == SubSeq(s, 1, n)
<1>1. Len(s) \in Nat
  BY LenProperties
<1>2. t \in Seq(S) /\ Len(t) = n /\ (\A i \in 1 .. n : t[i] = s[i])
  BY FirstOf
<1> HIDE DEF t
<1>3. /\ SubSeq(t, 1, m) \in Seq(S) /\ Len(SubSeq(t, 1, m)) = m
      /\ \A i \in 1 .. m : SubSeq(t, 1, m)[i] = t[i]
  <2>1. m \in 0 .. Len(t)
    BY <1>2
  <2> QED BY <1>2, <2>1, FirstOf
<1>4. /\ SubSeq(s, 1, m) \in Seq(S) /\ Len(SubSeq(s, 1, m)) = m
      /\ \A i \in 1 .. m : SubSeq(s, 1, m)[i] = s[i]
  <2>1. m \in 0 .. Len(s)
    BY <1>1
  <2> QED BY <2>1, FirstOf
<1>5. \A i \in 1 .. m : SubSeq(t, 1, m)[i] = SubSeq(s, 1, m)[i]
  BY <1>2, <1>3, <1>4
<1>6. SubSeq(t, 1, m) = SubSeq(s, 1, m)
  BY <1>3, <1>4, <1>5, SeqEqual
<1> QED BY <1>6 DEF t

(* Two sequences one after the other, and the first elements of them.      *)
LEMMA Joined ==
  ASSUME NEW S, NEW s \in Seq(S), NEW t \in Seq(S)
  PROVE  /\ s \o t \in Seq(S) /\ Len(s \o t) = Len(s) + Len(t)
         /\ \A i \in 1 .. Len(s) : (s \o t)[i] = s[i]
         /\ \A i \in 1 .. Len(t) : (s \o t)[Len(s) + i] = t[i]
PROOF
<1>1. Len(s) \in Nat /\ Len(t) \in Nat
  BY LenProperties
<1>2. /\ s \o t \in Seq(S) /\ Len(s \o t) = Len(s) + Len(t)
      /\ \A i \in 1 .. Len(s) + Len(t) : (s \o t)[i] = IF i <= Len(s) THEN s[i] ELSE t[i - Len(s)]
  BY ConcatProperties
<1> QED BY <1>1, <1>2

(* The first elements of a sequence followed by another.                   *)
LEMMA FirstOfJoined ==
  ASSUME NEW S, NEW s \in Seq(S), NEW t \in Seq(S)
  PROVE  /\ \A n \in 0 .. Len(s) : SubSeq(s \o t, 1, n) = SubSeq(s, 1, n)
         /\ \A n \in 0 .. Len(t) : SubSeq(s \o t, 1, Len(s) + n) = s \o SubSeq(t, 1, n)
PROOF
<1> DEFINE j == s \o t
<1>1. Len(s) \in Nat /\ Len(t) \in Nat
  BY LenProperties
<1>2. /\ j \in Seq(S) /\ Len(j) = Len(s) + Len(t)
      /\ \A i \in 1 .. Len(s) : j[i] = s[i]
      /\ \A i \in 1 .. Len(t) : j[Len(s) + i] = t[i]
  BY Joined
<1> HIDE DEF j
<1>3. ASSUME NEW n \in 0 .. Len(s) PROVE SubSeq(j, 1, n) = SubSeq(s, 1, n)
  <2>1. n \in 0 .. Len(j)
    BY <1>1, <1>2
  <2>2. /\ SubSeq(j, 1, n) \in Seq(S) /\ Len(SubSeq(j, 1, n)) = n
        /\ \A i \in 1 .. n : SubSeq(j, 1, n)[i] = j[i]
    BY <1>2, <2>1, FirstOf
  <2>3. /\ SubSeq(s, 1, n) \in Seq(S) /\ Len(SubSeq(s, 1, n)) = n
        /\ \A i \in 1 .. n : SubSeq(s, 1, n)[i] = s[i]
    BY FirstOf
  <2>4. \A i \in 1 .. n : SubSeq(j, 1, n)[i] = SubSeq(s, 1, n)[i]
    BY <1>1, <1>2, <2>2, <2>3
  <2> QED BY <2>2, <2>3, <2>4, SeqEqual
<1>4. ASSUME NEW n \in 0 .. Len(t) PROVE SubSeq(j, 1, Len(s) + n) = s \o SubSeq(t, 1, n)
  <2> DEFINE u == SubSeq(t, 1, n)
  <2>1. Len(s) + n \in 0 .. Len(j)
    BY <1>1, <1>2
  <2>2. /\ SubSeq(j, 1, Len(s) + n) \in Seq(S) /\ Len(SubSeq(j, 1, Len(s) + n)) = Len(s) + n
        /\ \A i \in 1 .. Len(s) + n : SubSeq(j, 1, Len(s) + n)[i] = j[i]
    BY <1>2, <2>1, FirstOf
  <2>3. u \in Seq(S) /\ Len(u) = n /\ (\A i \in 1 .. n : u[i] = t[i])
    BY FirstOf
  <2> HIDE DEF u
  <2>4. /\ s \o u \in Seq(S) /\ Len(s \o u) = Len(s) + n
        /\ \A i \in 1 .. Len(s) : (s \o u)[i] = s[i]
        /\ \A i \in 1 .. n : (s \o u)[Len(s) + i] = u[i]
    <3>1. /\ s \o u \in Seq(S) /\ Len(s \o u) = Len(s) + Len(u)
          /\ \A i \in 1 .. Len(s) : (s \o u)[i] = s[i]
          /\ \A i \in 1 .. Len(u) : (s \o u)[Len(s) + i] = u[i]
      <4>1. u \in Seq(S)
        BY <2>3
      <4> QED BY <4>1, Joined
    <3> QED BY <2>3, <3>1
  <2>5. ASSUME NEW i \in 1 .. Len(s) + n PROVE SubSeq(j, 1, Len(s) + n)[i] = (s \o u)[i]
    <3>1. CASE i <= Len(s)
      BY <1>1, <1>2, <2>2, <2>4, <3>1
    <3>2. CASE i > Len(s)
      <4>1. PICK k \in 1 .. n : i = Len(s) + k
        <5>1. i - Len(s) \in 1 .. n
          BY <1>1, <3>2
        <5> QED BY <1>1, <5>1
      <4>2. k \in 1 .. Len(t)
        BY <1>1
      <4>3. j[Len(s) + k] = t[k]
        BY <1>2, <4>2
      <4>4. (s \o u)[Len(s) + k] = u[k] /\ u[k] = t[k]
        BY <2>3, <2>4
      <4> QED BY <2>2, <4>1, <4>3, <4>4
    <3>3. i \in Int /\ Len(s) \in Int
      BY <1>1
    <3>4. i <= Len(s) \/ i > Len(s)
      BY <3>3
    <3> QED BY <3>1, <3>2, <3>4
  <2>6. SubSeq(j, 1, Len(s) + n) = s \o u
    BY <2>2, <2>4, <2>5, SeqEqual
  <2> QED BY <2>6 DEF u
<1> QED BY <1>3, <1>4 DEF j

(* The last element.                                                       *)
LEMMA LastOf ==
  ASSUME NEW S, NEW s \in Seq(S), s # <<>>
  PROVE  Len(s) \in Nat /\ Len(s) >= 1 /\ Last(s) = s[Len(s)] /\ Last(s) \in S
PROOF
<1>1. Len(s) \in Nat /\ Len(s) # 0
  BY LenProperties, EmptySeq
<1>2. Len(s) \in 1 .. Len(s)
  BY <1>1
<1> QED BY <1>1, <1>2, ElementOfSeq DEF Last

(* The greatest of some numbers.                                           *)
LEMMA GreatestOf ==
  ASSUME NEW n \in Nat, NEW S \in SUBSET (1 .. n), S # {}
  PROVE  Max(S) \in S
PROOF
<1> DEFINE T == {n - m : m \in S}
<1>1. T \subseteq Nat /\ T # {}
  <2>1. ASSUME NEW m \in S PROVE n - m \in Nat
    <3>1. m \in 1 .. n
      OBVIOUS
    <3> QED BY <3>1
  <2>2. PICK m \in S : TRUE
    OBVIOUS
  <2>3. n - m \in T
    OBVIOUS
  <2> QED BY <2>1, <2>3
<1>2. \E x \in T : \A y \in T : ~ (<<y, x>> \in OpToRel(<, Nat))
  <2> HIDE DEF T
  <2> QED BY <1>1, NatLessThanWellFounded, WFMin
<1>3. PICK x \in T : \A y \in T : ~(y < x)
  <2> HIDE DEF T
  <2> QED BY <1>1, <1>2 DEF OpToRel
<1>4. PICK g \in S : x = n - g
  OBVIOUS
<1>5. ASSUME NEW m \in S PROVE g >= m
  <2>1. n - m \in T /\ m \in Int /\ g \in Int
    OBVIOUS
  <2>2. ~(n - m < n - g)
    <3> HIDE DEF T
    <3> QED BY <1>3, <1>4, <2>1
  <2> QED BY <2>1, <2>2
<1>6. Max(S) = CHOOSE m \in S : \A k \in S : m >= k
  BY DEF Max
<1> QED BY <1>4, <1>5, <1>6

(* The greater of two numbers.                                             *)
LEMMA MaxOfTwo ==
  ASSUME NEW a \in Int, NEW b \in Int
  PROVE  Max({a, b}) = IF a >= b THEN a ELSE b
PROOF
<1>1. \E x \in {a, b} : \A y \in {a, b} : x >= y
  OBVIOUS
<1> QED BY <1>1 DEF Max

(***************************************************************************)
(* Counting events.                                                        *)
(***************************************************************************)
(* A numbered set, moved along.                                            *)
LEMMA MovedCounted ==
  ASSUME NEW S \in SUBSET Int, IsFiniteSet(S), NEW n \in Int
  PROVE  LET moved == {n + i : i \in S}
         IN  IsFiniteSet(moved) /\ Cardinality(moved) = Cardinality(S)
PROOF
<1> DEFINE moved == {n + i : i \in S}
           f == [i \in S |-> n + i]
<1>1. f \in Bijection(S, moved)
  <2>1. f \in Surjection(S, moved)
    BY DEF Surjection
  <2>2. \A i, j \in S : f[i] = f[j] => i = j
    OBVIOUS
  <2>3. f \in [S -> moved]
    OBVIOUS
  <2> HIDE DEF f, moved
  <2>4. f \in Injection(S, moved)
    BY <2>2, <2>3 DEF Injection, IsInjective
  <2> QED BY <2>1, <2>4 DEF Bijection
<1> HIDE DEF f, moved
<1>2. IsFiniteSet(moved) /\ Cardinality(moved) = Cardinality(S)
  <2>1. ExistsBijection(S, moved)
    BY <1>1 DEF ExistsBijection
  <2> QED BY <2>1, FS_Bijection
<1> QED BY <1>2 DEF moved

(* Numbers from 1 on.                                                      *)
LEMMA IntervalCounted ==
  ASSUME NEW n \in Nat
  PROVE  IsFiniteSet(1 .. n) /\ Cardinality(1 .. n) = n
PROOF
<1>1. 1 \in Int /\ n \in Int
  OBVIOUS
<1>2. IsFiniteSet(1 .. n) /\ Cardinality(1 .. n) = IF 1 > n THEN 0 ELSE n - 1 + 1
  BY <1>1, FS_Interval
<1> QED BY <1>2

(* The log's operators are those of this module.                           *)
LEMMA SameCardinality == \A S : Log!Cardinality(S) = Cardinality(S)
PROOF
BY DEF Log!Cardinality, Cardinality

(* Where an event is in a sequence.                                        *)
Places(s, e) == {i \in 1 .. Len(s) : s[i] = e}

(* How often an event occurs in a history is a number.                     *)
LEMMA OccurrencesCounted ==
  ASSUME NEW s \in Histories, NEW e
  PROVE  /\ Places(s, e) \in SUBSET Nat /\ IsFiniteSet(Places(s, e))
         /\ Log!Occurrences(s, e) = Cardinality(Places(s, e)) /\ Log!Occurrences(s, e) \in Nat
PROOF
<1>1. Len(s) \in Nat
  BY LenProperties DEF Histories
<1>2. IsFiniteSet(Places(s, e)) /\ Places(s, e) \in SUBSET Nat
  BY <1>1, IntervalCounted, FS_Subset DEF Places
<1>3. Log!Occurrences(s, e) = Cardinality(Places(s, e))
  BY SameCardinality DEF Log!Occurrences, Places
<1> QED BY <1>2, <1>3, FS_CardinalityType

(* Occurrences in two sequences add up.                                    *)
LEMMA OccurrencesJoined ==
  ASSUME NEW s \in Histories, NEW t \in Histories, NEW e
  PROVE  Log!Occurrences(s \o t, e) = Log!Occurrences(s, e) + Log!Occurrences(t, e)
PROOF
<1>1. Len(s) \in Nat /\ Len(t) \in Nat
  BY LenProperties DEF Histories
<1>2. /\ s \o t \in Histories /\ Len(s \o t) = Len(s) + Len(t)
      /\ \A i \in 1 .. Len(s) : (s \o t)[i] = s[i]
      /\ \A i \in 1 .. Len(t) : (s \o t)[Len(s) + i] = t[i]
  BY Joined DEF Histories
<1> DEFINE moved == {Len(s) + i : i \in Places(t, e)}
<1>3. /\ IsFiniteSet(Places(s, e)) /\ IsFiniteSet(Places(t, e))
      /\ Places(s, e) \in SUBSET Nat /\ Places(t, e) \in SUBSET Nat
  BY OccurrencesCounted
<1>4. IsFiniteSet(moved) /\ Cardinality(moved) = Cardinality(Places(t, e))
  <2>1. Places(t, e) \in SUBSET Int /\ Len(s) \in Int
    BY <1>1, <1>3
  <2> QED BY <1>3, <2>1, MovedCounted
<1>5. Places(s \o t, e) = Places(s, e) \cup moved
  <2>1. ASSUME NEW i \in Places(s \o t, e) PROVE i \in Places(s, e) \cup moved
    <3>1. i \in 1 .. Len(s) + Len(t) /\ (s \o t)[i] = e
      BY <1>2 DEF Places
    <3>2. CASE i <= Len(s)
      BY <1>1, <1>2, <3>1, <3>2 DEF Places
    <3>3. CASE i > Len(s)
      <4>1. i - Len(s) \in 1 .. Len(t) /\ i = Len(s) + (i - Len(s))
        BY <1>1, <3>1, <3>3
      <4>2. i - Len(s) \in Places(t, e)
        BY <1>2, <3>1, <4>1 DEF Places
      <4> QED BY <4>1, <4>2
    <3> QED BY <1>1, <3>1, <3>2, <3>3
  <2>2. Places(s, e) \subseteq Places(s \o t, e)
    BY <1>1, <1>2 DEF Places
  <2>3. moved \subseteq Places(s \o t, e)
    BY <1>1, <1>2 DEF Places
  <2> HIDE DEF moved
  <2> QED BY <2>1, <2>2, <2>3
<1>6. Places(s, e) \cap moved = {}
  BY <1>1 DEF Places
<1> HIDE DEF moved
<1>7. Cardinality(Places(s, e) \cup moved) = Cardinality(Places(s, e)) + Cardinality(moved)
  <2>1. Cardinality(Places(s, e) \cup moved) =
          Cardinality(Places(s, e)) + Cardinality(moved) - Cardinality(Places(s, e) \cap moved)
    BY <1>3, <1>4, FS_Union
  <2>2. Cardinality(Places(s, e) \cap moved) = 0
    BY <1>6, FS_EmptySet
  <2>3. Cardinality(Places(s, e)) \in Nat /\ Cardinality(moved) \in Nat
    BY <1>3, <1>4, FS_CardinalityType
  <2> QED BY <2>1, <2>2, <2>3
<1>8. /\ Log!Occurrences(s, e) = Cardinality(Places(s, e))
      /\ Log!Occurrences(t, e) = Cardinality(Places(t, e))
      /\ Log!Occurrences(s \o t, e) = Cardinality(Places(s \o t, e))
  BY <1>2, OccurrencesCounted
<1> QED BY <1>4, <1>5, <1>7, <1>8

(* Nothing occurs in an empty sequence.                                    *)
LEMMA NoOccurrence == \A e : Log!Occurrences(<<>>, e) = 0
PROOF
<1>1. \A e : {i \in 1 .. Len(<<>>) : <<>>[i] = e} = {}
  BY EmptySeq
<1> QED BY <1>1, FS_EmptySet, SameCardinality DEF Log!Occurrences

(* The first part of a sequence and the rest of it.                        *)
LEMMA Parted ==
  ASSUME NEW S, NEW s \in Seq(S), NEW n \in 0 .. Len(s)
  PROVE  s = SubSeq(s, 1, n) \o SubSeq(s, n + 1, Len(s))
PROOF
<1>1. Len(s) \in Nat
  BY LenProperties
<1>2. 1 \in 1 .. Len(s) + 1 /\ n \in 1 - 1 .. Len(s) /\ Len(s) \in n .. Len(s)
  BY <1>1
<1>3. SubSeq(s, 1, n) \o SubSeq(s, n + 1, Len(s)) = SubSeq(s, 1, Len(s))
  BY <1>2, ConcatAdjacentSubSeq
<1> QED BY <1>3, SubSeqFull

(* A part of a sequence has no more of any event.                          *)
LEMMA OccurrencesOfFirst ==
  ASSUME NEW s \in Histories, NEW n \in 0 .. Len(s), NEW e
  PROVE  /\ Log!Occurrences(SubSeq(s, 1, n), e) \in Nat
         /\ Log!Occurrences(SubSeq(s, n + 1, Len(s)), e) \in Nat
         /\ Log!Occurrences(s, e) = Log!Occurrences(SubSeq(s, 1, n), e)
                                      + Log!Occurrences(SubSeq(s, n + 1, Len(s)), e)
PROOF
<1>1. SubSeq(s, 1, n) \in Histories /\ SubSeq(s, n + 1, Len(s)) \in Histories
  BY FirstOf, RestOf DEF Histories
<1>2. s = SubSeq(s, 1, n) \o SubSeq(s, n + 1, Len(s))
  BY Parted DEF Histories
<1>3. Log!Occurrences(SubSeq(s, 1, n) \o SubSeq(s, n + 1, Len(s)), e) =
        Log!Occurrences(SubSeq(s, 1, n), e) + Log!Occurrences(SubSeq(s, n + 1, Len(s)), e)
  BY <1>1, OccurrencesJoined
<1> QED BY <1>1, <1>2, <1>3, OccurrencesCounted

(***************************************************************************)
(* Bytes of lines.                                                         *)
(***************************************************************************)
(* A whole line, with its history, or a partial one.                       *)
Line == (Histories \ {<<>>}) \cup {Torn}

Marks(s) == UNION {{i} \X (1 .. LineBytes(s[i])) : i \in 1 .. Len(s)}

(* Every line has bytes.                                                   *)
LEMMA LineHasBytes ==
  ASSUME NEW r \in Line
  PROVE  LineBytes(r) \in Nat \ {0}
PROOF
<1>1. CASE r = Torn
  BY <1>1 DEF LineBytes
<1>2. CASE r # Torn
  <2>1. r \in Seq(Events) /\ r # <<>>
    BY <1>2 DEF Line, Histories
  <2>2. Last(r) \in Events
    BY <2>1, LastOf
  <2> QED BY <1>2, <2>2, ChainAssumption DEF LineBytes
<1> QED BY <1>1, <1>2

(* A byte is the position of its line and that in the line.                *)
LEMMA MarkOf ==
  ASSUME NEW s, NEW m
  PROVE  m \in Marks(s) <=>
           \E i \in 1 .. Len(s) : \E b \in 1 .. LineBytes(s[i]) : m = <<i, b>>
PROOF
BY DEF Marks

(* The bytes can be counted.                                               *)
LEMMA MarksCounted ==
  ASSUME NEW s \in Seq(Line)
  PROVE  IsFiniteSet(Marks(s)) /\ Bytes(s) = Cardinality(Marks(s)) /\ Bytes(s) \in Nat
PROOF
<1> DEFINE part == [i \in 1 .. Len(s) |-> {i} \X (1 .. LineBytes(s[i]))]
           parts == {{i} \X (1 .. LineBytes(s[i])) : i \in 1 .. Len(s)}
<1>1. Len(s) \in Nat
  BY LenProperties
<1>2. IsFiniteSet(1 .. Len(s))
  BY <1>1, IntervalCounted
<1>3. part \in Surjection(1 .. Len(s), parts)
  BY DEF Surjection
<1>4. IsFiniteSet(parts)
  <2> HIDE DEF part, parts
  <2> QED BY <1>2, <1>3, FS_Surjection
<1>5. ASSUME NEW i \in 1 .. Len(s) PROVE IsFiniteSet({i} \X (1 .. LineBytes(s[i])))
  <2>1. LineBytes(s[i]) \in Nat
    <3>1. s[i] \in Line
      BY ElementOfSeq
    <3> QED BY <3>1, LineHasBytes
  <2>2. IsFiniteSet(1 .. LineBytes(s[i])) /\ IsFiniteSet({i})
    BY <2>1, IntervalCounted, FS_Singleton
  <2> QED BY <2>2, FS_Product
<1>6. \A T \in parts : IsFiniteSet(T)
  BY <1>5
<1>7. IsFiniteSet(UNION parts)
  <2> HIDE DEF part, parts
  <2> QED BY <1>4, <1>6, FS_UNION
<1>8. Marks(s) = UNION parts /\ Bytes(s) = Cardinality(Marks(s))
  BY DEF Marks, Bytes
<1> QED BY <1>7, <1>8, FS_CardinalityType

(* Nothing has no bytes.                                                   *)
LEMMA NoBytes == Bytes(<<>>) = 0
PROOF
<1>1. Marks(<<>>) = {}
  <2>1. ~ \E i \in 1 .. Len(<<>>) : TRUE
    BY EmptySeq
  <2> QED BY <2>1, MarkOf
<1> QED BY <1>1, FS_EmptySet DEF Marks, Bytes

(* Only the sizes of the lines matter.                                     *)
LEMMA SameBytes ==
  ASSUME NEW s, NEW t, Len(s) = Len(t), \A i \in 1 .. Len(s) : LineBytes(s[i]) = LineBytes(t[i])
  PROVE  Bytes(s) = Bytes(t)
PROOF
<1>1. \A m : m \in Marks(s) <=> m \in Marks(t)
  BY MarkOf
<1>2. Marks(s) = Marks(t)
  BY <1>1
<1> QED BY <1>2 DEF Marks, Bytes

(* The bytes of two sequences of lines add up.                             *)
LEMMA BytesJoined ==
  ASSUME NEW s \in Seq(Line), NEW t \in Seq(Line)
  PROVE  Bytes(s \o t) = Bytes(s) + Bytes(t)
PROOF
<1> DEFINE j == s \o t
           move == [m \in Marks(t) |-> <<Len(s) + m[1], m[2]>>]
           moved == {<<Len(s) + m[1], m[2]>> : m \in Marks(t)}
<1>1. Len(s) \in Nat /\ Len(t) \in Nat
  BY LenProperties
<1>2. /\ j \in Seq(Line) /\ Len(j) = Len(s) + Len(t)
      /\ \A i \in 1 .. Len(s) : j[i] = s[i]
      /\ \A i \in 1 .. Len(t) : j[Len(s) + i] = t[i]
  BY Joined
<1> HIDE DEF j
<1>3. /\ IsFiniteSet(Marks(s)) /\ Bytes(s) = Cardinality(Marks(s))
      /\ IsFiniteSet(Marks(t)) /\ Bytes(t) = Cardinality(Marks(t))
      /\ Bytes(j) = Cardinality(Marks(j))
      /\ Bytes(s) \in Nat /\ Bytes(t) \in Nat
  BY <1>2, MarksCounted
<1>4. ASSUME NEW m \in Marks(t) PROVE m[1] \in 1 .. Len(t) /\ m = <<m[1], m[2]>>
  BY MarkOf
<1>5. IsFiniteSet(moved) /\ Cardinality(moved) = Cardinality(Marks(t))
  <2>1. move \in Surjection(Marks(t), moved)
    BY DEF Surjection
  <2>2. move \in Injection(Marks(t), moved)
    <3>1. ASSUME NEW a \in Marks(t), NEW b \in Marks(t), move[a] = move[b] PROVE a = b
      <4>1. Len(s) + a[1] = Len(s) + b[1] /\ a[2] = b[2]
        BY <3>1
      <4>2. a[1] \in Int /\ b[1] \in Int
        BY <1>1, <1>4
      <4>3. a[1] = b[1]
        BY <1>1, <4>1, <4>2
      <4> QED BY <1>4, <4>1, <4>3
    <3>2. move \in [Marks(t) -> moved]
      OBVIOUS
    <3>3. DOMAIN move = Marks(t)
      OBVIOUS
    <3> HIDE DEF move, moved
    <3> QED BY <3>1, <3>2, <3>3 DEF Injection, IsInjective
  <2> HIDE DEF move, moved
  <2>3. ExistsBijection(Marks(t), moved)
    BY <2>1, <2>2 DEF ExistsBijection, Bijection
  <2> QED BY <1>3, <2>3, FS_Bijection
<1>6. Marks(j) = Marks(s) \cup moved
  <2>1. ASSUME NEW m \in Marks(j) PROVE m \in Marks(s) \cup moved
    <3>1. PICK i \in 1 .. Len(j) : \E b \in 1 .. LineBytes(j[i]) : m = <<i, b>>
      BY MarkOf
    <3>2. PICK b \in 1 .. LineBytes(j[i]) : m = <<i, b>>
      BY <3>1
    <3>3. CASE i <= Len(s)
      <4>1. i \in 1 .. Len(s)
        BY <1>1, <1>2, <3>3
      <4> QED BY <1>2, <3>2, <4>1, MarkOf
    <3>4. CASE i > Len(s)
      <4>1. i - Len(s) \in 1 .. Len(t) /\ i = Len(s) + (i - Len(s))
        BY <1>1, <1>2, <3>4
      <4>2. j[i] = t[i - Len(s)]
        BY <1>2, <4>1
      <4>3. <<i - Len(s), b>> \in Marks(t)
        BY <3>2, <4>1, <4>2, MarkOf
      <4>4. m = <<Len(s) + <<i - Len(s), b>>[1], <<i - Len(s), b>>[2]>>
        BY <3>2, <4>1
      <4> QED BY <4>3, <4>4
    <3>5. i <= Len(s) \/ i > Len(s)
      BY <1>1, <1>2
    <3> QED BY <3>3, <3>4, <3>5
  <2>2. ASSUME NEW m \in Marks(s) PROVE m \in Marks(j)
    <3>1. PICK i \in 1 .. Len(s) : \E b \in 1 .. LineBytes(s[i]) : m = <<i, b>>
      BY MarkOf
    <3>2. i \in 1 .. Len(j) /\ j[i] = s[i]
      BY <1>1, <1>2
    <3> QED BY <3>1, <3>2, MarkOf
  <2>3. ASSUME NEW m \in moved PROVE m \in Marks(j)
    <3>1. PICK o \in Marks(t) : m = <<Len(s) + o[1], o[2]>>
      OBVIOUS
    <3>2. PICK i \in 1 .. Len(t) : \E b \in 1 .. LineBytes(t[i]) : o = <<i, b>>
      BY MarkOf
    <3>3. PICK b \in 1 .. LineBytes(t[i]) : o = <<i, b>>
      BY <3>2
    <3>4. m = <<Len(s) + i, b>>
      BY <3>1, <3>3
    <3>5. Len(s) + i \in 1 .. Len(j) /\ j[Len(s) + i] = t[i]
      BY <1>1, <1>2
    <3> QED BY <3>4, <3>5, MarkOf
  <2> HIDE DEF moved
  <2> QED BY <2>1, <2>2, <2>3
<1>7. Marks(s) \cap moved = {}
  <2>1. ASSUME NEW m \in Marks(s), m \in moved PROVE FALSE
    <3>1. PICK i \in 1 .. Len(s) : \E b \in 1 .. LineBytes(s[i]) : m = <<i, b>>
      BY MarkOf
    <3>2. PICK o \in Marks(t) : m = <<Len(s) + o[1], o[2]>>
      BY <2>1
    <3>3. i = Len(s) + o[1]
      BY <3>1, <3>2
    <3> QED BY <1>1, <1>4, <3>3
  <2> HIDE DEF moved
  <2> QED BY <2>1
<1> HIDE DEF move, moved
<1>8. Cardinality(Marks(s) \cup moved) =
        Cardinality(Marks(s)) + Cardinality(moved) - Cardinality(Marks(s) \cap moved)
  BY <1>3, <1>5, FS_Union
<1>9. Cardinality(Marks(s) \cap moved) = 0
  BY <1>7, FS_EmptySet
<1>10. Bytes(j) = Bytes(s) + Bytes(t)
  BY <1>3, <1>5, <1>6, <1>8, <1>9
<1> QED BY <1>10 DEF j

(***************************************************************************)
(* The directory: p are the published segments, fs the files.  Everything  *)
(* readable on disk, what has been pruned included, is one history: full,  *)
(* whose first part is published.  The records of a file that begins at f  *)
(* are its prefixes from length f on.                                      *)
(***************************************************************************)
PrefixOf(h, full) == Len(h) <= Len(full) /\ h = SubSeq(full, 1, Len(h))

LastFile(p, fs) == fs[FileOf(Last(p))]

Orphaned(p, fs) == NameAfter(HeadOf(p)) \in DOMAIN fs

(* The lines after the published ones.                                     *)
Behind(p, fs) ==
  IF p = <<>> THEN <<>>
  ELSE SubSeq(LastFile(p, fs), RecordCount(Last(p)) + 1, Len(LastFile(p, fs)))

Loose(p, fs) == IF Orphaned(p, fs) THEN fs[NameAfter(HeadOf(p))] ELSE Behind(p, fs)

(* Segments lie behind each other in the full history.                     *)
Cut(p, full) ==
  /\ Len(p) <= MaxSegments
  /\ \A i \in 1 .. Len(p) :
       /\ Len(Initial) <= Len(p[i].start)
       /\ Len(p[i].start) < Len(p[i].head)
       /\ PrefixOf(p[i].start, full)
       /\ PrefixOf(p[i].head, full)
       /\ i > 1 => p[i].start = p[i - 1].head
  /\ \A i, j \in 1 .. Len(p) : i < j => Len(p[i].head) <= Len(p[j].start)

(* Files, published ones, and those whose deletion is still to come.       *)
Stored(p, fs, full) ==
  \A f \in DOMAIN fs :
    /\ f \in Len(Initial) + 1 .. Len(HeadOf(p)) + 1
    /\ fs[f] \in Seq(Line)
    /\ \A k \in 1 .. Len(fs[f]) :
         fs[f][k] # Torn => f - 1 + k <= Len(full) /\ fs[f][k] = SubSeq(full, 1, f - 1 + k)
    /\ f <= Len(HeadOf(p)) =>
         p # <<>> /\ (f <= Len(p[1].start) \/ \E i \in 1 .. Len(p) : f = FileOf(p[i]))

Committed(p, fs) ==
  \A i \in 1 .. Len(p) :
    /\ FileOf(p[i]) \in DOMAIN fs
    /\ RecordCount(p[i]) <= Len(fs[FileOf(p[i])])
    /\ \A k \in 1 .. RecordCount(p[i]) : fs[FileOf(p[i])][k] # Torn
    /\ p[i].size = Bytes(SubSeq(fs[FileOf(p[i])], 1, RecordCount(p[i])))
    /\ i < Len(p) \/ Orphaned(p, fs) => Len(fs[FileOf(p[i])]) = RecordCount(p[i])

Doomed(p, fs) == IF p = <<>> THEN {} ELSE {f \in DOMAIN fs : f <= Len(p[1].start)}

Pruned(p, fs) ==
  /\ \A f \in Doomed(p, fs) : /\ f - 1 + Len(fs[f]) <= Len(p[1].start)
                              /\ \A k \in 1 .. Len(fs[f]) : fs[f][k] # Torn
  /\ \A f, g \in Doomed(p, fs) : f = g
  /\ Orphaned(p, fs) \/ Loose(p, fs) # <<>> => Doomed(p, fs) = {}

(* What an interruption left: n whole lines of one chunk, and a partial    *)
(* one.                                                                    *)
Leftover(lines, n) ==
  /\ n \in 0 .. MaxChainBatchRecords
  /\ Len(lines) \in {n, n + 1}
  /\ \A k \in 1 .. n : lines[k] # Torn
  /\ Len(lines) = n + 1 => lines[n + 1] = Torn
  /\ n > 1 => Bytes(SubSeq(lines, 1, n)) <= MaxBatchBytes

Small(full) == \A k \in Len(Initial) + 1 .. Len(full) : Size[full[k]] <= MaxRecordBytes

Chain(p, fs, full) ==
  /\ p \in Seq(Segments) /\ full \in Histories
  /\ PrefixOf(Initial, full) /\ PrefixOf(HeadOf(p), full) /\ HeadOf(p) \in Histories
  /\ Cut(p, full)
  /\ Stored(p, fs, full)
  /\ Committed(p, fs)
  /\ Pruned(p, fs)
  /\ Leftover(Loose(p, fs), Len(full) - Len(HeadOf(p)))
  /\ Small(full)

(***************************************************************************)
(* Prefixes of a history.                                                  *)
(***************************************************************************)
(* A non-empty prefix is a line.                                           *)
LEMMA PrefixIsLine ==
  ASSUME NEW full \in Histories, NEW n \in 1 .. Len(full)
  PROVE  LET h == SubSeq(full, 1, n)
         IN  /\ h \in Histories /\ Len(h) = n /\ h # Torn /\ h \in Line
             /\ Last(h) = full[n] /\ full[n] \in Events
             /\ LineBytes(h) = Size[full[n]]
             /\ PrefixOf(h, full)
PROOF
<1> DEFINE h == SubSeq(full, 1, n)
<1>1. full \in Seq(Events) /\ Len(full) \in Nat
  BY LenProperties DEF Histories
<1>2. n \in 0 .. Len(full)
  BY <1>1
<1>3. h \in Seq(Events) /\ Len(h) = n /\ (\A i \in 1 .. n : h[i] = full[i])
  BY <1>1, <1>2, FirstOf
<1> HIDE DEF h
<1>4. h \in Histories /\ h # Torn
  BY <1>3, ChainAssumption DEF Histories
<1>5. h # <<>>
  <2>1. Len(<<>>) = 0
    BY EmptySeq
  <2> QED BY <1>1, <1>3, <2>1
<1>6. Last(h) = full[n]
  BY <1>1, <1>3 DEF Last
<1>7. full[n] \in Events
  BY <1>1, ElementOfSeq
<1>8. LineBytes(h) = Size[full[n]]
  BY <1>4, <1>6 DEF LineBytes
<1>9. PrefixOf(h, full)
  BY <1>1, <1>3 DEF h, PrefixOf
<1> QED BY <1>3, <1>4, <1>5, <1>6, <1>7, <1>8, <1>9 DEF h, Line

(* Of two prefixes the shorter one is one of the other.                    *)
LEMMA PrefixesCompared ==
  ASSUME NEW full \in Histories, NEW a \in Histories, NEW b \in Histories,
         PrefixOf(a, full), PrefixOf(b, full), Len(a) <= Len(b)
  PROVE  /\ a = SubSeq(b, 1, Len(a)) /\ PrefixOf(a, b) /\ IsPrefix(a, b)
         /\ Len(a) = Len(b) => a = b
PROOF
<1>1. a = SubSeq(full, 1, Len(a)) /\ b = SubSeq(full, 1, Len(b)) /\ Len(b) <= Len(full)
  BY DEF PrefixOf
<1>2. Len(a) \in Nat /\ Len(b) \in Nat /\ Len(full) \in Nat
  BY LenProperties DEF Histories
<1>3. SubSeq(SubSeq(full, 1, Len(b)), 1, Len(a)) = SubSeq(full, 1, Len(a))
  <2>1. Len(b) \in 0 .. Len(full) /\ Len(a) \in 0 .. Len(b)
    BY <1>1, <1>2
  <2> QED BY <2>1, FirstOfFirst DEF Histories
<1>4. a = SubSeq(b, 1, Len(a))
  BY <1>1, <1>3
<1>5. SubSeq(a, 1, Len(a)) = a
  BY SubSeqFull DEF Histories
<1> QED BY <1>1, <1>4, <1>5 DEF PrefixOf, IsPrefix

(* A prefix stays one when the history grows.                              *)
LEMMA PrefixOfLonger ==
  ASSUME NEW full \in Histories, NEW more \in Histories, NEW h \in Histories, PrefixOf(h, full)
  PROVE  PrefixOf(h, full \o more)
PROOF
<1>1. Len(h) \in Nat /\ Len(full) \in Nat /\ Len(more) \in Nat
  BY LenProperties DEF Histories
<1>2. Len(h) \in 0 .. Len(full)
  BY <1>1 DEF PrefixOf
<1>3. SubSeq(full \o more, 1, Len(h)) = SubSeq(full, 1, Len(h))
  BY <1>2, FirstOfJoined DEF Histories
<1>4. Len(full \o more) = Len(full) + Len(more)
  BY Joined DEF Histories
<1> QED BY <1>1, <1>2, <1>3, <1>4 DEF PrefixOf

(* A history is a prefix of itself, and of a longer one.                   *)
LEMMA PrefixOfItself ==
  ASSUME NEW full \in Histories
  PROVE  PrefixOf(full, full)
PROOF
<1>1. Len(full) \in Nat
  BY LenProperties DEF Histories
<1> QED BY <1>1, SubSeqFull DEF PrefixOf, Histories

(* A prefix of a prefix.                                                   *)
LEMMA PrefixOfPrefix ==
  ASSUME NEW full \in Histories, NEW a \in Histories, NEW b \in Histories,
         PrefixOf(a, b), PrefixOf(b, full)
  PROVE  PrefixOf(a, full)
PROOF
<1>1. Len(a) \in Nat /\ Len(b) \in Nat /\ Len(full) \in Nat
  BY LenProperties DEF Histories
<1>2. Len(a) \in 0 .. Len(b) /\ Len(b) \in 0 .. Len(full)
  BY <1>1 DEF PrefixOf
<1>3. SubSeq(SubSeq(full, 1, Len(b)), 1, Len(a)) = SubSeq(full, 1, Len(a))
  BY <1>2, FirstOfFirst DEF Histories
<1> QED BY <1>1, <1>2, <1>3 DEF PrefixOf

(***************************************************************************)
(* Segments of a chain.                                                    *)
(***************************************************************************)
(* A published segment, its file and its number of records.                *)
LEMMA SegmentTyped ==
  ASSUME NEW p \in Seq(Segments), NEW i \in 1 .. Len(p)
  PROVE  /\ p[i] \in Segments
         /\ p[i].start \in Histories /\ p[i].head \in Histories /\ p[i].size \in Nat
         /\ Len(p[i].start) \in Nat /\ Len(p[i].head) \in Nat
         /\ FileOf(p[i]) = Len(p[i].start) + 1
         /\ RecordCount(p[i]) = Len(p[i].head) - Len(p[i].start)
PROOF
<1>1. p[i] \in Segments
  BY ElementOfSeq
<1>2. p[i].start \in Histories /\ p[i].head \in Histories /\ p[i].size \in Nat
  BY <1>1 DEF Segments
<1>3. Len(p[i].start) \in Nat /\ Len(p[i].head) \in Nat
  BY <1>2, LenProperties DEF Histories
<1> QED BY <1>1, <1>2, <1>3 DEF FileOf, NameAfter, RecordCount

(* The head is that of the last segment.                                   *)
LEMMA HeadIs ==
  ASSUME NEW p \in Seq(Segments)
  PROVE  /\ HeadOf(p) \in Histories /\ Len(HeadOf(p)) \in Nat
         /\ p = <<>> => HeadOf(p) = Initial /\ Len(p) = 0
         /\ p # <<>> => /\ Len(p) \in 1 .. Len(p) /\ 1 \in 1 .. Len(p) /\ Last(p) = p[Len(p)]
                        /\ HeadOf(p) = p[Len(p)].head
PROOF
<1>1. CASE p = <<>>
  <2>1. Len(p) = 0
    BY <1>1, EmptySeq
  <2>2. HeadOf(p) = Initial /\ Initial \in Histories
    BY <1>1, ChainAssumption DEF HeadOf
  <2>3. Len(Initial) \in Nat
    BY <2>2, LenProperties DEF Histories
  <2> QED BY <1>1, <2>1, <2>2, <2>3
<1>2. CASE p # <<>>
  <2>1. Len(p) \in Nat /\ Len(p) >= 1 /\ Last(p) = p[Len(p)]
    BY <1>2, LastOf
  <2>2. HeadOf(p) = p[Len(p)].head
    BY <1>2, <2>1 DEF HeadOf
  <2>3. Len(p) \in 1 .. Len(p) /\ 1 \in 1 .. Len(p)
    BY <2>1
  <2>4. p[Len(p)].head \in Histories /\ Len(p[Len(p)].head) \in Nat
    BY <2>3, SegmentTyped
  <2> QED BY <1>2, <2>1, <2>2, <2>3, <2>4
<1> QED BY <1>1, <1>2

(* Where the segments and their files begin and end.                       *)
LEMMA SegmentsInOrder ==
  ASSUME NEW p, NEW full, p \in Seq(Segments), Cut(p, full), NEW i \in 1 .. Len(p)
  PROVE  /\ p # <<>>
         /\ Len(Initial) \in Nat /\ Len(Initial) <= Len(p[i].start)
         /\ Len(p[i].start) < Len(p[i].head) /\ Len(p[i].head) <= Len(HeadOf(p))
         /\ RecordCount(p[i]) \in Nat \ {0}
         /\ FileOf(p[i]) - 1 + RecordCount(p[i]) = Len(p[i].head)
         /\ FileOf(p[i]) \in Len(Initial) + 1 .. Len(HeadOf(p))
         /\ \A j \in 1 .. Len(p) : i < j => Len(p[i].head) < FileOf(p[j]) /\ FileOf(p[i]) < FileOf(p[j])
PROOF
<1>1. Len(p) \in Nat
  BY LenProperties
<1>2. p # <<>>
  <2>1. Len(<<>>) = 0
    BY EmptySeq
  <2> QED BY <1>1, <2>1
<1>3. Len(p) \in 1 .. Len(p) /\ HeadOf(p) = p[Len(p)].head
  BY <1>2, HeadIs
<1>4. Len(Initial) \in Nat
  BY ChainAssumption, LenProperties DEF Histories
<1>5. \A j \in 1 .. Len(p) :
        /\ Len(p[j].start) \in Nat /\ Len(p[j].head) \in Nat
        /\ FileOf(p[j]) = Len(p[j].start) + 1
        /\ RecordCount(p[j]) = Len(p[j].head) - Len(p[j].start)
        /\ Len(Initial) <= Len(p[j].start) /\ Len(p[j].start) < Len(p[j].head)
  <2> TAKE j \in 1 .. Len(p)
  <2>1. /\ Len(p[j].start) \in Nat /\ Len(p[j].head) \in Nat
        /\ FileOf(p[j]) = Len(p[j].start) + 1
        /\ RecordCount(p[j]) = Len(p[j].head) - Len(p[j].start)
    BY SegmentTyped
  <2>2. Len(Initial) <= Len(p[j].start) /\ Len(p[j].start) < Len(p[j].head)
    BY DEF Cut
  <2> QED BY <2>1, <2>2
<1>6. \A j, k \in 1 .. Len(p) : j < k => Len(p[j].head) <= Len(p[k].start)
  BY DEF Cut
<1>7. \A j \in 1 .. Len(p) : i < j => Len(p[i].head) < FileOf(p[j]) /\ FileOf(p[i]) < FileOf(p[j])
  <2> TAKE j \in 1 .. Len(p)
  <2> HAVE i < j
  <2>1. Len(p[i].head) <= Len(p[j].start)
    BY <1>6
  <2>2. /\ Len(p[j].start) \in Nat /\ FileOf(p[j]) = Len(p[j].start) + 1
        /\ Len(p[i].start) \in Nat /\ FileOf(p[i]) = Len(p[i].start) + 1
        /\ Len(p[i].head) \in Nat /\ Len(p[i].start) < Len(p[i].head)
    BY <1>5
  <2> QED BY <2>1, <2>2
<1>8. Len(p[i].head) <= Len(HeadOf(p))
  <2>1. CASE i = Len(p)
    BY <1>3, <1>5, <2>1
  <2>2. CASE i < Len(p)
    <3>1. Len(p[i].head) <= Len(p[Len(p)].start)
      BY <1>3, <1>6, <2>2
    <3>2. /\ Len(p[Len(p)].start) \in Nat /\ Len(p[Len(p)].head) \in Nat /\ Len(p[i].head) \in Nat
          /\ Len(p[Len(p)].start) < Len(p[Len(p)].head)
      BY <1>3, <1>5
    <3> QED BY <1>3, <3>1, <3>2
  <2> QED BY <1>1, <2>1, <2>2
<1>9. Len(HeadOf(p)) \in Nat
  BY HeadIs
<1>10. /\ Len(p[i].start) \in Nat /\ Len(p[i].head) \in Nat
       /\ FileOf(p[i]) = Len(p[i].start) + 1
       /\ RecordCount(p[i]) = Len(p[i].head) - Len(p[i].start)
       /\ Len(Initial) <= Len(p[i].start) /\ Len(p[i].start) < Len(p[i].head)
  BY <1>5
<1>11. RecordCount(p[i]) \in Nat \ {0} /\ FileOf(p[i]) - 1 + RecordCount(p[i]) = Len(p[i].head)
  BY <1>10
<1>12. FileOf(p[i]) \in Len(Initial) + 1 .. Len(HeadOf(p))
  BY <1>4, <1>8, <1>9, <1>10
<1> QED BY <1>2, <1>4, <1>7, <1>8, <1>10, <1>11, <1>12

(* The numbers of a chain.                                                 *)
LEMMA ChainNumbers ==
  ASSUME NEW p, NEW fs, NEW full, Chain(p, fs, full)
  PROVE  /\ Len(Initial) \in Nat /\ Len(HeadOf(p)) \in Nat /\ Len(full) \in Nat
         /\ Len(Initial) <= Len(HeadOf(p)) /\ Len(HeadOf(p)) <= Len(full)
         /\ HeadOf(p) = SubSeq(full, 1, Len(HeadOf(p)))
         /\ PrefixOf(Initial, HeadOf(p))
         /\ Len(HeadOf(p)) = Len(full) => HeadOf(p) = full
         /\ \A f \in DOMAIN fs : /\ f \in Nat /\ fs[f] \in Seq(Line) /\ Len(fs[f]) \in Nat
                                 /\ fs[f] # <<>> => Len(fs[f]) # 0
PROOF
<1>1. p \in Seq(Segments) /\ full \in Histories /\ PrefixOf(Initial, full)
        /\ PrefixOf(HeadOf(p), full) /\ HeadOf(p) \in Histories /\ Cut(p, full) /\ Stored(p, fs, full)
  BY DEF Chain
<1>2. Len(Initial) \in Nat /\ Len(full) \in Nat /\ Initial \in Histories /\ Len(HeadOf(p)) \in Nat
  BY <1>1, ChainAssumption, LenProperties DEF Histories
<1>3. Len(Initial) <= Len(HeadOf(p))
  <2>1. CASE p = <<>>
    <3>1. HeadOf(p) = Initial
      BY <1>1, <2>1, HeadIs
    <3> QED BY <1>2, <3>1
  <2>2. CASE p # <<>>
    <3>1. 1 \in 1 .. Len(p)
      BY <1>1, <2>2, HeadIs
    <3>2. /\ Len(Initial) <= Len(p[1].start) /\ Len(p[1].start) < Len(p[1].head)
          /\ Len(p[1].head) <= Len(HeadOf(p))
      BY <1>1, <3>1, SegmentsInOrder
    <3>3. Len(p[1].start) \in Nat /\ Len(p[1].head) \in Nat
      BY <1>1, <3>1, SegmentTyped
    <3> QED BY <1>2, <3>2, <3>3
  <2> QED BY <2>1, <2>2
<1>4. Len(HeadOf(p)) <= Len(full) /\ HeadOf(p) = SubSeq(full, 1, Len(HeadOf(p)))
  BY <1>1 DEF PrefixOf
<1>5. PrefixOf(Initial, HeadOf(p))
  BY <1>1, <1>2, <1>3, PrefixesCompared
<1>6. Len(HeadOf(p)) = Len(full) => HeadOf(p) = full
  <2>1. SubSeq(full, 1, Len(full)) = full
    BY <1>1, SubSeqFull DEF Histories
  <2> QED BY <1>4, <2>1
<1>7. \A f \in DOMAIN fs : /\ f \in Nat /\ fs[f] \in Seq(Line) /\ Len(fs[f]) \in Nat
                           /\ fs[f] # <<>> => Len(fs[f]) # 0
  <2> TAKE f \in DOMAIN fs
  <2>1. f \in Len(Initial) + 1 .. Len(HeadOf(p)) + 1 /\ fs[f] \in Seq(Line)
    BY <1>1 DEF Stored
  <2>2. Len(fs[f]) \in Nat /\ (fs[f] # <<>> => Len(fs[f]) # 0)
    BY <2>1, LenProperties, EmptySeq
  <2> QED BY <1>2, <2>1, <2>2
<1> QED BY <1>2, <1>3, <1>4, <1>5, <1>6, <1>7

(* The last file of a chain, and what is behind its committed records.     *)
LEMMA LastFileOf ==
  ASSUME NEW p, NEW fs, NEW full, Chain(p, fs, full), p # <<>>
  PROVE  LET n == RecordCount(Last(p))
             t == LastFile(p, fs)
         IN  /\ FileOf(Last(p)) \in DOMAIN fs /\ t \in Seq(Line)
             /\ n \in Nat \ {0} /\ n <= Len(t)
             /\ FileOf(Last(p)) - 1 + n = Len(HeadOf(p))
             /\ FileOf(Last(p)) \in 1 .. Len(HeadOf(p))
             /\ Behind(p, fs) = SubSeq(t, n + 1, Len(t))
             /\ Behind(p, fs) \in Seq(Line) /\ Len(Behind(p, fs)) = Len(t) - n
             /\ \A k \in 1 .. Len(t) - n : Behind(p, fs)[k] = t[n + k]
             /\ \A k \in 1 .. n : t[k] # Torn
             /\ Last(p).size = Bytes(SubSeq(t, 1, n))
PROOF
<1> DEFINE n == RecordCount(Last(p))
           t == LastFile(p, fs)
<1>1. p \in Seq(Segments) /\ Cut(p, full) /\ Committed(p, fs)
  BY DEF Chain
<1>2. Len(p) \in 1 .. Len(p) /\ Last(p) = p[Len(p)] /\ HeadOf(p) = p[Len(p)].head
  BY <1>1, HeadIs
<1>3. /\ RecordCount(p[Len(p)]) \in Nat \ {0}
      /\ FileOf(p[Len(p)]) - 1 + RecordCount(p[Len(p)]) = Len(p[Len(p)].head)
      /\ FileOf(p[Len(p)]) \in Len(Initial) + 1 .. Len(HeadOf(p))
      /\ Len(Initial) \in Nat
  BY <1>1, <1>2, SegmentsInOrder
<1>4. /\ FileOf(p[Len(p)]) \in DOMAIN fs
      /\ RecordCount(p[Len(p)]) <= Len(fs[FileOf(p[Len(p)])])
      /\ \A k \in 1 .. RecordCount(p[Len(p)]) : fs[FileOf(p[Len(p)])][k] # Torn
      /\ p[Len(p)].size = Bytes(SubSeq(fs[FileOf(p[Len(p)])], 1, RecordCount(p[Len(p)])))
  BY <1>1, <1>2 DEF Committed
<1>5. t = fs[FileOf(p[Len(p)])] /\ n = RecordCount(p[Len(p)])
  BY <1>2 DEF LastFile
<1>6. t \in Seq(Line) /\ Len(t) \in Nat
  BY <1>4, <1>5, ChainNumbers
<1>7. Behind(p, fs) = SubSeq(t, n + 1, Len(t))
  BY DEF Behind
<1> HIDE DEF n, t
<1>8. n \in 0 .. Len(t)
  BY <1>3, <1>4, <1>5, <1>6
<1>9. /\ SubSeq(t, n + 1, Len(t)) \in Seq(Line) /\ Len(SubSeq(t, n + 1, Len(t))) = Len(t) - n
      /\ \A k \in 1 .. Len(t) - n : SubSeq(t, n + 1, Len(t))[k] = t[n + k]
  BY <1>6, <1>8, RestOf
<1>10. FileOf(p[Len(p)]) \in 1 .. Len(HeadOf(p))
  BY <1>3
<1>11. /\ FileOf(Last(p)) \in DOMAIN fs /\ t \in Seq(Line)
       /\ n \in Nat \ {0} /\ n <= Len(t)
       /\ FileOf(Last(p)) - 1 + n = Len(HeadOf(p))
       /\ FileOf(Last(p)) \in 1 .. Len(HeadOf(p))
       /\ \A k \in 1 .. n : t[k] # Torn
       /\ Last(p).size = Bytes(SubSeq(t, 1, n))
  BY <1>2, <1>3, <1>4, <1>5, <1>6, <1>10
<1> QED BY <1>7, <1>9, <1>11 DEF n, t

(***************************************************************************)
(* Retention, and the next manifest.                                       *)
(***************************************************************************)
(* At most the first segment is dropped.                                   *)
LEMMA RetainOf ==
  ASSUME NEW q \in Seq(Segments), q # <<>>, Len(q) <= MaxSegments + 1,
         NEW d, d = IF Len(q) > MaxSegments THEN 1 ELSE 0
  PROVE  /\ Retain(q) \in Seq(Segments) /\ Len(Retain(q)) = Len(q) - d
         /\ \A i \in 1 .. Len(q) - d : Retain(q)[i] = q[i + d]
PROOF
<1>1. Len(q) \in Nat /\ Len(q) # 0
  BY LenProperties, EmptySeq
<1>2. MaxSegments \in Nat \ {0}
  BY ChainAssumption
<1>3. Max({1, Len(q) - MaxSegments + 1}) =
        IF 1 >= Len(q) - MaxSegments + 1 THEN 1 ELSE Len(q) - MaxSegments + 1
  <2>1. 1 \in Int /\ Len(q) - MaxSegments + 1 \in Int
    BY <1>1, <1>2
  <2> QED BY <2>1, MaxOfTwo
<1>4. Max({1, Len(q) - MaxSegments + 1}) = d + 1
  BY <1>1, <1>2, <1>3
<1>5. d \in 0 .. Len(q)
  BY <1>1, <1>2
<1>6. /\ SubSeq(q, d + 1, Len(q)) \in Seq(Segments) /\ Len(SubSeq(q, d + 1, Len(q))) = Len(q) - d
      /\ \A i \in 1 .. Len(q) - d : SubSeq(q, d + 1, Len(q))[i] = q[d + i]
  BY <1>5, RestOf
<1>7. Retain(q) = SubSeq(q, d + 1, Len(q))
  BY <1>4 DEF Retain
<1>8. \A i \in 1 .. Len(q) - d : d + i = i + d
  BY <1>1, <1>5
<1> QED BY <1>6, <1>7, <1>8

(* A segment is added.                                                     *)
LEMMA WithNewOf ==
  ASSUME NEW p \in Seq(Segments), Len(p) <= MaxSegments, NEW s \in Segments
  PROVE  \E d \in {0, 1} :
           /\ WithNew(p, s) \in Seq(Segments)
           /\ Len(WithNew(p, s)) \in 1 .. MaxSegments /\ Len(WithNew(p, s)) + d = Len(p) + 1
           /\ \A i \in 1 .. Len(p) - d : WithNew(p, s)[i] = p[i + d]
           /\ WithNew(p, s)[Len(WithNew(p, s))] = s
PROOF
<1> DEFINE q == Append(p, s)
           d == IF Len(q) > MaxSegments THEN 1 ELSE 0
           r == Retain(q)
<1>1. Len(p) \in Nat /\ MaxSegments \in Nat \ {0}
  BY LenProperties, ChainAssumption
<1>2. /\ q \in Seq(Segments) /\ q # <<>> /\ Len(q) = Len(p) + 1
      /\ \A i \in 1 .. Len(p) : q[i] = p[i]
      /\ q[Len(p) + 1] = s
  BY AppendProperties
<1>3. WithNew(p, s) = r
  BY DEF WithNew
<1>4. d \in {0, 1} /\ d = IF Len(q) > MaxSegments THEN 1 ELSE 0
  OBVIOUS
<1> HIDE DEF q, d
<1>5. r \in Seq(Segments) /\ Len(r) = Len(q) - d /\ (\A i \in 1 .. Len(q) - d : r[i] = q[i + d])
  <2>1. Len(q) <= MaxSegments + 1
    BY <1>1, <1>2
  <2> QED BY <1>2, <1>4, <2>1, RetainOf
<1> HIDE DEF r
<1>6. Len(r) \in 1 .. MaxSegments /\ Len(r) + d = Len(p) + 1
  BY <1>1, <1>2, <1>4, <1>5
<1>7. ASSUME NEW i \in 1 .. Len(p) - d PROVE r[i] = p[i + d]
  <2>1. i \in 1 .. Len(q) - d /\ i + d \in 1 .. Len(p)
    BY <1>1, <1>2, <1>4
  <2> QED BY <1>2, <1>5, <2>1
<1>8. r[Len(r)] = s
  <2>1. Len(r) \in 1 .. Len(q) - d /\ Len(r) + d = Len(p) + 1
    BY <1>1, <1>2, <1>4, <1>5, <1>6
  <2> QED BY <1>2, <1>5, <2>1
<1> QED BY <1>3, <1>4, <1>5, <1>6, <1>7, <1>8

(* The last segment is replaced.                                           *)
LEMMA WithTipOf ==
  ASSUME NEW p \in Seq(Segments), p # <<>>, Len(p) <= MaxSegments, NEW s \in Segments
  PROVE  /\ WithTip(p, s) \in Seq(Segments) /\ Len(WithTip(p, s)) = Len(p) /\ Len(p) \in 1 .. MaxSegments
         /\ \A i \in 1 .. Len(p) - 1 : WithTip(p, s)[i] = p[i]
         /\ WithTip(p, s)[Len(p)] = s
PROOF
<1> DEFINE f == Front(p)
           q == Append(f, s)
           r == Retain(q)
<1>1. Len(p) \in Nat \ {0} /\ MaxSegments \in Nat \ {0}
  BY LenProperties, EmptySeq, ChainAssumption
<1>2. f \in Seq(Segments) /\ Len(f) = Len(p) - 1 /\ (\A i \in 1 .. Len(p) - 1 : f[i] = p[i])
  <2>1. Len(p) - 1 \in 0 .. Len(p)
    BY <1>1
  <2> QED BY <2>1, FirstOf DEF Front
<1> HIDE DEF f
<1>3. /\ q \in Seq(Segments) /\ q # <<>> /\ Len(q) = Len(f) + 1
      /\ \A i \in 1 .. Len(f) : q[i] = f[i]
      /\ q[Len(f) + 1] = s
  BY <1>2, AppendProperties
<1>4. WithTip(p, s) = r
  BY DEF WithTip, f
<1> HIDE DEF q
<1>5. r \in Seq(Segments) /\ Len(r) = Len(q) - 0 /\ (\A i \in 1 .. Len(q) - 0 : r[i] = q[i + 0])
  <2>1. Len(q) <= MaxSegments + 1 /\ 0 = IF Len(q) > MaxSegments THEN 1 ELSE 0
    BY <1>1, <1>2, <1>3
  <2> QED BY <1>3, <2>1, RetainOf
<1> HIDE DEF r
<1>6. Len(q) = Len(p) /\ Len(r) = Len(p) /\ (\A i \in 1 .. Len(p) : r[i] = q[i])
  BY <1>1, <1>2, <1>3, <1>5
<1>7. ASSUME NEW i \in 1 .. Len(p) - 1 PROVE r[i] = p[i]
  <2>1. i \in 1 .. Len(f) /\ i \in 1 .. Len(p)
    BY <1>1, <1>2
  <2> QED BY <1>2, <1>3, <1>6, <2>1
<1>8. r[Len(p)] = s
  <2>1. Len(p) = Len(f) + 1 /\ Len(p) \in 1 .. Len(p)
    BY <1>1, <1>2
  <2> QED BY <1>3, <1>6, <2>1
<1>9. Len(p) \in 1 .. MaxSegments
  BY <1>1
<1> QED BY <1>4, <1>5, <1>6, <1>7, <1>8, <1>9

(* The loose lines join the tip or become a segment.                       *)
SuccessorOf(p, fs) ==
  IF Orphaned(p, fs)
  THEN WithNew(p, [start |-> HeadOf(p), head |-> Last(Loose(p, fs)), size |-> Bytes(Loose(p, fs))])
  ELSE WithTip(p, [Last(p) EXCEPT !.head = Last(LastFile(p, fs)), !.size = Bytes(LastFile(p, fs))])

(* There is something to publish, and nothing is partial.                  *)
Pending(p, fs, full) ==
  /\ Len(full) > Len(HeadOf(p))
  /\ Len(Loose(p, fs)) = Len(full) - Len(HeadOf(p))

(* q is what remains of p, but for its first d segments, and one more.     *)
Continues(p, fs, full, q, d) ==
  /\ q \in Seq(Segments) /\ d \in {0, 1} /\ Len(q) \in 1 .. MaxSegments
  /\ \A i \in 1 .. Len(q) - 1 : i + d \in 1 .. Len(p) /\ q[i] = p[i + d]
  /\ q[Len(q)].head = full
  /\ \/ /\ p # <<>> /\ ~Orphaned(p, fs) /\ d = 0 /\ Len(q) = Len(p)
        /\ q[Len(q)].start = p[Len(p)].start
        /\ q[Len(q)].size = Bytes(LastFile(p, fs))
        /\ Len(LastFile(p, fs)) = Len(full) - Len(p[Len(p)].start)
     \/ /\ Orphaned(p, fs) /\ Len(q) + d = Len(p) + 1
        /\ q[Len(q)].start = HeadOf(p)
        /\ q[Len(q)].size = Bytes(fs[NameAfter(HeadOf(p))])

(* The manifest that adopts what is loose continues the published one.     *)
LEMMA SuccessorContinues ==
  ASSUME NEW p, NEW fs, NEW full, Chain(p, fs, full), Pending(p, fs, full)
  PROVE  \E d : Continues(p, fs, full, SuccessorOf(p, fs), d)
PROOF
<1> DEFINE H == HeadOf(p)
           n == Len(full) - Len(H)
           q == SuccessorOf(p, fs)
<1>1. /\ p \in Seq(Segments) /\ full \in Histories /\ Cut(p, full) /\ Stored(p, fs, full)
      /\ Leftover(Loose(p, fs), n) /\ H \in Histories
  BY DEF Chain
<1>2. Len(full) \in Nat /\ Len(H) \in Nat /\ n \in Nat \ {0}
  BY ChainNumbers DEF Pending
<1>3. Len(p) <= MaxSegments
  BY <1>1 DEF Cut
<1>4. Len(Loose(p, fs)) = n /\ (\A k \in 1 .. n : Loose(p, fs)[k] # Torn)
  BY <1>1 DEF Pending, Leftover
<1>5. SubSeq(full, 1, Len(full)) = full
  BY <1>1, SubSeqFull DEF Histories
<1>6. CASE Orphaned(p, fs)
  <2> DEFINE lines == fs[NameAfter(H)]
             s == [start |-> H, head |-> Last(lines), size |-> Bytes(lines)]
  <2>1. Loose(p, fs) = lines /\ NameAfter(H) \in DOMAIN fs /\ NameAfter(H) = Len(H) + 1
    BY <1>6 DEF Loose, Orphaned, NameAfter
  <2>2. lines \in Seq(Line) /\ Bytes(lines) \in Nat
    BY <2>1, ChainNumbers, MarksCounted
  <2>3. Last(lines) = full
    <3>1. n \in 1 .. Len(lines) /\ Len(lines) = n /\ lines[n] # Torn
      BY <1>2, <1>4, <2>1
    <3>2. lines[n] = SubSeq(full, 1, Len(H) + 1 - 1 + n)
      BY <1>1, <2>1, <3>1 DEF Stored
    <3>3. Len(H) + 1 - 1 + n = Len(full)
      BY <1>2
    <3> QED BY <1>5, <3>1, <3>2, <3>3 DEF Last
  <2>4. s \in Segments /\ s.start = H /\ s.head = full /\ s.size = Bytes(lines)
    BY <1>1, <2>2, <2>3 DEF Segments
  <2>5. q = WithNew(p, s)
    BY <1>6, <2>1 DEF SuccessorOf
  <2> HIDE DEF s, lines
  <2>6. PICK d \in {0, 1} :
           /\ WithNew(p, s) \in Seq(Segments)
           /\ Len(WithNew(p, s)) \in 1 .. MaxSegments /\ Len(WithNew(p, s)) + d = Len(p) + 1
           /\ \A i \in 1 .. Len(p) - d : WithNew(p, s)[i] = p[i + d]
           /\ WithNew(p, s)[Len(WithNew(p, s))] = s
    BY <1>1, <1>3, <2>4, WithNewOf
  <2> HIDE DEF q, H
  <2>7. Len(p) \in Nat
    BY <1>1, LenProperties
  <2>8. \A i \in 1 .. Len(q) - 1 : i + d \in 1 .. Len(p) /\ q[i] = p[i + d]
    <3> TAKE i \in 1 .. Len(q) - 1
    <3>1. i \in 1 .. Len(p) - d /\ i + d \in 1 .. Len(p)
      BY <2>5, <2>6, <2>7
    <3> QED BY <2>5, <2>6, <3>1
  <2>9. q[Len(q)].start = H /\ q[Len(q)].head = full /\ q[Len(q)].size = Bytes(fs[NameAfter(H)])
    BY <2>4, <2>5, <2>6 DEF lines
  <2>10. q \in Seq(Segments) /\ Len(q) \in 1 .. MaxSegments /\ Len(q) + d = Len(p) + 1
    BY <2>5, <2>6
  <2>11. Continues(p, fs, full, q, d)
    BY <1>6, <2>8, <2>9, <2>10 DEF Continues, H
  <2> QED BY <2>11 DEF q
<1>7. CASE ~Orphaned(p, fs)
  <2> DEFINE t == LastFile(p, fs)
             c == RecordCount(Last(p))
             s == [Last(p) EXCEPT !.head = Last(t), !.size = Bytes(t)]
  <2>1. p # <<>> /\ Behind(p, fs) = Loose(p, fs)
    <3>1. Loose(p, fs) # <<>>
      BY <1>2, <1>4, EmptySeq
    <3> QED BY <1>7, <3>1 DEF Loose, Behind
  <2>2. /\ FileOf(Last(p)) \in DOMAIN fs /\ t \in Seq(Line) /\ c \in Nat \ {0} /\ c <= Len(t)
        /\ FileOf(Last(p)) - 1 + c = Len(H) /\ FileOf(Last(p)) \in 1 .. Len(H)
        /\ Len(Behind(p, fs)) = Len(t) - c
        /\ \A k \in 1 .. Len(t) - c : Behind(p, fs)[k] = t[c + k]
    BY <2>1, LastFileOf
  <2>3. Len(p) \in 1 .. Len(p) /\ Last(p) = p[Len(p)] /\ p[Len(p)] \in Segments
          /\ FileOf(p[Len(p)]) = Len(p[Len(p)].start) + 1 /\ Len(p[Len(p)].start) \in Nat
    BY <1>1, <2>1, HeadIs, SegmentTyped
  <2>4. t = fs[FileOf(Last(p))]
    BY DEF LastFile
  <2>5. Bytes(t) \in Nat /\ Len(t) \in Nat
    BY <2>2, MarksCounted, LenProperties
  <2> HIDE DEF t, c
  <2>6. Len(t) = c + n /\ Len(t) = Len(full) - Len(p[Len(p)].start)
    <3>1. Len(t) - c = n
      BY <1>4, <2>1, <2>2
    <3>2. Len(p[Len(p)].start) + c = Len(H)
      BY <2>2, <2>3
    <3> DEFINE begin == Len(p[Len(p)].start)
               whole == Len(full)
               behind == Len(H)
               size == Len(t)
    <3>3. n = whole - behind /\ whole \in Nat /\ behind \in Nat /\ n \in Nat
      BY <1>2
    <3>4. c \in Nat /\ begin \in Nat /\ size \in Nat
      BY <2>2, <2>3, <2>5
    <3>5. size - c = n /\ begin + c = behind
      BY <3>1, <3>2
    <3> HIDE DEF n, H, begin, whole, behind, size
    <3>6. size = c + n /\ size = whole - begin
      BY <3>3, <3>4, <3>5
    <3> QED BY <3>6 DEF begin, whole, size
  <2>7. Last(t) = full
    <3>1. n \in 1 .. n /\ n \in 1 .. Len(t) - c /\ Len(t) \in 1 .. Len(t)
      BY <1>2, <2>2, <2>5, <2>6
    <3>2. Behind(p, fs)[n] = t[c + n] /\ Behind(p, fs)[n] # Torn
      BY <1>4, <2>1, <2>2, <3>1
    <3>3. t[Len(t)] # Torn
      BY <2>6, <3>2
    <3>4. t[Len(t)] = SubSeq(full, 1, FileOf(Last(p)) - 1 + Len(t))
      BY <1>1, <2>2, <2>4, <3>1, <3>3 DEF Stored
    <3>5. FileOf(Last(p)) - 1 + Len(t) = Len(full)
      BY <1>2, <2>2, <2>5, <2>6
    <3> QED BY <1>5, <3>4, <3>5 DEF Last
  <2>8. s \in Segments /\ s.start = p[Len(p)].start /\ s.head = full /\ s.size = Bytes(t)
    <3> DEFINE a == p[Len(p)]
               b == Bytes(t)
    <3>1. s = [a EXCEPT !.head = full, !.size = b]
      BY <2>3, <2>7
    <3>2. a \in Segments /\ full \in Histories /\ b \in Nat
      BY <1>1, <2>3, <2>5
    <3> HIDE DEF s, a, b
    <3>3. s \in Segments /\ s.start = a.start /\ s.head = full /\ s.size = b
      BY <3>1, <3>2 DEF Segments
    <3> QED BY <3>3 DEF a, b
  <2>9. q = WithTip(p, s)
    BY <1>7 DEF SuccessorOf, t
  <2> HIDE DEF s
  <2>10. /\ WithTip(p, s) \in Seq(Segments) /\ Len(WithTip(p, s)) = Len(p)
         /\ Len(p) \in 1 .. MaxSegments
         /\ \A i \in 1 .. Len(p) - 1 : WithTip(p, s)[i] = p[i]
         /\ WithTip(p, s)[Len(p)] = s
    BY <1>1, <1>3, <2>1, <2>8, WithTipOf
  <2> HIDE DEF q, H
  <2>11. \A i \in 1 .. Len(q) - 1 : i + 0 \in 1 .. Len(p) /\ q[i] = p[i + 0]
    <3> TAKE i \in 1 .. Len(q) - 1
    <3>1. i \in 1 .. Len(p) - 1 /\ i + 0 = i /\ i \in 1 .. Len(p)
      BY <2>9, <2>10, ChainAssumption
    <3> QED BY <2>9, <2>10, <3>1
  <2>12. /\ q[Len(q)].start = p[Len(p)].start /\ q[Len(q)].head = full
         /\ q[Len(q)].size = Bytes(LastFile(p, fs))
    BY <2>8, <2>9, <2>10 DEF t
  <2>13. Len(LastFile(p, fs)) = Len(full) - Len(p[Len(p)].start)
    BY <2>6 DEF t
  <2>14. q \in Seq(Segments) /\ Len(q) \in 1 .. MaxSegments /\ Len(q) = Len(p)
    BY <2>9, <2>10
  <2>15. Continues(p, fs, full, q, 0)
    BY <1>7, <2>1, <2>11, <2>12, <2>13, <2>14 DEF Continues
  <2> QED BY <2>15 DEF q
<1> QED BY <1>6, <1>7

(* The added segment ends with the history and follows the others.         *)
LEMMA ContinuedCut ==
  ASSUME NEW p, NEW fs, NEW full, Chain(p, fs, full), Pending(p, fs, full),
         NEW q, NEW d, Continues(p, fs, full, q, d)
  PROVE  Cut(q, full) /\ HeadOf(q) = full /\ Len(q) \in 1 .. Len(q) /\ Last(q) = q[Len(q)] /\ q # <<>>
PROOF
<1> DEFINE H == HeadOf(p)
           N == Len(q)
           L == Len(p)
<1>1. /\ p \in Seq(Segments) /\ full \in Histories /\ Cut(p, full) /\ H \in Histories
      /\ PrefixOf(H, full) /\ PrefixOf(Initial, full)
  BY DEF Chain
<1>2. /\ q \in Seq(Segments) /\ d \in {0, 1} /\ N \in 1 .. MaxSegments
      /\ \A i \in 1 .. N - 1 : i + d \in 1 .. L /\ q[i] = p[i + d]
      /\ q[N].head = full
  BY DEF Continues
<1>3. L \in Nat /\ N \in Nat \ {0} /\ N <= MaxSegments
  BY <1>1, <1>2, LenProperties, ChainAssumption
<1>4. Len(full) \in Nat /\ Len(H) \in Nat /\ Len(H) < Len(full)
        /\ Len(Initial) \in Nat /\ Len(Initial) <= Len(H)
  BY ChainNumbers DEF Pending
<1>5. \A j \in 1 .. L : /\ Len(p[j].start) \in Nat /\ Len(p[j].head) \in Nat
                        /\ Len(Initial) <= Len(p[j].start) /\ Len(p[j].start) < Len(p[j].head)
                        /\ Len(p[j].head) <= Len(H)
                        /\ PrefixOf(p[j].start, full) /\ PrefixOf(p[j].head, full)
                        /\ j > 1 => p[j].start = p[j - 1].head
  <2> TAKE j \in 1 .. L
  <2>1. Len(p[j].start) \in Nat /\ Len(p[j].head) \in Nat
    BY <1>1, SegmentTyped
  <2>2. Len(p[j].head) <= Len(H)
    BY <1>1, SegmentsInOrder
  <2>3. /\ Len(Initial) <= Len(p[j].start) /\ Len(p[j].start) < Len(p[j].head)
        /\ PrefixOf(p[j].start, full) /\ PrefixOf(p[j].head, full)
        /\ j > 1 => p[j].start = p[j - 1].head
    BY <1>1 DEF Cut
  <2> QED BY <2>1, <2>2, <2>3
<1>6. \A i, j \in 1 .. L : i < j => Len(p[i].head) <= Len(p[j].start)
  BY <1>1 DEF Cut
<1>7. /\ Len(Initial) <= Len(q[N].start) /\ Len(q[N].start) < Len(q[N].head)
      /\ PrefixOf(q[N].start, full) /\ PrefixOf(q[N].head, full)
      /\ N > 1 => q[N].start = q[N - 1].head
      /\ \A i \in 1 .. N - 1 : Len(q[i].head) <= Len(q[N].start)
  <2>1. PrefixOf(q[N].head, full)
    BY <1>1, <1>2, PrefixOfItself
  <2>2. CASE p # <<>> /\ d = 0 /\ N = L /\ q[N].start = p[L].start
    <3>1. L \in 1 .. L
      BY <1>3, <2>2
    <3>2. /\ Len(Initial) <= Len(p[L].start) /\ Len(p[L].start) < Len(p[L].head)
          /\ Len(p[L].start) \in Nat /\ Len(p[L].head) \in Nat /\ Len(p[L].head) <= Len(H)
          /\ PrefixOf(p[L].start, full)
          /\ L > 1 => p[L].start = p[L - 1].head
      BY <1>5, <3>1
    <3>3. N > 1 => q[N].start = q[N - 1].head
      <4> HAVE N > 1
      <4>1. N - 1 \in 1 .. N - 1 /\ N - 1 + d = L - 1
        BY <1>3, <2>2
      <4>2. q[N - 1] = p[L - 1]
        BY <1>2, <4>1
      <4> QED BY <1>3, <1>5, <2>2, <3>1, <4>2
    <3>4. \A i \in 1 .. N - 1 : Len(q[i].head) <= Len(q[N].start)
      <4> TAKE i \in 1 .. N - 1
      <4>1. i + d = i /\ i \in 1 .. L /\ i < L
        BY <1>3, <2>2
      <4>2. q[i] = p[i]
        BY <1>2, <4>1
      <4> QED BY <1>6, <2>2, <3>1, <4>1, <4>2
    <3>5. Len(q[N].start) < Len(q[N].head)
      BY <1>2, <1>4, <2>2, <3>2
    <3>6. Len(Initial) <= Len(q[N].start) /\ PrefixOf(q[N].start, full)
      BY <2>2, <3>2
    <3> QED BY <2>1, <3>3, <3>4, <3>5, <3>6
  <2>3. CASE N + d = L + 1 /\ q[N].start = H
    <3>1. Len(Initial) <= Len(q[N].start) /\ Len(q[N].start) < Len(q[N].head)
            /\ PrefixOf(q[N].start, full)
      BY <1>1, <1>2, <1>4, <2>3
    <3>2. N > 1 => q[N].start = q[N - 1].head
      <4> HAVE N > 1
      <4>1. N - 1 \in 1 .. N - 1 /\ N - 1 + d = L
        BY <1>2, <1>3, <2>3
      <4>2. q[N - 1] = p[L] /\ L \in 1 .. L
        BY <1>2, <4>1
      <4>3. p # <<>>
        BY <4>2, EmptySeq
      <4>4. H = p[L].head
        BY <1>1, <4>3, HeadIs
      <4> QED BY <2>3, <4>2, <4>4
    <3>3. \A i \in 1 .. N - 1 : Len(q[i].head) <= Len(q[N].start)
      BY <1>2, <1>5, <2>3
    <3> QED BY <2>1, <3>1, <3>2, <3>3
  <2> QED BY <2>2, <2>3 DEF Continues
<1>8. \A i \in 1 .. N :
        /\ Len(Initial) <= Len(q[i].start)
        /\ Len(q[i].start) < Len(q[i].head)
        /\ PrefixOf(q[i].start, full)
        /\ PrefixOf(q[i].head, full)
        /\ i > 1 => q[i].start = q[i - 1].head
  <2> TAKE i \in 1 .. N
  <2>1. CASE i = N
    BY <1>7, <2>1
  <2>2. CASE i # N
    <3>1. i \in 1 .. N - 1
      BY <1>3, <2>2
    <3>2. i + d \in 1 .. L /\ q[i] = p[i + d]
      BY <1>2, <3>1
    <3>3. /\ Len(Initial) <= Len(q[i].start) /\ Len(q[i].start) < Len(q[i].head)
          /\ PrefixOf(q[i].start, full) /\ PrefixOf(q[i].head, full)
          /\ i + d > 1 => q[i].start = p[i + d - 1].head
      <4> DEFINE j == i + d
      <4>1. j \in 1 .. L /\ q[i] = p[j]
        BY <3>2
      <4> HIDE DEF j
      <4>2. /\ Len(Initial) <= Len(q[i].start) /\ Len(q[i].start) < Len(q[i].head)
            /\ PrefixOf(q[i].start, full) /\ PrefixOf(q[i].head, full)
            /\ j > 1 => q[i].start = p[j - 1].head
        BY <1>5, <4>1
      <4>3. j = i + d
        BY DEF j
      <4> QED BY <1>2, <1>3, <4>2, <4>3
    <3>4. i > 1 => q[i].start = q[i - 1].head
      <4> HAVE i > 1
      <4>1. i - 1 \in 1 .. N - 1 /\ i - 1 + d = i + d - 1 /\ i + d > 1
        BY <1>2, <1>3, <3>1
      <4>2. q[i - 1] = p[i + d - 1]
        BY <1>2, <4>1
      <4> QED BY <3>3, <4>1, <4>2
    <3> QED BY <3>3, <3>4
  <2> QED BY <2>1, <2>2
<1>9. \A i, j \in 1 .. N : i < j => Len(q[i].head) <= Len(q[j].start)
  <2> TAKE i, j \in 1 .. N
  <2> HAVE i < j
  <2>1. i \in 1 .. N - 1
    BY <1>3
  <2>2. CASE j = N
    BY <1>7, <2>1, <2>2
  <2>3. CASE j # N
    <3>1. j \in 1 .. N - 1
      BY <1>3, <2>3
    <3>2. i + d \in 1 .. L /\ q[i] = p[i + d] /\ j + d \in 1 .. L /\ q[j] = p[j + d]
      BY <1>2, <2>1, <3>1
    <3>3. i + d < j + d
      BY <1>2
    <3> QED BY <1>6, <3>2, <3>3
  <2> QED BY <2>2, <2>3
<1>10. Cut(q, full)
  BY <1>3, <1>8, <1>9 DEF Cut
<1>11. q # <<>>
  BY <1>3, EmptySeq
<1>12. HeadOf(q) = full /\ Len(q) \in 1 .. Len(q) /\ Last(q) = q[Len(q)]
  BY <1>2, <1>11, HeadIs
<1> QED BY <1>10, <1>11, <1>12

(* A file of the chain is the loose one, doomed, or that of a segment; what*)
(* is dropped is the first segment.                                        *)
LEMMA FilesOfChain ==
  ASSUME NEW p, NEW fs, NEW full, Chain(p, fs, full), NEW f \in DOMAIN fs
  PROVE  /\ f \in Nat /\ f <= Len(HeadOf(p)) + 1
         /\ \/ f = Len(HeadOf(p)) + 1 /\ Orphaned(p, fs)
            \/ p # <<>> /\ f \in Doomed(p, fs)
            \/ p # <<>> /\ \E i \in 1 .. Len(p) : f = FileOf(p[i])
PROOF
<1>1. f \in Len(Initial) + 1 .. Len(HeadOf(p)) + 1
        /\ (f <= Len(HeadOf(p)) =>
              p # <<>> /\ (f <= Len(p[1].start) \/ \E i \in 1 .. Len(p) : f = FileOf(p[i])))
  BY DEF Chain, Stored
<1>2. Len(Initial) \in Nat /\ Len(HeadOf(p)) \in Nat
  BY ChainNumbers
<1>3. f \in Nat /\ f <= Len(HeadOf(p)) + 1
  BY <1>1, <1>2
<1>4. CASE f = Len(HeadOf(p)) + 1
  BY <1>3, <1>4 DEF Orphaned, NameAfter
<1>5. CASE f # Len(HeadOf(p)) + 1
  <2>1. f <= Len(HeadOf(p))
    BY <1>2, <1>3, <1>5
  <2>2. p # <<>> /\ (f <= Len(p[1].start) \/ \E i \in 1 .. Len(p) : f = FileOf(p[i]))
    BY <1>1, <2>1
  <2> QED BY <1>3, <2>2 DEF Doomed
<1> QED BY <1>4, <1>5

(* Where the continued chain begins, and where it ends.                    *)
LEMMA ContinuedEnds ==
  ASSUME NEW p, NEW fs, NEW full, Chain(p, fs, full), Pending(p, fs, full),
         NEW q, NEW d, Continues(p, fs, full, q, d)
  PROVE  /\ p # <<>> => q[1].start = IF d = 0 THEN p[1].start ELSE p[1].head
         /\ d = 1 => p # <<>> /\ Orphaned(p, fs)
         /\ 1 \in 1 .. Len(q)
         /\ Len(q[1].start) \in Nat /\ Len(q[1].start) <= Len(HeadOf(p))
PROOF
<1> DEFINE H == HeadOf(p)
           N == Len(q)
           L == Len(p)
<1>1. p \in Seq(Segments) /\ Cut(p, full)
  BY DEF Chain
<1>2. /\ q \in Seq(Segments) /\ d \in {0, 1} /\ N \in 1 .. MaxSegments
      /\ \A i \in 1 .. N - 1 : i + d \in 1 .. L /\ q[i] = p[i + d]
  BY DEF Continues
<1>3. L \in Nat /\ N \in Nat \ {0} /\ 1 \in 1 .. N /\ Len(H) \in Nat
  BY <1>1, <1>2, LenProperties, ChainAssumption, ChainNumbers
<1>4. d = 1 => p # <<>> /\ Orphaned(p, fs)
  <2> HAVE d = 1
  <2>1. Orphaned(p, fs) /\ N + d = L + 1
    BY DEF Continues
  <2>2. L # 0
    BY <1>3, <2>1
  <2> QED BY <2>1, <2>2, EmptySeq
<1>5. ASSUME p # <<>> PROVE q[1].start = IF d = 0 THEN p[1].start ELSE p[1].head
  <2>1. L \in 1 .. L /\ 1 \in 1 .. L /\ H = p[L].head
    BY <1>1, <1>5, HeadIs
  <2>2. CASE N > 1
    <3>1. 1 \in 1 .. N - 1
      BY <1>3, <2>2
    <3>2. 1 + d \in 1 .. L /\ q[1] = p[1 + d]
      BY <1>2, <3>1
    <3>3. CASE d = 0
      <4>1. 1 + d = 1
        BY <3>3
      <4> QED BY <3>2, <3>3, <4>1
    <3>4. CASE d = 1
      <4>1. 1 + d = 2 /\ 2 \in 1 .. L
        BY <3>2, <3>4
      <4>2. p[2].start = p[2 - 1].head /\ 2 - 1 = 1
        BY <1>1, <4>1 DEF Cut
      <4> QED BY <3>2, <3>4, <4>1, <4>2
    <3> QED BY <1>2, <3>3, <3>4
  <2>3. CASE N = 1
    <3>1. CASE d = 0 /\ N = L /\ q[N].start = p[L].start
      BY <2>3, <3>1
    <3>2. CASE N + d = L + 1 /\ q[N].start = H
      <4>1. d = 1 /\ L = 1
        <5>1. d \in 0 .. 1 /\ L \in Nat /\ L >= 1 /\ 1 + d = L + 1
          BY <1>2, <1>3, <2>1, <2>3, <3>2
        <5> QED BY <5>1
      <4> QED BY <2>1, <2>3, <3>2, <4>1
    <3> QED BY <3>1, <3>2 DEF Continues
  <2>4. N > 1 \/ N = 1
    <3>1. N \in Nat /\ N # 0
      BY <1>3
    <3> HIDE DEF N
    <3> QED BY <3>1
  <2> QED BY <2>2, <2>3, <2>4
<1>6. Len(q[1].start) <= Len(H)
  <2>1. CASE p # <<>>
    <3>1. 1 \in 1 .. L
      BY <1>1, <2>1, HeadIs
    <3>2. Len(p[1].start) < Len(p[1].head) /\ Len(p[1].head) <= Len(H)
      BY <1>1, <3>1, SegmentsInOrder
    <3>3. Len(p[1].start) \in Nat /\ Len(p[1].head) \in Nat
      BY <1>1, <3>1, SegmentTyped
    <3> QED BY <1>3, <1>5, <2>1, <3>2, <3>3
  <2>2. CASE p = <<>>
    <3>1. L = 0
      BY <2>2, EmptySeq
    <3>2. N + d = L + 1 /\ q[N].start = H
      BY <2>2 DEF Continues
    <3>3. N = 1
      <4>1. d \in 0 .. 1 /\ N \in Nat /\ N # 0 /\ N + d = 0 + 1
        BY <1>2, <1>3, <3>1, <3>2
      <4> HIDE DEF N
      <4> QED BY <4>1
    <3> QED BY <1>3, <3>2, <3>3
  <2> QED BY <2>1, <2>2
<1>7. Len(q[1].start) \in Nat
  BY <1>2, <1>3, SegmentTyped
<1> QED BY <1>3, <1>4, <1>5, <1>6, <1>7

(* Every file still has its place.                                         *)
LEMMA ContinuedStored ==
  ASSUME NEW p, NEW fs, NEW full, Chain(p, fs, full), Pending(p, fs, full),
         NEW q, NEW d, Continues(p, fs, full, q, d)
  PROVE  Stored(q, fs, full) /\ ~Orphaned(q, fs)
PROOF
<1> DEFINE H == HeadOf(p)
           N == Len(q)
           L == Len(p)
<1>1. p \in Seq(Segments) /\ Cut(p, full) /\ Stored(p, fs, full)
  BY DEF Chain
<1>2. /\ q \in Seq(Segments) /\ d \in {0, 1} /\ N \in 1 .. MaxSegments
      /\ \A i \in 1 .. N - 1 : i + d \in 1 .. L /\ q[i] = p[i + d]
  BY DEF Continues
<1>3. L \in Nat /\ N \in Nat \ {0} /\ N \in 1 .. N
  BY <1>1, <1>2, LenProperties, ChainAssumption
<1>4. /\ HeadOf(q) = full /\ q # <<>>
      /\ p # <<>> => q[1].start = IF d = 0 THEN p[1].start ELSE p[1].head
      /\ Len(q[1].start) \in Nat
  BY ContinuedCut, ContinuedEnds
<1>5. Len(full) \in Nat /\ Len(H) \in Nat /\ Len(H) < Len(full) /\ Len(Initial) \in Nat
  BY ChainNumbers DEF Pending
<1>6. ASSUME NEW f \in DOMAIN fs
      PROVE  f <= Len(q[1].start) \/ \E i \in 1 .. N : f = FileOf(q[i])
  <2>1. CASE f = Len(H) + 1 /\ Orphaned(p, fs)
    <3>1. q[N].start = H
      BY <2>1 DEF Continues
    <3>2. FileOf(q[N]) = Len(q[N].start) + 1
      BY <1>2, <1>3, SegmentTyped
    <3> QED BY <1>3, <2>1, <3>1, <3>2
  <2>2. CASE p # <<>> /\ f \in Doomed(p, fs)
    <3>1. f <= Len(p[1].start) /\ f \in Nat
      BY <2>2, FilesOfChain DEF Doomed
    <3>2. 1 \in 1 .. L
      BY <1>1, <2>2, HeadIs
    <3>3. Len(p[1].start) < Len(p[1].head) /\ Len(p[1].start) \in Nat /\ Len(p[1].head) \in Nat
      BY <1>1, <3>2, SegmentsInOrder, SegmentTyped
    <3>4. f <= Len(q[1].start)
      BY <1>4, <2>2, <3>1, <3>3
    <3> QED BY <3>4
  <2>3. ASSUME p # <<>>, NEW i \in 1 .. L, f = FileOf(p[i])
        PROVE  f <= Len(q[1].start) \/ \E k \in 1 .. N : f = FileOf(q[k])
    <3>1. CASE i - d \in 1 .. N - 1
      <4>1. q[i - d] = p[i - d + d] /\ i - d + d = i /\ i - d \in 1 .. N
        BY <1>2, <1>3, <3>1
      <4> QED BY <2>3, <4>1
    <3>2. CASE i - d = 0
      <4>1. i = 1 /\ d = 1
        BY <1>2, <3>2
      <4>2. /\ Len(p[1].start) < Len(p[1].head) /\ f = Len(p[1].start) + 1
            /\ Len(p[1].start) \in Nat /\ Len(p[1].head) \in Nat
        BY <1>1, <2>3, <4>1, SegmentsInOrder, SegmentTyped
      <4>3. Len(q[1].start) = Len(p[1].head)
        BY <1>4, <2>3, <4>1
      <4> QED BY <4>2, <4>3
    <3>3. CASE i - d >= N
      <4>1. ~(N + d = L + 1)
        BY <1>2, <1>3, <3>3
      <4>2. d = 0 /\ N = L /\ q[N].start = p[L].start
        BY <4>1 DEF Continues
      <4>3. i = L
        BY <1>3, <3>3, <4>2
      <4>4. FileOf(q[N]) = Len(q[N].start) + 1 /\ FileOf(p[i]) = Len(p[i].start) + 1
        BY <1>1, <1>2, <1>3, SegmentTyped
      <4> QED BY <1>3, <2>3, <4>2, <4>3, <4>4
    <3> QED BY <1>2, <1>3, <3>1, <3>2, <3>3
  <2> QED BY <2>1, <2>2, <2>3, FilesOfChain
<1>7. ASSUME NEW f \in DOMAIN fs
      PROVE  /\ f \in Len(Initial) + 1 .. Len(full) + 1 /\ f # Len(full) + 1
             /\ fs[f] \in Seq(Line)
             /\ \A k \in 1 .. Len(fs[f]) :
                  fs[f][k] # Torn => f - 1 + k <= Len(full) /\ fs[f][k] = SubSeq(full, 1, f - 1 + k)
  <2>1. /\ f \in Len(Initial) + 1 .. Len(H) + 1
        /\ fs[f] \in Seq(Line)
        /\ \A k \in 1 .. Len(fs[f]) :
             fs[f][k] # Torn => f - 1 + k <= Len(full) /\ fs[f][k] = SubSeq(full, 1, f - 1 + k)
    BY <1>1 DEF Stored
  <2>2. f \in Len(Initial) + 1 .. Len(full) + 1 /\ f # Len(full) + 1
    BY <1>5, <2>1
  <2> QED BY <2>1, <2>2
<1>8. ~Orphaned(q, fs)
  BY <1>4, <1>7 DEF Orphaned, NameAfter
<1> QED BY <1>4, <1>6, <1>7, <1>8 DEF Stored

(* The committed records are on disk.                                      *)
LEMMA ContinuedCommitted ==
  ASSUME NEW p, NEW fs, NEW full, Chain(p, fs, full), Pending(p, fs, full),
         NEW q, NEW d, Continues(p, fs, full, q, d)
  PROVE  /\ Committed(q, fs)
         /\ Len(LastFile(q, fs)) = RecordCount(Last(q))
PROOF
<1> DEFINE H == HeadOf(p)
           N == Len(q)
           L == Len(p)
           n == Len(full) - Len(H)
<1>1. /\ p \in Seq(Segments) /\ Cut(p, full) /\ Committed(p, fs)
      /\ Leftover(Loose(p, fs), n)
  BY DEF Chain
<1>2. /\ q \in Seq(Segments) /\ d \in {0, 1} /\ N \in 1 .. MaxSegments
      /\ \A i \in 1 .. N - 1 : i + d \in 1 .. L /\ q[i] = p[i + d]
      /\ q[N].head = full
  BY DEF Continues
<1>3. L \in Nat /\ N \in Nat \ {0} /\ N \in 1 .. N
  BY <1>1, <1>2, LenProperties, ChainAssumption
<1>4. Last(q) = q[N]
  BY DEF Last
<1>5. Len(full) \in Nat /\ Len(H) \in Nat /\ n \in Nat /\ n # 0
  BY ChainNumbers DEF Pending
<1>6. Len(Loose(p, fs)) = n /\ (\A k \in 1 .. n : Loose(p, fs)[k] # Torn)
  BY <1>1 DEF Pending, Leftover
<1>7. FileOf(q[N]) = Len(q[N].start) + 1 /\ RecordCount(q[N]) = Len(full) - Len(q[N].start)
  BY <1>2, <1>3, SegmentTyped
<1>8. /\ FileOf(q[N]) \in DOMAIN fs
      /\ Len(fs[FileOf(q[N])]) = RecordCount(q[N])
      /\ \A k \in 1 .. RecordCount(q[N]) : fs[FileOf(q[N])][k] # Torn
      /\ q[N].size = Bytes(fs[FileOf(q[N])])
  <2>1. CASE /\ p # <<>> /\ ~Orphaned(p, fs) /\ d = 0 /\ Len(q) = Len(p)
             /\ q[Len(q)].start = p[Len(p)].start
             /\ q[Len(q)].size = Bytes(LastFile(p, fs))
             /\ Len(LastFile(p, fs)) = Len(full) - Len(p[Len(p)].start)
    <3> DEFINE t == LastFile(p, fs)
               c == RecordCount(Last(p))
    <3>1. /\ FileOf(Last(p)) \in DOMAIN fs /\ t \in Seq(Line) /\ c \in Nat \ {0} /\ c <= Len(t)
          /\ Len(Behind(p, fs)) = Len(t) - c
          /\ \A k \in 1 .. Len(t) - c : Behind(p, fs)[k] = t[c + k]
          /\ \A k \in 1 .. c : t[k] # Torn
      BY <2>1, LastFileOf
    <3>2. Last(p) = p[L] /\ L \in 1 .. L
      BY <1>1, <2>1, HeadIs
    <3>3. FileOf(p[L]) = Len(p[L].start) + 1
      BY <1>1, <3>2, SegmentTyped
    <3>4. FileOf(q[N]) = FileOf(Last(p)) /\ t = fs[FileOf(q[N])]
      BY <1>7, <2>1, <3>2, <3>3 DEF LastFile
    <3>5. Loose(p, fs) = Behind(p, fs)
      BY <2>1 DEF Loose
    <3>6. Len(t) = RecordCount(q[N]) /\ q[N].size = Bytes(t)
      BY <1>7, <2>1
    <3>7. Len(t) \in Nat
      BY <3>1, LenProperties
    <3> HIDE DEF t, c
    <3>8. ASSUME NEW k \in 1 .. RecordCount(q[N]) PROVE t[k] # Torn
      <4>1. CASE k <= c
        BY <3>1, <3>6, <3>7, <4>1
      <4>2. CASE k > c
        <5>1. k - c \in 1 .. Len(t) - c /\ c + (k - c) = k /\ k - c \in 1 .. n
          BY <1>6, <3>1, <3>5, <3>6, <3>7, <4>2
        <5>2. Behind(p, fs)[k - c] = t[c + (k - c)]
          BY <3>1, <5>1
        <5> QED BY <1>6, <3>5, <5>1, <5>2
      <4> QED BY <3>1, <3>6, <3>7, <4>1, <4>2
    <3> QED BY <3>1, <3>4, <3>6, <3>8
  <2>2. CASE /\ Orphaned(p, fs) /\ Len(q) + d = Len(p) + 1
             /\ q[Len(q)].start = HeadOf(p)
             /\ q[Len(q)].size = Bytes(fs[NameAfter(HeadOf(p))])
    <3>1. FileOf(q[N]) = NameAfter(H) /\ RecordCount(q[N]) = n
      BY <1>7, <2>2 DEF NameAfter
    <3>2. Loose(p, fs) = fs[NameAfter(H)] /\ NameAfter(H) \in DOMAIN fs
      BY <2>2 DEF Loose, Orphaned
    <3> QED BY <1>6, <2>2, <3>1, <3>2
  <2> QED BY <2>1, <2>2 DEF Continues
<1>9. ASSUME NEW i \in 1 .. N
      PROVE  /\ FileOf(q[i]) \in DOMAIN fs
             /\ RecordCount(q[i]) <= Len(fs[FileOf(q[i])])
             /\ \A k \in 1 .. RecordCount(q[i]) : fs[FileOf(q[i])][k] # Torn
             /\ q[i].size = Bytes(SubSeq(fs[FileOf(q[i])], 1, RecordCount(q[i])))
             /\ i < Len(q) \/ Orphaned(q, fs) => Len(fs[FileOf(q[i])]) = RecordCount(q[i])
  <2>1. CASE i = N
    <3>1. fs[FileOf(q[N])] \in Seq(Line) /\ RecordCount(q[N]) \in Int
      BY <1>8, ChainNumbers
    <3>2. SubSeq(fs[FileOf(q[N])], 1, Len(fs[FileOf(q[N])])) = fs[FileOf(q[N])]
      BY <3>1, SubSeqFull
    <3>3. q[N].size = Bytes(SubSeq(fs[FileOf(q[N])], 1, RecordCount(q[N])))
      BY <1>8, <3>2
    <3>4. RecordCount(q[N]) <= Len(fs[FileOf(q[N])])
      BY <1>8, <3>1
    <3> QED BY <1>8, <2>1, <3>3, <3>4
  <2>2. CASE i # N
    <3>1. i \in 1 .. N - 1
      BY <1>3, <2>2
    <3> DEFINE j == i + d
    <3>2. j \in 1 .. L /\ q[i] = p[j]
      BY <1>2, <3>1
    <3>3. j < Len(p) \/ Orphaned(p, fs)
      <4>1. CASE Orphaned(p, fs)
        BY <4>1
      <4>2. CASE ~Orphaned(p, fs)
        <5>1. d = 0 /\ N = L
          BY <4>2 DEF Continues
        <5> QED BY <1>3, <3>1, <5>1
      <4> QED BY <4>1, <4>2
    <3> HIDE DEF j
    <3> QED BY <1>1, <3>2, <3>3 DEF Committed
  <2> QED BY <2>1, <2>2
<1>10. Committed(q, fs)
  BY <1>9 DEF Committed
<1> QED BY <1>4, <1>8, <1>10 DEF LastFile

(* At most one file is now to be deleted, that of the dropped segment.     *)
LEMMA ContinuedPruned ==
  ASSUME NEW p, NEW fs, NEW full, Chain(p, fs, full), Pending(p, fs, full),
         NEW q, NEW d, Continues(p, fs, full, q, d)
  PROVE  Pruned(q, fs) /\ Behind(q, fs) = <<>> /\ Loose(q, fs) = <<>>
PROOF
<1> DEFINE H == HeadOf(p)
           L == Len(p)
<1>1. /\ p \in Seq(Segments) /\ Cut(p, full) /\ Committed(p, fs) /\ Pruned(p, fs)
  BY DEF Chain
<1>2. q \in Seq(Segments) /\ d \in {0, 1} /\ q # <<>>
  BY ContinuedCut DEF Continues
<1>3. /\ p # <<>> => q[1].start = IF d = 0 THEN p[1].start ELSE p[1].head
      /\ d = 1 => p # <<>> /\ Orphaned(p, fs)
      /\ Len(q[1].start) \in Nat /\ Len(q[1].start) <= Len(H)
  BY ContinuedEnds
<1>4. Len(full) \in Nat /\ Len(H) \in Nat
  BY ChainNumbers
<1>5. Doomed(p, fs) = {}
  <2>1. Len(Loose(p, fs)) # 0
    BY <1>4 DEF Pending
  <2>2. Loose(p, fs) # <<>>
    BY <2>1, EmptySeq
  <2> QED BY <1>1, <2>2 DEF Pruned
<1>6. ASSUME NEW f \in Doomed(q, fs)
      PROVE  /\ f = FileOf(p[1]) /\ f - 1 + Len(fs[f]) <= Len(q[1].start)
             /\ \A k \in 1 .. Len(fs[f]) : fs[f][k] # Torn
  <2>1. f \in DOMAIN fs /\ f <= Len(q[1].start)
    BY <1>2 DEF Doomed
  <2>2. f \in Nat /\ f # Len(H) + 1
    BY <1>3, <1>4, <2>1, FilesOfChain
  <2>3. p # <<>> /\ \E i \in 1 .. L : f = FileOf(p[i])
    BY <1>5, <2>1, <2>2, FilesOfChain
  <2>4. PICK i \in 1 .. L : f = FileOf(p[i])
    BY <2>3
  <2>5. 1 \in 1 .. L /\ L \in Nat
    BY <1>1, <2>3, HeadIs, LenProperties
  <2>6. /\ f = Len(p[i].start) + 1 /\ Len(p[i].start) \in Nat
        /\ Len(p[1].start) \in Nat /\ Len(p[1].head) \in Nat
        /\ FileOf(p[1]) = Len(p[1].start) + 1
    BY <1>1, <2>4, <2>5, SegmentTyped
  <2>7. i = 1
    <3>1. SUFFICES ASSUME i # 1 PROVE FALSE
      OBVIOUS
    <3>2. 1 < i
      BY <2>5, <3>1
    <3>3. Len(p[1].head) < FileOf(p[i]) /\ Len(p[1].start) < Len(p[1].head)
      BY <1>1, <2>5, <3>2, SegmentsInOrder
    <3> QED BY <1>2, <1>3, <2>1, <2>3, <2>4, <2>6, <3>3
  <2>8. d = 1
    BY <1>2, <1>3, <2>1, <2>3, <2>6, <2>7
  <2>9. /\ Len(fs[FileOf(p[1])]) = RecordCount(p[1])
        /\ \A k \in 1 .. RecordCount(p[1]) : fs[FileOf(p[1])][k] # Torn
    BY <1>1, <1>3, <2>5, <2>8 DEF Committed
  <2>10. FileOf(p[1]) - 1 + RecordCount(p[1]) = Len(p[1].head)
    BY <1>1, <2>5, SegmentsInOrder
  <2>11. Len(q[1].start) = Len(p[1].head)
    BY <1>3, <2>3, <2>8
  <2> QED BY <2>4, <2>6, <2>7, <2>9, <2>10, <2>11
<1>7. ~Orphaned(q, fs) /\ Len(LastFile(q, fs)) = RecordCount(Last(q))
  BY ContinuedStored, ContinuedCommitted
<1>8. Behind(q, fs) = <<>>
  <2> DEFINE t == LastFile(q, fs)
             c == RecordCount(Last(q))
  <2>1. Last(q) \in Segments
    BY <1>2, LastOf
  <2>2. Last(q).start \in Seq(Events) /\ Last(q).head \in Seq(Events)
    BY <2>1 DEF Segments, Histories
  <2>3. c \in Int
    BY <2>2, LenProperties DEF RecordCount
  <2>4. Behind(q, fs) = SubSeq(t, c + 1, Len(t)) /\ Len(t) = c
    BY <1>2, <1>7 DEF Behind
  <2> HIDE DEF t, c
  <2>5. Len(t) \in Int /\ c + 1 \in Int /\ Len(t) < c + 1
    BY <2>3, <2>4
  <2> QED BY <2>4, <2>5, SubSeqEmpty
<1>9. Loose(q, fs) = <<>>
  BY <1>7, <1>8 DEF Loose
<1> QED BY <1>2, <1>6, <1>7, <1>8, <1>9 DEF Pruned

(* The next manifest describes the whole history.                          *)
LEMMA Sealed ==
  ASSUME NEW p, NEW fs, NEW full, Chain(p, fs, full), Pending(p, fs, full),
         NEW q, q = SuccessorOf(p, fs)
  PROVE  /\ Chain(q, fs, full) /\ HeadOf(q) = full
         /\ ~Orphaned(q, fs) /\ Behind(q, fs) = <<>>
PROOF
<1>1. PICK d : Continues(p, fs, full, q, d)
  BY SuccessorContinues
<1>2. /\ Cut(q, full) /\ HeadOf(q) = full
      /\ Stored(q, fs, full) /\ ~Orphaned(q, fs)
      /\ Committed(q, fs)
      /\ Pruned(q, fs) /\ Behind(q, fs) = <<>> /\ Loose(q, fs) = <<>>
  BY <1>1, ContinuedCut, ContinuedStored, ContinuedCommitted, ContinuedPruned
<1>3. full \in Histories /\ PrefixOf(Initial, full) /\ Small(full) /\ PrefixOf(full, full)
  BY PrefixOfItself DEF Chain
<1>4. q \in Seq(Segments)
  BY <1>1 DEF Continues
<1>5. Leftover(Loose(q, fs), Len(full) - Len(HeadOf(q)))
  <2>1. Len(full) - Len(HeadOf(q)) = 0 /\ Len(Loose(q, fs)) = 0
    <3>1. Len(full) \in Nat
      BY ChainNumbers
    <3> QED BY <1>2, <3>1, EmptySeq
  <2> QED BY <2>1, ChainAssumption DEF Leftover
<1> QED BY <1>2, <1>3, <1>4, <1>5 DEF Chain

(* An empty directory.                                                     *)
LEMMA NothingStored == Chain(<<>>, <<>>, Initial) /\ Behind(<<>>, <<>>) = <<>> /\ HeadOf(<<>>) = Initial
PROOF
<1>1. <<>> \in Seq(Segments) /\ Len(<<>>) = 0 /\ DOMAIN <<>> = {}
  <2>1. <<>> \in Seq({}) /\ Len(<<>>) = 0 /\ <<>> \in Seq(Segments)
    BY EmptySeq
  <2>2. DOMAIN <<>> = 1 .. 0
    BY <2>1, LenProperties
  <2> QED BY <2>1, <2>2
<1>2. Initial \in Histories /\ Len(Initial) \in Nat /\ HeadOf(<<>>) = Initial
  BY ChainAssumption, LenProperties DEF Histories, HeadOf
<1>3. PrefixOf(Initial, Initial)
  BY <1>2, PrefixOfItself
<1>4. Cut(<<>>, Initial)
  BY <1>1, ChainAssumption DEF Cut
<1>5. ~Orphaned(<<>>, <<>>) /\ Loose(<<>>, <<>>) = <<>> /\ Behind(<<>>, <<>>) = <<>>
  BY <1>1 DEF Orphaned, Loose, Behind
<1>6. Stored(<<>>, <<>>, Initial) /\ Committed(<<>>, <<>>) /\ Pruned(<<>>, <<>>)
  BY <1>1, <1>5 DEF Stored, Committed, Pruned, Doomed
<1>7. Leftover(Loose(<<>>, <<>>), Len(Initial) - Len(HeadOf(<<>>)))
  <2>1. Len(Initial) - Len(HeadOf(<<>>)) = 0 /\ Len(Loose(<<>>, <<>>)) = 0
    BY <1>1, <1>2, <1>5
  <2> QED BY <2>1, ChainAssumption DEF Leftover
<1>8. Small(Initial)
  BY <1>2 DEF Small
<1> QED BY <1>1, <1>2, <1>3, <1>4, <1>5, <1>6, <1>7, <1>8 DEF Chain

(* A doomed file is deleted.                                               *)
LEMMA Deleted ==
  ASSUME NEW p, NEW fs, NEW full, Chain(p, fs, full), NEW f \in Doomed(p, fs),
         NEW gs, gs = [g \in DOMAIN fs \ {f} |-> fs[g]]
  PROVE  /\ Chain(p, gs, full)
         /\ Behind(p, gs) = Behind(p, fs) /\ Behind(p, fs) = <<>>
         /\ ~Orphaned(p, gs) /\ ~Orphaned(p, fs)
PROOF
<1>1. /\ p \in Seq(Segments) /\ Cut(p, full) /\ Committed(p, fs) /\ Pruned(p, fs) /\ Stored(p, fs, full)
      /\ Leftover(Loose(p, fs), Len(full) - Len(HeadOf(p)))
  BY DEF Chain
<1>2. p # <<>> /\ f \in DOMAIN fs /\ f <= Len(p[1].start) /\ f \in Nat
  BY ChainNumbers DEF Doomed
<1>3. DOMAIN gs = DOMAIN fs \ {f} /\ (\A g \in DOMAIN gs : gs[g] = fs[g])
  OBVIOUS
<1>4. ~Orphaned(p, fs) /\ Loose(p, fs) = <<>>
  BY <1>1 DEF Pruned
<1>5. 1 \in 1 .. Len(p) /\ Len(p) \in 1 .. Len(p) /\ Last(p) = p[Len(p)] /\ Len(p) \in Nat
  BY <1>1, <1>2, HeadIs, LenProperties
<1>6. ASSUME NEW i \in 1 .. Len(p) PROVE FileOf(p[i]) # f
  <2>1. FileOf(p[1]) = Len(p[1].start) + 1 /\ Len(p[1].start) \in Nat
    BY <1>1, <1>5, SegmentTyped
  <2>2. CASE i = 1
    BY <1>2, <2>1, <2>2
  <2>3. CASE i # 1
    <3>1. 1 < i
      BY <1>5, <2>3
    <3>2. FileOf(p[1]) < FileOf(p[i])
      BY <1>1, <1>5, <3>1, SegmentsInOrder
    <3>3. FileOf(p[i]) \in Nat
      <4>1. FileOf(p[i]) = Len(p[i].start) + 1 /\ Len(p[i].start) \in Nat
        BY <1>1, SegmentTyped
      <4> QED BY <4>1
    <3> QED BY <1>2, <2>1, <3>2, <3>3
  <2> QED BY <2>2, <2>3
<1>7. ~Orphaned(p, gs)
  BY <1>3, <1>4 DEF Orphaned
<1>8. Behind(p, gs) = Behind(p, fs) /\ Loose(p, gs) = Loose(p, fs) /\ Behind(p, fs) = Loose(p, fs)
  <2>1. FileOf(p[Len(p)]) \in DOMAIN gs
    BY <1>1, <1>3, <1>5, <1>6 DEF Committed
  <2>2. LastFile(p, gs) = LastFile(p, fs)
    BY <1>3, <1>5, <2>1 DEF LastFile
  <2> QED BY <1>4, <1>7, <2>2 DEF Behind, Loose
<1>9. Stored(p, gs, full)
  BY <1>1, <1>3 DEF Stored
<1>10. Committed(p, gs)
  <2>1. ASSUME NEW i \in 1 .. Len(p)
        PROVE  /\ FileOf(p[i]) \in DOMAIN gs
               /\ RecordCount(p[i]) <= Len(gs[FileOf(p[i])])
               /\ \A k \in 1 .. RecordCount(p[i]) : gs[FileOf(p[i])][k] # Torn
               /\ p[i].size = Bytes(SubSeq(gs[FileOf(p[i])], 1, RecordCount(p[i])))
               /\ i < Len(p) \/ Orphaned(p, gs) => Len(gs[FileOf(p[i])]) = RecordCount(p[i])
    <3>1. /\ FileOf(p[i]) \in DOMAIN fs
          /\ RecordCount(p[i]) <= Len(fs[FileOf(p[i])])
          /\ \A k \in 1 .. RecordCount(p[i]) : fs[FileOf(p[i])][k] # Torn
          /\ p[i].size = Bytes(SubSeq(fs[FileOf(p[i])], 1, RecordCount(p[i])))
          /\ i < Len(p) => Len(fs[FileOf(p[i])]) = RecordCount(p[i])
      BY <1>1 DEF Committed
    <3>2. FileOf(p[i]) \in DOMAIN gs /\ gs[FileOf(p[i])] = fs[FileOf(p[i])]
      BY <1>3, <1>6, <3>1
    <3> QED BY <1>7, <3>1, <3>2
  <2> QED BY <2>1 DEF Committed
<1>11. Pruned(p, gs)
  <2>1. Doomed(p, gs) = {}
    BY <1>1, <1>2, <1>3 DEF Doomed, Pruned
  <2> QED BY <2>1 DEF Pruned
<1>12. Leftover(Loose(p, gs), Len(full) - Len(HeadOf(p)))
  BY <1>1, <1>8
<1>13. Chain(p, gs, full)
  BY <1>9, <1>10, <1>11, <1>12 DEF Chain
<1> QED BY <1>4, <1>7, <1>8, <1>13

(***************************************************************************)
(* Lines are appended to a settled directory.                              *)
(***************************************************************************)
Settled(p, fs) == ~Orphaned(p, fs) /\ Behind(p, fs) = <<>> /\ Doomed(p, fs) = {}

(* Lines of a chunk, and maybe a partial one.                              *)
LinesOf(lines, full, more) ==
  /\ lines \in Seq(Line)
  /\ Len(lines) \in {Len(more), Len(more) + 1}
  /\ \A k \in 1 .. Len(more) : lines[k] = SubSeq(full \o more, 1, Len(full) + k)
  /\ Len(lines) = Len(more) + 1 => lines[Len(more) + 1] = Torn
  /\ Len(more) <= MaxChainBatchRecords
  /\ Len(more) > 1 => Bytes(SubSeq(lines, 1, Len(more))) <= MaxBatchBytes
  /\ \A k \in 1 .. Len(more) : Size[more[k]] <= MaxRecordBytes

(* The file they go to, and what is in it.                                 *)
Aimed(p, fs, g, before) ==
  \/ g = NameAfter(HeadOf(p)) /\ before = <<>>
  \/ p # <<>> /\ g = FileOf(Last(p)) /\ before = fs[g]

With(fs, g, lines) == [f \in DOMAIN fs \cup {g} |-> IF f = g THEN lines ELSE fs[f]]

(* What is published is all there is.                                      *)
LEMMA SettledChain ==
  ASSUME NEW p, NEW fs, NEW full, Chain(p, fs, full), ~Orphaned(p, fs), Behind(p, fs) = <<>>
  PROVE  /\ HeadOf(p) = full
         /\ p # <<>> => Len(LastFile(p, fs)) = RecordCount(Last(p))
PROOF
<1>1. Loose(p, fs) = <<>> /\ Len(<<>>) = 0
  BY EmptySeq DEF Loose
<1>2. Leftover(<<>>, Len(full) - Len(HeadOf(p)))
  BY <1>1 DEF Chain
<1>3. Len(full) \in Nat /\ Len(HeadOf(p)) \in Nat
  BY ChainNumbers
<1>4. Len(HeadOf(p)) = Len(full)
  BY <1>1, <1>2, <1>3 DEF Leftover
<1>5. HeadOf(p) = full
  BY <1>4, ChainNumbers
<1>6. ASSUME p # <<>> PROVE Len(LastFile(p, fs)) = RecordCount(Last(p))
  <2>1. /\ Len(Behind(p, fs)) = Len(LastFile(p, fs)) - RecordCount(Last(p))
        /\ RecordCount(Last(p)) \in Nat /\ LastFile(p, fs) \in Seq(Line)
    BY <1>6, LastFileOf
  <2>2. Len(LastFile(p, fs)) \in Nat
    BY <2>1, LenProperties
  <2> QED BY <1>1, <2>1, <2>2
<1> QED BY <1>5, <1>6

(* The rest of two sequences is the second.                                *)
LEMMA RestOfJoined ==
  ASSUME NEW S, NEW s \in Seq(S), NEW t \in Seq(S)
  PROVE  SubSeq(s \o t, Len(s) + 1, Len(s \o t)) = t
PROOF
<1> DEFINE j == s \o t
           r == SubSeq(j, Len(s) + 1, Len(j))
<1>1. Len(s) \in Nat /\ Len(t) \in Nat
  BY LenProperties
<1>2. /\ j \in Seq(S) /\ Len(j) = Len(s) + Len(t)
      /\ \A i \in 1 .. Len(t) : j[Len(s) + i] = t[i]
  BY Joined
<1> HIDE DEF j
<1>3. Len(s) \in 0 .. Len(j)
  BY <1>1, <1>2
<1>4. /\ r \in Seq(S) /\ Len(r) = Len(j) - Len(s)
      /\ \A i \in 1 .. Len(j) - Len(s) : r[i] = j[Len(s) + i]
  BY <1>2, <1>3, RestOf
<1> HIDE DEF r
<1>5. Len(r) = Len(t) /\ Len(j) - Len(s) = Len(t)
  BY <1>1, <1>2, <1>4
<1>6. \A i \in 1 .. Len(r) : r[i] = t[i]
  BY <1>2, <1>4, <1>5
<1>7. r = t
  BY <1>4, <1>5, <1>6, SeqEqual
<1> QED BY <1>7 DEF r, j

(* The numbers of an append.                                               *)
LEMMA Appending ==
  ASSUME NEW p, NEW fs, NEW full, Chain(p, fs, full), Settled(p, fs),
         NEW more \in Histories, NEW lines, LinesOf(lines, full, more),
         NEW g, NEW before, Aimed(p, fs, g, before)
  PROVE  /\ full \o more \in Histories /\ Len(full \o more) = Len(full) + Len(more)
         /\ Len(full) \in Nat /\ Len(more) \in Nat /\ Len(lines) \in Nat /\ lines \in Seq(Line)
         /\ \A n \in 0 .. Len(full) : SubSeq(full \o more, 1, n) = SubSeq(full, 1, n)
         /\ HeadOf(p) = full /\ PrefixOf(full, full \o more)
         /\ before \in Seq(Line) /\ before \o lines \in Seq(Line)
         /\ Len(before) \in Nat /\ g \in Nat /\ g \in Len(Initial) + 1 .. Len(full) + 1
         /\ g - 1 + Len(before) = Len(full)
         /\ Len(before \o lines) = Len(before) + Len(lines)
         /\ \A k \in 1 .. Len(before) : (before \o lines)[k] = before[k]
         /\ \A k \in 1 .. Len(lines) : (before \o lines)[Len(before) + k] = lines[k]
         /\ \A i \in 1 .. Len(p) : FileOf(p[i]) = g =>
              i = Len(p) /\ before = fs[g] /\ g \in DOMAIN fs /\ g # NameAfter(HeadOf(p))
         /\ p # <<>> => g > Len(p[1].start)
         /\ g # NameAfter(HeadOf(p)) => p # <<>> /\ g = FileOf(Last(p)) /\ before = fs[g]
                                          /\ Len(before) = RecordCount(Last(p))
         /\ g = NameAfter(HeadOf(p)) => before = <<>>
PROOF
<1> DEFINE x == full \o more
<1>1. full \in Seq(Events) /\ more \in Seq(Events) /\ p \in Seq(Segments) /\ Cut(p, full)
  BY DEF Chain, Histories
<1>2. x \in Histories /\ Len(x) = Len(full) + Len(more)
  BY <1>1, Joined DEF Histories
<1>3. Len(full) \in Nat /\ Len(more) \in Nat /\ lines \in Seq(Line)
  BY <1>1, LenProperties DEF LinesOf
<1>4. \A n \in 0 .. Len(full) : SubSeq(x, 1, n) = SubSeq(full, 1, n)
  BY <1>1, FirstOfJoined
<1>5. HeadOf(p) = full /\ (p # <<>> => Len(LastFile(p, fs)) = RecordCount(Last(p)))
  BY SettledChain DEF Settled
<1>6. PrefixOf(full, x)
  BY <1>1, PrefixOfItself, PrefixOfLonger DEF Histories
<1>7. Len(Initial) \in Nat /\ Len(Initial) <= Len(full) /\ NameAfter(HeadOf(p)) = Len(full) + 1
  BY <1>5, ChainNumbers DEF NameAfter
<1>8. Len(lines) \in Nat
  BY <1>3, LenProperties
<1>9. p # <<>> => 1 \in 1 .. Len(p) /\ Len(p) \in 1 .. Len(p) /\ Last(p) = p[Len(p)]
  BY <1>1, HeadIs
<1>10. CASE g = NameAfter(HeadOf(p)) /\ before = <<>>
  <2>1. before \in Seq(Line) /\ Len(before) = 0
    BY <1>10, EmptySeq
  <2>2. ASSUME NEW i \in 1 .. Len(p) PROVE FileOf(p[i]) # g /\ Len(p[i].start) < g
    <3>1. FileOf(p[i]) \in Len(Initial) + 1 .. Len(full)
      BY <1>1, <1>5, SegmentsInOrder
    <3>2. FileOf(p[i]) = Len(p[i].start) + 1 /\ Len(p[i].start) \in Nat
      BY <1>1, SegmentTyped
    <3> QED BY <1>3, <1>7, <1>10, <3>1, <3>2
  <2>3. p # <<>> => g > Len(p[1].start)
    <3> HAVE p # <<>>
    <3>1. Len(p[1].start) < g /\ Len(p[1].start) \in Nat
      BY <1>1, <1>9, <2>2, SegmentTyped
    <3> QED BY <3>1, <1>3, <1>7, <1>10
  <2>4. g \in Nat /\ g \in Len(Initial) + 1 .. Len(full) + 1 /\ g - 1 + Len(before) = Len(full)
    BY <1>3, <1>7, <1>10, <2>1
  <2>5. /\ before \o lines \in Seq(Line)
        /\ Len(before \o lines) = Len(before) + Len(lines)
        /\ \A k \in 1 .. Len(before) : (before \o lines)[k] = before[k]
        /\ \A k \in 1 .. Len(lines) : (before \o lines)[Len(before) + k] = lines[k]
    BY <1>3, <2>1, Joined
  <2> QED BY <1>2, <1>3, <1>4, <1>5, <1>6, <1>8, <1>10, <2>1, <2>2, <2>3, <2>4, <2>5
<1>11. CASE p # <<>> /\ g = FileOf(Last(p)) /\ before = fs[g]
  <2>1. /\ g \in DOMAIN fs /\ before \in Seq(Line) /\ before = LastFile(p, fs)
        /\ RecordCount(Last(p)) \in Nat
        /\ g - 1 + RecordCount(Last(p)) = Len(full) /\ g \in 1 .. Len(full)
    BY <1>5, <1>11, LastFileOf DEF LastFile
  <2>2. Len(before) = RecordCount(Last(p)) /\ Len(before) \in Nat
    BY <1>5, <1>11, <2>1
  <2>3. g = FileOf(p[Len(p)]) /\ g \in Len(Initial) + 1 .. Len(full) /\ Len(p) \in Nat
    BY <1>1, <1>5, <1>9, <1>11, SegmentsInOrder, LenProperties
  <2>4. ASSUME NEW i \in 1 .. Len(p), FileOf(p[i]) = g PROVE i = Len(p)
    <3>1. SUFFICES ASSUME i # Len(p) PROVE FALSE
      OBVIOUS
    <3>2. i < Len(p)
      BY <2>3, <3>1
    <3>3. FileOf(p[i]) < FileOf(p[Len(p)])
      BY <1>1, <1>9, <1>11, <3>2, SegmentsInOrder
    <3> QED BY <2>1, <2>3, <2>4, <3>3
  <2>5. g > Len(p[1].start)
    <3>1. FileOf(p[1]) = Len(p[1].start) + 1 /\ Len(p[1].start) \in Nat
      BY <1>1, <1>9, <1>11, SegmentTyped
    <3>2. CASE Len(p) = 1
      BY <2>3, <3>1, <3>2
    <3>3. CASE Len(p) # 1
      <4>1. 1 < Len(p)
        BY <1>9, <1>11, <2>3, <3>3
      <4>2. FileOf(p[1]) < FileOf(p[Len(p)])
        BY <1>1, <1>9, <1>11, <4>1, SegmentsInOrder
      <4> QED BY <2>1, <2>3, <3>1, <4>2
    <3> QED BY <3>2, <3>3
  <2>6. /\ before \o lines \in Seq(Line)
        /\ Len(before \o lines) = Len(before) + Len(lines)
        /\ \A k \in 1 .. Len(before) : (before \o lines)[k] = before[k]
        /\ \A k \in 1 .. Len(lines) : (before \o lines)[Len(before) + k] = lines[k]
    BY <1>3, <2>1, Joined
  <2>7. g \in Nat /\ g \in Len(Initial) + 1 .. Len(full) + 1 /\ g # NameAfter(HeadOf(p))
    BY <1>3, <1>7, <2>1, <2>3
  <2>8. g - 1 + Len(before) = Len(full)
    BY <2>1, <2>2
  <2> QED BY <1>2, <1>3, <1>4, <1>5, <1>6, <1>8, <1>11, <2>1, <2>2, <2>4, <2>5, <2>6, <2>7, <2>8
<1> QED BY <1>10, <1>11 DEF Aimed

(* The directory after an append, finished or not.                         *)
LEMMA Grown ==
  ASSUME NEW p, NEW fs, NEW full, Chain(p, fs, full), Settled(p, fs),
         NEW more \in Histories, NEW lines, LinesOf(lines, full, more),
         NEW g, NEW before, Aimed(p, fs, g, before),
         NEW gs, gs = With(fs, g, before \o lines)
  PROVE  /\ Chain(p, gs, full \o more) /\ Loose(p, gs) = lines
         /\ Orphaned(p, gs) <=> g = NameAfter(HeadOf(p))
         /\ gs[g] = before \o lines
PROOF
<1> DEFINE x == full \o more
           b == before \o lines
<1>1. /\ x \in Histories /\ Len(x) = Len(full) + Len(more)
      /\ Len(full) \in Nat /\ Len(more) \in Nat /\ Len(lines) \in Nat /\ lines \in Seq(Line)
      /\ HeadOf(p) = full /\ PrefixOf(full, x)
  BY Appending
<1>2. \A n \in 0 .. Len(full) : SubSeq(x, 1, n) = SubSeq(full, 1, n)
  BY Appending
<1>3. /\ before \in Seq(Line) /\ b \in Seq(Line)
      /\ Len(before) \in Nat /\ g \in Nat /\ g \in Len(Initial) + 1 .. Len(full) + 1
      /\ g - 1 + Len(before) = Len(full)
      /\ Len(b) = Len(before) + Len(lines)
      /\ \A k \in 1 .. Len(before) : b[k] = before[k]
      /\ \A k \in 1 .. Len(lines) : b[Len(before) + k] = lines[k]
  BY Appending
<1>4. /\ \A i \in 1 .. Len(p) : FileOf(p[i]) = g =>
            i = Len(p) /\ before = fs[g] /\ g \in DOMAIN fs /\ g # NameAfter(HeadOf(p))
      /\ p # <<>> => g > Len(p[1].start)
      /\ g # NameAfter(HeadOf(p)) => p # <<>> /\ g = FileOf(Last(p)) /\ before = fs[g]
                                       /\ Len(before) = RecordCount(Last(p))
      /\ g = NameAfter(HeadOf(p)) => before = <<>>
  BY Appending
<1>5. /\ p \in Seq(Segments) /\ full \in Histories
      /\ PrefixOf(Initial, full) /\ Cut(p, full) /\ Stored(p, fs, full)
      /\ Committed(p, fs) /\ Small(full)
  BY DEF Chain
<1>6. ~Orphaned(p, fs) /\ Behind(p, fs) = <<>> /\ Doomed(p, fs) = {}
  BY DEF Settled
<1>7. /\ Len(lines) \in {Len(more), Len(more) + 1}
      /\ \A k \in 1 .. Len(more) : lines[k] = SubSeq(x, 1, Len(full) + k)
      /\ Len(lines) = Len(more) + 1 => lines[Len(more) + 1] = Torn
      /\ Len(more) <= MaxChainBatchRecords
      /\ Len(more) > 1 => Bytes(SubSeq(lines, 1, Len(more))) <= MaxBatchBytes
      /\ \A k \in 1 .. Len(more) : Size[more[k]] <= MaxRecordBytes
  BY DEF LinesOf
<1>8. /\ DOMAIN gs = DOMAIN fs \cup {g} /\ gs[g] = b
      /\ \A f \in DOMAIN gs : f # g => f \in DOMAIN fs /\ gs[f] = fs[f]
  BY DEF With
<1>9. \A k \in 1 .. Len(full) : x[k] = full[k]
  BY <1>5, Joined DEF Histories
<1>10. \A k \in 1 .. Len(more) : x[Len(full) + k] = more[k]
  BY <1>5, Joined DEF Histories
<1>11. Len(Initial) \in Nat /\ Len(Initial) <= Len(full)
  BY <1>1, ChainNumbers
<1> HIDE DEF x, b
<1>12. PrefixOf(Initial, x)
  <2>1. Initial \in Histories
    BY ChainAssumption
  <2> QED BY <1>1, <1>5, <2>1, PrefixOfPrefix
<1>13. Cut(p, x)
  <2>1. ASSUME NEW i \in 1 .. Len(p)
        PROVE  PrefixOf(p[i].start, x) /\ PrefixOf(p[i].head, x)
    <3>1. p[i].start \in Histories /\ p[i].head \in Histories
      BY <1>5, SegmentTyped
    <3>2. PrefixOf(p[i].start, full) /\ PrefixOf(p[i].head, full)
      BY <1>5 DEF Cut
    <3> QED BY <1>1, <1>5, <3>1, <3>2, PrefixOfPrefix
  <2> QED BY <1>5, <2>1 DEF Cut
<1>14. Stored(p, gs, x)
  <2>1. ASSUME NEW f \in DOMAIN gs
        PROVE  /\ f \in Len(Initial) + 1 .. Len(HeadOf(p)) + 1
               /\ gs[f] \in Seq(Line)
               /\ \A k \in 1 .. Len(gs[f]) :
                    gs[f][k] # Torn => f - 1 + k <= Len(x) /\ gs[f][k] = SubSeq(x, 1, f - 1 + k)
               /\ f <= Len(HeadOf(p)) =>
                    p # <<>> /\ (f <= Len(p[1].start) \/ \E i \in 1 .. Len(p) : f = FileOf(p[i]))
    <3>1. ASSUME NEW h \in DOMAIN fs, NEW k \in 1 .. Len(fs[h]), fs[h][k] # Torn
          PROVE  h - 1 + k <= Len(x) /\ fs[h][k] = SubSeq(x, 1, h - 1 + k)
      <4>1. h - 1 + k <= Len(full) /\ fs[h][k] = SubSeq(full, 1, h - 1 + k)
        BY <1>5, <3>1 DEF Stored
      <4>2. h \in Len(Initial) + 1 .. Len(HeadOf(p)) + 1
        BY <1>5 DEF Stored
      <4>3. h - 1 + k \in 0 .. Len(full) /\ h - 1 + k <= Len(x)
        BY <1>1, <1>11, <4>1, <4>2
      <4> QED BY <1>2, <4>1, <4>3
    <3>2. CASE f # g
      <4>1. f \in DOMAIN fs /\ gs[f] = fs[f]
        BY <1>8, <3>2
      <4>2. /\ f \in Len(Initial) + 1 .. Len(HeadOf(p)) + 1
            /\ fs[f] \in Seq(Line)
            /\ f <= Len(HeadOf(p)) =>
                 p # <<>> /\ (f <= Len(p[1].start) \/ \E i \in 1 .. Len(p) : f = FileOf(p[i]))
        BY <1>5, <4>1 DEF Stored
      <4> QED BY <3>1, <4>1, <4>2
    <3>3. CASE f = g
      <4>1. gs[f] = b /\ f \in Len(Initial) + 1 .. Len(HeadOf(p)) + 1 /\ b \in Seq(Line)
        BY <1>1, <1>3, <1>8, <3>3
      <4>2. ASSUME NEW k \in 1 .. Len(b), b[k] # Torn
            PROVE  g - 1 + k <= Len(x) /\ b[k] = SubSeq(x, 1, g - 1 + k)
        <5>1. CASE k <= Len(before)
          <6>1. k \in 1 .. Len(before) /\ before # <<>>
            BY <1>3, <5>1, EmptySeq
          <6>2. before = fs[g] /\ g # NameAfter(HeadOf(p)) /\ p # <<>> /\ g = FileOf(Last(p))
            BY <1>4, <6>1
          <6>3. g \in DOMAIN fs
            BY <6>2, LastFileOf
          <6> QED BY <1>3, <3>1, <4>2, <6>1, <6>2, <6>3
        <5>2. CASE k > Len(before)
          <6> DEFINE m == k - Len(before)
          <6>1. m \in 1 .. Len(lines) /\ Len(before) + m = k /\ g - 1 + k = Len(full) + m
            <7>1. k \in Nat /\ k <= Len(before) + Len(lines) /\ Len(lines) \in Nat /\ Len(before) \in Nat
              BY <1>1, <1>3
            <7>2. m \in 1 .. Len(lines) /\ Len(before) + m = k
              BY <5>2, <7>1
            <7>3. g \in Nat /\ Len(full) \in Nat /\ g - 1 + Len(before) = Len(full)
              BY <1>1, <1>3
            <7>4. g - 1 + k = Len(full) + m
              BY <7>1, <7>3
            <7> QED BY <7>2, <7>4
          <6>2. b[k] = lines[m]
            BY <1>3, <6>1
          <6>3. m # Len(more) + 1
            BY <1>7, <4>2, <6>1, <6>2
          <6> HIDE DEF m
          <6>4. m \in 1 .. Len(more)
            BY <1>1, <1>7, <6>1, <6>3
          <6> QED BY <1>1, <1>7, <6>1, <6>2, <6>4
        <5> QED BY <1>3, <5>1, <5>2
      <4>3. g <= Len(HeadOf(p)) => p # <<>> /\ \E i \in 1 .. Len(p) : g = FileOf(p[i])
        <5> HAVE g <= Len(HeadOf(p))
        <5>1. g # NameAfter(HeadOf(p))
          BY <1>1, <1>3 DEF NameAfter
        <5>2. p # <<>> /\ g = FileOf(Last(p))
          BY <1>4, <5>1
        <5>3. Len(p) \in 1 .. Len(p) /\ Last(p) = p[Len(p)]
          BY <1>5, <5>2, HeadIs
        <5> QED BY <5>2, <5>3
      <4> QED BY <3>3, <4>1, <4>2, <4>3
    <3> QED BY <3>2, <3>3
  <2> QED BY <2>1 DEF Stored
<1>15. Orphaned(p, gs) <=> g = NameAfter(HeadOf(p))
  BY <1>6, <1>8 DEF Orphaned
<1>16. Committed(p, gs)
  <2>1. ASSUME NEW i \in 1 .. Len(p)
        PROVE  /\ FileOf(p[i]) \in DOMAIN gs
               /\ RecordCount(p[i]) <= Len(gs[FileOf(p[i])])
               /\ \A k \in 1 .. RecordCount(p[i]) : gs[FileOf(p[i])][k] # Torn
               /\ p[i].size = Bytes(SubSeq(gs[FileOf(p[i])], 1, RecordCount(p[i])))
               /\ i < Len(p) \/ Orphaned(p, gs) => Len(gs[FileOf(p[i])]) = RecordCount(p[i])
    <3> DEFINE f == FileOf(p[i])
               c == RecordCount(p[i])
    <3>1. /\ f \in DOMAIN fs
          /\ c <= Len(fs[f])
          /\ \A k \in 1 .. c : fs[f][k] # Torn
          /\ p[i].size = Bytes(SubSeq(fs[f], 1, c))
          /\ i < Len(p) => Len(fs[f]) = c
      BY <1>5 DEF Committed
    <3>2. f \in DOMAIN gs
      BY <1>8, <3>1
    <3>3. c \in Nat /\ Len(p) \in Nat
      BY <1>5, SegmentsInOrder, LenProperties
    <3>4. CASE f = g
      <4>1. i = Len(p) /\ before = fs[f] /\ g # NameAfter(HeadOf(p)) /\ gs[f] = b
        BY <1>4, <1>8, <3>4
      <4> HIDE DEF f, c
      <4>2. c \in 0 .. Len(before) /\ c <= Len(b)
        BY <1>1, <1>3, <3>1, <3>3, <4>1
      <4>3. SubSeq(b, 1, c) = SubSeq(before, 1, c)
        BY <1>1, <1>3, <4>2, FirstOfJoined DEF b
      <4>4. \A k \in 1 .. c : b[k] # Torn
        <5> SUFFICES ASSUME NEW k \in 1 .. c PROVE b[k] # Torn
          OBVIOUS
        <5>1. before[k] # Torn
          BY <3>1, <4>1
        <5>2. k \in 1 .. Len(before)
          BY <1>1, <3>3, <4>2
        <5> QED BY <1>3, <5>1, <5>2
      <4>5. ~(i < Len(p)) /\ ~Orphaned(p, gs)
        BY <1>15, <3>3, <4>1
      <4>6. /\ f \in DOMAIN gs /\ c <= Len(gs[f]) /\ (\A k \in 1 .. c : gs[f][k] # Torn)
            /\ p[i].size = Bytes(SubSeq(gs[f], 1, c))
        BY <3>1, <3>2, <4>1, <4>2, <4>3, <4>4
      <4> QED BY <4>5, <4>6 DEF f, c
    <3>5. CASE f # g
      <4>1. gs[f] = fs[f]
        BY <1>8, <3>2, <3>5
      <4>2. Len(fs[f]) = c
        <5>1. CASE i < Len(p)
          BY <3>1, <5>1
        <5>2. CASE ~(i < Len(p))
          <6>1. i = Len(p) /\ p # <<>>
            BY <1>5, <3>3, <5>2, SegmentsInOrder
          <6>2. Last(p) = p[i]
            BY <6>1 DEF Last
          <6> QED BY <1>6, <6>1, <6>2, SettledChain DEF LastFile
        <5> QED BY <5>1, <5>2
      <4> QED BY <3>1, <3>2, <4>1, <4>2
    <3> QED BY <3>4, <3>5
  <2> QED BY <2>1 DEF Committed
<1>17. Pruned(p, gs)
  <2>1. Doomed(p, gs) = {}
    <3>1. ASSUME p # <<>>, NEW f \in DOMAIN gs, f <= Len(p[1].start) PROVE FALSE
      <4>1. Len(p[1].start) \in Nat
        BY <1>5, <3>1, HeadIs, SegmentTyped
      <4>2. f # g
        BY <1>3, <1>4, <3>1, <4>1
      <4>3. f \in Doomed(p, fs)
        BY <1>8, <3>1, <4>2 DEF Doomed
      <4> QED BY <1>6, <4>3
    <3> QED BY <3>1 DEF Doomed
  <2> QED BY <2>1 DEF Pruned
<1>18. Loose(p, gs) = lines
  <2>1. CASE g = NameAfter(HeadOf(p))
    <3>1. before = <<>> /\ Loose(p, gs) = b
      BY <1>4, <1>8, <1>15, <2>1 DEF Loose
    <3> QED BY <1>1, <3>1, ConcatEmptySeq DEF b
  <2>2. CASE g # NameAfter(HeadOf(p))
    <3>1. /\ p # <<>> /\ g = FileOf(Last(p)) /\ Len(before) = RecordCount(Last(p))
          /\ ~Orphaned(p, gs)
      BY <1>4, <1>15, <2>2
    <3>2. LastFile(p, gs) = b
      BY <1>8, <3>1 DEF LastFile
    <3>3. Loose(p, gs) = SubSeq(b, Len(before) + 1, Len(b))
      BY <3>1, <3>2 DEF Loose, Behind
    <3> QED BY <1>1, <1>3, <3>3, RestOfJoined DEF b
  <2> QED BY <2>1, <2>2
<1>19. Leftover(lines, Len(x) - Len(HeadOf(p)))
  <2>1. Len(x) - Len(HeadOf(p)) = Len(more)
    BY <1>1
  <2>2. Len(more) \in 0 .. MaxChainBatchRecords
    BY <1>1, <1>7, ChainAssumption
  <2>3. \A k \in 1 .. Len(more) : lines[k] # Torn
    <3> TAKE k \in 1 .. Len(more)
    <3>1. Len(full) + k \in 1 .. Len(x)
      BY <1>1
    <3>2. SubSeq(x, 1, Len(full) + k) # Torn
      BY <1>1, <3>1, PrefixIsLine
    <3> QED BY <1>7, <3>2
  <2> QED BY <1>7, <2>1, <2>2, <2>3 DEF Leftover
<1>20. Small(x)
  <2>1. ASSUME NEW k \in Len(Initial) + 1 .. Len(x) PROVE Size[x[k]] <= MaxRecordBytes
    <3>1. CASE k <= Len(full)
      <4>1. k \in Len(Initial) + 1 .. Len(full) /\ k \in 1 .. Len(full)
        BY <1>1, <1>11, <3>1
      <4> QED BY <1>5, <1>9, <4>1 DEF Small
    <3>2. CASE k > Len(full)
      <4>1. k - Len(full) \in 1 .. Len(more) /\ Len(full) + (k - Len(full)) = k
        BY <1>1, <1>11, <3>2
      <4> QED BY <1>7, <1>10, <4>1
    <3> QED BY <1>1, <1>11, <3>1, <3>2
  <2> QED BY <2>1 DEF Small
<1>21. Chain(p, gs, x)
  BY <1>1, <1>5, <1>12, <1>13, <1>14, <1>16, <1>17, <1>18, <1>19, <1>20 DEF Chain
<1> QED BY <1>8, <1>15, <1>18, <1>21 DEF x, b

(***************************************************************************)
(* Chunks.                                                                 *)
(***************************************************************************)
(* A chunk is one event, or as many as fit.                                *)
LEMMA ChunkOf ==
  ASSUME NEW view, NEW todo \in Histories, todo # <<>>
  PROVE  \E c \in 1 .. Len(todo) :
           /\ Chunk(view, todo) = SubSeq(todo, 1, c)
           /\ Chunk(view, todo) \in Histories /\ Len(Chunk(view, todo)) = c
           /\ c > 1 => Fits(view, todo, c)
PROOF
<1> DEFINE S == {n \in 1 .. Len(todo) : n = 1 \/ Fits(view, todo, n)}
<1>1. todo \in Seq(Events) /\ Len(todo) \in Nat /\ Len(todo) # 0
  BY LenProperties, EmptySeq DEF Histories
<1>2. 1 \in S /\ S \in SUBSET (1 .. Len(todo))
  BY <1>1
<1>3. Max(S) \in S
  <2> HIDE DEF S
  <2>1. S # {}
    BY <1>2
  <2> QED BY <1>1, <1>2, <2>1, GreatestOf
<1> DEFINE c == Max(S)
<1>4. c \in 1 .. Len(todo) /\ (c > 1 => Fits(view, todo, c))
  <2>1. c \in S
    BY <1>3
  <2> HIDE DEF c
  <2> QED BY <2>1
<1>5. Chunk(view, todo) = SubSeq(todo, 1, c)
  BY DEF Chunk
<1> HIDE DEF c, S
<1>6. c \in 0 .. Len(todo)
  BY <1>1, <1>4
<1>7. SubSeq(todo, 1, c) \in Seq(Events) /\ Len(SubSeq(todo, 1, c)) = c
  BY <1>1, <1>6, FirstOf
<1> QED BY <1>4, <1>5, <1>7 DEF Histories

(* The records of events are the prefixes of the history they extend.      *)
LEMMA RecordsAre ==
  ASSUME NEW events \in Histories, NEW start \in Histories
  PROVE  /\ RecordsOf(events, start) \in Seq(Line)
         /\ Len(RecordsOf(events, start)) = Len(events)
         /\ \A i \in 1 .. Len(events) :
              /\ RecordsOf(events, start)[i] = SubSeq(start \o events, 1, Len(start) + i)
              /\ LineBytes(RecordsOf(events, start)[i]) = Size[events[i]]
PROOF
<1> DEFINE r == RecordsOf(events, start)
           x == start \o events
<1>1. events \in Seq(Events) /\ start \in Seq(Events) /\ Len(events) \in Nat /\ Len(start) \in Nat
  BY LenProperties DEF Histories
<1>2. x \in Histories /\ Len(x) = Len(start) + Len(events)
  BY <1>1, Joined DEF Histories
<1>3. ASSUME NEW i \in 1 .. Len(events)
      PROVE  /\ r[i] = SubSeq(x, 1, Len(start) + i) /\ r[i] \in Line
             /\ LineBytes(r[i]) = Size[events[i]]
  <2>1. r[i] = start \o SubSeq(events, 1, i)
    BY DEF RecordsOf
  <2>2. i \in 0 .. Len(events)
    BY <1>1
  <2>3. r[i] = SubSeq(x, 1, Len(start) + i)
    BY <1>1, <2>1, <2>2, FirstOfJoined
  <2>4. Len(start) + i \in 1 .. Len(x)
    BY <1>1, <1>2
  <2> HIDE DEF r
  <2>5. x[Len(start) + i] = events[i]
    BY <1>1, Joined
  <2> HIDE DEF x
  <2>6. r[i] \in Line /\ LineBytes(r[i]) = Size[x[Len(start) + i]]
    BY <1>2, <2>3, <2>4, PrefixIsLine
  <2> QED BY <2>3, <2>5, <2>6
<1>4. r \in [1 .. Len(events) -> Line]
  <2>1. r = [i \in 1 .. Len(events) |-> r[i]]
    BY DEF RecordsOf
  <2> HIDE DEF r
  <2> QED BY <1>3, <2>1
<1>5. r \in Seq(Line) /\ Len(r) = Len(events)
  <2> HIDE DEF r
  <2>1. r \in Seq(Line)
    BY <1>1, <1>4, SeqDef
  <2>2. DOMAIN r = 1 .. Len(events) /\ DOMAIN r = 1 .. Len(r) /\ Len(r) \in Nat
    BY <1>4, <2>1, LenProperties
  <2> QED BY <1>1, <2>1, <2>2
<1> QED BY <1>3, <1>5

(* What they take does not depend on the history.                          *)
LEMMA RecordBytes ==
  ASSUME NEW events \in Histories, NEW start \in Histories
  PROVE  Bytes(RecordsOf(events, start)) = Bytes(RecordsOf(events, <<>>))
PROOF
<1> DEFINE r == RecordsOf(events, start)
           s == RecordsOf(events, <<>>)
<1>1. <<>> \in Histories
  BY EmptySeq DEF Histories
<1>2. Len(r) = Len(events) /\ (\A i \in 1 .. Len(events) : LineBytes(r[i]) = Size[events[i]])
  BY RecordsAre
<1>3. Len(s) = Len(events) /\ (\A i \in 1 .. Len(events) : LineBytes(s[i]) = Size[events[i]])
  BY <1>1, RecordsAre
<1> HIDE DEF r, s
<1>4. Bytes(r) = Bytes(s)
  BY <1>2, <1>3, SameBytes
<1> QED BY <1>4 DEF r, s

(* A part of some lines has no more bytes.                                 *)
LEMMA FewerBytes ==
  ASSUME NEW s \in Seq(Line), NEW n \in 0 .. Len(s)
  PROVE  Bytes(SubSeq(s, 1, n)) <= Bytes(s)
PROOF
<1> DEFINE a == SubSeq(s, 1, n)
           b == SubSeq(s, n + 1, Len(s))
<1>1. a \in Seq(Line) /\ b \in Seq(Line) /\ s = a \o b
  BY FirstOf, RestOf, Parted
<1> HIDE DEF a, b
<1>2. Bytes(a) \in Nat /\ Bytes(b) \in Nat /\ Bytes(a \o b) = Bytes(a) + Bytes(b)
  BY <1>1, MarksCounted, BytesJoined
<1>3. Bytes(a) <= Bytes(s)
  BY <1>1, <1>2
<1> QED BY <1>3 DEF a

(* What an append leaves, finished or not, is lines of its chunk.          *)
LEMMA ChunkLines ==
  ASSUME NEW view, NEW todo \in Histories, todo # <<>>, Len(todo) <= MaxChainBatchRecords,
         Buildable(view, todo), NEW full \in Histories, HeadOf(view) = full,
         NEW n \in 0 .. Len(Chunk(view, todo)), NEW tail \in {<<>>, <<Torn>>}
  PROVE  /\ SubSeq(Chunk(view, todo), 1, n) \in Histories
         /\ Len(SubSeq(Chunk(view, todo), 1, n)) = n
         /\ Len(Lines(view, todo)) = Len(Chunk(view, todo)) /\ Lines(view, todo) \in Seq(Line)
         /\ LinesOf(SubSeq(Lines(view, todo), 1, n) \o tail, full, SubSeq(Chunk(view, todo), 1, n))
PROOF
<1> DEFINE chunk == Chunk(view, todo)
           lines == Lines(view, todo)
           more == SubSeq(chunk, 1, n)
           some == SubSeq(lines, 1, n)
           x == full \o chunk
           y == full \o more
<1>1. PICK c \in 1 .. Len(todo) :
           /\ Chunk(view, todo) = SubSeq(todo, 1, c)
           /\ Chunk(view, todo) \in Histories /\ Len(Chunk(view, todo)) = c
           /\ c > 1 => Fits(view, todo, c)
  BY ChunkOf
<1>2. lines = RecordsOf(chunk, full)
  BY DEF Lines
<1>3. chunk \in Histories /\ Len(chunk) = c /\ c \in Nat /\ Len(full) \in Nat /\ Len(todo) \in Nat
        /\ todo \in Seq(Events) /\ full \in Seq(Events) /\ chunk \in Seq(Events)
  BY <1>1, LenProperties DEF Histories
<1>4. \A k \in 1 .. c : chunk[k] = todo[k]
  <2>1. c \in 0 .. Len(todo)
    BY <1>3
  <2> QED BY <1>1, <1>3, <2>1, FirstOf
<1>5. c > 1 => Bytes(RecordsOf(chunk, <<>>)) <= MaxBatchBytes
  BY <1>1 DEF Fits
<1>6. \A k \in 1 .. c : Size[todo[k]] <= MaxRecordBytes
  <2> TAKE k \in 1 .. c
  <2>1. k \in 1 .. Len(todo) /\ k <= c + 1
    BY <1>3
  <2> QED BY <1>1, <2>1 DEF Buildable
<1> HIDE DEF chunk, lines
<1>7. /\ lines \in Seq(Line) /\ Len(lines) = c
      /\ \A i \in 1 .. c : lines[i] = SubSeq(x, 1, Len(full) + i)
      /\ Bytes(lines) = Bytes(RecordsOf(chunk, <<>>))
  BY <1>2, <1>3, RecordsAre, RecordBytes
<1>8. n \in Nat /\ n <= c /\ n \in 0 .. c
  BY <1>3 DEF chunk
<1>9. more \in Histories /\ Len(more) = n /\ (\A k \in 1 .. n : more[k] = chunk[k])
  BY <1>3, <1>8, FirstOf DEF Histories
<1>10. some \in Seq(Line) /\ Len(some) = n /\ (\A k \in 1 .. n : some[k] = lines[k])
  BY <1>7, <1>8, FirstOf
<1>11. SubSeq(x, 1, Len(full) + n) = y
  <2>1. n \in 0 .. Len(chunk)
    BY <1>3, <1>8
  <2>2. \A m \in 0 .. Len(chunk) : SubSeq(full \o chunk, 1, Len(full) + m) = full \o SubSeq(chunk, 1, m)
    <3>1. full \in Seq(Events) /\ chunk \in Seq(Events)
      BY <1>3
    <3> QED BY <3>1, FirstOfJoined
  <2> QED BY <2>1, <2>2
<1>12. x \in Histories /\ Len(x) = Len(full) + c
  BY <1>3, Joined DEF Histories
<1>13. \A k \in 1 .. n : some[k] = SubSeq(y, 1, Len(full) + k)
  <2> TAKE k \in 1 .. n
  <2> HIDE DEF x, y, some
  <2>1. Len(full) + n \in 0 .. Len(x) /\ Len(full) + k \in 0 .. Len(full) + n /\ k \in 1 .. c
    BY <1>3, <1>8, <1>12
  <2>2. SubSeq(SubSeq(x, 1, Len(full) + n), 1, Len(full) + k) = SubSeq(x, 1, Len(full) + k)
    BY <1>12, <2>1, FirstOfFirst DEF Histories
  <2> QED BY <1>7, <1>10, <1>11, <2>1, <2>2
<1>14. tail \in Seq(Line) /\ Len(tail) \in {0, 1} /\ (Len(tail) = 1 => tail[1] = Torn)
  <2>1. Torn \in Line
    BY DEF Line
  <2>2. CASE tail = <<>>
    BY <2>2, EmptySeq
  <2>3. CASE tail = <<Torn>>
    BY <2>1, <2>3
  <2> QED BY <2>2, <2>3
<1> HIDE DEF x, more, some
<1> DEFINE all == some \o tail
<1>15. /\ all \in Seq(Line) /\ Len(all) = n + Len(tail)
       /\ \A i \in 1 .. n : all[i] = some[i]
       /\ \A i \in 1 .. Len(tail) : all[n + i] = tail[i]
  <2>1. /\ all \in Seq(Line) /\ Len(all) = Len(some) + Len(tail)
        /\ \A i \in 1 .. Len(some) : all[i] = some[i]
        /\ \A i \in 1 .. Len(tail) : all[Len(some) + i] = tail[i]
    BY <1>10, <1>14, Joined
  <2> QED BY <1>10, <2>1
<1>16. SubSeq(all, 1, n) = some
  <2>1. n \in 0 .. Len(some)
    BY <1>8, <1>10
  <2>2. SubSeq(all, 1, n) = SubSeq(some, 1, n)
    BY <1>10, <1>14, <2>1, FirstOfJoined
  <2> QED BY <1>10, <2>2, SubSeqFull
<1>17. n > 1 => Bytes(some) <= MaxBatchBytes
  <2> HAVE n > 1
  <2>1. Bytes(lines) <= MaxBatchBytes /\ Bytes(lines) \in Nat /\ Bytes(some) \in Nat
    BY <1>5, <1>7, <1>8, <1>10, MarksCounted
  <2>2. Bytes(some) <= Bytes(lines)
    BY <1>7, <1>8, FewerBytes DEF some
  <2> QED BY <2>1, <2>2, ChainAssumption
<1>18. n <= MaxChainBatchRecords
  BY <1>1, <1>3, <1>8, ChainAssumption
<1>19. \A k \in 1 .. n : Size[more[k]] <= MaxRecordBytes
  <2> TAKE k \in 1 .. n
  <2>1. k \in 1 .. c
    BY <1>8
  <2> QED BY <1>4, <1>6, <1>9, <2>1
<1> HIDE DEF all
<1>20. Len(all) \in {n, n + 1}
  BY <1>8, <1>14, <1>15
<1>21. Len(all) = n + 1 => all[n + 1] = Torn
  BY <1>8, <1>14, <1>15
<1>22. LinesOf(all, full, more)
  BY <1>9, <1>10, <1>13, <1>15, <1>16, <1>17, <1>18, <1>19, <1>20, <1>21 DEF LinesOf, y
<1> QED BY <1>1, <1>7, <1>9, <1>22 DEF all, some, more, lines, chunk

(***************************************************************************)
(* The inductive invariant: who holds the lock, what the holder knows of   *)
(* the directory, and which events are in the log or still to be written.  *)
(***************************************************************************)
Outside == {"idle", "acquiring"}

Locked == \A w \in Writers : sink[w].pc \notin Outside <=> lock = w

Directory(m, fs, full) == (m = None => fs = <<>>) /\ Chain(ViewOf(m), fs, full)

Knows(s, m) == m # None /\ s.view = m

Aware(s, m, fs, full) ==
  /\ s.pc = "suffix" => Knows(s, m)
  /\ s.pc = "orphan" => Knows(s, m) /\ Behind(ViewOf(m), fs) = <<>>
  /\ s.pc = "publishing" /\ s.stage = "loading" => m = None /\ s.view = <<>>
  /\ s.pc = "publishing" /\ s.stage # "loading" =>
       m # None /\ s.view = SuccessorOf(ViewOf(m), fs) /\ Pending(ViewOf(m), fs, full)
  /\ s.pc = "pruning" => Knows(s, m) /\ Behind(ViewOf(m), fs) = <<>>
  /\ s.pc = "pruning" /\ s.stage # "suffix" => ~Orphaned(ViewOf(m), fs)
  /\ s.pc = "writing" => Knows(s, m) /\ Settled(ViewOf(m), fs)

(* The events after the initial checkpoint.                                *)
After(history) == SubSeq(history, Len(Initial) + 1, Len(history))

(* The events a write has yet to append.                                   *)
Owed(s) == IF s.pc \in {"idle", "releasing", "rejecting"} THEN <<>> ELSE s.todo

Owing(k, e) == UNION {{w} \X Places(Owed(k[w]), e) : w \in Writers}

(* What the manifest will describe once a publication is over.             *)
Appended(s, m, full) == IF s.pc = "publishing" THEN After(full) ELSE After(HeadOf(ViewOf(m)))

(* A write that has not failed has its events in the log or to be written, *)
(* besides those of the writes confirmed before.                           *)
Faithful(s, m, full, count) ==
  /\ s.asked \in Groups \cup {<<>>}
  /\ s.pc = "acquiring" => s.todo = s.asked
  /\ s.pc \notin {"idle", "rejecting", "releasing"} => Len(s.todo) <= Len(s.asked)
  /\ s.pc \notin {"idle", "acquiring", "rejecting"} =>
       \A e \in Events : count[e] + Log!Occurrences(s.asked, e) <=
                           Log!Occurrences(Appended(s, m, full), e) + Log!Occurrences(Owed(s), e)

(* Every event on disk, or still to be written, was submitted.             *)
Counted(full) ==
  \A e \in Events :
    /\ Log!Occurrences(After(full), e) + Cardinality(Owing(sink, e)) <= submitted[e]
    /\ confirmed[e] <= Log!Occurrences(After(HeadOf(ViewOf(manifest))), e)

Witnessed(full) ==
  /\ Directory(manifest, files, full)
  /\ \A w \in Writers : Aware(sink[w], manifest, files, full) /\ Faithful(sink[w], manifest, full, confirmed)
  /\ Counted(full)

IInv == TypeOK /\ Locked /\ \E full \in Histories : Witnessed(full)

(***************************************************************************)
(* Counting what is still to be written.                                   *)
(***************************************************************************)
(* What is owed, asked and left to write are histories.                    *)
LEMMA OwedIsHistory ==
  ASSUME NEW s \in Sinks
  PROVE  /\ Owed(s) \in Histories /\ s.todo \in Histories /\ s.asked \in Histories
         /\ s.view \in Seq(Segments)
         /\ s.pc \in {"idle", "acquiring", "loading", "suffix", "orphan", "publishing", "pruning",
                      "writing", "releasing", "rejecting"}
         /\ s.stage \in {"loading", "suffix", "orphan", "writing"}
PROOF
<1>1. /\ s.todo \in Seq(Events) /\ s.asked \in Seq(Events) /\ s.view \in Seq(Segments)
      /\ s.pc \in {"idle", "acquiring", "loading", "suffix", "orphan", "publishing", "pruning",
                   "writing", "releasing", "rejecting"}
      /\ s.stage \in {"loading", "suffix", "orphan", "writing"}
  BY DEF Sinks
<1>2. <<>> \in Seq(Events)
  BY EmptySeq
<1> QED BY <1>1, <1>2 DEF Owed, Histories

(* A process and the others.                                               *)
OwingOthers(k, w, e) == UNION {{v} \X Places(Owed(k[v]), e) : v \in Writers \ {w}}

(* What is owed of an event: by one writer, and by the others.             *)
LEMMA OwingSplit ==
  ASSUME NEW k \in [Writers -> Sinks], NEW w \in Writers, NEW e
  PROVE  /\ Cardinality(Owing(k, e)) = Cardinality(OwingOthers(k, w, e)) + Log!Occurrences(Owed(k[w]), e)
         /\ Cardinality(OwingOthers(k, w, e)) \in Nat /\ Log!Occurrences(Owed(k[w]), e) \in Nat
PROOF
<1> DEFINE part == [v \in Writers \ {w} |-> {v} \X Places(Owed(k[v]), e)]
           parts == {{v} \X Places(Owed(k[v]), e) : v \in Writers \ {w}}
           mine == {w} \X Places(Owed(k[w]), e)
           others == OwingOthers(k, w, e)
<1>1. ASSUME NEW v \in Writers
      PROVE  /\ IsFiniteSet({v} \X Places(Owed(k[v]), e))
             /\ Cardinality({v} \X Places(Owed(k[v]), e)) = Log!Occurrences(Owed(k[v]), e)
             /\ Log!Occurrences(Owed(k[v]), e) \in Nat
  <2>1. Owed(k[v]) \in Histories
    <3>1. k[v] \in Sinks
      OBVIOUS
    <3> QED BY <3>1, OwedIsHistory
  <2>2. /\ IsFiniteSet(Places(Owed(k[v]), e))
        /\ Log!Occurrences(Owed(k[v]), e) = Cardinality(Places(Owed(k[v]), e))
        /\ Log!Occurrences(Owed(k[v]), e) \in Nat
    BY <2>1, OccurrencesCounted
  <2>3. IsFiniteSet({v}) /\ Cardinality({v}) = 1
    BY FS_Singleton
  <2>4. /\ IsFiniteSet({v} \X Places(Owed(k[v]), e))
        /\ Cardinality({v} \X Places(Owed(k[v]), e)) = Cardinality({v}) * Cardinality(Places(Owed(k[v]), e))
    BY <2>2, <2>3, FS_Product
  <2> QED BY <2>2, <2>3, <2>4
<1>2. IsFiniteSet(Writers \ {w})
  <2>1. IsFiniteSet(Writers) /\ Writers \ {w} \subseteq Writers
    BY ChainAssumption
  <2> QED BY <2>1, FS_Subset
<1>3. part \in Surjection(Writers \ {w}, parts)
  BY DEF Surjection
<1>4. IsFiniteSet(parts)
  <2> HIDE DEF part, parts
  <2> QED BY <1>2, <1>3, FS_Surjection
<1>5. \A T \in parts : IsFiniteSet(T)
  BY <1>1
<1>6. IsFiniteSet(others) /\ Cardinality(others) \in Nat
  <2>1. others = UNION parts
    BY DEF OwingOthers
  <2> HIDE DEF part, parts, others
  <2> QED BY <1>4, <1>5, <2>1, FS_UNION, FS_CardinalityType
<1>7. Owing(k, e) = others \cup mine
  BY DEF Owing, OwingOthers
<1>8. others \cap mine = {}
  BY DEF OwingOthers
<1>9. IsFiniteSet(mine) /\ Cardinality(mine) = Log!Occurrences(Owed(k[w]), e)
        /\ Log!Occurrences(Owed(k[w]), e) \in Nat
  BY <1>1
<1> HIDE DEF part, parts, mine, others
<1>10. Cardinality(others \cup mine) =
         Cardinality(others) + Cardinality(mine) - Cardinality(others \cap mine)
  BY <1>6, <1>9, FS_Union
<1>11. Cardinality(others \cap mine) = 0
  BY <1>8, FS_EmptySet
<1>12. Cardinality(Owing(k, e)) = Cardinality(others) + Log!Occurrences(Owed(k[w]), e)
  BY <1>6, <1>7, <1>9, <1>10, <1>11
<1> QED BY <1>6, <1>9, <1>12 DEF others

(* A step of one process changes only its own share.                       *)
LEMMA OwingMoved ==
  ASSUME NEW k \in [Writers -> Sinks], NEW l \in [Writers -> Sinks], NEW w \in Writers, NEW e,
         \A v \in Writers : v # w => l[v] = k[v]
  PROVE  /\ Cardinality(Owing(l, e)) + Log!Occurrences(Owed(k[w]), e) =
              Cardinality(Owing(k, e)) + Log!Occurrences(Owed(l[w]), e)
         /\ Cardinality(Owing(k, e)) \in Nat /\ Cardinality(Owing(l, e)) \in Nat
         /\ Log!Occurrences(Owed(k[w]), e) \in Nat /\ Log!Occurrences(Owed(l[w]), e) \in Nat
PROOF
<1>1. OwingOthers(l, w, e) = OwingOthers(k, w, e)
  BY DEF OwingOthers
<1>2. /\ Cardinality(Owing(k, e)) = Cardinality(OwingOthers(k, w, e)) + Log!Occurrences(Owed(k[w]), e)
      /\ Cardinality(OwingOthers(k, w, e)) \in Nat /\ Log!Occurrences(Owed(k[w]), e) \in Nat
  BY OwingSplit
<1>3. /\ Cardinality(Owing(l, e)) = Cardinality(OwingOthers(l, w, e)) + Log!Occurrences(Owed(l[w]), e)
      /\ Log!Occurrences(Owed(l[w]), e) \in Nat
  BY OwingSplit
<1> QED BY <1>1, <1>2, <1>3

(***************************************************************************)
(* A step of one process: what it must leave true for the invariant to     *)
(* hold.  Only the holder of the lock touches the directory.               *)
(***************************************************************************)
(* Events in the log or owed, before and after, and those submitted.       *)
Accounted(k, r, full, full2, count, count2) ==
  \A e \in Events :
    Log!Occurrences(After(full2), e) + Log!Occurrences(Owed(r), e) + count[e]
      <= Log!Occurrences(After(full), e) + Log!Occurrences(Owed(k), e) + count2[e]

Covered(m, count) ==
  \A e \in Events : count[e] <= Log!Occurrences(After(HeadOf(ViewOf(m))), e)

(* A process without the lock knows nothing of the directory.              *)
LEMMA OutsideKnowsNothing ==
  ASSUME NEW s \in Sinks, s.pc \in Outside, NEW m, NEW fs, NEW full, NEW count,
         NEW m2, NEW fs2, NEW full2, NEW count2, Faithful(s, m, full, count)
  PROVE  Aware(s, m2, fs2, full2) /\ Faithful(s, m2, full2, count2)
PROOF
<1>1. s.pc \in {"idle", "acquiring"}
  BY DEF Outside
<1>2. Aware(s, m2, fs2, full2)
  BY <1>1 DEF Aware
<1>3. Faithful(s, m2, full2, count2)
  BY <1>1 DEF Faithful
<1> QED BY <1>2, <1>3

(* What is after the initial checkpoint is a history.                      *)
LEMMA AfterIsHistory ==
  ASSUME NEW full \in Histories, Len(Initial) <= Len(full)
  PROVE  After(full) \in Histories /\ Len(Initial) \in 0 .. Len(full)
PROOF
<1>1. full \in Seq(Events) /\ Len(full) \in Nat /\ Len(Initial) \in Nat
  BY ChainAssumption, LenProperties DEF Histories
<1>2. Len(Initial) \in 0 .. Len(full)
  BY <1>1
<1>3. SubSeq(full, Len(Initial) + 1, Len(full)) \in Seq(Events)
  BY <1>1, <1>2, RestOf
<1> QED BY <1>2, <1>3 DEF After, Histories

(* One process takes a step.                                               *)
LEMMA StepKeeps ==
  ASSUME TypeOK, Locked, NEW full \in Histories, Witnessed(full),
         NEW w \in Writers, NEW r \in Sinks, NEW full2 \in Histories,
         sink' = [sink EXCEPT ![w] = r],
         lock' \in Writers \cup {None, Abandoned},
         r.pc \notin Outside <=> lock' = w,
         \A v \in Writers : v # w => (lock' = v <=> lock = v),
         manifest' \in Seq(Segments) \cup {None}, litter' \in BOOLEAN,
         submitted' \in [Events -> Nat], confirmed' \in [Events -> Nat],
         Directory(manifest', files', full2),
         Aware(r, manifest', files', full2),
         Faithful(r, manifest', full2, confirmed'),
         \/ lock = w
         \/ manifest' = manifest /\ files' = files /\ full2 = full /\ confirmed' = confirmed,
         Accounted(sink[w], r, full, full2, submitted, submitted'),
         Covered(manifest', confirmed')
  PROVE  IInv'
PROOF
<1>1. /\ sink \in [Writers -> Sinks] /\ sink' \in [Writers -> Sinks]
      /\ sink'[w] = r
      /\ \A v \in Writers : v # w => sink'[v] = sink[v]
  BY DEF TypeOK
<1>2. TypeOK'
  <2>1. Stored(ViewOf(manifest'), files', full2)
    BY DEF Directory, Chain
  <2>2. \A f \in DOMAIN files' : f \in Len(Initial) + 1 .. Len(HeadOf(ViewOf(manifest'))) + 1
                                   /\ files'[f] \in Seq(Line)
    BY <2>1 DEF Stored
  <2>3. Len(Initial) \in Nat
    BY ChainAssumption, LenProperties DEF Histories
  <2>4. DOMAIN files' \subseteq Nat
    BY <2>2, <2>3
  <2>5. Seq(Line) \subseteq Seq(Histories \cup {Torn})
    <3>1. Line \subseteq Histories \cup {Torn}
      BY DEF Line
    <3> QED BY <3>1, SeqMonotonic
  <2>6. \A f \in DOMAIN files' : files'[f] \in Seq(Histories \cup {Torn})
    BY <2>2, <2>5
  <2> QED BY <1>1, <2>4, <2>6 DEF TypeOK
<1>3. Locked'
  <2> SUFFICES ASSUME NEW v \in Writers
               PROVE  sink'[v].pc \notin Outside <=> lock' = v
    BY DEF Locked, Outside
  <2>1. CASE v = w
    BY <1>1, <2>1
  <2>2. CASE v # w
    BY <1>1, <2>2 DEF Locked
  <2> QED BY <2>1, <2>2
<1>4. ASSUME NEW v \in Writers
      PROVE  Aware(sink'[v], manifest', files', full2) /\ Faithful(sink'[v], manifest', full2, confirmed')
  <2>1. CASE v = w
    BY <1>1, <2>1
  <2>2. CASE v # w
    <3>1. sink'[v] = sink[v] /\ sink[v] \in Sinks
      BY <1>1, <2>2
    <3>2. Aware(sink[v], manifest, files, full) /\ Faithful(sink[v], manifest, full, confirmed)
      BY DEF Witnessed
    <3>3. CASE lock = w
      <4>1. sink[v].pc \in Outside
        BY <2>2, <3>3 DEF Locked
      <4> QED BY <3>1, <3>2, <4>1, OutsideKnowsNothing
    <3>4. CASE manifest' = manifest /\ files' = files /\ full2 = full /\ confirmed' = confirmed
      BY <3>1, <3>2, <3>4
    <3> QED BY <3>3, <3>4
  <2> QED BY <2>1, <2>2
<1>5. ASSUME NEW e \in Events
      PROVE  /\ Log!Occurrences(After(full2), e) + Cardinality(Owing(sink', e)) <= submitted'[e]
             /\ confirmed'[e] <= Log!Occurrences(After(HeadOf(ViewOf(manifest'))), e)
  <2>1. /\ Cardinality(Owing(sink', e)) + Log!Occurrences(Owed(sink[w]), e) =
             Cardinality(Owing(sink, e)) + Log!Occurrences(Owed(sink'[w]), e)
        /\ Cardinality(Owing(sink, e)) \in Nat /\ Cardinality(Owing(sink', e)) \in Nat
        /\ Log!Occurrences(Owed(sink[w]), e) \in Nat /\ Log!Occurrences(Owed(sink'[w]), e) \in Nat
    <3> DEFINE k == sink
               l == sink'
    <3>1. k \in [Writers -> Sinks] /\ l \in [Writers -> Sinks] /\ (\A v \in Writers : v # w => l[v] = k[v])
      BY <1>1
    <3> HIDE DEF k, l
    <3>2. /\ Cardinality(Owing(l, e)) + Log!Occurrences(Owed(k[w]), e) =
               Cardinality(Owing(k, e)) + Log!Occurrences(Owed(l[w]), e)
          /\ Cardinality(Owing(k, e)) \in Nat /\ Cardinality(Owing(l, e)) \in Nat
          /\ Log!Occurrences(Owed(k[w]), e) \in Nat /\ Log!Occurrences(Owed(l[w]), e) \in Nat
      BY <3>1, OwingMoved
    <3> QED BY <3>2 DEF k, l
  <2>2. Log!Occurrences(After(full), e) \in Nat /\ Log!Occurrences(After(full2), e) \in Nat
    <3>1. PrefixOf(Initial, full) /\ PrefixOf(Initial, full2)
      BY DEF Witnessed, Directory, Chain
    <3>2. Len(Initial) <= Len(full) /\ Len(Initial) <= Len(full2)
      BY <3>1 DEF PrefixOf
    <3>3. After(full) \in Histories /\ After(full2) \in Histories
      BY <3>2, AfterIsHistory
    <3> QED BY <3>3, OccurrencesCounted
  <2>3. Log!Occurrences(After(full2), e) + Log!Occurrences(Owed(r), e) + submitted[e]
          <= Log!Occurrences(After(full), e) + Log!Occurrences(Owed(sink[w]), e) + submitted'[e]
    BY DEF Accounted
  <2>4. Log!Occurrences(After(full), e) + Cardinality(Owing(sink, e)) <= submitted[e]
    BY DEF Witnessed, Counted
  <2>5. submitted[e] \in Nat /\ submitted'[e] \in Nat
    BY DEF TypeOK
  <2>6. confirmed'[e] <= Log!Occurrences(After(HeadOf(ViewOf(manifest'))), e)
    BY DEF Covered
  <2>7. sink'[w] = r
    BY <1>1
  <2> QED BY <2>1, <2>2, <2>3, <2>4, <2>5, <2>6, <2>7
<1>6. Witnessed(full2)'
  BY <1>4, <1>5 DEF Witnessed, Counted
<1> QED BY <1>2, <1>3, <1>6 DEF IInv

(* The events after the initial checkpoint, of a history and a longer one. *)
LEMMA AfterPrefix ==
  ASSUME NEW a \in Histories, NEW b \in Histories, PrefixOf(a, b), Len(Initial) <= Len(a)
  PROVE  LET n == Len(a) - Len(Initial)
         IN  /\ After(a) \in Histories /\ After(b) \in Histories
             /\ n \in 0 .. Len(After(b)) /\ Len(After(a)) = n
             /\ Len(After(b)) = Len(b) - Len(Initial)
             /\ After(a) = SubSeq(After(b), 1, n)
             /\ \A e : /\ Log!Occurrences(After(a), e) \in Nat /\ Log!Occurrences(After(b), e) \in Nat
                       /\ Log!Occurrences(After(a), e) <= Log!Occurrences(After(b), e)
PROOF
<1> DEFINE l == Len(Initial)
           n == Len(a) - l
           x == SubSeq(a, l + 1, Len(a))
           y == SubSeq(b, l + 1, Len(b))
           z == SubSeq(y, 1, n)
<1>1. /\ a \in Seq(Events) /\ b \in Seq(Events) /\ Len(a) \in Nat /\ Len(b) \in Nat /\ l \in Nat
      /\ Len(a) <= Len(b)
  BY ChainAssumption, LenProperties DEF Histories, PrefixOf
<1>2. \A i \in 1 .. Len(a) : a[i] = b[i]
  <2>1. Len(a) \in 0 .. Len(b)
    BY <1>1
  <2>2. \A i \in 1 .. Len(a) : SubSeq(b, 1, Len(a))[i] = b[i]
    BY <1>1, <2>1, FirstOf
  <2> QED BY <2>2 DEF PrefixOf
<1>3. x \in Seq(Events) /\ Len(x) = n /\ (\A i \in 1 .. n : x[i] = a[l + i])
  <2>1. l \in 0 .. Len(a)
    BY <1>1
  <2> QED BY <1>1, <2>1, RestOf
<1>4. /\ y \in Seq(Events) /\ Len(y) = Len(b) - l
      /\ \A i \in 1 .. Len(b) - l : y[i] = b[l + i]
  <2>1. l \in 0 .. Len(b)
    BY <1>1
  <2> QED BY <1>1, <2>1, RestOf
<1>5. l <= Len(a)
  OBVIOUS
<1> HIDE DEF l, x, y
<1>6. n \in 0 .. Len(y)
  BY <1>1, <1>4, <1>5
<1>7. z \in Seq(Events) /\ Len(z) = n /\ (\A i \in 1 .. n : z[i] = y[i])
  BY <1>4, <1>6, FirstOf
<1> HIDE DEF z
<1>8. ASSUME NEW i \in 1 .. Len(x) PROVE x[i] = z[i]
  <2>1. i \in 1 .. n /\ i \in 1 .. Len(b) - l /\ l + i \in 1 .. Len(a)
    BY <1>1, <1>3, <1>5
  <2> QED BY <1>2, <1>3, <1>4, <1>7, <2>1
<1>9. x = z
  BY <1>3, <1>7, <1>8, SeqEqual
<1>10. ASSUME NEW e
       PROVE  /\ Log!Occurrences(x, e) \in Nat /\ Log!Occurrences(y, e) \in Nat
              /\ Log!Occurrences(x, e) <= Log!Occurrences(y, e)
  <2>1. y \in Histories
    BY <1>4 DEF Histories
  <2>2. /\ Log!Occurrences(SubSeq(y, 1, n), e) \in Nat
        /\ Log!Occurrences(SubSeq(y, n + 1, Len(y)), e) \in Nat
        /\ Log!Occurrences(y, e) = Log!Occurrences(SubSeq(y, 1, n), e)
                                     + Log!Occurrences(SubSeq(y, n + 1, Len(y)), e)
    <3> HIDE DEF n
    <3> QED BY <1>6, <2>1, OccurrencesOfFirst
  <2>3. x = SubSeq(y, 1, n)
    BY <1>9 DEF z
  <2> QED BY <2>2, <2>3
<1>11. After(a) = x /\ After(b) = y
  BY DEF After, x, y, l
<1> QED BY <1>3, <1>4, <1>6, <1>9, <1>10, <1>11 DEF z, l, Histories

(* Events are appended.                                                    *)
LEMMA AfterJoined ==
  ASSUME NEW a \in Histories, NEW more \in Histories, Len(Initial) <= Len(a), NEW e
  PROVE  /\ Log!Occurrences(After(a \o more), e) = Log!Occurrences(After(a), e) + Log!Occurrences(more, e)
         /\ Log!Occurrences(After(a), e) \in Nat /\ Log!Occurrences(more, e) \in Nat
PROOF
<1> DEFINE b == a \o more
           l == Len(Initial)
           n == Len(a) - l
           y == After(b)
<1>1. /\ b \in Seq(Events) /\ Len(b) = Len(a) + Len(more)
      /\ \A i \in 1 .. Len(more) : b[Len(a) + i] = more[i]
  BY Joined DEF Histories
<1>2. PrefixOf(a, b) /\ b \in Histories
  <2>1. PrefixOf(a, a)
    BY PrefixOfItself
  <2> QED BY <1>1, <2>1, PrefixOfLonger DEF Histories
<1>3. l \in Nat /\ Len(a) \in Nat /\ Len(more) \in Nat /\ l <= Len(a)
  BY ChainAssumption, LenProperties DEF Histories
<1> HIDE DEF b
<1>4. /\ After(a) \in Histories /\ y \in Histories
      /\ n \in 0 .. Len(y)
      /\ Len(y) = Len(b) - l
      /\ After(a) = SubSeq(y, 1, n)
  BY <1>2, AfterPrefix
<1>5. \A i \in 1 .. Len(b) - l : y[i] = b[l + i]
  <2>1. l \in 0 .. Len(b)
    BY <1>1, <1>3
  <2>2. \A i \in 1 .. Len(b) - l : SubSeq(b, l + 1, Len(b))[i] = b[l + i]
    BY <1>1, <2>1, RestOf
  <2> QED BY <2>2 DEF After
<1> DEFINE t == SubSeq(y, n + 1, Len(y))
<1> HIDE DEF y, l
<1>6. /\ t \in Seq(Events) /\ Len(t) = Len(y) - n
      /\ \A i \in 1 .. Len(y) - n : t[i] = y[n + i]
  <2> HIDE DEF n
  <2> QED BY <1>4, RestOf DEF Histories
<1>7. Len(t) = Len(more)
  BY <1>1, <1>3, <1>4, <1>6
<1>8. ASSUME NEW i \in 1 .. Len(t) PROVE t[i] = more[i]
  <2>1. i \in 1 .. Len(y) - n /\ n + i \in 1 .. Len(b) - l /\ i \in 1 .. Len(more) /\ l + (n + i) = Len(a) + i
    BY <1>1, <1>3, <1>4, <1>6, <1>7
  <2> HIDE DEF t, n
  <2>2. t[i] = y[n + i] /\ y[n + i] = b[l + (n + i)] /\ b[Len(a) + i] = more[i]
    BY <1>1, <1>5, <1>6, <2>1
  <2> QED BY <2>1, <2>2
<1>9. t = more
  <2> HIDE DEF t
  <2> QED BY <1>6, <1>7, <1>8, SeqEqual DEF Histories
<1>10. /\ Log!Occurrences(SubSeq(y, 1, n), e) \in Nat
       /\ Log!Occurrences(t, e) \in Nat
       /\ Log!Occurrences(y, e) = Log!Occurrences(SubSeq(y, 1, n), e) + Log!Occurrences(t, e)
  <2> HIDE DEF n
  <2> QED BY <1>4, OccurrencesOfFirst DEF t
<1> QED BY <1>4, <1>9, <1>10 DEF b, y

(* What is published is part of what is on disk.                           *)
LEMMA PublishedIsPart ==
  ASSUME NEW m, NEW fs, NEW full \in Histories, Directory(m, fs, full), NEW e
  PROVE  /\ Log!Occurrences(After(HeadOf(ViewOf(m))), e) <= Log!Occurrences(After(full), e)
         /\ Log!Occurrences(After(HeadOf(ViewOf(m))), e) \in Nat
         /\ Log!Occurrences(After(full), e) \in Nat
PROOF
<1> DEFINE h == HeadOf(ViewOf(m))
<1>1. Chain(ViewOf(m), fs, full)
  BY DEF Directory
<1>2. h \in Histories /\ PrefixOf(h, full)
  BY <1>1 DEF Chain
<1>3. Len(Initial) <= Len(h)
  BY <1>1, ChainNumbers
<1> HIDE DEF h
<1>4. /\ Log!Occurrences(After(h), e) \in Nat /\ Log!Occurrences(After(full), e) \in Nat
      /\ Log!Occurrences(After(h), e) <= Log!Occurrences(After(full), e)
  BY <1>2, <1>3, AfterPrefix
<1> QED BY <1>4 DEF h

(* A step that only moves one process on, or ends its write.               *)
Moves(k, r) ==
  /\ r.todo = k.todo /\ r.asked = k.asked
  /\ k.pc \in {"loading", "suffix", "orphan", "pruning", "writing"}
  /\ \/ r.pc \in {"suffix", "orphan", "publishing", "pruning", "writing"}
     \/ r.pc = "releasing" /\ r.todo = <<>>

Ends(r) == r.pc \in {"idle", "rejecting"} /\ r.asked \in Groups \cup {<<>>}

(* A step of one sink that leaves the directory and the counts alone.      *)
LEMMA QuietKeeps ==
  ASSUME TypeOK, Locked, NEW full \in Histories, Witnessed(full),
         NEW w \in Writers, NEW r \in Sinks,
         sink' = [sink EXCEPT ![w] = r],
         lock' \in Writers \cup {None, Abandoned},
         r.pc \notin Outside <=> lock' = w,
         \A v \in Writers : v # w => (lock' = v <=> lock = v),
         manifest' = manifest, files' = files, litter' \in BOOLEAN,
         submitted' = submitted, confirmed' = confirmed,
         Aware(r, manifest, files, full),
         Moves(sink[w], r) \/ Ends(r)
  PROVE  IInv'
PROOF
<1>1. sink[w] \in Sinks /\ manifest \in Seq(Segments) \cup {None}
      /\ submitted \in [Events -> Nat] /\ confirmed \in [Events -> Nat]
  BY DEF TypeOK
<1>2. Directory(manifest, files, full) /\ Faithful(sink[w], manifest, full, confirmed) /\ Counted(full)
  BY DEF Witnessed
<1>3. \A e \in Events : /\ Log!Occurrences(Owed(sink[w]), e) \in Nat /\ Log!Occurrences(Owed(r), e) \in Nat
                        /\ Log!Occurrences(Owed(r), e) <= Log!Occurrences(Owed(sink[w]), e)
                        /\ Moves(sink[w], r) => Owed(r) = Owed(sink[w])
  <2>1. Owed(sink[w]) \in Histories /\ Owed(r) \in Histories
    BY <1>1, OwedIsHistory
  <2>2. Owed(r) = Owed(sink[w]) \/ Owed(r) = <<>>
    BY DEF Moves, Ends, Owed
  <2>3. Moves(sink[w], r) => Owed(r) = Owed(sink[w])
    BY DEF Moves, Owed
  <2> TAKE e \in Events
  <2>4. Log!Occurrences(Owed(sink[w]), e) \in Nat /\ Log!Occurrences(Owed(r), e) \in Nat
    BY <2>1, OccurrencesCounted
  <2>5. Log!Occurrences(<<>>, e) = 0
    BY NoOccurrence
  <2>6. CASE Owed(r) = Owed(sink[w])
    BY <2>3, <2>4, <2>6
  <2>7. CASE Owed(r) = <<>>
    BY <2>3, <2>4, <2>5, <2>7
  <2> QED BY <2>2, <2>6, <2>7
<1>4. Accounted(sink[w], r, full, full, submitted, submitted)
  <2> SUFFICES ASSUME NEW e \in Events
               PROVE  Log!Occurrences(After(full), e) + Log!Occurrences(Owed(r), e) + submitted[e]
                        <= Log!Occurrences(After(full), e) + Log!Occurrences(Owed(sink[w]), e) + submitted[e]
    BY DEF Accounted
  <2>1. Log!Occurrences(After(full), e) \in Nat
    BY <1>2, PublishedIsPart
  <2>2. submitted[e] \in Nat
    BY <1>1
  <2> QED BY <1>3, <2>1, <2>2
<1>5. Covered(manifest, confirmed)
  BY <1>2 DEF Counted, Covered
<1>6. Faithful(r, manifest, full, confirmed)
  <2>1. CASE Ends(r)
    BY <2>1 DEF Faithful, Ends
  <2>2. CASE Moves(sink[w], r)
    <3>1. r.asked \in Groups \cup {<<>>} /\ r.pc # "acquiring" /\ Len(r.todo) <= Len(r.asked)
      BY <1>2, <2>2 DEF Moves, Faithful
    <3>2. ASSUME NEW e \in Events
          PROVE  confirmed[e] + Log!Occurrences(r.asked, e) <=
                   Log!Occurrences(Appended(r, manifest, full), e) + Log!Occurrences(Owed(r), e)
      <4>1. confirmed[e] + Log!Occurrences(sink[w].asked, e) <=
              Log!Occurrences(Appended(sink[w], manifest, full), e) + Log!Occurrences(Owed(sink[w]), e)
        BY <1>2, <2>2 DEF Moves, Faithful
      <4>2. Appended(sink[w], manifest, full) = After(HeadOf(ViewOf(manifest)))
        BY <2>2 DEF Moves, Appended
      <4>3. \/ Appended(r, manifest, full) = After(HeadOf(ViewOf(manifest)))
            \/ Appended(r, manifest, full) = After(full)
        BY DEF Appended
      <4>4. /\ Log!Occurrences(After(HeadOf(ViewOf(manifest))), e) <= Log!Occurrences(After(full), e)
            /\ Log!Occurrences(After(HeadOf(ViewOf(manifest))), e) \in Nat
            /\ Log!Occurrences(After(full), e) \in Nat
        BY <1>2, PublishedIsPart
      <4>5. Owed(r) = Owed(sink[w]) /\ r.asked = sink[w].asked
        BY <1>3, <2>2 DEF Moves
      <4>6. confirmed[e] \in Nat /\ Log!Occurrences(sink[w].asked, e) \in Nat
        <5>1. sink[w].asked \in Histories
          BY <1>1, OwedIsHistory
        <5> QED BY <1>1, <5>1, OccurrencesCounted
      <4>7. Log!Occurrences(Owed(r), e) \in Nat
        BY <1>3
      <4>8. CASE Appended(r, manifest, full) = After(full)
        BY <4>1, <4>2, <4>4, <4>5, <4>6, <4>7, <4>8
      <4>9. CASE Appended(r, manifest, full) = After(HeadOf(ViewOf(manifest)))
        BY <4>1, <4>2, <4>5, <4>9
      <4> QED BY <4>3, <4>8, <4>9
    <3> QED BY <3>1, <3>2 DEF Faithful
  <2> QED BY <2>1, <2>2
<1> QED BY <1>1, <1>2, <1>4, <1>5, <1>6, StepKeeps

(***************************************************************************)
(* The steps that leave the directory as it is.                            *)
(***************************************************************************)
(* A process moves on; its group stays.                                    *)
MovedTo(w, pc, stage, view) ==
  [pc |-> pc, stage |-> stage, view |-> view, todo |-> sink[w].todo, asked |-> sink[w].asked]

(* A sink that goes on to another stage is a sink.                         *)
LEMMA MovedToIsSink ==
  ASSUME TypeOK, NEW w \in Writers,
         NEW pc \in {"idle", "acquiring", "loading", "suffix", "orphan", "publishing", "pruning",
                     "writing", "releasing", "rejecting"},
         NEW stage \in {"loading", "suffix", "orphan", "writing"}, NEW view \in Seq(Segments)
  PROVE  LET r == MovedTo(w, pc, stage, view)
         IN  /\ r \in Sinks /\ r.pc = pc /\ r.stage = stage /\ r.view = view
             /\ r.todo = sink[w].todo /\ r.asked = sink[w].asked
PROOF
<1>1. sink[w] \in Sinks
  BY DEF TypeOK
<1>2. sink[w].todo \in Seq(Events) /\ sink[w].asked \in Seq(Events)
  BY <1>1 DEF Sinks
<1> QED BY <1>2 DEF MovedTo, Sinks

(* The three ways the actions go on move one sink.                         *)
LEMMA GoesMoves ==
  ASSUME TypeOK, NEW w \in Writers, NEW pc
  PROVE  /\ Goes(w, pc) => sink' = [sink EXCEPT ![w] = MovedTo(w, pc, sink[w].stage, sink[w].view)]
         /\ \A stage, view :
              Publish(w, stage, view) => sink' = [sink EXCEPT ![w] = MovedTo(w, "publishing", stage, view)]
         /\ \A stage : sink' = [sink EXCEPT ![w].pc = pc, ![w].stage = stage] =>
              sink' = [sink EXCEPT ![w] = MovedTo(w, pc, stage, sink[w].view)]
PROOF
<1>1. sink \in [Writers -> Sinks]
  BY DEF TypeOK
<1> DEFINE a == sink[w]
<1>2. a \in Sinks
  BY <1>1
<1>d. a = [pc |-> a.pc, stage |-> a.stage, view |-> a.view, todo |-> a.todo, asked |-> a.asked]
  <2> HIDE DEF a
  <2> QED BY <1>2 DEF Sinks
<1> DEFINE was == a.pc
           kind == a.stage
           viewed == a.view
           left == a.todo
           all == a.asked
<1>e. a = [pc |-> was, stage |-> kind, view |-> viewed, todo |-> left, asked |-> all]
  BY <1>d
<1> HIDE DEF was, kind, viewed, left, all, a
<1>3. [a EXCEPT !.pc = pc] = [pc |-> pc, stage |-> kind, view |-> viewed, todo |-> left, asked |-> all]
  BY <1>e
<1>5. ASSUME NEW stage
      PROVE  [a EXCEPT !.pc = pc, !.stage = stage] =
               [pc |-> pc, stage |-> stage, view |-> viewed, todo |-> left, asked |-> all]
  <2> DEFINE s == [a EXCEPT !.pc = pc, !.stage = stage]
  <2>1. s = [a EXCEPT !.pc = pc, !.stage = stage]
    OBVIOUS
  <2> HIDE DEF s
  <2>2. s = [pc |-> pc, stage |-> stage, view |-> viewed, todo |-> left, asked |-> all]
    BY <1>e, <2>1
  <2> QED BY <2>1, <2>2
<1>6. ASSUME NEW stage, NEW view
      PROVE  [a EXCEPT !.pc = "publishing", !.stage = stage, !.view = view] =
               [pc |-> "publishing", stage |-> stage, view |-> view, todo |-> left, asked |-> all]
  <2> DEFINE s == [a EXCEPT !.pc = "publishing", !.stage = stage, !.view = view]
  <2>1. s = [a EXCEPT !.pc = "publishing", !.stage = stage, !.view = view]
    OBVIOUS
  <2> HIDE DEF s
  <2>2. s = [pc |-> "publishing", stage |-> stage, view |-> view, todo |-> left, asked |-> all]
    BY <1>e, <2>1
  <2> QED BY <2>1, <2>2
<1>7. Goes(w, pc) => sink' = [sink EXCEPT ![w] = MovedTo(w, pc, sink[w].stage, sink[w].view)]
  BY <1>1, <1>3 DEF a, was, kind, viewed, left, all, Goes, MovedTo
<1>8. ASSUME NEW stage, NEW view, Publish(w, stage, view)
      PROVE  sink' = [sink EXCEPT ![w] = MovedTo(w, "publishing", stage, view)]
  BY <1>1, <1>6, <1>8 DEF a, was, kind, viewed, left, all, Publish, MovedTo
<1>10. ASSUME NEW stage, sink' = [sink EXCEPT ![w].pc = pc, ![w].stage = stage]
       PROVE  sink' = [sink EXCEPT ![w] = MovedTo(w, pc, stage, sink[w].view)]
  BY <1>1, <1>5, <1>10 DEF a, was, kind, viewed, left, all, MovedTo
<1> QED BY <1>7, <1>8, <1>10

(* The manifest is loaded.                                                 *)
LEMMA LoadedIs ==
  ASSUME TypeOK, NEW w \in Writers, NEW view,
         sink' = [sink EXCEPT ![w].pc = "suffix", ![w].view = view]
  PROVE  sink' = [sink EXCEPT ![w] = MovedTo(w, "suffix", sink[w].stage, view)]
PROOF
<1>1. sink \in [Writers -> Sinks]
  BY DEF TypeOK
<1> DEFINE a == sink[w]
<1>2. a \in Sinks
  BY <1>1
<1>d. a = [pc |-> a.pc, stage |-> a.stage, view |-> a.view, todo |-> a.todo, asked |-> a.asked]
  <2> HIDE DEF a
  <2> QED BY <1>2 DEF Sinks
<1> DEFINE was == a.pc
           kind == a.stage
           viewed == a.view
           left == a.todo
           all == a.asked
<1>e. a = [pc |-> was, stage |-> kind, view |-> viewed, todo |-> left, asked |-> all]
  BY <1>d
<1> HIDE DEF was, kind, viewed, left, all, a
<1>4. [a EXCEPT !.pc = "suffix", !.view = view] =
               [pc |-> "suffix", stage |-> kind, view |-> view, todo |-> left, asked |-> all]
  <2> DEFINE s == [a EXCEPT !.pc = "suffix", !.view = view]
  <2>1. s = [a EXCEPT !.pc = "suffix", !.view = view]
    OBVIOUS
  <2> HIDE DEF s
  <2>2. s = [pc |-> "suffix", stage |-> kind, view |-> view, todo |-> left, asked |-> all]
    BY <1>e, <2>1
  <2> QED BY <2>1, <2>2
<1> QED BY <1>1, <1>4 DEF a, was, kind, viewed, left, all, MovedTo

(* A step inside the lock.                                                 *)
LEMMA ContinuesInside ==
  ASSUME TypeOK, Locked, NEW full \in Histories, Witnessed(full),
         NEW w \in Writers, sink[w].pc \notin Outside, NEW r \in Sinks,
         sink' = [sink EXCEPT ![w] = r], r.pc \notin Outside,
         lock' = lock, manifest' = manifest, files' = files, litter' \in BOOLEAN,
         submitted' = submitted, confirmed' = confirmed,
         Aware(r, manifest, files, full),
         Moves(sink[w], r) \/ Ends(r)
  PROVE  IInv'
PROOF
<1>1. lock = w
  BY DEF Locked
<1>2. lock' \in Writers \cup {None, Abandoned} /\ lock' = w
  BY <1>1
<1>3. \A v \in Writers : v # w => (lock' = v <=> lock = v)
  BY <1>1, <1>2
<1> QED BY <1>2, <1>3, QuietKeeps

(* A write that fails keeps its lock until it has released it.             *)
LEMMA RejectsKeeps ==
  ASSUME IInv, NEW w \in Writers, sink[w].pc \notin Outside, Rejects(w),
         lock' = lock, manifest' = manifest, files' = files, litter' \in BOOLEAN,
         submitted' = submitted, confirmed' = confirmed
  PROVE  IInv'
PROOF
<1> PICK full \in Histories : Witnessed(full)
  BY DEF IInv
<1> DEFINE r == MovedTo(w, "rejecting", sink[w].stage, sink[w].view)
<1>1. TypeOK /\ Locked /\ sink[w] \in Sinks
  BY DEF IInv, TypeOK
<1>2. /\ r \in Sinks /\ r.pc = "rejecting" /\ r.stage = sink[w].stage /\ r.view = sink[w].view
      /\ r.todo = sink[w].todo /\ r.asked = sink[w].asked
  <2>1. /\ sink[w].stage \in {"loading", "suffix", "orphan", "writing"}
        /\ sink[w].view \in Seq(Segments)
    BY <1>1, OwedIsHistory
  <2> QED BY <1>1, <2>1, MovedToIsSink
<1>3. sink' = [sink EXCEPT ![w] = r]
  BY <1>1, GoesMoves DEF Rejects
<1> HIDE DEF r
<1>4. Aware(r, manifest, files, full)
  BY <1>2 DEF Aware
<1>5. Ends(r)
  BY <1>2 DEF Ends, Witnessed, Faithful
<1>6. r.pc \notin Outside
  BY <1>2 DEF Outside
<1> QED BY <1>1, <1>2, <1>3, <1>4, <1>5, <1>6, ContinuesInside

(* No write is a write without a group.                                    *)
LEMMA NoWriteIs ==
  /\ NoWrite \in Sinks /\ NoWrite.pc = "idle" /\ NoWrite.asked = <<>> /\ NoWrite.todo = <<>>
  /\ Ends(NoWrite) /\ NoWrite.pc \in Outside /\ Owed(NoWrite) = <<>>
  /\ \A m, fs, full : Aware(NoWrite, m, fs, full)
  /\ \A m, full, count : Faithful(NoWrite, m, full, count)
PROOF
<1>1. <<>> \in Seq(Segments) /\ <<>> \in Seq(Events)
  BY EmptySeq
<1>2. NoWrite \in Sinks
  BY <1>1 DEF NoWrite, Sinks
<1>3. NoWrite.pc = "idle" /\ NoWrite.asked = <<>> /\ NoWrite.todo = <<>>
  BY DEF NoWrite
<1>4. \A m, fs, full : Aware(NoWrite, m, fs, full)
  BY <1>3 DEF Aware
<1>5. \A m, full, count : Faithful(NoWrite, m, full, count)
  BY <1>3 DEF Faithful
<1> QED BY <1>2, <1>3, <1>4, <1>5 DEF Ends, Outside, Owed

(* The process gives up, dies, or leaves its lock behind.                  *)
LEMMA LeavesKeeps ==
  ASSUME IInv, NEW w \in Writers, NEW r \in Sinks, sink' = [sink EXCEPT ![w] = r],
         Ends(r), r.pc = "idle",
         manifest' = manifest, files' = files, litter' \in BOOLEAN,
         submitted' = submitted, confirmed' = confirmed,
         lock' = IF lock = w THEN Abandoned ELSE lock
  PROVE  IInv'
PROOF
<1> PICK full \in Histories : Witnessed(full)
  BY DEF IInv
<1>1. TypeOK /\ Locked /\ lock \in Writers \cup {None, Abandoned}
  BY DEF IInv, TypeOK
<1>2. Aware(r, manifest, files, full)
  BY DEF Aware
<1>3. r.pc \notin Outside <=> lock' = w
  BY ChainAssumption DEF Outside
<1>4. \A v \in Writers : v # w => (lock' = v <=> lock = v)
  BY ChainAssumption
<1>5. lock' \in Writers \cup {None, Abandoned}
  BY <1>1
<1> QED BY <1>1, <1>2, <1>3, <1>4, <1>5, QuietKeeps

(* An operation that cannot have the lock keeps the invariant.             *)
LEMMA GivesUpKeeps ==
  ASSUME IInv, NEW w \in Writers, GivesUp(w)
  PROVE  IInv'
PROOF
<1> DEFINE r == MovedTo(w, "idle", sink[w].stage, sink[w].view)
<1>1. TypeOK /\ Locked /\ sink[w] \in Sinks /\ litter \in BOOLEAN
  BY DEF IInv, TypeOK
<1>2. /\ r \in Sinks /\ r.pc = "idle" /\ r.asked = sink[w].asked
  <2>1. /\ sink[w].stage \in {"loading", "suffix", "orphan", "writing"}
        /\ sink[w].view \in Seq(Segments)
    BY <1>1, OwedIsHistory
  <2> QED BY <1>1, <2>1, MovedToIsSink
<1>3. sink' = [sink EXCEPT ![w] = r]
  BY <1>1, GoesMoves DEF GivesUp
<1> HIDE DEF r
<1>4. Ends(r)
  BY <1>2 DEF Ends, IInv, Witnessed, Faithful
<1>5. lock # w
  BY <1>1 DEF GivesUp, At, Locked, Outside
<1>6. /\ manifest' = manifest /\ files' = files /\ litter' = litter
      /\ submitted' = submitted /\ confirmed' = confirmed /\ lock' = lock
  BY DEF GivesUp, disk
<1>7. lock' = IF lock = w THEN Abandoned ELSE lock
  BY <1>5, <1>6
<1> QED BY <1>1, <1>2, <1>3, <1>4, <1>6, <1>7, LeavesKeeps

(* A lock that cannot be removed keeps the invariant.                      *)
LEMMA ReleaseFailsKeeps ==
  ASSUME IInv, NEW w \in Writers, ReleaseFails(w)
  PROVE  IInv'
PROOF
<1>1. Locked /\ litter \in BOOLEAN
  BY DEF IInv, TypeOK
<1>2. lock = w
  BY <1>1 DEF ReleaseFails, At, Locked, Outside
<1>3. /\ manifest' = manifest /\ files' = files /\ litter' = litter
      /\ submitted' = submitted /\ confirmed' = confirmed /\ lock' = Abandoned
      /\ sink' = [sink EXCEPT ![w] = NoWrite]
  BY DEF ReleaseFails, disk
<1>4. lock' = IF lock = w THEN Abandoned ELSE lock
  BY <1>2, <1>3
<1>5. NoWrite \in Sinks /\ Ends(NoWrite) /\ NoWrite.pc = "idle"
  BY NoWriteIs
<1> QED BY <1>1, <1>3, <1>4, <1>5, LeavesKeeps

(* A temporary file left behind changes nothing that is read.              *)
LEMMA LitterTyped ==
  ASSUME IInv, NEW w \in Writers, MayLitter(w)
  PROVE  litter' \in BOOLEAN /\ manifest' = manifest /\ files' = files
PROOF
<1>1. litter \in BOOLEAN
  BY DEF IInv, TypeOK
<1>2. litter' \in {litter, TRUE} \/ litter' \in {litter}
  BY DEF MayLitter
<1>3. litter' = litter \/ litter' = TRUE
  BY <1>2
<1>4. litter' \in BOOLEAN
  BY <1>1, <1>3
<1> QED BY <1>4 DEF MayLitter

(* A process that stops between two calls keeps the invariant.             *)
LEMMA CrashKeeps ==
  ASSUME IInv, NEW w \in Writers, Crash(w)
  PROVE  IInv'
PROOF
<1>1. litter' \in BOOLEAN /\ manifest' = manifest /\ files' = files
  BY LitterTyped DEF Crash
<1>2. /\ submitted' = submitted /\ confirmed' = confirmed
      /\ lock' = IF lock = w THEN Abandoned ELSE lock
      /\ sink' = [sink EXCEPT ![w] = NoWrite]
  BY DEF Crash, Holding
<1>3. NoWrite \in Sinks /\ Ends(NoWrite) /\ NoWrite.pc = "idle"
  BY NoWriteIs
<1> QED BY <1>1, <1>2, <1>3, LeavesKeeps

(* A call of the file system that fails keeps the invariant.               *)
LEMMA IOFailsKeeps ==
  ASSUME IInv, NEW w \in Writers, IOFails(w)
  PROVE  IInv'
PROOF
<1>1. litter' \in BOOLEAN /\ manifest' = manifest /\ files' = files
  BY LitterTyped DEF IOFails
<1>2. sink[w].pc \notin Outside
  BY DEF IInv, Locked, IOFails, Holding
<1>3. Rejects(w) /\ lock' = lock /\ submitted' = submitted /\ confirmed' = confirmed
  BY DEF IOFails
<1> QED BY <1>1, <1>2, <1>3, RejectsKeeps

(* A chunk that is refused before it is written keeps the invariant.       *)
LEMMA CannotAppendKeeps ==
  ASSUME IInv, NEW w \in Writers, CannotAppend(w)
  PROVE  IInv'
PROOF
<1>1. litter \in BOOLEAN
  BY DEF IInv, TypeOK
<1>2. sink[w].pc \notin Outside
  BY DEF CannotAppend, At, Outside
<1>3. /\ Rejects(w) /\ lock' = lock /\ manifest' = manifest /\ files' = files /\ litter' = litter
      /\ submitted' = submitted /\ confirmed' = confirmed
  BY DEF CannotAppend, disk
<1> QED BY <1>1, <1>2, <1>3, RejectsKeeps

(* A step inside the lock that moves the process on and keeps its group.   *)
LEMMA MovesInside ==
  ASSUME IInv, NEW full \in Histories, Witnessed(full), NEW w \in Writers,
         sink[w].pc \in {"loading", "suffix", "orphan", "pruning", "writing"},
         NEW pc \in {"suffix", "orphan", "publishing", "pruning", "writing", "releasing"},
         NEW stage \in {"loading", "suffix", "orphan", "writing"}, NEW view \in Seq(Segments),
         sink' = [sink EXCEPT ![w] = MovedTo(w, pc, stage, view)],
         pc = "releasing" => sink[w].todo = <<>>,
         UNCHANGED <<disk, lock, submitted, confirmed>>,
         Aware(MovedTo(w, pc, stage, view), manifest, files, full)
  PROVE  IInv'
PROOF
<1> DEFINE r == MovedTo(w, pc, stage, view)
<1>1. TypeOK /\ Locked /\ litter \in BOOLEAN
  BY DEF IInv, TypeOK
<1>2. r \in Sinks /\ r.pc = pc /\ r.todo = sink[w].todo /\ r.asked = sink[w].asked
  BY <1>1, MovedToIsSink
<1>3. /\ manifest' = manifest /\ files' = files /\ litter' = litter /\ lock' = lock
      /\ submitted' = submitted /\ confirmed' = confirmed
      /\ sink' = [sink EXCEPT ![w] = r] /\ Aware(r, manifest, files, full)
  BY DEF disk
<1> HIDE DEF r
<1>4. Moves(sink[w], r)
  BY <1>2 DEF Moves
<1>5. sink[w].pc \notin Outside /\ r.pc \notin Outside
  BY <1>2 DEF Outside
<1> QED BY <1>1, <1>2, <1>3, <1>4, <1>5, ContinuesInside

(* Loading the manifest keeps the invariant.                               *)
LEMMA LoadsKeeps ==
  ASSUME IInv, NEW w \in Writers, Loads(w)
  PROVE  IInv'
PROOF
<1> PICK full \in Histories : Witnessed(full)
  BY DEF IInv
<1>1. /\ TypeOK /\ sink[w] \in Sinks /\ litter \in BOOLEAN
      /\ manifest \in Seq(Segments) \cup {None}
  BY DEF IInv, TypeOK
<1>2. /\ sink[w].pc = "loading" /\ UNCHANGED <<disk, lock, submitted, confirmed>>
      /\ manifest' = manifest /\ files' = files /\ litter' = litter /\ lock' = lock
      /\ submitted' = submitted /\ confirmed' = confirmed
  BY DEF Loads, At, disk
<1>3. sink[w].stage \in {"loading", "suffix", "orphan", "writing"}
  BY <1>1, OwedIsHistory
<1>4. CASE manifest # None /\ sink' = [sink EXCEPT ![w].pc = "suffix", ![w].view = manifest]
  <2> DEFINE r == MovedTo(w, "suffix", sink[w].stage, manifest)
  <2>1. manifest \in Seq(Segments)
    BY <1>1, <1>4
  <2>2. sink' = [sink EXCEPT ![w] = r]
    <3> DEFINE m == manifest
    <3>1. sink' = [sink EXCEPT ![w].pc = "suffix", ![w].view = m]
      BY <1>4
    <3> HIDE DEF m
    <3>2. sink' = [sink EXCEPT ![w] = MovedTo(w, "suffix", sink[w].stage, m)]
      BY <1>1, <3>1, LoadedIs
    <3> QED BY <3>2 DEF m
  <2>3. r.pc = "suffix" /\ r.view = manifest
    BY <1>1, <1>3, <2>1, MovedToIsSink
  <2>4. Aware(r, manifest, files, full)
    <3> HIDE DEF r
    <3> QED BY <1>4, <2>3 DEF Aware, Knows
  <2> QED BY <1>2, <1>3, <2>1, <2>2, <2>4, MovesInside
<1>5. CASE manifest = None /\ Publish(w, "loading", ViewOf(manifest))
  <2> DEFINE r == MovedTo(w, "publishing", "loading", ViewOf(manifest))
  <2>1. ViewOf(manifest) = <<>> /\ ViewOf(manifest) \in Seq(Segments)
    BY <1>5, EmptySeq DEF ViewOf
  <2>2. sink' = [sink EXCEPT ![w] = r]
    BY <1>1, <1>5, GoesMoves
  <2>3. r.pc = "publishing" /\ r.stage = "loading" /\ r.view = <<>>
    <3> DEFINE q == ViewOf(manifest)
    <3> HIDE DEF q
    <3>1. MovedTo(w, "publishing", "loading", q).view = q
          /\ MovedTo(w, "publishing", "loading", q).pc = "publishing"
          /\ MovedTo(w, "publishing", "loading", q).stage = "loading"
      BY DEF MovedTo
    <3> QED BY <2>1, <3>1 DEF q
  <2>4. Aware(r, manifest, files, full)
    <3> HIDE DEF r
    <3> QED BY <1>5, <2>3 DEF Aware
  <2> QED BY <1>2, <2>1, <2>2, <2>4, MovesInside
<1>6. CASE Rejects(w)
  <2>1. sink[w].pc \notin Outside
    BY <1>2 DEF Outside
  <2> QED BY <1>1, <1>2, <1>6, <2>1, RejectsKeeps
<1> QED BY <1>4, <1>5, <1>6 DEF Loads

(* What recovery adopts has no partial line: a successor can be published. *)
LEMMA AdoptablePending ==
  ASSUME NEW p, NEW fs, NEW full, Chain(p, fs, full), Adoptable(Loose(p, fs), HeadOf(p))
  PROVE  Pending(p, fs, full)
PROOF
<1> DEFINE lines == Loose(p, fs)
           n == Len(full) - Len(HeadOf(p))
<1>1. lines # <<>> /\ Chained(lines, HeadOf(p))
  BY DEF Adoptable
<1>2. \A i \in 1 .. Len(lines) : lines[i] # Torn
  BY <1>1 DEF Chained, Follows
<1>3. Leftover(lines, n)
  BY DEF Chain
<1>4. n \in Nat /\ Len(full) \in Nat /\ Len(HeadOf(p)) \in Nat
  BY <1>3, ChainNumbers, ChainAssumption DEF Leftover
<1>5. Len(lines) = n
  <2>1. Len(lines) \in {n, n + 1}
    BY <1>3 DEF Leftover
  <2>2. ASSUME Len(lines) = n + 1 PROVE FALSE
    <3>1. lines[n + 1] = Torn
      BY <1>3, <2>2 DEF Leftover
    <3>2. n + 1 \in 1 .. Len(lines)
      BY <1>4, <2>2
    <3> QED BY <1>2, <3>1, <3>2
  <2> QED BY <2>1, <2>2
<1>6. lines \in Seq(Line)
  <2>1. CASE Orphaned(p, fs)
    <3>1. fs[NameAfter(HeadOf(p))] \in Seq(Line)
      BY <2>1, ChainNumbers DEF Orphaned
    <3> QED BY <2>1, <3>1 DEF Loose
  <2>2. CASE ~Orphaned(p, fs) /\ p # <<>>
    <3>1. Behind(p, fs) \in Seq(Line)
      BY <2>2, LastFileOf
    <3> QED BY <2>2, <3>1 DEF Loose
  <2>3. CASE ~Orphaned(p, fs) /\ p = <<>>
    BY <1>1, <2>3 DEF Loose, Behind
  <2> QED BY <2>1, <2>2, <2>3
<1>7. Len(lines) \in Nat /\ Len(lines) # 0
  <2> HIDE DEF lines
  <2> QED BY <1>1, <1>6, LenProperties, EmptySeq
<1> HIDE DEF lines
<1>8. Len(full) > Len(HeadOf(p)) /\ Len(lines) = Len(full) - Len(HeadOf(p))
  BY <1>4, <1>5, <1>7
<1> QED BY <1>8 DEF lines, Pending

(* Lines behind the tip leave no room for an orphan.                       *)
LEMMA BehindIsLoose ==
  ASSUME NEW p, NEW fs, NEW full, Chain(p, fs, full), Behind(p, fs) # <<>>
  PROVE  ~Orphaned(p, fs) /\ Loose(p, fs) = Behind(p, fs) /\ p # <<>>
PROOF
<1>1. p # <<>>
  BY DEF Behind
<1>2. ASSUME Orphaned(p, fs) PROVE FALSE
  <2>1. p \in Seq(Segments) /\ Committed(p, fs)
    BY DEF Chain
  <2>2. Len(p) \in 1 .. Len(p) /\ Last(p) = p[Len(p)]
    BY <1>1, <2>1, HeadIs
  <2>3. Len(LastFile(p, fs)) = RecordCount(Last(p))
    BY <1>2, <2>1, <2>2 DEF Committed, LastFile
  <2>4. /\ Behind(p, fs) \in Seq(Line)
        /\ Len(Behind(p, fs)) = Len(LastFile(p, fs)) - RecordCount(Last(p))
        /\ RecordCount(Last(p)) \in Nat
    BY <1>1, LastFileOf
  <2>5. Len(Behind(p, fs)) = 0
    BY <2>3, <2>4
  <2> QED BY <2>4, <2>5, EmptySeq
<1> QED BY <1>1, <1>2 DEF Loose

(* The suffix behind the committed tip.                                    *)
LEMMA SuffixIs == \A p : Suffix(p) = Behind(p, files) /\ (p # <<>> => TipFile(p) = LastFile(p, files))
PROOF
BY DEF Suffix, Behind, TipFile, LastFile

(* Adopting the records behind the newest segment keeps the invariant.     *)
LEMMA RecoversSuffixKeeps ==
  ASSUME IInv, NEW w \in Writers, RecoversSuffix(w)
  PROVE  IInv'
PROOF
<1> DEFINE p == sink[w].view
<1> PICK full \in Histories : Witnessed(full)
  BY DEF IInv
<1>1. TypeOK /\ sink[w] \in Sinks /\ litter \in BOOLEAN
  BY DEF IInv, TypeOK
<1>2. /\ sink[w].pc = "suffix" /\ UNCHANGED <<disk, lock, submitted, confirmed>>
      /\ manifest' = manifest /\ files' = files /\ litter' = litter /\ lock' = lock
      /\ submitted' = submitted /\ confirmed' = confirmed
  BY DEF RecoversSuffix, At, disk
<1>3. sink[w].stage \in {"loading", "suffix", "orphan", "writing"} /\ p \in Seq(Segments)
  BY <1>1, OwedIsHistory
<1>4. manifest # None /\ p = manifest /\ ViewOf(manifest) = p
  BY <1>2 DEF Witnessed, Aware, Knows, ViewOf
<1>5. Chain(p, files, full)
  BY <1>4 DEF Witnessed, Directory
<1>6. CASE Suffix(p) = <<>> /\ Goes(w, "orphan")
  <2> DEFINE r == MovedTo(w, "orphan", sink[w].stage, p)
  <2>1. sink' = [sink EXCEPT ![w] = r]
    BY <1>1, <1>6, GoesMoves
  <2>2. r.pc = "orphan" /\ r.view = p
    BY <1>1, <1>3, MovedToIsSink
  <2>3. Behind(ViewOf(manifest), files) = <<>>
    BY <1>4, <1>6, SuffixIs
  <2>4. Aware(r, manifest, files, full)
    <3> HIDE DEF r, p
    <3> QED BY <1>4, <2>2, <2>3 DEF Aware, Knows
  <2> QED BY <1>2, <1>3, <2>1, <2>4, MovesInside
<1>7. CASE /\ Adoptable(Suffix(p), HeadOf(p))
           /\ Publish(w, "suffix",
                WithTip(p, [Last(p) EXCEPT !.head = Last(TipFile(p)), !.size = Bytes(TipFile(p))]))
  <2> DEFINE q == SuccessorOf(p, files)
             r == MovedTo(w, "publishing", "suffix", q)
  <2>1. Suffix(p) = Behind(p, files) /\ Behind(p, files) # <<>>
    BY <1>7, SuffixIs DEF Adoptable
  <2>2. ~Orphaned(p, files) /\ Loose(p, files) = Behind(p, files) /\ p # <<>>
    <3> HIDE DEF p
    <3> QED BY <1>5, <2>1, BehindIsLoose
  <2>3. Pending(p, files, full)
    <3>1. Adoptable(Loose(p, files), HeadOf(p))
      BY <1>7, <2>1, <2>2
    <3> HIDE DEF p
    <3> QED BY <1>5, <3>1, AdoptablePending
  <2>4. TipFile(p) = LastFile(p, files)
    BY <2>2, SuffixIs
  <2>5. WithTip(p, [Last(p) EXCEPT !.head = Last(TipFile(p)), !.size = Bytes(TipFile(p))]) = q
    <3> HIDE DEF p
    <3> QED BY <2>2, <2>4 DEF SuccessorOf
  <2>6. q \in Seq(Segments)
    <3> HIDE DEF p, q
    <3>1. q = SuccessorOf(p, files)
      BY DEF q
    <3>2. Chain(q, files, full)
      BY <1>5, <2>3, <3>1, Sealed
    <3> QED BY <3>2 DEF Chain
  <2>7. sink' = [sink EXCEPT ![w] = r]
    <3>1. Publish(w, "suffix", q)
      BY <1>7, <2>5
    <3> HIDE DEF q
    <3> QED BY <1>1, <3>1, GoesMoves
  <2>8. r.pc = "publishing" /\ r.stage = "suffix" /\ r.view = q
    <3> HIDE DEF q
    <3> QED BY <1>1, <2>6, MovedToIsSink
  <2>9. Aware(r, manifest, files, full)
    <3> HIDE DEF r
    <3> QED BY <1>4, <2>3, <2>8 DEF Aware
  <2> HIDE DEF q
  <2> QED BY <1>2, <2>6, <2>7, <2>9, MovesInside
<1>8. CASE Rejects(w)
  <2>1. sink[w].pc \notin Outside
    BY <1>2 DEF Outside
  <2> QED BY <1>1, <1>2, <1>8, <2>1, RejectsKeeps
<1> QED BY <1>6, <1>7, <1>8 DEF RecoversSuffix

(* Adopting an unpublished segment keeps the invariant.                    *)
LEMMA RecoversOrphanKeeps ==
  ASSUME IInv, NEW w \in Writers, RecoversOrphan(w)
  PROVE  IInv'
PROOF
<1> DEFINE p == sink[w].view
<1> PICK full \in Histories : Witnessed(full)
  BY DEF IInv
<1>1. TypeOK /\ sink[w] \in Sinks /\ litter \in BOOLEAN
  BY DEF IInv, TypeOK
<1>2. /\ sink[w].pc = "orphan" /\ UNCHANGED <<disk, lock, submitted, confirmed>>
      /\ manifest' = manifest /\ files' = files /\ litter' = litter /\ lock' = lock
      /\ submitted' = submitted /\ confirmed' = confirmed
  BY DEF RecoversOrphan, At, disk
<1>3. sink[w].stage \in {"loading", "suffix", "orphan", "writing"} /\ p \in Seq(Segments)
  BY <1>1, OwedIsHistory
<1>4. manifest # None /\ p = manifest /\ ViewOf(manifest) = p /\ Behind(p, files) = <<>>
  BY <1>2 DEF Witnessed, Aware, Knows, ViewOf
<1>5. Chain(p, files, full)
  BY <1>4 DEF Witnessed, Directory
<1>6. CASE /\ NameAfter(HeadOf(p)) \notin DOMAIN files
           /\ sink' = [sink EXCEPT ![w].pc = "pruning", ![w].stage = "orphan"]
  <2> DEFINE r == MovedTo(w, "pruning", "orphan", p)
  <2>1. sink' = [sink EXCEPT ![w] = r]
    BY <1>1, <1>6, GoesMoves
  <2>2. r.pc = "pruning" /\ r.view = p
    BY <1>1, <1>3, MovedToIsSink
  <2>3. ~Orphaned(p, files)
    BY <1>6 DEF Orphaned
  <2>4. Aware(r, manifest, files, full)
    <3> HIDE DEF r, p
    <3> QED BY <1>4, <2>2, <2>3 DEF Aware, Knows
  <2> QED BY <1>2, <1>3, <2>1, <2>4, MovesInside
<1>7. CASE /\ NameAfter(HeadOf(p)) \in DOMAIN files
           /\ Adoptable(files[NameAfter(HeadOf(p))], HeadOf(p))
           /\ Publish(w, "orphan",
                WithNew(p, [start |-> HeadOf(p), head |-> Last(files[NameAfter(HeadOf(p))]),
                            size |-> Bytes(files[NameAfter(HeadOf(p))])]))
  <2> DEFINE q == SuccessorOf(p, files)
             r == MovedTo(w, "publishing", "orphan", q)
  <2>1. Orphaned(p, files) /\ Loose(p, files) = files[NameAfter(HeadOf(p))]
    BY <1>7 DEF Orphaned, Loose
  <2>2. Pending(p, files, full)
    <3>1. Adoptable(Loose(p, files), HeadOf(p))
      BY <1>7, <2>1
    <3> HIDE DEF p
    <3> QED BY <1>5, <3>1, AdoptablePending
  <2>3. Publish(w, "orphan", q)
    <3>1. q = WithNew(p, [start |-> HeadOf(p), head |-> Last(files[NameAfter(HeadOf(p))]),
                          size |-> Bytes(files[NameAfter(HeadOf(p))])])
      <4> HIDE DEF p
      <4> QED BY <2>1 DEF SuccessorOf
    <3> QED BY <1>7, <3>1
  <2>4. q \in Seq(Segments)
    <3> HIDE DEF p, q
    <3>1. q = SuccessorOf(p, files)
      BY DEF q
    <3>2. Chain(q, files, full)
      BY <1>5, <2>2, <3>1, Sealed
    <3> QED BY <3>2 DEF Chain
  <2>5. sink' = [sink EXCEPT ![w] = r]
    <3> HIDE DEF q
    <3> QED BY <1>1, <2>3, GoesMoves
  <2>6. r.pc = "publishing" /\ r.stage = "orphan" /\ r.view = q
    <3> HIDE DEF q
    <3> QED BY <1>1, <2>4, MovedToIsSink
  <2>7. Aware(r, manifest, files, full)
    <3> HIDE DEF r
    <3> QED BY <1>4, <2>2, <2>6 DEF Aware
  <2> HIDE DEF q
  <2> QED BY <1>2, <2>4, <2>5, <2>7, MovesInside
<1>8. CASE Rejects(w)
  <2>1. sink[w].pc \notin Outside
    BY <1>2 DEF Outside
  <2> QED BY <1>1, <1>2, <1>8, <2>1, RejectsKeeps
<1> QED BY <1>6, <1>7, <1>8 DEF RecoversOrphan

(* What may be pruned is what lies before the first retained segment.      *)
LEMMA PrunableIs ==
  ASSUME NEW p, NEW full, Chain(p, files, full)
  PROVE  Prunable(p) = Doomed(p, files)
PROOF
<1>1. Len(Initial) \in Nat /\ Stored(p, files, full)
  BY ChainNumbers DEF Chain
<1>2. \A f \in DOMAIN files : f \in Nat /\ f > Len(Initial)
  <2>1. \A f \in DOMAIN files : f \in Len(Initial) + 1 .. Len(HeadOf(p)) + 1
    BY <1>1 DEF Stored
  <2> QED BY <1>1, <2>1, ChainNumbers
<1>3. CASE p = <<>>
  BY <1>3 DEF Prunable, Doomed
<1>4. CASE p # <<>> /\ p[1].start = Initial
  BY <1>1, <1>2, <1>4 DEF Prunable, Doomed
<1>5. CASE p # <<>> /\ p[1].start # Initial
  BY <1>2, <1>5 DEF Prunable, Doomed
<1> QED BY <1>3, <1>4, <1>5

(* Nothing is left to prune.                                               *)
LEMMA PrunedKeeps ==
  ASSUME IInv, NEW w \in Writers, sink[w].pc = "pruning", Prunable(sink[w].view) = {},
         Goes(w, IF sink[w].stage = "suffix" THEN "orphan" ELSE "writing"),
         UNCHANGED <<disk, lock, submitted, confirmed>>
  PROVE  IInv'
PROOF
<1> DEFINE p == sink[w].view
           pc == IF sink[w].stage = "suffix" THEN "orphan" ELSE "writing"
           r == MovedTo(w, pc, sink[w].stage, p)
<1> PICK full \in Histories : Witnessed(full)
  BY DEF IInv
<1>1. TypeOK /\ sink[w] \in Sinks
  BY DEF IInv, TypeOK
<1>2. sink[w].stage \in {"loading", "suffix", "orphan", "writing"} /\ p \in Seq(Segments)
  BY <1>1, OwedIsHistory
<1>3. /\ manifest # None /\ p = manifest /\ ViewOf(manifest) = p /\ Behind(p, files) = <<>>
      /\ sink[w].stage # "suffix" => ~Orphaned(p, files)
  BY DEF Witnessed, Aware, Knows, ViewOf
<1>4. Chain(p, files, full)
  BY <1>3 DEF Witnessed, Directory
<1>5. Doomed(p, files) = {}
  <2>1. Prunable(p) = {}
    OBVIOUS
  <2> HIDE DEF p
  <2> QED BY <1>4, <2>1, PrunableIs
<1>6. pc \in {"orphan", "writing"}
  OBVIOUS
<1>7. sink' = [sink EXCEPT ![w] = r]
  BY <1>1, GoesMoves
<1>8. r.pc = pc /\ r.view = p
  <2> HIDE DEF pc
  <2> QED BY <1>1, <1>2, <1>6, MovedToIsSink
<1>9. Aware(r, manifest, files, full)
  <2>1. CASE sink[w].stage = "suffix"
    <3>1. r.pc = "orphan"
      BY <1>8, <2>1
    <3> HIDE DEF r, p
    <3> QED BY <1>3, <1>8, <3>1 DEF Aware, Knows
  <2>2. CASE sink[w].stage # "suffix"
    <3>1. r.pc = "writing"
      BY <1>8, <2>2
    <3> HIDE DEF r, p
    <3> QED BY <1>3, <1>5, <1>8, <2>2, <3>1 DEF Aware, Knows, Settled
  <2> QED BY <2>1, <2>2
<1> HIDE DEF pc
<1> QED BY <1>2, <1>6, <1>7, <1>9, MovesInside

(* A finished write keeps the invariant.                                   *)
LEMMA FinishesKeeps ==
  ASSUME IInv, NEW w \in Writers, Finishes(w)
  PROVE  IInv'
PROOF
<1> PICK full \in Histories : Witnessed(full)
  BY DEF IInv
<1>1. TypeOK /\ sink[w] \in Sinks /\ litter \in BOOLEAN
  BY DEF IInv, TypeOK
<1>2. /\ sink[w].pc = "writing" /\ UNCHANGED <<disk, lock, submitted, confirmed>>
      /\ manifest' = manifest /\ files' = files /\ litter' = litter /\ lock' = lock
      /\ submitted' = submitted /\ confirmed' = confirmed /\ sink[w].todo = <<>>
  BY DEF Finishes, At, disk
<1>3. sink[w].stage \in {"loading", "suffix", "orphan", "writing"} /\ sink[w].view \in Seq(Segments)
  BY <1>1, OwedIsHistory
<1>4. CASE Goes(w, "releasing")
  <2> DEFINE r == MovedTo(w, "releasing", sink[w].stage, sink[w].view)
  <2>1. sink' = [sink EXCEPT ![w] = r]
    BY <1>1, <1>4, GoesMoves
  <2>2. r.pc = "releasing"
    BY <1>1, <1>3, MovedToIsSink
  <2>3. Aware(r, manifest, files, full)
    <3> HIDE DEF r
    <3> QED BY <2>2 DEF Aware
  <2> QED BY <1>2, <1>3, <2>1, <2>3, MovesInside
<1>5. CASE Goes(w, "rejecting")
  <2>1. sink[w].pc \notin Outside /\ Rejects(w)
    BY <1>2, <1>5 DEF Outside, Rejects
  <2> QED BY <1>1, <1>2, <2>1, RejectsKeeps
<1> QED BY <1>4, <1>5 DEF Finishes

(* An operator who removes an abandoned lock keeps the invariant.          *)
LEMMA OperatorUnlocksKeeps ==
  ASSUME IInv, OperatorUnlocks
  PROVE  IInv'
PROOF
<1> PICK full \in Histories : Witnessed(full)
  BY DEF IInv
<1>1. /\ manifest' = manifest /\ files' = files /\ litter' = litter /\ sink' = sink
      /\ submitted' = submitted /\ confirmed' = confirmed /\ lock' = None /\ lock = Abandoned
  BY DEF OperatorUnlocks, disk
<1>2. TypeOK'
  BY <1>1 DEF IInv, TypeOK
<1>3. Locked'
  BY <1>1, ChainAssumption DEF IInv, Locked, Outside
<1>4. Witnessed(full)'
  BY <1>1 DEF Witnessed, Counted
<1> QED BY <1>2, <1>3, <1>4 DEF IInv

(***************************************************************************)
(* The steps that take and leave the lock, and those that publish and      *)
(* delete.                                                                 *)
(***************************************************************************)
(* Taking the lock tells nothing about the directory yet.                  *)
LEMMA AcquiresKeeps ==
  ASSUME IInv, NEW w \in Writers, Acquires(w)
  PROVE  IInv'
PROOF
<1> DEFINE r == MovedTo(w, "loading", sink[w].stage, sink[w].view)
<1> PICK full \in Histories : Witnessed(full)
  BY DEF IInv
<1>1. /\ TypeOK /\ Locked /\ sink[w] \in Sinks /\ litter \in BOOLEAN
      /\ manifest \in Seq(Segments) \cup {None}
      /\ submitted \in [Events -> Nat] /\ confirmed \in [Events -> Nat]
  BY DEF IInv, TypeOK
<1>2. /\ sink[w].pc = "acquiring" /\ lock = None /\ lock' = w
      /\ manifest' = manifest /\ files' = files /\ litter' = litter
      /\ submitted' = submitted /\ confirmed' = confirmed
      /\ Goes(w, "loading")
  BY DEF Acquires, At, disk
<1>3. /\ sink[w].stage \in {"loading", "suffix", "orphan", "writing"}
      /\ sink[w].view \in Seq(Segments)
      /\ sink[w].todo \in Histories /\ sink[w].asked \in Histories
  BY <1>1, OwedIsHistory
<1>4. r \in Sinks /\ r.pc = "loading" /\ r.todo = sink[w].todo /\ r.asked = sink[w].asked
  BY <1>1, <1>3, MovedToIsSink
<1>5. sink' = [sink EXCEPT ![w] = r]
  BY <1>1, <1>2, GoesMoves
<1> HIDE DEF r
<1>6. /\ Directory(manifest, files, full) /\ Faithful(sink[w], manifest, full, confirmed)
      /\ Counted(full)
  BY DEF Witnessed
<1>7. sink[w].todo = sink[w].asked /\ sink[w].asked \in Groups \cup {<<>>}
  BY <1>2, <1>6 DEF Faithful
<1>8. Aware(r, manifest, files, full)
  BY <1>4 DEF Aware
<1>9. Owed(r) = sink[w].asked /\ Owed(sink[w]) = sink[w].asked
  BY <1>2, <1>4, <1>7 DEF Owed
<1>10. ASSUME NEW e \in Events
       PROVE  /\ Log!Occurrences(sink[w].asked, e) \in Nat
              /\ Log!Occurrences(After(full), e) \in Nat
              /\ Log!Occurrences(After(HeadOf(ViewOf(manifest))), e) \in Nat
              /\ confirmed[e] <= Log!Occurrences(After(HeadOf(ViewOf(manifest))), e)
              /\ confirmed[e] \in Nat /\ submitted[e] \in Nat
  <2>1. Log!Occurrences(sink[w].asked, e) \in Nat
    BY <1>3, OccurrencesCounted
  <2>2. /\ Log!Occurrences(After(HeadOf(ViewOf(manifest))), e) \in Nat
        /\ Log!Occurrences(After(full), e) \in Nat
    BY <1>6, PublishedIsPart
  <2>3. confirmed[e] <= Log!Occurrences(After(HeadOf(ViewOf(manifest))), e)
    BY <1>6 DEF Counted
  <2> QED BY <1>1, <2>1, <2>2, <2>3
<1>11. Faithful(r, manifest, full, confirmed)
  <2>1. Appended(r, manifest, full) = After(HeadOf(ViewOf(manifest)))
    BY <1>4 DEF Appended
  <2>2. \A e \in Events : confirmed[e] + Log!Occurrences(r.asked, e) <=
                  Log!Occurrences(Appended(r, manifest, full), e) + Log!Occurrences(Owed(r), e)
    BY <1>4, <1>9, <1>10, <2>1
  <2>3. r.asked \in Groups \cup {<<>>} /\ Len(r.todo) <= Len(r.asked)
    <3>1. Len(sink[w].asked) \in Nat
      BY <1>3, LenProperties DEF Histories
    <3> QED BY <1>4, <1>7, <3>1
  <2> QED BY <1>4, <2>2, <2>3 DEF Faithful
<1>12. Accounted(sink[w], r, full, full, submitted, submitted)
  BY <1>9, <1>10 DEF Accounted
<1>13. Covered(manifest, confirmed)
  BY <1>10 DEF Covered
<1>14. r.pc \notin Outside
  BY <1>4 DEF Outside
<1>15. \A v \in Writers : v # w => (lock' = v <=> lock = v)
  BY <1>2, ChainAssumption
<1> QED BY <1>1, <1>2, <1>4, <1>5, <1>6, <1>8, <1>11, <1>12, <1>13, <1>14, <1>15, StepKeeps

(* A new write or getCheckpoint keeps the invariant.                       *)
LEMMA AsksKeeps ==
  ASSUME IInv, NEW w \in Writers, NEW group \in Groups \cup {<<>>}, Asks(w, group)
  PROVE  IInv'
PROOF
<1> DEFINE r == [NoWrite EXCEPT !.pc = "acquiring", !.todo = group, !.asked = group]
<1> PICK full \in Histories : Witnessed(full)
  BY DEF IInv
<1>1. /\ TypeOK /\ Locked /\ sink[w] \in Sinks /\ litter \in BOOLEAN
      /\ manifest \in Seq(Segments) \cup {None} /\ lock \in Writers \cup {None, Abandoned}
      /\ submitted \in [Events -> Nat] /\ confirmed \in [Events -> Nat]
  BY DEF IInv, TypeOK
<1>2. /\ sink[w].pc = "idle" /\ lock' = lock
      /\ manifest' = manifest /\ files' = files /\ litter' = litter
      /\ confirmed' = confirmed /\ submitted' = Log!Plus(submitted, group)
      /\ sink' = [sink EXCEPT ![w] = r]
  BY DEF Asks, At, disk
<1>3. group \in Seq(Events) /\ group \in Histories
  BY ChainAssumption, EmptySeq DEF Histories
<1>4. r = [pc |-> "acquiring", stage |-> "loading", view |-> <<>>, todo |-> group, asked |-> group]
  <2> DEFINE a == NoWrite
             none == <<>>
  <2>1. a = [pc |-> "idle", stage |-> "loading", view |-> none, todo |-> none, asked |-> none]
    BY DEF NoWrite
  <2>2. r = [a EXCEPT !.pc = "acquiring", !.todo = group, !.asked = group]
    OBVIOUS
  <2> HIDE DEF a, r, none
  <2>3. r = [pc |-> "acquiring", stage |-> "loading", view |-> none, todo |-> group, asked |-> group]
    BY <2>1, <2>2
  <2> QED BY <2>3 DEF none
<1> HIDE DEF r
<1>5. r \in Sinks
  BY <1>3, <1>4, EmptySeq DEF Sinks
<1>6. r.pc = "acquiring" /\ r.todo = group /\ r.asked = group
  BY <1>4
<1>7. Directory(manifest, files, full) /\ Counted(full)
  BY DEF Witnessed
<1>8. Aware(r, manifest, files, full)
  BY <1>6 DEF Aware
<1>9. Faithful(r, manifest, full, confirmed)
  <2>1. Len(group) \in Nat
    BY <1>3, LenProperties
  <2> QED BY <1>6, <2>1 DEF Faithful
<1>10. Owed(r) = group /\ Owed(sink[w]) = <<>>
  BY <1>2, <1>6 DEF Owed
<1>11. ASSUME NEW e \in Events
       PROVE  /\ Log!Occurrences(group, e) \in Nat /\ Log!Occurrences(<<>>, e) = 0
              /\ Log!Occurrences(After(full), e) \in Nat
              /\ confirmed[e] <= Log!Occurrences(After(HeadOf(ViewOf(manifest))), e)
              /\ submitted[e] \in Nat /\ submitted'[e] = submitted[e] + Log!Occurrences(group, e)
  <2>1. Log!Occurrences(group, e) \in Nat /\ Log!Occurrences(<<>>, e) = 0
    BY <1>3, OccurrencesCounted, NoOccurrence
  <2>2. Log!Occurrences(After(full), e) \in Nat
    BY <1>7, PublishedIsPart
  <2>3. confirmed[e] <= Log!Occurrences(After(HeadOf(ViewOf(manifest))), e)
    BY <1>7 DEF Counted
  <2>4. submitted'[e] = submitted[e] + Log!Occurrences(group, e)
    BY <1>2 DEF Log!Plus
  <2> QED BY <1>1, <2>1, <2>2, <2>3, <2>4
<1>12. Accounted(sink[w], r, full, full, submitted, submitted')
  BY <1>10, <1>11 DEF Accounted
<1>13. Covered(manifest, confirmed)
  BY <1>11 DEF Covered
<1>14. submitted' \in [Events -> Nat]
  <2>1. submitted' = [e \in Events |-> submitted[e] + Log!Occurrences(group, e)]
    BY <1>2 DEF Log!Plus
  <2>2. \A e \in Events : submitted[e] + Log!Occurrences(group, e) \in Nat
    BY <1>11
  <2> QED BY <2>1, <2>2
<1>15. r.pc \in Outside /\ lock' # w
  BY <1>1, <1>2, <1>6 DEF Locked, Outside
<1> QED BY <1>1, <1>2, <1>5, <1>7, <1>8, <1>9, <1>12, <1>13, <1>14, <1>15, StepKeeps

(* Releasing the lock, which confirms the write, keeps the invariant.      *)
LEMMA ReleasesKeeps ==
  ASSUME IInv, NEW w \in Writers, Releases(w)
  PROVE  IInv'
PROOF
<1> PICK full \in Histories : Witnessed(full)
  BY DEF IInv
<1>1. /\ TypeOK /\ Locked /\ sink[w] \in Sinks /\ litter \in BOOLEAN
      /\ manifest \in Seq(Segments) \cup {None}
      /\ submitted \in [Events -> Nat] /\ confirmed \in [Events -> Nat]
  BY DEF IInv, TypeOK
<1>2. /\ sink[w].pc \in {"releasing", "rejecting"} /\ lock' = None
      /\ manifest' = manifest /\ files' = files /\ litter' = litter
      /\ submitted' = submitted
      /\ sink' = [sink EXCEPT ![w] = NoWrite]
      /\ sink[w].pc = "releasing" => confirmed' = Log!Plus(confirmed, sink[w].asked)
      /\ sink[w].pc = "rejecting" => confirmed' = confirmed
  BY DEF Releases, At, disk
<1>3. lock = w
  BY <1>1, <1>2 DEF Locked, Outside
<1>4. sink[w].asked \in Histories
  BY <1>1, OwedIsHistory
<1>5. /\ Directory(manifest, files, full) /\ Faithful(sink[w], manifest, full, confirmed)
      /\ Counted(full)
  BY DEF Witnessed
<1>6. Owed(sink[w]) = <<>>
  BY <1>2 DEF Owed
<1>7. ASSUME NEW e \in Events
      PROVE  /\ Log!Occurrences(sink[w].asked, e) \in Nat /\ Log!Occurrences(<<>>, e) = 0
             /\ Log!Occurrences(After(full), e) \in Nat
             /\ Log!Occurrences(After(HeadOf(ViewOf(manifest))), e) \in Nat
             /\ confirmed[e] <= Log!Occurrences(After(HeadOf(ViewOf(manifest))), e)
             /\ confirmed[e] \in Nat /\ submitted[e] \in Nat
             /\ sink[w].pc = "releasing" =>
                  confirmed[e] + Log!Occurrences(sink[w].asked, e) <=
                    Log!Occurrences(After(HeadOf(ViewOf(manifest))), e)
  <2>1. Log!Occurrences(sink[w].asked, e) \in Nat /\ Log!Occurrences(<<>>, e) = 0
    BY <1>4, OccurrencesCounted, NoOccurrence
  <2>2. /\ Log!Occurrences(After(HeadOf(ViewOf(manifest))), e) \in Nat
        /\ Log!Occurrences(After(full), e) \in Nat
    BY <1>5, PublishedIsPart
  <2>3. confirmed[e] <= Log!Occurrences(After(HeadOf(ViewOf(manifest))), e)
    BY <1>5 DEF Counted
  <2>4. confirmed[e] \in Nat /\ submitted[e] \in Nat
    BY <1>1
  <2>5. ASSUME sink[w].pc = "releasing"
        PROVE  confirmed[e] + Log!Occurrences(sink[w].asked, e) <=
                 Log!Occurrences(After(HeadOf(ViewOf(manifest))), e)
    <3>1. confirmed[e] + Log!Occurrences(sink[w].asked, e) <=
            Log!Occurrences(Appended(sink[w], manifest, full), e) + Log!Occurrences(Owed(sink[w]), e)
      BY <1>5, <2>5 DEF Faithful
    <3>2. Appended(sink[w], manifest, full) = After(HeadOf(ViewOf(manifest)))
      BY <2>5 DEF Appended
    <3> QED BY <1>6, <2>1, <2>2, <3>1, <3>2
  <2> QED BY <2>1, <2>2, <2>3, <2>4, <2>5
<1>8. confirmed' \in [Events -> Nat] /\ Covered(manifest, confirmed')
  <2>1. CASE sink[w].pc = "releasing"
    <3>1. confirmed' = [e \in Events |-> confirmed[e] + Log!Occurrences(sink[w].asked, e)]
      BY <1>2, <2>1 DEF Log!Plus
    <3>2. \A e \in Events : /\ confirmed[e] + Log!Occurrences(sink[w].asked, e) \in Nat
                            /\ confirmed[e] + Log!Occurrences(sink[w].asked, e) <=
                                 Log!Occurrences(After(HeadOf(ViewOf(manifest))), e)
      BY <1>7, <2>1
    <3> QED BY <3>1, <3>2 DEF Covered
  <2>2. CASE sink[w].pc = "rejecting"
    BY <1>1, <1>2, <1>7, <2>2 DEF Covered
  <2> QED BY <1>2, <2>1, <2>2
<1>9. Accounted(sink[w], NoWrite, full, full, submitted, submitted)
  <2>1. Owed(NoWrite) = <<>>
    BY NoWriteIs
  <2> QED BY <1>6, <1>7, <2>1 DEF Accounted
<1>10. /\ NoWrite \in Sinks /\ NoWrite.pc \in Outside
       /\ Aware(NoWrite, manifest, files, full) /\ Faithful(NoWrite, manifest, full, confirmed')
  BY NoWriteIs
<1>11. \A v \in Writers : v # w => (lock' = v <=> lock = v)
  BY <1>2, <1>3, ChainAssumption
<1>12. lock' # w
  BY <1>2, ChainAssumption
<1> QED BY <1>1, <1>2, <1>3, <1>5, <1>8, <1>9, <1>10, <1>11, <1>12, StepKeeps

(* What a process is about to publish describes everything on disk.        *)
LEMMA PublicationSound ==
  ASSUME IInv, NEW full \in Histories, Witnessed(full), NEW w \in Writers,
         sink[w].pc = "publishing", NEW q, q = sink[w].view
  PROVE  /\ q \in Seq(Segments) /\ q # None /\ ViewOf(q) = q
         /\ Chain(q, files, full) /\ HeadOf(q) = full
         /\ sink[w].stage # "loading" => ~Orphaned(q, files) /\ Behind(q, files) = <<>>
         /\ sink[w].stage = "loading" => manifest = None /\ q = <<>> /\ full = Initial
PROOF
<1>1. sink[w] \in Sinks
  BY DEF IInv, TypeOK
<1>2. q \in Seq(Segments)
  BY <1>1, OwedIsHistory
<1>3. q # None /\ ViewOf(q) = q
  BY <1>2, ChainAssumption DEF ViewOf
<1>4. Aware(sink[w], manifest, files, full) /\ Directory(manifest, files, full)
  BY DEF Witnessed
<1>5. CASE sink[w].stage = "loading"
  <2>1. manifest = None /\ q = <<>>
    BY <1>4, <1>5 DEF Aware
  <2>2. files = <<>> /\ Chain(<<>>, files, full)
    BY <1>4, <2>1 DEF Directory, ViewOf
  <2>3. ~Orphaned(<<>>, files) /\ Behind(<<>>, files) = <<>>
    <3>1. DOMAIN <<>> = {}
      <4>1. <<>> \in Seq({}) /\ Len(<<>>) = 0
        BY EmptySeq
      <4>2. DOMAIN <<>> = 1 .. 0
        BY <4>1, LenProperties
      <4> QED BY <4>2
    <3> QED BY <2>2, <3>1 DEF Orphaned, Behind
  <2>4. HeadOf(<<>>) = full
    BY <2>2, <2>3, SettledChain
  <2>5. HeadOf(<<>>) = Initial
    BY NothingStored
  <2> QED BY <1>2, <1>3, <1>5, <2>1, <2>2, <2>4, <2>5
<1>6. CASE sink[w].stage # "loading"
  <2>1. q = SuccessorOf(ViewOf(manifest), files) /\ Pending(ViewOf(manifest), files, full)
    BY <1>4, <1>6 DEF Aware
  <2>2. Chain(ViewOf(manifest), files, full)
    BY <1>4 DEF Directory
  <2>3. /\ Chain(q, files, full) /\ HeadOf(q) = full
        /\ ~Orphaned(q, files) /\ Behind(q, files) = <<>>
    BY <2>1, <2>2, Sealed
  <2> QED BY <1>2, <1>3, <1>6, <2>3
<1> QED BY <1>5, <1>6

(* Replacing the manifest keeps the invariant.                             *)
LEMMA PublishesKeeps ==
  ASSUME IInv, NEW w \in Writers, Publishes(w)
  PROVE  IInv'
PROOF
<1> DEFINE q == sink[w].view
           pc == IF sink[w].stage = "loading" THEN "suffix" ELSE "pruning"
           r == MovedTo(w, pc, sink[w].stage, q)
<1> PICK full \in Histories : Witnessed(full)
  BY DEF IInv
<1>1. /\ TypeOK /\ Locked /\ sink[w] \in Sinks /\ litter \in BOOLEAN
      /\ lock \in Writers \cup {None, Abandoned}
      /\ submitted \in [Events -> Nat] /\ confirmed \in [Events -> Nat]
  BY DEF IInv, TypeOK
<1>2. /\ sink[w].pc = "publishing" /\ manifest' = q /\ lock' = lock
      /\ files' = files /\ litter' = litter
      /\ submitted' = submitted /\ confirmed' = confirmed /\ Goes(w, pc)
  BY DEF Publishes, At
<1>3. lock = w
  BY <1>1, <1>2 DEF Locked, Outside
<1>4. /\ q \in Seq(Segments) /\ q # None /\ ViewOf(q) = q
      /\ Chain(q, files, full) /\ HeadOf(q) = full
      /\ sink[w].stage # "loading" => ~Orphaned(q, files) /\ Behind(q, files) = <<>>
      /\ sink[w].stage = "loading" => manifest = None /\ q = <<>> /\ full = Initial
  BY <1>2, PublicationSound
<1>5. /\ sink[w].stage \in {"loading", "suffix", "orphan", "writing"}
      /\ sink[w].asked \in Histories /\ sink[w].todo \in Histories
  BY <1>1, OwedIsHistory
<1>6. /\ sink[w].stage = "loading" => pc = "suffix"
      /\ sink[w].stage # "loading" => pc = "pruning"
  OBVIOUS
<1>7. sink' = [sink EXCEPT ![w] = r]
  BY <1>1, <1>2, GoesMoves
<1> HIDE DEF pc
<1>8. /\ r \in Sinks /\ r.pc = pc /\ r.view = q /\ r.stage = sink[w].stage
      /\ r.todo = sink[w].todo /\ r.asked = sink[w].asked
  <2>1. pc \in {"suffix", "pruning"}
    BY <1>6
  <2> QED BY <1>1, <1>4, <1>5, <2>1, MovedToIsSink
<1> HIDE DEF r, q
<1>9. r.pc \in {"suffix", "pruning"} /\ r.pc \notin Outside
  BY <1>6, <1>8 DEF Outside
<1>10. Directory(q, files, full)
  BY <1>4 DEF Directory
<1>11. Aware(r, q, files, full)
  <2>1. CASE sink[w].stage = "loading"
    <3>1. r.pc = "suffix"
      BY <1>6, <1>8, <2>1
    <3> QED BY <1>4, <1>8, <3>1 DEF Aware, Knows
  <2>2. CASE sink[w].stage # "loading"
    <3>1. r.pc = "pruning"
      BY <1>6, <1>8, <2>2
    <3> QED BY <1>4, <1>8, <2>2, <3>1 DEF Aware, Knows
  <2> QED BY <2>1, <2>2
<1>12. Faithful(sink[w], manifest, full, confirmed) /\ Directory(manifest, files, full) /\ Counted(full)
  BY DEF Witnessed
<1>13. Owed(r) = sink[w].todo /\ Owed(sink[w]) = sink[w].todo
  BY <1>2, <1>8, <1>9 DEF Owed
<1>14. Faithful(r, q, full, confirmed)
  <2>1. Appended(r, q, full) = After(full) /\ Appended(sink[w], manifest, full) = After(full)
    BY <1>2, <1>4, <1>9 DEF Appended
  <2> QED BY <1>2, <1>8, <1>9, <1>12, <1>13, <2>1 DEF Faithful
<1>15. ASSUME NEW e \in Events
       PROVE  /\ Log!Occurrences(sink[w].todo, e) \in Nat
              /\ Log!Occurrences(After(full), e) \in Nat
              /\ confirmed[e] <= Log!Occurrences(After(full), e)
              /\ submitted[e] \in Nat
  <2>1. Log!Occurrences(sink[w].todo, e) \in Nat
    BY <1>5, OccurrencesCounted
  <2>2. /\ Log!Occurrences(After(HeadOf(ViewOf(manifest))), e) <= Log!Occurrences(After(full), e)
        /\ Log!Occurrences(After(HeadOf(ViewOf(manifest))), e) \in Nat
        /\ Log!Occurrences(After(full), e) \in Nat
    BY <1>12, PublishedIsPart
  <2>3. confirmed[e] <= Log!Occurrences(After(HeadOf(ViewOf(manifest))), e)
    BY <1>12 DEF Counted
  <2>4. confirmed[e] \in Nat /\ submitted[e] \in Nat
    BY <1>1
  <2> QED BY <2>1, <2>2, <2>3, <2>4
<1>16. Accounted(sink[w], r, full, full, submitted, submitted)
  BY <1>13, <1>15 DEF Accounted
<1>17. Covered(q, confirmed)
  BY <1>4, <1>15 DEF Covered
<1>18. manifest' \in Seq(Segments) \cup {None}
  BY <1>2, <1>4
<1>19. /\ Directory(manifest', files', full) /\ Aware(r, manifest', files', full)
       /\ Faithful(r, manifest', full, confirmed') /\ Covered(manifest', confirmed')
       /\ Accounted(sink[w], r, full, full, submitted, submitted')
  BY <1>2, <1>10, <1>11, <1>14, <1>16, <1>17
<1>20. /\ lock' \in Writers \cup {None, Abandoned} /\ lock' = w
       /\ \A v \in Writers : v # w => (lock' = v <=> lock = v)
       /\ litter' \in BOOLEAN /\ submitted' \in [Events -> Nat] /\ confirmed' \in [Events -> Nat]
  BY <1>1, <1>2, <1>3
<1> QED BY <1>1, <1>3, <1>7, <1>8, <1>9, <1>18, <1>19, <1>20, StepKeeps

(* A pruned segment is deleted.                                            *)
LEMMA DeletesKeeps ==
  ASSUME IInv, NEW w \in Writers, sink[w].pc = "pruning", NEW f \in Prunable(sink[w].view),
         files' = [g \in DOMAIN files \ {f} |-> files[g]],
         UNCHANGED <<manifest, litter, lock, sink, submitted, confirmed>>
  PROVE  IInv'
PROOF
<1> DEFINE p == ViewOf(manifest)
           r == sink[w]
           gs == files'
<1> PICK full \in Histories : Witnessed(full)
  BY DEF IInv
<1>1. /\ TypeOK /\ Locked /\ r \in Sinks /\ litter \in BOOLEAN
      /\ manifest \in Seq(Segments) \cup {None}
      /\ lock \in Writers \cup {None, Abandoned} /\ sink \in [Writers -> Sinks]
      /\ submitted \in [Events -> Nat] /\ confirmed \in [Events -> Nat]
  BY DEF IInv, TypeOK
<1>2. sink' = [sink EXCEPT ![w] = r]
  BY <1>1
<1>3. lock = w
  BY <1>1 DEF Locked, Outside
<1>4. /\ Directory(manifest, files, full) /\ Faithful(r, manifest, full, confirmed)
      /\ Counted(full) /\ Aware(r, manifest, files, full)
  BY DEF Witnessed
<1>5. Knows(r, manifest) /\ r.view = p /\ manifest # None
  BY <1>4 DEF Aware, Knows, ViewOf
<1>6. Chain(p, files, full)
  BY <1>4 DEF Directory
<1>7. f \in Doomed(p, files)
  <2>1. f \in Prunable(p)
    BY <1>5
  <2> HIDE DEF p
  <2> QED BY <1>6, <2>1, PrunableIs
<1>8. gs = [g \in DOMAIN files \ {f} |-> files[g]]
  OBVIOUS
<1> HIDE DEF p, gs
<1>9. /\ Chain(p, gs, full) /\ Behind(p, gs) = <<>> /\ ~Orphaned(p, gs)
  BY <1>6, <1>7, <1>8, Deleted
<1>10. Directory(manifest, gs, full)
  BY <1>5, <1>9 DEF Directory, p
<1>11. Aware(r, manifest, gs, full)
  BY <1>5, <1>9 DEF Aware, p
<1>12. ASSUME NEW e \in Events
       PROVE  /\ Log!Occurrences(Owed(r), e) \in Nat
              /\ Log!Occurrences(After(full), e) \in Nat
              /\ submitted[e] \in Nat
  <2>1. Log!Occurrences(After(full), e) \in Nat
    BY <1>4, PublishedIsPart
  <2>2. Owed(r) \in Histories
    BY <1>1, OwedIsHistory
  <2>3. Log!Occurrences(Owed(r), e) \in Nat
    BY <2>2, OccurrencesCounted
  <2> QED BY <1>1, <2>1, <2>3
<1>13. Accounted(sink[w], r, full, full, submitted, submitted)
  BY <1>12 DEF Accounted
<1>14. Covered(manifest, confirmed)
  BY <1>4 DEF Counted, Covered
<1>15. r.pc \notin Outside
  BY DEF Outside
<1> QED BY <1>1, <1>2, <1>3, <1>4, <1>10, <1>11, <1>13, <1>14, <1>15, StepKeeps DEF gs

(* Pruning keeps the invariant.                                            *)
LEMMA PrunesKeeps ==
  ASSUME IInv, NEW w \in Writers, Prunes(w)
  PROVE  IInv'
PROOF
<1>1. CASE \E f \in Prunable(sink[w].view) : files' = [g \in DOMAIN files \ {f} |-> files[g]]
                                              /\ UNCHANGED sink
  BY <1>1, DeletesKeeps DEF Prunes, At
<1>2. CASE /\ Prunable(sink[w].view) = {}
           /\ Goes(w, IF sink[w].stage = "suffix" THEN "orphan" ELSE "writing")
           /\ UNCHANGED files
  BY <1>2, PrunedKeeps DEF Prunes, At, disk
<1> QED BY <1>1, <1>2 DEF Prunes

(***************************************************************************)
(* The steps that append.                                                  *)
(***************************************************************************)
(* The events and the lines that get to the disk: n whole ones, a partial. *)
Taken(p, todo, n) == SubSeq(Chunk(p, todo), 1, n)
Written(p, todo, n, tail) == SubSeq(Lines(p, todo), 1, n) \o tail
Beginning(p, fs, todo) == IF Rotates(p, todo) THEN <<>> ELSE fs[Target(p, todo)]

(* Lines go to a new file, or behind the tip.                              *)
LEMMA GrownByRotation ==
  ASSUME NEW p, NEW fs, NEW full, Chain(p, fs, full), Settled(p, fs),
         NEW more \in Histories, NEW lines, LinesOf(lines, full, more), NEW todo,
         NEW gs, gs = With(fs, Target(p, todo), Beginning(p, fs, todo) \o lines)
  PROVE  /\ Chain(p, gs, full \o more) /\ Loose(p, gs) = lines
         /\ Orphaned(p, gs) <=> Rotates(p, todo)
         /\ gs[Target(p, todo)] = Beginning(p, fs, todo) \o lines
PROOF
<1> DEFINE g == Target(p, todo)
           before == Beginning(p, fs, todo)
<1>1. Aimed(p, fs, g, before)
  BY DEF Aimed, Target, Rotates, Beginning
<1>2. g = NameAfter(HeadOf(p)) <=> Rotates(p, todo)
  <2>1. Rotates(p, todo) => g = NameAfter(HeadOf(p))
    BY DEF Target
  <2>2. ASSUME ~Rotates(p, todo) PROVE g # NameAfter(HeadOf(p))
    <3>1. p # <<>> /\ g = FileOf(Last(p))
      BY <2>2 DEF Rotates, Target
    <3>2. FileOf(Last(p)) \in 1 .. Len(HeadOf(p)) /\ Len(HeadOf(p)) \in Nat
      BY <3>1, LastFileOf, ChainNumbers
    <3> QED BY <3>1, <3>2 DEF NameAfter
  <2> QED BY <2>1, <2>2
<1>3. gs = With(fs, g, before \o lines)
  OBVIOUS
<1> HIDE DEF g, before
<1>4. Chain(p, gs, full \o more)
  BY <1>1, <1>3, Grown
<1>5. Loose(p, gs) = lines
  BY <1>1, <1>3, Grown
<1>6. Orphaned(p, gs) <=> g = NameAfter(HeadOf(p))
  BY <1>1, <1>3, Grown
<1>7. gs[g] = before \o lines
  BY <1>1, <1>3, Grown
<1> QED BY <1>2, <1>4, <1>5, <1>6, <1>7 DEF g, before

(* What a process that may append knows.                                   *)
LEMMA MayAppendKnows ==
  ASSUME IInv, NEW full \in Histories, Witnessed(full), NEW w \in Writers, MayAppend(w)
  PROVE  LET p == sink[w].view
             todo == sink[w].todo
         IN  /\ p = ViewOf(manifest) /\ p = manifest /\ manifest # None /\ HeadOf(p) = full
             /\ Chain(p, files, full) /\ Settled(p, files)
             /\ todo \in Histories /\ todo # <<>> /\ Len(todo) <= MaxChainBatchRecords
             /\ Buildable(p, todo)
             /\ Chunk(p, todo) \in Histories
             /\ Len(Chunk(p, todo)) \in 1 .. Len(todo) /\ Len(todo) \in Nat
             /\ Chunk(p, todo) = SubSeq(todo, 1, Len(Chunk(p, todo)))
PROOF
<1> DEFINE p == sink[w].view
           todo == sink[w].todo
<1>1. sink[w] \in Sinks
  BY DEF IInv, TypeOK
<1>2. todo \in Histories /\ sink[w].asked \in Histories
  BY <1>1, OwedIsHistory
<1>3. /\ sink[w].pc = "writing" /\ todo # <<>>
      /\ Buildable(p, todo)
  BY DEF MayAppend, At
<1>4. /\ Directory(manifest, files, full) /\ Faithful(sink[w], manifest, full, confirmed)
      /\ Aware(sink[w], manifest, files, full)
  BY DEF Witnessed
<1>5. p = ViewOf(manifest) /\ p = manifest /\ manifest # None /\ Settled(p, files)
  BY <1>3, <1>4 DEF Aware, Knows, ViewOf
<1>6. Chain(p, files, full)
  BY <1>4, <1>5 DEF Directory
<1>7. HeadOf(p) = full
  <2> HIDE DEF p
  <2> QED BY <1>5, <1>6, SettledChain DEF Settled
<1>8. Len(todo) <= MaxChainBatchRecords /\ Len(todo) \in Nat
  <2>1. Len(todo) <= Len(sink[w].asked) /\ sink[w].asked \in Groups \cup {<<>>}
    BY <1>3, <1>4 DEF Faithful
  <2>2. Len(sink[w].asked) <= MaxChainBatchRecords
    <3>1. CASE sink[w].asked \in Groups
      BY <3>1, ChainAssumption
    <3>2. CASE sink[w].asked = <<>>
      BY <3>2, ChainAssumption, EmptySeq
    <3> QED BY <2>1, <3>1, <3>2
  <2>3. Len(todo) \in Nat /\ Len(sink[w].asked) \in Nat /\ MaxChainBatchRecords \in Nat
    BY <1>2, ChainAssumption, LenProperties DEF Histories
  <2> QED BY <2>1, <2>2, <2>3
<1> HIDE DEF p, todo
<1>9. /\ Chunk(p, todo) \in Histories /\ Len(Chunk(p, todo)) \in 1 .. Len(todo)
      /\ Chunk(p, todo) = SubSeq(todo, 1, Len(Chunk(p, todo)))
  BY <1>2, <1>3, ChunkOf
<1> QED BY <1>2, <1>3, <1>5, <1>6, <1>7, <1>8, <1>9 DEF p, todo

(* Appending the first n lines of a chunk, and maybe a partial one.        *)
LEMMA AppendedChain ==
  ASSUME IInv, NEW full \in Histories, Witnessed(full), NEW w \in Writers, MayAppend(w),
         NEW n \in 0 .. Len(Chunk(sink[w].view, sink[w].todo)), NEW tail \in {<<>>, <<Torn>>}
  PROVE  LET p == sink[w].view
             todo == sink[w].todo
             more == Taken(p, todo, n)
             lines == Written(p, todo, n, tail)
             gs == Extended(p, todo, lines)
         IN  /\ Lines(p, todo) \in Seq(Line) /\ Len(Lines(p, todo)) = Len(Chunk(p, todo))
             /\ more \in Histories /\ full \o more \in Histories /\ Len(more) = n
             /\ Chain(p, gs, full \o more) /\ Loose(p, gs) = lines
             /\ Orphaned(p, gs) <=> Rotates(p, todo)
             /\ gs[Target(p, todo)] = Beginning(p, files, todo) \o lines
PROOF
<1> DEFINE p == sink[w].view
           todo == sink[w].todo
           more == Taken(p, todo, n)
           lines == Written(p, todo, n, tail)
           gs == Extended(p, todo, lines)
<1>1. /\ HeadOf(p) = full /\ Chain(p, files, full) /\ Settled(p, files)
      /\ todo \in Histories /\ todo # <<>> /\ Len(todo) <= MaxChainBatchRecords
      /\ Buildable(p, todo)
  BY MayAppendKnows
<1>2. n \in 0 .. Len(Chunk(p, todo))
  OBVIOUS
<1>3. gs = With(files, Target(p, todo), Beginning(p, files, todo) \o lines)
  BY DEF Extended, With, Beginning
<1> HIDE DEF p, todo, gs
<1>4. /\ more \in Histories /\ Len(more) = n
      /\ Len(Lines(p, todo)) = Len(Chunk(p, todo)) /\ Lines(p, todo) \in Seq(Line)
      /\ LinesOf(lines, full, more)
  <2>1. SubSeq(Chunk(p, todo), 1, n) \in Histories /\ Len(SubSeq(Chunk(p, todo), 1, n)) = n
    BY <1>1, <1>2, ChunkLines
  <2>2. Len(Lines(p, todo)) = Len(Chunk(p, todo)) /\ Lines(p, todo) \in Seq(Line)
    BY <1>1, <1>2, ChunkLines
  <2>3. LinesOf(SubSeq(Lines(p, todo), 1, n) \o tail, full, SubSeq(Chunk(p, todo), 1, n))
    BY <1>1, <1>2, ChunkLines
  <2> QED BY <2>1, <2>2, <2>3 DEF Taken, Written
<1> HIDE DEF more, lines
<1> DEFINE fs == files
<1> HIDE DEF fs
<1>5. Chain(p, fs, full) /\ Settled(p, fs) /\ gs = With(fs, Target(p, todo), Beginning(p, fs, todo) \o lines)
  BY <1>1, <1>3 DEF fs
<1>6. Chain(p, gs, full \o more)
  BY <1>4, <1>5, GrownByRotation
<1>7. Loose(p, gs) = lines
  BY <1>4, <1>5, GrownByRotation
<1>8. Orphaned(p, gs) <=> Rotates(p, todo)
  BY <1>4, <1>5, GrownByRotation
<1>9. gs[Target(p, todo)] = Beginning(p, fs, todo) \o lines
  BY <1>4, <1>5, GrownByRotation
<1>10. full \o more \in Histories
  BY <1>6 DEF Chain
<1> QED BY <1>4, <1>6, <1>7, <1>8, <1>9, <1>10 DEF p, todo, more, lines, gs, fs

(* An append that stops halfway keeps the invariant.                       *)
LEMMA AppendBreaksKeeps ==
  ASSUME IInv, NEW w \in Writers, AppendBreaks(w)
  PROVE  IInv'
PROOF
<1> DEFINE p == sink[w].view
           todo == sink[w].todo
           r == MovedTo(w, "rejecting", sink[w].stage, sink[w].view)
           c == Len(Chunk(p, todo))
           chunk == Chunk(p, todo)
<1> PICK full \in Histories : Witnessed(full)
  BY DEF IInv
<1>1. /\ TypeOK /\ Locked /\ sink[w] \in Sinks /\ litter \in BOOLEAN
      /\ manifest \in Seq(Segments) \cup {None}
      /\ lock \in Writers \cup {None, Abandoned}
      /\ submitted \in [Events -> Nat] /\ confirmed \in [Events -> Nat]
  BY DEF IInv, TypeOK
<1>2. /\ MayAppend(w) /\ sink[w].pc = "writing"
      /\ manifest' = manifest /\ litter' = litter /\ lock' = lock
      /\ submitted' = submitted /\ confirmed' = confirmed /\ Goes(w, "rejecting")
  BY DEF AppendBreaks, MayAppend, At, Rejects
<1>3. /\ p = ViewOf(manifest) /\ manifest # None /\ HeadOf(p) = full
      /\ todo \in Histories /\ chunk \in Histories /\ c \in 1 .. Len(todo)
      /\ chunk = SubSeq(todo, 1, c) /\ c \in Nat /\ Len(todo) \in Nat
  <2>1. /\ p = ViewOf(manifest) /\ manifest # None /\ HeadOf(p) = full
        /\ todo \in Histories /\ chunk \in Histories /\ c \in 1 .. Len(todo)
        /\ chunk = SubSeq(todo, 1, c) /\ Len(todo) \in Nat
    BY <1>2, MayAppendKnows
  <2> HIDE DEF c
  <2> QED BY <2>1
<1>4. PICK n \in 0 .. c, tail \in {<<>>, <<Torn>>} :
        files' = Extended(p, todo, Written(p, todo, n, tail))
  <2>1. Len(Lines(p, todo)) = c
    <3>1. 0 \in 0 .. c /\ <<>> \in {<<>>, <<Torn>>}
      <4> HIDE DEF c
      <4> QED BY <1>3
    <3> QED BY <1>2, <3>1, AppendedChain
  <2> QED BY <2>1 DEF AppendBreaks, Written
<1> DEFINE more == Taken(p, todo, n)
<1>5. /\ more \in Histories /\ full \o more \in Histories
      /\ Chain(p, files', full \o more)
  BY <1>2, <1>4, AppendedChain
<1>6. sink[w].stage \in {"loading", "suffix", "orphan", "writing"} /\ sink[w].view \in Seq(Segments)
  BY <1>1, OwedIsHistory
<1>7. r \in Sinks /\ r.pc = "rejecting" /\ r.asked = sink[w].asked
  BY <1>1, <1>6, MovedToIsSink
<1>8. sink' = [sink EXCEPT ![w] = r]
  BY <1>1, <1>2, GoesMoves
<1> DEFINE x == full \o more
<1>9. Directory(manifest, files, full) /\ Faithful(sink[w], manifest, full, confirmed) /\ Counted(full)
  BY DEF Witnessed
<1>10. Directory(manifest, files', x)
  BY <1>3, <1>5 DEF Directory
<1> HIDE DEF r
<1>11. Aware(r, manifest, files', x) /\ Faithful(r, manifest, x, confirmed)
  BY <1>7, <1>9 DEF Aware, Faithful
<1>12. Accounted(sink[w], r, full, x, submitted, submitted)
  <2> SUFFICES ASSUME NEW e \in Events
               PROVE  Log!Occurrences(After(x), e) + Log!Occurrences(Owed(r), e) + submitted[e]
                        <= Log!Occurrences(After(full), e) + Log!Occurrences(Owed(sink[w]), e) + submitted[e]
    BY DEF Accounted
  <2>1. Owed(r) = <<>> /\ Owed(sink[w]) = todo
    BY <1>2, <1>7 DEF Owed
  <2>2. Len(Initial) <= Len(full)
    BY <1>9, ChainNumbers DEF Directory
  <2> HIDE DEF more, chunk, c, todo
  <2>3. /\ Log!Occurrences(After(x), e) = Log!Occurrences(After(full), e) + Log!Occurrences(more, e)
        /\ Log!Occurrences(After(full), e) \in Nat /\ Log!Occurrences(more, e) \in Nat
    BY <1>5, <2>2, AfterJoined
  <2>4. /\ Log!Occurrences(SubSeq(todo, 1, c), e) \in Nat
        /\ Log!Occurrences(SubSeq(todo, c + 1, Len(todo)), e) \in Nat
        /\ Log!Occurrences(todo, e) = Log!Occurrences(SubSeq(todo, 1, c), e)
                                        + Log!Occurrences(SubSeq(todo, c + 1, Len(todo)), e)
    <3>1. c \in 0 .. Len(todo)
      BY <1>3
    <3> QED BY <1>3, <3>1, OccurrencesOfFirst
  <2>5. Log!Occurrences(more, e) <= Log!Occurrences(chunk, e)
    <3>1. n \in 0 .. Len(chunk) /\ chunk \in Histories /\ more = SubSeq(chunk, 1, n)
      BY <1>3, <1>4 DEF chunk, c, more, Taken
    <3>2. /\ Log!Occurrences(SubSeq(chunk, 1, n), e) \in Nat
          /\ Log!Occurrences(SubSeq(chunk, n + 1, Len(chunk)), e) \in Nat
          /\ Log!Occurrences(chunk, e) = Log!Occurrences(SubSeq(chunk, 1, n), e)
                                          + Log!Occurrences(SubSeq(chunk, n + 1, Len(chunk)), e)
      BY <3>1, OccurrencesOfFirst
    <3> QED BY <3>1, <3>2
  <2>6. Log!Occurrences(<<>>, e) = 0 /\ submitted[e] \in Nat
    BY <1>1, NoOccurrence
  <2>7. Log!Occurrences(chunk, e) = Log!Occurrences(SubSeq(todo, 1, c), e)
    BY <1>3
  <2> HIDE DEF x
  <2> QED BY <2>1, <2>3, <2>4, <2>5, <2>6, <2>7
<1>13. Covered(manifest, confirmed)
  BY <1>9 DEF Counted, Covered
<1>14. lock = w /\ r.pc \notin Outside
  BY <1>1, <1>2, <1>7 DEF Locked, Outside
<1>15. x \in Histories
  BY <1>5
<1> HIDE DEF x
<1> QED BY <1>1, <1>2, <1>7, <1>8, <1>10, <1>11, <1>12, <1>13, <1>14, <1>15, StepKeeps

(* The last of two sequences.                                              *)
LEMMA LastOfJoined ==
  ASSUME NEW S, NEW s \in Seq(S), NEW t \in Seq(S), t # <<>>
  PROVE  Last(s \o t) = Last(t)
PROOF
<1> DEFINE j == s \o t
<1>1. Len(s) \in Nat /\ Len(t) \in Nat /\ Len(t) # 0
  BY LenProperties, EmptySeq
<1>2. /\ j \in Seq(S) /\ Len(j) = Len(s) + Len(t)
      /\ \A i \in 1 .. Len(t) : j[Len(s) + i] = t[i]
  BY Joined
<1> HIDE DEF j
<1>3. Len(t) \in 1 .. Len(t)
  BY <1>1
<1>4. j[Len(j)] = t[Len(t)]
  BY <1>2, <1>3
<1> QED BY <1>4 DEF Last, j

(* A whole chunk.                                                          *)
LEMMA WholeChunk ==
  ASSUME NEW S, NEW s \in Seq(S), NEW n, n = Len(s)
  PROVE  SubSeq(s, 1, n) = s /\ SubSeq(s, 1, n) \o <<>> = s
PROOF
<1>1. SubSeq(s, 1, Len(s)) = s
  BY SubSeqFull
<1>2. s \o <<>> = s
  BY ConcatEmptySeq
<1> QED BY <1>1, <1>2

(* The view after a chunk is the successor of the published segments.      *)
LEMMA NextViewIsSuccessor ==
  ASSUME NEW p, NEW fs, NEW full, Chain(p, fs, full), Settled(p, fs), NEW todo,
         NEW lines \in Seq(Line), lines # <<>>, lines = Lines(p, todo),
         NEW gs, gs[Target(p, todo)] = Beginning(p, fs, todo) \o lines,
         Orphaned(p, gs) <=> Rotates(p, todo), Loose(p, gs) = lines
  PROVE  NextView(p, todo) = SuccessorOf(p, gs)
PROOF
<1>1. Bytes(lines) \in Nat
  BY MarksCounted
<1>2. CASE Rotates(p, todo)
  <2> DEFINE size == BaseSize(p, todo) + Bytes(lines)
  <2>1. size = Bytes(Loose(p, gs))
    BY <1>1, <1>2 DEF BaseSize
  <2> HIDE DEF size
  <2>2. NextView(p, todo) = WithNew(p, [start |-> HeadOf(p), head |-> Last(lines), size |-> size])
    BY <1>2 DEF NextView, size
  <2>3. SuccessorOf(p, gs) = WithNew(p, [start |-> HeadOf(p), head |-> Last(Loose(p, gs)),
                                         size |-> Bytes(Loose(p, gs))])
    BY <1>2 DEF SuccessorOf
  <2> QED BY <2>1, <2>2, <2>3
<1>3. CASE ~Rotates(p, todo)
  <2> DEFINE size == BaseSize(p, todo) + Bytes(lines)
             before == LastFile(p, fs)
             tip == Last(p)
  <2>1. p # <<>> /\ Target(p, todo) = FileOf(Last(p)) /\ BaseSize(p, todo) = Last(p).size
    BY <1>3 DEF Rotates, Target, BaseSize
  <2>2. Beginning(p, fs, todo) = before
    BY <1>3, <2>1 DEF Beginning, LastFile
  <2>3. LastFile(p, gs) = before \o lines
    BY <2>1, <2>2 DEF LastFile
  <2>4. before \in Seq(Line) /\ Last(p).size = Bytes(before)
    <3>1. Len(before) = RecordCount(Last(p))
      BY <2>1, SettledChain DEF Settled
    <3>2. /\ before \in Seq(Line)
          /\ Last(p).size = Bytes(SubSeq(before, 1, RecordCount(Last(p))))
      BY <2>1, LastFileOf
    <3>3. SubSeq(before, 1, Len(before)) = before
      BY <3>2, SubSeqFull
    <3> QED BY <3>1, <3>2, <3>3
  <2>5. Bytes(LastFile(p, gs)) = size
    <3> HIDE DEF before
    <3>1. Bytes(before \o lines) = Bytes(before) + Bytes(lines)
      BY <2>4, BytesJoined
    <3> QED BY <2>1, <2>3, <2>4, <3>1
  <2>6. Last(LastFile(p, gs)) = Last(lines)
    <3> HIDE DEF before
    <3>1. Last(before \o lines) = Last(lines)
      BY <2>4, LastOfJoined
    <3> QED BY <2>3, <3>1
  <2>7. NextView(p, todo) = WithTip(p, [tip EXCEPT !.head = Last(lines), !.size = size])
    BY <1>3 DEF NextView
  <2>8. SuccessorOf(p, gs) = WithTip(p, [tip EXCEPT !.head = Last(LastFile(p, gs)),
                                                    !.size = Bytes(LastFile(p, gs))])
    BY <1>3 DEF SuccessorOf
  <2> HIDE DEF size, before, tip
  <2> QED BY <2>5, <2>6, <2>7, <2>8
<1> QED BY <1>2, <1>3

(* The process after it has appended a chunk.                              *)
AppendedSink(w) ==
  [pc |-> "publishing", stage |-> "writing",
   view |-> NextView(sink[w].view, sink[w].todo), todo |-> Rest(sink[w].view, sink[w].todo),
   asked |-> sink[w].asked]

(* What a complete append does to the sink.                                *)
LEMMA AppendedSinkIs ==
  ASSUME TypeOK, NEW w \in Writers, Appends(w)
  PROVE  sink' = [sink EXCEPT ![w] = AppendedSink(w)]
PROOF
<1> DEFINE a == sink[w]
           view == NextView(sink[w].view, sink[w].todo)
           rest == Rest(sink[w].view, sink[w].todo)
           was == a.pc
           kind == a.stage
           viewed == a.view
           left == a.todo
           all == a.asked
           s == [a EXCEPT !.pc = "publishing", !.stage = "writing", !.view = view, !.todo = rest]
<1>1. sink \in [Writers -> Sinks] /\ a \in Sinks
  BY DEF TypeOK
<1>2. a = [pc |-> a.pc, stage |-> a.stage, view |-> a.view, todo |-> a.todo, asked |-> a.asked]
  <2> HIDE DEF a
  <2> QED BY <1>1 DEF Sinks
<1>3. a = [pc |-> was, stage |-> kind, view |-> viewed, todo |-> left, asked |-> all]
  BY <1>2
<1>4. s = [a EXCEPT !.pc = "publishing", !.stage = "writing", !.view = view, !.todo = rest]
  OBVIOUS
<1>5. sink' = [sink EXCEPT ![w] = s]
  BY DEF Appends, AfterChunk
<1> HIDE DEF s, a, was, kind, viewed, left, all, view, rest
<1>6. s = [pc |-> "publishing", stage |-> "writing", view |-> view, todo |-> rest, asked |-> all]
  BY <1>3, <1>4
<1>7. s = AppendedSink(w)
  BY <1>6 DEF AppendedSink, view, rest, all, a
<1> QED BY <1>5, <1>7

(* A complete append keeps the invariant.                                  *)
LEMMA AppendsKeeps ==
  ASSUME IInv, NEW w \in Writers, Appends(w)
  PROVE  IInv'
PROOF
<1> DEFINE p == sink[w].view
           todo == sink[w].todo
           chunk == Chunk(p, todo)
           c == Len(chunk)
           rest == Rest(p, todo)
           lines == Lines(p, todo)
           gs == files'
           r == AppendedSink(w)
<1> PICK full \in Histories : Witnessed(full)
  BY DEF IInv
<1>1. /\ TypeOK /\ Locked /\ sink[w] \in Sinks /\ litter \in BOOLEAN
      /\ manifest \in Seq(Segments) \cup {None}
      /\ lock \in Writers \cup {None, Abandoned}
      /\ submitted \in [Events -> Nat] /\ confirmed \in [Events -> Nat]
  BY DEF IInv, TypeOK
<1>2. /\ MayAppend(w) /\ sink[w].pc = "writing"
      /\ manifest' = manifest /\ litter' = litter /\ lock' = lock
      /\ submitted' = submitted /\ confirmed' = confirmed
      /\ gs = Extended(p, todo, lines)
  BY DEF Appends, MayAppend, At
<1>3. sink' = [sink EXCEPT ![w] = r]
  BY <1>1, AppendedSinkIs
<1>4. r = [pc |-> "publishing", stage |-> "writing", view |-> NextView(p, todo), todo |-> rest,
           asked |-> sink[w].asked]
  BY DEF AppendedSink
<1> HIDE DEF gs, r
<1>5. /\ p = ViewOf(manifest) /\ manifest # None /\ HeadOf(p) = full
      /\ Chain(p, files, full) /\ Settled(p, files)
      /\ todo \in Histories /\ chunk \in Histories /\ c \in 1 .. Len(todo)
      /\ chunk = SubSeq(todo, 1, c) /\ Len(todo) \in Nat
  BY <1>2, MayAppendKnows
<1>6. c \in 1 .. c /\ c \in 0 .. c /\ c \in Nat /\ c \in 0 .. Len(todo)
  <2> HIDE DEF c
  <2> QED BY <1>5
<1>7. Len(lines) = c /\ lines \in Seq(Line)
  <2>1. c \in 0 .. Len(Chunk(p, todo)) /\ <<>> \in {<<>>, <<Torn>>}
    BY <1>6
  <2> QED BY <1>2, <2>1, AppendedChain
<1>8. Taken(p, todo, c) = chunk /\ Written(p, todo, c, <<>>) = lines
  <2>1. SubSeq(chunk, 1, c) = chunk
    <3>1. chunk \in Seq(Events)
      BY <1>5 DEF Histories
    <3> HIDE DEF chunk
    <3> QED BY <3>1, WholeChunk
  <2>2. SubSeq(lines, 1, c) \o <<>> = lines
    <3> HIDE DEF lines, c
    <3> QED BY <1>7, WholeChunk
  <2> QED BY <2>1, <2>2 DEF Taken, Written
<1> DEFINE x == full \o chunk
<1>9. /\ x \in Histories /\ Chain(p, gs, x) /\ Loose(p, gs) = lines
      /\ Orphaned(p, gs) <=> Rotates(p, todo)
      /\ gs[Target(p, todo)] = Beginning(p, files, todo) \o lines
  <2> DEFINE more == Taken(p, todo, c)
             ls == Written(p, todo, c, <<>>)
             hs == Extended(p, todo, ls)
  <2>1. c \in 0 .. Len(Chunk(p, todo)) /\ <<>> \in {<<>>, <<Torn>>}
    BY <1>6
  <2>2. /\ full \o more \in Histories
        /\ Chain(p, hs, full \o more) /\ Loose(p, hs) = ls
        /\ Orphaned(p, hs) <=> Rotates(p, todo)
        /\ hs[Target(p, todo)] = Beginning(p, files, todo) \o ls
    BY <1>2, <2>1, AppendedChain
  <2>3. more = chunk /\ ls = lines /\ hs = gs
    BY <1>2, <1>8
  <2> HIDE DEF more, ls, hs, p, todo, chunk, lines
  <2> QED BY <2>2, <2>3
<1>10. Len(x) = Len(full) + c /\ Len(full) \in Nat
  <2>1. full \in Seq(Events) /\ chunk \in Seq(Events)
    BY <1>5 DEF Histories
  <2>2. Len(full \o chunk) = Len(full) + Len(chunk)
    <3> HIDE DEF chunk
    <3> QED BY <2>1, Joined
  <2> QED BY <2>1, <2>2, LenProperties
<1>11. Pending(p, gs, x)
  <2> HIDE DEF x, p, lines, c
  <2> QED BY <1>5, <1>6, <1>7, <1>9, <1>10 DEF Pending
<1>12. NextView(p, todo) = SuccessorOf(p, gs)
  <2>1. lines # <<>>
    <3> HIDE DEF lines, c
    <3> QED BY <1>6, <1>7, EmptySeq
  <2>2. lines = Lines(p, todo)
    OBVIOUS
  <2> DEFINE fs == files
  <2>3. Chain(p, fs, full) /\ Settled(p, fs) /\ gs[Target(p, todo)] = Beginning(p, fs, todo) \o lines
    BY <1>5, <1>9
  <2> HIDE DEF lines, p, todo, fs
  <2> QED BY <1>7, <1>9, <2>1, <2>2, <2>3, NextViewIsSuccessor
<1>13. SuccessorOf(p, gs) \in Seq(Segments)
  <2> DEFINE q == SuccessorOf(p, gs)
  <2>1. q = SuccessorOf(p, gs)
    OBVIOUS
  <2> HIDE DEF q, p, x
  <2>2. Chain(q, gs, x)
    BY <1>9, <1>11, <2>1, Sealed
  <2>3. q \in Seq(Segments)
    BY <2>2 DEF Chain
  <2> QED BY <2>1, <2>3
<1>14. /\ rest \in Histories /\ Len(rest) = Len(todo) - c
       /\ \A e : /\ Log!Occurrences(chunk, e) \in Nat /\ Log!Occurrences(rest, e) \in Nat
                 /\ Log!Occurrences(todo, e) = Log!Occurrences(chunk, e) + Log!Occurrences(rest, e)
  <2>1. rest = SubSeq(todo, c + 1, Len(todo))
    BY DEF Rest
  <2> HIDE DEF todo, c, chunk, rest
  <2>2. SubSeq(todo, c + 1, Len(todo)) \in Seq(Events) /\ Len(SubSeq(todo, c + 1, Len(todo))) = Len(todo) - c
    <3>1. todo \in Seq(Events)
      BY <1>5 DEF Histories
    <3> QED BY <1>6, <3>1, RestOf
  <2>3. \A e : /\ Log!Occurrences(SubSeq(todo, 1, c), e) \in Nat
               /\ Log!Occurrences(SubSeq(todo, c + 1, Len(todo)), e) \in Nat
               /\ Log!Occurrences(todo, e) = Log!Occurrences(SubSeq(todo, 1, c), e)
                                               + Log!Occurrences(SubSeq(todo, c + 1, Len(todo)), e)
    BY <1>5, <1>6, OccurrencesOfFirst
  <2> QED BY <1>5, <2>1, <2>2, <2>3 DEF Histories
<1>15. sink[w].asked \in Histories
  BY <1>1, OwedIsHistory
<1>16. r \in Sinks
  <2>1. NextView(p, todo) \in Seq(Segments)
    BY <1>12, <1>13
  <2> HIDE DEF p, todo, rest
  <2> QED BY <1>4, <1>14, <1>15, <2>1 DEF Sinks, Histories
<1>17. /\ r.pc = "publishing" /\ r.stage = "writing" /\ r.view = SuccessorOf(p, gs)
       /\ r.todo = rest /\ r.asked = sink[w].asked
  BY <1>4, <1>12
<1>18. Directory(manifest, files, full) /\ Faithful(sink[w], manifest, full, confirmed) /\ Counted(full)
  BY DEF Witnessed
<1>19. Directory(manifest, gs, x)
  BY <1>5, <1>9 DEF Directory
<1> HIDE DEF p, x
<1>20. Aware(r, manifest, gs, x)
  BY <1>5, <1>11, <1>17 DEF Aware
<1>21. Owed(r) = rest /\ Owed(sink[w]) = todo
  BY <1>2, <1>17 DEF Owed
<1>22. ASSUME NEW e \in Events
       PROVE  /\ Log!Occurrences(After(x), e) = Log!Occurrences(After(full), e) + Log!Occurrences(chunk, e)
              /\ Log!Occurrences(After(full), e) \in Nat
              /\ Log!Occurrences(chunk, e) \in Nat /\ Log!Occurrences(rest, e) \in Nat
              /\ Log!Occurrences(todo, e) = Log!Occurrences(chunk, e) + Log!Occurrences(rest, e)
              /\ submitted[e] \in Nat
  <2>1. Len(Initial) <= Len(full)
    BY <1>5, ChainNumbers
  <2> HIDE DEF chunk, todo, rest, c
  <2>2. Log!Occurrences(After(x), e) = Log!Occurrences(After(full), e) + Log!Occurrences(chunk, e)
        /\ Log!Occurrences(After(full), e) \in Nat
    BY <1>5, <2>1, AfterJoined DEF x
  <2> QED BY <1>1, <1>14, <2>2
<1>23. Faithful(r, manifest, x, confirmed)
  <2>1. /\ sink[w].asked \in Groups \cup {<<>>}
        /\ Len(todo) <= Len(sink[w].asked)
        /\ \A e \in Events : confirmed[e] + Log!Occurrences(sink[w].asked, e) <=
             Log!Occurrences(Appended(sink[w], manifest, full), e) + Log!Occurrences(Owed(sink[w]), e)
    BY <1>2, <1>18 DEF Faithful
  <2>2. Appended(sink[w], manifest, full) = After(full) /\ Appended(r, manifest, x) = After(x)
    BY <1>2, <1>5, <1>17 DEF Appended
  <2>3. Len(rest) <= Len(sink[w].asked)
    <3>1. Len(sink[w].asked) \in Nat
      BY <1>15, LenProperties DEF Histories
    <3> HIDE DEF rest, todo, c
    <3> QED BY <1>5, <1>6, <1>14, <2>1, <3>1
  <2>4. ASSUME NEW e \in Events
        PROVE  confirmed[e] + Log!Occurrences(r.asked, e) <=
                 Log!Occurrences(Appended(r, manifest, x), e) + Log!Occurrences(Owed(r), e)
    <3>1. confirmed[e] + Log!Occurrences(sink[w].asked, e) <=
             Log!Occurrences(After(full), e) + Log!Occurrences(todo, e)
      BY <1>21, <2>1, <2>2
    <3>2. confirmed[e] \in Nat /\ Log!Occurrences(sink[w].asked, e) \in Nat
      BY <1>1, <1>15, OccurrencesCounted
    <3> HIDE DEF rest, todo, c, chunk
    <3> QED BY <1>17, <1>21, <1>22, <2>2, <3>1, <3>2
  <2> HIDE DEF rest, todo
  <2> QED BY <1>17, <2>1, <2>3, <2>4 DEF Faithful
<1>24. Accounted(sink[w], r, full, x, submitted, submitted)
  <2> HIDE DEF rest, todo, c, chunk
  <2> QED BY <1>21, <1>22 DEF Accounted
<1>25. Covered(manifest, confirmed)
  BY <1>18 DEF Counted, Covered
<1>26. lock = w /\ r.pc \notin Outside
  BY <1>1, <1>2, <1>17 DEF Locked, Outside
<1>27. x \in Histories
  BY <1>9 DEF x
<1>28. /\ Directory(manifest', files', x) /\ Aware(r, manifest', files', x)
       /\ Faithful(r, manifest', x, confirmed') /\ Covered(manifest', confirmed')
       /\ Accounted(sink[w], r, full, x, submitted, submitted')
  BY <1>2, <1>19, <1>20, <1>23, <1>24, <1>25 DEF gs
<1>29. /\ lock' \in Writers \cup {None, Abandoned} /\ lock' = w
       /\ \A v \in Writers : v # w => (lock' = v <=> lock = v)
       /\ litter' \in BOOLEAN /\ submitted' \in [Events -> Nat] /\ confirmed' \in [Events -> Nat]
       /\ manifest' \in Seq(Segments) \cup {None}
  BY <1>1, <1>2, <1>26
<1> QED BY <1>1, <1>3, <1>16, <1>26, <1>27, <1>28, <1>29, StepKeeps

(***************************************************************************)
(* The inductive invariant holds in every state.                           *)
(***************************************************************************)
(* An empty directory, no writes, nothing submitted.                       *)
LEMMA InitKeeps == Init => IInv
PROOF
<1> SUFFICES ASSUME Init PROVE IInv
  OBVIOUS
<1>1. /\ manifest = None /\ files = <<>> /\ litter = FALSE /\ lock = None
      /\ sink = [w \in Writers |-> NoWrite]
      /\ submitted = [e \in Events |-> 0] /\ confirmed = [e \in Events |-> 0]
  BY DEF Init
<1>2. \A w \in Writers : sink[w] = NoWrite
  BY <1>1
<1>3. DOMAIN files = {}
  <2>1. <<>> \in Seq({}) /\ Len(<<>>) = 0
    BY EmptySeq
  <2>2. DOMAIN <<>> = 1 .. 0
    BY <2>1, LenProperties
  <2> QED BY <1>1, <2>2
<1>4. TypeOK
  <2>1. sink \in [Writers -> Sinks]
    BY <1>1, NoWriteIs
  <2>2. litter \in BOOLEAN
    BY <1>1
  <2>3. \A f \in DOMAIN files : files[f] \in Seq(Histories \cup {Torn})
    BY <1>3
  <2>4. DOMAIN files \subseteq Nat
    BY <1>3
  <2>5. submitted \in [Events -> Nat] /\ confirmed \in [Events -> Nat]
    BY <1>1
  <2>6. manifest \in Seq(Segments) \cup {None} /\ lock \in Writers \cup {None, Abandoned}
    BY <1>1
  <2> QED BY <2>1, <2>2, <2>3, <2>4, <2>5, <2>6 DEF TypeOK
<1>5. Locked
  BY <1>1, <1>2, NoWriteIs, ChainAssumption DEF Locked
<1>6. Initial \in Histories
  BY ChainAssumption
<1>7. Directory(manifest, files, Initial) /\ HeadOf(ViewOf(manifest)) = Initial
  BY <1>1, NothingStored DEF Directory, ViewOf
<1>8. \A w \in Writers : /\ Aware(sink[w], manifest, files, Initial)
                         /\ Faithful(sink[w], manifest, Initial, confirmed)
  BY <1>2, NoWriteIs
<1>9. Counted(Initial)
  <2> SUFFICES ASSUME NEW e \in Events
               PROVE  /\ Log!Occurrences(After(Initial), e) + Cardinality(Owing(sink, e)) <= submitted[e]
                      /\ confirmed[e] <= Log!Occurrences(After(HeadOf(ViewOf(manifest))), e)
    BY DEF Counted
  <2>1. After(Initial) = <<>>
    <3>1. Initial \in Seq(Events) /\ Len(Initial) \in Nat
      BY <1>6, LenProperties DEF Histories
    <3>2. Len(Initial) \in 0 .. Len(Initial)
      BY <3>1
    <3>3. /\ SubSeq(Initial, Len(Initial) + 1, Len(Initial)) \in Seq(Events)
          /\ Len(SubSeq(Initial, Len(Initial) + 1, Len(Initial))) = Len(Initial) - Len(Initial)
      BY <3>1, <3>2, RestOf
    <3>4. Len(SubSeq(Initial, Len(Initial) + 1, Len(Initial))) = 0
      BY <3>1, <3>3
    <3> QED BY <3>3, <3>4, EmptySeq DEF After
  <2>2. Log!Occurrences(<<>>, e) = 0
    BY NoOccurrence
  <2>3. Owing(sink, e) = {}
    <3>1. \A w \in Writers : Owed(sink[w]) = <<>>
      BY <1>2, NoWriteIs
    <3>2. Places(<<>>, e) = {}
      <4>1. Len(<<>>) = 0
        BY EmptySeq
      <4> QED BY <4>1 DEF Places
    <3> QED BY <3>1, <3>2 DEF Owing
  <2>4. Cardinality(Owing(sink, e)) = 0
    BY <2>3, FS_EmptySet
  <2>5. submitted[e] = 0 /\ confirmed[e] = 0
    BY <1>1
  <2> QED BY <1>7, <2>1, <2>2, <2>4, <2>5
<1> QED BY <1>4, <1>5, <1>6, <1>7, <1>8, <1>9 DEF IInv, Witnessed

(* Every step keeps it.                                                    *)
LEMMA NextKeeps == IInv /\ [Next]_vars => IInv'
PROOF
<1> SUFFICES ASSUME IInv, [Next]_vars PROVE IInv'
  OBVIOUS
<1>1. ASSUME NEW w \in Writers, Step(w) PROVE IInv'
  <2>1. CASE Acquires(w)
    BY <2>1, AcquiresKeeps
  <2>2. CASE GivesUp(w)
    BY <2>2, GivesUpKeeps
  <2>3. CASE Loads(w)
    BY <2>3, LoadsKeeps
  <2>4. CASE RecoversSuffix(w)
    BY <2>4, RecoversSuffixKeeps
  <2>5. CASE RecoversOrphan(w)
    BY <2>5, RecoversOrphanKeeps
  <2>6. CASE Publishes(w)
    BY <2>6, PublishesKeeps
  <2>7. CASE Prunes(w)
    BY <2>7, PrunesKeeps
  <2>8. CASE Appends(w)
    BY <2>8, AppendsKeeps
  <2>9. CASE CannotAppend(w)
    BY <2>9, CannotAppendKeeps
  <2>10. CASE Finishes(w)
    BY <2>10, FinishesKeeps
  <2>11. CASE Releases(w)
    BY <2>11, ReleasesKeeps
  <2> QED BY <1>1, <2>1, <2>2, <2>3, <2>4, <2>5, <2>6, <2>7, <2>8, <2>9, <2>10, <2>11 DEF Step
<1>2. ASSUME NEW w \in Writers, Breaks(w) PROVE IInv'
  <2>1. CASE AppendBreaks(w)
    BY <2>1, AppendBreaksKeeps
  <2>2. CASE ReleaseFails(w)
    BY <2>2, ReleaseFailsKeeps
  <2>3. CASE IOFails(w)
    BY <2>3, IOFailsKeeps
  <2>4. CASE Crash(w)
    BY <2>4, CrashKeeps
  <2> QED BY <1>2, <2>1, <2>2, <2>3, <2>4 DEF Breaks
<1>3. ASSUME NEW w \in Writers, NEW group \in Groups \cup {<<>>}, Asks(w, group) PROVE IInv'
  BY <1>3, AsksKeeps
<1>4. CASE OperatorUnlocks
  BY <1>4, OperatorUnlocksKeeps
<1>5. CASE UNCHANGED vars
  <2>1. /\ manifest' = manifest /\ files' = files /\ litter' = litter /\ sink' = sink
        /\ submitted' = submitted /\ confirmed' = confirmed /\ lock' = lock
    BY <1>5 DEF vars, disk
  <2> QED BY <2>1 DEF IInv, TypeOK, Locked, Witnessed, Counted
<1> QED BY <1>1, <1>2, <1>3, <1>4, <1>5 DEF Next

(* The inductive invariant.                                                *)
THEOREM ChainInvariant == Spec => []IInv
PROOF
BY InitKeeps, NextKeeps, PTL DEF Spec

(***************************************************************************)
(* What the invariant says of the directory.                               *)
(***************************************************************************)
(* Lines that are consecutive prefixes of the full history are chained.    *)
LEMMA ChainedLines ==
  ASSUME NEW full \in Histories, Small(full), NEW start \in Histories, PrefixOf(start, full),
         Len(Initial) <= Len(start), NEW lines, Len(lines) \in Nat,
         \A k \in 1 .. Len(lines) :
           Len(start) + k <= Len(full) /\ lines[k] = SubSeq(full, 1, Len(start) + k)
  PROVE  Chained(lines, start)
PROOF
<1>1. Len(start) \in Nat /\ Len(full) \in Nat /\ Len(Initial) \in Nat
  BY ChainAssumption, LenProperties DEF Histories
<1> SUFFICES ASSUME NEW k \in 1 .. Len(lines)
             PROVE  Follows(lines[k], IF k = 1 THEN start ELSE lines[k - 1])
  BY DEF Chained
<1> DEFINE previous == IF k = 1 THEN start ELSE lines[k - 1]
           n == Len(start) + k
           record == SubSeq(full, 1, n)
<1>2. n \in 1 .. Len(full) /\ lines[k] = record /\ n \in Nat
  <2>1. Len(start) + k <= Len(full) /\ lines[k] = SubSeq(full, 1, Len(start) + k)
    OBVIOUS
  <2> QED BY <1>1, <2>1
<1>3. /\ record \in Histories /\ Len(record) = n /\ record # Torn
      /\ Last(record) = full[n] /\ PrefixOf(record, full)
  <2> HIDE DEF n
  <2> QED BY <1>2, PrefixIsLine
<1>4. previous \in Histories /\ PrefixOf(previous, full) /\ Len(previous) = n - 1
  <2>1. CASE k = 1
    BY <1>1, <2>1
  <2>2. CASE k # 1
    <3> DEFINE m == Len(start) + (k - 1)
    <3>1. k - 1 \in 1 .. Len(lines)
      BY <2>2
    <3>2. m <= Len(full) /\ lines[k - 1] = SubSeq(full, 1, m)
      BY <3>1
    <3>3. m \in 1 .. Len(full) /\ m = n - 1
      BY <1>1, <3>1, <3>2
    <3> HIDE DEF m
    <3>4. /\ SubSeq(full, 1, m) \in Histories /\ Len(SubSeq(full, 1, m)) = m
          /\ PrefixOf(SubSeq(full, 1, m), full)
      BY <3>3, PrefixIsLine
    <3> QED BY <2>2, <3>2, <3>3, <3>4
  <2> QED BY <2>1, <2>2
<1> HIDE DEF previous, record
<1>5. Len(record) = Len(previous) + 1 /\ Len(previous) <= Len(record)
  BY <1>2, <1>3, <1>4
<1>6. IsPrefix(previous, record)
  BY <1>3, <1>4, <1>5, PrefixesCompared
<1>7. Size[Last(record)] <= MaxRecordBytes
  <2>1. n \in Len(Initial) + 1 .. Len(full)
    BY <1>1, <1>2
  <2> QED BY <1>3, <2>1 DEF Small
<1>8. Follows(record, previous)
  BY <1>3, <1>5, <1>6, <1>7 DEF Follows
<1> QED BY <1>2, <1>8 DEF previous

(* The records of a published segment.                                     *)
LEMMA SegmentRecords ==
  ASSUME NEW p, NEW fs, NEW full, Chain(p, fs, full), NEW i \in 1 .. Len(p)
  PROVE  LET n == RecordCount(p[i])
             t == fs[FileOf(p[i])]
         IN  /\ FileOf(p[i]) \in DOMAIN fs /\ n \in Nat \ {0} /\ Len(t) \in Nat /\ n <= Len(t)
             /\ t \in Seq(Line)
             /\ Chained(SubSeq(t, 1, n), p[i].start)
             /\ t[n] = p[i].head
             /\ p[i].size = Bytes(SubSeq(t, 1, n))
             /\ i < Len(p) => Len(t) = n /\ p[i].size = Bytes(t)
PROOF
<1> DEFINE f == FileOf(p[i])
           n == RecordCount(p[i])
           t == fs[f]
           s == p[i].start
           h == p[i].head
<1>1. /\ p \in Seq(Segments) /\ full \in Histories /\ Cut(p, full) /\ Stored(p, fs, full)
      /\ Committed(p, fs) /\ Small(full)
  BY DEF Chain
<1>2. /\ s \in Histories /\ h \in Histories /\ Len(s) \in Nat /\ Len(h) \in Nat
      /\ f = Len(s) + 1 /\ n = Len(h) - Len(s)
  BY <1>1, SegmentTyped
<1>3. /\ Len(Initial) <= Len(s) /\ Len(s) < Len(h) /\ PrefixOf(s, full) /\ PrefixOf(h, full)
  BY <1>1 DEF Cut
<1>4. /\ f \in DOMAIN fs /\ n <= Len(t) /\ (\A k \in 1 .. n : t[k] # Torn)
      /\ p[i].size = Bytes(SubSeq(t, 1, n))
      /\ i < Len(p) => Len(t) = n
  BY <1>1 DEF Committed
<1> HIDE DEF f, n, t, s, h
<1>5. t \in Seq(Line) /\ Len(t) \in Nat
  BY <1>4, ChainNumbers DEF t
<1>6. n \in Nat \ {0} /\ n \in 0 .. Len(t) /\ n \in 1 .. n
  BY <1>2, <1>3, <1>4, <1>5
<1>7. \A k \in 1 .. n : Len(s) + k <= Len(full) /\ t[k] = SubSeq(full, 1, Len(s) + k)
  <2> TAKE k \in 1 .. n
  <2>1. k \in 1 .. Len(t) /\ t[k] # Torn
    BY <1>4, <1>6
  <2>2. f - 1 + k <= Len(full) /\ t[k] = SubSeq(full, 1, f - 1 + k)
    BY <1>1, <1>4, <2>1 DEF Stored, t
  <2>3. f - 1 + k = Len(s) + k
    BY <1>2
  <2> QED BY <2>2, <2>3
<1>8. /\ Len(SubSeq(t, 1, n)) = n
      /\ \A k \in 1 .. n : SubSeq(t, 1, n)[k] = t[k]
  BY <1>5, <1>6, FirstOf
<1>9. Chained(SubSeq(t, 1, n), s)
  <2> DEFINE lines == SubSeq(t, 1, n)
  <2> HIDE DEF lines
  <2>1. Len(lines) \in Nat /\ Len(lines) = n
    BY <1>6, <1>8 DEF lines
  <2>2. \A k \in 1 .. Len(lines) :
          Len(s) + k <= Len(full) /\ lines[k] = SubSeq(full, 1, Len(s) + k)
    BY <1>7, <1>8, <2>1 DEF lines
  <2>3. Chained(lines, s)
    BY <1>1, <1>2, <1>3, <2>1, <2>2, ChainedLines
  <2> QED BY <2>3 DEF lines
<1>10. t[n] = h
  <2>1. Len(s) + n = Len(h)
    BY <1>2
  <2> QED BY <1>3, <1>6, <1>7, <2>1 DEF PrefixOf
<1>11. i < Len(p) => Len(t) = n /\ p[i].size = Bytes(t)
  <2>1. SubSeq(t, 1, Len(t)) = t
    BY <1>5, SubSeqFull
  <2> QED BY <1>4, <2>1
<1> QED BY <1>4, <1>5, <1>6, <1>9, <1>10, <1>11 DEF f, n, t, s, h

(* The published manifest is verified.                                     *)
LEMMA InvariantVerifies == IInv => ManifestVerified
PROOF
<1> SUFFICES ASSUME IInv PROVE ManifestVerified
  OBVIOUS
<1> DEFINE p == ViewOf(manifest)
<1> PICK full \in Histories : Witnessed(full)
  BY DEF IInv
<1>1. Chain(p, files, full)
  BY DEF Witnessed, Directory
<1> HIDE DEF p
<1>2. p \in Seq(Segments) /\ Cut(p, full) /\ PrefixOf(Initial, full)
  BY <1>1 DEF Chain
<1>3. WellFormed(p)
  <2> SUFFICES ASSUME NEW i \in 1 .. Len(p)
               PROVE  /\ Len(p[i].head) > Len(p[i].start)
                      /\ Len(p[i].start) >= Len(Initial)
                      /\ i > 1 => p[i].start = p[i - 1].head
                      /\ Len(p[i].start) = Len(Initial) => p[i].start = Initial
    BY DEF WellFormed
  <2>1. /\ p[i].start \in Histories /\ Initial \in Histories
        /\ Len(p[i].start) \in Nat /\ Len(p[i].head) \in Nat /\ Len(Initial) \in Nat
    BY <1>1, <1>2, SegmentTyped, ChainNumbers, ChainAssumption
  <2>2. /\ Len(Initial) <= Len(p[i].start) /\ Len(p[i].start) < Len(p[i].head)
        /\ PrefixOf(p[i].start, full)
        /\ i > 1 => p[i].start = p[i - 1].head
    BY <1>2 DEF Cut
  <2>3. Len(p[i].start) = Len(Initial) => p[i].start = Initial
    BY <1>2, <2>1, <2>2, PrefixesCompared
  <2> QED BY <2>1, <2>2, <2>3
<1>4. ASSUME NEW i \in 1 .. Len(p)
      PROVE  LET count == RecordCount(p[i])
             IN  /\ FileOf(p[i]) \in DOMAIN files
                 /\ Len(files[FileOf(p[i])]) >= count
                 /\ Chained(SubSeq(files[FileOf(p[i])], 1, count), p[i].start)
                 /\ files[FileOf(p[i])][count] = p[i].head
                 /\ p[i].size = Bytes(SubSeq(files[FileOf(p[i])], 1, count))
  <2> DEFINE n == RecordCount(p[i])
             t == files[FileOf(p[i])]
  <2>1. /\ FileOf(p[i]) \in DOMAIN files /\ n \in Nat \ {0} /\ Len(t) \in Nat /\ n <= Len(t)
        /\ Chained(SubSeq(t, 1, n), p[i].start)
        /\ t[n] = p[i].head
        /\ p[i].size = Bytes(SubSeq(t, 1, n))
    BY <1>1, SegmentRecords
  <2> HIDE DEF n, t
  <2>2. Len(t) >= n
    BY <2>1
  <2> QED BY <2>1, <2>2 DEF n, t
<1> QED BY <1>3, <1>4 DEF ManifestVerified, Published, p

(* Only one bounded chunk is ever left behind.                             *)
LEMMA InvariantBoundsRecovery == IInv => OneInterruptedChunk
PROOF
<1> SUFFICES ASSUME IInv PROVE OneInterruptedChunk
  OBVIOUS
<1> DEFINE p == ViewOf(manifest)
<1> PICK full \in Histories : Witnessed(full)
  BY DEF IInv
<1>1. Chain(p, files, full)
  BY DEF Witnessed, Directory
<1> HIDE DEF p
<1>2. p \in Seq(Segments) /\ Stored(p, files, full) /\ Committed(p, files)
  BY <1>1 DEF Chain
<1>3. Len(HeadOf(p)) \in Nat /\ Len(Initial) \in Nat
  BY <1>1, ChainNumbers
<1>4. ASSUME NEW f \in DOMAIN files, f > Len(HeadOf(p)) PROVE f = NameAfter(HeadOf(p)) /\ Orphaned(p, files)
  <2>1. f \in Len(Initial) + 1 .. Len(HeadOf(p)) + 1
    BY <1>2 DEF Stored
  <2>2. f = Len(HeadOf(p)) + 1
    BY <1>3, <1>4, <2>1
  <2> QED BY <2>2 DEF NameAfter, Orphaned
<1>5. ASSUME NEW i \in 1 .. Len(p), Len(files[FileOf(p[i])]) > RecordCount(p[i])
      PROVE  i = Len(p) /\ ~Orphaned(p, files)
  <2>1. i < Len(p) \/ Orphaned(p, files) => Len(files[FileOf(p[i])]) = RecordCount(p[i])
    BY <1>2 DEF Committed
  <2>2. RecordCount(p[i]) \in Nat
    BY <1>1, SegmentRecords
  <2>3. Len(p) \in Nat
    BY <1>2, LenProperties
  <2> QED BY <1>5, <2>1, <2>2, <2>3
<1>6. ASSUME NEW f \in DOMAIN files, f <= Len(HeadOf(p))
      PROVE  (\E i \in 1 .. Len(p) : f = FileOf(p[i])) \/ f \in Prunable(p)
  <2>1. p # <<>> /\ (f <= Len(p[1].start) \/ \E i \in 1 .. Len(p) : f = FileOf(p[i]))
    BY <1>2, <1>6 DEF Stored
  <2>2. Prunable(p) = Doomed(p, files)
    BY <1>1, PrunableIs
  <2> QED BY <2>1, <2>2 DEF Doomed
<1> QED BY <1>4, <1>5, <1>6 DEF OneInterruptedChunk, Untouched, Published, p

(* The retained segments have one file each; there is at most one more.    *)
LEMMA InvariantBoundsRetention == IInv => RetentionBounded
PROOF
<1> SUFFICES ASSUME IInv PROVE RetentionBounded
  OBVIOUS
<1> DEFINE p == ViewOf(manifest)
           retained == {FileOf(p[i]) : i \in 1 .. Len(p)}
           others == Doomed(p, files) \cup (IF Orphaned(p, files) THEN {NameAfter(HeadOf(p))} ELSE {})
<1> PICK full \in Histories : Witnessed(full)
  BY DEF IInv
<1>1. Chain(p, files, full)
  BY DEF Witnessed, Directory
<1> HIDE DEF p
<1>2. p \in Seq(Segments) /\ Pruned(p, files) /\ Cut(p, full) /\ Len(p) \in Nat /\ Len(p) <= MaxSegments
  <2>1. p \in Seq(Segments) /\ Pruned(p, files) /\ Cut(p, full)
    BY <1>1 DEF Chain
  <2> QED BY <2>1, LenProperties DEF Cut
<1>3. DOMAIN files \subseteq retained \cup others
  <2> SUFFICES ASSUME NEW f \in DOMAIN files PROVE f \in retained \cup others
    OBVIOUS
  <2>1. \/ f = Len(HeadOf(p)) + 1 /\ Orphaned(p, files)
        \/ p # <<>> /\ f \in Doomed(p, files)
        \/ p # <<>> /\ \E i \in 1 .. Len(p) : f = FileOf(p[i])
    BY <1>1, FilesOfChain
  <2> QED BY <2>1 DEF NameAfter
<1>4. IsFiniteSet(retained) /\ Cardinality(retained) <= Len(p) /\ Cardinality(retained) \in Nat
  <2> DEFINE name == [i \in 1 .. Len(p) |-> FileOf(p[i])]
  <2>1. name \in Surjection(1 .. Len(p), retained)
    BY DEF Surjection
  <2>2. IsFiniteSet(1 .. Len(p)) /\ Cardinality(1 .. Len(p)) = Len(p)
    BY <1>2, IntervalCounted
  <2> HIDE DEF name, retained
  <2>3. IsFiniteSet(retained) /\ Cardinality(retained) <= Cardinality(1 .. Len(p))
    BY <2>1, <2>2, FS_Surjection
  <2> QED BY <2>2, <2>3, FS_CardinalityType
<1>5. \A f, g \in others : f = g
  <2>1. \A f, g \in Doomed(p, files) : f = g
    BY <1>2 DEF Pruned
  <2>2. Orphaned(p, files) => Doomed(p, files) = {}
    BY <1>2 DEF Pruned
  <2> QED BY <2>1, <2>2
<1> HIDE DEF retained, others
<1>6. IsFiniteSet(others) /\ Cardinality(others) <= 1 /\ Cardinality(others) \in Nat
  <2>1. CASE others = {}
    <3>1. IsFiniteSet({}) /\ Cardinality({}) = 0
      BY FS_EmptySet
    <3> QED BY <2>1, <3>1
  <2>2. CASE others # {}
    <3>1. PICK f \in others : TRUE
      BY <2>2
    <3>2. others = {f}
      BY <1>5, <3>1
    <3>3. IsFiniteSet({f}) /\ Cardinality({f}) = 1
      BY FS_Singleton
    <3> QED BY <3>2, <3>3
  <2> QED BY <2>1, <2>2
<1>7. /\ IsFiniteSet(retained \cup others)
      /\ Cardinality(retained \cup others) <= Cardinality(retained) + Cardinality(others)
  <2>1. /\ IsFiniteSet(retained \cup others)
        /\ Cardinality(retained \cup others) =
             Cardinality(retained) + Cardinality(others) - Cardinality(retained \cap others)
    BY <1>4, <1>6, FS_Union
  <2>2. Cardinality(retained \cap others) \in Nat
    BY <1>4, FS_Intersection, FS_CardinalityType
  <2> QED BY <1>4, <1>6, <2>1, <2>2
<1>8. /\ Cardinality(DOMAIN files) <= Cardinality(retained \cup others)
      /\ Cardinality(DOMAIN files) \in Nat /\ Cardinality(retained \cup others) \in Nat
  BY <1>3, <1>7, FS_Subset, FS_CardinalityType
<1>9. Cardinality(DOMAIN files) <= MaxSegments + 1
  BY <1>2, <1>4, <1>6, <1>7, <1>8, ChainAssumption
<1> QED BY <1>9 DEF RetentionBounded

(* Whole lines beside the published chain are adopted.                     *)
LEMMA LooseAdoptable ==
  ASSUME NEW p, NEW fs, NEW full, Chain(p, fs, full), Loose(p, fs) # <<>>,
         \A k \in 1 .. Len(Loose(p, fs)) : Loose(p, fs)[k] # Torn
  PROVE  Adoptable(Loose(p, fs), HeadOf(p))
PROOF
<1> DEFINE lines == Loose(p, fs)
           head == HeadOf(p)
           n == Len(full) - Len(head)
<1>1. /\ p \in Seq(Segments) /\ full \in Histories /\ Stored(p, fs, full) /\ Small(full)
      /\ PrefixOf(head, full) /\ head \in Histories /\ Leftover(lines, n)
  BY DEF Chain
<1>2. /\ Len(head) \in Nat /\ Len(full) \in Nat /\ Len(Initial) \in Nat
      /\ Len(Initial) <= Len(head) /\ Len(head) <= Len(full)
  BY ChainNumbers
<1>3. /\ lines \in Seq(Line)
      /\ \A k \in 1 .. Len(lines) :
           Len(head) + k <= Len(full) /\ lines[k] = SubSeq(full, 1, Len(head) + k)
  <2>1. CASE Orphaned(p, fs)
    <3> DEFINE g == NameAfter(head)
    <3>1. g \in DOMAIN fs /\ lines = fs[g] /\ g - 1 = Len(head)
      BY <1>2, <2>1 DEF Orphaned, Loose, NameAfter
    <3>2. lines \in Seq(Line)
      BY <3>1, ChainNumbers
    <3> HIDE DEF g, lines
    <3>3. ASSUME NEW k \in 1 .. Len(lines)
          PROVE  Len(head) + k <= Len(full) /\ lines[k] = SubSeq(full, 1, Len(head) + k)
      <4>1. fs[g][k] # Torn
        BY <3>1 DEF lines
      <4>2. g - 1 + k <= Len(full) /\ fs[g][k] = SubSeq(full, 1, g - 1 + k)
        BY <1>1, <3>1, <4>1 DEF Stored
      <4>3. g - 1 + k = Len(head) + k
        BY <3>1
      <4> QED BY <3>1, <4>2, <4>3
    <3> QED BY <3>2, <3>3
  <2>2. CASE ~Orphaned(p, fs)
    <3> DEFINE f == FileOf(Last(p))
               t == LastFile(p, fs)
               m == RecordCount(Last(p))
    <3>1. lines = Behind(p, fs) /\ p # <<>>
      BY <2>2 DEF Loose, Behind
    <3>2. /\ f \in DOMAIN fs /\ t \in Seq(Line) /\ m \in Nat \ {0} /\ m <= Len(t)
          /\ f - 1 + m = Len(head) /\ f \in 1 .. Len(head)
          /\ Behind(p, fs) \in Seq(Line) /\ Len(Behind(p, fs)) = Len(t) - m
          /\ \A k \in 1 .. Len(t) - m : Behind(p, fs)[k] = t[m + k]
      BY <3>1, LastFileOf
    <3>3. t = fs[f] /\ Len(t) \in Nat
      BY <3>2, LenProperties DEF LastFile
    <3> HIDE DEF f, t, m, lines, head
    <3>a. Len(lines) = Len(t) - m /\ m \in Nat /\ f \in Nat
      BY <1>2, <3>1, <3>2
    <3>4. ASSUME NEW k \in 1 .. Len(lines)
          PROVE  Len(head) + k <= Len(full) /\ lines[k] = SubSeq(full, 1, Len(head) + k)
      <4>1. /\ k \in 1 .. Len(t) - m /\ m + k \in 1 .. Len(t)
            /\ f - 1 + (m + k) = Len(head) + k
        <5>1. k \in 1 .. Len(t) - m /\ k \in Nat
          BY <3>a
        <5>2. m + k \in 1 .. Len(t)
          BY <3>3, <3>a, <5>1
        <5>3. f - 1 + (m + k) = Len(head) + k
          <6>1. f - 1 + m = Len(head)
            BY <3>2
          <6>2. Len(head) \in Nat /\ m \in Nat /\ f \in Nat /\ k \in Nat
            BY <1>2, <3>a, <5>1
          <6> QED BY <6>1, <6>2
        <5> QED BY <5>1, <5>2, <5>3
      <4>2. lines[k] = t[m + k] /\ lines[k] # Torn
        BY <3>1, <3>2, <4>1 DEF lines
      <4>3. fs[f][m + k] # Torn /\ m + k \in 1 .. Len(fs[f])
        BY <3>3, <4>1, <4>2
      <4>4. f - 1 + (m + k) <= Len(full) /\ fs[f][m + k] = SubSeq(full, 1, f - 1 + (m + k))
        BY <1>1, <3>2, <4>3 DEF Stored
      <4> QED BY <3>3, <4>1, <4>2, <4>4
    <3> QED BY <3>1, <3>2, <3>4
  <2> QED BY <2>1, <2>2
<1> HIDE DEF lines, head
<1>4. Len(lines) \in Nat /\ lines # <<>>
  BY <1>3, LenProperties DEF lines
<1>5. Chained(lines, head)
  BY <1>1, <1>2, <1>3, <1>4, ChainedLines
<1>6. n \in Nat /\ n <= MaxChainBatchRecords
  BY <1>1, ChainAssumption DEF Leftover
<1>7. Len(lines) = n
  <2>1. Len(lines) \in {n, n + 1} /\ (Len(lines) = n + 1 => lines[n + 1] = Torn)
    BY <1>1 DEF Leftover
  <2>2. Len(lines) # n + 1
    <3> SUFFICES ASSUME Len(lines) = n + 1 PROVE FALSE
      OBVIOUS
    <3>1. n + 1 \in 1 .. Len(lines)
      BY <1>6
    <3>2. lines[n + 1] # Torn
      BY <3>1 DEF lines
    <3> QED BY <2>1, <3>2
  <2> QED BY <2>1, <2>2
<1>8. Len(lines) > 1 => Bytes(lines) <= MaxChainBatchBytes
  <2>1. n > 1 => Bytes(SubSeq(lines, 1, n)) <= MaxBatchBytes
    BY <1>1 DEF Leftover
  <2>2. SubSeq(lines, 1, n) = lines
    BY <1>3, <1>7, SubSeqFull
  <2>3. Bytes(lines) \in Nat
    BY <1>3, MarksCounted
  <2> HIDE DEF n
  <2>4. MaxBatchBytes \in Int /\ MaxBatchBytes <= MaxChainBatchBytes /\ MaxChainBatchBytes \in Int
    BY ChainAssumption
  <2>5. n > 1 => Bytes(lines) <= MaxBatchBytes
    BY <2>1, <2>2, Zenon
  <2>6. Bytes(lines) <= MaxBatchBytes => Bytes(lines) <= MaxChainBatchBytes
    BY <2>3, <2>4
  <2> QED BY <1>7, <2>5, <2>6
<1>9. Adoptable(lines, head)
  BY <1>4, <1>5, <1>6, <1>7, <1>8 DEF Adoptable
<1> QED BY <1>9 DEF lines, head

(* What is not partial is recovered.                                       *)
LEMMA InvariantRecovers == IInv => RecoversUnlessPartial
PROOF
<1> SUFFICES ASSUME IInv, \A f \in DOMAIN files : ~Partial(f)
             PROVE  /\ manifest = None => files = <<>>
                    /\ Intact(Published)
                    /\ Suffix(Published) # <<>> => Adoptable(Suffix(Published), HeadOf(Published))
                    /\ Untouched # {} => Adoptable(files[NameAfter(HeadOf(Published))], HeadOf(Published))
  BY DEF RecoversUnlessPartial
<1> DEFINE p == Published
<1> PICK full \in Histories : Witnessed(full)
  BY DEF IInv
<1>1. Directory(manifest, files, full) /\ Chain(p, files, full)
  BY DEF Witnessed, Directory, Published
<1> HIDE DEF p
<1>2. p \in Seq(Segments)
  BY <1>1 DEF Chain
<1>3. \A f \in DOMAIN files : \A k \in 1 .. Len(files[f]) : files[f][k] # Torn /\ files[f] # <<>>
  <2> TAKE f \in DOMAIN files
  <2> TAKE k \in 1 .. Len(files[f])
  <2>1. files[f] # <<>> /\ Torn \notin Range(files[f])
    BY DEF Partial
  <2>2. files[f] \in Seq(Line)
    BY <1>1, ChainNumbers
  <2>3. DOMAIN files[f] = 1 .. Len(files[f])
    BY <2>2, LenProperties
  <2> QED BY <2>1, <2>3 DEF Range
<1>4. Intact(p)
  <2>1. \A i \in 1 .. Len(p) : FileOf(p[i]) \in DOMAIN files
    BY <1>1, SegmentRecords
  <2>2. \A i \in 1 .. Len(p) - 1 : Bytes(files[FileOf(p[i])]) = p[i].size
    <3> TAKE i \in 1 .. Len(p) - 1
    <3>1. i \in 1 .. Len(p) /\ i < Len(p)
      BY <1>2, LenProperties
    <3> QED BY <1>1, <3>1, SegmentRecords
  <2>3. ASSUME p # <<>>
        PROVE  LET count == RecordCount(Last(p))
               IN  Len(TipFile(p)) >= count /\ TipFile(p)[count] = Last(p).head
    <3>1. Len(p) \in 1 .. Len(p) /\ Last(p) = p[Len(p)]
      BY <1>2, <2>3, HeadIs
    <3> DEFINE n == RecordCount(Last(p))
               t == files[FileOf(Last(p))]
    <3>2. n \in Nat \ {0} /\ Len(t) \in Nat /\ n <= Len(t) /\ t[n] = Last(p).head
      BY <1>1, <3>1, SegmentRecords
    <3> HIDE DEF n, t
    <3>3. Len(t) >= n
      BY <3>2
    <3> QED BY <3>2, <3>3 DEF TipFile, n, t
  <2> QED BY <2>1, <2>2, <2>3 DEF Intact
<1>5. ASSUME Suffix(p) # <<>> PROVE Adoptable(Suffix(p), HeadOf(p))
  <2>1. Suffix(p) = Behind(p, files) /\ Behind(p, files) # <<>>
    BY <1>5, SuffixIs
  <2>2. ~Orphaned(p, files) /\ Loose(p, files) = Behind(p, files) /\ p # <<>>
    BY <1>1, <2>1, BehindIsLoose
  <2> DEFINE f == FileOf(Last(p))
             t == LastFile(p, files)
             m == RecordCount(Last(p))
  <2>3. /\ f \in DOMAIN files /\ t \in Seq(Line) /\ m \in Nat \ {0} /\ m <= Len(t)
        /\ Len(Behind(p, files)) = Len(t) - m
        /\ \A k \in 1 .. Len(t) - m : Behind(p, files)[k] = t[m + k]
    BY <1>1, <2>2, LastFileOf
  <2>4. t = files[f] /\ Len(t) \in Nat
    BY <2>3, LenProperties DEF LastFile
  <2> HIDE DEF f, t, m
  <2>5. \A k \in 1 .. Len(Behind(p, files)) : Behind(p, files)[k] # Torn
    <3> TAKE k \in 1 .. Len(Behind(p, files))
    <3>1. m + k \in 1 .. Len(t) /\ k \in 1 .. Len(t) - m
      BY <2>3, <2>4
    <3>2. files[f][m + k] # Torn
      BY <1>3, <2>3, <2>4, <3>1
    <3> QED BY <2>3, <2>4, <3>1, <3>2
  <2>6. Adoptable(Loose(p, files), HeadOf(p))
    BY <1>1, <2>1, <2>2, <2>5, LooseAdoptable
  <2> QED BY <2>1, <2>2, <2>6
<1>6. ASSUME Untouched # {} PROVE Adoptable(files[NameAfter(HeadOf(p))], HeadOf(p))
  <2>1. PICK f \in DOMAIN files : f > Len(HeadOf(p))
    BY <1>6 DEF Untouched, p
  <2>2. f \in Nat /\ f <= Len(HeadOf(p)) + 1 /\ Len(HeadOf(p)) \in Nat
    BY <1>1, FilesOfChain, ChainNumbers
  <2>3. f = NameAfter(HeadOf(p))
    BY <2>1, <2>2 DEF NameAfter
  <2>4. Orphaned(p, files) /\ Loose(p, files) = files[f]
    BY <2>3 DEF Orphaned, Loose
  <2>5. files[f] # <<>>
    BY DEF Partial
  <2>6. Adoptable(Loose(p, files), HeadOf(p))
    BY <1>1, <1>3, <2>4, <2>5, LooseAdoptable
  <2> QED BY <2>3, <2>4, <2>6
<1>7. manifest = None => files = <<>>
  BY <1>1 DEF Directory
<1> QED BY <1>4, <1>5, <1>6, <1>7 DEF p

(* However writes are interleaved, interrupted and repeated, the published *)
(* chain is unbroken and on disk, and what is left beside it is bounded    *)
(* and recoverable (commitSegments, persist, recover, pruneSegments).      *)
THEOREM DirectoryIsSound == Spec => []DirectorySound
PROOF
<1>1. IInv => DirectorySound
  BY InvariantVerifies, InvariantBoundsRecovery, InvariantBoundsRetention, InvariantRecovers
     DEF DirectorySound, IInv
<1> QED BY <1>1, ChainInvariant, PTL

(***************************************************************************)
(* Evidence is kept.                                                       *)
(***************************************************************************)
(* Appending extends.                                                      *)
LEMMA PrefixOfJoined ==
  ASSUME NEW S, NEW s \in Seq(S), NEW t \in Seq(S)
  PROVE  IsPrefix(s, s) /\ IsPrefix(s, s \o t)
PROOF
<1>1. Len(s) \in Nat /\ Len(t) \in Nat
  BY LenProperties
<1>2. Len(s \o t) = Len(s) + Len(t)
  BY Joined
<1>3. Len(s) \in 0 .. Len(s)
  BY <1>1
<1>4. SubSeq(s \o t, 1, Len(s)) = SubSeq(s, 1, Len(s))
  BY <1>3, FirstOfJoined
<1>5. Len(s) <= Len(s \o t)
  BY <1>1, <1>2
<1> QED BY <1>1, <1>4, <1>5 DEF IsPrefix

(* Lines are only added to files, and to no existing file by a rotation.   *)
LEMMA ExtendedKeeps ==
  ASSUME IInv, NEW w \in Writers, MayAppend(w), NEW lines \in Seq(Line),
         files' = Extended(sink[w].view, sink[w].todo, lines), NEW f \in DOMAIN files
  PROVE  f \in DOMAIN files' /\ IsPrefix(files[f], files'[f])
PROOF
<1> DEFINE p == sink[w].view
           todo == sink[w].todo
           g == Target(p, todo)
<1> PICK full \in Histories : Witnessed(full)
  BY DEF IInv
<1>1. Chain(p, files, full)
  BY MayAppendKnows
<1>2. files[f] \in Seq(Line)
  <2> HIDE DEF p
  <2> QED BY <1>1, ChainNumbers
<1>3. Rotates(p, todo) <=> g \notin DOMAIN files
  BY DEF MayAppend
<1>4. f \in DOMAIN files' /\ files'[f] = (IF f = g THEN Beginning(p, files, todo) \o lines ELSE files[f])
  BY DEF Extended, Beginning
<1>5. CASE f = g
  <2>1. Beginning(p, files, todo) = files[f]
    BY <1>3, <1>5 DEF Beginning
  <2>2. files'[f] = files[f] \o lines
    BY <1>4, <1>5, <2>1
  <2>3. IsPrefix(files[f], files[f] \o lines)
    BY <1>2, PrefixOfJoined
  <2> QED BY <1>4, <2>2, <2>3
<1>6. CASE f # g
  <2>1. IsPrefix(files[f], files[f])
    BY <1>2, PrefixOfJoined
  <2> QED BY <1>4, <1>6, <2>1
<1> QED BY <1>5, <1>6

(* Only whole records that the published head commits to are deleted.      *)
LEMMA DeletedIsOld ==
  ASSUME NEW p, NEW fs, NEW full, Chain(p, fs, full), NEW f \in Doomed(p, fs)
  PROVE  /\ p # <<>> /\ f <= Len(p[1].start)
         /\ \A r \in Range(fs[f]) : r # Torn /\ IsPrefix(r, HeadOf(p))
PROOF
<1>1. p # <<>> /\ f \in DOMAIN fs /\ f <= Len(p[1].start)
  BY DEF Doomed
<1>2. /\ p \in Seq(Segments) /\ full \in Histories /\ Cut(p, full) /\ Stored(p, fs, full)
      /\ Pruned(p, fs) /\ PrefixOf(HeadOf(p), full) /\ HeadOf(p) \in Histories
  BY DEF Chain
<1>3. f - 1 + Len(fs[f]) <= Len(p[1].start) /\ (\A k \in 1 .. Len(fs[f]) : fs[f][k] # Torn)
  BY <1>2 DEF Pruned
<1>4. /\ f \in Nat /\ fs[f] \in Seq(Line) /\ Len(fs[f]) \in Nat /\ Len(HeadOf(p)) \in Nat
      /\ Len(full) \in Nat /\ Len(HeadOf(p)) <= Len(full) /\ Len(Initial) \in Nat
      /\ f \in Len(Initial) + 1 .. Len(HeadOf(p)) + 1
  BY <1>1, <1>2, ChainNumbers DEF Stored
<1>5. Len(p[1].start) \in Nat /\ Len(p[1].start) <= Len(HeadOf(p))
  <2>1. 1 \in 1 .. Len(p)
    BY <1>1, <1>2, HeadIs
  <2>2. /\ Len(p[1].start) \in Nat /\ Len(p[1].head) \in Nat
        /\ Len(p[1].start) < Len(p[1].head) /\ Len(p[1].head) <= Len(HeadOf(p))
    BY <1>2, <2>1, SegmentTyped, SegmentsInOrder
  <2> QED BY <1>4, <2>2
<1>6. ASSUME NEW r \in Range(fs[f]) PROVE r # Torn /\ IsPrefix(r, HeadOf(p))
  <2>1. DOMAIN fs[f] = 1 .. Len(fs[f])
    BY <1>4, LenProperties
  <2>2. PICK k \in 1 .. Len(fs[f]) : r = fs[f][k]
    BY <2>1 DEF Range
  <2> DEFINE n == f - 1 + k
  <2>3. r # Torn /\ n <= Len(full) /\ r = SubSeq(full, 1, n)
    BY <1>1, <1>2, <1>3, <2>2 DEF Stored
  <2>4. n \in 1 .. Len(full) /\ n <= Len(HeadOf(p))
    BY <1>3, <1>4, <1>5, <2>2
  <2> HIDE DEF n
  <2>5. r \in Histories /\ Len(r) = n /\ PrefixOf(r, full)
    BY <1>2, <2>3, <2>4, PrefixIsLine
  <2>6. IsPrefix(r, HeadOf(p))
    BY <1>2, <2>4, <2>5, PrefixesCompared
  <2> QED BY <2>3, <2>6
<1> QED BY <1>1, <1>6

(* Which steps touch the segment files.                                    *)
LEMMA FilesChange ==
  ASSUME [Next]_vars
  PROVE  \/ files' = files
         \/ \E w \in Writers : Prunes(w) \/ Appends(w) \/ AppendBreaks(w)
PROOF
<1>1. ASSUME NEW w \in Writers, Step(w)
      PROVE  files' = files \/ Prunes(w) \/ Appends(w)
  <2>1. CASE Acquires(w) \/ GivesUp(w) \/ Loads(w) \/ RecoversSuffix(w) \/ RecoversOrphan(w)
    BY <2>1 DEF Acquires, GivesUp, Loads, RecoversSuffix, RecoversOrphan, disk
  <2>2. CASE Publishes(w) \/ CannotAppend(w) \/ Finishes(w) \/ Releases(w)
    BY <2>2 DEF Publishes, CannotAppend, Finishes, Releases, disk
  <2> QED BY <1>1, <2>1, <2>2 DEF Step
<1>2. ASSUME NEW w \in Writers, Breaks(w)
      PROVE  files' = files \/ AppendBreaks(w)
  BY <1>2 DEF Breaks, ReleaseFails, IOFails, Crash, MayLitter, disk
<1>3. ASSUME NEW w \in Writers, NEW group, Asks(w, group)
      PROVE  files' = files
  BY <1>3 DEF Asks, disk
<1>4. OperatorUnlocks => files' = files
  BY DEF OperatorUnlocks, disk
<1>5. UNCHANGED vars => files' = files
  BY DEF vars, disk
<1> QED BY <1>1, <1>2, <1>3, <1>4, <1>5 DEF Next

(* Segment files only grow; only retained-out ones are deleted, after the  *)
(* manifest that retains them no longer was published; no evidence of an   *)
(* interruption is (writeEvents, pruneSegments).                           *)
THEOREM EvidenceIsKept == Spec => EvidenceKept
PROOF
<1>1. IInv /\ [Next]_vars =>
        [\A f \in DOMAIN files :
           IF f \in DOMAIN files'
           THEN IsPrefix(files[f], files'[f])
           ELSE /\ Published # <<>> /\ f <= Len(Published[1].start)
                /\ \A r \in Range(files[f]) : r # Torn /\ IsPrefix(r, HeadOf(Published))]_vars
  <2> SUFFICES ASSUME IInv, [Next]_vars, NEW f \in DOMAIN files
               PROVE  IF f \in DOMAIN files'
                      THEN IsPrefix(files[f], files'[f])
                      ELSE /\ Published # <<>> /\ f <= Len(Published[1].start)
                           /\ \A r \in Range(files[f]) : r # Torn /\ IsPrefix(r, HeadOf(Published))
    OBVIOUS
  <2>1. files[f] \in Seq(Histories \cup {Torn})
    BY DEF IInv, TypeOK
  <2>2. IsPrefix(files[f], files[f])
    BY <2>1, PrefixOfJoined
  <2>3. CASE files' = files
    BY <2>2, <2>3
  <2>4. ASSUME NEW w \in Writers, Appends(w) PROVE f \in DOMAIN files' /\ IsPrefix(files[f], files'[f])
    <3> PICK full \in Histories : Witnessed(full)
      BY DEF IInv
    <3>1. MayAppend(w) /\ files' = Extended(sink[w].view, sink[w].todo, Lines(sink[w].view, sink[w].todo))
      BY <2>4 DEF Appends
    <3>2. Lines(sink[w].view, sink[w].todo) \in Seq(Line)
      <4> DEFINE c == Len(Chunk(sink[w].view, sink[w].todo))
      <4>1. c \in 1 .. Len(sink[w].todo) /\ Len(sink[w].todo) \in Nat
        BY <3>1, MayAppendKnows
      <4>2. 0 \in 0 .. c /\ <<>> \in {<<>>, <<Torn>>}
        <5> HIDE DEF c
        <5> QED BY <4>1
      <4> QED BY <3>1, <4>2, AppendedChain
    <3> QED BY <3>1, <3>2, ExtendedKeeps
  <2>5. ASSUME NEW w \in Writers, AppendBreaks(w) PROVE f \in DOMAIN files' /\ IsPrefix(files[f], files'[f])
    <3> PICK full \in Histories : Witnessed(full)
      BY DEF IInv
    <3> DEFINE lines == Lines(sink[w].view, sink[w].todo)
    <3>1. MayAppend(w)
      BY <2>5 DEF AppendBreaks
    <3>2. PICK n \in 0 .. Len(lines), tail \in {<<>>, <<Torn>>} :
            files' = Extended(sink[w].view, sink[w].todo, SubSeq(lines, 1, n) \o tail)
      BY <2>5 DEF AppendBreaks
    <3>3. lines \in Seq(Line)
      <4> DEFINE c == Len(Chunk(sink[w].view, sink[w].todo))
      <4>1. c \in 1 .. Len(sink[w].todo) /\ Len(sink[w].todo) \in Nat
        BY <3>1, MayAppendKnows
      <4>2. 0 \in 0 .. c /\ <<>> \in {<<>>, <<Torn>>}
        <5> HIDE DEF c
        <5> QED BY <4>1
      <4> QED BY <3>1, <4>2, AppendedChain
    <3> HIDE DEF lines
    <3>4. SubSeq(lines, 1, n) \in Seq(Line)
      BY <3>2, <3>3, FirstOf
    <3>5. tail \in Seq(Line)
      <4>1. Torn \in Line
        BY DEF Line
      <4>2. <<Torn>> \in Seq(Line)
        BY <4>1
      <4> QED BY <4>2, EmptySeq
    <3>6. SubSeq(lines, 1, n) \o tail \in Seq(Line)
      BY <3>4, <3>5, Joined
    <3> QED BY <3>1, <3>2, <3>6, ExtendedKeeps
  <2>6. ASSUME NEW w \in Writers, Prunes(w), f \notin DOMAIN files'
        PROVE  /\ Published # <<>> /\ f <= Len(Published[1].start)
               /\ \A r \in Range(files[f]) : r # Torn /\ IsPrefix(r, HeadOf(Published))
    <3> DEFINE p == Published
    <3> PICK full \in Histories : Witnessed(full)
      BY DEF IInv
    <3>1. Chain(p, files, full)
      BY DEF Witnessed, Directory, Published
    <3>2. sink[w].view = p
      BY <2>6 DEF Prunes, At, Witnessed, Aware, Knows, Published, ViewOf
    <3>3. PICK g \in Prunable(sink[w].view) : files' = [h \in DOMAIN files \ {g} |-> files[h]]
      BY <2>6 DEF Prunes
    <3>4. f = g
      BY <2>6, <3>3
    <3> HIDE DEF p
    <3>5. f \in Doomed(p, files)
      BY <3>1, <3>2, <3>3, <3>4, PrunableIs
    <3> DEFINE fs == files
    <3>6. Chain(p, fs, full) /\ f \in Doomed(p, fs)
      BY <3>1, <3>5
    <3> HIDE DEF fs
    <3>7. /\ p # <<>> /\ f <= Len(p[1].start)
          /\ \A r \in Range(fs[f]) : r # Torn /\ IsPrefix(r, HeadOf(p))
      BY <3>6, DeletedIsOld
    <3> QED BY <3>7 DEF p, fs
  <2>7. ASSUME NEW w \in Writers, Prunes(w), f \in DOMAIN files'
        PROVE  IsPrefix(files[f], files'[f])
    <3>1. \/ files' = files
          \/ \E g \in Prunable(sink[w].view) : files' = [h \in DOMAIN files \ {g} |-> files[h]]
      BY <2>7 DEF Prunes
    <3>2. files'[f] = files[f]
      BY <2>7, <3>1
    <3> QED BY <2>2, <3>2
  <2> QED BY <2>3, <2>4, <2>5, <2>6, <2>7, FilesChange
<1> QED BY <1>1, ChainInvariant, PTL DEF Spec, EvidenceKept

(***************************************************************************)
(* The directory implements the log.                                       *)
(***************************************************************************)
(* The log's view of the directory: what was published since Initial.      *)
LEMMA AcceptedIs == AcceptedLog = After(HeadOf(ViewOf(manifest)))
PROOF
BY DEF AcceptedLog, After

(* Nothing is added by a group without events.                             *)
LEMMA PlusNothing ==
  ASSUME NEW count \in [Events -> Nat]
  PROVE  Log!Plus(count, <<>>) = count
PROOF
<1>1. \A e \in Events : count[e] + Log!Occurrences(<<>>, e) = count[e]
  <2> TAKE e \in Events
  <2>1. Log!Occurrences(<<>>, e) = 0 /\ count[e] \in Nat
    BY NoOccurrence
  <2> QED BY <2>1
<1>2. Log!Plus(count, <<>>) = [e \in Events |-> count[e] + Log!Occurrences(<<>>, e)]
  BY DEF Log!Plus
<1>3. [e \in Events |-> count[e] + Log!Occurrences(<<>>, e)] = [e \in Events |-> count[e]]
  BY <1>1, Zenon
<1>4. count = [e \in Events |-> count[e]]
  OBVIOUS
<1> QED BY <1>2, <1>3, <1>4

(* The log at the start.                                                   *)
LEMMA InitIsLogInit == Init => Log!LogInit
PROOF
<1> SUFFICES ASSUME Init PROVE Log!LogInit
  OBVIOUS
<1>1. HeadOf(ViewOf(manifest)) = Initial
  BY NothingStored DEF Init, ViewOf
<1>2. Initial \in Seq(Events) /\ Len(Initial) \in Nat
  BY ChainAssumption, LenProperties DEF Histories
<1>3. Len(Initial) \in 0 .. Len(Initial)
  BY <1>2
<1>4. After(Initial) \in Seq(Events) /\ Len(After(Initial)) = Len(Initial) - Len(Initial)
  BY <1>2, <1>3, RestOf DEF After
<1>5. After(Initial) = <<>>
  BY <1>2, <1>4, EmptySeq
<1>6. AcceptedLog = <<>>
  BY <1>1, <1>5, AcceptedIs
<1> QED BY <1>6 DEF Log!LogInit, Init

(* What a publication adds is what is on disk.                             *)
LEMMA PublishesImplements ==
  ASSUME IInv, NEW w \in Writers, Publishes(w)
  PROVE  Log!AcceptSome \/ UNCHANGED <<AcceptedLog, submitted, confirmed>>
PROOF
<1> DEFINE q == sink[w].view
           p == ViewOf(manifest)
           a == HeadOf(p)
<1> PICK full \in Histories : Witnessed(full)
  BY DEF IInv
<1>1. sink[w].pc = "publishing" /\ manifest' = q /\ submitted' = submitted /\ confirmed' = confirmed
  BY DEF Publishes, At
<1>2. /\ q # None /\ ViewOf(q) = q /\ HeadOf(q) = full
      /\ sink[w].stage = "loading" => manifest = None /\ q = <<>> /\ full = Initial
  BY <1>1, PublicationSound
<1>3. AcceptedLog = After(a)
  BY AcceptedIs
<1>4. AcceptedLog' = After(full)
  <2>1. AcceptedLog' = After(HeadOf(ViewOf(manifest')))
    BY DEF AcceptedLog, After
  <2> QED BY <1>1, <1>2, <2>1
<1>5. Aware(sink[w], manifest, files, full) /\ Directory(manifest, files, full) /\ Counted(full)
  BY DEF Witnessed
<1>6. CASE sink[w].stage = "loading"
  <2>1. a = Initial
    BY <1>2, <1>6, NothingStored DEF ViewOf
  <2> QED BY <1>1, <1>2, <1>3, <1>4, <1>6, <2>1
<1>7. CASE sink[w].stage # "loading"
  <2>1. Pending(p, files, full) /\ Chain(p, files, full)
    BY <1>1, <1>5, <1>7 DEF Aware, Directory
  <2> HIDE DEF p
  <2>2. a \in Histories /\ PrefixOf(a, full) /\ Len(a) < Len(full) /\ Len(Initial) <= Len(a)
    BY <2>1, ChainNumbers DEF Chain, Pending
  <2>3. Len(a) \in Nat /\ Len(full) \in Nat /\ Len(Initial) \in Nat
    BY <2>1, ChainNumbers
  <2> DEFINE n == Len(a) - Len(Initial)
             x == After(a)
             y == After(full)
  <2> HIDE DEF a
  <2>4. /\ x \in Histories /\ y \in Histories
        /\ n \in 0 .. Len(y) /\ Len(x) = n
        /\ Len(y) = Len(full) - Len(Initial)
        /\ x = SubSeq(y, 1, n)
    BY <2>2, AfterPrefix
  <2>5. Len(x) < Len(y) /\ Len(x) <= Len(y)
    BY <2>2, <2>3, <2>4
  <2> HIDE DEF n, x, y
  <2>6. SubSeq(x, 1, Len(x)) = x /\ SubSeq(y, 1, Len(x)) = x
    BY <2>4, SubSeqFull DEF Histories
  <2>7. Log!IsPrefix(x, y)
    <3>1. SubSeq(x, 1, Len(x)) = SubSeq(y, 1, Len(x))
      BY <2>6
    <3> QED BY <2>5, <3>1 DEF Log!IsPrefix
  <2>8. x # y
    <3>1. Len(x) \in Nat /\ Len(y) \in Nat
      BY <2>4, LenProperties DEF Histories
    <3> QED BY <2>5, <3>1
  <2>9. Log!IsStrictPrefix(x, y)
    BY <2>7, <2>8 DEF Log!IsStrictPrefix
  <2>10. \A e \in Events : Log!Occurrences(y, e) <= submitted[e]
    <3> TAKE e \in Events
    <3> DEFINE k == sink
    <3>1. k \in [Writers -> Sinks] /\ submitted[e] \in Nat
      BY DEF IInv, TypeOK
    <3>2. Log!Occurrences(y, e) + Cardinality(Owing(k, e)) <= submitted[e]
      BY <1>5 DEF Counted, y
    <3> HIDE DEF k
    <3>3. /\ Cardinality(Owing(k, e)) = Cardinality(OwingOthers(k, w, e)) + Log!Occurrences(Owed(k[w]), e)
          /\ Cardinality(OwingOthers(k, w, e)) \in Nat /\ Log!Occurrences(Owed(k[w]), e) \in Nat
      BY <3>1, OwingSplit
    <3>4. Log!Occurrences(y, e) \in Nat
      BY <2>4, OccurrencesCounted
    <3> QED BY <3>1, <3>2, <3>3, <3>4
  <2>11. AcceptedLog = x /\ AcceptedLog' = y
    BY <1>3, <1>4 DEF x, y
  <2> QED BY <1>1, <2>9, <2>10, <2>11 DEF Log!AcceptSome
<1> QED BY <1>6, <1>7

(* Which steps change what the log's properties speak of.                  *)
LEMMA LogChanges ==
  ASSUME [Next]_vars
  PROVE  \/ manifest' = manifest /\ submitted' = submitted /\ confirmed' = confirmed
         \/ \E w \in Writers : Publishes(w) \/ Releases(w)
         \/ \E w \in Writers, group \in Groups \cup {<<>>} : Asks(w, group)
PROOF
<1>1. ASSUME NEW w \in Writers, Step(w)
      PROVE  \/ manifest' = manifest /\ submitted' = submitted /\ confirmed' = confirmed
             \/ Publishes(w) \/ Releases(w)
  <2>1. CASE Acquires(w) \/ GivesUp(w) \/ Loads(w) \/ RecoversSuffix(w) \/ RecoversOrphan(w)
    BY <2>1 DEF Acquires, GivesUp, Loads, RecoversSuffix, RecoversOrphan, disk
  <2>2. CASE Prunes(w) \/ CannotAppend(w) \/ Finishes(w) \/ Appends(w)
    BY <2>2 DEF Prunes, CannotAppend, Finishes, Appends, disk
  <2> QED BY <1>1, <2>1, <2>2 DEF Step
<1>2. ASSUME NEW w \in Writers, Breaks(w)
      PROVE  manifest' = manifest /\ submitted' = submitted /\ confirmed' = confirmed
  BY <1>2 DEF Breaks, AppendBreaks, ReleaseFails, IOFails, Crash, MayLitter, disk
<1>3. OperatorUnlocks => manifest' = manifest /\ submitted' = submitted /\ confirmed' = confirmed
  BY DEF OperatorUnlocks, disk
<1>4. UNCHANGED vars => manifest' = manifest /\ submitted' = submitted /\ confirmed' = confirmed
  BY DEF vars, disk
<1> QED BY <1>1, <1>2, <1>3, <1>4 DEF Next

(* Every step is a step of the log or a stutter of it.                     *)
LEMMA StepImplements ==
  IInv /\ [Next]_vars => [Log!LogNext]_<<AcceptedLog, submitted, confirmed>>
PROOF
<1> SUFFICES ASSUME IInv, [Next]_vars
             PROVE  Log!LogNext \/ UNCHANGED <<AcceptedLog, submitted, confirmed>>
  OBVIOUS
<1>1. IInv'
  BY NextKeeps
<1>2. manifest' = manifest => AcceptedLog' = AcceptedLog
  BY DEF AcceptedLog
<1>3. submitted \in [Events -> Nat] /\ confirmed \in [Events -> Nat]
  BY DEF IInv, TypeOK
<1>4. CASE manifest' = manifest /\ submitted' = submitted /\ confirmed' = confirmed
  BY <1>2, <1>4
<1>5. ASSUME NEW w \in Writers, Publishes(w)
      PROVE  Log!LogNext \/ UNCHANGED <<AcceptedLog, submitted, confirmed>>
  BY <1>5, PublishesImplements DEF Log!LogNext
<1>6. ASSUME NEW w \in Writers, Releases(w)
      PROVE  Log!LogNext \/ UNCHANGED <<AcceptedLog, submitted, confirmed>>
  <2> DEFINE asked == sink[w].asked
  <2>1. /\ manifest' = manifest /\ submitted' = submitted
        /\ confirmed' = Log!Plus(confirmed, asked) \/ confirmed' = confirmed
    BY <1>6 DEF Releases, disk
  <2>2. asked \in Groups \cup {<<>>}
    BY DEF IInv, Witnessed, Faithful
  <2>3. \A e \in Events : confirmed'[e] <= Log!Occurrences(AcceptedLog, e)
    <3> TAKE e \in Events
    <3>1. PICK full \in Histories : Witnessed(full)'
      BY <1>1 DEF IInv
    <3>2. confirmed'[e] <= Log!Occurrences(After(HeadOf(ViewOf(manifest'))), e)
      BY <3>1 DEF Witnessed, Counted
    <3>3. After(HeadOf(ViewOf(manifest'))) = AcceptedLog
      BY <2>1, AcceptedIs
    <3> QED BY <3>2, <3>3
  <2> HIDE DEF asked
  <2>4. CASE confirmed' = confirmed
    BY <1>2, <2>1, <2>4
  <2>5. CASE confirmed' = Log!Plus(confirmed, asked) /\ asked = <<>>
    <3>1. confirmed' = confirmed
      BY <1>3, <2>5, PlusNothing
    <3> QED BY <1>2, <2>1, <3>1
  <2>6. CASE confirmed' = Log!Plus(confirmed, asked) /\ asked \in Groups
    <3>1. Log!ConfirmGroup
      BY <1>2, <2>1, <2>3, <2>6 DEF Log!ConfirmGroup
    <3> QED BY <3>1 DEF Log!LogNext
  <2> QED BY <2>1, <2>2, <2>4, <2>5, <2>6
<1>7. ASSUME NEW w \in Writers, NEW group \in Groups \cup {<<>>}, Asks(w, group)
      PROVE  Log!LogNext \/ UNCHANGED <<AcceptedLog, submitted, confirmed>>
  <2>1. manifest' = manifest /\ submitted' = Log!Plus(submitted, group) /\ confirmed' = confirmed
    BY <1>7 DEF Asks, disk
  <2>2. CASE group = <<>>
    <3>1. submitted' = submitted
      BY <1>3, <2>1, <2>2, PlusNothing
    <3> QED BY <1>2, <2>1, <3>1
  <2>3. CASE group \in Groups
    <3>1. Log!SubmitGroup
      BY <1>2, <2>1, <2>3 DEF Log!SubmitGroup
    <3> QED BY <3>1 DEF Log!LogNext
  <2> QED BY <2>2, <2>3
<1> QED BY <1>4, <1>5, <1>6, <1>7, LogChanges

(* The log only grows, every confirmed write has records of its own and no *)
(* write has more than one, also when groups are cut short, adopted by the *)
(* recovery of another process, and written again.                         *)
THEOREM ChainImplementsLog == Spec => ImplementsLog
PROOF
BY InitIsLogInit, StepImplements, ChainInvariant, PTL DEF Spec, ImplementsLog, Log!LogSpec

(***************************************************************************)
(* A diagnosis beside the writers: what it reads of a segment.             *)
(***************************************************************************)
(* The smaller of two numbers.                                             *)
LEMMA MinOfTwo ==
  ASSUME NEW a \in Int, NEW b \in Int
  PROVE  Min({a, b}) = IF a <= b THEN a ELSE b
PROOF
<1>1. \E x \in {a, b} : \A y \in {a, b} : x <= y
  OBVIOUS
<1> QED BY <1>1 DEF Min

(* Lines have bytes.                                                       *)
LEMMA SomeBytes ==
  ASSUME NEW s \in Seq(Line), s # <<>>
  PROVE  Bytes(s) \in Nat \ {0}
PROOF
<1>1. Len(s) \in Nat /\ Len(s) >= 1 /\ 1 \in 1 .. Len(s)
  BY LenProperties, EmptySeq
<1>2. LineBytes(s[1]) \in Nat \ {0}
  <2>1. s[1] \in Line
    BY <1>1, ElementOfSeq
  <2> QED BY <2>1, LineHasBytes
<1>3. <<1, 1>> \in Marks(s)
  <2>1. 1 \in 1 .. LineBytes(s[1])
    BY <1>2
  <2> QED BY <1>1, <2>1, MarkOf
<1>4. IsFiniteSet(Marks(s)) /\ Bytes(s) = Cardinality(Marks(s)) /\ Bytes(s) \in Nat
  BY MarksCounted
<1>5. Cardinality(Marks(s)) # 0
  BY <1>3, <1>4, FS_EmptySet
<1> QED BY <1>4, <1>5

(* A published segment's file has at least its bytes, and no more of them  *)
(* exactly when nothing follows its records.                               *)
LEMMA SegmentBytes ==
  ASSUME NEW p, NEW fs, NEW full, Chain(p, fs, full), NEW i \in 1 .. Len(p)
  PROVE  LET n == RecordCount(p[i])
             t == fs[FileOf(p[i])]
         IN  /\ Bytes(t) \in Nat /\ p[i].size \in Nat \ {0} /\ Bytes(t) >= p[i].size
             /\ Bytes(t) = p[i].size => Len(t) = n
             /\ Len(t) = n => Bytes(t) = p[i].size /\ t = SubSeq(t, 1, n)
PROOF
<1> DEFINE n == RecordCount(p[i])
           t == fs[FileOf(p[i])]
           a == SubSeq(t, 1, n)
           b == SubSeq(t, n + 1, Len(t))
<1>1. /\ n \in Nat \ {0} /\ Len(t) \in Nat /\ n <= Len(t) /\ t \in Seq(Line)
      /\ p[i].size = Bytes(a)
  BY SegmentRecords
<1> HIDE DEF n, t
<1>2. n \in 0 .. Len(t)
  BY <1>1
<1>3. a \in Seq(Line) /\ Len(a) = n
  BY <1>1, <1>2, FirstOf
<1>4. b \in Seq(Line) /\ Len(b) = Len(t) - n
  BY <1>1, <1>2, RestOf
<1>5. t = a \o b
  BY <1>1, <1>2, Parted
<1> HIDE DEF a, b
<1>6. Bytes(t) = Bytes(a) + Bytes(b)
  BY <1>3, <1>4, <1>5, BytesJoined
<1>7. a # <<>>
  BY <1>1, <1>3, EmptySeq
<1>8. Bytes(a) \in Nat \ {0}
  BY <1>3, <1>7, SomeBytes
<1>9. Bytes(b) \in Nat /\ (b # <<>> => Bytes(b) # 0)
  BY <1>4, SomeBytes, MarksCounted
<1>10. b = <<>> => Len(t) = n
  BY <1>1, <1>4, EmptySeq
<1>11. Len(t) = n => b = <<>> /\ t = a
  <2> SUFFICES ASSUME Len(t) = n PROVE b = <<>> /\ t = a
    OBVIOUS
  <2>1. Len(b) = 0
    BY <1>1, <1>4
  <2>2. b = <<>>
    BY <1>4, <2>1, EmptySeq
  <2>3. SubSeq(t, 1, Len(t)) = t
    BY <1>1, SubSeqFull
  <2> QED BY <2>2, <2>3 DEF a
<1>12. Len(t) = n => Bytes(t) = Bytes(a)
  BY <1>11
<1>13. t = SubSeq(t, 1, n) <=> t = a
  BY DEF a
<1> QED BY <1>1, <1>6, <1>8, <1>9, <1>10, <1>11, <1>12, <1>13 DEF n, t

(* The published records are whole and within the limit of a record.       *)
LEMMA PublishedReadable ==
  ASSUME NEW p, NEW fs, NEW full, Chain(p, fs, full), NEW i \in 1 .. Len(p),
         NEW k \in 1 .. RecordCount(p[i])
  PROVE  LET r == fs[FileOf(p[i])][k] IN r # Torn /\ LineBytes(r) <= MaxRecordBytes
PROOF
<1> DEFINE f == FileOf(p[i])
           n == RecordCount(p[i])
           t == fs[f]
           m == f - 1 + k
<1>1. full \in Histories /\ Stored(p, fs, full) /\ Committed(p, fs) /\ Small(full) /\ p \in Seq(Segments)
  BY DEF Chain
<1>2. f \in DOMAIN fs /\ n \in Nat \ {0} /\ Len(t) \in Nat /\ n <= Len(t)
  BY SegmentRecords
<1>3. t[k] # Torn
  BY <1>1 DEF Committed
<1>4. f \in Len(Initial) + 1 .. Len(HeadOf(p)) /\ Len(Initial) \in Nat /\ Len(HeadOf(p)) \in Nat
  <2>1. Len(Initial) \in Nat /\ Len(HeadOf(p)) \in Nat
    BY ChainNumbers
  <2>2. f \in Len(Initial) + 1 .. Len(HeadOf(p))
    BY <1>1, SegmentsInOrder DEF Chain
  <2> QED BY <2>1, <2>2
<1> HIDE DEF f, n
<1>5. k \in 1 .. Len(t)
  BY <1>2 DEF n
<1>6. m <= Len(full) /\ t[k] = SubSeq(full, 1, m)
  BY <1>1, <1>2, <1>3, <1>5 DEF Stored
<1>7. m \in Len(Initial) + 1 .. Len(full) /\ m \in 1 .. Len(full)
  <2>1. Len(full) \in Nat /\ m \in Int
    BY <1>1, <1>4, LenProperties DEF Histories
  <2> QED BY <1>4, <1>5, <1>6, <2>1
<1> HIDE DEF m
<1>8. LineBytes(SubSeq(full, 1, m)) = Size[full[m]]
  BY <1>1, <1>7, PrefixIsLine
<1>9. Size[full[m]] <= MaxRecordBytes
  BY <1>1, <1>7 DEF Small
<1> QED BY <1>3, <1>6, <1>8, <1>9 DEF f

(* A part of a chained segment is chained.                                 *)
LEMMA ChainedPart ==
  ASSUME NEW t \in Seq(Line), NEW start, Chained(t, start), NEW n \in 0 .. Len(t)
  PROVE  Chained(SubSeq(t, 1, n), start)
PROOF
<1>1. /\ Len(SubSeq(t, 1, n)) = n /\ Len(t) \in Nat
      /\ \A k \in 1 .. n : SubSeq(t, 1, n)[k] = t[k]
  BY FirstOf, LenProperties
<1> SUFFICES ASSUME NEW k \in 1 .. n
             PROVE  Follows(SubSeq(t, 1, n)[k], IF k = 1 THEN start ELSE SubSeq(t, 1, n)[k - 1])
  BY <1>1 DEF Chained
<1>2. k \in 1 .. Len(t) /\ SubSeq(t, 1, n)[k] = t[k]
  BY <1>1
<1>3. k # 1 => SubSeq(t, 1, n)[k - 1] = t[k - 1]
  <2>1. k # 1 => k - 1 \in 1 .. n
    OBVIOUS
  <2> QED BY <1>1, <2>1
<1>4. Follows(t[k], IF k = 1 THEN start ELSE t[k - 1])
  BY <1>2 DEF Chained
<1> QED BY <1>2, <1>3, <1>4

(* What a diagnosis finds of a segment of the published manifest: nothing, *)
(* an interrupted append behind the newest one, or more records than it    *)
(* may verify; never corruption.                                           *)
LEMMA SegmentSeen ==
  ASSUME NEW p, NEW full, Chain(p, files, full), NEW i \in 1 .. Len(p),
         MaxRecords \in Nat, reader.records \in 0 .. MaxRecords,
         reader.records = Len(p[i].start) - Len(p[1].start)
  PROVE  LET issue == SegmentIssue(p[i], i = Len(p))
         IN  \/ issue = {} /\ Copied(p[i])
             \/ issue = {"UNCOMMITTED_TAIL"} /\ ~Copied(p[i])
             \/ issue = {"VERIFICATION_LIMIT"} /\ ~(Declared(p) <= MaxRecords)
PROOF
<1> DEFINE s == p[i]
           t == files[FileOf(s)]
           n == RecordCount(s)
           budget == MaxRecords - reader.records
           within == SubSeq(t, 1, Min({budget, Len(t)}))
           issue == SegmentIssue(s, i = Len(p))
<1>1. /\ FileOf(s) \in DOMAIN files /\ n \in Nat \ {0} /\ Len(t) \in Nat /\ n <= Len(t)
      /\ t \in Seq(Line) /\ Chained(SubSeq(t, 1, n), s.start) /\ t[n] = s.head
      /\ i < Len(p) => Len(t) = n
  BY SegmentRecords
<1>2. /\ Bytes(t) \in Nat /\ s.size \in Nat /\ Bytes(t) >= s.size
      /\ Bytes(t) = s.size => Len(t) = n
      /\ Len(t) = n => Bytes(t) = s.size /\ t = SubSeq(t, 1, n)
  BY SegmentBytes
<1>3. p \in Seq(Segments) /\ Len(p) \in Nat /\ Cut(p, full)
  BY LenProperties DEF Chain
<1>4. issue = IF FileOf(s) \notin DOMAIN files                        THEN {"SEGMENT_UNREADABLE"}
              ELSE IF (i = Len(p)) /\ Bytes(t) > s.size              THEN {"UNCOMMITTED_TAIL"}
              ELSE IF Bytes(t) # s.size                              THEN {"SEGMENT_SIZE_MISMATCH"}
              ELSE IF ~Readable(within) \/ ~Chained(within, s.start) THEN {"CHAIN_INVALID"}
              ELSE IF Len(t) > budget                                THEN {"VERIFICATION_LIMIT"}
              ELSE IF Last(t) # s.head                               THEN {"CHAIN_INVALID"}
              ELSE {}
  BY DEF SegmentIssue
<1>5. budget \in Nat /\ reader.records \in Nat /\ budget + reader.records = MaxRecords
  OBVIOUS
<1> HIDE DEF budget
<1>6. \A k \in 1 .. n : t[k] # Torn /\ LineBytes(t[k]) <= MaxRecordBytes
  BY PublishedReadable
<1>7. /\ Len(s.start) \in Nat /\ Len(s.head) \in Nat /\ n = Len(s.head) - Len(s.start)
      /\ Len(p[1].start) \in Nat /\ Len(s.head) <= Len(HeadOf(p)) /\ Len(HeadOf(p)) \in Nat /\ p # <<>>
  <2>1. 1 \in 1 .. Len(p)
    BY <1>3
  <2>2. Len(s.head) <= Len(HeadOf(p)) /\ p # <<>>
    BY <1>3, SegmentsInOrder
  <2>3. Len(HeadOf(p)) \in Nat
    BY ChainNumbers
  <2> QED BY <1>3, <2>1, <2>2, <2>3, SegmentTyped
<1> HIDE DEF s, t, n, issue
<1>8. CASE Len(t) # n
  <2>1. i = Len(p)
    BY <1>1, <1>3, <1>8
  <2>2. Bytes(t) # s.size /\ Bytes(t) > s.size
    BY <1>2, <1>8
  <2>3. issue = {"UNCOMMITTED_TAIL"}
    BY <1>1, <1>4, <2>1, <2>2
  <2>4. ~Copied(s)
    BY <2>2 DEF Copied, t
  <2> QED BY <2>3, <2>4 DEF issue, s
<1>9. CASE Len(t) = n
  <2>1. Bytes(t) = s.size /\ ~(Bytes(t) > s.size) /\ Chained(t, s.start)
    <3>1. Bytes(t) = s.size /\ t = SubSeq(t, 1, n)
      BY <1>2, <1>9
    <3>2. Chained(t, s.start)
      BY <1>1, <3>1, Zenon
    <3> QED BY <1>2, <3>1, <3>2
  <2>2. Min({budget, Len(t)}) = IF budget <= Len(t) THEN budget ELSE Len(t)
    BY <1>1, <1>5, MinOfTwo
  <2>3. Min({budget, Len(t)}) \in 0 .. Len(t)
    BY <1>1, <1>5, <2>2
  <2>4. Len(within) = Min({budget, Len(t)}) /\ within \in Seq(Line)
        /\ \A k \in 1 .. Len(within) : within[k] = t[k]
    BY <1>1, <2>3, FirstOf
  <2>5. Chained(within, s.start)
    BY <1>1, <2>1, <2>3, ChainedPart
  <2>6. \A q \in Seq(Line) : (\A k \in 1 .. Len(q) : k \in 1 .. n /\ q[k] = t[k]) => Readable(q)
    <3> SUFFICES ASSUME NEW q \in Seq(Line), \A k \in 1 .. Len(q) : k \in 1 .. n /\ q[k] = t[k],
                        NEW r \in Range(q)
                 PROVE  r # Torn /\ LineBytes(r) <= MaxRecordBytes
      BY DEF Readable
    <3>1. DOMAIN q = 1 .. Len(q)
      BY LenProperties
    <3>2. PICK k \in 1 .. Len(q) : r = q[k]
      BY <3>1 DEF Range
    <3> QED BY <1>6, <3>2
  <2> HIDE DEF within
  <2>7. Readable(within) /\ Readable(t)
    <3>1. \A k \in 1 .. Len(within) : k \in 1 .. n
      BY <1>1, <1>9, <2>3, <2>4
    <3> QED BY <1>1, <1>9, <2>4, <2>6, <3>1
  <2>8. issue = IF Len(t) > budget THEN {"VERIFICATION_LIMIT"}
                ELSE IF Last(t) # s.head THEN {"CHAIN_INVALID"} ELSE {}
    BY <1>1, <1>4, <2>1, <2>5, <2>7
  <2>9. Last(t) = s.head
    <3>1. t # <<>>
      BY <1>1, <1>9, EmptySeq
    <3>2. Last(t) = t[Len(t)]
      BY <1>1, <3>1, LastOf
    <3> QED BY <1>1, <1>9, <3>2
  <2>10. CASE Len(t) > budget
    <3>1. issue = {"VERIFICATION_LIMIT"}
      BY <2>8, <2>10
    <3>0. \A a, b, c, m \in Nat : b + c = m /\ a > b => c + a > m
      OBVIOUS
    <3>2. reader.records + n > MaxRecords
      <4>1. n > budget /\ n \in Nat
        BY <1>1, <1>9, <2>10
      <4> QED BY <1>5, <3>0, <4>1
    <3>3. reader.records + n <= Len(HeadOf(p)) - Len(p[1].start)
      BY <1>7 DEF s
    <3>4. Declared(p) = Len(HeadOf(p)) - Len(p[1].start)
      BY <1>7 DEF Declared
    <3>5. ~(Declared(p) <= MaxRecords)
      <4>1. \A a, m \in Nat, b \in Int : a > m /\ a <= b => ~(b <= m)
        OBVIOUS
      <4>2. \A a, b \in Nat : a + b \in Nat /\ a - b \in Int
        OBVIOUS
      <4>3. reader.records + n \in Nat
        BY <1>1, <1>5, <4>2
      <4>4. Len(HeadOf(p)) - Len(p[1].start) \in Int
        BY <1>7, <4>2
      <4> QED BY <3>2, <3>3, <3>4, <4>1, <4>3, <4>4
    <3> QED BY <3>1, <3>5 DEF issue, s
  <2>11. CASE ~(Len(t) > budget)
    <3>1. issue = {}
      BY <2>8, <2>9, <2>11
    <3>2. Copied(s)
      BY <1>1, <2>1, <2>7, <2>9 DEF Copied, t
    <3> QED BY <3>1, <3>2 DEF issue, s
  <2> QED BY <2>10, <2>11
<1> QED BY <1>8, <1>9

(* Also a segment that is published no longer is counted by its records.   *)
LEMMA SegmentCounted ==
  ASSUME NEW p, NEW full, Chain(p, files, full), NEW s \in Segments, s.size # 0, NEW tip \in BOOLEAN,
         MaxRecords \in Nat, reader.records \in 0 .. MaxRecords, SegmentIssue(s, tip) = {}
  PROVE  reader.records + RecordCount(s) \in 0 .. MaxRecords
PROOF
<1> DEFINE f == FileOf(s)
           t == files[f]
           budget == MaxRecords - reader.records
           within == SubSeq(t, 1, Min({budget, Len(t)}))
<1>1. /\ s.start \in Histories /\ s.head \in Histories /\ Len(s.start) \in Nat /\ Len(s.head) \in Nat
      /\ f = Len(s.start) + 1 /\ RecordCount(s) = Len(s.head) - Len(s.start)
  BY LenProperties DEF Segments, Histories, FileOf, NameAfter, RecordCount
<1>2. budget \in Nat
  OBVIOUS
<1>3. /\ f \in DOMAIN files /\ Bytes(t) = s.size /\ Readable(within)
      /\ ~(Len(t) > budget) /\ Last(t) = s.head
  BY DEF SegmentIssue
<1>4. full \in Histories /\ Stored(p, files, full) /\ t \in Seq(Line) /\ Len(t) \in Nat
  BY <1>3, ChainNumbers DEF Chain
<1>5. t # <<>> /\ Len(t) >= 1
  BY <1>3, <1>4, NoBytes, EmptySeq
<1>6. within = t
  <2>1. Min({budget, Len(t)}) = Len(t)
    <3>1. Min({budget, Len(t)}) = IF budget <= Len(t) THEN budget ELSE Len(t)
      BY <1>2, <1>4, MinOfTwo
    <3> QED BY <1>2, <1>3, <1>4, <3>1
  <2> QED BY <1>4, <2>1, SubSeqFull
<1>7. t[Len(t)] # Torn /\ Last(t) = t[Len(t)]
  <2>1. Len(t) \in 1 .. Len(t) /\ DOMAIN t = 1 .. Len(t)
    BY <1>4, <1>5, LenProperties
  <2>2. t[Len(t)] \in Range(t)
    BY <2>1 DEF Range
  <2> QED BY <1>3, <1>4, <1>5, <1>6, <2>2, LastOf DEF Readable
<1> HIDE DEF f, t, budget, within
<1>8. f - 1 + Len(t) <= Len(full) /\ s.head = SubSeq(full, 1, f - 1 + Len(t))
  <2>1. Len(t) \in 1 .. Len(t)
    BY <1>4, <1>5
  <2> QED BY <1>3, <1>4, <1>7, <2>1 DEF Stored, t
<1>9. Len(s.head) = f - 1 + Len(t)
  <2>1. Len(full) \in Nat /\ f - 1 + Len(t) \in 0 .. Len(full)
    BY <1>1, <1>4, <1>8, LenProperties DEF Histories
  <2>2. full \in Seq(Events)
    BY <1>4 DEF Histories
  <2> QED BY <1>8, <2>1, <2>2, FirstOf
<1>10. RecordCount(s) = Len(t)
  BY <1>1, <1>4, <1>9
<1> QED BY <1>2, <1>3, <1>4, <1>10 DEF budget

(***************************************************************************)
(* What a diagnosis has noted is true of the directory as long as its stat *)
(* is the one it began with and nobody holds the lock.                     *)
(***************************************************************************)
(* The first n segments verified; the others are still to be read.         *)
Scanned(n) ==
  /\ n \in 0 .. Len(manifest)
  /\ reader.rest = SubSeq(manifest, n + 1, Len(manifest))
  /\ reader.records = IF n = 0 THEN 0 ELSE Len(manifest[n].head) - Len(manifest[1].start)
  /\ \A i \in 1 .. n : Copied(manifest[i])

(* Segments of a manifest are not empty, also when it was replaced since.  *)
RestSized == \A i \in 1 .. Len(reader.rest) : reader.rest[i].size # 0

Referenced == {FileOf(s) : s \in Range(manifest)}

(* Every issue stands for something in the directory.                      *)
IssuesReal ==
  /\ reader.issues \cap Corruption = {}
  /\ "TEMPORARY_FILES" \in reader.issues => litter
  /\ "UNREFERENCED_SEGMENTS" \in reader.issues => manifest # None /\ DOMAIN files # Referenced
  /\ "MANIFEST_MISSING" \in reader.issues => manifest = None /\ (DOMAIN files # {} \/ litter)
  /\ "UNCOMMITTED_TAIL" \in reader.issues => manifest # None /\ \E s \in Range(manifest) : ~Copied(s)
  /\ "VERIFICATION_LIMIT" \in reader.issues => manifest # None /\ ~(Declared(manifest) <= MaxRecords)

(* Everything in the directory that would be an issue was noted.           *)
NothingMissed ==
  /\ reader.pc \in {"listing", "locking", "statting", "manifest"} => reader.records = 0
  /\ reader.pc = "locking" =>
       /\ reader.found <=> manifest # None
       /\ reader.listed.manifest <=> manifest # None
       /\ reader.listed.segments = DOMAIN files
       /\ reader.listed.temporary <=> litter
       /\ ~reader.listed.lock
  /\ reader.pc \in {"statting", "manifest"} =>
       /\ reader.found /\ manifest # None /\ reader.listed.segments = DOMAIN files
       /\ litter => "TEMPORARY_FILES" \in reader.issues
  /\ reader.pc = "segments" =>
       /\ reader.found /\ manifest # None
       /\ litter => "TEMPORARY_FILES" \in reader.issues
       /\ DOMAIN files \subseteq Referenced \/ "UNREFERENCED_SEGMENTS" \in reader.issues
       /\ \E n \in Nat : Scanned(n)
  /\ reader.pc = "rechecking" /\ reader.issues = {} /\ ~reader.busy =>
       IF reader.found THEN Exportable ELSE DirectoryEmpty

(* That there was no lock was seen, or could not be seen; and nobody took  *)
(* it since without a trace.                                               *)
LockNoted ==
  /\ reader.pc \in {"listing", "locking"} => reader.issues = {}
  /\ reader.pc \in {"statting", "manifest", "segments"} => "READ_FAILED" \notin reader.issues
  /\ "READ_FAILED" \in reader.issues => reader.issues = {"READ_FAILED"}
  /\ reader.pc \in {"statting", "manifest", "segments", "rechecking"} /\ ~touched /\ ~reader.busy =>
       lock = None \/ "READ_FAILED" \in reader.issues

(* What was noted, of the directory as it was when it was compared.        *)
SeenNoted ==
  /\ reader.issues \cap Corruption = {}
  /\ reader.issues = {} => IF reader.found THEN seen.exportable ELSE seen.empty
  /\ reader.issues # {} /\ reader.issues \cap Unreadable = {} => ~seen.exportable /\ ~seen.empty

(* It is still so while nobody takes the lock.                             *)
StillSo ==
  \/ overtaken \/ "READ_FAILED" \in reader.issues
  \/ lock = None /\ seen = Present

HistoryInv == LockNoted /\ (Rechecked => SeenNoted /\ StillSo)

ReaderInv ==
  /\ ReaderTypeOK
  /\ RestSized
  /\ Early /\ ~touched /\ lock = None => IssuesReal /\ NothingMissed

(* A step of a writer that leaves the lock free leaves the files alone.    *)
LEMMA FilesNeedLock ==
  ASSUME IInv, [Next]_vars, lock = None
  PROVE  files' = files
PROOF
<1>1. \A w \in Writers : sink[w].pc \in Outside
  BY ChainAssumption DEF IInv, Locked
<1>2. ASSUME NEW w \in Writers PROVE ~Prunes(w) /\ ~Appends(w) /\ ~AppendBreaks(w)
  <2>1. sink[w].pc \notin {"pruning", "writing"}
    BY <1>1 DEF Outside
  <2> QED BY <2>1 DEF Prunes, Appends, AppendBreaks, MayAppend, At
<1> QED BY <1>2, FilesChange

(* Nor does it replace the manifest, or leave a temporary one.             *)
LEMMA ManifestNeedsLock ==
  ASSUME IInv, [Next]_vars, lock = None
  PROVE  manifest' = manifest /\ litter' = litter
PROOF
<1>1. \A w \in Writers : sink[w].pc \in Outside
  BY ChainAssumption DEF IInv, Locked
<1>2. ASSUME NEW w \in Writers, Step(w) PROVE manifest' = manifest /\ litter' = litter
  <2>1. ~Publishes(w) /\ ~Prunes(w) /\ ~Appends(w)
    <3>1. sink[w].pc \notin {"pruning", "writing", "publishing"}
      BY <1>1 DEF Outside
    <3> QED BY <3>1 DEF Publishes, Prunes, Appends, MayAppend, At
  <2>2. CASE Acquires(w) \/ GivesUp(w) \/ Loads(w) \/ RecoversSuffix(w) \/ RecoversOrphan(w)
    BY <2>2 DEF Acquires, GivesUp, Loads, RecoversSuffix, RecoversOrphan, disk
  <2>3. CASE CannotAppend(w) \/ Finishes(w) \/ Releases(w)
    BY <2>3 DEF CannotAppend, Finishes, Releases, disk
  <2> QED BY <1>2, <2>1, <2>2, <2>3 DEF Step
<1>3. ASSUME NEW w \in Writers, Breaks(w) PROVE manifest' = manifest /\ litter' = litter
  <2>1. ~At(w, "publishing")
    BY <1>1 DEF At, Outside
  <2>2. MayLitter(w) => manifest' = manifest /\ litter' = litter
    BY <2>1 DEF MayLitter
  <2> QED BY <1>3, <2>2 DEF Breaks, AppendBreaks, ReleaseFails, IOFails, Crash, disk
<1>4. ASSUME NEW w \in Writers, NEW group, Asks(w, group) PROVE manifest' = manifest /\ litter' = litter
  BY <1>4 DEF Asks, disk
<1>5. OperatorUnlocks => manifest' = manifest /\ litter' = litter
  BY DEF OperatorUnlocks, disk
<1>6. UNCHANGED vars => manifest' = manifest /\ litter' = litter
  BY DEF vars, disk
<1> QED BY <1>2, <1>3, <1>4, <1>5, <1>6 DEF Next

(* Writers leave what was seen as it was, or touch the directory.          *)
LEMMA WritesTouch ==
  ASSUME IInv, ReaderInv, Writes
  PROVE  ReaderInv'
PROOF
<1>1. /\ reader' = reader /\ touched' \in BOOLEAN /\ Early' = Early
      /\ seen' = seen /\ overtaken' \in BOOLEAN
  BY DEF Writes, Notice, Early
<1>2. ASSUME Early, ~touched', lock' = None
      PROVE  /\ ~touched /\ lock = None /\ manifest' = manifest /\ litter' = litter
             /\ files' = files
  <2>1. ~touched /\ <<manifest, DOMAIN files, litter, lock>>' = <<manifest, DOMAIN files, litter, lock>>
    BY <1>2 DEF Writes, Notice, Reading
  <2>2. ~touched /\ lock = None /\ manifest' = manifest /\ litter' = litter
    BY <1>2, <2>1
  <2> QED BY <2>2, FilesNeedLock DEF Writes
<1>3. ReaderTypeOK' /\ RestSized'
  BY <1>1 DEF ReaderInv, ReaderTypeOK, RestSized
<1>4. ASSUME Early', ~touched', lock' = None
      PROVE  IssuesReal' /\ NothingMissed'
  <2>1. ~touched /\ lock = None /\ manifest' = manifest /\ litter' = litter /\ files' = files
    BY <1>1, <1>2, <1>4
  <2>2. IssuesReal /\ NothingMissed
    BY <1>1, <1>4, <2>1 DEF ReaderInv
  <2> QED BY <1>1, <2>1, <2>2
          DEF IssuesReal, NothingMissed, Scanned, Copied, Exportable, DirectoryEmpty, Referenced
<1> QED BY <1>3, <1>4 DEF ReaderInv

(* The export leaves the directory as it is, and maybe its lock behind.    *)
LEMMA ExportsKeep ==
  ASSUME IInv, ReaderInv, Exports
  PROVE  IInv' /\ ReaderInv'
PROOF
<1>1. /\ manifest' = manifest /\ files' = files /\ litter' = litter /\ sink' = sink
      /\ submitted' = submitted /\ confirmed' = confirmed /\ reader' = reader
      /\ lock = None /\ lock' \in {None, Abandoned} /\ touched' = (touched \/ Early) /\ Early' = Early
      /\ seen' = seen /\ overtaken' = Rechecked
  BY DEF Exports, disk, Early
<1>2. Locked'
  BY <1>1, ChainAssumption DEF IInv, Locked
<1>3. TypeOK'
  BY <1>1 DEF IInv, TypeOK
<1>4. \E full \in Histories : Witnessed(full)'
  BY <1>1 DEF IInv, Witnessed, Counted
<1>5. ReaderTypeOK' /\ RestSized'
  <2>1. (touched \/ Early) \in BOOLEAN /\ Rechecked \in BOOLEAN
    BY DEF Early, Rechecked
  <2> QED BY <1>1, <2>1 DEF ReaderInv, ReaderTypeOK, RestSized
<1> QED BY <1>1, <1>2, <1>3, <1>4, <1>5 DEF IInv, ReaderInv

(* A diagnosis, field by field.                                            *)
LEMMA RecordTyped ==
  ASSUME NEW Pcs, NEW Ls, NEW Rs, NEW Ns, NEW Cs, NEW pc \in Pcs, NEW listed \in Ls,
         NEW found \in BOOLEAN, NEW statted \in BOOLEAN, NEW busy \in BOOLEAN, NEW changed \in BOOLEAN,
         NEW rest \in Rs, NEW records \in Ns, NEW issues \in Cs
  PROVE  [pc |-> pc, listed |-> listed, found |-> found, statted |-> statted, busy |-> busy,
          changed |-> changed, rest |-> rest, records |-> records, issues |-> issues]
           \in [pc : Pcs, listed : Ls, found : BOOLEAN, statted : BOOLEAN, busy : BOOLEAN,
                changed : BOOLEAN, rest : Rs, records : Ns, issues : Cs]
  OBVIOUS

Stages == {"idle", "listing", "locking", "statting", "manifest", "segments",
           "rechecking", "recheckingManifest", "reporting"}

LEMMA ReaderTyped ==
  ASSUME reader' = [pc |-> reader'.pc, listed |-> reader'.listed, found |-> reader'.found,
                    statted |-> reader'.statted, busy |-> reader'.busy, changed |-> reader'.changed,
                    rest |-> reader'.rest, records |-> reader'.records, issues |-> reader'.issues],
         reader'.pc \in Stages,
         reader'.listed \in [segments : SUBSET Nat, manifest : BOOLEAN, temporary : BOOLEAN, lock : BOOLEAN],
         reader'.found \in BOOLEAN, reader'.statted \in BOOLEAN, reader'.busy \in BOOLEAN,
         reader'.changed \in BOOLEAN, reader'.rest \in Seq(Segments), reader'.records \in 0 .. MaxRecords,
         reader'.issues \in SUBSET IssueCodes,
         touched' \in BOOLEAN, seen' \in [exportable : BOOLEAN, empty : BOOLEAN], overtaken' \in BOOLEAN
  PROVE  ReaderTypeOK'
PROOF
<1> DEFINE Ls == [segments : SUBSET Nat, manifest : BOOLEAN, temporary : BOOLEAN, lock : BOOLEAN]
           Rs == Seq(Segments)
           Ns == 0 .. MaxRecords
           Cs == SUBSET IssueCodes
<1>1. reader'.listed \in Ls /\ reader'.rest \in Rs /\ reader'.records \in Ns /\ reader'.issues \in Cs
  OBVIOUS
<1> HIDE DEF Ls, Rs, Ns, Cs
<1>2. reader' \in [pc : Stages, listed : Ls, found : BOOLEAN, statted : BOOLEAN, busy : BOOLEAN,
                   changed : BOOLEAN, rest : Rs, records : Ns, issues : Cs]
  BY <1>1, RecordTyped
<1> QED BY <1>2, Zenon DEF ReaderTypeOK, Stages, Ls, Rs, Ns, Cs

(* A diagnosis that stops reading and looks at the directory again.        *)
LEMMA RechecksIs ==
  ASSUME ReaderTypeOK, NEW codes \in SUBSET IssueCodes, reader' = Rechecks(codes),
         touched' = touched, seen' = seen, overtaken' = overtaken
  PROVE  /\ ReaderTypeOK' /\ RestSized'
         /\ reader'.pc = "rechecking" /\ reader'.issues = reader.issues \cup codes
         /\ reader'.found = reader.found /\ reader'.busy = reader.busy
PROOF
<1>1. reader' = [[reader EXCEPT !.issues = @ \cup codes]
                   EXCEPT !.pc = "rechecking", !.listed = NothingListed, !.rest = <<>>, !.records = 0]
  BY DEF Rechecks, Notes
<1>2. NothingListed \in [segments : SUBSET Nat, manifest : BOOLEAN, temporary : BOOLEAN, lock : BOOLEAN]
  BY DEF NothingListed
<1>3. <<>> \in Seq(Segments) /\ Len(<<>>) = 0
  BY EmptySeq
<1>4. ReaderTypeOK'
  <2>1. reader.issues \cup codes \in SUBSET IssueCodes
    BY DEF ReaderTypeOK
  <2>2. touched' \in BOOLEAN /\ 0 \in 0 .. MaxRecords
    BY ReadersAssumption DEF ReaderTypeOK
  <2>3. reader' = [pc |-> "rechecking", listed |-> NothingListed, found |-> reader.found,
                   statted |-> reader.statted, busy |-> reader.busy, changed |-> reader.changed,
                   rest |-> <<>>, records |-> 0, issues |-> reader.issues \cup codes]
    BY <1>1 DEF ReaderTypeOK
  <2>4. /\ reader.found \in BOOLEAN /\ reader.statted \in BOOLEAN
        /\ reader.busy \in BOOLEAN /\ reader.changed \in BOOLEAN
        /\ seen' \in [exportable : BOOLEAN, empty : BOOLEAN] /\ overtaken' \in BOOLEAN
    BY DEF ReaderTypeOK
  <2>5. /\ reader' = [pc |-> reader'.pc, listed |-> reader'.listed, found |-> reader'.found,
                      statted |-> reader'.statted, busy |-> reader'.busy, changed |-> reader'.changed,
                      rest |-> reader'.rest, records |-> reader'.records, issues |-> reader'.issues]
        /\ reader'.pc = "rechecking" /\ reader'.listed = NothingListed /\ reader'.found = reader.found
        /\ reader'.statted = reader.statted /\ reader'.busy = reader.busy /\ reader'.changed = reader.changed
        /\ reader'.rest = <<>> /\ reader'.records = 0 /\ reader'.issues = reader.issues \cup codes
    BY <2>3
  <2>6. "rechecking" \in Stages
    BY DEF Stages
  <2> QED BY <1>2, <1>3, <2>1, <2>2, <2>4, <2>5, <2>6, ReaderTyped
<1>5. /\ reader'.pc = "rechecking" /\ reader'.issues = reader.issues \cup codes
      /\ reader'.found = reader.found /\ reader'.busy = reader.busy /\ reader'.rest = <<>>
  BY <1>1 DEF ReaderTypeOK
<1>6. RestSized'
  BY <1>3, <1>5 DEF RestSized
<1> QED BY <1>4, <1>5, <1>6

(* Looking at the directory first: nothing is noted yet.                   *)
LEMMA LooksNotes ==
  ASSUME ReaderInv, Looks
  PROVE  ReaderInv'
PROOF
<1>1. /\ touched' = FALSE /\ reader' = [Idle EXCEPT !.pc = "listing"]
      /\ seen' = seen /\ overtaken' = overtaken
  BY DEF Looks
<1>2. NothingListed \in [segments : SUBSET Nat, manifest : BOOLEAN, temporary : BOOLEAN, lock : BOOLEAN]
  BY DEF NothingListed
<1>3. <<>> \in Seq(Segments) /\ Len(<<>>) = 0
  BY EmptySeq
<1>4. reader' = [pc |-> "listing", listed |-> NothingListed, found |-> FALSE, statted |-> FALSE,
                 busy |-> FALSE, changed |-> FALSE, rest |-> <<>>, records |-> 0, issues |-> {}]
  BY <1>1 DEF Idle
<1>5. ReaderTypeOK'
  <2>1. 0 \in 0 .. MaxRecords /\ {} \in SUBSET IssueCodes
    BY ReadersAssumption
  <2>2. /\ touched' \in BOOLEAN /\ overtaken' \in BOOLEAN
        /\ seen' \in [exportable : BOOLEAN, empty : BOOLEAN]
    BY <1>1 DEF ReaderInv, ReaderTypeOK
  <2> HIDE DEF NothingListed
  <2> QED BY <1>2, <1>3, <1>4, <2>1, <2>2 DEF ReaderTypeOK
<1>6. reader'.pc = "listing" /\ reader'.rest = <<>> /\ reader'.issues = {} /\ reader'.records = 0
  BY <1>4
<1>7. RestSized' /\ IssuesReal' /\ NothingMissed'
  BY <1>3, <1>6 DEF RestSized, IssuesReal, NothingMissed
<1> QED BY <1>5, <1>7 DEF ReaderInv

(* Listing the directory.                                                  *)
LEMMA ListsNotes ==
  ASSUME IInv, ReaderInv, Lists
  PROVE  ReaderInv'
PROOF
<1> DEFINE noted == [segments |-> DOMAIN files, manifest |-> manifest # None,
                     temporary |-> litter, lock |-> lock # None]
<1>1. /\ manifest' = manifest /\ files' = files /\ litter' = litter /\ lock' = lock /\ touched' = touched
      /\ seen' = seen /\ overtaken' = overtaken
      /\ reader.pc = "listing"
      /\ reader' = [reader EXCEPT !.pc = "locking", !.found = (manifest # None), !.listed = noted]
  BY DEF Lists, Observes, Reading, vars, disk
<1>2. ReaderTypeOK /\ RestSized
  BY DEF ReaderInv
<1>3. noted \in [segments : SUBSET Nat, manifest : BOOLEAN, temporary : BOOLEAN, lock : BOOLEAN]
  BY DEF IInv, TypeOK
<1>4. /\ noted.segments = DOMAIN files /\ (noted.manifest <=> manifest # None)
      /\ (noted.temporary <=> litter) /\ (noted.lock <=> lock # None)
  OBVIOUS
<1> HIDE DEF noted
<1>5. ReaderTypeOK'
  <2>1. (manifest # None) \in BOOLEAN
    OBVIOUS
  <2> QED BY <1>1, <1>2, <1>3, <2>1 DEF ReaderTypeOK
<1>6. /\ reader'.pc = "locking" /\ (reader'.found <=> manifest # None) /\ reader'.listed = noted
      /\ reader'.rest = reader.rest /\ reader'.issues = reader.issues /\ reader'.records = reader.records
  BY <1>1, <1>2 DEF ReaderTypeOK
<1>7. RestSized'
  BY <1>2, <1>6 DEF RestSized
<1>8. ASSUME ~touched', lock' = None PROVE IssuesReal' /\ NothingMissed'
  <2>1. IssuesReal /\ reader.records = 0
    BY <1>1, <1>8 DEF ReaderInv, Early, NothingMissed
  <2>2. IssuesReal'
    BY <1>1, <1>6, <2>1 DEF IssuesReal, Referenced, Copied
  <2>3. NothingMissed'
    BY <1>1, <1>4, <1>6, <1>8, <2>1 DEF NothingMissed
  <2> QED BY <2>2, <2>3
<1> QED BY <1>5, <1>7, <1>8 DEF ReaderInv

(* A call that fails: the diagnosis says so.                               *)
LEMMA ReadFailsNotes ==
  ASSUME ReaderInv, ReadFails
  PROVE  ReaderInv'
PROOF
<1>1. /\ manifest' = manifest /\ files' = files /\ litter' = litter /\ lock' = lock /\ touched' = touched
      /\ seen' = seen /\ overtaken' = overtaken
      /\ Early
  BY DEF ReadFails, Observes, Reading, Early, vars, disk
<1>2. PICK code \in Unreadable : reader' = Rechecks({code})
  BY DEF ReadFails, Observes, Unreadable
<1>3. ReaderTypeOK
  BY DEF ReaderInv
<1>4. {code} \in SUBSET IssueCodes
  BY <1>2 DEF IssueCodes
<1>5. /\ ReaderTypeOK' /\ RestSized'
      /\ reader'.pc = "rechecking" /\ reader'.issues = reader.issues \cup {code}
  BY <1>1, <1>2, <1>3, <1>4, RechecksIs
<1>6. ASSUME ~touched', lock' = None PROVE IssuesReal' /\ NothingMissed'
  <2>1. IssuesReal
    BY <1>1, <1>6 DEF ReaderInv
  <2>2. IssuesReal'
    BY <1>1, <1>2, <1>5, <2>1 DEF IssuesReal, Referenced, Copied, Unreadable, Corruption
  <2>3. NothingMissed'
    BY <1>5 DEF NothingMissed
  <2> QED BY <2>2, <2>3
<1> QED BY <1>5, <1>6 DEF ReaderInv

(* Reporting: the diagnosis is over.                                       *)
LEMMA ConcludesNotes ==
  ASSUME ReaderInv, Concludes
  PROVE  ReaderInv'
PROOF
<1>1. touched' = FALSE /\ reader' = Idle /\ seen' = NothingSeen /\ overtaken' = FALSE
  BY DEF Concludes
<1>2. NothingListed \in [segments : SUBSET Nat, manifest : BOOLEAN, temporary : BOOLEAN, lock : BOOLEAN]
  BY DEF NothingListed
<1>3. <<>> \in Seq(Segments) /\ Len(<<>>) = 0 /\ 0 \in 0 .. MaxRecords
  BY EmptySeq, ReadersAssumption
<1>4. ReaderTypeOK' /\ reader'.pc = "idle" /\ reader'.rest = <<>>
  BY <1>1, <1>2, <1>3 DEF ReaderTypeOK, Idle, NothingSeen
<1> QED BY <1>3, <1>4 DEF ReaderInv, RestSized, Early

(* Looking for the lock, and what the listing tells.                       *)
LEMMA LooksForLockNotes ==
  ASSUME IInv, ReaderInv, LooksForLock
  PROVE  ReaderInv'
PROOF
<1> DEFINE listed == reader.listed
           left == IF listed.temporary THEN {"TEMPORARY_FILES"} ELSE {}
           missing == IF listed.segments # {} \/ listed.temporary \/ listed.lock THEN {"MANIFEST_MISSING"} ELSE {}
<1>1. /\ manifest' = manifest /\ files' = files /\ litter' = litter /\ lock' = lock /\ touched' = touched
      /\ seen' = seen /\ overtaken' = overtaken
      /\ reader.pc = "locking"
      /\ \/ lock # None /\ reader' = [Rechecks({}) EXCEPT !.busy = TRUE]
         \/ lock = None /\ listed.manifest /\ reader' = [Notes(left) EXCEPT !.pc = "statting"]
         \/ lock = None /\ ~listed.manifest /\ reader' = Rechecks(left \cup missing)
  BY DEF LooksForLock, Observes, Reading, vars, disk
<1>2. ReaderTypeOK /\ RestSized
  BY DEF ReaderInv
<1>3. /\ left \subseteq {"TEMPORARY_FILES"} /\ ("TEMPORARY_FILES" \in left <=> listed.temporary)
      /\ missing \subseteq {"MANIFEST_MISSING"}
      /\ "MANIFEST_MISSING" \in missing <=> listed.segments # {} \/ listed.temporary \/ listed.lock
  OBVIOUS
<1>4. ~touched /\ lock = None =>
        /\ IssuesReal /\ reader.records = 0 /\ (reader.found <=> manifest # None) /\ (listed.manifest <=> manifest # None)
        /\ listed.segments = DOMAIN files /\ (listed.temporary <=> litter) /\ ~listed.lock
  BY <1>1 DEF ReaderInv, Early, NothingMissed
<1> HIDE DEF left, missing, listed
<1>5. CASE lock # None
  <2> DEFINE r == Rechecks({})
  <2>1. NothingListed \in [segments : SUBSET Nat, manifest : BOOLEAN, temporary : BOOLEAN, lock : BOOLEAN]
    BY DEF NothingListed
  <2>2. <<>> \in Seq(Segments) /\ Len(<<>>) = 0
    BY EmptySeq
  <2>3. reader' = [pc |-> "rechecking", listed |-> NothingListed, found |-> reader.found,
                   statted |-> reader.statted, busy |-> TRUE, changed |-> reader.changed,
                   rest |-> <<>>, records |-> 0, issues |-> reader.issues]
    <3>1. reader' = [[[reader EXCEPT !.issues = @ \cup {}]
                       EXCEPT !.pc = "rechecking", !.listed = NothingListed, !.rest = <<>>, !.records = 0]
                       EXCEPT !.busy = TRUE]
      BY <1>1, <1>5 DEF Rechecks, Notes
    <3>2. reader.issues \cup {} = reader.issues
      OBVIOUS
    <3> QED BY <1>2, <3>1, <3>2 DEF ReaderTypeOK
  <2>4. ReaderTypeOK' /\ reader'.rest = <<>>
    <3>1. /\ reader.found \in BOOLEAN /\ reader.statted \in BOOLEAN /\ reader.changed \in BOOLEAN
          /\ reader.issues \in SUBSET IssueCodes /\ touched' \in BOOLEAN /\ 0 \in 0 .. MaxRecords
          /\ seen' \in [exportable : BOOLEAN, empty : BOOLEAN] /\ overtaken' \in BOOLEAN
      BY <1>1, <1>2, ReadersAssumption DEF ReaderTypeOK
    <3>2. ReaderTypeOK'
      <4>1. "rechecking" \in Stages /\ TRUE \in BOOLEAN
        BY DEF Stages
      <4>2. /\ reader' = [pc |-> reader'.pc, listed |-> reader'.listed, found |-> reader'.found,
                          statted |-> reader'.statted, busy |-> reader'.busy, changed |-> reader'.changed,
                          rest |-> reader'.rest, records |-> reader'.records, issues |-> reader'.issues]
            /\ reader'.pc = "rechecking" /\ reader'.listed = NothingListed /\ reader'.found = reader.found
            /\ reader'.statted = reader.statted /\ reader'.busy = TRUE /\ reader'.changed = reader.changed
            /\ reader'.rest = <<>> /\ reader'.records = 0 /\ reader'.issues = reader.issues
        BY <2>3
      <4> QED BY <2>1, <2>2, <3>1, <4>1, <4>2, ReaderTyped
    <3> QED BY <2>3, <3>2
  <2> QED BY <1>1, <1>5, <2>2, <2>4 DEF ReaderInv, RestSized
<1>6. CASE lock = None /\ listed.manifest
  <2>1. reader' = [[reader EXCEPT !.issues = @ \cup left] EXCEPT !.pc = "statting"]
    BY <1>1, <1>6 DEF Notes
  <2>2. ReaderTypeOK'
    BY <1>1, <1>2, <1>3, <2>1 DEF ReaderTypeOK, IssueCodes, Leftovers
  <2>3. /\ reader'.pc = "statting" /\ reader'.issues = reader.issues \cup left /\ reader'.found = reader.found
        /\ reader'.listed = listed /\ reader'.rest = reader.rest /\ reader'.records = reader.records
    BY <1>2, <2>1 DEF ReaderTypeOK, listed
  <2>4. RestSized'
    BY <1>2, <2>3 DEF RestSized
  <2>5. ASSUME ~touched', lock' = None PROVE IssuesReal' /\ NothingMissed'
    <3>1. /\ IssuesReal /\ reader.records = 0 /\ reader.found /\ manifest # None
          /\ listed.segments = DOMAIN files /\ (listed.temporary <=> litter)
      BY <1>1, <1>4, <1>6, <2>5
    <3>2. IssuesReal'
      BY <1>1, <1>3, <2>3, <3>1 DEF IssuesReal, Referenced, Copied, Corruption
    <3>3. NothingMissed'
      BY <1>1, <1>3, <2>3, <3>1 DEF NothingMissed
    <3> QED BY <3>2, <3>3
  <2> QED BY <2>2, <2>4, <2>5 DEF ReaderInv
<1>7. CASE lock = None /\ ~listed.manifest
  <2> DEFINE codes == left \cup missing
  <2>1. codes \in SUBSET IssueCodes /\ reader' = Rechecks(codes)
    BY <1>1, <1>3, <1>7 DEF IssueCodes, Leftovers
  <2>2. codes \subseteq {"TEMPORARY_FILES", "MANIFEST_MISSING"}
        /\ ("TEMPORARY_FILES" \in codes <=> listed.temporary)
        /\ ("MANIFEST_MISSING" \in codes <=> listed.segments # {} \/ listed.temporary \/ listed.lock)
    BY <1>3
  <2> HIDE DEF codes
  <2>3. /\ ReaderTypeOK' /\ RestSized'
        /\ reader'.pc = "rechecking" /\ reader'.issues = reader.issues \cup codes
        /\ reader'.found = reader.found /\ reader'.busy = reader.busy
    BY <1>1, <1>2, <2>1, RechecksIs
  <2>4. ASSUME ~touched', lock' = None PROVE IssuesReal' /\ NothingMissed'
    <3>1. /\ IssuesReal /\ ~reader.found /\ manifest = None
          /\ listed.segments = DOMAIN files /\ (listed.temporary <=> litter) /\ ~listed.lock
      BY <1>1, <1>4, <1>7, <2>4
    <3>2. IssuesReal'
      BY <1>1, <2>2, <2>3, <3>1 DEF IssuesReal, Referenced, Copied, Corruption
    <3>3. reader'.issues = {} => DOMAIN files = {} /\ ~litter
      BY <2>2, <2>3, <3>1
    <3>4. manifest = None => files = <<>>
      BY DEF IInv, Witnessed, Directory
    <3>5. NothingMissed'
      BY <1>1, <2>3, <3>1, <3>3, <3>4 DEF NothingMissed, DirectoryEmpty
    <3> QED BY <3>2, <3>5
  <2> QED BY <2>3, <2>4 DEF ReaderInv
<1> QED BY <1>5, <1>6, <1>7

(* The manifest's stat is taken: there is a manifest.                      *)
LEMMA StatsManifestNotes ==
  ASSUME ReaderInv, StatsManifest
  PROVE  ReaderInv'
PROOF
<1>1. /\ manifest' = manifest /\ files' = files /\ litter' = litter /\ lock' = lock /\ touched' = touched
      /\ seen' = seen /\ overtaken' = overtaken /\ reader.pc = "statting"
      /\ reader' = IF manifest = None THEN Rechecks({"MANIFEST_UNREADABLE"})
                   ELSE [reader EXCEPT !.pc = "manifest", !.statted = TRUE]
  BY DEF StatsManifest, Observes, Reading, vars, disk
<1>2. ReaderTypeOK /\ RestSized
  BY DEF ReaderInv
<1>3. ~touched /\ lock = None =>
        /\ IssuesReal /\ reader.records = 0 /\ reader.found /\ manifest # None
        /\ reader.listed.segments = DOMAIN files
        /\ litter => "TEMPORARY_FILES" \in reader.issues
  BY <1>1 DEF ReaderInv, Early, NothingMissed
<1>4. CASE manifest = None
  <2>1. {"MANIFEST_UNREADABLE"} \in SUBSET IssueCodes /\ reader' = Rechecks({"MANIFEST_UNREADABLE"})
    BY <1>1, <1>4 DEF IssueCodes, Unreadable
  <2>2. ReaderTypeOK' /\ RestSized'
    BY <1>1, <1>2, <2>1, RechecksIs
  <2> QED BY <1>1, <1>3, <1>4, <2>2 DEF ReaderInv
<1>5. CASE manifest # None
  <2>1. reader' = [reader EXCEPT !.pc = "manifest", !.statted = TRUE]
    BY <1>1, <1>5
  <2>2. ReaderTypeOK'
    BY <1>1, <1>2, <2>1 DEF ReaderTypeOK
  <2>3. /\ reader'.pc = "manifest" /\ reader'.issues = reader.issues /\ reader'.found = reader.found
        /\ reader'.listed = reader.listed /\ reader'.rest = reader.rest /\ reader'.records = reader.records
    BY <1>2, <2>1 DEF ReaderTypeOK
  <2>4. RestSized'
    BY <1>2, <2>3 DEF RestSized
  <2>5. ASSUME ~touched', lock' = None PROVE IssuesReal' /\ NothingMissed'
    <3>1. /\ IssuesReal /\ reader.records = 0 /\ reader.found /\ manifest # None
          /\ reader.listed.segments = DOMAIN files
          /\ litter => "TEMPORARY_FILES" \in reader.issues
      BY <1>1, <1>3, <2>5
    <3>2. IssuesReal'
      BY <1>1, <2>3, <3>1 DEF IssuesReal, Referenced, Copied
    <3>3. NothingMissed'
      BY <1>1, <2>3, <3>1 DEF NothingMissed
    <3> QED BY <3>2, <3>3
  <2> QED BY <2>2, <2>4, <2>5 DEF ReaderInv
<1> QED BY <1>4, <1>5

(* Reading the manifest: it is whole, and its segments are to be read.     *)
LEMMA ReadsManifestNotes ==
  ASSUME IInv, ReaderInv, ReadsManifest
  PROVE  ReaderInv'
PROOF
<1> DEFINE p == ViewOf(manifest)
           named == {FileOf(s) : s \in Range(p)}
           unreferenced == reader.listed.segments \ named
           codes == IF unreferenced = {} THEN {} ELSE {"UNREFERENCED_SEGMENTS"}
<1>1. /\ manifest' = manifest /\ files' = files /\ litter' = litter /\ lock' = lock /\ touched' = touched
      /\ seen' = seen /\ overtaken' = overtaken
      /\ reader.pc = "manifest"
      /\ \/ manifest = None /\ reader' = Rechecks({"MANIFEST_UNREADABLE"})
         \/ manifest # None /\ ~WellFormed(manifest)
         \/ /\ manifest # None
            /\ reader' = [Notes(codes) EXCEPT !.pc = "segments", !.listed = NothingListed, !.rest = p]
  BY DEF ReadsManifest, Observes, Reading, vars, disk
<1>2. ReaderTypeOK
  BY DEF ReaderInv
<1>3. PICK full \in Histories : Chain(p, files, full)
  BY DEF IInv, Witnessed, Directory
<1>4. p \in Seq(Segments) /\ (manifest # None => p = manifest)
  BY <1>3 DEF Chain, ViewOf
<1>5. ~touched /\ lock = None =>
        /\ IssuesReal /\ reader.records = 0 /\ reader.found /\ manifest # None
        /\ reader.listed.segments = DOMAIN files
        /\ litter => "TEMPORARY_FILES" \in reader.issues
  BY <1>1 DEF ReaderInv, Early, NothingMissed
<1>6. /\ codes \subseteq {"UNREFERENCED_SEGMENTS"}
      /\ "UNREFERENCED_SEGMENTS" \in codes <=> ~(reader.listed.segments \subseteq named)
  OBVIOUS
<1> HIDE DEF codes, named, p
<1>7. CASE manifest = None
  <2>1. {"MANIFEST_UNREADABLE"} \in SUBSET IssueCodes /\ reader' = Rechecks({"MANIFEST_UNREADABLE"})
    BY <1>1, <1>7 DEF IssueCodes, Unreadable
  <2>2. ReaderTypeOK' /\ RestSized' /\ reader'.pc = "rechecking"
    BY <1>1, <1>2, <2>1, RechecksIs
  <2>3. touched' \/ lock' # None
    BY <1>1, <1>5, <1>7
  <2> QED BY <2>2, <2>3 DEF ReaderInv
<1>8. CASE manifest # None
  <2>1. WellFormed(manifest)
    BY <1>4, <1>8, InvariantVerifies DEF ManifestVerified, Published, p
  <2>2. reader' = [[reader EXCEPT !.issues = @ \cup codes]
                     EXCEPT !.pc = "segments", !.listed = NothingListed, !.rest = p]
    BY <1>1, <1>8, <2>1 DEF Notes
  <2>3. ReaderTypeOK'
    <3>1. reader.issues \cup codes \in SUBSET IssueCodes
      BY <1>2, <1>6 DEF ReaderTypeOK, IssueCodes, Leftovers
    <3>2. touched' \in BOOLEAN
      BY <1>1, <1>2 DEF ReaderTypeOK
    <3>3. reader' = [pc |-> "segments", listed |-> NothingListed, found |-> reader.found,
                     statted |-> reader.statted, busy |-> reader.busy, changed |-> reader.changed,
                     rest |-> p, records |-> reader.records, issues |-> reader.issues \cup codes]
      BY <1>2, <2>2 DEF ReaderTypeOK
    <3>4. NothingListed \in [segments : SUBSET Nat, manifest : BOOLEAN, temporary : BOOLEAN, lock : BOOLEAN]
      BY DEF NothingListed
    <3>5. /\ reader.found \in BOOLEAN /\ reader.statted \in BOOLEAN
          /\ reader.busy \in BOOLEAN /\ reader.changed \in BOOLEAN /\ reader.records \in 0 .. MaxRecords
          /\ seen' \in [exportable : BOOLEAN, empty : BOOLEAN] /\ overtaken' \in BOOLEAN
      BY <1>1, <1>2 DEF ReaderTypeOK
    <3>6. "segments" \in Stages
      BY DEF Stages
    <3>7. /\ reader' = [pc |-> reader'.pc, listed |-> reader'.listed, found |-> reader'.found,
                        statted |-> reader'.statted, busy |-> reader'.busy, changed |-> reader'.changed,
                        rest |-> reader'.rest, records |-> reader'.records, issues |-> reader'.issues]
          /\ reader'.pc = "segments" /\ reader'.listed = NothingListed /\ reader'.found = reader.found
          /\ reader'.statted = reader.statted /\ reader'.busy = reader.busy /\ reader'.changed = reader.changed
          /\ reader'.rest = p /\ reader'.records = reader.records /\ reader'.issues = reader.issues \cup codes
      BY <3>3
    <3> QED BY <1>4, <3>1, <3>2, <3>4, <3>5, <3>6, <3>7, ReaderTyped
  <2>4. /\ reader'.pc = "segments" /\ reader'.issues = reader.issues \cup codes /\ reader'.rest = p
        /\ reader'.found = reader.found /\ reader'.records = reader.records
    BY <1>2, <2>2 DEF ReaderTypeOK
  <2>5. \A i \in 1 .. Len(p) : p[i].size # 0
    <3> SUFFICES ASSUME NEW i \in 1 .. Len(p) PROVE p[i].size # 0
      OBVIOUS
    <3> QED BY <1>3, SegmentBytes
  <2>6. RestSized'
    BY <2>4, <2>5 DEF RestSized
  <2>7. ASSUME ~touched', lock' = None PROVE IssuesReal' /\ NothingMissed'
    <3>1. /\ IssuesReal /\ reader.records = 0 /\ reader.found
          /\ reader.listed.segments = DOMAIN files /\ (litter => "TEMPORARY_FILES" \in reader.issues)
      BY <1>1, <1>5, <2>7
    <3>2. Referenced = named
      BY <1>4, <1>8 DEF Referenced, named
    <3>3. IssuesReal'
      <4>1. "UNREFERENCED_SEGMENTS" \in reader'.issues => manifest # None /\ DOMAIN files # Referenced
        <5>1. "UNREFERENCED_SEGMENTS" \in codes => DOMAIN files # Referenced
          BY <1>6, <3>1, <3>2
        <5>2. "UNREFERENCED_SEGMENTS" \in reader.issues => DOMAIN files # Referenced
          BY <3>1 DEF IssuesReal
        <5> QED BY <1>8, <2>4, <5>1, <5>2
      <4>2. /\ reader.issues \cap Corruption = {} => reader'.issues \cap Corruption = {}
            /\ \A c \in {"TEMPORARY_FILES", "MANIFEST_MISSING", "UNCOMMITTED_TAIL", "VERIFICATION_LIMIT"} :
                 c \in reader'.issues => c \in reader.issues
        BY <1>6, <2>4 DEF Corruption
      <4> QED BY <1>1, <3>1, <4>1, <4>2 DEF IssuesReal, Referenced, Copied
    <3>4. Scanned(0)'
      <4>1. 0 \in 0 .. Len(manifest) /\ SubSeq(manifest, 1, Len(manifest)) = manifest /\ 0 + 1 = 1
        BY <1>4, <1>8, SubSeqFull, LenProperties
      <4> QED BY <1>1, <1>4, <1>8, <2>4, <3>1, <4>1 DEF Scanned
    <3>5. DOMAIN files \subseteq Referenced \/ "UNREFERENCED_SEGMENTS" \in reader'.issues
      BY <1>6, <2>4, <3>1, <3>2
    <3>6. NothingMissed'
      BY <1>1, <1>8, <2>4, <3>1, <3>4, <3>5 DEF NothingMissed, Referenced
    <3> QED BY <3>3, <3>6
  <2> QED BY <2>3, <2>6, <2>7 DEF ReaderInv
<1> QED BY <1>7, <1>8

(* What is left after the first of the rest was read.                      *)
LEMMA TailOfRest ==
  ASSUME NEW S, NEW s \in Seq(S), NEW n \in 0 .. Len(s), SubSeq(s, n + 1, Len(s)) # <<>>
  PROVE  LET rest == SubSeq(s, n + 1, Len(s))
         IN  /\ n + 1 \in 1 .. Len(s) /\ Head(rest) = s[n + 1] /\ Len(rest) = Len(s) - n
             /\ Tail(rest) = SubSeq(s, n + 2, Len(s))
             /\ Len(rest) = 1 <=> n + 1 = Len(s)
PROOF
<1> DEFINE rest == SubSeq(s, n + 1, Len(s))
           tail == SubSeq(s, n + 2, Len(s))
<1>1. Len(s) \in Nat /\ rest \in Seq(S) /\ Len(rest) = Len(s) - n
      /\ \A i \in 1 .. Len(s) - n : rest[i] = s[n + i]
  BY LenProperties, RestOf
<1>2. n < Len(s)
  <2>1. Len(rest) # 0
    BY <1>1, EmptySeq
  <2> QED BY <1>1, <2>1
<1> HIDE DEF rest
<1>3. n + 1 \in 0 .. Len(s) /\ (n + 1) + 1 = n + 2 /\ n + 1 \in 1 .. Len(s)
  BY <1>1, <1>2
<1>4. /\ tail \in Seq(S) /\ Len(tail) = Len(s) - (n + 1)
      /\ \A i \in 1 .. Len(s) - (n + 1) : tail[i] = s[(n + 1) + i]
  BY <1>3, RestOf
<1> HIDE DEF tail
<1>5. rest # <<>> /\ Head(rest) = rest[1]
  <2>1. rest # <<>>
    BY <1>1, <1>2, EmptySeq
  <2> QED BY <1>1, <2>1, HeadTailProperties
<1>6. Head(rest) = s[n + 1]
  BY <1>1, <1>2, <1>5
<1>7. Tail(rest) = tail
  <2>1. /\ Tail(rest) \in Seq(S) /\ Len(Tail(rest)) = Len(rest) - 1
        /\ \A i \in 1 .. Len(Tail(rest)) : Tail(rest)[i] = rest[i + 1]
    BY <1>1, <1>5, HeadTailProperties
  <2>2. Len(Tail(rest)) = Len(tail)
    BY <1>1, <1>2, <1>4, <2>1
  <2>3. \A i \in 1 .. Len(tail) : Tail(rest)[i] = tail[i]
    <3> SUFFICES ASSUME NEW i \in 1 .. Len(tail) PROVE Tail(rest)[i] = tail[i]
      OBVIOUS
    <3>1. i + 1 \in 1 .. Len(s) - n /\ i \in 1 .. Len(Tail(rest)) /\ i \in 1 .. Len(s) - (n + 1)
      BY <1>1, <1>2, <1>4, <2>1, <2>2
    <3>2. Tail(rest)[i] = rest[i + 1] /\ rest[i + 1] = s[n + (i + 1)] /\ tail[i] = s[(n + 1) + i]
      BY <1>1, <1>4, <2>1, <3>1
    <3>3. n + (i + 1) = (n + 1) + i
      BY <1>1
    <3> QED BY <3>2, <3>3
  <2> QED BY <1>4, <2>1, <2>2, <2>3, SeqEqual
<1>8. Len(rest) = 1 <=> n + 1 = Len(s)
  BY <1>1
<1> QED BY <1>1, <1>3, <1>6, <1>7, <1>8 DEF rest, tail

(* The segment a diagnosis reads next, and the records it has counted.     *)
LEMMA ScannedNext ==
  ASSUME IInv, manifest # None, NEW n \in Nat, Scanned(n), reader.rest # <<>>
  PROVE  LET s == Head(reader.rest)
         IN  /\ n + 1 \in 1 .. Len(manifest) /\ s = manifest[n + 1]
             /\ Len(reader.rest) = 1 <=> n + 1 = Len(manifest)
             /\ Tail(reader.rest) = SubSeq(manifest, n + 2, Len(manifest))
             /\ reader.records = Len(s.start) - Len(manifest[1].start)
             /\ reader.records + RecordCount(s) = Len(s.head) - Len(manifest[1].start)
PROOF
<1>1. PICK full \in Histories : Chain(manifest, files, full)
  BY DEF IInv, Witnessed, Directory, ViewOf
<1>2. manifest \in Seq(Segments) /\ Cut(manifest, full)
  BY <1>1 DEF Chain
<1>3. /\ n \in 0 .. Len(manifest) /\ reader.rest = SubSeq(manifest, n + 1, Len(manifest))
      /\ reader.records = IF n = 0 THEN 0 ELSE Len(manifest[n].head) - Len(manifest[1].start)
  BY DEF Scanned
<1> DEFINE s == Head(reader.rest)
<1>4. /\ n + 1 \in 1 .. Len(manifest) /\ s = manifest[n + 1]
      /\ Len(reader.rest) = 1 <=> n + 1 = Len(manifest)
      /\ Tail(reader.rest) = SubSeq(manifest, n + 2, Len(manifest))
  BY <1>2, <1>3, TailOfRest
<1> HIDE DEF s
<1>5. /\ Len(s.start) \in Nat /\ Len(s.head) \in Nat /\ RecordCount(s) = Len(s.head) - Len(s.start)
      /\ Len(manifest[1].start) \in Nat
  <2>1. 1 \in 1 .. Len(manifest)
    BY <1>2, <1>4, LenProperties
  <2> QED BY <1>2, <1>4, <2>1, SegmentTyped
<1>6. n # 0 => s.start = manifest[n].head
  <2>1. n # 0 => (n + 1) - 1 = n /\ n + 1 > 1
    OBVIOUS
  <2> QED BY <1>2, <1>4, <2>1 DEF Cut
<1>7. reader.records = Len(s.start) - Len(manifest[1].start)
  <2>1. CASE n = 0
    <3>1. s = manifest[1]
      BY <1>4, <2>1
    <3> QED BY <1>3, <1>5, <2>1, <3>1
  <2>2. CASE n # 0
    BY <1>3, <1>6, <2>2
  <2> QED BY <2>1, <2>2
<1>8. reader.records + RecordCount(s) = Len(s.head) - Len(manifest[1].start)
  BY <1>5, <1>7
<1> QED BY <1>4, <1>7, <1>8 DEF s

(* A directory read to its end without an issue is one the export accepts. *)
LEMMA AllScanned ==
  ASSUME IInv, ReaderTypeOK, MaxRecords \in Nat, manifest # None, NEW n \in Nat, Scanned(n),
         reader.rest = <<>>, ~litter, DOMAIN files \subseteq Referenced
  PROVE  Exportable
PROOF
<1>1. PICK full \in Histories : Chain(manifest, files, full)
  BY DEF IInv, Witnessed, Directory, ViewOf
<1>2. manifest \in Seq(Segments) /\ Committed(manifest, files) /\ Len(manifest) \in Nat
      /\ DOMAIN manifest = 1 .. Len(manifest)
  BY <1>1, LenProperties DEF Chain
<1>3. n = Len(manifest)
  <2>1. n \in 0 .. Len(manifest) /\ reader.rest = SubSeq(manifest, n + 1, Len(manifest))
    BY DEF Scanned
  <2>2. Len(reader.rest) = Len(manifest) - n /\ Len(reader.rest) = 0
    BY <1>2, <2>1, RestOf, EmptySeq
  <2>3. Len(manifest) - n = 0
    BY <2>2
  <2>4. n \in Nat /\ Len(manifest) \in Nat
    BY <1>2
  <2> QED
    <3> HIDE DEF Scanned
    <3> QED BY <2>3, <2>4
<1>4. \A s \in Range(manifest) : \E i \in 1 .. Len(manifest) : s = manifest[i]
  BY <1>2 DEF Range
<1>5. \A s \in Range(manifest) : Copied(s)
  BY <1>3, <1>4 DEF Scanned
<1>6. DOMAIN files = {FileOf(s) : s \in Range(manifest)}
  <2>1. \A s \in Range(manifest) : FileOf(s) \in DOMAIN files
    BY <1>2, <1>4 DEF Committed
  <2> QED BY <2>1 DEF Referenced
<1>7. WellFormed(manifest)
  BY InvariantVerifies DEF ManifestVerified, Published, ViewOf
<1>8. Declared(manifest) <= MaxRecords
  <2>1. reader.records \in 0 .. MaxRecords
    BY DEF ReaderTypeOK
  <2>2. CASE manifest = <<>>
    BY <2>2 DEF Declared
  <2>3. CASE manifest # <<>>
    <3>1. n # 0
      BY <1>2, <1>3, <2>3, EmptySeq
    <3>2. HeadOf(manifest) = manifest[n].head
      BY <1>2, <1>3, <2>3, LastOf DEF HeadOf
    <3>3. reader.records = Declared(manifest)
      BY <2>3, <3>1, <3>2 DEF Declared, Scanned
    <3> QED BY <2>1, <3>3
  <2> QED BY <2>2, <2>3
<1> QED BY <1>5, <1>6, <1>7, <1>8 DEF Exportable

(* Reading the end of the manifest.                                        *)
LEMMA LastSegmentNotes ==
  ASSUME IInv, ReaderInv, VerifiesSegment, reader.rest = <<>>
  PROVE  ReaderInv'
PROOF
<1>1. /\ manifest' = manifest /\ files' = files /\ litter' = litter /\ lock' = lock /\ touched' = touched
      /\ seen' = seen /\ overtaken' = overtaken
      /\ reader.pc = "segments" /\ reader' = Rechecks({})
  BY DEF VerifiesSegment, Observes, Reading, vars, disk
<1>2. ReaderTypeOK
  BY DEF ReaderInv
<1>3. /\ ReaderTypeOK' /\ RestSized'
      /\ reader'.pc = "rechecking" /\ reader'.issues = reader.issues /\ reader'.found = reader.found
  <2>1. {} \in SUBSET IssueCodes /\ reader.issues \cup {} = reader.issues
    OBVIOUS
  <2>2. /\ ReaderTypeOK' /\ RestSized'
        /\ reader'.pc = "rechecking" /\ reader'.issues = reader.issues \cup {} /\ reader'.found = reader.found
    BY <1>1, <1>2, <2>1, RechecksIs
  <2> QED BY <2>1, <2>2
<1>4. ASSUME ~touched', lock' = None PROVE IssuesReal' /\ NothingMissed'
  <2>1. /\ IssuesReal /\ reader.found /\ manifest # None
        /\ litter => "TEMPORARY_FILES" \in reader.issues
        /\ DOMAIN files \subseteq Referenced \/ "UNREFERENCED_SEGMENTS" \in reader.issues
        /\ \E n \in Nat : Scanned(n)
    BY <1>1, <1>4 DEF ReaderInv, Early, NothingMissed
  <2>2. IssuesReal'
    BY <1>1, <1>3, <2>1 DEF IssuesReal, Referenced, Copied
  <2>3. reader.issues = {} => Exportable
    BY <1>2, <2>1, AllScanned, ReadersAssumption
  <2>4. Exportable => Exportable'
    BY <1>1 DEF Exportable, Copied
  <2>5. NothingMissed'
    BY <1>3, <2>1, <2>3, <2>4 DEF NothingMissed
  <2> QED BY <2>2, <2>5
<1> QED BY <1>3, <1>4 DEF ReaderInv

(* Reading a segment in which something is wrong.                          *)
LEMMA SegmentIssueNotes ==
  ASSUME IInv, ReaderInv, VerifiesSegment, reader.rest # <<>>,
         SegmentIssue(Head(reader.rest), Len(reader.rest) = 1) # {}
  PROVE  ReaderInv'
PROOF
<1> DEFINE issue == SegmentIssue(Head(reader.rest), Len(reader.rest) = 1)
<1>1. /\ manifest' = manifest /\ files' = files /\ litter' = litter /\ lock' = lock /\ touched' = touched
      /\ seen' = seen /\ overtaken' = overtaken
      /\ reader.pc = "segments" /\ reader' = Rechecks(issue)
  BY DEF VerifiesSegment, Observes, Reading, vars, disk
<1>2. ReaderTypeOK
  BY DEF ReaderInv
<1>3. issue \in SUBSET IssueCodes
  BY DEF SegmentIssue, IssueCodes, Corruption, Unreadable, Leftovers
<1> HIDE DEF issue
<1>4. /\ ReaderTypeOK' /\ RestSized'
      /\ reader'.pc = "rechecking" /\ reader'.issues = reader.issues \cup issue
  BY <1>1, <1>2, <1>3, RechecksIs
<1>5. ASSUME ~touched', lock' = None PROVE IssuesReal' /\ NothingMissed'
  <2>1. IssuesReal /\ manifest # None /\ \E n \in Nat : Scanned(n)
    BY <1>1, <1>5 DEF ReaderInv, Early, NothingMissed
  <2>2. PICK n \in Nat : Scanned(n)
    BY <2>1
  <2>3. PICK full \in Histories : Chain(manifest, files, full)
    BY <2>1 DEF IInv, Witnessed, Directory, ViewOf
  <2>4. /\ n + 1 \in 1 .. Len(manifest) /\ Head(reader.rest) = manifest[n + 1]
        /\ Len(reader.rest) = 1 <=> n + 1 = Len(manifest)
        /\ reader.records = Len(manifest[n + 1].start) - Len(manifest[1].start)
    BY <2>1, <2>2, ScannedNext
  <2>5. issue = SegmentIssue(manifest[n + 1], n + 1 = Len(manifest))
    BY <2>4 DEF issue
  <2>6. \/ issue = {"UNCOMMITTED_TAIL"} /\ ~Copied(manifest[n + 1])
        \/ issue = {"VERIFICATION_LIMIT"} /\ ~(Declared(manifest) <= MaxRecords)
    <3>1. MaxRecords \in Nat /\ reader.records \in 0 .. MaxRecords
      BY <1>2, ReadersAssumption DEF ReaderTypeOK
    <3>2. issue # {}
      BY DEF issue
    <3> QED BY <2>3, <2>4, <2>5, <3>1, <3>2, SegmentSeen
  <2>7. manifest[n + 1] \in Range(manifest)
    <3>1. DOMAIN manifest = 1 .. Len(manifest)
      BY <2>3, LenProperties DEF Chain
    <3> QED BY <2>4, <3>1 DEF Range
  <2>8. IssuesReal'
    BY <1>1, <1>4, <2>1, <2>6, <2>7 DEF IssuesReal, Referenced, Copied, Corruption
  <2>9. NothingMissed'
    BY <1>4, <2>6 DEF NothingMissed
  <2> QED BY <2>8, <2>9
<1> QED BY <1>4, <1>5 DEF ReaderInv

(* Reading a segment in which nothing is wrong.                            *)
LEMMA SegmentNotes ==
  ASSUME IInv, ReaderInv, VerifiesSegment, reader.rest # <<>>,
         SegmentIssue(Head(reader.rest), Len(reader.rest) = 1) = {}
  PROVE  ReaderInv'
PROOF
<1> DEFINE s == Head(reader.rest)
           counted == reader.records + RecordCount(s)
           rest == Tail(reader.rest)
<1>1. /\ manifest' = manifest /\ files' = files /\ litter' = litter /\ lock' = lock /\ touched' = touched
      /\ seen' = seen /\ overtaken' = overtaken
      /\ reader.pc = "segments"
      /\ reader' = [reader EXCEPT !.rest = Tail(reader.rest), !.records = counted]
  <2>1. reader' = [reader EXCEPT !.rest = Tail(@), !.records = @ + RecordCount(s)]
    BY DEF VerifiesSegment, Observes
  <2>2. ReaderTypeOK
    BY DEF ReaderInv
  <2>3. [reader EXCEPT !.rest = Tail(@), !.records = @ + RecordCount(s)] =
          [reader EXCEPT !.rest = Tail(reader.rest), !.records = counted]
    <3> HIDE DEF s
    <3> QED BY <2>2 DEF ReaderTypeOK
  <2> QED BY <2>1, <2>3 DEF VerifiesSegment, Observes, Reading, vars, disk
<1>2. ReaderTypeOK /\ RestSized
  BY DEF ReaderInv
<1>3. /\ reader.rest \in Seq(Segments) /\ s \in Segments /\ rest \in Seq(Segments)
      /\ Len(reader.rest) \in Nat /\ Len(rest) = Len(reader.rest) - 1 /\ Head(reader.rest) = reader.rest[1]
      /\ \A i \in 1 .. Len(rest) : rest[i] = reader.rest[i + 1]
  <2>1. reader.rest \in Seq(Segments)
    BY <1>2 DEF ReaderTypeOK
  <2> QED BY <2>1, HeadTailProperties, LenProperties
<1>4. \A i \in 1 .. Len(rest) : rest[i].size # 0
  <2> SUFFICES ASSUME NEW i \in 1 .. Len(rest) PROVE rest[i].size # 0
    OBVIOUS
  <2>1. i + 1 \in 1 .. Len(reader.rest)
    BY <1>3
  <2> QED BY <1>2, <1>3, <2>1 DEF RestSized
<1>5. s.size # 0
  <2>1. 1 \in 1 .. Len(reader.rest)
    BY <1>3, EmptySeq
  <2> QED BY <1>2, <1>3, <2>1 DEF RestSized
<1>6. PICK full \in Histories : Chain(ViewOf(manifest), files, full)
  BY DEF IInv, Witnessed, Directory
<1>7. counted \in 0 .. MaxRecords
  <2>1. MaxRecords \in Nat /\ reader.records \in 0 .. MaxRecords /\ (Len(reader.rest) = 1) \in BOOLEAN
    BY <1>2, ReadersAssumption DEF ReaderTypeOK
  <2> HIDE DEF s
  <2>2. SegmentIssue(s, Len(reader.rest) = 1) = {}
    BY DEF s
  <2> QED BY <1>3, <1>5, <1>6, <2>1, <2>2, SegmentCounted
<1>8. ASSUME ~touched', lock' = None
      PROVE  \E n \in Nat : /\ n + 1 \in 1 .. Len(manifest) /\ s = manifest[n + 1]
                            /\ rest = SubSeq(manifest, n + 2, Len(manifest))
                            /\ counted = Len(s.head) - Len(manifest[1].start)
                            /\ \A i \in 1 .. n + 1 : Copied(manifest[i])
  <2>1. manifest # None /\ \E n \in Nat : Scanned(n)
    BY <1>1, <1>8 DEF ReaderInv, Early, NothingMissed
  <2>2. PICK n \in Nat : Scanned(n)
    BY <2>1
  <2>3. Chain(manifest, files, full)
    BY <1>6, <2>1 DEF ViewOf
  <2>4. /\ n + 1 \in 1 .. Len(manifest) /\ s = manifest[n + 1]
        /\ Len(reader.rest) = 1 <=> n + 1 = Len(manifest)
        /\ rest = SubSeq(manifest, n + 2, Len(manifest))
        /\ reader.records = Len(s.start) - Len(manifest[1].start)
        /\ counted = Len(s.head) - Len(manifest[1].start)
    BY <2>1, <2>2, ScannedNext
  <2>5. Copied(manifest[n + 1])
    <3>1. MaxRecords \in Nat /\ reader.records \in 0 .. MaxRecords
      BY <1>2, ReadersAssumption DEF ReaderTypeOK
    <3>2. SegmentIssue(manifest[n + 1], n + 1 = Len(manifest)) = {}
      BY <2>4
    <3>3. reader.records = Len(manifest[n + 1].start) - Len(manifest[1].start)
      BY <2>4
    <3>4. n + 1 \in 1 .. Len(manifest)
      BY <2>4
    <3>5. \/ SegmentIssue(manifest[n + 1], n + 1 = Len(manifest)) = {} /\ Copied(manifest[n + 1])
          \/ SegmentIssue(manifest[n + 1], n + 1 = Len(manifest)) = {"UNCOMMITTED_TAIL"}
          \/ SegmentIssue(manifest[n + 1], n + 1 = Len(manifest)) = {"VERIFICATION_LIMIT"}
      BY <2>3, <3>1, <3>3, <3>4, SegmentSeen
    <3> QED BY <3>2, <3>5
  <2>6. \A i \in 1 .. n + 1 : i \in 1 .. n \/ i = n + 1
    OBVIOUS
  <2>7. \A i \in 1 .. n + 1 : Copied(manifest[i])
    BY <2>2, <2>5, <2>6 DEF Scanned
  <2> QED BY <2>4, <2>7
<1> HIDE DEF s, counted, rest
<1>9. reader' = [reader EXCEPT !.rest = rest, !.records = counted]
  BY <1>1 DEF rest
<1>10. /\ ReaderTypeOK' /\ reader'.pc = "segments" /\ reader'.rest = rest /\ reader'.records = counted
       /\ reader'.issues = reader.issues /\ reader'.found = reader.found
  BY <1>1, <1>2, <1>3, <1>7, <1>9 DEF ReaderTypeOK
<1>11. RestSized'
  BY <1>4, <1>10 DEF RestSized
<1>12. ASSUME ~touched', lock' = None PROVE IssuesReal' /\ NothingMissed'
  <2>1. /\ IssuesReal /\ reader.found /\ manifest # None
        /\ litter => "TEMPORARY_FILES" \in reader.issues
        /\ DOMAIN files \subseteq Referenced \/ "UNREFERENCED_SEGMENTS" \in reader.issues
    BY <1>1, <1>12 DEF ReaderInv, Early, NothingMissed
  <2>2. PICK n \in Nat : /\ n + 1 \in 1 .. Len(manifest) /\ s = manifest[n + 1]
                         /\ rest = SubSeq(manifest, n + 2, Len(manifest))
                         /\ counted = Len(s.head) - Len(manifest[1].start)
                         /\ \A i \in 1 .. n + 1 : Copied(manifest[i])
    BY <1>8, <1>12
  <2>3. IssuesReal'
    BY <1>1, <1>10, <2>1 DEF IssuesReal, Referenced, Copied
  <2>4. Scanned(n + 1)'
    <3>1. n + 1 \in 0 .. Len(manifest) /\ n + 1 # 0 /\ (n + 1) + 1 = n + 2
      BY <2>2
    <3>2. \A i \in 1 .. n + 1 : Copied(manifest[i])'
      BY <1>1, <2>2 DEF Copied
    <3>3. /\ reader'.rest = SubSeq(manifest, (n + 1) + 1, Len(manifest))
          /\ reader'.records = Len(manifest[n + 1].head) - Len(manifest[1].start)
      BY <1>10, <2>2, <3>1
    <3> QED BY <1>1, <3>1, <3>2, <3>3 DEF Scanned
  <2>5. n + 1 \in Nat
    OBVIOUS
  <2>6. NothingMissed'
    BY <1>1, <1>10, <2>1, <2>4, <2>5 DEF NothingMissed, Referenced
  <2> QED BY <2>3, <2>6
<1> QED BY <1>10, <1>11, <1>12 DEF ReaderInv

(* The comparisons end the reading.                                        *)
LEMMA RechecksDirectoryNotes ==
  ASSUME ReaderInv, RechecksDirectory
  PROVE  ReaderInv' /\ ~Early'
PROOF
<1>1. /\ touched' = FALSE /\ overtaken' = overtaken /\ seen' \in {Present, NothingSeen}
      /\ \/ reader' = [reader EXCEPT !.pc = AfterDirectory]
         \/ reader' = [Idle EXCEPT !.pc = AfterDirectory, !.busy = reader.busy, !.changed = touched]
  BY DEF RechecksDirectory
<1>2. ReaderTypeOK /\ RestSized
  BY DEF ReaderInv
<1>3. NothingListed \in [segments : SUBSET Nat, manifest : BOOLEAN, temporary : BOOLEAN, lock : BOOLEAN]
  BY DEF NothingListed
<1>4. <<>> \in Seq(Segments) /\ Len(<<>>) = 0 /\ 0 \in 0 .. MaxRecords
  BY EmptySeq, ReadersAssumption
<1>5. AfterDirectory \in {"recheckingManifest", "reporting"}
  BY DEF AfterDirectory
<1>6. seen' \in [exportable : BOOLEAN, empty : BOOLEAN]
  <2>1. Exportable \in BOOLEAN /\ DirectoryEmpty \in BOOLEAN
    BY DEF Exportable, DirectoryEmpty
  <2>2. \A x, y \in BOOLEAN : [exportable |-> x, empty |-> y] \in [exportable : BOOLEAN, empty : BOOLEAN]
    OBVIOUS
  <2>3. Present \in [exportable : BOOLEAN, empty : BOOLEAN]
    BY <2>1, <2>2, Zenon DEF Present
  <2>4. NothingSeen \in [exportable : BOOLEAN, empty : BOOLEAN]
    BY DEF NothingSeen
  <2> QED BY <1>1, <2>3, <2>4
<1>7. CASE reader' = [reader EXCEPT !.pc = AfterDirectory]
  <2>1. ReaderTypeOK' /\ reader'.rest = reader.rest /\ reader'.pc = AfterDirectory
    BY <1>1, <1>2, <1>5, <1>6, <1>7 DEF ReaderTypeOK
  <2> QED BY <1>2, <1>5, <2>1 DEF ReaderInv, RestSized, Early
<1>8. CASE reader' = [Idle EXCEPT !.pc = AfterDirectory, !.busy = reader.busy, !.changed = touched]
  <2>1. reader' = [pc |-> AfterDirectory, listed |-> NothingListed, found |-> FALSE, statted |-> FALSE,
                   busy |-> reader.busy, changed |-> touched, rest |-> <<>>, records |-> 0, issues |-> {}]
    BY <1>8 DEF Idle
  <2>2. reader.busy \in BOOLEAN /\ touched \in BOOLEAN /\ {} \in SUBSET IssueCodes
    BY <1>2 DEF ReaderTypeOK
  <2>3. ReaderTypeOK' /\ reader'.rest = <<>> /\ reader'.pc = AfterDirectory
    <3> HIDE DEF NothingListed
    <3>1. /\ FALSE \in BOOLEAN /\ touched' \in BOOLEAN /\ overtaken' \in BOOLEAN
          /\ AfterDirectory \in Stages
      BY <1>1, <1>2, <1>5 DEF ReaderTypeOK, Stages
    <3>2. /\ reader' = [pc |-> reader'.pc, listed |-> reader'.listed, found |-> reader'.found,
                        statted |-> reader'.statted, busy |-> reader'.busy, changed |-> reader'.changed,
                        rest |-> reader'.rest, records |-> reader'.records, issues |-> reader'.issues]
          /\ reader'.pc = AfterDirectory /\ reader'.listed = NothingListed /\ reader'.found = FALSE
          /\ reader'.statted = FALSE /\ reader'.busy = reader.busy /\ reader'.changed = touched
          /\ reader'.rest = <<>> /\ reader'.records = 0 /\ reader'.issues = {}
      BY <2>1
    <3>3. ReaderTypeOK'
      BY <1>3, <1>4, <1>6, <2>2, <3>1, <3>2, ReaderTyped
    <3> QED BY <3>2, <3>3
  <2> QED BY <1>4, <1>5, <2>3 DEF ReaderInv, RestSized, Early
<1> QED BY <1>1, <1>7, <1>8

LEMMA RechecksManifestNotes ==
  ASSUME ReaderInv, RechecksManifest
  PROVE  /\ ReaderInv' /\ ~Early'
         /\ reader'.pc = "reporting" /\ reader'.busy = reader.busy /\ (reader'.changed <=> reader.changed \/ touched)
         /\ reader'.issues = reader.issues /\ reader'.found = reader.found
PROOF
<1>1. /\ touched' = FALSE /\ overtaken' = overtaken /\ seen' = seen
      /\ reader' = [reader EXCEPT !.pc = "reporting", !.changed = @ \/ touched]
  BY DEF RechecksManifest
<1>2. ReaderTypeOK /\ RestSized
  BY DEF ReaderInv
<1> DEFINE doubted == reader.changed \/ touched
<1>3. doubted \in BOOLEAN
  OBVIOUS
<1>4. reader' = [reader EXCEPT !.pc = "reporting", !.changed = doubted]
  BY <1>1, <1>2 DEF ReaderTypeOK
<1> HIDE DEF doubted
<1>5. /\ ReaderTypeOK' /\ reader'.rest = reader.rest
      /\ reader'.pc = "reporting" /\ reader'.busy = reader.busy /\ reader'.changed = doubted
      /\ reader'.issues = reader.issues /\ reader'.found = reader.found
  BY <1>1, <1>2, <1>3, <1>4 DEF ReaderTypeOK
<1>6. RestSized' /\ ~Early'
  BY <1>2, <1>5 DEF RestSized, Early
<1> QED BY <1>5, <1>6 DEF ReaderInv, doubted

(* Every step of a diagnosis only looks, and notes what is true.           *)
LEMMA DiagnosesNotes ==
  ASSUME IInv, ReaderInv, Diagnoses
  PROVE  IInv' /\ ReaderInv'
PROOF
<1>1. UNCHANGED vars
  BY DEF Diagnoses, Looks, Lists, LooksForLock, StatsManifest, ReadsManifest, VerifiesSegment, ReadFails,
         RechecksDirectory, RechecksManifest, RecheckFails, Reports, Concludes, Observes
<1>2. IInv'
  BY <1>1, NextKeeps
<1>3. CASE Looks
  BY <1>2, <1>3, LooksNotes
<1>4. CASE Lists
  BY <1>2, <1>4, ListsNotes
<1>5. CASE LooksForLock
  BY <1>2, <1>5, LooksForLockNotes
<1>6. CASE StatsManifest
  BY <1>2, <1>6, StatsManifestNotes
<1>7. CASE ReadsManifest
  BY <1>2, <1>7, ReadsManifestNotes
<1>8. CASE VerifiesSegment
  BY <1>2, <1>8, LastSegmentNotes, SegmentIssueNotes, SegmentNotes
<1>9. CASE ReadFails
  BY <1>2, <1>9, ReadFailsNotes
<1>10. CASE RechecksDirectory
  BY <1>2, <1>10, RechecksDirectoryNotes
<1>11. CASE RechecksManifest
  BY <1>2, <1>11, RechecksManifestNotes
<1>12. CASE Reports \/ RecheckFails
  BY <1>2, <1>12, ConcludesNotes DEF Reports, RecheckFails
<1> QED BY <1>2, <1>3, <1>4, <1>5, <1>6, <1>7, <1>8, <1>9, <1>10, <1>11, <1>12 DEF Diagnoses

(* What is not left over is corruption, unreadable, or over the limit.     *)
LEMMA IssuesRefuseExport ==
  ASSUME ReaderTypeOK, IssuesReal, reader.issues # {}, reader.issues \cap Unreadable = {}
  PROVE  ~Exportable /\ ~DirectoryEmpty
PROOF
<1>1. PICK code \in IssueCodes : code \in reader.issues
  BY DEF ReaderTypeOK
<1>2. code \in Leftovers \cup {"VERIFICATION_LIMIT"}
  BY <1>1 DEF IssuesReal, IssueCodes
<1>3. DOMAIN <<>> = {}
  OBVIOUS
<1>4. CASE code = "MANIFEST_MISSING"
  BY <1>1, <1>3, <1>4 DEF IssuesReal, Exportable, DirectoryEmpty
<1>5. CASE code = "TEMPORARY_FILES"
  BY <1>1, <1>5 DEF IssuesReal, Exportable, DirectoryEmpty
<1>6. CASE code = "UNREFERENCED_SEGMENTS"
  BY <1>1, <1>6 DEF IssuesReal, Exportable, DirectoryEmpty, Referenced
<1>7. CASE code = "UNCOMMITTED_TAIL"
  BY <1>1, <1>7 DEF IssuesReal, Exportable, DirectoryEmpty
<1>8. CASE code = "VERIFICATION_LIMIT"
  BY <1>1, <1>8 DEF IssuesReal, Exportable, DirectoryEmpty
<1> QED BY <1>2, <1>4, <1>5, <1>6, <1>7, <1>8 DEF Leftovers

(* The directory as it was compared, or a writer, or a failure that hid    *)
(* the lock.                                                               *)
LEMMA RechecksDirectorySees ==
  ASSUME ReaderInv, HistoryInv, RechecksDirectory
  PROVE  HistoryInv'
PROOF
<1>1. UNCHANGED <<vars, overtaken>> /\ touched' = FALSE /\ reader.pc = "rechecking"
  BY DEF RechecksDirectory, Reading
<1>2. AfterDirectory \in {"recheckingManifest", "reporting"}
  BY DEF AfterDirectory
<1>3. ReaderTypeOK
  BY DEF ReaderInv
<1>4. CASE touched \/ reader.busy
  <2>1. reader' = [pc |-> AfterDirectory, listed |-> NothingListed, found |-> FALSE, statted |-> FALSE,
                   busy |-> reader.busy, changed |-> touched, rest |-> <<>>, records |-> 0, issues |-> {}]
    BY <1>4 DEF RechecksDirectory, Idle
  <2>2. /\ reader'.pc = AfterDirectory /\ reader'.issues = {} /\ reader'.busy = reader.busy
        /\ reader'.changed = touched
    BY <2>1
  <2> QED BY <1>2, <1>4, <2>2 DEF HistoryInv, LockNoted, Rechecked
<1>5. CASE ~touched /\ ~reader.busy
  <2>1. reader' = [reader EXCEPT !.pc = AfterDirectory] /\ seen' = Present
    BY <1>5 DEF RechecksDirectory
  <2>2. /\ reader'.pc = AfterDirectory /\ reader'.issues = reader.issues /\ reader'.found = reader.found
    BY <1>3, <2>1 DEF ReaderTypeOK
  <2>3. LockNoted /\ (lock = None \/ "READ_FAILED" \in reader.issues)
    BY <1>1, <1>5 DEF HistoryInv, LockNoted
  <2>4. LockNoted'
    BY <1>2, <2>2, <2>3 DEF LockNoted
  <2>5. Present' = Present /\ lock' = lock
    BY <1>1 DEF Present, Exportable, DirectoryEmpty, Copied, vars, disk
  <2>6. StillSo'
    BY <2>1, <2>2, <2>3, <2>5 DEF StillSo
  <2>7. /\ seen'.exportable <=> Exportable
        /\ seen'.empty <=> DirectoryEmpty
    BY <2>1 DEF Present
  <2>8. CASE "READ_FAILED" \in reader.issues
    <3>1. reader.issues = {"READ_FAILED"}
      BY <2>3, <2>8 DEF LockNoted
    <3>2. SeenNoted'
      BY <2>2, <3>1 DEF SeenNoted, Corruption, Unreadable
    <3> QED BY <2>4, <2>6, <3>2 DEF HistoryInv
  <2>9. CASE lock = None
    <3>1. IssuesReal /\ NothingMissed
      BY <1>1, <1>5, <2>9 DEF ReaderInv, Early
    <3>2. reader.issues = {} => IF reader.found THEN Exportable ELSE DirectoryEmpty
      BY <1>1, <1>5, <3>1 DEF NothingMissed
    <3>3. reader.issues # {} /\ reader.issues \cap Unreadable = {} => ~Exportable /\ ~DirectoryEmpty
      BY <1>3, <3>1, IssuesRefuseExport
    <3>4. reader.issues \cap Corruption = {}
      BY <3>1 DEF IssuesReal
    <3>5. SeenNoted'
      BY <2>2, <2>7, <3>2, <3>3, <3>4 DEF SeenNoted
    <3> QED BY <2>4, <2>6, <3>5 DEF HistoryInv
  <2> QED BY <2>3, <2>8, <2>9
<1> QED BY <1>4, <1>5

(* The other steps of a diagnosis.                                         *)
LEMMA DiagnosesSees ==
  ASSUME ReaderInv, HistoryInv, Diagnoses
  PROVE  HistoryInv'
PROOF
<1>1. ReaderTypeOK /\ LockNoted
  BY DEF ReaderInv, HistoryInv
<1>2. CASE Looks
  <2>1. reader'.pc = "listing" /\ reader'.issues = {}
    BY <1>2 DEF Looks, Idle
  <2> QED BY <2>1 DEF HistoryInv, LockNoted, Rechecked
<1>3. CASE Lists
  <2>1. reader'.pc = "locking" /\ reader'.issues = reader.issues /\ reader.pc = "listing"
    BY <1>1, <1>3 DEF Lists, Observes, Reading, ReaderTypeOK
  <2> QED BY <1>1, <2>1 DEF HistoryInv, LockNoted, Rechecked
<1>4. ASSUME NEW codes \in SUBSET IssueCodes, reader' = Rechecks(codes), UNCHANGED <<vars, touched, seen, overtaken>>,
             \/ reader.pc \in {"listing", "locking"} /\ codes = {"READ_FAILED"}
             \/ reader.pc \in {"statting", "manifest", "segments"} /\ "READ_FAILED" \notin codes
             \/ reader.pc = "locking" /\ lock = None /\ "READ_FAILED" \notin codes
      PROVE  HistoryInv'
  <2>1. /\ reader'.pc = "rechecking" /\ reader'.issues = reader.issues \cup codes
        /\ reader'.found = reader.found /\ reader'.busy = reader.busy /\ touched' = touched /\ lock' = lock
    BY <1>1, <1>4, RechecksIs DEF vars
  <2>2. LockNoted'
    BY <1>1, <1>4, <2>1 DEF LockNoted
  <2> QED BY <2>1, <2>2 DEF HistoryInv, Rechecked
<1>5. CASE LooksForLock
  <2> DEFINE listed == reader.listed
             left == IF listed.temporary THEN {"TEMPORARY_FILES"} ELSE {}
             missing == IF listed.segments # {} \/ listed.temporary \/ listed.lock THEN {"MANIFEST_MISSING"} ELSE {}
  <2>1. /\ reader.pc = "locking" /\ UNCHANGED <<vars, touched, seen, overtaken>>
        /\ \/ lock # None /\ reader' = [Rechecks({}) EXCEPT !.busy = TRUE]
           \/ lock = None /\ listed.manifest /\ reader' = [Notes(left) EXCEPT !.pc = "statting"]
           \/ lock = None /\ ~listed.manifest /\ reader' = Rechecks(left \cup missing)
    BY <1>5 DEF LooksForLock, Observes, Reading
  <2>2. left \subseteq {"TEMPORARY_FILES"} /\ missing \subseteq {"MANIFEST_MISSING"}
    OBVIOUS
  <2> HIDE DEF left, missing, listed
  <2>3. reader.issues = {} /\ touched' = touched /\ lock' = lock
    BY <1>1, <2>1 DEF LockNoted, vars
  <2>4. CASE lock # None /\ reader' = [Rechecks({}) EXCEPT !.busy = TRUE]
    <3>1. reader'.pc = "rechecking" /\ reader'.issues = {} /\ reader'.busy = TRUE
      BY <1>1, <2>3, <2>4 DEF Rechecks, Notes, ReaderTypeOK
    <3> QED BY <3>1 DEF HistoryInv, LockNoted, Rechecked
  <2>5. CASE lock = None /\ reader' = [Notes(left) EXCEPT !.pc = "statting"]
    <3>1. reader'.pc = "statting" /\ reader'.issues = left
      BY <1>1, <2>3, <2>5 DEF Notes, ReaderTypeOK
    <3> QED BY <2>2, <2>3, <2>5, <3>1 DEF HistoryInv, LockNoted, Rechecked
  <2>6. CASE lock = None /\ reader' = Rechecks(left \cup missing)
    <3> DEFINE codes == left \cup missing
    <3>1. codes \in SUBSET IssueCodes /\ "READ_FAILED" \notin codes
      BY <2>2 DEF IssueCodes, Leftovers
    <3>2. reader' = Rechecks(codes)
      BY <2>6
    <3> HIDE DEF codes
    <3> QED BY <1>4, <2>1, <2>6, <3>1, <3>2
  <2> QED BY <2>1, <2>4, <2>5, <2>6
<1>6. CASE StatsManifest
  <2>1. reader.pc = "statting" /\ UNCHANGED <<vars, touched, seen, overtaken>>
    BY <1>6 DEF StatsManifest, Observes, Reading
  <2>2. CASE manifest = None
    <3>1. {"MANIFEST_UNREADABLE"} \in SUBSET IssueCodes /\ reader' = Rechecks({"MANIFEST_UNREADABLE"})
      BY <1>6, <2>2 DEF StatsManifest, Observes, IssueCodes, Unreadable
    <3> QED BY <1>4, <2>1, <3>1
  <2>3. CASE manifest # None
    <3>1. /\ reader'.pc = "manifest" /\ reader'.issues = reader.issues /\ reader'.busy = reader.busy
      BY <1>1, <1>6, <2>3 DEF StatsManifest, Observes, ReaderTypeOK
    <3> QED BY <1>1, <2>1, <3>1 DEF HistoryInv, LockNoted, Rechecked, vars
  <2> QED BY <2>2, <2>3
<1>7. CASE ReadsManifest
  <2> DEFINE codes == IF reader.listed.segments \ {FileOf(s) : s \in Range(ViewOf(manifest))} = {}
                      THEN {} ELSE {"UNREFERENCED_SEGMENTS"}
  <2>1. /\ reader.pc = "manifest" /\ UNCHANGED <<vars, touched, seen, overtaken>>
        /\ \/ reader' = Rechecks({"MANIFEST_UNREADABLE"})
           \/ reader' = Rechecks({"MANIFEST_INVALID"})
           \/ reader' = [Notes(codes) EXCEPT !.pc = "segments", !.listed = NothingListed, !.rest = ViewOf(manifest)]
    BY <1>7 DEF ReadsManifest, Observes, Reading
  <2>2. "READ_FAILED" \notin codes
    OBVIOUS
  <2> HIDE DEF codes
  <2>3. {"MANIFEST_UNREADABLE"} \in SUBSET IssueCodes /\ {"MANIFEST_INVALID"} \in SUBSET IssueCodes
    BY DEF IssueCodes, Unreadable, Corruption
  <2>4. CASE reader' = Rechecks({"MANIFEST_UNREADABLE"})
    BY <1>4, <2>1, <2>3, <2>4
  <2>5. CASE reader' = Rechecks({"MANIFEST_INVALID"})
    BY <1>4, <2>1, <2>3, <2>5
  <2>6. CASE reader' = [Notes(codes) EXCEPT !.pc = "segments", !.listed = NothingListed, !.rest = ViewOf(manifest)]
    <3>1. reader'.pc = "segments" /\ reader'.issues = reader.issues \cup codes /\ reader'.busy = reader.busy
      BY <1>1, <2>6 DEF Notes, ReaderTypeOK
    <3> QED BY <1>1, <2>1, <2>2, <3>1 DEF HistoryInv, LockNoted, Rechecked, vars
  <2> QED BY <2>1, <2>4, <2>5, <2>6
<1>8. CASE VerifiesSegment
  <2> DEFINE issue == SegmentIssue(Head(reader.rest), Len(reader.rest) = 1)
  <2>1. /\ reader.pc = "segments" /\ UNCHANGED <<vars, touched, seen, overtaken>>
        /\ \/ reader' = Rechecks({})
           \/ reader' = Rechecks(issue)
           \/ reader' = [reader EXCEPT !.rest = Tail(@), !.records = @ + RecordCount(Head(reader.rest))]
    BY <1>8 DEF VerifiesSegment, Observes, Reading
  <2>2. issue \in SUBSET IssueCodes /\ "READ_FAILED" \notin issue
    BY DEF SegmentIssue, IssueCodes, Corruption, Unreadable, Leftovers
  <2> HIDE DEF issue
  <2>3. {} \in SUBSET IssueCodes
    OBVIOUS
  <2>4. CASE reader' = Rechecks({})
    BY <1>4, <2>1, <2>3, <2>4
  <2>5. CASE reader' = Rechecks(issue)
    BY <1>4, <2>1, <2>2, <2>5
  <2>6. CASE reader' = [reader EXCEPT !.rest = Tail(@), !.records = @ + RecordCount(Head(reader.rest))]
    <3>1. reader'.pc = reader.pc /\ reader'.issues = reader.issues /\ reader'.busy = reader.busy
      BY <1>1, <2>6 DEF ReaderTypeOK
    <3> QED BY <1>1, <2>1, <3>1 DEF HistoryInv, LockNoted, Rechecked, vars
  <2> QED BY <2>1, <2>4, <2>5, <2>6
<1>9. CASE ReadFails
  <2>1. /\ UNCHANGED <<vars, touched, seen, overtaken>>
        /\ \/ reader.pc \in {"listing", "locking"} /\ reader' = Rechecks({"READ_FAILED"})
           \/ reader.pc \in {"statting", "manifest"} /\ reader' = Rechecks({"MANIFEST_UNREADABLE"})
           \/ reader.pc = "segments" /\ reader' = Rechecks({"SEGMENT_UNREADABLE"})
    BY <1>9 DEF ReadFails, Observes, Reading
  <2>2. \A code \in Unreadable : {code} \in SUBSET IssueCodes
    BY DEF IssueCodes
  <2>3. {"READ_FAILED", "MANIFEST_UNREADABLE", "SEGMENT_UNREADABLE"} = Unreadable
    BY DEF Unreadable
  <2>4. CASE reader.pc \in {"listing", "locking"} /\ reader' = Rechecks({"READ_FAILED"})
    BY <1>4, <2>1, <2>2, <2>3, <2>4
  <2>5. CASE reader.pc \in {"statting", "manifest"} /\ reader' = Rechecks({"MANIFEST_UNREADABLE"})
    BY <1>4, <2>1, <2>2, <2>3, <2>5
  <2>6. CASE reader.pc = "segments" /\ reader' = Rechecks({"SEGMENT_UNREADABLE"})
    BY <1>4, <2>1, <2>2, <2>3, <2>6
  <2> QED BY <2>1, <2>4, <2>5, <2>6
<1>10. CASE RechecksDirectory
  BY <1>10, RechecksDirectorySees
<1>11. CASE RechecksManifest
  <2>1. /\ UNCHANGED <<vars, seen, overtaken>> /\ reader.pc = "recheckingManifest"
    BY <1>11 DEF RechecksManifest, Reading
  <2>2. /\ reader'.pc = "reporting" /\ reader'.busy = reader.busy
        /\ (reader'.changed <=> reader.changed \/ touched)
        /\ reader'.issues = reader.issues /\ reader'.found = reader.found
    BY <1>11, RechecksManifestNotes
  <2>3. LockNoted'
    BY <1>1, <2>2 DEF LockNoted
  <2>4. Present' = Present /\ lock' = lock
    BY <2>1 DEF Present, Exportable, DirectoryEmpty, Copied, vars, disk
  <2>5. Rechecked' => Rechecked
    BY <2>1, <2>2 DEF Rechecked
  <2>6. SeenNoted /\ StillSo => SeenNoted' /\ StillSo'
    BY <2>1, <2>2, <2>4 DEF SeenNoted, StillSo
  <2> QED BY <2>3, <2>5, <2>6 DEF HistoryInv
<1>12. CASE Reports \/ RecheckFails
  <2>1. reader'.pc = "idle" /\ reader'.issues = {}
    BY <1>12 DEF Reports, RecheckFails, Concludes, Idle
  <2> QED BY <2>1 DEF HistoryInv, LockNoted, Rechecked
<1> QED BY <1>2, <1>3, <1>5, <1>6, <1>7, <1>8, <1>9, <1>10, <1>11, <1>12 DEF Diagnoses

(* Nobody writes without the lock, and nobody takes it without a trace.    *)
LEMMA WritesTraced ==
  ASSUME IInv, HistoryInv, Writes
  PROVE  HistoryInv'
PROOF
<1>1. /\ reader' = reader /\ seen' = seen /\ [Next]_vars
      /\ overtaken' = (Rechecked /\ (overtaken \/ (lock = None /\ lock' # None)))
      /\ Rechecked' = Rechecked
  BY DEF Writes, Notice, Rechecked
<1>2. LockNoted'
  <2>1. LockNoted
    BY DEF HistoryInv
  <2>2. reader.pc \in {"statting", "manifest", "segments", "rechecking"} /\ ~touched' => ~touched /\ lock' = lock
    <3>1. reader.pc \in {"statting", "manifest", "segments", "rechecking"} => Early
      BY DEF Early
    <3>2. Early /\ ~touched' =>
            ~touched /\ <<manifest, DOMAIN files, litter, lock>>' = <<manifest, DOMAIN files, litter, lock>>
      BY DEF Writes, Notice
    <3> QED BY <3>1, <3>2
  <2> QED BY <1>1, <2>1, <2>2 DEF LockNoted
<1>3. ASSUME Rechecked, SeenNoted, StillSo PROVE SeenNoted' /\ StillSo'
  <2>1. SeenNoted'
    BY <1>1, <1>3 DEF SeenNoted
  <2>2. ASSUME ~overtaken', "READ_FAILED" \notin reader.issues PROVE lock' = None /\ seen' = Present'
    <3>1. ~overtaken /\ lock = None /\ lock' = None /\ seen = Present
      BY <1>1, <1>3, <2>2 DEF StillSo
    <3>2. manifest' = manifest /\ litter' = litter /\ files' = files
      BY <1>1, <3>1, FilesNeedLock, ManifestNeedsLock
    <3>3. Present' = Present
      BY <3>2 DEF Present, Exportable, DirectoryEmpty, Copied
    <3> QED BY <1>1, <3>1, <3>3
  <2> QED BY <1>1, <2>1, <2>2 DEF StillSo
<1> QED BY <1>1, <1>2, <1>3 DEF HistoryInv

(* Nothing was looked at yet.                                              *)
LEMMA ReadersInitKeeps == ReadersInit => IInv /\ ReaderInv /\ HistoryInv
PROOF
<1> SUFFICES ASSUME ReadersInit PROVE IInv /\ ReaderInv /\ HistoryInv
  OBVIOUS
<1>1. IInv
  BY InitKeeps DEF ReadersInit
<1>2. NothingListed \in [segments : SUBSET Nat, manifest : BOOLEAN, temporary : BOOLEAN, lock : BOOLEAN]
  BY DEF NothingListed
<1>3. <<>> \in Seq(Segments) /\ Len(<<>>) = 0 /\ 0 \in 0 .. MaxRecords
  BY EmptySeq, ReadersAssumption
<1>4. ReaderTypeOK /\ reader.pc = "idle" /\ reader.rest = <<>> /\ reader.issues = {}
  BY <1>2, <1>3 DEF ReadersInit, ReaderTypeOK, Idle, NothingSeen
<1>5. HistoryInv
  BY <1>4 DEF HistoryInv, LockNoted, Rechecked
<1> QED BY <1>1, <1>3, <1>4, <1>5 DEF ReaderInv, RestSized, Early

(* Every step beside the writers keeps the invariants.                     *)
LEMMA ReadersNextKeeps ==
  IInv /\ ReaderInv /\ HistoryInv /\ [ReadersNext]_allVars => (IInv /\ ReaderInv /\ HistoryInv)'
PROOF
<1> SUFFICES ASSUME IInv, ReaderInv, HistoryInv, [ReadersNext]_allVars
             PROVE  IInv' /\ ReaderInv' /\ HistoryInv'
  OBVIOUS
<1>1. CASE Writes
  <2>1. IInv'
    BY <1>1, NextKeeps DEF Writes
  <2> QED BY <1>1, <2>1, WritesTouch, WritesTraced
<1>2. CASE Exports
  <2>1. IInv' /\ ReaderInv'
    BY <1>2, ExportsKeep
  <2>2. /\ reader' = reader /\ seen' = seen /\ touched' = (touched \/ Early) /\ overtaken' = Rechecked
        /\ Rechecked' = Rechecked
    BY <1>2 DEF Exports, Rechecked
  <2>3. LockNoted'
    <3>1. reader.pc \in {"statting", "manifest", "segments", "rechecking"} => Early
      BY DEF Early
    <3> QED BY <2>2, <3>1 DEF HistoryInv, LockNoted
  <2>4. Rechecked => SeenNoted' /\ StillSo'
    BY <2>2 DEF HistoryInv, SeenNoted, StillSo
  <2> QED BY <2>1, <2>2, <2>3, <2>4 DEF HistoryInv
<1>3. CASE Diagnoses
  BY <1>3, DiagnosesNotes, DiagnosesSees
<1>4. CASE UNCHANGED allVars
  <2>1. UNCHANGED vars /\ reader' = reader /\ touched' = touched /\ seen' = seen /\ overtaken' = overtaken
    BY <1>4 DEF allVars
  <2>2. IInv'
    BY <2>1, NextKeeps
  <2>3. manifest' = manifest /\ files' = files /\ litter' = litter /\ lock' = lock
    BY <2>1 DEF vars, disk
  <2>4. ReaderTypeOK' /\ RestSized' /\ Early' = Early /\ Rechecked' = Rechecked
    BY <2>1 DEF ReaderInv, ReaderTypeOK, RestSized, Early, Rechecked
  <2>5. IssuesReal /\ NothingMissed => IssuesReal' /\ NothingMissed'
    BY <2>1, <2>3
       DEF IssuesReal, NothingMissed, Scanned, Copied, Exportable, DirectoryEmpty, Referenced
  <2>6. Present' = Present
    BY <2>3 DEF Present, Exportable, DirectoryEmpty, Copied
  <2>7. HistoryInv'
    BY <2>1, <2>3, <2>4, <2>6 DEF HistoryInv, LockNoted, SeenNoted, StillSo
  <2> QED BY <2>1, <2>2, <2>3, <2>4, <2>5, <2>7 DEF ReaderInv
<1> QED BY <1>1, <1>2, <1>3, <1>4 DEF ReadersNext

(* A diagnosis that reads the directory piece by piece beside any number   *)
(* of writers, and reports neither a writer nor a change, tells the truth  *)
(* of the moment when it compared the directory's stat: "valid" is a       *)
(* directory the export accepts, "empty" is empty, and no live change is   *)
(* ever reported as corruption; and it is still so unless the lock was     *)
(* taken since (diagnoseAuditDirectory).                                   *)
THEOREM AuditDiagnosisIsSound == ReadersSpec => []AuditDiagnosisSound
PROOF
<1>1. IInv /\ ReaderInv /\ HistoryInv => AuditDiagnosisSound
  <2> SUFFICES ASSUME IInv, ReaderInv, HistoryInv PROVE DiagnosisTruthful
    BY DEF AuditDiagnosisSound, ReaderInv
  <2> SUFFICES ASSUME reader.pc = "reporting", Verdict \notin {"busy", "changed"}
               PROVE  /\ Verdict = "valid" => seen.exportable
                      /\ Verdict = "empty" => seen.empty
                      /\ Verdict = "issues" =>
                           /\ reader.issues \cap Corruption = {}
                           /\ reader.issues \cap Unreadable = {} => ~seen.exportable /\ ~seen.empty
                      /\ overtaken \/ "READ_FAILED" \in reader.issues \/ seen = Present
    BY DEF DiagnosisTruthful, Reading
  <2>1. /\ ~reader.changed /\ ~reader.busy
        /\ Verdict = IF reader.issues # {} THEN "issues" ELSE IF reader.found THEN "valid" ELSE "empty"
    BY DEF Verdict
  <2>2. SeenNoted /\ StillSo
    BY <2>1 DEF HistoryInv, Rechecked
  <2> QED BY <2>1, <2>2 DEF SeenNoted, StillSo
<1>2. ReadersSpec => [](IInv /\ ReaderInv /\ HistoryInv)
  BY ReadersInitKeeps, ReadersNextKeeps, PTL DEF ReadersSpec
<1> QED BY <1>1, <1>2, PTL
==============================================================================
