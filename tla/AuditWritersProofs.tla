-------------------------- MODULE AuditWritersProofs --------------------------
(***************************************************************************)
(* Proofs about AuditWriters, for any number of processes, calls, files    *)
(* and mishaps: the marker excludes, every line is accounted for, and no   *)
(* rename overwrites a line.                                               *)
(***************************************************************************)
EXTENDS AuditWriters, SequenceTheorems, FiniteSetTheorems, TLAPS

(***************************************************************************)
(* The inductive invariant.                                                *)
(***************************************************************************)
Statuses == {"idle", "queued", "active", "resolved", "rejected", "lost"}
Points == {"idle", "open", "wait", "retry", "stat", "record", "check", "token", "unlink", "settle"}
            \cup Working

(* An append is over, one way or the other.                                *)
Leaving == {"check", "token", "unlink", "settle"}

(* From the creation of the marker to its removal.                         *)
Holding == {"stat", "record", "check", "token", "unlink"} \cup Working

Appended  == [of : Calls, whole : BOOLEAN]
FileLines == Appended \cup EarlierLines

Typed ==
  /\ TypeOK
  /\ index \in [Processes -> Int]
  /\ mine \in [Processes -> Inodes \cup {None}]
  /\ failed \in [Processes -> BOOLEAN]
  /\ marker \in Markers \cup {None}
  /\ files \in [0 .. MaxFiles -> Seq(FileLines)]
  /\ written \in Seq(Appended)

(* At most one process holds the lock, and while one does the marker can   *)
(* not be created again.  The marker carries the holder's token as soon as *)
(* the record is written, unless it is a stranger's.                       *)
OneHolder ==
  /\ \A p, q \in Processes : pc[p] \in Holding /\ pc[q] \in Holding => p = q
  /\ \A p \in Processes : pc[p] \in Holding => marker # None
  /\ \A p \in Processes : pc[p] \in {"stat", "record"} =>
       marker.token = Stranger \/ (marker.token = Partial /\ marker.ino = mine[p])
  /\ \A p \in Processes : pc[p] \in Working => marker.token \in {active[p], Stranger}

(* A call waits in one place of its own process's queue, or is running.    *)
InLine(s, p, c) ==
  /\ \A i \in 1 .. Len(s) : c[s[i]] = "queued" /\ Home[s[i]] = p
  /\ \A i, j \in 1 .. Len(s) : s[i] = s[j] => i = j

Attended ==
  \A p \in Processes :
    /\ InLine(queue[p], p, call)
    /\ active[p] # None => call[active[p]] = "active" /\ Home[active[p]] = p

(* The calls that have a line, and those that have all of it.              *)
Lined  == {written[i].of : i \in 1 .. Len(written)}
Wholes == {w \in Calls : \E i \in 1 .. Len(written) : written[i].of = w /\ written[i].whole}

(* The line of a call is written on the way to Leaving and only there.     *)
LinesOnce ==
  /\ \A i, j \in 1 .. Len(written) : written[i].of = written[j].of => i = j
  /\ \A w \in Lined : w \notin Signalled /\ call[w] \notin {"idle", "queued"}
  /\ \A p \in Processes :
       /\ pc[p] = "read" => active[p] \in Signalled
       /\ pc[p] \in Working \ {"read"} => active[p] \notin Signalled
       /\ active[p] # None /\ pc[p] \notin Leaving => active[p] \notin Lined
       /\ pc[p] \in Leaving /\ ~failed[p] /\ active[p] \notin Signalled => active[p] \in Wholes
  /\ \A w \in Calls \ Signalled : call[w] = "resolved" => w \in Wholes

(* The next file to be moved has a free number to go to.                   *)
NextNumberFree ==
  \A p \in Processes : pc[p] = "shift" =>
    /\ index[p] \in 0 .. MaxFiles - 1
    /\ files[index[p] + 1] = <<>>

IInv == Typed /\ OneHolder /\ Attended /\ LinesOnce /\ NextNumberFree

(* What most steps need of the constants.                                  *)
LEMMA Constants ==
  /\ Home \in [Calls -> Processes] /\ Signalled \subseteq Calls
  /\ MaxFiles \in Nat /\ None \notin Calls \cup Markers
BY WritersAssumption

(***************************************************************************)
(* Sequences.                                                              *)
(***************************************************************************)
(* What unlinking an entry of a queue leaves (process-write-queue.ts).     *)
LEMMA RemovedAt ==
  ASSUME NEW S, NEW s \in Seq(S), NEW i \in 1 .. Len(s)
  PROVE  /\ RemoveAt(s, i) \in Seq(S)
         /\ Len(RemoveAt(s, i)) = Len(s) - 1
         /\ \A j \in 1 .. Len(s) - 1 :
              RemoveAt(s, i)[j] = IF j < i THEN s[j] ELSE s[j + 1]
PROOF
<1> DEFINE before == SubSeq(s, 1, i - 1)
           after  == SubSeq(s, i + 1, Len(s))
<1>1. /\ before \in Seq(S) /\ Len(before) = i - 1
      /\ \A j \in 1 .. i - 1 : before[j] = s[j]
  BY SubSeqProperties, \A j \in 1 .. i - 1 : s[j] \in S
<1>2. /\ after \in Seq(S) /\ Len(after) = Len(s) - i
      /\ \A j \in 1 .. Len(s) - i : after[j] = s[i + j]
  BY SubSeqProperties, \A j \in i + 1 .. Len(s) : s[j] \in S
<1> HIDE DEF before, after
<1>3. /\ before \o after \in Seq(S) /\ Len(before \o after) = Len(s) - 1
      /\ \A j \in 1 .. Len(s) - 1 :
           (before \o after)[j] = IF j <= i - 1 THEN before[j] ELSE after[j - (i - 1)]
  <2>1. Len(before) + Len(after) = Len(s) - 1
    BY <1>1, <1>2, LenProperties
  <2>2. /\ before \o after \in Seq(S) /\ Len(before \o after) = Len(before) + Len(after)
        /\ \A j \in 1 .. Len(before) + Len(after) :
             (before \o after)[j] = IF j <= Len(before) THEN before[j] ELSE after[j - Len(before)]
    BY <1>1, <1>2, ConcatProperties
  <2> QED BY <1>1, <2>1, <2>2
<1>4. RemoveAt(s, i) = before \o after
  BY DEF RemoveAt, before, after
<1>5. ASSUME NEW j \in 1 .. Len(s) - 1
      PROVE  (before \o after)[j] = IF j < i THEN s[j] ELSE s[j + 1]
  <2>1. CASE j < i
    BY <1>1, <1>3, <2>1
  <2>2. CASE ~(j < i)
    <3>1. j - (i - 1) \in 1 .. Len(s) - i /\ i + (j - (i - 1)) = j + 1
      BY <2>2, LenProperties
    <3> QED BY <1>2, <1>3, <2>2, <3>1
  <2> QED BY <2>1, <2>2
<1> QED BY <1>3, <1>4, <1>5

(* Appending a line to the active file and to what was written.            *)
LEMMA AppendedTyped ==
  ASSUME Typed, NEW line \in Appended, AppendLine(line)
  PROVE  files' \in [0 .. MaxFiles -> Seq(FileLines)] /\ written' \in Seq(Appended)
PROOF
<1>1. 0 \in 0 .. MaxFiles /\ line \in FileLines
  BY WritersAssumption DEF FileLines
<1>2. Append(files[0], line) \in Seq(FileLines) /\ Append(written, line) \in Seq(Appended)
  BY <1>1, AppendProperties DEF Typed
<1> QED BY <1>1, <1>2 DEF AppendLine, Typed

(* Types.                                                                  *)
LEMMA TypedKept ==
  ASSUME IInv, [Next]_vars
  PROVE  Typed'
PROOF
<1> USE Constants DEF process, disk
<1> USE DEF IInv, Typed, TypeOK, Working, Points
<1>1. ASSUME NEW w \in Calls, Enqueue(w) PROVE Typed'
  BY <1>1 DEF Enqueue
<1>2. ASSUME NEW w \in Calls, Abort(w) PROVE Typed'
  <2>1. CASE call[w] = "queued"
    <3>1. PICK i \in DOMAIN queue[Home[w]] :
            queue' = [queue EXCEPT ![Home[w]] = RemoveAt(@, i)]
      BY <1>2, <2>1 DEF Abort
    <3>2. RemoveAt(queue[Home[w]], i) \in Seq(Calls)
      BY <3>1, RemovedAt, LenProperties
    <3> QED BY <1>2, <2>1, <3>1, <3>2 DEF Abort
  <2>2. CASE call[w] # "queued"
    BY <1>2, <2>2 DEF Abort
  <2> QED BY <2>1, <2>2
<1>3. ASSUME NEW p \in Processes, Admit(p) PROVE Typed'
  BY <1>3 DEF Admit
<1>4. ASSUME NEW p \in Processes, Settle(p) PROVE Typed'
  BY <1>4 DEF Settle, Forget
<1>5. ASSUME NEW p \in Processes, Expire(p) PROVE Typed'
  BY <1>5 DEF Expire
<1>6. ASSUME NEW p \in Processes, OpenLock(p) PROVE Typed'
  <2>1. \/ UNCHANGED <<marker, mine>>
        \/ \E ino \in Inodes : /\ marker' = [ino |-> ino, token |-> Partial]
                               /\ mine' = [mine EXCEPT ![p] = ino]
    BY <1>6 DEF OpenLock
  <2>2. marker' \in Markers \cup {None} /\ mine' \in [Processes -> Inodes \cup {None}]
    <3>1. CASE UNCHANGED <<marker, mine>>
      BY <3>1
    <3>2. ASSUME NEW ino \in Inodes, marker' = [ino |-> ino, token |-> Partial],
                 mine' = [mine EXCEPT ![p] = ino]
          PROVE  marker' \in Markers /\ mine' \in [Processes -> Inodes \cup {None}]
      <4>1. [ino |-> ino, token |-> Partial] \in Markers
        BY DEF Markers
      <4> QED BY <3>2, <4>1
    <3> QED BY <2>1, <3>1, <3>2
  <2>3. pc' \in [Processes -> Points] /\ failed' \in [Processes -> BOOLEAN]
    BY <1>6 DEF OpenLock, Fail, Goto, Free
  <2>4. pc'[p] # "idle" /\ \A q \in Processes : q # p => pc'[q] = pc[q]
    BY <1>6 DEF OpenLock, Fail, Goto, Free
  <2> QED BY <1>6, <2>2, <2>3, <2>4 DEF OpenLock
<1>7. ASSUME NEW p \in Processes, Wait(p) PROVE Typed'
  BY <1>7 DEF Wait, Fail, Goto
<1>8. ASSUME NEW p \in Processes, Initialize(p) PROVE Typed'
  <2>1. active[p] \in Calls
    BY <1>8 DEF Initialize
  <2>2. marker' \in Markers \cup {None}
    BY <1>8, <2>1 DEF Initialize, Markers
  <2> QED BY <1>8, <2>2 DEF Initialize, Fail, Goto
<1>9. ASSUME NEW p \in Processes, CheckIdentity(p) PROVE Typed'
  BY <1>9 DEF CheckIdentity, Goto
<1>10. ASSUME NEW p \in Processes, CheckToken(p) PROVE Typed'
  BY <1>10 DEF CheckToken, Goto
<1>11. ASSUME NEW p \in Processes, Unlink(p) PROVE Typed'
  BY <1>11 DEF Unlink, Goto
<1>12. ASSUME NEW p \in Processes, Read(p) PROVE Typed'
  BY <1>12 DEF Read, Fail, Goto
<1>13. ASSUME NEW p \in Processes, Inspect(p) PROVE Typed'
  BY <1>13 DEF Inspect, Goto
<1>14. ASSUME NEW p \in Processes, RemoveOldest(p) PROVE Typed'
  BY <1>14 DEF RemoveOldest, Goto
<1>15. ASSUME NEW p \in Processes, Shift(p) PROVE Typed'
  <2>1. index[p] \in 0 .. MaxFiles /\ index[p] + 1 \in 0 .. MaxFiles
    BY <1>15 DEF Shift, NextNumberFree
  <2>2. files[index[p]] \in Seq(FileLines) /\ <<>> \in Seq(FileLines)
    BY <2>1, EmptySeq
  <2>3. files' = Renamed(index[p], index[p] + 1)
    BY <1>15 DEF Shift, Turn
  <2>4. files' \in [0 .. MaxFiles -> Seq(FileLines)]
    BY <2>1, <2>2, <2>3 DEF Renamed
  <2>5. index' \in [Processes -> Int]
    BY <1>15 DEF Shift
  <2> QED BY <1>15, <2>4, <2>5 DEF Shift, Goto
<1>16. ASSUME NEW p \in Processes, AppendAuditLine(p) PROVE Typed'
  <2>1. active[p] \in Calls
    BY <1>16 DEF AppendAuditLine
  <2>2. files' \in [0 .. MaxFiles -> Seq(FileLines)] /\ written' \in Seq(Appended)
    BY <1>16, <2>1, AppendedTyped DEF AppendAuditLine, Appended
  <2> QED BY <1>16, <2>2 DEF AppendAuditLine, Goto
<1>17. ASSUME NEW p \in Processes, Fault(p) PROVE Typed'
  <2>1. active[p] \in Calls
    BY <1>17 DEF Fault
  <2>2. files' \in [0 .. MaxFiles -> Seq(FileLines)] /\ written' \in Seq(Appended)
    BY <1>17, <2>1, AppendedTyped DEF Fault, Appended
  <2> QED BY <1>17, <2>2 DEF Fault, Fail, Goto
<1>18. ASSUME NEW p \in Processes, Crash(p) PROVE Typed'
  BY <1>18 DEF Crash, Forget
<1>19. ASSUME NEW p \in Processes, Restart(p) PROVE Typed'
  BY <1>19 DEF Restart
<1>20. CASE Recover
  BY <1>20 DEF Recover
<1>21. CASE Replace
  <2>1. marker' \in Markers
    BY <1>21 DEF Replace, Markers
  <2> QED BY <1>21, <2>1 DEF Replace
<1>22. CASE UNCHANGED vars
  BY <1>22 DEF vars
<1> QED BY <1>1, <1>2, <1>3, <1>4, <1>5, <1>6, <1>7, <1>8, <1>9, <1>10, <1>11,
       <1>12, <1>13, <1>14, <1>15, <1>16, <1>17, <1>18, <1>19, <1>20, <1>21, <1>22 DEF Next, Step

(* The marker is created when there is none, and removed by its holder.    *)
LEMMA OneHolderKept ==
  ASSUME IInv, [Next]_vars
  PROVE  OneHolder'
PROOF
<1> USE Constants DEF process, disk
<1> USE DEF IInv, Typed, TypeOK, Working, OneHolder, Holding
<1>a. ASSUME NEW p \in Processes, NEW n, n \notin Holding, pc' = [pc EXCEPT ![p] = n],
             UNCHANGED <<active, mine, marker>>
      PROVE  OneHolder'
  BY <1>a
<1>1. ASSUME NEW w \in Calls, Enqueue(w) PROVE OneHolder'
  BY <1>1 DEF Enqueue
<1>2. ASSUME NEW w \in Calls, Abort(w) PROVE OneHolder'
  BY <1>2 DEF Abort
<1>3. ASSUME NEW p \in Processes, Admit(p) PROVE OneHolder'
  BY <1>3 DEF Admit
<1>4. ASSUME NEW p \in Processes, Settle(p) PROVE OneHolder'
  BY <1>4 DEF Settle, Forget
<1>5. ASSUME NEW p \in Processes, Expire(p) PROVE OneHolder'
  BY <1>5 DEF Expire
<1>6. ASSUME NEW p \in Processes, OpenLock(p) PROVE OneHolder'
  <2>1. CASE GivesUp(p)
    <3>1. pc' = [pc EXCEPT ![p] = "settle"] /\ UNCHANGED <<active, mine, marker>>
      BY <1>6, <2>1 DEF OpenLock, Fail, Goto
    <3> QED BY <1>a, <3>1
  <2>2. CASE ~GivesUp(p) /\ marker # None
    <3>1. pc' = [pc EXCEPT ![p] = "wait"] /\ UNCHANGED <<active, mine, marker>>
      BY <1>6, <2>2 DEF OpenLock, Goto, Free
    <3> QED BY <1>a, <3>1
  <2>3. CASE ~GivesUp(p) /\ marker = None
    <3>1. PICK ino \in Inodes : /\ marker' = [ino |-> ino, token |-> Partial]
                                /\ mine' = [mine EXCEPT ![p] = ino]
                                /\ pc' = [pc EXCEPT ![p] = "stat"]
      BY <1>6, <2>3 DEF OpenLock, Goto, Free
    <3>2. marker' # None /\ marker'.token = Partial /\ marker'.ino = mine'[p]
      BY <3>1 DEF Markers
    <3> QED BY <1>6, <2>3, <3>1, <3>2 DEF OpenLock
  <2> QED BY <2>1, <2>2, <2>3
<1>7. ASSUME NEW p \in Processes, Wait(p) PROVE OneHolder'
  <2>1. PICK n \in {"settle", "retry"} : pc' = [pc EXCEPT ![p] = n]
    BY <1>7 DEF Wait, Fail, Goto
  <2>2. UNCHANGED <<active, mine, marker>>
    BY <1>7 DEF Wait
  <2> QED BY <1>a, <2>1, <2>2
<1>8. ASSUME NEW p \in Processes, Initialize(p) PROVE OneHolder'
  <2>1. active[p] \in Calls /\ marker \in Markers /\ mine[p] \in Inodes \cup {None}
    BY <1>8 DEF Initialize
  <2>2. UNCHANGED <<active, mine>> /\ pc[p] \in {"stat", "record"}
    BY <1>8 DEF Initialize
  <2>3. CASE Aborted(p)
    <3>1. pc' = [pc EXCEPT ![p] = "check"]
      BY <1>8, <2>3 DEF Initialize, Fail, Goto
    <3>2. marker' # None
      BY <1>8, <2>1 DEF Initialize, Markers
    <3> QED BY <2>2, <3>1, <3>2
  <2>4. CASE ~Aborted(p) /\ pc[p] = "stat"
    <3>1. pc' = [pc EXCEPT ![p] = "record"] /\ marker' = marker
      BY <1>8, <2>4 DEF Initialize, Goto
    <3> QED BY <2>2, <2>4, <3>1
  <2>5. CASE ~Aborted(p) /\ pc[p] = "record"
    <3>1. marker' # None /\ (marker'.token = active[p] \/ marker'.token = Stranger)
      BY <1>8, <2>1, <2>5 DEF Initialize, Markers
    <3>2. PICK n \in Working : pc' = [pc EXCEPT ![p] = n]
      BY <1>8, <2>5 DEF Initialize, Goto
    <3> QED BY <2>2, <2>5, <3>1, <3>2
  <2> QED BY <2>2, <2>3, <2>4, <2>5
<1>9. ASSUME NEW p \in Processes, CheckIdentity(p) PROVE OneHolder'
  BY <1>9 DEF CheckIdentity, Goto
<1>10. ASSUME NEW p \in Processes, CheckToken(p) PROVE OneHolder'
  BY <1>10 DEF CheckToken, Goto
<1>11. ASSUME NEW p \in Processes, Unlink(p) PROVE OneHolder'
  BY <1>11 DEF Unlink, Goto
<1>12. ASSUME NEW p \in Processes, Read(p) PROVE OneHolder'
  <2>1. /\ pc' = [pc EXCEPT ![p] = "check"] /\ pc[p] = "read"
        /\ UNCHANGED <<active, mine, marker>>
    BY <1>12 DEF Read, Fail, Goto
  <2> QED BY <2>1
<1>13. ASSUME NEW p \in Processes, Inspect(p) PROVE OneHolder'
  BY <1>13 DEF Inspect, Goto
<1>14. ASSUME NEW p \in Processes, RemoveOldest(p) PROVE OneHolder'
  BY <1>14 DEF RemoveOldest, Goto
<1>15. ASSUME NEW p \in Processes, Shift(p) PROVE OneHolder'
  BY <1>15 DEF Shift, Goto, Turn, Renamed
<1>16. ASSUME NEW p \in Processes, AppendAuditLine(p) PROVE OneHolder'
  BY <1>16 DEF AppendAuditLine, Goto, AppendLine
<1>17. ASSUME NEW p \in Processes, Fault(p) PROVE OneHolder'
  BY <1>17 DEF Fault, Fail, Goto, AppendLine
<1>18. ASSUME NEW p \in Processes, Crash(p) PROVE OneHolder'
  BY <1>18 DEF Crash, Forget
<1>19. ASSUME NEW p \in Processes, Restart(p) PROVE OneHolder'
  BY <1>19 DEF Restart
<1>20. CASE Recover
  BY <1>20 DEF Recover
<1>21. CASE Replace
  <2>1. marker' # None /\ marker'.token = Stranger /\ UNCHANGED <<pc, active, mine>>
    BY <1>21 DEF Replace, Markers
  <2> QED BY <2>1
<1>22. CASE UNCHANGED vars
  BY <1>22 DEF vars
<1> QED BY <1>1, <1>2, <1>3, <1>4, <1>5, <1>6, <1>7, <1>8, <1>9, <1>10, <1>11,
       <1>12, <1>13, <1>14, <1>15, <1>16, <1>17, <1>18, <1>19, <1>20, <1>21, <1>22 DEF Next, Step

(* A call that was not queued goes to the end of its process's queue.      *)
LEMMA LongerLine ==
  ASSUME NEW s \in Seq(Calls), NEW p, NEW c \in [Calls -> Statuses], NEW w \in Calls,
         InLine(s, p, c), c[w] # "queued", Home[w] = p
  PROVE  InLine(Append(s, w), p, [c EXCEPT ![w] = "queued"])
PROOF
<1>1. /\ Len(Append(s, w)) = Len(s) + 1 /\ Append(s, w)[Len(s) + 1] = w /\ Len(s) \in Nat
      /\ \A i \in 1 .. Len(s) : Append(s, w)[i] = s[i]
  BY AppendProperties, LenProperties
<1>2. \A i \in 1 .. Len(s) : s[i] \in Calls /\ c[s[i]] = "queued" /\ s[i] # w
  BY ElementOfSeq DEF InLine
<1>3. \A i \in 1 .. Len(s) + 1 : i \in 1 .. Len(s) \/ i = Len(s) + 1
  BY <1>1
<1> QED BY <1>1, <1>2, <1>3 DEF InLine

(* A queued call is detached, wherever it waits.                           *)
LEMMA ShorterLine ==
  ASSUME NEW s \in Seq(Calls), NEW p, NEW c \in [Calls -> Statuses], InLine(s, p, c),
         NEW i \in 1 .. Len(s), NEW new
  PROVE  InLine(RemoveAt(s, i), p, [c EXCEPT ![s[i]] = new])
PROOF
<1> DEFINE t == RemoveAt(s, i)
           m(j) == IF j < i THEN j ELSE j + 1
<1>1. /\ Len(t) = Len(s) - 1 /\ Len(s) \in Nat
      /\ \A j \in 1 .. Len(s) - 1 : t[j] = IF j < i THEN s[j] ELSE s[j + 1]
  BY RemovedAt, LenProperties
<1>2. \A j \in 1 .. Len(t) : m(j) \in 1 .. Len(s) /\ m(j) # i /\ t[j] = s[m(j)]
  BY <1>1
<1>3. \A j, k \in 1 .. Len(t) : m(j) = m(k) => j = k
  BY <1>1
<1>4. \A j \in 1 .. Len(s) : s[j] \in Calls
  BY ElementOfSeq
<1> HIDE DEF t, m
<1> QED BY <1>2, <1>3, <1>4 DEF InLine, t

(* drain takes the first.                                                  *)
LEMMA NextInLine ==
  ASSUME NEW s \in Seq(Calls), s # <<>>, NEW p, NEW c \in [Calls -> Statuses],
         InLine(s, p, c), NEW new
  PROVE  /\ Head(s) \in Calls /\ c[Head(s)] = "queued" /\ Home[Head(s)] = p
         /\ InLine(Tail(s), p, [c EXCEPT ![Head(s)] = new])
PROOF
<1>1. /\ Head(s) \in Calls /\ Head(s) = s[1] /\ Len(Tail(s)) = Len(s) - 1
      /\ Len(s) \in Nat /\ Len(s) > 0
  BY HeadTailProperties, LenProperties, EmptySeq
<1>2. \A j \in 1 .. Len(Tail(s)) : Tail(s)[j] = s[j + 1] /\ j + 1 \in 1 .. Len(s) /\ j + 1 # 1
  BY <1>1, HeadTailProperties
<1>3. \A j \in 1 .. Len(s) : s[j] \in Calls
  BY ElementOfSeq
<1>4. 1 \in 1 .. Len(s)
  BY <1>1
<1> QED BY <1>1, <1>2, <1>3, <1>4 DEF InLine

(* What happens to another call leaves a queue in order.                   *)
LEMMA LineUndisturbed ==
  ASSUME NEW s \in Seq(Calls), NEW p, NEW c \in [Calls -> Statuses], InLine(s, p, c),
         NEW w \in Calls, c[w] # "queued" \/ Home[w] # p, NEW new
  PROVE  InLine(s, p, [c EXCEPT ![w] = new])
PROOF
<1>1. \A j \in 1 .. Len(s) : s[j] \in Calls /\ s[j] # w
  BY ElementOfSeq DEF InLine
<1> QED BY <1>1 DEF InLine

(* A call waits in one place or is running.                                *)
LEMMA AttendedKept ==
  ASSUME IInv, [Next]_vars
  PROVE  Attended'
PROOF
<1> USE Constants DEF process, disk
<1> USE DEF IInv, Typed, TypeOK, Working, Statuses, Points, Attended
<1>1. ASSUME NEW w \in Calls, Enqueue(w) PROVE Attended'
  <2>1. /\ Home[w] \in Processes /\ call[w] = "idle" /\ call' = [call EXCEPT ![w] = "queued"]
        /\ queue' = [queue EXCEPT ![Home[w]] = Append(@, w)] /\ UNCHANGED active
    BY <1>1 DEF Enqueue
  <2>2. ASSUME NEW q \in Processes
        PROVE  InLine(queue'[q], q, call') /\ (active'[q] # None => call'[active'[q]] = "active" /\ Home[active'[q]] = q)
    <3>1. InLine(queue'[q], q, call')
      <4>1. CASE q = Home[w]
        BY <2>1, <4>1, LongerLine
      <4>2. CASE q # Home[w]
        BY <2>1, <4>2, LineUndisturbed
      <4> QED BY <4>1, <4>2
    <3> QED BY <2>1, <3>1
  <2> QED BY <2>2
<1>2. ASSUME NEW w \in Calls, Abort(w) PROVE Attended'
  <2>1. CASE call[w] # "queued"
    BY <1>2, <2>1 DEF Abort
  <2>2. CASE call[w] = "queued"
    <3>1. /\ Home[w] \in Processes /\ call' = [call EXCEPT ![w] = "rejected"] /\ UNCHANGED active
      BY <1>2, <2>2 DEF Abort
    <3>2. PICK i \in DOMAIN queue[Home[w]] :
            /\ queue[Home[w]][i] = w
            /\ queue' = [queue EXCEPT ![Home[w]] = RemoveAt(@, i)]
      BY <1>2, <2>2 DEF Abort
    <3>4. queue[Home[w]] \in Seq(Calls) /\ i \in 1 .. Len(queue[Home[w]])
      BY <3>1, <3>2, LenProperties
    <3>5. queue'[Home[w]] = RemoveAt(queue[Home[w]], i)
      BY <3>1, <3>2
    <3>6. InLine(RemoveAt(queue[Home[w]], i), Home[w], call')
      <4>1. InLine(queue[Home[w]], Home[w], call) /\ call \in [Calls -> Statuses]
        BY <3>1
      <4>2. InLine(RemoveAt(queue[Home[w]], i), Home[w], [call EXCEPT ![queue[Home[w]][i]] = "rejected"])
        BY <3>4, <4>1, ShorterLine
      <4> QED BY <3>1, <3>2, <4>2
    <3>3. ASSUME NEW q \in Processes
          PROVE  InLine(queue'[q], q, call') /\ (active'[q] # None => call'[active'[q]] = "active" /\ Home[active'[q]] = q)
      <4>1. InLine(queue'[q], q, call')
        <5>1. CASE q = Home[w]
          BY <3>5, <3>6, <5>1
        <5>2. CASE q # Home[w]
          BY <3>1, <3>2, <5>2, LineUndisturbed
        <5> QED BY <5>1, <5>2
      <4> QED BY <2>2, <3>1, <4>1
    <3> QED BY <3>3
  <2> QED BY <2>1, <2>2
<1>3. ASSUME NEW p \in Processes, Admit(p) PROVE Attended'
  <2> DEFINE w == Head(queue[p])
  <2>1. /\ queue[p] \in Seq(Calls) /\ queue[p] # <<>> /\ InLine(queue[p], p, call)
        /\ call' = [call EXCEPT ![w] = "active"] /\ queue' = [queue EXCEPT ![p] = Tail(queue[p])]
        /\ active' = [active EXCEPT ![p] = w]
    BY <1>3 DEF Admit
  <2>2. /\ w \in Calls /\ call[w] = "queued" /\ Home[w] = p
        /\ InLine(Tail(queue[p]), p, [call EXCEPT ![w] = "active"])
    BY <2>1, NextInLine
  <2> HIDE DEF w
  <2>3. ASSUME NEW q \in Processes
        PROVE  InLine(queue'[q], q, call') /\ (active'[q] # None => call'[active'[q]] = "active" /\ Home[active'[q]] = q)
    <3>1. InLine(queue'[q], q, call')
      <4>1. CASE q = p
        BY <2>1, <2>2, <4>1
      <4>2. CASE q # p
        BY <2>1, <2>2, <4>2, LineUndisturbed
      <4> QED BY <4>1, <4>2
    <3> QED BY <2>1, <2>2, <3>1
  <2> QED BY <2>3
<1>4. ASSUME NEW p \in Processes, Settle(p) PROVE Attended'
  <2>1. active[p] \in Calls /\ call[active[p]] = "active" /\ Home[active[p]] = p
    BY <1>4 DEF Settle
  <2>2. PICK new \in Statuses : call' = [call EXCEPT ![active[p]] = new]
    BY <1>4 DEF Settle
  <2>3. active' = [active EXCEPT ![p] = None] /\ UNCHANGED queue
    BY <1>4 DEF Settle, Forget
  <2>4. ASSUME NEW q \in Processes
        PROVE  InLine(queue'[q], q, call') /\ (active'[q] # None => call'[active'[q]] = "active" /\ Home[active'[q]] = q)
    <3>1. InLine(queue'[q], q, call')
      BY <2>1, <2>2, <2>3, LineUndisturbed
    <3> QED BY <2>1, <2>2, <2>3, <3>1
  <2> QED BY <2>4
<1>5. ASSUME NEW p \in Processes, Expire(p) PROVE Attended'
  BY <1>5 DEF Expire
<1>6. ASSUME NEW p \in Processes, OpenLock(p) PROVE Attended'
  BY <1>6 DEF OpenLock, Fail, Goto, Free
<1>7. ASSUME NEW p \in Processes, Wait(p) PROVE Attended'
  <2>1. UNCHANGED <<call, queue, active>>
    BY <1>7 DEF Wait
  <2> QED BY <2>1
<1>8. ASSUME NEW p \in Processes, Initialize(p) PROVE Attended'
  BY <1>8 DEF Initialize, Fail, Goto
<1>9. ASSUME NEW p \in Processes, CheckIdentity(p) PROVE Attended'
  BY <1>9 DEF CheckIdentity, Goto
<1>10. ASSUME NEW p \in Processes, CheckToken(p) PROVE Attended'
  BY <1>10 DEF CheckToken, Goto
<1>11. ASSUME NEW p \in Processes, Unlink(p) PROVE Attended'
  BY <1>11 DEF Unlink, Goto
<1>12. ASSUME NEW p \in Processes, Read(p) PROVE Attended'
  BY <1>12 DEF Read, Fail, Goto
<1>13. ASSUME NEW p \in Processes, Inspect(p) PROVE Attended'
  BY <1>13 DEF Inspect, Goto
<1>14. ASSUME NEW p \in Processes, RemoveOldest(p) PROVE Attended'
  BY <1>14 DEF RemoveOldest, Goto
<1>15. ASSUME NEW p \in Processes, Shift(p) PROVE Attended'
  BY <1>15 DEF Shift, Goto, Turn, Renamed
<1>16. ASSUME NEW p \in Processes, AppendAuditLine(p) PROVE Attended'
  BY <1>16 DEF AppendAuditLine, Goto, AppendLine
<1>17. ASSUME NEW p \in Processes, Fault(p) PROVE Attended'
  BY <1>17 DEF Fault, Fail, Goto, AppendLine
<1>18. ASSUME NEW p \in Processes, Crash(p) PROVE Attended'
  <2>1. /\ active' = [active EXCEPT ![p] = None] /\ queue' = [queue EXCEPT ![p] = <<>>]
        /\ call' = [w \in Calls |-> IF Home[w] = p /\ call[w] \in {"queued", "active"} THEN "lost" ELSE call[w]]
    BY <1>18 DEF Crash, Forget
  <2>2. ASSUME NEW q \in Processes
        PROVE  InLine(queue'[q], q, call') /\ (active'[q] # None => call'[active'[q]] = "active" /\ Home[active'[q]] = q)
    <3>1. CASE q = p
      BY <2>1, <3>1, EmptySeq DEF InLine
    <3>2. CASE q # p
      <4>1. \A i \in 1 .. Len(queue[q]) : queue[q][i] \in Calls
        BY ElementOfSeq
      <4> QED BY <2>1, <3>2, <4>1 DEF InLine
    <3> QED BY <3>1, <3>2
  <2> QED BY <2>2
<1>19. ASSUME NEW p \in Processes, Restart(p) PROVE Attended'
  BY <1>19 DEF Restart
<1>20. CASE Recover
  BY <1>20 DEF Recover
<1>21. CASE Replace
  BY <1>21 DEF Replace
<1>22. CASE UNCHANGED vars
  BY <1>22 DEF vars
<1> QED BY <1>1, <1>2, <1>3, <1>4, <1>5, <1>6, <1>7, <1>8, <1>9, <1>10, <1>11,
       <1>12, <1>13, <1>14, <1>15, <1>16, <1>17, <1>18, <1>19, <1>20, <1>21, <1>22 DEF Next, Step

(* What appending a line adds.                                             *)
LEMMA LinesAppended ==
  ASSUME Typed, NEW line \in Appended, AppendLine(line)
  PROVE  /\ Lined' = Lined \cup {line.of}
         /\ Wholes' = Wholes \cup (IF line.whole THEN {line.of} ELSE {})
         /\ (\A i, j \in 1 .. Len(written) : written[i].of = written[j].of => i = j)
              /\ line.of \notin Lined =>
            (\A i, j \in 1 .. Len(written) : written[i].of = written[j].of => i = j)'
PROOF
<1> DEFINE n == Len(written)
           t == Append(written, line)
<1>1. /\ n \in Nat /\ Len(t) = n + 1 /\ t[n + 1] = line
      /\ \A i \in 1 .. n : t[i] = written[i]
  BY AppendProperties, LenProperties DEF Typed
<1>2. written' = t
  BY DEF AppendLine
<1>3. \A i \in 1 .. n + 1 : i \in 1 .. n \/ i = n + 1
  BY <1>1
<1>4. n + 1 \in 1 .. n + 1 /\ \A i \in 1 .. n : i \in 1 .. n + 1
  BY <1>1
<1>5. line.of \in Calls
  BY DEF Appended
<1> HIDE DEF n, t
<1>6. Lined' = {t[i].of : i \in 1 .. n + 1} /\ Lined = {written[i].of : i \in 1 .. n}
  BY <1>1, <1>2 DEF Lined, n
<1>7. /\ Wholes' = {w \in Calls : \E i \in 1 .. n + 1 : t[i].of = w /\ t[i].whole}
      /\ Wholes = {w \in Calls : \E i \in 1 .. n : written[i].of = w /\ written[i].whole}
  BY <1>1, <1>2 DEF Wholes, n
<1>8. Lined' = Lined \cup {line.of}
  BY <1>1, <1>3, <1>4, <1>6
<1>9. Wholes' = Wholes \cup (IF line.whole THEN {line.of} ELSE {})
  <2>1. ASSUME NEW w \in Calls
        PROVE  (\E i \in 1 .. n + 1 : t[i].of = w /\ t[i].whole)
                 <=> (\E i \in 1 .. n : written[i].of = w /\ written[i].whole) \/ (line.of = w /\ line.whole)
    BY <1>1, <1>3, <1>4
  <2> QED BY <1>5, <1>7, <2>1
<1>10. ASSUME \A i, j \in 1 .. n : written[i].of = written[j].of => i = j, line.of \notin Lined,
              NEW i \in 1 .. n + 1, NEW j \in 1 .. n + 1, t[i].of = t[j].of
       PROVE  i = j
  BY <1>1, <1>3, <1>6, <1>10
<1> QED BY <1>1, <1>2, <1>8, <1>9, <1>10 DEF n

(* One line of each call, written on the way to Leaving.                   *)
LEMMA LinesOnceKept ==
  ASSUME IInv, [Next]_vars
  PROVE  LinesOnce'
PROOF
<1> USE Constants DEF process, disk
<1> USE DEF IInv, Typed, TypeOK, Working, Points, Leaving, LinesOnce
<1>a. /\ \A p, q \in Processes : active[p] # None /\ active[p] = active[q] => p = q
      /\ \A p \in Processes : active[p] # None => call[active[p]] = "active"
  BY DEF Attended
<1>l. Lined \subseteq Calls
  <2>1. \A i \in 1 .. Len(written) : written[i] \in Appended
    BY ElementOfSeq
  <2> QED BY <2>1 DEF Lined, Appended
<1>u. ASSUME UNCHANGED written PROVE Lined' = Lined /\ Wholes' = Wholes
  BY <1>u DEF Lined, Wholes
<1>m. ASSUME NEW p \in Processes, NEW n, pc' = [pc EXCEPT ![p] = n], UNCHANGED <<call, active, written>>,
             failed' = failed \/ failed' = [failed EXCEPT ![p] = TRUE], pc[p] # "idle",
             n = "read" => active[p] \in Signalled,
             n \in Working \ {"read"} => active[p] \notin Signalled,
             n \notin Leaving => pc[p] \notin Leaving,
             n \in Leaving => pc[p] \in Leaving \/ active[p] \in Signalled \/ failed'[p]
      PROVE  LinesOnce'
  BY <1>m, <1>u
<1>1. ASSUME NEW w \in Calls, Enqueue(w) PROVE LinesOnce'
  <2>1. /\ call[w] = "idle" /\ call' = [call EXCEPT ![w] = "queued"]
        /\ UNCHANGED <<active, pc, failed, written>>
    BY <1>1 DEF Enqueue
  <2>2. w \notin Lined /\ \A p \in Processes : active[p] # w
    BY <1>a, <2>1
  <2> QED BY <1>u, <1>l, <2>1, <2>2
<1>2. ASSUME NEW w \in Calls, Abort(w) PROVE LinesOnce'
  <2>1. /\ w \in Signalled /\ call' \in {call, [call EXCEPT ![w] = "rejected"]}
        /\ UNCHANGED <<active, pc, failed, written>>
    BY <1>2 DEF Abort
  <2>2. \A x \in Calls : x # w => call'[x] = call[x]
    BY <2>1
  <2> QED BY <1>u, <1>l, <2>1, <2>2
<1>3. ASSUME NEW p \in Processes, Admit(p) PROVE LinesOnce'
  <2> DEFINE w == Head(queue[p])
  <2>1. /\ queue[p] \in Seq(Calls) /\ queue[p] # <<>> /\ InLine(queue[p], p, call)
        /\ call' = [call EXCEPT ![w] = "active"] /\ active' = [active EXCEPT ![p] = w]
        /\ pc' = [pc EXCEPT ![p] = "open"] /\ UNCHANGED <<failed, written>>
    BY <1>3 DEF Admit, Attended
  <2>2. w \in Calls /\ call[w] = "queued"
    BY <2>1, NextInLine DEF Statuses
  <2> HIDE DEF w
  <2>3. w \notin Lined /\ \A q \in Processes : active[q] # w
    BY <1>a, <2>2
  <2> QED BY <1>u, <2>1, <2>2, <2>3
<1>4. ASSUME NEW p \in Processes, Settle(p) PROVE LinesOnce'
  <2>1. /\ pc[p] = "settle" /\ active[p] \in Calls /\ call[active[p]] = "active"
    BY <1>a, <1>4 DEF Settle
  <2>2. /\ call' = [call EXCEPT ![active[p]] = IF failed[p] THEN "rejected" ELSE "resolved"]
        /\ active' = [active EXCEPT ![p] = None] /\ pc' = [pc EXCEPT ![p] = "idle"]
        /\ failed' = [failed EXCEPT ![p] = FALSE] /\ UNCHANGED written
    BY <1>4 DEF Settle, Forget
  <2>3. \A x \in Calls : x # active[p] => call'[x] = call[x]
    BY <2>2
  <2>4. call'[active[p]] \in {"rejected", "resolved"} /\ (call'[active[p]] = "resolved" => ~failed[p])
    BY <2>1, <2>2
  <2>5. \A q \in Processes : q # p => active'[q] = active[q] /\ pc'[q] = pc[q] /\ failed'[q] = failed[q]
    BY <2>2
  <2>6. active'[p] = None /\ pc'[p] = "idle"
    BY <2>2
  <2> QED BY <1>u, <2>1, <2>2, <2>3, <2>4, <2>5, <2>6
<1>5. ASSUME NEW p \in Processes, Expire(p) PROVE LinesOnce'
  <2>1. UNCHANGED <<call, active, pc, failed, written>>
    BY <1>5 DEF Expire
  <2> QED BY <1>u, <2>1
<1>6. ASSUME NEW p \in Processes, OpenLock(p) PROVE LinesOnce'
  <2>1. PICK n \in {"stat", "wait", "settle"} : pc' = [pc EXCEPT ![p] = n]
    BY <1>6 DEF OpenLock, Fail, Goto, Free
  <2>2. UNCHANGED <<call, active, written>> /\ (failed' = failed \/ failed' = [failed EXCEPT ![p] = TRUE])
    BY <1>6 DEF OpenLock, Fail, Goto, Free
  <2>3. n = "settle" => failed'[p]
    BY <1>6, <2>1 DEF OpenLock, Fail, Goto, Free
  <2> QED BY <1>6, <1>m, <2>1, <2>2, <2>3 DEF OpenLock
<1>7. ASSUME NEW p \in Processes, Wait(p) PROVE LinesOnce'
  <2>1. PICK n \in {"retry", "settle"} : pc' = [pc EXCEPT ![p] = n]
    BY <1>7 DEF Wait, Fail, Goto
  <2>2. UNCHANGED <<call, active, written>> /\ (failed' = failed \/ failed' = [failed EXCEPT ![p] = TRUE])
    BY <1>7 DEF Wait, Fail, Goto
  <2>3. n = "settle" => failed'[p]
    BY <1>7, <2>1 DEF Wait, Fail, Goto
  <2> QED BY <1>7, <1>m, <2>1, <2>2, <2>3 DEF Wait
<1>8. ASSUME NEW p \in Processes, Initialize(p) PROVE LinesOnce'
  <2>1. PICK n \in {"check", "record", "read", "inspect"} : pc' = [pc EXCEPT ![p] = n]
    BY <1>8 DEF Initialize, Fail, Goto
  <2>2. UNCHANGED <<call, active, written>> /\ (failed' = failed \/ failed' = [failed EXCEPT ![p] = TRUE])
    BY <1>8 DEF Initialize, Fail, Goto
  <2>3. (n = "check" => failed'[p]) /\ (n = "read" => active[p] \in Signalled) /\ (n = "inspect" => active[p] \notin Signalled)
    BY <1>8, <2>1 DEF Initialize, Fail, Goto
  <2> QED BY <1>8, <1>m, <2>1, <2>2, <2>3 DEF Initialize
<1>9. ASSUME NEW p \in Processes, CheckIdentity(p) PROVE LinesOnce'
  <2>1. PICK n \in {"settle", "unlink", "token"} : pc' = [pc EXCEPT ![p] = n]
    BY <1>9 DEF CheckIdentity, Goto
  <2>2. UNCHANGED <<call, active, written>> /\ (failed' = failed)
    BY <1>9 DEF CheckIdentity, Goto
  <2> QED BY <1>9, <1>m, <2>1, <2>2 DEF CheckIdentity
<1>10. ASSUME NEW p \in Processes, CheckToken(p) PROVE LinesOnce'
  <2>1. PICK n \in {"settle", "unlink"} : pc' = [pc EXCEPT ![p] = n]
    BY <1>10 DEF CheckToken, Goto
  <2>2. UNCHANGED <<call, active, written>> /\ (failed' = failed)
    BY <1>10 DEF CheckToken, Goto
  <2> QED BY <1>10, <1>m, <2>1, <2>2 DEF CheckToken
<1>11. ASSUME NEW p \in Processes, Unlink(p) PROVE LinesOnce'
  <2>1. PICK n \in {"settle"} : pc' = [pc EXCEPT ![p] = n]
    BY <1>11 DEF Unlink, Goto
  <2>2. UNCHANGED <<call, active, written>> /\ (failed' = failed)
    BY <1>11 DEF Unlink, Goto
  <2> QED BY <1>11, <1>m, <2>1, <2>2 DEF Unlink
<1>12. ASSUME NEW p \in Processes, Read(p) PROVE LinesOnce'
  <2>1. PICK n \in {"check"} : pc' = [pc EXCEPT ![p] = n]
    BY <1>12 DEF Read, Fail, Goto
  <2>2. UNCHANGED <<call, active, written>> /\ (failed' = failed \/ failed' = [failed EXCEPT ![p] = TRUE])
    BY <1>12 DEF Read, Fail, Goto
  <2> QED BY <1>12, <1>m, <2>1, <2>2 DEF Read
<1>13. ASSUME NEW p \in Processes, Inspect(p) PROVE LinesOnce'
  <2>1. PICK n \in {"append", "remove"} : pc' = [pc EXCEPT ![p] = n]
    BY <1>13 DEF Inspect, Goto
  <2>2. UNCHANGED <<call, active, written>> /\ (failed' = failed)
    BY <1>13 DEF Inspect, Goto
  <2> QED BY <1>13, <1>m, <2>1, <2>2 DEF Inspect
<1>14. ASSUME NEW p \in Processes, RemoveOldest(p) PROVE LinesOnce'
  <2>1. PICK n \in {"append", "shift"} : pc' = [pc EXCEPT ![p] = n]
    BY <1>14 DEF RemoveOldest, Goto
  <2>2. UNCHANGED <<call, active, written>> /\ (failed' = failed)
    BY <1>14 DEF RemoveOldest, Goto
  <2> QED BY <1>14, <1>m, <2>1, <2>2 DEF RemoveOldest
<1>15. ASSUME NEW p \in Processes, Shift(p) PROVE LinesOnce'
  <2>1. PICK n \in {"append", "shift"} : pc' = [pc EXCEPT ![p] = n]
    BY <1>15 DEF Shift, Goto, Turn, Renamed
  <2>2. UNCHANGED <<call, active, written>> /\ (failed' = failed)
    BY <1>15 DEF Shift, Goto, Turn, Renamed
  <2> QED BY <1>15, <1>m, <2>1, <2>2 DEF Shift
<1>16. ASSUME NEW p \in Processes, AppendAuditLine(p) PROVE LinesOnce'
  <2>1. /\ pc' = [pc EXCEPT ![p] = "check"] /\ pc[p] = "append"
        /\ UNCHANGED <<call, active, failed>> /\ active[p] \in Calls
    BY <1>16 DEF AppendAuditLine, Goto
  <2>2. [of |-> active[p], whole |-> TRUE] \in Appended /\ AppendLine([of |-> active[p], whole |-> TRUE])
    BY <1>16, <2>1 DEF Appended, AppendAuditLine
  <2>3. /\ active[p] \notin Lined /\ active[p] \notin Signalled /\ call[active[p]] = "active"
    BY <1>a, <2>1
  <2>4. /\ Lined' = Lined \cup {active[p]} /\ Wholes' = Wholes \cup {active[p]}
        /\ (\A i, j \in 1 .. Len(written) : written[i].of = written[j].of => i = j)'
    <3> DEFINE line == [of |-> active[p], whole |-> TRUE]
    <3>1. line \in Appended /\ AppendLine(line) /\ line.of = active[p] /\ line.whole = TRUE
      BY <2>2
    <3> HIDE DEF line
    <3> QED BY <2>3, <3>1, LinesAppended
  <2> QED BY <1>a, <2>1, <2>3, <2>4
<1>17. ASSUME NEW p \in Processes, Fault(p) PROVE LinesOnce'
  <2>1. PICK n \in {"check", "settle"} : pc' = [pc EXCEPT ![p] = n]
    BY <1>17 DEF Fault, Fail, Goto
  <2>2. /\ UNCHANGED <<call, active>> /\ failed' = [failed EXCEPT ![p] = TRUE] /\ pc[p] # "idle"
        /\ active[p] \in Calls
    BY <1>17 DEF Fault, Fail
  <2>3. CASE UNCHANGED written
    BY <1>m, <2>1, <2>2, <2>3
  <2>4. CASE pc[p] = "append" /\ AppendLine([of |-> active[p], whole |-> FALSE])
    <3>1. [of |-> active[p], whole |-> FALSE] \in Appended
      BY <2>2 DEF Appended
    <3>2. /\ active[p] \notin Lined /\ active[p] \notin Signalled /\ call[active[p]] = "active"
      BY <1>a, <2>2, <2>4
    <3>3. /\ Lined' = Lined \cup {active[p]} /\ Wholes' = Wholes
          /\ (\A i, j \in 1 .. Len(written) : written[i].of = written[j].of => i = j)'
      <4> DEFINE line == [of |-> active[p], whole |-> FALSE]
      <4>1. line \in Appended /\ AppendLine(line) /\ line.of = active[p] /\ line.whole = FALSE
        BY <2>4, <3>1
      <4> HIDE DEF line
      <4>2. Wholes' = Wholes \cup (IF line.whole THEN {line.of} ELSE {})
        BY <4>1, LinesAppended
      <4>3. Wholes' = Wholes
        BY <4>1, <4>2
      <4> QED BY <3>2, <4>1, <4>3, LinesAppended
    <3> QED BY <1>a, <2>1, <2>2, <2>4, <3>2, <3>3
  <2> QED BY <1>17, <2>3, <2>4 DEF Fault
<1>18. ASSUME NEW p \in Processes, Crash(p) PROVE LinesOnce'
  <2>1. /\ active' = [active EXCEPT ![p] = None] /\ pc' = [pc EXCEPT ![p] = "idle"]
        /\ failed' = [failed EXCEPT ![p] = FALSE] /\ UNCHANGED written
    BY <1>18 DEF Crash, Forget
  <2>2. \A w \in Calls : call'[w] = call[w] \/ (call[w] \in {"queued", "active"} /\ call'[w] = "lost")
    BY <1>18 DEF Crash
  <2> QED BY <1>u, <1>l, <2>1, <2>2
<1>19. ASSUME NEW p \in Processes, Restart(p) PROVE LinesOnce'
  <2>1. UNCHANGED <<call, active, pc, failed, written>>
    BY <1>19 DEF Restart
  <2> QED BY <1>u, <2>1
<1>20. CASE Recover
  <2>1. UNCHANGED <<call, active, pc, failed, written>>
    BY <1>20 DEF Recover
  <2> QED BY <1>u, <2>1
<1>21. CASE Replace
  <2>1. UNCHANGED <<call, active, pc, failed, written>>
    BY <1>21 DEF Replace
  <2> QED BY <1>u, <2>1
<1>22. CASE UNCHANGED vars
  <2>1. UNCHANGED <<call, active, pc, failed, written>>
    BY <1>22 DEF vars
  <2> QED BY <1>u, <2>1
<1> QED BY <1>1, <1>2, <1>3, <1>4, <1>5, <1>6, <1>7, <1>8, <1>9, <1>10, <1>11,
       <1>12, <1>13, <1>14, <1>15, <1>16, <1>17, <1>18, <1>19, <1>20, <1>21, <1>22 DEF Next, Step

(* A rotation in progress finds a free number.                             *)
LEMMA NextNumberFreeKept ==
  ASSUME IInv, [Next]_vars
  PROVE  NextNumberFree'
PROOF
<1> USE Constants DEF process, disk
<1> USE DEF IInv, Typed, TypeOK, Working, Points, Holding, OneHolder, NextNumberFree
<1>1. ASSUME NEW w \in Calls, Enqueue(w) PROVE NextNumberFree'
  BY <1>1 DEF Enqueue
<1>2. ASSUME NEW w \in Calls, Abort(w) PROVE NextNumberFree'
  BY <1>2 DEF Abort
<1>3. ASSUME NEW p \in Processes, Admit(p) PROVE NextNumberFree'
  BY <1>3 DEF Admit
<1>4. ASSUME NEW p \in Processes, Settle(p) PROVE NextNumberFree'
  BY <1>4 DEF Settle, Forget
<1>5. ASSUME NEW p \in Processes, Expire(p) PROVE NextNumberFree'
  BY <1>5 DEF Expire
<1>6. ASSUME NEW p \in Processes, OpenLock(p) PROVE NextNumberFree'
  BY <1>6 DEF OpenLock, Fail, Goto, Free
<1>7. ASSUME NEW p \in Processes, Wait(p) PROVE NextNumberFree'
  BY <1>7 DEF Wait, Fail, Goto
<1>8. ASSUME NEW p \in Processes, Initialize(p) PROVE NextNumberFree'
  BY <1>8 DEF Initialize, Fail, Goto
<1>9. ASSUME NEW p \in Processes, CheckIdentity(p) PROVE NextNumberFree'
  BY <1>9 DEF CheckIdentity, Goto
<1>10. ASSUME NEW p \in Processes, CheckToken(p) PROVE NextNumberFree'
  BY <1>10 DEF CheckToken, Goto
<1>11. ASSUME NEW p \in Processes, Unlink(p) PROVE NextNumberFree'
  BY <1>11 DEF Unlink, Goto
<1>12. ASSUME NEW p \in Processes, Read(p) PROVE NextNumberFree'
  BY <1>12 DEF Read, Fail, Goto
<1>13. ASSUME NEW p \in Processes, Inspect(p) PROVE NextNumberFree'
  BY <1>13 DEF Inspect, Goto
<1>14. ASSUME NEW p \in Processes, RemoveOldest(p) PROVE NextNumberFree'
  BY <1>14 DEF RemoveOldest, Goto
<1>15. ASSUME NEW p \in Processes, Shift(p) PROVE NextNumberFree'
  BY <1>15 DEF Shift, Goto, Turn, Renamed
<1>16. ASSUME NEW p \in Processes, AppendAuditLine(p) PROVE NextNumberFree'
  BY <1>16 DEF AppendAuditLine, Goto, AppendLine
<1>17. ASSUME NEW p \in Processes, Fault(p) PROVE NextNumberFree'
  BY <1>17 DEF Fault, Fail, Goto, AppendLine
<1>18. ASSUME NEW p \in Processes, Crash(p) PROVE NextNumberFree'
  BY <1>18 DEF Crash, Forget
<1>19. ASSUME NEW p \in Processes, Restart(p) PROVE NextNumberFree'
  BY <1>19 DEF Restart
<1>20. CASE Recover
  BY <1>20 DEF Recover
<1>21. CASE Replace
  BY <1>21 DEF Replace
<1>22. CASE UNCHANGED vars
  BY <1>22 DEF vars
<1> QED BY <1>1, <1>2, <1>3, <1>4, <1>5, <1>6, <1>7, <1>8, <1>9, <1>10, <1>11,
       <1>12, <1>13, <1>14, <1>15, <1>16, <1>17, <1>18, <1>19, <1>20, <1>21, <1>22 DEF Next, Step

(* The processes start with no line written and no lock.                   *)
LEMMA InitIInv == Init => IInv
PROOF
<1> SUFFICES ASSUME Init PROVE IInv
  OBVIOUS
<1> USE WritersAssumption DEF Init
<1>1. Earlier \in [0 .. MaxFiles -> Seq(FileLines)]
  <2>1. EarlierLines \subseteq FileLines
    BY DEF FileLines
  <2>2. Seq(EarlierLines) \subseteq Seq(FileLines)
    BY <2>1, SeqMonotonic
  <2> QED BY <2>2
<1>2. Typed
  BY <1>1, EmptySeq DEF Typed, TypeOK, Working
<1>3. OneHolder
  BY DEF OneHolder, Holding, Working
<1>4. Attended
  BY EmptySeq DEF Attended, InLine
<1>5. LinesOnce
  BY EmptySeq DEF LinesOnce, Lined, Leaving, Working
<1> QED BY <1>2, <1>3, <1>4, <1>5 DEF IInv, NextNumberFree

(* The inductive invariant holds in every reachable state.                 *)
LEMMA WritersInvariant == Spec => []IInv
PROOF
<1>1. ASSUME IInv, [Next]_vars PROVE IInv'
  <2>1. Typed' BY <1>1, TypedKept
  <2>2. OneHolder' BY <1>1, OneHolderKept
  <2>3. Attended' BY <1>1, AttendedKept
  <2>4. LinesOnce' BY <1>1, LinesOnceKept
  <2>5. NextNumberFree' BY <1>1, NextNumberFreeKept
  <2> QED BY <2>1, <2>2, <2>3, <2>4, <2>5 DEF IInv
<1> QED BY <1>1, InitIInv, PTL DEF Spec

(* The lock excludes, and every answered call is accounted for: however    *)
(* the steps of any number of processes interleave, crash and fail, no two *)
(* work on the files at once, a call whose append succeeded left its line  *)
(* exactly once, and nothing runs for a caller that was answered           *)
(* (withFileLock, serializeProcessWrite, rotateAndAppend).                 *)
THEOREM WritersAreSound == Spec => []WritersSound
PROOF
<1>1. ASSUME IInv PROVE Exclusive
  BY <1>1 DEF IInv, OneHolder, Holding, Exclusive
<1>2. ASSUME IInv, NEW w \in Calls
      PROVE  LET lines == {i \in DOMAIN written : written[i].of = w} IN
             /\ Cardinality(lines) <= 1
             /\ call[w] = "resolved" /\ w \notin Signalled => \E i \in lines : written[i].whole
             /\ call[w] \in {"idle", "queued"} => lines = {}
  <2> DEFINE lines == {i \in DOMAIN written : written[i].of = w}
  <2>1. DOMAIN written = 1 .. Len(written)
    BY <1>2, LenProperties DEF IInv, Typed
  <2>2. \A i, j \in lines : i = j
    BY <1>2, <2>1 DEF IInv, LinesOnce
  <2>3. Cardinality(lines) <= 1
    <3> HIDE DEF lines
    <3>1. CASE lines = {}
      BY <3>1, FS_EmptySet
    <3>2. CASE lines # {}
      <4>1. PICK i : lines = {i}
        BY <2>2, <3>2
      <4> QED BY <4>1, FS_Singleton
    <3> QED BY <3>1, <3>2
  <2>4. call[w] = "resolved" /\ w \notin Signalled => \E i \in lines : written[i].whole
    BY <1>2, <2>1 DEF IInv, LinesOnce, Wholes
  <2>5. call[w] \in {"idle", "queued"} => lines = {}
    BY <1>2, <2>1 DEF IInv, LinesOnce, Lined
  <2> QED BY <2>3, <2>4, <2>5
<1>3. ASSUME IInv PROVE OnlyUnanswered
  <2> SUFFICES ASSUME NEW p \in Processes
               PROVE  /\ \A i \in DOMAIN queue[p] : call[queue[p][i]] = "queued"
                      /\ active[p] # None => call[active[p]] = "active"
    BY DEF OnlyUnanswered
  <2>1. DOMAIN queue[p] = 1 .. Len(queue[p])
    BY <1>3, LenProperties DEF IInv, Typed, TypeOK
  <2> QED BY <1>3, <2>1 DEF IInv, Attended, InLine
<1>4. IInv => WritersSound
  BY <1>1, <1>2, <1>3 DEF WritersSound, LinesAccounted, IInv, Typed
<1> QED BY <1>4, WritersInvariant, PTL

(* No rename overwrites a line, however many files are kept and wherever   *)
(* an earlier rotation was interrupted (rotateAndAppend).                  *)
THEOREM NoLineOverwritten == Spec => RotationKeepsLines
PROOF
<1> DEFINE Kept == \A i \in 0 .. MaxFiles :
                     KeepsLines(i) \/ MovesOn(i) \/ (i > 0 /\ MovesOn(i - 1))
                     \/ (i = MaxFiles /\ files'[i] = <<>>)
<1>1. ASSUME IInv, [Next]_vars PROVE [Kept]_files
  <2> USE Constants
  <2>a. CASE UNCHANGED files
    BY <2>a
  <2>b. ASSUME NEW line \in Appended, AppendLine(line) PROVE Kept
    <3>1. files[0] \in Seq(FileLines) /\ line \in FileLines
      <4>1. line \in FileLines
        BY <2>b DEF FileLines
      <4> QED BY <1>1, <4>1 DEF IInv, Typed
    <3>2. IsPrefix(files[0], files'[0])
      <4>1. /\ files'[0] = Append(files[0], line)
            /\ Len(files'[0]) = Len(files[0]) + 1 /\ Len(files[0]) \in Nat
            /\ \A j \in 1 .. Len(files[0]) : files'[0][j] = files[0][j]
        BY <1>1, <2>b, <3>1, AppendProperties, LenProperties DEF AppendLine, IInv, Typed
      <4> QED BY <3>1, <4>1 DEF IsPrefix
    <3>3. \A i \in 0 .. MaxFiles : i # 0 => files'[i] = files[i]
      BY <1>1, <2>b DEF AppendLine, IInv, Typed
    <3> QED BY <3>2, <3>3 DEF KeepsLines
  <2>c. ASSUME NEW p \in Processes, RemoveOldest(p) PROVE Kept
    BY <1>1, <2>c DEF RemoveOldest, IInv, Typed, KeepsLines
  <2>d. ASSUME NEW p \in Processes, Shift(p) PROVE Kept
    <3>1. index[p] \in 0 .. MaxFiles - 1 /\ files[index[p] + 1] = <<>>
      BY <1>1, <2>d DEF Shift, IInv, NextNumberFree
    <3>2. files' = Renamed(index[p], index[p] + 1)
      BY <2>d DEF Shift, Turn
    <3>3. index[p] \in 0 .. MaxFiles /\ index[p] + 1 \in 0 .. MaxFiles /\ index[p] # index[p] + 1
      BY <3>1
    <3>4. CASE files[index[p]] = <<>>
      BY <3>2, <3>4 DEF Renamed, KeepsLines
    <3>5. CASE files[index[p]] # <<>>
      <4> DEFINE f == index[p]
                 g == index[p] + 1
      <4>1. files' = [files EXCEPT ![g] = files[f], ![f] = <<>>]
        BY <3>2, <3>5 DEF Renamed
      <4>2. /\ files'[g] = files[f] /\ files'[f] = <<>> /\ files[g] = <<>>
            /\ \A i \in 0 .. MaxFiles : i # f /\ i # g => files'[i] = files[i]
        BY <1>1, <3>1, <3>3, <4>1 DEF IInv, Typed
      <4>3. MovesOn(f) /\ g > 0 /\ g - 1 = f
        BY <3>1, <4>2 DEF MovesOn
      <4> HIDE DEF f, g
      <4> QED BY <4>2, <4>3 DEF KeepsLines
    <3> QED BY <3>4, <3>5
  <2>e. ASSUME NEW p \in Processes, AppendAuditLine(p) PROVE Kept
    BY <1>1, <2>b, <2>e DEF AppendAuditLine, IInv, Typed, TypeOK, Appended
  <2>f. ASSUME NEW p \in Processes, Fault(p) PROVE [Kept]_files
    BY <1>1, <2>b, <2>f DEF Fault, IInv, Typed, TypeOK, Appended
  <2> HIDE DEF Kept
  <2> QED BY <1>1, <2>a, <2>c, <2>d, <2>e, <2>f
       DEF Next, Step, vars, disk, Enqueue, Abort, Admit, Settle, Expire, OpenLock, Wait, Initialize,
           CheckIdentity, CheckToken, Unlink, Read, Inspect, Crash, Restart, Recover, Replace
<1> QED BY <1>1, WritersInvariant, PTL DEF Spec, RotationKeepsLines

================================================================================
