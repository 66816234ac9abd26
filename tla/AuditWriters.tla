----------------------------- MODULE AuditWriters -----------------------------
(***************************************************************************)
(* The processes that append to one audit file: serializeProcessWrite lets *)
(* one operation per process run at a time, withFileLock one among the     *)
(* processes, and rotateAndAppend shifts the numbered files and appends.   *)
(* A process may crash between any two steps; the marker it leaves is      *)
(* removed by an operator who first stops every process.                   *)
(*                                                                         *)
(* A call with a signal stands for the export of an audit chain, which     *)
(* runs through the same queue and the same lock and only reads.           *)
(***************************************************************************)
EXTENDS Integers, Sequences, FiniteSets, SequencesExt

CONSTANTS
  Processes,
  Calls,
  Home,           (* the process that makes each call                      *)
  Signalled,      (* the calls made with a signal                          *)
  MaxBytes,       (* lines of the active file before it is rotated         *)
  MaxFiles,       (* rotated files kept                                    *)
  Earlier,        (* the files' lines when the processes start             *)
  Inodes,         (* inode numbers the marker's file may have              *)
  None,
  MaxMishaps      (* bound on failing operations of the file system,       *)
                  (* crashes and markers replaced under a live owner       *)

Partial == "partial"
Stranger == "stranger"
Markers == [ino : Inodes, token : Calls \cup {Partial, Stranger}]

EarlierLines == UNION {ToSet(Earlier[i]) : i \in DOMAIN Earlier}

ASSUME WritersAssumption ==
  /\ Home \in [Calls -> Processes]
  /\ Signalled \subseteq Calls
  /\ MaxBytes \in Nat \ {0}
  /\ MaxFiles \in Nat
  /\ Earlier \in [0 .. MaxFiles -> Seq(EarlierLines)]
  /\ None \notin Calls \cup Markers

VARIABLES
  call,           (* progress of each call                                 *)
  aborted,        (* the calls whose signal has been aborted               *)
  queue,          (* of each process: the calls not admitted yet           *)
  active,         (* the call whose operation is running, or None          *)
  pc,             (* its next step                                         *)
  index,          (* the rotated file it moves next                        *)
  mine,           (* the identity of the marker it has created, or None    *)
  expired,        (* lockTimeoutMs has passed                              *)
  failed,         (* the operation has failed                              *)
  incomplete,     (* the marker's record may not have been written         *)
  up,             (* the processes that are running                        *)
  marker,         (* the .lock file: [ino, token], or None                 *)
  files,          (* lines of the active file (0) and the rotated ones     *)
  written,        (* history: the lines appended since, in their order     *)
  mishaps

process == <<active, pc, index, mine, expired, failed, incomplete>>
disk    == <<marker, files, written>>
vars == <<call, aborted, queue, process, up, disk, mishaps>>

Working == {"inspect", "remove", "shift", "append", "read"}

Init ==
  /\ call = [w \in Calls |-> "idle"]
  /\ aborted = {}
  /\ queue = [p \in Processes |-> <<>>]
  /\ active = [p \in Processes |-> None]
  /\ pc = [p \in Processes |-> "idle"]
  /\ index = [p \in Processes |-> 0]
  /\ mine = [p \in Processes |-> None]
  /\ expired = [p \in Processes |-> FALSE]
  /\ failed = [p \in Processes |-> FALSE]
  /\ incomplete = [p \in Processes |-> FALSE]
  /\ up = Processes
  /\ marker = None
  /\ files = Earlier
  /\ written = <<>>
  /\ mishaps = 0

-----------------------------------------------------------------------------
(* The queue of a process                                                  *)

Enqueue(w) ==
  LET p == Home[w] IN
  /\ p \in up /\ call[w] = "idle" /\ w \notin aborted
  /\ call' = [call EXCEPT ![w] = "queued"]
  /\ queue' = [queue EXCEPT ![p] = Append(@, w)]
  /\ UNCHANGED <<aborted, process, up, disk, mishaps>>

(* Variant: the cancelled call is answered, but not detached.              *)
StaysQueued(w) ==
  /\ w \in Signalled \ aborted
  /\ call[w] \in {"queued", "active"}
  /\ aborted' = aborted \cup {w}
  /\ call' = [call EXCEPT ![w] = IF @ = "queued" THEN "rejected" ELSE @]
  /\ UNCHANGED <<queue, process, up, disk, mishaps>>

(* A queued call is detached at once; an admitted one learns of it later.  *)
Abort(w) ==
  /\ w \in Signalled \ aborted
  /\ call[w] \in {"queued", "active"}
  /\ aborted' = aborted \cup {w}
  /\ IF call[w] = "queued"
       THEN /\ call' = [call EXCEPT ![w] = "rejected"]
            /\ \E i \in DOMAIN queue[Home[w]] :
                 /\ queue[Home[w]][i] = w
                 /\ queue' = [queue EXCEPT ![Home[w]] = RemoveAt(@, i)]
       ELSE UNCHANGED <<call, queue>>
  /\ UNCHANGED <<process, up, disk, mishaps>>

(* drain takes the next call when the active one has settled.              *)
Admit(p) ==
  /\ p \in up /\ active[p] = None /\ queue[p] # <<>>
  /\ active' = [active EXCEPT ![p] = Head(queue[p])]
  /\ call' = [call EXCEPT ![Head(queue[p])] = "active"]
  /\ queue' = [queue EXCEPT ![p] = Tail(@)]
  /\ pc' = [pc EXCEPT ![p] = "open"]
  /\ UNCHANGED <<aborted, index, mine, expired, failed, incomplete, up, disk, mishaps>>

(* Nothing of the operation outlives it.                                   *)
Forget(p) ==
  /\ active' = [active EXCEPT ![p] = None]
  /\ pc' = [pc EXCEPT ![p] = "idle"]
  /\ index' = [index EXCEPT ![p] = 0]
  /\ mine' = [mine EXCEPT ![p] = None]
  /\ expired' = [expired EXCEPT ![p] = FALSE]
  /\ failed' = [failed EXCEPT ![p] = FALSE]
  /\ incomplete' = [incomplete EXCEPT ![p] = FALSE]

Settle(p) ==
  /\ pc[p] = "settle"
  /\ call' = [call EXCEPT ![active[p]] = IF failed[p] THEN "rejected" ELSE "resolved"]
  /\ Forget(p)
  /\ UNCHANGED <<aborted, queue, up, disk, mishaps>>

-----------------------------------------------------------------------------
(* The lock                                                                *)

Goto(p, next) == pc' = [pc EXCEPT ![p] = next]
Fail(p, next) ==
  /\ failed' = [failed EXCEPT ![p] = TRUE]
  /\ Goto(p, next)

Aborted(p) == active[p] \in aborted

(* The wait for the lock is over.                                          *)
Expire(p) ==
  /\ pc[p] \in {"open", "wait", "retry"} /\ ~expired[p]
  /\ expired' = [expired EXCEPT ![p] = TRUE]
  /\ UNCHANGED <<call, aborted, queue, active, pc, index, mine, failed, incomplete, up, disk, mishaps>>

(* Variant: only the first attempt looks at the time.                      *)
GivesUpOnAbort(p) == Aborted(p)

(* Before an attempt, the first one excepted, the time is looked at.       *)
GivesUp(p) == Aborted(p) \/ (pc[p] # "open" /\ expired[p])

(* Variant: a marker found after the wait is taken over.                   *)
TakesOver(p) == marker = None \/ expired[p]

(* The marker can only be created.                                         *)
Free(p) == marker = None

(* open(path, "wx"); the marker's file may have any inode number.          *)
OpenLock(p) ==
  /\ pc[p] \in {"open", "retry"}
  /\ IF GivesUp(p) THEN Fail(p, "settle") /\ UNCHANGED <<mine, marker>>
     ELSE IF Free(p)
       THEN \E ino \in Inodes :
              /\ marker' = [ino |-> ino, token |-> Partial]
              /\ mine' = [mine EXCEPT ![p] = ino]
              /\ Goto(p, "stat")
              /\ UNCHANGED failed
       ELSE Goto(p, "wait") /\ UNCHANGED <<mine, marker, failed>>
  /\ UNCHANGED <<call, aborted, queue, active, index, expired, incomplete, up, files, written, mishaps>>

Wait(p) ==
  /\ pc[p] = "wait"
  /\ IF GivesUp(p) THEN Fail(p, "settle") ELSE Goto(p, "retry") /\ UNCHANGED failed
  /\ UNCHANGED <<call, aborted, queue, active, index, mine, expired, incomplete, up, disk, mishaps>>

(* After the marker's identity is known and after its record is written    *)
(* the signal is looked at; a failure there removes the marker unread.     *)
Initialize(p) ==
  /\ pc[p] \in {"stat", "record"}
  /\ marker' = IF pc[p] = "record" /\ marker # None /\ marker.ino = mine[p]
                    /\ marker.token = Partial
                 THEN [marker EXCEPT !.token = active[p]] ELSE marker
  /\ incomplete' = [incomplete EXCEPT ![p] = Aborted(p)]
  /\ IF Aborted(p) THEN Fail(p, "check")
     ELSE /\ Goto(p, IF pc[p] = "stat" THEN "record"
                     ELSE IF active[p] \in Signalled THEN "read" ELSE "inspect")
          /\ UNCHANGED failed
  /\ UNCHANGED <<call, aborted, queue, active, index, mine, expired, up, files, written, mishaps>>

(* removeLockIfOwned: the identity, the record, the removal.               *)
CheckIdentity(p) ==
  /\ pc[p] = "check"
  /\ Goto(p, CASE marker = None \/ marker.ino # mine[p] -> "settle"
               [] marker # None /\ marker.ino = mine[p] /\ incomplete[p] -> "unlink"
               [] OTHER -> "token")
  /\ UNCHANGED <<call, aborted, queue, active, index, mine, expired, failed, incomplete, up, disk, mishaps>>

CheckToken(p) ==
  /\ pc[p] = "token"
  /\ Goto(p, IF marker # None /\ marker.token = active[p] THEN "unlink" ELSE "settle")
  /\ UNCHANGED <<call, aborted, queue, active, index, mine, expired, failed, incomplete, up, disk, mishaps>>

Unlink(p) ==
  /\ pc[p] = "unlink"
  /\ marker' = None
  /\ Goto(p, "settle")
  /\ UNCHANGED <<call, aborted, queue, active, index, mine, expired, failed, incomplete, up, files,
                 written, mishaps>>

-----------------------------------------------------------------------------
(* The operation                                                           *)

(* An export reads, unless its signal was aborted.                         *)
Read(p) ==
  /\ pc[p] = "read"
  /\ IF Aborted(p) THEN Fail(p, "check") ELSE Goto(p, "check") /\ UNCHANGED failed
  /\ UNCHANGED <<call, aborted, queue, active, index, mine, expired, incomplete, up, disk, mishaps>>

Inspect(p) ==
  /\ pc[p] = "inspect"
  /\ Goto(p, IF Len(files[0]) + 1 <= MaxBytes THEN "append" ELSE "remove")
  /\ UNCHANGED <<call, aborted, queue, active, index, mine, expired, failed, incomplete, up, disk, mishaps>>

(* The oldest file is removed; with no rotated files, the active one.      *)
RemoveOldest(p) ==
  /\ pc[p] = "remove"
  /\ files' = [files EXCEPT ![MaxFiles] = <<>>]
  /\ index' = [index EXCEPT ![p] = MaxFiles - 1]
  /\ Goto(p, IF MaxFiles = 0 THEN "append" ELSE "shift")
  /\ UNCHANGED <<call, aborted, queue, active, mine, expired, failed, incomplete, up, marker,
                 written, mishaps>>

(* renameIfExists: a file that is not there leaves its destination alone.  *)
Renamed(from, to) ==
  IF files[from] = <<>> THEN files ELSE [files EXCEPT ![to] = files[from], ![from] = <<>>]

(* Variant: the lowest number is moved first.                              *)
LowestFirst(i) == IF i = MaxFiles - 1 THEN 0 ELSE MaxFiles - 1 - i

(* The order of the renames: descending, the active file last.             *)
Turn(i) == i

Shift(p) ==
  LET i == Turn(index[p]) IN
  /\ pc[p] = "shift"
  /\ files' = Renamed(i, i + 1)
  /\ index' = [index EXCEPT ![p] = @ - 1]
  /\ Goto(p, IF index[p] = 0 THEN "append" ELSE "shift")
  /\ UNCHANGED <<call, aborted, queue, active, mine, expired, failed, incomplete, up, marker,
                 written, mishaps>>

AppendLine(line) ==
  /\ files' = [files EXCEPT ![0] = Append(@, line)]
  /\ written' = Append(written, line)

AppendAuditLine(p) ==
  /\ pc[p] = "append"
  /\ AppendLine([of |-> active[p], whole |-> TRUE])
  /\ Goto(p, "check")
  /\ UNCHANGED <<call, aborted, queue, active, index, mine, expired, failed, incomplete, up, marker,
                 mishaps>>

-----------------------------------------------------------------------------
(* Faults                                                                  *)

Mishap == mishaps < MaxMishaps /\ mishaps' = mishaps + 1

(* An operation on the files fails: before the marker's identity is known  *)
(* it is left behind, as it is when its own removal fails; an append may   *)
(* leave a part of its line.                                               *)
Fault(p) ==
  /\ Mishap
  /\ pc[p] \in Working \cup {"open", "retry", "stat", "record", "check", "token", "unlink"}
  /\ Fail(p, IF pc[p] \in Working \cup {"record"} THEN "check" ELSE "settle")
  /\ incomplete' = [incomplete EXCEPT ![p] = @ \/ pc[p] = "record"]
  /\ \/ UNCHANGED <<files, written>>
     \/ pc[p] = "append" /\ AppendLine([of |-> active[p], whole |-> FALSE])
  /\ UNCHANGED <<call, aborted, queue, active, index, mine, expired, up, marker>>

Crash(p) ==
  /\ p \in up /\ Mishap
  /\ up' = up \ {p}
  /\ call' = [w \in Calls |->
                IF Home[w] = p /\ call[w] \in {"queued", "active"} THEN "lost" ELSE call[w]]
  /\ queue' = [queue EXCEPT ![p] = <<>>]
  /\ Forget(p)
  /\ UNCHANGED <<aborted, disk>>

(* "Stop all writers before manually recovering an abandoned marker."      *)
Recover ==
  /\ marker # None
  /\ \A p \in Processes : active[p] = None /\ queue[p] = <<>>
  /\ marker' = None
  /\ UNCHANGED <<call, aborted, queue, process, up, files, written, mishaps>>

Restart(p) ==
  /\ p \notin up
  /\ up' = up \cup {p}
  /\ UNCHANGED <<call, aborted, queue, process, disk, mishaps>>

(* Somebody replaces the marker although its owner is alive, and does not  *)
(* touch the files: the owner does not remove what it finds in its place.  *)
Replace ==
  /\ Mishap
  /\ marker # None /\ marker.token # Stranger
  /\ \E ino \in Inodes \ {marker.ino} : marker' = [ino |-> ino, token |-> Stranger]
  /\ UNCHANGED <<call, aborted, queue, process, up, files, written>>

-----------------------------------------------------------------------------
Step(p) ==
  \/ Admit(p) \/ Settle(p) \/ Expire(p) \/ OpenLock(p) \/ Wait(p) \/ Initialize(p)
  \/ CheckIdentity(p) \/ CheckToken(p) \/ Unlink(p)
  \/ Read(p) \/ Inspect(p) \/ RemoveOldest(p) \/ Shift(p) \/ AppendAuditLine(p)

Next ==
  \/ \E w \in Calls : Enqueue(w) \/ Abort(w)
  \/ \E p \in Processes : Step(p) \/ Fault(p) \/ Crash(p) \/ Restart(p)
  \/ Recover
  \/ Replace

Spec == Init /\ [][Next]_vars

(* A running process goes on, and time passes for it.                      *)
Fairness ==
  \A p \in Processes :
    /\ WF_vars(Step(p) /\ ~Expire(p))
    /\ WF_vars(Expire(p))

FairSpec == Spec /\ Fairness

-----------------------------------------------------------------------------
(* Properties                                                              *)

TypeOK ==
  /\ call \in [Calls -> {"idle", "queued", "active", "resolved", "rejected", "lost"}]
  /\ aborted \subseteq Signalled
  /\ queue \in [Processes -> Seq(Calls)]
  /\ active \in [Processes -> Calls \cup {None}]
  /\ pc \in [Processes -> {"idle", "open", "wait", "retry", "stat", "record", "check", "token",
                           "unlink", "settle"} \cup Working]
  /\ up \subseteq Processes
  /\ \A p \in Processes : active[p] = None <=> pc[p] = "idle"

(* Two processes never work on the files at once, not even when the marker *)
(* of one is replaced, and while one works there is a marker.              *)
Exclusive ==
  /\ \A p, q \in Processes : pc[p] \in Working /\ pc[q] \in Working => p = q
  /\ \A p \in Processes : pc[p] \in Working => marker # None /\ marker.token \in {active[p], Stranger}

(* Read from the oldest file to the active one, the lines only ever grow   *)
(* at the end or lose the oldest file as a whole: no rename overwrites or  *)
(* reorders lines, wherever an earlier rotation was interrupted.  A file   *)
(* keeps its lines, grows if it is the active one, moves as a whole to the *)
(* next number, which is free, or is the oldest and removed.               *)
KeepsLines(i) == files'[i] = files[i] \/ (i = 0 /\ IsPrefix(files[0], files'[0]))

MovesOn(i) ==
  /\ i < MaxFiles
  /\ files[i + 1] = <<>> /\ files'[i + 1] = files[i] /\ files'[i] = <<>>

RotationKeepsLines ==
  [][\A i \in 0 .. MaxFiles :
       KeepsLines(i) \/ MovesOn(i) \/ (i > 0 /\ MovesOn(i - 1))
       \/ (i = MaxFiles /\ files'[i] = <<>>)]_files

(* A call that was answered with success left its line exactly once, one   *)
(* that failed at most once, and one that waits none.                      *)
LinesAccounted ==
  \A w \in Calls :
    LET lines == {i \in DOMAIN written : written[i].of = w} IN
    /\ Cardinality(lines) <= 1
    /\ call[w] = "resolved" /\ w \notin Signalled =>
         \E i \in lines : written[i].whole
    /\ call[w] \in {"idle", "queued"} => lines = {}

(* Nothing waits or runs for a caller that was answered: a call cancelled  *)
(* in the queue never takes the lock, wherever it stood, and the abort of  *)
(* an admitted one does not answer it before its operation has settled.    *)
OnlyUnanswered ==
  \A p \in Processes :
    /\ \A i \in DOMAIN queue[p] : call[queue[p][i]] = "queued"
    /\ active[p] # None => call[active[p]] = "active"

WritersSound == TypeOK /\ Exclusive /\ LinesAccounted /\ OnlyUnanswered

(* Whoever holds the lock and however long, every call is answered, unless *)
(* its process crashes.                                                    *)
CallsAnswered ==
  \A w \in Calls : call[w] = "queued" ~> call[w] \in {"resolved", "rejected", "lost"}
================================================================================
