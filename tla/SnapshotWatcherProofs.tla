------------------------- MODULE SnapshotWatcherProofs -------------------------
(***************************************************************************)
(* Proofs about SnapshotWatcher, for any texts, callers, kinds of watchers *)
(* and any number of changes and errors: after close nothing is delivered, *)
(* reloads are fresh and their failures are counted once.                  *)
(***************************************************************************)
EXTENDS SnapshotWatcher, TLAPS

(* After close nothing reaches the provider (performReload, close).        *)
THEOREM WatcherSilentAfterClose == Spec => NothingAfterClose
PROOF
<1>1. [Next]_vars => [closed => provider' = provider /\ counted' = counted]_vars
  BY DEF Next, vars, world, history, closed, Change, Notify, NotifyUnarmed, NativeError, HandleError,
         TimerFires, StartReload, Open, LoadFails, LoadedInVain, Deliver, Refuse, Accept, Fails,
         Deliverable, Reload, ReloadFromHandler, RequestReload, Settle, Close
<1> QED BY <1>1, PTL DEF Spec, NothingAfterClose

(* What happens to the handle keeps its type.                              *)
HandleStep(kind) ==
  FileChanges(kind) \/ DirectoryEvent \/ RearmFails \/ FileEvent \/ PollEvent \/ WatcherBreaks

(* Every step of a watch handle keeps its type.                            *)
LEMMA HandleTyped ==
  ASSUME HandleTypeOK, NEW kind, HandleStep(kind)
  PROVE  HandleTypeOK'
PROOF
<1>1. /\ handle.platform \in {"linux", "darwin", "win32"}
      /\ handle.polling \in BOOLEAN /\ handle.directory \in BOOLEAN /\ handle.file \in BOOLEAN
      /\ handle.poll \in BOOLEAN /\ handle.armed \in BOOLEAN /\ handle.watching \in BOOLEAN
      /\ handle.lost \in BOOLEAN
BY DEF HandleTypeOK
<1>2. CASE FileChanges(kind)
  <2>1. handle' = [platform |-> handle.platform, polling |-> handle.polling,
          directory |-> handle.directory \/ (handle.watching
                      /\ \/ kind = "replaced"
                         \/ kind = "inPlace" /\ handle.platform = "linux"),
          file |-> handle.file \/ (handle.armed /\ kind = "inPlace"),
          poll |-> handle.poll \/ Polls,
          armed |-> handle.armed /\ kind = "inPlace",
          watching |-> handle.watching, lost |-> handle.lost]
    BY <1>2, Zenon DEF FileChanges, HandleTypeOK
  <2> QED BY <2>1, <1>1, Zenon DEF HandleTypeOK
<1>3. CASE DirectoryEvent
  <2>1. handle' = [platform |-> handle.platform, polling |-> handle.polling,
          directory |-> FALSE, file |-> handle.file, poll |-> handle.poll,
          armed |-> handle.armed \/ (handle.platform = "darwin" /\ Rearmed),
          watching |-> handle.watching, lost |-> handle.lost]
    BY <1>3, Zenon DEF DirectoryEvent, HandleTypeOK
  <2> QED BY <2>1, <1>1, Zenon DEF HandleTypeOK
<1>4. CASE RearmFails
  <2>1. handle' = [platform |-> handle.platform, polling |-> handle.polling,
          directory |-> FALSE, file |-> handle.file, poll |-> handle.poll,
          armed |-> handle.armed, watching |-> handle.watching,
          lost |-> handle.lost \/ ~handle.armed]
    BY <1>4, Zenon DEF RearmFails, HandleTypeOK
  <2> QED BY <2>1, <1>1, Zenon DEF HandleTypeOK
<1>5. CASE FileEvent
  BY <1>5, <1>1 DEF FileEvent, HandleTypeOK
<1>6. CASE PollEvent
  BY <1>6, <1>1 DEF PollEvent, HandleTypeOK
<1>7. CASE WatcherBreaks
  BY <1>7, <1>1 DEF WatcherBreaks, HandleTypeOK
<1> QED BY <1>2, <1>3, <1>4, <1>5, <1>6, <1>7 DEF HandleStep

(* The records that the steps build.                                       *)
LEMMA RecordsTyped ==
  /\ Manually \in Requests /\ Automatically \in Requests
  /\ \A r, q \in Requests : Merged(r, q) \in Requests
  /\ \A text \in Texts : NoReload(text) \in Reloads
  /\ NoManual \in Manual
PROOF
<1>1. Manually \in Requests /\ Automatically \in Requests
  BY Zenon DEF Manually, Automatically, Requests
<1>2. ASSUME NEW r \in Requests, NEW q \in Requests PROVE Merged(r, q) \in Requests
  <2>1. r.report \in BOOLEAN /\ r.skip \in BOOLEAN /\ q.report \in BOOLEAN /\ q.skip \in BOOLEAN
    BY DEF Requests
  <2> QED BY <2>1, Zenon DEF Merged, Requests
<1>3. ASSUME NEW text \in Texts PROVE NoReload(text) \in Reloads
  BY <1>1, Zenon DEF NoReload, Reloads
<1>4. NoManual \in Manual
  BY DEF NoManual, Manual
<1> QED BY <1>1, <1>2, <1>3, <1>4

(* A merged request reports if either does and skips if both do.           *)
LEMMA MergedFields ==
  ASSUME NEW r, NEW q
  PROVE  /\ Merged(r, q).report <=> r.report \/ q.report
         /\ Merged(r, q).skip <=> r.skip /\ q.skip
PROOF
  BY Zenon DEF Merged

(* What is queued reports if any request did and skips if all of them did. *)
LEMMA Enqueued ==
  ASSUME queued \in Requests \cup {None}, None \notin Requests, NEW r \in Requests, Enqueue(r)
  PROVE  /\ queued' # None
         /\ queued'.report <=> r.report \/ (queued # None /\ queued.report)
         /\ queued'.skip <=> r.skip /\ (queued # None => queued.skip)
PROOF
<1>1. CASE queued = None
  BY <1>1 DEF Enqueue
<1>2. CASE queued # None
  BY <1>2, MergedFields, RecordsTyped, Zenon DEF Enqueue
<1> QED BY <1>1, <1>2

(* A reload that ends leaves none running, and may end the manual reload.  *)
LEMMA SettledTyped ==
  ASSUME TypeOK, NEW stage \in {"succeeded", "failed"}, NEW observed \in BOOLEAN
  PROVE  NoReload(active.text) \in Reloads /\ ManualAfter(stage, observed) \in Manual
PROOF
<1>1. active.seen \in Nat /\ active.text \in Texts
  BY DEF TypeOK, Reloads
<1>2. reloading \in Manual
  BY DEF TypeOK
<1>3. ASSUME NEW told \in {TRUE, FALSE}
      PROVE  [reloading EXCEPT !.stage = stage, !.observed = told, !.got = active.seen] \in Manual
  <2>1. CASE told = TRUE
    BY <1>1, <1>2, <2>1 DEF Manual
  <2>2. CASE told = FALSE
    BY <1>1, <1>2, <2>2 DEF Manual
  <2> QED BY <2>1, <2>2
<1> QED BY <1>1, <1>2, <1>3, RecordsTyped, Zenon DEF ManualAfter

(* What is delivered has been parsed.                                      *)
Typed == TypeOK /\ (active.pc = "delivering" => Contents \in Snapshots)

(* By TypeOK, with what HandleTyped, RecordsTyped and SettledTyped say.    *)
LEMMA TypedInvariant == Spec => []Typed
PROOF
<1> USE WatcherAssumption
<1>1. Init => Typed
  <2> SUFFICES ASSUME Init PROVE Typed
    OBVIOUS
  <2>1. HandleTypeOK
    <3>1. PICK h \in Handles :
            handle = [platform |-> h.platform, polling |-> h.polling,
                      directory |-> FALSE, file |-> FALSE, poll |-> FALSE,
                      armed |-> h.platform = "darwin", watching |-> h.platform # "win32",
                      lost |-> FALSE]
      BY DEF Init, HandleInit
    <3>2. h.platform \in {"linux", "darwin", "win32"} /\ h.polling \in BOOLEAN
      BY HandlesAssumption
    <3>3. (h.platform = "darwin") \in BOOLEAN /\ (h.platform # "win32") \in BOOLEAN
      OBVIOUS
    <3> QED BY <3>1, <3>2, <3>3, Zenon DEF HandleTypeOK
  <2>2. file \in [text : Texts, change : Nat] /\ active.pc = "none"
    BY DEF Init, NoReload
  <2> QED BY <2>1, <2>2, RecordsTyped DEF Init, TypeOK, Typed
<1>2. Typed /\ [Next]_vars => Typed'
  <2> SUFFICES ASSUME Typed, [Next]_vars PROVE Typed'
    OBVIOUS
  <2> USE DEF world, history, Typed, TypeOK, Contents
  <2>1. handle' = handle => HandleTypeOK'
    BY DEF HandleTypeOK
  <2>2. active.text \in Texts /\ active.seen \in Nat /\ active.request \in Requests
    BY DEF Reloads
  <2>3. ASSUME NEW text \in Texts, NEW kind \in Kinds, Change(text, kind) PROVE Typed'
    <3>1. active' \in Reloads
      BY <2>3 DEF Change, Reloads
    <3>2. HandleTypeOK'
      BY <2>3, HandleTyped DEF Change, HandleStep
    <3> QED BY <2>3, <3>1, <3>2 DEF Change
  <2>4. CASE Notify
    BY <2>4, HandleTyped DEF Notify, OnChange, closed, HandleStep
  <2>5. CASE NotifyUnarmed
    BY <2>5, HandleTyped DEF NotifyUnarmed, HandleError, OnChange, closed, HandleStep
  <2>6. CASE NativeError
    BY <2>6, HandleTyped DEF NativeError, HandleError, HandleStep
  <2>7. CASE TimerFires
    BY <2>7, <2>1, RecordsTyped DEF TimerFires, Enqueue
  <2>8. CASE StartReload
    BY <2>8, <2>1 DEF StartReload, closed, Reloads, Manual
  <2>9. CASE Open
    BY <2>9, <2>1 DEF Open, Reloads
  <2>10. CASE LoadFails
    <3>1. Observed(FALSE) \in BOOLEAN /\ Observed(TRUE) \in BOOLEAN
      BY <2>2 DEF Observed, Requests
    <3>2. active' \in Reloads /\ reloading' \in Manual
      BY <2>10, <3>1, SettledTyped DEF LoadFails, Fails
    <3>3. /\ counted' \in Nat /\ failures' \in Nat /\ timer' \in BOOLEAN
          /\ phase' \in {"starting", "open", "closed"}
      <4>1. CASE phase = "open" /\ (FALSE \/ active.request.report)
        BY <2>10, <4>1 DEF LoadFails, Fails
      <4>2. CASE ~(phase = "open" /\ (FALSE \/ active.request.report))
        BY <2>10, <4>2 DEF LoadFails, Fails
      <4> QED BY <4>1, <4>2
    <3>4. active'.pc = "none"
      BY <2>10 DEF LoadFails, Fails, NoReload
    <3> QED BY <2>10, <2>1, <2>2, <3>2, <3>3, <3>4 DEF LoadFails
  <2>11. CASE LoadedInVain
    <3>1. active' \in Reloads /\ reloading' \in Manual
      BY <2>11, SettledTyped DEF LoadedInVain, Succeeds
    <3>2. current' \in Accepted \cup {None}
      <4>1. CASE Unchanged
        BY <2>11, <2>2, <4>1 DEF LoadedInVain, Unchanged, Accepted
      <4>2. CASE ~Unchanged
        BY <2>11, <4>2 DEF LoadedInVain
      <4> QED BY <4>1, <4>2
    <3>3. active'.pc = "none" /\ phase' \in {"starting", "open", "closed"}
      BY <2>11 DEF LoadedInVain, Succeeds, NoReload
    <3> QED BY <2>11, <2>1, <3>1, <3>2, <3>3 DEF LoadedInVain
  <2>12. CASE Deliver
    BY <2>12, <2>1 DEF Deliver, Loaded, Contents, Snapshots, Reloads
  <2>13. CASE Refuse
    <3>1. Observed(FALSE) \in BOOLEAN /\ Observed(TRUE) \in BOOLEAN
      BY <2>2 DEF Observed, Requests
    <3>2. active' \in Reloads /\ reloading' \in Manual
      BY <2>13, <3>1, SettledTyped DEF Refuse, Fails
    <3>3. /\ counted' \in Nat /\ failures' \in Nat /\ timer' \in BOOLEAN
          /\ phase' \in {"starting", "open", "closed"}
      <4>1. CASE phase = "open" /\ (TRUE \/ active.request.report)
        BY <2>13, <4>1 DEF Refuse, Fails
      <4>2. CASE ~(phase = "open" /\ (TRUE \/ active.request.report))
        BY <2>13, <4>2 DEF Refuse, Fails
      <4> QED BY <4>1, <4>2
    <3>4. active'.pc = "none"
      BY <2>13 DEF Refuse, Fails, NoReload
    <3> QED BY <2>13, <2>1, <2>2, <3>2, <3>3, <3>4 DEF Refuse
  <2>14. CASE Accept
    <3>1. active' \in Reloads /\ reloading' \in Manual
      BY <2>14, SettledTyped DEF Accept, Succeeds
    <3>2. current' \in Accepted \cup {None}
      BY <2>14, <2>2 DEF Accept, Accepted
    <3>3. active'.pc = "none" /\ phase' \in {"starting", "open", "closed"}
      BY <2>14 DEF Accept, Succeeds, NoReload
    <3> QED BY <2>14, <2>1, <3>1, <3>2, <3>3 DEF Accept
  <2>15. ASSUME NEW c \in Callers, Reload(c) PROVE Typed'
    BY <2>15, <2>1 DEF Reload, NoManual, closed, Manual
  <2>16. ASSUME NEW c \in Callers, ReloadFromHandler(c) PROVE Typed'
    BY <2>16, <2>1 DEF ReloadFromHandler
  <2>17. CASE RequestReload
    BY <2>17, <2>1, RecordsTyped DEF RequestReload, Enqueue, Manual
  <2>18. CASE Settle
    BY <2>18, <2>1, RecordsTyped DEF Settle, Answer, closed
  <2>19. CASE Close
    BY <2>19, <2>1 DEF Close
  <2>20. CASE UNCHANGED vars
    BY <2>20, <2>1 DEF vars
  <2> QED BY <2>3, <2>4, <2>5, <2>6, <2>7, <2>8, <2>9, <2>10, <2>11, <2>12,
         <2>13, <2>14, <2>15, <2>16, <2>17, <2>18, <2>19, <2>20 DEF Next
<1> QED BY <1>1, <1>2, PTL DEF Spec

(***************************************************************************)
(* Invariants.                                                             *)
(***************************************************************************)
(* Nothing is accepted while starting, and what is being delivered is what *)
(* the provider uses.                                                      *)
Aligned ==
  /\ phase = "starting" => current = None
  /\ active.pc = "delivering" => provider = Contents
  /\ AcceptanceAligned

(* A failure of a request that does not report to onError has a waiter:    *)
(* after the first reload only manual reloads make such requests.          *)
Attributed ==
  /\ phase = "starting" => counted = failures /\ reloading.stage = "none"
  /\ phase = "starting" /\ active.pc # "none" => queued = None \/ queued.report
  /\ phase = "open" /\ queued # None /\ ~queued.report => reloading.stage = "queued"
  /\ phase = "open" /\ active.pc # "none" /\ ~active.request.report => reloading.stage = "active"
  /\ reloading.stage = "queued" => queued # None
  /\ reloading.stage = "active" => active.pc # "none"
  /\ FailuresCountedOnce

(* The request that a manual reload waits for skips nothing, is read after *)
(* the call, and is delivered in the order of the reads.                   *)
Fresh ==
  /\ reloading.stage = "queued" => queued # None /\ ~queued.skip
  /\ reloading.stage = "active" => active.pc # "none" /\ ~active.request.skip
  /\ reloading.stage # "none" => reloading.since <= file.change
  /\ delivered <= file.change
  /\ active.pc = "reading" => delivered <= active.seen /\ active.seen <= file.change
  /\ active.pc = "delivering" => delivered = active.seen
  /\ reloading.stage = "active" /\ active.pc \in {"reading", "delivering"} =>
       active.seen >= reloading.since
  /\ ManualReloadsFresh

(* Between Deliver and Accept the provider is ahead of what is accepted.   *)
LEMMA AlignedInvariant == Spec => []Aligned
PROOF
<1>1. Init => Aligned
  BY WatcherAssumption DEF Init, NoReload, NoManual, Aligned, AcceptanceAligned, closed
<1>2. Aligned /\ Typed /\ [Next]_vars => Aligned'
  <2> SUFFICES ASSUME Aligned, Typed, [Next]_vars PROVE Aligned'
    OBVIOUS
  <2>1. active \in Reloads /\ reloading \in Manual /\ queued \in Requests \cup {None}
    BY DEF Typed, TypeOK
  <2>2. /\ counted \in Nat /\ failures \in Nat /\ delivered \in Nat
        /\ file \in [text : Texts, change : Nat]
        /\ current \in Accepted \cup {None}
        /\ phase \in {"starting", "open", "closed"}
        /\ None \notin Accepted \cup Requests
    BY WatcherAssumption DEF Typed, TypeOK
  <2> USE <2>1, <2>2 DEF world, history, closed, Contents, Reloads, Manual, Requests, Accepted,
                          Aligned, AcceptanceAligned
  <2>3. ASSUME NEW text \in Texts, NEW kind \in Kinds, Change(text, kind) PROVE Aligned'
    BY <2>3 DEF Change
  <2>4. CASE Notify
    BY <2>4 DEF Notify
  <2>5. CASE NotifyUnarmed
    BY <2>5 DEF NotifyUnarmed, HandleError
  <2>6. CASE NativeError
    BY <2>6 DEF NativeError, HandleError
  <2>7. CASE TimerFires
    BY <2>7 DEF TimerFires, Enqueue, Merged, Automatically
  <2>8. CASE StartReload
    BY <2>8 DEF StartReload
  <2>9. CASE Open
    BY <2>9 DEF Open
  <2>10. CASE LoadFails
    BY <2>10 DEF LoadFails, Fails, ManualAfter, Observed, NoReload, Manually
  <2>11. CASE LoadedInVain
    <3>1. active'.pc = "none" /\ provider' = provider
      BY <2>11 DEF LoadedInVain, Succeeds, NoReload
    <3>2. CASE closed
      BY <2>11, <3>1, <3>2 DEF LoadedInVain, Succeeds
    <3>3. CASE ~closed
      <4>1. Unchanged /\ current # None
        BY <2>11, <3>3 DEF LoadedInVain, Unchanged
      <4>2. current' # None /\ current'.snapshot = current.snapshot
        BY <2>11, <4>1 DEF LoadedInVain
      <4> QED BY <2>11, <3>1, <3>3, <4>1, <4>2 DEF LoadedInVain, Succeeds, Loaded
    <3> QED BY <3>2, <3>3
  <2>12. CASE Deliver
    BY <2>12 DEF Deliver, Loaded, Deliverable
  <2>13. CASE Refuse
    BY <2>13 DEF Refuse, Loaded, Deliverable, Fails, ManualAfter, Observed, NoReload, Manually
  <2>14. CASE Accept
    <3>1. active'.pc = "none" /\ provider' = provider /\ phase' # "starting"
      BY <2>14 DEF Accept, Succeeds, NoReload
    <3>2. CASE closed
      BY <2>14, <3>1, <3>2 DEF Accept, Succeeds
    <3>3. CASE ~closed
      <4>1. current' = [text |-> active.text, snapshot |-> provider]
        BY <2>14, <3>3 DEF Accept
      <4>2. current' # None
        BY <2>14, <3>3 DEF Accept, Typed
      <4> QED BY <3>1, <4>1, <4>2
    <3> QED BY <3>2, <3>3
  <2>15. ASSUME NEW c \in Callers, Reload(c) PROVE Aligned'
    BY <2>15 DEF Reload, NoManual
  <2>16. ASSUME NEW c \in Callers, ReloadFromHandler(c) PROVE Aligned'
    BY <2>16 DEF ReloadFromHandler
  <2>17. CASE RequestReload
    BY <2>17 DEF RequestReload, Enqueue, Merged, Manually
  <2>18. CASE Settle
    BY <2>18 DEF Settle, Answer, NoManual
  <2>19. CASE Close
    BY <2>19 DEF Close
  <2>20. CASE UNCHANGED vars
    BY <2>20 DEF vars
  <2> QED BY <2>3, <2>4, <2>5, <2>6, <2>7, <2>8, <2>9, <2>10, <2>11, <2>12,
         <2>13, <2>14, <2>15, <2>16, <2>17, <2>18, <2>19, <2>20 DEF Next
<1> QED BY <1>1, <1>2, TypedInvariant, PTL DEF Spec

(* Only the end of a reload that no one was told of leaves a failure open. *)
LEMMA AttributedInvariant == Spec => []Attributed
PROOF
<1>1. Init => Attributed
  BY WatcherAssumption DEF Init, NoReload, NoManual, Attributed, FailuresCountedOnce, closed
<1>2. Attributed /\ Typed /\ [Next]_vars => Attributed'
  <2> SUFFICES ASSUME Attributed, Typed, [Next]_vars PROVE Attributed'
    OBVIOUS
  <2>1. active \in Reloads /\ reloading \in Manual /\ queued \in Requests \cup {None}
    BY DEF Typed, TypeOK
  <2>2. /\ counted \in Nat /\ failures \in Nat /\ delivered \in Nat
        /\ file \in [text : Texts, change : Nat]
        /\ current \in Accepted \cup {None}
        /\ phase \in {"starting", "open", "closed"}
        /\ None \notin Accepted \cup Requests
    BY WatcherAssumption DEF Typed, TypeOK
  <2> USE <2>1, <2>2 DEF world, history, closed, Contents, Reloads, Manual, Requests, Accepted,
                          Attributed, FailuresCountedOnce
  <2>3. ASSUME NEW text \in Texts, NEW kind \in Kinds, Change(text, kind) PROVE Attributed'
    BY <2>3 DEF Change
  <2>4. CASE Notify
    BY <2>4 DEF Notify
  <2>5. CASE NotifyUnarmed
    BY <2>5 DEF NotifyUnarmed, HandleError
  <2>6. CASE NativeError
    BY <2>6 DEF NativeError, HandleError
  <2>7. CASE TimerFires
    <3>1. Automatically.report /\ Automatically.skip
      BY DEF Automatically
    <3> QED BY <2>7, <3>1, Enqueued, RecordsTyped DEF TimerFires
  <2>8. CASE StartReload
    BY <2>8 DEF StartReload
  <2>9. CASE Open
    BY <2>9 DEF Open
  <2>10. CASE LoadFails
    BY <2>10 DEF LoadFails, Fails, ManualAfter, Observed, NoReload, Manually
  <2>11. CASE LoadedInVain
    <3>1. active'.pc = "none"
      BY <2>11 DEF LoadedInVain, Succeeds, NoReload
    <3>2. IF reloading.stage = "active"
          THEN reloading'.stage = "succeeded" ELSE reloading' = reloading
      BY <2>11 DEF LoadedInVain, Succeeds, ManualAfter
    <3>3. UNCHANGED <<queued, counted, failures>> /\ active.pc # "none"
      BY <2>11 DEF LoadedInVain, Loaded
    <3>4. CASE phase = "starting"
      BY <3>1, <3>2, <3>3, <3>4
    <3>5. CASE phase # "starting"
      <4>1. phase' = phase
        BY <2>11, <3>5 DEF LoadedInVain, Succeeds
      <4> QED BY <3>1, <3>2, <3>3, <3>5, <4>1
    <3> QED BY <3>4, <3>5
  <2>12. CASE Deliver
    BY <2>12 DEF Deliver, Loaded, Deliverable
  <2>13. CASE Refuse
    <3>1. active'.pc = "none"
      BY <2>13 DEF Refuse, Fails, NoReload
    <3>2. IF reloading.stage = "active"
          THEN reloading'.stage = "failed" /\ reloading'.observed ELSE reloading' = reloading
      BY <2>13 DEF Refuse, Fails, ManualAfter, Observed
    <3>3. UNCHANGED queued /\ phase # "closed"
      BY <2>13 DEF Refuse, Deliverable
    <3>4. CASE phase = "starting"
      <4>1. phase' = "closed"
        BY <2>13, <3>4 DEF Refuse, Fails
      <4> QED BY <3>1, <3>2, <3>3, <3>4, <4>1
    <3>5. CASE phase = "open"
      <4>1. phase' = phase /\ counted' = counted + 1 /\ failures' = failures + 1
        BY <2>13, <3>5 DEF Refuse, Fails
      <4> QED BY <3>1, <3>2, <3>3, <3>5, <4>1
    <3> QED BY <3>3, <3>4, <3>5
  <2>14. CASE Accept
    BY <2>14 DEF Accept, Succeeds, ManualAfter, NoReload, Manually
  <2>15. ASSUME NEW c \in Callers, Reload(c) PROVE Attributed'
    BY <2>15 DEF Reload, NoManual
  <2>16. ASSUME NEW c \in Callers, ReloadFromHandler(c) PROVE Attributed'
    BY <2>16 DEF ReloadFromHandler
  <2>17. CASE RequestReload
    <3>1. ~Manually.report /\ ~Manually.skip
      BY DEF Manually
    <3> QED BY <2>17, <3>1, Enqueued, RecordsTyped DEF RequestReload
  <2>18. CASE Settle
    BY <2>18 DEF Settle, Answer, NoManual
  <2>19. CASE Close
    BY <2>19 DEF Close
  <2>20. CASE UNCHANGED vars
    BY <2>20 DEF vars
  <2> QED BY <2>3, <2>4, <2>5, <2>6, <2>7, <2>8, <2>9, <2>10, <2>11, <2>12,
         <2>13, <2>14, <2>15, <2>16, <2>17, <2>18, <2>19, <2>20 DEF Next
<1> QED BY <1>1, <1>2, TypedInvariant, PTL DEF Spec

(* A merge with a manual request never skips, so its reload reads.         *)
LEMMA FreshInvariant == Spec => []Fresh
PROOF
<1>1. Init => Fresh
  BY WatcherAssumption DEF Init, NoReload, NoManual, Fresh, ManualReloadsFresh, closed
<1>2. Fresh /\ Typed /\ [Next]_vars => Fresh'
  <2> SUFFICES ASSUME Fresh, Typed, [Next]_vars PROVE Fresh'
    OBVIOUS
  <2>1. active \in Reloads /\ reloading \in Manual /\ queued \in Requests \cup {None}
    BY DEF Typed, TypeOK
  <2>2. /\ counted \in Nat /\ failures \in Nat /\ delivered \in Nat
        /\ file \in [text : Texts, change : Nat]
        /\ current \in Accepted \cup {None}
        /\ phase \in {"starting", "open", "closed"}
        /\ None \notin Accepted \cup Requests
    BY WatcherAssumption DEF Typed, TypeOK
  <2> USE <2>1, <2>2 DEF world, history, closed, Contents, Reloads, Manual, Requests, Accepted,
                          Fresh, ManualReloadsFresh
  <2>3. ASSUME NEW text \in Texts, NEW kind \in Kinds, Change(text, kind) PROVE Fresh'
    BY <2>3 DEF Change
  <2>4. CASE Notify
    BY <2>4 DEF Notify
  <2>5. CASE NotifyUnarmed
    BY <2>5 DEF NotifyUnarmed, HandleError
  <2>6. CASE NativeError
    BY <2>6 DEF NativeError, HandleError
  <2>7. CASE TimerFires
    <3>1. Automatically.report /\ Automatically.skip
      BY DEF Automatically
    <3> QED BY <2>7, <3>1, Enqueued, RecordsTyped DEF TimerFires
  <2>8. CASE StartReload
    BY <2>8 DEF StartReload
  <2>9. CASE Open
    BY <2>9 DEF Open
  <2>10. CASE LoadFails
    BY <2>10 DEF LoadFails, Fails, ManualAfter, Observed, NoReload, Manually
  <2>11. CASE LoadedInVain
    BY <2>11 DEF LoadedInVain, Unchanged, Succeeds, ManualAfter, NoReload, Manually
  <2>12. CASE Deliver
    BY <2>12 DEF Deliver, Loaded, Deliverable
  <2>13. CASE Refuse
    BY <2>13 DEF Refuse, Loaded, Deliverable, Fails, ManualAfter, Observed, NoReload, Manually
  <2>14. CASE Accept
    BY <2>14 DEF Accept, Succeeds, ManualAfter, NoReload, Manually
  <2>15. ASSUME NEW c \in Callers, Reload(c) PROVE Fresh'
    BY <2>15 DEF Reload, NoManual
  <2>16. ASSUME NEW c \in Callers, ReloadFromHandler(c) PROVE Fresh'
    BY <2>16 DEF ReloadFromHandler
  <2>17. CASE RequestReload
    <3>1. ~Manually.report /\ ~Manually.skip
      BY DEF Manually
    <3> QED BY <2>17, <3>1, Enqueued, RecordsTyped DEF RequestReload
  <2>18. CASE Settle
    BY <2>18 DEF Settle, Answer, NoManual
  <2>19. CASE Close
    BY <2>19 DEF Close
  <2>20. CASE UNCHANGED vars
    BY <2>20 DEF vars
  <2> QED BY <2>3, <2>4, <2>5, <2>6, <2>7, <2>8, <2>9, <2>10, <2>11, <2>12,
         <2>13, <2>14, <2>15, <2>16, <2>17, <2>18, <2>19, <2>20 DEF Next
<1> QED BY <1>1, <1>2, TypedInvariant, PTL DEF Spec

(* Reloads stay consistent: what is accepted is what is used, failures are *)
(* counted once, and manual reloads are answered by fresh contents.        *)
THEOREM WatcherReloadsConsistent == Spec => []ReloadsConsistent
PROOF
<1>1. Typed /\ Aligned /\ Attributed /\ Fresh => ReloadsConsistent
  BY DEF Typed, Aligned, Attributed, Fresh, ReloadsConsistent
<1> QED BY <1>1, TypedInvariant, AlignedInvariant, AttributedInvariant, FreshInvariant, PTL
================================================================================
