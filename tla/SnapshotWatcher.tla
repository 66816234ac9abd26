--------------------------- MODULE SnapshotWatcher ---------------------------
(***************************************************************************)
(* createWatchedLocalProvider over watchFlagSnapshotFile: a file that      *)
(* other processes change, notifications and a debounce timer, a queue of  *)
(* reloads of which at most one waits, a read that the file may change     *)
(* under, delivery to the provider, manual reloads and close.              *)
(*                                                                         *)
(* A text is what a read returns; Parse gives the snapshot it holds, or    *)
(* Broken when loading fails (missing, too long, not UTF-8, not valid).    *)
(* SnapshotWatchHandle says how changes are noticed.  Left out: the        *)
(* release of the native watchers, and the shutdown of the provider, which *)
(* is LocalProvider's OnClose.                                             *)
(***************************************************************************)
EXTENDS Integers, SnapshotWatchHandle

CONSTANTS
  Texts,
  Parse,          (* the snapshot of each text                             *)
  Broken,
  None,
  Callers,        (* calls of WatchedLocalProvider.reload                  *)
  MaxWrites,      (* bound: changes of the file                            *)
  MaxErrors       (* bound: errors reported by the native watcher          *)

Snapshots == {Parse[t] : t \in Texts} \ {Broken}
Accepted  == [text : Texts, snapshot : Snapshots]
Requests  == [report : BOOLEAN, skip : BOOLEAN]

ASSUME WatcherAssumption ==
  /\ DOMAIN Parse = Texts
  /\ None \notin Texts \cup Snapshots \cup Accepted \cup Requests
  /\ MaxWrites \in Nat /\ MaxErrors \in Nat

VARIABLES
  file,           (* text and, as history, the number of changes           *)
  timer,          (* the debounce timer is set                             *)
  queued,         (* queuedReload's request                                *)
  active,         (* the reload that runs                                  *)
  current,        (* the accepted text and snapshot                        *)
  provider,       (* the provider's snapshot, None before there is one     *)
  phase,          (* starting, open, or closed                             *)
  reloading,      (* the shared manual reload                              *)
  caller,         (* calls of reload                                       *)
  counted,        (* failures counted by the provider's status             *)
  failures,       (* history: failed reloads of the open provider          *)
  delivered,      (* history: change number of the last text delivered     *)
  refused,        (* history: the text the provider refused last           *)
  errors

world   == <<file, handle>>
history == <<failures, delivered, refused, errors>>
vars == <<world, timer, queued, active, current, provider, phase, reloading, caller, counted,
          history>>

(* seen: history, the change the text was read at; touched: the file was   *)
(* written in place since it was opened.                                   *)
Reloads ==
  [pc : {"none", "opening", "reading", "delivering"}, request : Requests,
   text : Texts, seen : Nat, touched : BOOLEAN]

(* stage queued and active: which watcher reload it waits for; observed:   *)
(* the failure has been reported; since: history, when it was called.      *)
Manual ==
  [stage : {"none", "requested", "queued", "active", "succeeded", "failed"},
   observed : BOOLEAN, since : Nat, got : Nat]

TypeOK ==
  /\ file \in [text : Texts, change : Nat]
  /\ HandleTypeOK /\ timer \in BOOLEAN
  /\ queued \in Requests \cup {None}
  /\ active \in Reloads
  /\ current \in Accepted \cup {None}
  /\ provider \in Snapshots \cup {None}
  /\ phase \in {"starting", "open", "closed"}
  /\ reloading \in Manual
  /\ caller \in [Callers -> {"idle", "waiting", "returned", "failed"}]
  /\ counted \in Nat /\ failures \in Nat /\ delivered \in Nat /\ errors \in Nat
  /\ refused \in Texts \cup {None}

Manually      == [report |-> FALSE, skip |-> FALSE]
Automatically == [report |-> TRUE, skip |-> TRUE]

NoReload(text) == [pc |-> "none", request |-> Manually, text |-> text, seen |-> 0, touched |-> FALSE]
NoManual == [stage |-> "none", observed |-> FALSE, since |-> 0, got |-> 0]

(* The handle watches and the first reload is queued.                      *)
Init ==
  /\ \E text \in Texts : file = [text |-> text, change |-> 0]
  /\ HandleInit /\ timer = FALSE
  /\ queued = Manually
  /\ active = NoReload(file.text)
  /\ current = None /\ provider = None
  /\ phase = "starting"
  /\ reloading = NoManual
  /\ caller = [c \in Callers |-> "idle"]
  /\ counted = 0 /\ failures = 0 /\ delivered = 0 /\ refused = None /\ errors = 0

closed == phase = "closed"

(***************************************************************************)
(* The file and its notifications.                                         *)
(***************************************************************************)
(* Replaced atomically, the file a read has opened stays as it was.        *)
Change(text, kind) ==
  /\ file.change < MaxWrites
  /\ file' = [text |-> text, change |-> file.change + 1]
  /\ FileChanges(kind)
  /\ active' = [active EXCEPT !.touched = @ \/ (kind = "inPlace" /\ active.pc = "reading")]
  /\ UNCHANGED <<timer, queued, current, provider, phase, reloading, caller, counted, history>>

IdleOnChange ==                       \* variant: ignored while a reload runs
  timer' = (~closed /\ active.pc = "none")

(* The timer starts anew.                                                  *)
OnChange == timer' = ~closed

(* A native watcher or a poll sees the change.                             *)
Notify ==
  /\ DirectoryEvent \/ FileEvent \/ PollEvent
  /\ OnChange
  /\ UNCHANGED <<file, queued, active, current, provider, phase, reloading, caller, counted, history>>

(* onError, which is told once the provider is open.                       *)
HandleError ==
  /\ errors < MaxErrors
  /\ phase = "open"
  /\ errors' = errors + 1
  /\ counted' = counted + 1 /\ failures' = failures + 1
  /\ UNCHANGED <<file, queued, active, current, provider, phase, reloading, caller,
                 delivered, refused>>

NativeError == WatcherBreaks /\ HandleError /\ UNCHANGED timer

(* The change that could not be followed is read all the same.             *)
NotifyUnarmed == RearmFails /\ HandleError /\ OnChange

(***************************************************************************)
(* The queue of reloads.                                                   *)
(***************************************************************************)
SkippingMerge(waiting, request) ==    \* variant: a manual request adopts the skip
  [report |-> waiting.report \/ request.report, skip |-> waiting.skip \/ request.skip]

Merged(waiting, request) ==
  [report |-> waiting.report \/ request.report, skip |-> waiting.skip /\ request.skip]

(* enqueueReload.                                                          *)
Enqueue(request) ==
  queued' = IF queued = None THEN request ELSE Merged(queued, request)

TimerFires ==
  /\ timer
  /\ timer' = FALSE
  /\ Enqueue(Automatically)
  /\ UNCHANGED <<world, active, current, provider, phase, reloading, caller, counted, history>>

(* The manual reload that waits for the reload that runs.                  *)
ManualAfter(stage, observed) ==
  IF reloading.stage = "active"
  THEN [reloading EXCEPT !.stage = stage, !.observed = observed, !.got = active.seen]
  ELSE reloading

(* The previous reload has settled: performReload starts.  Once closed it  *)
(* returns the accepted snapshot, or fails without one.                    *)
StartReload ==
  /\ queued # None /\ active.pc = "none"
  /\ queued' = None
  /\ active' = [active EXCEPT !.request = queued, !.pc = IF closed THEN "none" ELSE "opening"]
  /\ reloading' = [reloading EXCEPT !.stage =
       IF @ # "queued" THEN @
       ELSE IF ~closed THEN "active" ELSE IF current = None THEN "failed" ELSE "succeeded"]
  /\ UNCHANGED <<world, timer, current, provider, phase, caller, counted, history>>

Open ==
  /\ active.pc = "opening"
  /\ active' = [active EXCEPT !.pc = "reading", !.text = file.text, !.seen = file.change,
                              !.touched = FALSE]
  /\ UNCHANGED <<world, timer, queued, current, provider, phase, reloading, caller, counted, history>>

(* The reload returns; the first one opens the provider.                   *)
Succeeds ==
  /\ active' = NoReload(active.text)
  /\ reloading' = ManualAfter("succeeded", FALSE)
  /\ phase' = IF phase = "starting" THEN "open" ELSE phase

(* The cause is in observed, or in applicationFailures.                    *)
Observed(byProvider) == byProvider \/ active.request.report

(* The reload fails, with its report to onError; a failure of the          *)
(* provider's update has been counted there.  The first one ends it all.   *)
Fails(byProvider) ==
  /\ active' = NoReload(active.text)
  /\ counted' = IF phase = "open" /\ (byProvider \/ active.request.report)
                THEN counted + 1 ELSE counted
  /\ failures' = IF phase = "open" THEN failures + 1 ELSE failures
  /\ reloading' = ManualAfter("failed", Observed(byProvider))
  /\ phase' = IF phase = "starting" THEN "closed" ELSE phase
  /\ timer' = (timer /\ phase # "starting")

Contents == Parse[active.text]

LoadFails ==
  /\ active.pc = "reading"
  /\ active.touched \/ Contents = Broken
  /\ Fails(FALSE)
  /\ UNCHANGED <<world, queued, current, provider, caller, delivered, refused, errors>>

Loaded == active.pc = "reading" /\ ~active.touched /\ Contents # Broken

Unchanged ==
  /\ active.request.skip /\ current # None
  /\ active.text = current.text \/ Contents = current.snapshot

(* The same text, or another text of the same snapshot; or it is too late. *)
LoadedInVain ==
  /\ Loaded
  /\ Unchanged \/ closed
  /\ current' = IF Unchanged THEN [current EXCEPT !.text = active.text] ELSE current
  /\ Succeeds
  /\ UNCHANGED <<world, timer, queued, provider, caller, counted, history>>

LateDelivery == TRUE                  \* variant: close is not checked after the read

Deliverable == ~closed

(* onSnapshot: the provider is created or updated.                         *)
Deliver ==
  /\ Loaded /\ ~Unchanged /\ Deliverable
  /\ active' = [active EXCEPT !.pc = "delivering"]
  /\ provider' = Contents
  /\ delivered' = active.seen
  /\ refused' = None
  /\ UNCHANGED <<world, timer, queued, current, phase, reloading, caller, counted, failures, errors>>

(* onSnapshot throws: an update is reserved, or the contents are refused.  *)
Refuse ==
  /\ Loaded /\ ~Unchanged /\ Deliverable
  /\ refused' = active.text
  /\ Fails(TRUE)
  /\ UNCHANGED <<world, queued, current, provider, caller, delivered, errors>>

(* After the await of onSnapshot.                                          *)
Accept ==
  /\ active.pc = "delivering"
  /\ current' = IF closed THEN current ELSE [text |-> active.text, snapshot |-> Contents]
  /\ Succeeds
  /\ UNCHANGED <<world, timer, queued, provider, caller, counted, history>>

(***************************************************************************)
(* Manual reloads and close.                                               *)
(***************************************************************************)
(* reload: calls share one watcher reload, requested in a later microtask. *)
Reload(c) ==
  /\ caller[c] = "idle" /\ phase # "starting"
  /\ caller' = [caller EXCEPT ![c] = IF closed THEN "failed" ELSE "waiting"]
  /\ reloading' = IF ~closed /\ reloading.stage = "none"
                  THEN [NoManual EXCEPT !.stage = "requested", !.since = file.change]
                  ELSE reloading
  /\ UNCHANGED <<world, timer, queued, active, current, provider, phase, counted, history>>

(* Called by a handler of the update that is being delivered: refused by   *)
(* the watcher, a failed reload like another.                              *)
ReloadFromHandler(c) ==
  /\ caller[c] = "idle" /\ active.pc = "delivering" /\ phase = "open"
  /\ reloading.stage = "none"
  /\ caller' = [caller EXCEPT ![c] = "failed"]
  /\ counted' = counted + 1 /\ failures' = failures + 1
  /\ UNCHANGED <<world, timer, queued, active, current, provider, phase, reloading, delivered,
                 refused, errors>>

RequestReload ==
  /\ reloading.stage = "requested"
  /\ reloading' = [reloading EXCEPT !.stage = "queued"]
  /\ Enqueue(Manually)
  /\ UNCHANGED <<world, timer, active, current, provider, phase, caller, counted, history>>

Answer(outcome) ==
  caller' = [c \in Callers |-> IF caller[c] = "waiting" THEN outcome ELSE caller[c]]

(* The handlers on watcher.reload(): closing fails what succeeded, a       *)
(* failure is reported unless onError has been told of it.                 *)
Settle ==
  /\ reloading.stage \in {"succeeded", "failed"}
  /\ Answer(IF reloading.stage = "failed" \/ closed THEN "failed" ELSE "returned")
  /\ counted' = IF reloading.stage = "failed" /\ ~closed /\ ~reloading.observed
                THEN counted + 1 ELSE counted
  /\ reloading' = NoManual
  /\ UNCHANGED <<world, timer, queued, active, current, provider, phase, history>>

Close ==
  /\ phase = "open"
  /\ phase' = "closed"
  /\ timer' = FALSE
  /\ UNCHANGED <<world, queued, active, current, provider, reloading, caller, counted, history>>

Next ==
  \/ \E text \in Texts : \E kind \in Kinds : Change(text, kind)
  \/ Notify \/ NotifyUnarmed \/ NativeError \/ TimerFires
  \/ StartReload \/ Open \/ LoadFails \/ LoadedInVain \/ Deliver \/ Refuse \/ Accept
  \/ \E c \in Callers : Reload(c) \/ ReloadFromHandler(c)
  \/ RequestReload \/ Settle \/ Close

Spec == Init /\ [][Next]_vars

(* Changes are notified, timers fire, and reads and handlers run.          *)
Fairness ==
  /\ WF_vars(Notify \/ NotifyUnarmed) /\ WF_vars(TimerFires)
  /\ WF_vars(StartReload) /\ WF_vars(Open)
  /\ WF_vars(LoadFails \/ LoadedInVain \/ Deliver \/ Refuse) /\ WF_vars(Accept)
  /\ WF_vars(RequestReload) /\ WF_vars(Settle)

FairSpec == Spec /\ Fairness

(***************************************************************************)
(* Properties.                                                             *)
(***************************************************************************)
(* Between deliveries the watcher has accepted exactly what the provider   *)
(* uses, so that the next comparison skips nothing the provider lacks      *)
(* (performReload; watched-provider.ts onSnapshot).                        *)
AcceptanceAligned ==
  phase = "open" /\ active.pc # "delivering" => current # None /\ current.snapshot = provider

(* However automatic and manual reloads were merged, every failure is      *)
(* counted once: by the update, by onError, or by the waiter.              *)
FailuresCountedOnce ==
  phase = "open" =>
    counted = failures - (IF reloading.stage = "failed" /\ ~reloading.observed THEN 1 ELSE 0)

(* A manual reload that succeeds has read the file after it was called and *)
(* has handed what it read to the provider, changed or not: it is never    *)
(* answered by a reload that had begun before or that was skipped          *)
(* (enqueueReload's merged request).                                       *)
ManualReloadsFresh ==
  reloading.stage = "succeeded" /\ ~closed =>
    reloading.got >= reloading.since /\ delivered >= reloading.since

ReloadsConsistent ==
  TypeOK /\ AcceptanceAligned /\ FailuresCountedOnce /\ ManualReloadsFresh

(* After close nothing reaches the provider, not even what was being read. *)
NothingAfterClose == [][closed => provider' = provider /\ counted' = counted]_vars

(* When the file has stopped changing, its contents are in use in the end, *)
(* however it was changed last, unless they cannot be loaded, the provider *)
(* refused them, it was closed, or nothing polls and the application was   *)
(* told of an error that left changes unwatched; and every manual reload   *)
(* is answered.                                                            *)
InUse ==
  \/ closed
  \/ handle.lost /\ ~Polls
  \/ Parse[file.text] \in {Broken, provider}
  \/ refused = file.text

LastContentsArrive ==
  /\ <>[]InUse
  /\ \A c \in Callers : (caller[c] = "waiting") ~> (caller[c] # "waiting")
=============================================================================
