---------------------------- MODULE ManagedProvider ----------------------------
(***************************************************************************)
(* createManagedLocalProvider over a remote source: the chain of polls,    *)
(* each a timer and then a refresh, refreshes of the application's own,    *)
(* the refresher's deadline and slot, the reads of SourceReads, and close. *)
(*                                                                         *)
(* What a refresh does with what was read - verification, the store, the   *)
(* update - is the subject of SnapshotRefresher and is one step here.      *)
(***************************************************************************)
EXTENDS SourceReads

VARIABLES
  started,
  timers,         (* poll timers that have not fired                       *)
  polls,          (* refreshes whose end a poll waits for                  *)
  owed,           (* polls whose refresh has ended, before schedule runs   *)
  refresh,        (* the refresher's operation: idle, running or draining  *)
  closing

pollVars == <<started, timers, polls, owed, refresh, closing>>
vars == <<readVars, pollVars>>

TypeOK ==
  /\ ReadsTypeOK
  /\ started \in BOOLEAN /\ closing \in BOOLEAN
  /\ timers \in Nat /\ polls \in Nat /\ owed \in Nat
  /\ refresh \in {"idle", "running", "draining"}

Init ==
  /\ ReadsInit
  /\ started = FALSE /\ closing = FALSE
  /\ timers = 0 /\ polls = 0 /\ owed = 0
  /\ refresh = "idle"

-----------------------------------------------------------------------------
(* Refreshing                                                              *)

(* refresh: starts an operation, or joins the one there is.  One that is   *)
(* draining has been answered already.                                     *)
Refresh(byPoll) ==
  CASE refresh = "idle" ->
         /\ StartFetch
         /\ refresh' = "running"
         /\ polls' = polls + byPoll
         /\ UNCHANGED owed
    [] refresh = "running" ->
         /\ polls' = polls + byPoll
         /\ UNCHANGED <<readVars, refresh, owed>>
    [] refresh = "draining" ->
         /\ owed' = owed + byPoll
         /\ UNCHANGED <<readVars, refresh, polls>>

(* Its promise settles for every caller.                                   *)
Answered ==
  /\ owed' = owed + polls
  /\ polls' = 0

(* The fetch has settled, and then the rest of the refresh.                *)
RefreshSettles ==
  /\ refresh = "running" /\ stage = "idle"
  /\ refresh' = "idle"
  /\ Answered
  /\ UNCHANGED <<readVars, started, timers, closing>>

(* The refresher's deadline passes, or close has aborted the operation.    *)
RefreshEnds ==
  /\ refresh = "running"
  /\ AbortFetch
  /\ refresh' = "draining"
  /\ Answered
  /\ UNCHANGED <<stage, attempt, total, due, wake, outcome, started, timers, closing>>

(* releaseIfIdle, when the abandoned fetch has settled.                    *)
SlotIsFreed ==
  /\ refresh = "draining" /\ stage = "idle"
  /\ refresh' = "idle"
  /\ UNCHANGED <<readVars, started, timers, polls, owed, closing>>

ManualRefresh ==
  /\ ~closing /\ refresh = "idle"
  /\ Refresh(0)
  /\ UNCHANGED <<started, timers, closing>>

-----------------------------------------------------------------------------
(* Polling                                                                 *)

(* Variant: a call of start polls as long as no poll is waiting.           *)
StartsBetween == polls = 0

StartsOnce == ~started

Start ==
  /\ ~closing
  /\ StartsOnce
  /\ started' = TRUE
  /\ Refresh(1)
  /\ UNCHANGED <<timers, closing>>

PollFires ==
  /\ timers > 0
  /\ timers' = timers - 1
  /\ IF closing THEN UNCHANGED <<readVars, refresh, polls, owed>> ELSE Refresh(1)
  /\ UNCHANGED <<started, closing>>

(* Variant: only a refresh that has read something is followed by another. *)
SchedulesAfterSuccess == ~closing /\ outcome \in {"content", "notModified"}

(* then(schedule, schedule): whatever came of the refresh.                 *)
Schedules == ~closing

Schedule ==
  /\ owed > 0
  /\ owed' = owed - 1
  /\ timers' = IF Schedules THEN timers + 1 ELSE timers
  /\ UNCHANGED <<readVars, started, polls, refresh, closing>>

(* The timer is cleared and the refresher closed; a second call, also one  *)
(* by a handler of the abort, only returns the first one's result.         *)
Close ==
  /\ ~closing
  /\ closing' = TRUE
  /\ timers' = Max({timers - 1, 0})
  /\ IF refresh = "running" THEN AbortFetch ELSE UNCHANGED <<aborted, tries>>
  /\ UNCHANGED <<stage, attempt, total, due, wake, outcome, started, polls, owed, refresh>>

-----------------------------------------------------------------------------
Next ==
  \/ (TimerFires \/ Resume \/ Wakes \/ Tick \/ ClientStep) /\ UNCHANGED pollVars
  \/ RefreshSettles \/ RefreshEnds \/ SlotIsFreed
  \/ ManualRefresh \/ Start \/ PollFires \/ Schedule
  \/ Close

Spec == Init /\ [][Next]_vars

(* Time passes, timers fire and handlers run; the client may never answer. *)
Fairness ==
  /\ WF_vars(Tick /\ UNCHANGED pollVars)
  /\ WF_vars(TimerFires /\ UNCHANGED pollVars)
  /\ WF_vars(Resume /\ UNCHANGED pollVars)
  /\ WF_vars(Wakes /\ UNCHANGED pollVars)
  /\ WF_vars(RefreshSettles)
  /\ WF_vars(SlotIsFreed)
  /\ WF_vars(PollFires)
  /\ WF_vars(Schedule)

FairSpec == Spec /\ Fairness

-----------------------------------------------------------------------------
(* Properties                                                              *)

(* Polling is one chain: a timer, a refresh waited for, or the step        *)
(* between them, never two of these, whatever refreshes the application    *)
(* makes and however often it starts; after close no timer is left         *)
(* (schedule, poll and close of createManagedLocalProvider).               *)
OnePollChain ==
  /\ TypeOK
  /\ timers + polls + owed <= 1
  /\ started /\ ~closing => timers + polls + owed = 1
  /\ closing => timers = 0

Used(t) == t.body /\ ~Abandoned(t)

(* What the client hands over is released exactly once when its read is    *)
(* over, by whichever of abort, timer and end comes first, also when it    *)
(* comes after them, and never while it is in use (readAttempt's close).   *)
BodiesReleased ==
  \A k \in DOMAIN tries :
    LET t == tries[k] IN
    /\ t.bodies <= 1 /\ t.returns <= 1
    /\ Used(t) => t.bodies = 0 /\ t.returns = 0
    /\ Abandoned(t) /\ t.body => t.bodies = 1
    /\ Abandoned(t) /\ t.iterator => t.returns = 1

ReadBegins == attempt' > attempt

(* A fetch answers only with what was read within the time of the read and *)
(* of the fetch, though the timers may run late; once its caller has given *)
(* up or the provider was closed, it neither answers nor reads again       *)
(* (readWithPolicy; public-types.ts totalTimeoutMs).                       *)
ReadsKeepPolicy ==
  [][/\ outcome' # outcome /\ outcome' \in {"content", "notModified"} =>
          ~aborted /\ due > 0 /\ total > 0
     /\ ReadBegins => ~closing /\ ~aborted' /\ total' > 0]_vars

(* Every fetch settles and every poll is followed by another, though the   *)
(* client may never answer and every refresh may fail.                     *)
PollingGoesOn == started ~> (stage = "reading" \/ closing)
================================================================================
