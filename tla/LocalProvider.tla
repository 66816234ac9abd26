---------------------------- MODULE LocalProvider ----------------------------
(***************************************************************************)
(* LocalFeatureProvider with an audit sink: evaluations of flags, each     *)
(* against the state captured when it starts, their audit writes and       *)
(* deadlines, the expiry of signed snapshots, replacements of the snapshot *)
(* and close.  Whatever an evaluation does up to its await is one step.    *)
(*                                                                         *)
(* A snapshot stands for its hash, its flags and the value they give: what *)
(* the evaluator computes is the subject of FlagEvaluation.  The sink is   *)
(* any AuditSink: it may resolve, fail, or never settle.  Metrics, logs    *)
(* and the outcome observer cannot change anything and are left out.       *)
(* Refused updates, reservations and the refresh counters are modelled in  *)
(* SnapshotRefresher; while an update is reserved the state cannot change, *)
(* so that its commit is an update like any other.                         *)
(***************************************************************************)
EXTENDS Integers, FiniteSets

CONSTANTS
  Evaluations,    (* calls of the four resolve methods                     *)
  Snapshots,
  Artifacts,      (* signed provenance: snapshot and expiresAt             *)
  Unsigned,       (* no provenance                                         *)
  Times,          (* readings of the clock, which may step back            *)
  Invalid,        (* the clock throws or returns no time                   *)
  None,
  MaxUpdates      (* bound: updates                                        *)

ASSUME ProviderAssumption ==
  /\ IsFiniteSet(Evaluations)
  /\ Artifacts \subseteq [snapshot : Snapshots, expiresAt : Nat]
  /\ Unsigned \notin Artifacts
  /\ Times \subseteq Nat /\ Invalid \notin Nat
  /\ MaxUpdates \in Nat

VARIABLES
  policy,         (* the options, fixed at construction                    *)
  state,          (* this.state                                            *)
  expired,        (* latches of expiry objects that have seen the end      *)
  latches,        (* how many expiry objects exist                         *)
  audits,         (* the audit counters of OperationalState                *)
  evaluation,     (* per call, where it is and what it has                 *)
  audit,          (* per call, its writeAuditEvent                         *)
  close,          (* closed, and the shared close operation                *)
  announced,      (* history: the snapshot handlers were last told of      *)
  updates,        (* history: updates so far                               *)
  activation      (* history: how often the artifact in use has changed    *)

content == <<state, latches, announced, updates, activation>>
calls   == <<expired, audits, evaluation, audit>>
vars == <<policy, content, calls, close>>

(* latch 0: the state has no expiry object; since: history, the activation  *)
(* that brought the artifact into use, the same while it is only renewed.   *)
States == [snapshot : Snapshots, artifact : Artifacts \cup {Unsigned}, latch : Nat, since : Nat]

Codes == {"none", "evaluation", "expired", "audit"}

(* result: the code of the result so far, none when the flag has a value;  *)
(* event: the code in the audit event; outcome: writeOutcome.              *)
Calls ==
  [pc : {"idle", "auditing", "returned"}, state : States, result : Codes,
   event : Codes \cup {None}, outcome : {"none", "pending", "submitted", "confirmed", "failed",
                                         "timedOut"}]

(* resolveAuditPolicy: confirmation requires blocking mode.                *)
Policies ==
  {p \in [confirming : BOOLEAN, blocking : BOOLEAN, enforcing : BOOLEAN] :
     p.confirming => p.blocking}

TypeOK ==
  /\ policy \in Policies
  /\ state \in States
  /\ expired \subseteq 1..latches
  /\ latches \in Nat
  /\ audits \in [attempted : Nat, resolved : Nat, failed : Nat, timedOut : Nat, pending : Nat]
  /\ evaluation \in [Evaluations -> Calls]
  /\ audit \in [Evaluations -> {"none", "open", "resolved", "failed"}]
  /\ close \in {"none", "flushing", "settled"}
  /\ announced \in Snapshots /\ updates \in Nat /\ activation \in Nat

(***************************************************************************)
(* Expiry and provider states.                                             *)
(***************************************************************************)
NeverSame(previous, artifact) == FALSE    \* variant: each refresh starts anew

SameArtifact(previous, artifact) ==
  previous.latch # 0 /\ previous.artifact = artifact

(* createActiveSnapshotExpiry: the same artifact keeps its expiry object.  *)
LatchFor(artifact, previous) ==
  CASE ~policy.enforcing \/ artifact = Unsigned -> 0
    [] OTHER -> IF SameArtifact(previous, artifact) THEN previous.latch ELSE latches + 1

(* buildNextState and createState, for an input that is valid.             *)
NextState(snapshot, artifact) ==
  [snapshot |-> snapshot, artifact |-> artifact, latch |-> LatchFor(artifact, state),
   since |-> IF artifact = state.artifact THEN activation ELSE activation + 1]

Ended(s, now) == s.latch # 0 /\ now # Invalid /\ now >= s.artifact.expiresAt

Unavailable(s, now) ==
  s.latch # 0 /\ (s.latch \in expired \/ now = Invalid \/ now >= s.artifact.expiresAt)

LatchedBy(s, now) == IF Ended(s, now) THEN {s.latch} ELSE {}

Init ==
  /\ policy \in Policies
  /\ \E snapshot \in Snapshots, artifact \in Artifacts \cup {Unsigned} :
       /\ artifact # Unsigned => artifact.snapshot = snapshot
       /\ LET signed == policy.enforcing /\ artifact # Unsigned IN
          /\ latches = IF signed THEN 1 ELSE 0
          /\ state = [snapshot |-> snapshot, artifact |-> artifact, latch |-> latches, since |-> 0]
  /\ expired = {}
  /\ audits = [attempted |-> 0, resolved |-> 0, failed |-> 0, timedOut |-> 0, pending |-> 0]
  /\ evaluation = [e \in Evaluations |->
       [pc |-> "idle", state |-> state, result |-> "none", event |-> None, outcome |-> "none"]]
  /\ audit = [e \in Evaluations |-> "none"]
  /\ close = "none"
  /\ announced = state.snapshot /\ updates = 0 /\ activation = 0

(***************************************************************************)
(* Updates.                                                                *)
(***************************************************************************)
(* applyState: handlers are told when the contents have changed.           *)
Apply(next) ==
  /\ state' = next
  /\ latches' = IF next.latch > latches THEN next.latch ELSE latches
  /\ announced' = IF close = "none" /\ next.snapshot # state.snapshot THEN next.snapshot ELSE announced
  /\ activation' = next.since

(* updateSnapshot, or commit of a prepared one, with valid contents.       *)
UpdateSnapshot(snapshot, artifact) ==
  /\ updates < MaxUpdates
  /\ artifact # Unsigned => artifact.snapshot = snapshot
  /\ Apply(NextState(snapshot, artifact))
  /\ updates' = updates + 1
  /\ UNCHANGED <<policy, calls, close>>

(***************************************************************************)
(* Evaluations.                                                            *)
(***************************************************************************)
(* attempt.outcome, given how far the audit has come.                      *)
Attempt(progress) ==
  CASE progress = "open" -> "pending"
    [] progress = "failed" -> "failed"
    [] progress = "resolved" -> IF policy.confirming THEN "confirmed" ELSE "submitted"

Late(call, now) == call.result = "none" /\ Unavailable(call.state, now)

(* The end of evaluateAndResolve, after the audit has been waited for.     *)
Returned(call, confirmed, timedOut, progress, now) ==
  LET answer == IF ~confirmed /\ policy.confirming THEN [call EXCEPT !.result = "audit"] ELSE call
  IN [answer EXCEPT !.pc = "returned",
                    !.result = IF Late(answer, now) THEN "expired" ELSE @,
                    !.outcome = IF timedOut THEN "timedOut" ELSE Attempt(progress)]

(* The recheck reads the clock only of a result that is no error.          *)
LatchedAtEnd(call, now) == IF call.result = "none" THEN LatchedBy(call.state, now) ELSE {}

(* The call captures the state; an expired snapshot is not evaluated.      *)
Started(now, code, created) ==
  LET result == IF Unavailable(state, now) THEN "expired" ELSE code IN
  [pc |-> "auditing", state |-> state, result |-> result, outcome |-> "none",
   event |-> IF created THEN result ELSE None]

(* auditStarted, and auditFinished when no event could be created.         *)
Counted(counts, progress) ==
  IF progress = "open" THEN [counts EXCEPT !.attempted = @ + 1, !.pending = @ + 1]
                       ELSE [counts EXCEPT !.attempted = @ + 1, !.failed = @ + 1]

(* evaluateAndResolve up to the await; all of it in nonBlocking mode.  The *)
(* evaluation may end in an error, and the event may fail to be created.   *)
Evaluate(e) ==
  /\ evaluation[e].pc = "idle"
  /\ \E now, later \in Times \cup {Invalid}, code \in {"none", "evaluation"}, created \in BOOLEAN :
       LET call     == Started(now, code, created)
           progress == IF created THEN "open" ELSE "failed"
           latched  == expired \cup LatchedBy(state, now)
       IN /\ audit' = [audit EXCEPT ![e] = progress]
          /\ audits' = Counted(audits, progress)
          /\ IF policy.blocking
             THEN later = now /\ expired' = latched /\ evaluation' = [evaluation EXCEPT ![e] = call]
             ELSE /\ expired' = latched \cup LatchedAtEnd(call, later)
                  /\ evaluation' =
                       [evaluation EXCEPT ![e] = Returned(call, TRUE, FALSE, progress, later)]
  /\ UNCHANGED <<policy, content, close>>

(* auditFinished.                                                          *)
Finished(counts, progress) ==
  IF progress = "resolved" THEN [counts EXCEPT !.pending = @ - 1, !.resolved = @ + 1]
                           ELSE [counts EXCEPT !.pending = @ - 1, !.failed = @ + 1]

(* The sink's promise settles: the rest of writeAuditEvent.                *)
AuditSettles(e, progress) ==
  /\ audit[e] = "open"
  /\ audit' = [audit EXCEPT ![e] = progress]
  /\ audits' = Finished(audits, progress)
  /\ UNCHANGED <<policy, content, close, expired, evaluation>>

Resume(e, confirmed, timedOut) ==
  /\ evaluation[e].pc = "auditing"
  /\ \E now \in Times \cup {Invalid} :
       LET call == evaluation[e] IN
       /\ evaluation' = [evaluation EXCEPT ![e] = Returned(call, confirmed, timedOut, audit[e], now)]
       /\ expired' = IF ~confirmed /\ policy.confirming THEN expired
                     ELSE expired \cup LatchedAtEnd(call, now)
  /\ UNCHANGED <<policy, content, close, audit>>

(* The write settled before the deadline.                                  *)
ResumeInTime(e) ==
  /\ audit[e] \in {"resolved", "failed"}
  /\ Resume(e, audit[e] = "resolved", FALSE)
  /\ UNCHANGED audits

LateConfirmation(e) == audit[e] # "failed" \* variant: a timeout is no failure

ConfirmsAfterDeadline(e) == FALSE

WaitsForSink(e) == audit[e] # "open"      \* variant: no default auditTimeoutMs

TimerSet(e) == TRUE

TimeoutIsFailure(counts) ==               \* variant: the late write counts twice
  [counts EXCEPT !.timedOut = @ + 1, !.failed = @ + 1]

TimeoutCounted(counts) == [counts EXCEPT !.timedOut = @ + 1]

(* The timer fires, or the write settled when the deadline had passed.     *)
ResumeTooLate(e) ==
  /\ TimerSet(e)
  /\ Resume(e, ConfirmsAfterDeadline(e), TRUE)
  /\ audits' = TimeoutCounted(audits)

(***************************************************************************)
(* Close.  Evaluations and updates are not refused afterwards.             *)
(***************************************************************************)
OnClose ==
  /\ close = "none"
  /\ close' = "flushing"
  /\ UNCHANGED <<policy, content, calls>>

(* The sink's flush settles, or the shutdown deadline passes: always       *)
(* possible, since nothing is known of the time the sink takes.            *)
Closes ==
  /\ close = "flushing"
  /\ close' = "settled"
  /\ UNCHANGED <<policy, content, calls>>

Next ==
  \/ \E snapshot \in Snapshots, artifact \in Artifacts \cup {Unsigned} :
       UpdateSnapshot(snapshot, artifact)
  \/ \E e \in Evaluations :
       \/ Evaluate(e)
       \/ AuditSettles(e, "resolved") \/ AuditSettles(e, "failed")
       \/ ResumeInTime(e) \/ ResumeTooLate(e)
  \/ OnClose \/ Closes

Spec == Init /\ [][Next]_vars

(* Timers and promise reactions run; the sink may never settle.            *)
Fairness ==
  /\ \A e \in Evaluations : WF_vars(ResumeInTime(e) \/ ResumeTooLate(e))
  /\ WF_vars(Closes)

FairSpec == Spec /\ Fairness

(***************************************************************************)
(* Properties.                                                             *)
(***************************************************************************)
Settled(progress) == {e \in Evaluations : audit[e] = progress}

(* getStatus tells the truth about audits whatever settles after whichever *)
(* deadline: each attempt is pending, resolved or failed, once, and a      *)
(* deadline is counted once (OperationalState, writeAuditEvent), and while *)
(* the provider is open its handlers know the snapshot in use (applyState). *)
StatusTruthful ==
  /\ TypeOK
  /\ audits.attempted = Cardinality({e \in Evaluations : evaluation[e].pc # "idle"})
  /\ audits.pending = Cardinality(Settled("open"))
  /\ audits.resolved = Cardinality(Settled("resolved"))
  /\ audits.failed = Cardinality(Settled("failed"))
  /\ audits.timedOut = Cardinality({e \in Evaluations : evaluation[e].outcome = "timedOut"})
  /\ close = "none" => announced = state.snapshot

(* Under returnDefault no value is used whose audit is missing: the sink   *)
(* has confirmed, in time, an event that tells the same result             *)
(* (evaluateAndResolve; public-types.ts auditFailurePolicy).               *)
FailsClosed ==
  policy.confirming =>
    \A e \in Evaluations :
      evaluation[e].pc = "returned" /\ evaluation[e].result = "none" =>
        /\ evaluation[e].outcome = "confirmed"
        /\ audit[e] = "resolved"
        /\ evaluation[e].event = "none"

(* Once a signed snapshot was seen to have expired, no evaluation returns  *)
(* a value of it for as long as that artifact stays in use: not when the   *)
(* clock steps back, not when the same artifact is delivered again while   *)
(* active, and not when the evaluation had started before                  *)
(* (ActiveSnapshotExpiry, evaluateSafely and the recheck).  An artifact    *)
(* that comes back after other or unsigned contents is given a new guard:  *)
(* active-snapshot-expiry.md, "no historical/durable expiry blacklist".    *)
ExpiryIsFinal ==
  [][\A e, f \in Evaluations :
       /\ evaluation[e].pc # "returned" /\ evaluation'[e].pc = "returned"
       /\ evaluation[f].pc # "idle" /\ evaluation[f].state.latch \in expired
       /\ evaluation[f].state.since = evaluation'[e].state.since
       => evaluation'[e].result # "none"]_vars

(* Neither an evaluation nor close waits for ever, though the sink may     *)
(* never settle; both only go on to return.                                *)
Answered ==
  /\ \A e \in Evaluations : []<>(evaluation[e].pc # "auditing")
  /\ []<>(close # "flushing")
=============================================================================
