-------------------------- MODULE LocalProviderProofs --------------------------
(***************************************************************************)
(* Proofs about the local provider.  First LocalProvider, for any number   *)
(* of evaluations, any snapshots, artifacts and clock readings, and under  *)
(* every policy: the status tells the truth, returnDefault fails closed,   *)
(* expiry is final.  Then FlagEvaluation, what such an evaluation answers: *)
(* for any snapshots, requests and environments, the answer is that of the *)
(* snapshot as it is now, and validation is enough for a captured copy.    *)
(* Last SnapshotTools: for any documents and files of requests, what the   *)
(* commands and a replay report is what evaluation does.                   *)
(***************************************************************************)
EXTENDS LocalProvider, SnapshotTools, SequenceTheorems, FiniteSetTheorems,
        FunctionTheorems, WellFoundedInduction, TLAPS

(***************************************************************************)
(* Types.  The counters are only known to be natural numbers once they are *)
(* known to count something.                                               *)
(***************************************************************************)
Counters == [attempted : Int, resolved : Int, failed : Int, timedOut : Int, pending : Int]

Typed ==
  /\ policy \in Policies
  /\ state \in States
  /\ latches \in Nat
  /\ expired \subseteq 1..latches
  /\ audits \in Counters
  /\ evaluation \in [Evaluations -> Calls]
  /\ audit \in [Evaluations -> {"none", "open", "resolved", "failed"}]
  /\ close \in {"none", "flushing", "settled"}
  /\ announced \in Snapshots /\ updates \in Nat /\ activation \in Nat
  /\ state.latch <= latches
  /\ \A e \in Evaluations :
       /\ evaluation[e].state.latch <= latches
       /\ evaluation[e].pc = "auditing" => audit[e] # "none"

(* One step of Evaluate, with its choices named.                           *)
EvaluatedWith(e, now, later, code, created) ==
  LET call     == Started(now, code, created)
      progress == IF created THEN "open" ELSE "failed"
      latched  == expired \cup LatchedBy(state, now)
  IN /\ audit' = [audit EXCEPT ![e] = progress]
     /\ audits' = Counted(audits, progress)
     /\ IF policy.blocking
        THEN later = now /\ expired' = latched /\ evaluation' = [evaluation EXCEPT ![e] = call]
        ELSE /\ expired' = latched \cup LatchedAtEnd(call, later)
             /\ evaluation' =
                  [evaluation EXCEPT ![e] = Returned(call, TRUE, FALSE, progress, later)]

(* What is known of the answer to a call, whatever the clock says.         *)
IsAnswer(answer, call, confirmed, timedOut, progress) ==
  /\ answer \in Calls
  /\ answer.pc = "returned" /\ answer.state = call.state /\ answer.event = call.event
  /\ answer.outcome = IF timedOut THEN "timedOut" ELSE Attempt(progress)
  /\ answer.result = "none" =>
       /\ call.result = "none"
       /\ policy.confirming => confirmed
       /\ call.state.latch \notin expired

(* What Returned builds answers the call it was given.                     *)
LEMMA AnswersCall ==
  ASSUME NEW call \in Calls, NEW confirmed \in BOOLEAN, NEW timedOut \in BOOLEAN,
         NEW progress \in {"open", "resolved", "failed"}, NEW now, 0 \notin expired
  PROVE  IsAnswer(Returned(call, confirmed, timedOut, progress, now),
                  call, confirmed, timedOut, progress)
PROOF
<1> DEFINE answer == Returned(call, confirmed, timedOut, progress, now)
<1>1. Attempt(progress) \in {"pending", "submitted", "confirmed", "failed"}
  BY DEF Attempt
<1>2. answer \in Calls
  BY <1>1 DEF Returned, Calls, Codes
<1>3. answer.pc = "returned" /\ answer.state = call.state /\ answer.event = call.event
  BY DEF Returned, Calls
<1>4. answer.outcome = IF timedOut THEN "timedOut" ELSE Attempt(progress)
  BY DEF Returned, Calls
<1>5. answer.result = "none" => call.result = "none" /\ (policy.confirming => confirmed)
  BY DEF Returned, Calls
<1>6. answer.result = "none" => call.state.latch \notin expired
  BY DEF Returned, Calls, Late, Unavailable
<1> QED BY <1>2, <1>3, <1>4, <1>5, <1>6 DEF IsAnswer

(* What each way to count does to the counters.                            *)
LEMMA CountersMove ==
  ASSUME NEW counts \in Counters
  PROVE  /\ Counted(counts, "open") =
              [attempted |-> counts.attempted + 1, resolved |-> counts.resolved,
               failed |-> counts.failed, timedOut |-> counts.timedOut, pending |-> counts.pending + 1]
         /\ Counted(counts, "failed") =
              [attempted |-> counts.attempted + 1, resolved |-> counts.resolved,
               failed |-> counts.failed + 1, timedOut |-> counts.timedOut, pending |-> counts.pending]
         /\ Finished(counts, "resolved") =
              [attempted |-> counts.attempted, resolved |-> counts.resolved + 1,
               failed |-> counts.failed, timedOut |-> counts.timedOut, pending |-> counts.pending - 1]
         /\ Finished(counts, "failed") =
              [attempted |-> counts.attempted, resolved |-> counts.resolved,
               failed |-> counts.failed + 1, timedOut |-> counts.timedOut, pending |-> counts.pending - 1]
         /\ TimeoutCounted(counts) =
              [attempted |-> counts.attempted, resolved |-> counts.resolved,
               failed |-> counts.failed, timedOut |-> counts.timedOut + 1, pending |-> counts.pending]
PROOF
<1>1. Counted(counts, "open") =
       [attempted |-> counts.attempted + 1, resolved |-> counts.resolved,
        failed |-> counts.failed, timedOut |-> counts.timedOut, pending |-> counts.pending + 1]
  BY DEF Counted, Counters
<1>2. Counted(counts, "failed") =
       [attempted |-> counts.attempted + 1, resolved |-> counts.resolved,
        failed |-> counts.failed + 1, timedOut |-> counts.timedOut, pending |-> counts.pending]
  BY DEF Counted, Counters
<1>3. Finished(counts, "resolved") =
       [attempted |-> counts.attempted, resolved |-> counts.resolved + 1,
        failed |-> counts.failed, timedOut |-> counts.timedOut, pending |-> counts.pending - 1]
  BY DEF Finished, Counters
<1>4. Finished(counts, "failed") =
       [attempted |-> counts.attempted, resolved |-> counts.resolved,
        failed |-> counts.failed + 1, timedOut |-> counts.timedOut, pending |-> counts.pending - 1]
  BY DEF Finished, Counters
<1>5. TimeoutCounted(counts) =
       [attempted |-> counts.attempted, resolved |-> counts.resolved,
        failed |-> counts.failed, timedOut |-> counts.timedOut + 1, pending |-> counts.pending]
  BY DEF TimeoutCounted, Counters
<1> QED BY <1>1, <1>2, <1>3, <1>4, <1>5

(* What the clock ends are latches that were handed out.                   *)
LEMMA LatchesKnown ==
  ASSUME NEW s \in States, NEW now, latches \in Nat, s.latch <= latches
  PROVE  LatchedBy(s, now) \subseteq 1..latches
BY DEF LatchedBy, Ended, States

(***************************************************************************)
(* What the steps of an evaluation do.                                     *)
(***************************************************************************)
Replaces(e) ==
  /\ evaluation' = [evaluation EXCEPT ![e] = evaluation'[e]] /\ evaluation'[e] \in Calls
  /\ audit' = [audit EXCEPT ![e] = audit'[e]]
  /\ expired' \subseteq 1..latches
  /\ UNCHANGED <<policy, state, latches, announced, updates, activation, close>>

Begins(e) ==
  /\ evaluation[e].pc = "idle" /\ Replaces(e)
  /\ evaluation'[e].state = state
  /\ audit'[e] \in {"open", "failed"}
  /\ audits' = Counted(audits, audit'[e])
  /\ evaluation'[e].outcome # "timedOut"
  /\ \/ /\ evaluation'[e].pc = "auditing"
        /\ audit'[e] = "failed" \/ evaluation'[e].event = evaluation'[e].result
     \/ /\ evaluation'[e].pc = "returned" /\ ~policy.confirming
        /\ evaluation'[e].result = "none" => state.latch \notin expired

Ends(e, confirmed, timedOut) ==
  /\ evaluation[e].pc = "auditing" /\ Replaces(e)
  /\ IsAnswer(evaluation'[e], evaluation[e], confirmed, timedOut, audit[e])
  /\ UNCHANGED audit

(* Evaluate begins one evaluation and leaves the others alone.             *)
LEMMA EvaluateBegins ==
  ASSUME Typed, NEW e \in Evaluations, Evaluate(e)
  PROVE  Begins(e)
PROOF
<1>1. PICK now \in Times \cup {Invalid}, later \in Times \cup {Invalid},
           code \in {"none", "evaluation"}, created \in BOOLEAN :
        EvaluatedWith(e, now, later, code, created)
  BY DEF Evaluate, EvaluatedWith
<1> DEFINE call     == Started(now, code, created)
           progress == IF created THEN "open" ELSE "failed"
           answer   == Returned(call, TRUE, FALSE, progress, later)
<1>2. /\ call \in Calls /\ call.state = state /\ call.pc = "auditing" /\ call.outcome = "none"
      /\ created => call.event = call.result
  BY DEF Started, Typed, Calls, Codes
<1>3. progress \in {"open", "failed"} /\ (~created => progress = "failed")
  OBVIOUS
<1>4. IsAnswer(answer, call, TRUE, FALSE, progress)
  <2>1. \A confirmed, timedOut \in BOOLEAN :
          IsAnswer(Returned(call, confirmed, timedOut, progress, later),
                   call, confirmed, timedOut, progress)
    <3>1. 0 \notin expired
      BY DEF Typed
    <3> HIDE DEF call, progress
    <3> QED BY <1>2, <1>3, <3>1, AnswersCall
  <2>2. TRUE \in BOOLEAN /\ FALSE \in BOOLEAN
    OBVIOUS
  <2> HIDE DEF call, progress
  <2> QED BY <2>1, <2>2, Zenon
<1>5. /\ answer \in Calls /\ answer.pc = "returned" /\ answer.state = state
      /\ answer.outcome # "timedOut"
      /\ answer.result = "none" => state.latch \notin expired
  <2>1. Attempt(progress) # "timedOut"
    BY <1>3 DEF Attempt
  <2> HIDE DEF answer, call, progress
  <2> QED BY <1>2, <1>4, <2>1 DEF IsAnswer
<1>6. /\ audit' = [audit EXCEPT ![e] = progress] /\ audits' = Counted(audits, progress)
      /\ \/ policy.blocking /\ evaluation' = [evaluation EXCEPT ![e] = call]
         \/ ~policy.blocking /\ evaluation' = [evaluation EXCEPT ![e] = answer]
  BY <1>1 DEF EvaluatedWith, Typed, Policies
<1>7. audit'[e] = progress /\ (evaluation'[e] = call \/ evaluation'[e] = answer)
  <2> HIDE DEF answer, call, progress
  <2> QED BY <1>6 DEF Typed
<1>8. expired' \subseteq 1..latches
  <2>1. LatchedBy(state, now) \subseteq 1..latches /\ LatchedBy(state, later) \subseteq 1..latches
    BY LatchesKnown DEF Typed
  <2> QED BY <1>1, <1>2, <2>1 DEF Typed, LatchedAtEnd, EvaluatedWith
<1>9. policy.confirming => policy.blocking
  BY DEF Typed, Policies
<1>10. evaluation[e].pc = "idle" /\ UNCHANGED <<policy, content, close>>
  BY DEF Evaluate
<1> HIDE DEF answer, call, progress
<1>11. Replaces(e)
  BY <1>2, <1>5, <1>6, <1>7, <1>8, <1>10 DEF Replaces, content
<1> QED BY <1>2, <1>3, <1>5, <1>6, <1>7, <1>9, <1>10, <1>11 DEF Begins, Typed, progress

(* An evaluation that resumes ends, and the others are left alone.         *)
LEMMA ResumeEnds ==
  ASSUME Typed, NEW e \in Evaluations, NEW confirmed \in BOOLEAN, NEW timedOut \in BOOLEAN,
         Resume(e, confirmed, timedOut)
  PROVE  Ends(e, confirmed, timedOut)
PROOF
<1>1. PICK now \in Times \cup {Invalid} :
        /\ evaluation' = [evaluation EXCEPT ![e] =
                            Returned(evaluation[e], confirmed, timedOut, audit[e], now)]
        /\ expired' = IF ~confirmed /\ policy.confirming THEN expired
                      ELSE expired \cup LatchedAtEnd(evaluation[e], now)
  BY DEF Resume
<1>2. IsAnswer(Returned(evaluation[e], confirmed, timedOut, audit[e], now),
               evaluation[e], confirmed, timedOut, audit[e])
  <2>1. evaluation[e] \in Calls /\ audit[e] \in {"open", "resolved", "failed"} /\ 0 \notin expired
    BY DEF Typed, Resume
  <2> QED BY <2>1, AnswersCall
<1>3. expired' \subseteq 1..latches
  <2>1. LatchedBy(evaluation[e].state, now) \subseteq 1..latches
    BY LatchesKnown DEF Typed, Calls
  <2> QED BY <1>1, <2>1 DEF Typed, LatchedAtEnd
<1>4. evaluation'[e] = Returned(evaluation[e], confirmed, timedOut, audit[e], now)
  BY <1>1 DEF Typed
<1>5. Replaces(e)
  BY <1>1, <1>2, <1>3, <1>4 DEF Replaces, Resume, content, IsAnswer, Typed
<1> QED BY <1>2, <1>4, <1>5 DEF Ends, Resume

(* Types are kept; the counters are left to Counting.                      *)
LEMMA TypedInvariant == Spec => []Typed
PROOF
<1>1. Init => Typed
  BY DEF Init, Typed, States, Calls, Codes, Policies, Counters
<1>2. Typed /\ [Next]_vars => Typed'
  <2> SUFFICES ASSUME Typed, [Next]_vars PROVE Typed'
    OBVIOUS
  <2>1. ASSUME NEW snapshot \in Snapshots, NEW artifact \in Artifacts \cup {Unsigned},
               UpdateSnapshot(snapshot, artifact)
        PROVE  Typed'
    <3>1. LatchFor(artifact, state) \in Nat
      BY DEF Typed, States, LatchFor
    <3>2. NextState(snapshot, artifact) \in States
      BY <3>1 DEF Typed, NextState, States
    <3>3. latches' \in Nat /\ latches' >= latches /\ state'.latch <= latches'
      BY <2>1, <3>1, <3>2 DEF UpdateSnapshot, Apply, Typed, States
    <3>4. \A e \in Evaluations : evaluation[e].state.latch \in Nat
      BY DEF Typed, Calls, States
    <3>5. 1..latches \subseteq 1..latches'
      BY <3>3 DEF Typed
    <3> QED BY <2>1, <3>2, <3>3, <3>4, <3>5 DEF UpdateSnapshot, Apply, Typed, States, calls
  <2>2. ASSUME NEW e \in Evaluations, Evaluate(e) PROVE Typed'
    <3>1. Begins(e)
      BY <2>2, EvaluateBegins
    <3>2. audits' \in Counters
      BY <3>1, CountersMove DEF Begins, Typed, Counters
    <3> QED BY <3>1, <3>2 DEF Begins, Replaces, Typed
  <2>3. ASSUME NEW e \in Evaluations, NEW progress \in {"resolved", "failed"},
               AuditSettles(e, progress)
        PROVE  Typed'
    <3>1. audits' \in Counters
      BY <2>3, CountersMove DEF AuditSettles, Typed, Counters
    <3> QED BY <2>3, <3>1 DEF AuditSettles, Typed, content
  <2>4. ASSUME NEW e \in Evaluations, NEW confirmed \in BOOLEAN, NEW timedOut \in BOOLEAN,
               Resume(e, confirmed, timedOut),
               audits' \in Counters
        PROVE  Typed'
    BY <2>4, ResumeEnds DEF Ends, Replaces, IsAnswer, Typed
  <2>5. ASSUME NEW e \in Evaluations, ResumeInTime(e) PROVE Typed'
    BY <2>5, <2>4 DEF ResumeInTime, Typed
  <2>6. ASSUME NEW e \in Evaluations, ResumeTooLate(e) PROVE Typed'
    <3>1. audits' \in Counters
      BY <2>6, CountersMove DEF ResumeTooLate, Typed, Counters
    <3> QED BY <2>6, <3>1, <2>4 DEF ResumeTooLate, ConfirmsAfterDeadline
  <2>7. CASE OnClose \/ Closes
    BY <2>7 DEF OnClose, Closes, Typed, content, calls
  <2>8. CASE UNCHANGED vars
    BY <2>8 DEF vars, Typed, content, calls
  <2> QED BY <2>1, <2>2, <2>3, <2>5, <2>6, <2>7, <2>8 DEF Next
<1> QED BY <1>1, <1>2, PTL DEF Spec

(***************************************************************************)
(* The audits behind the values.                                           *)
(***************************************************************************)
(* While an audit is waited for, its event tells the result it stands for. *)
EventTells ==
  \A e \in Evaluations :
    evaluation[e].pc = "auditing" =>
      audit[e] = "failed" \/ evaluation[e].event = evaluation[e].result

(* A result is withheld unless its audit was confirmed in time.            *)
LEMMA ResultsConfirmed == Spec => [](EventTells /\ FailsClosed)
PROOF
<1>1. Init => EventTells /\ FailsClosed
  BY DEF Init, EventTells, FailsClosed
<1>2. EventTells /\ FailsClosed /\ Typed /\ Typed' /\ [Next]_vars => (EventTells /\ FailsClosed)'
  <2> SUFFICES ASSUME EventTells, FailsClosed, Typed, Typed', [Next]_vars
               PROVE  EventTells' /\ FailsClosed'
    OBVIOUS
  <2>1. ASSUME NEW snapshot \in Snapshots, NEW artifact \in Artifacts \cup {Unsigned},
               UpdateSnapshot(snapshot, artifact)
        PROVE  EventTells' /\ FailsClosed'
    BY <2>1 DEF UpdateSnapshot, calls, EventTells, FailsClosed
  <2>2. ASSUME NEW e \in Evaluations, Evaluate(e) PROVE EventTells' /\ FailsClosed'
    BY <2>2, EvaluateBegins DEF Begins, Replaces, EventTells, FailsClosed, Typed
  <2>3. ASSUME NEW e \in Evaluations, NEW progress \in {"resolved", "failed"},
               AuditSettles(e, progress)
        PROVE  EventTells' /\ FailsClosed'
    BY <2>3 DEF AuditSettles, content, EventTells, FailsClosed, Typed
  <2>4. ASSUME NEW e \in Evaluations, ResumeInTime(e) PROVE EventTells' /\ FailsClosed'
    <3>1. Ends(e, audit[e] = "resolved", FALSE) /\ audit[e] \in {"resolved", "failed"}
      <4>1. \A confirmed, timedOut \in BOOLEAN :
              Resume(e, confirmed, timedOut) => Ends(e, confirmed, timedOut)
        BY ResumeEnds
      <4>2. (audit[e] = "resolved") \in BOOLEAN /\ FALSE \in BOOLEAN
        OBVIOUS
      <4> QED BY <2>4, <4>1, <4>2, Zenon DEF ResumeInTime
    <3>2. evaluation'[e].result = "none" /\ policy.confirming =>
            evaluation'[e].outcome = "confirmed" /\ audit[e] = "resolved"
      BY <3>1 DEF Ends, IsAnswer, Attempt
    <3> QED BY <3>1, <3>2 DEF Ends, Replaces, IsAnswer, EventTells, FailsClosed, Typed
  <2>5. ASSUME NEW e \in Evaluations, ResumeTooLate(e) PROVE EventTells' /\ FailsClosed'
    <3>1. Ends(e, FALSE, TRUE)
      <4>1. \A confirmed, timedOut \in BOOLEAN :
              Resume(e, confirmed, timedOut) => Ends(e, confirmed, timedOut)
        BY ResumeEnds
      <4>2. TRUE \in BOOLEAN /\ FALSE \in BOOLEAN
        OBVIOUS
      <4> QED BY <2>5, <4>1, <4>2, Zenon DEF ResumeTooLate, ConfirmsAfterDeadline
    <3> QED BY <3>1 DEF Ends, Replaces, IsAnswer, EventTells, FailsClosed, Typed
  <2>6. CASE OnClose \/ Closes
    BY <2>6 DEF OnClose, Closes, calls, content, EventTells, FailsClosed
  <2>7. CASE UNCHANGED vars
    BY <2>7 DEF vars, calls, content, EventTells, FailsClosed
  <2> QED BY <2>1, <2>2, <2>3, <2>4, <2>5, <2>6, <2>7 DEF Next
<1> QED BY <1>1, <1>2, TypedInvariant, PTL DEF Spec

(* Under returnDefault no value is used whose audit the sink has not       *)
(* confirmed in time, for every sink (evaluateAndResolve).                 *)
THEOREM ProviderFailsClosed == Spec => []FailsClosed
BY ResultsConfirmed, PTL

(***************************************************************************)
(* The lineage of expiry objects.                                          *)
(***************************************************************************)
(* States of one activation share their expiry object, whoever holds them. *)
Lineage ==
  /\ state.since = activation
  /\ state.latch # 0 <=> policy.enforcing /\ state.artifact # Unsigned
  /\ \A e \in Evaluations :
       /\ evaluation[e].state.since <= activation
       /\ evaluation[e].state.since = activation => evaluation[e].state.latch = state.latch
  /\ \A e, f \in Evaluations :
       evaluation[e].state.since = evaluation[f].state.since =>
         evaluation[e].state.latch = evaluation[f].state.latch

(* States that share an expiry object are of one artifact.                 *)
LEMMA LineageInvariant == Spec => []Lineage
PROOF
<1>1. Init => Lineage
  BY DEF Init, Lineage
<1>2. Lineage /\ Typed /\ Typed' /\ [Next]_vars => Lineage'
  <2> SUFFICES ASSUME Lineage, Typed, Typed', [Next]_vars PROVE Lineage'
    OBVIOUS
  <2>1. ASSUME NEW snapshot \in Snapshots, NEW artifact \in Artifacts \cup {Unsigned},
               UpdateSnapshot(snapshot, artifact)
        PROVE  Lineage'
    <3>1. LatchFor(artifact, state) # 0 <=> policy.enforcing /\ artifact # Unsigned
      BY DEF LatchFor, SameArtifact, Typed
    <3>2. artifact = state.artifact => LatchFor(artifact, state) = state.latch
      BY DEF LatchFor, SameArtifact, Lineage
    <3>3. /\ state' = [snapshot |-> snapshot, artifact |-> artifact, latch |-> LatchFor(artifact, state),
                       since |-> IF artifact = state.artifact THEN activation ELSE activation + 1]
          /\ activation' = IF artifact = state.artifact THEN activation ELSE activation + 1
          /\ UNCHANGED <<policy, evaluation>>
      BY <2>1 DEF UpdateSnapshot, Apply, NextState, calls
    <3>4. \A e \in Evaluations : evaluation[e].state.since \in Nat
      BY DEF Typed, Calls, States
    <3> QED BY <3>1, <3>2, <3>3, <3>4 DEF Lineage, Typed
  <2>2. ASSUME NEW e \in Evaluations, Evaluate(e) PROVE Lineage'
    <3>1. Begins(e)
      BY <2>2, EvaluateBegins
    <3> QED BY <3>1 DEF Begins, Replaces, Lineage, Typed
  <2>3. ASSUME NEW e \in Evaluations, NEW progress \in {"resolved", "failed"},
               AuditSettles(e, progress)
        PROVE  Lineage'
    BY <2>3 DEF AuditSettles, content, Lineage
  <2>4. ASSUME NEW e \in Evaluations, NEW confirmed \in BOOLEAN, NEW timedOut \in BOOLEAN,
               Resume(e, confirmed, timedOut)
        PROVE  Lineage'
    <3>1. Ends(e, confirmed, timedOut)
      BY <2>4, ResumeEnds
    <3>2. \A f \in Evaluations : evaluation'[f].state = evaluation[f].state
      BY <3>1 DEF Ends, Replaces, IsAnswer, Typed
    <3> QED BY <3>1, <3>2 DEF Ends, Replaces, Lineage
  <2>5. ASSUME NEW e \in Evaluations, ResumeInTime(e) PROVE Lineage'
    BY <2>5, <2>4 DEF ResumeInTime
  <2>6. ASSUME NEW e \in Evaluations, ResumeTooLate(e) PROVE Lineage'
    BY <2>6, <2>4 DEF ResumeTooLate, ConfirmsAfterDeadline
  <2>7. CASE OnClose \/ Closes
    BY <2>7 DEF OnClose, Closes, calls, content, Lineage
  <2>8. CASE UNCHANGED vars
    BY <2>8 DEF vars, calls, content, Lineage
  <2> QED BY <2>1, <2>2, <2>3, <2>5, <2>6, <2>7, <2>8 DEF Next
<1> QED BY <1>1, <1>2, TypedInvariant, PTL DEF Spec

(* Expiry is final for every clock as long as one artifact stays in use,   *)
(* however often the clock steps back and the same artifact is delivered   *)
(* again meanwhile (ActiveSnapshotExpiry).                                 *)
THEOREM ProviderExpiryIsFinal == Spec => ExpiryIsFinal
PROOF
<1>1. Lineage /\ Typed /\ [Next]_vars =>
        [\A e, f \in Evaluations :
           /\ evaluation[e].pc # "returned" /\ evaluation'[e].pc = "returned"
           /\ evaluation[f].pc # "idle" /\ evaluation[f].state.latch \in expired
           /\ evaluation[f].state.since = evaluation'[e].state.since
           => evaluation'[e].result # "none"]_vars
  <2> SUFFICES ASSUME Lineage, Typed, [Next]_vars,
                      NEW e \in Evaluations, NEW f \in Evaluations,
                      evaluation[e].pc # "returned", evaluation'[e].pc = "returned",
                      evaluation[f].state.latch \in expired,
                      evaluation[f].state.since = evaluation'[e].state.since
               PROVE  evaluation'[e].result # "none"
    OBVIOUS
  <2>1. ASSUME NEW g \in Evaluations, Evaluate(g) PROVE evaluation'[e].result # "none"
    <3>1. Begins(g)
      BY <2>1, EvaluateBegins
    <3>2. g = e
      BY <3>1 DEF Begins, Replaces, Typed
    <3>3. evaluation'[e].state = state /\ state.latch = evaluation[f].state.latch
      BY <3>1, <3>2 DEF Begins, Lineage
    <3> QED BY <3>1, <3>2, <3>3 DEF Begins
  <2>2. ASSUME NEW g \in Evaluations, NEW confirmed \in BOOLEAN, NEW timedOut \in BOOLEAN,
               Resume(g, confirmed, timedOut)
        PROVE  evaluation'[e].result # "none"
    <3>1. Ends(g, confirmed, timedOut)
      BY <2>2, ResumeEnds
    <3>2. g = e
      BY <3>1 DEF Ends, Replaces, Typed
    <3>3. evaluation'[e].state = evaluation[e].state
      BY <3>1, <3>2 DEF Ends, IsAnswer
    <3>4. evaluation[e].state.latch \in expired
      BY <3>3 DEF Lineage
    <3> QED BY <3>1, <3>2, <3>4 DEF Ends, IsAnswer
  <2>3. ASSUME NEW g \in Evaluations, ResumeInTime(g) \/ ResumeTooLate(g)
        PROVE  evaluation'[e].result # "none"
    BY <2>2, <2>3 DEF ResumeInTime, ResumeTooLate, ConfirmsAfterDeadline
  <2>4. ASSUME UNCHANGED evaluation PROVE FALSE
    BY <2>4
  <2> QED BY <2>1, <2>3, <2>4
          DEF Next, UpdateSnapshot, AuditSettles, OnClose, Closes, vars, calls
<1> QED BY <1>1, TypedInvariant, LineageInvariant, PTL DEF Spec, ExpiryIsFinal

(***************************************************************************)
(* The counters count the audits.                                          *)
(***************************************************************************)
Begun    == {e \in Evaluations : evaluation[e].pc # "idle"}
TimedOut == {e \in Evaluations : evaluation[e].outcome = "timedOut"}

Counting ==
  /\ audits.attempted = Cardinality(Begun)
  /\ audits.pending = Cardinality(Settled("open"))
  /\ audits.resolved = Cardinality(Settled("resolved"))
  /\ audits.failed = Cardinality(Settled("failed"))
  /\ audits.timedOut = Cardinality(TimedOut)
  /\ \A e \in Evaluations :
       /\ evaluation[e].pc = "idle" <=> audit[e] = "none"
       /\ evaluation[e].pc # "returned" => evaluation[e].outcome # "timedOut"
  /\ close = "none" => announced = state.snapshot

(* One evaluation more, or one less, changes a counter by one.             *)
LEMMA CountsGrow ==
  ASSUME NEW S \in SUBSET Evaluations, NEW e \in Evaluations
  PROVE  /\ Cardinality(S) \in Nat
         /\ e \notin S => Cardinality(S \cup {e}) = Cardinality(S) + 1
         /\ e \in S => Cardinality(S \ {e}) = Cardinality(S) - 1
BY ProviderAssumption, FS_Subset, FS_AddElement, FS_RemoveElement, FS_CardinalityType

(* The counters count the evaluations they are about.                      *)
LEMMA CountingInvariant == Spec => []Counting
PROOF
<1>1. Init => Counting
  <2> SUFFICES ASSUME Init PROVE Counting
    OBVIOUS
  <2>1. /\ Begun = {} /\ TimedOut = {}
        /\ Settled("open") = {} /\ Settled("resolved") = {} /\ Settled("failed") = {}
    BY DEF Init, Begun, TimedOut, Settled
  <2> QED BY <2>1, FS_EmptySet DEF Init, Counting
<1>2. Counting /\ Typed /\ Typed' /\ [Next]_vars => Counting'
  <2> SUFFICES ASSUME Counting, Typed, Typed', [Next]_vars PROVE Counting'
    OBVIOUS
  <2>1. /\ Begun \in SUBSET Evaluations /\ TimedOut \in SUBSET Evaluations
        /\ \A progress : Settled(progress) \in SUBSET Evaluations
    BY DEF Begun, TimedOut, Settled
  <2>2. ASSUME NEW snapshot \in Snapshots, NEW artifact \in Artifacts \cup {Unsigned},
               UpdateSnapshot(snapshot, artifact)
        PROVE  Counting'
    BY <2>2 DEF UpdateSnapshot, Apply, NextState, calls, Counting, Begun, TimedOut, Settled
  <2>3. ASSUME NEW e \in Evaluations, Evaluate(e) PROVE Counting'
    <3>1. Begins(e)
      BY <2>3, EvaluateBegins
    <3>2. audit[e] = "none" /\ evaluation[e].outcome # "timedOut"
      BY <3>1 DEF Begins, Counting
    <3>3. Begun' = Begun \cup {e} /\ e \notin Begun /\ TimedOut' = TimedOut
      BY <3>1, <3>2 DEF Begins, Replaces, Begun, TimedOut, Typed
    <3>4. /\ \A progress \in {"open", "resolved", "failed"} : e \notin Settled(progress)
          /\ Settled("open")' = IF audit'[e] = "open" THEN Settled("open") \cup {e} ELSE Settled("open")
          /\ Settled("failed")' =
               IF audit'[e] = "failed" THEN Settled("failed") \cup {e} ELSE Settled("failed")
          /\ Settled("resolved")' = Settled("resolved")
      BY <3>1, <3>2 DEF Begins, Replaces, Settled, Typed
    <3>5. \A f \in Evaluations :
            /\ (evaluation[f].pc = "idle" <=> audit[f] = "none")'
            /\ (evaluation[f].pc # "returned" => evaluation[f].outcome # "timedOut")'
      BY <3>1 DEF Begins, Replaces, Counting, Typed
    <3>6. CASE audit'[e] = "open"
      <4>1. /\ audits'.attempted = audits.attempted + 1 /\ audits'.pending = audits.pending + 1
            /\ audits'.resolved = audits.resolved /\ audits'.failed = audits.failed
            /\ audits'.timedOut = audits.timedOut
        BY <3>1, <3>6, CountersMove DEF Begins, Typed
      <4> QED BY <3>1, <3>3, <3>4, <3>5, <3>6, <4>1, <2>1, CountsGrow
              DEF Counting, Begins, Replaces
    <3>7. CASE audit'[e] = "failed"
      <4>1. /\ audits'.attempted = audits.attempted + 1 /\ audits'.pending = audits.pending
            /\ audits'.resolved = audits.resolved /\ audits'.failed = audits.failed + 1
            /\ audits'.timedOut = audits.timedOut
        BY <3>1, <3>7, CountersMove DEF Begins, Typed
      <4> QED BY <3>1, <3>3, <3>4, <3>5, <3>7, <4>1, <2>1, CountsGrow
              DEF Counting, Begins, Replaces
    <3> QED BY <3>1, <3>6, <3>7 DEF Begins
  <2>4. ASSUME NEW e \in Evaluations, NEW progress \in {"resolved", "failed"},
               AuditSettles(e, progress)
        PROVE  Counting'
    <3>1. /\ Begun' = Begun /\ TimedOut' = TimedOut
          /\ e \in Settled("open") /\ Settled("open")' = Settled("open") \ {e}
          /\ e \notin Settled(progress) /\ Settled(progress)' = Settled(progress) \cup {e}
          /\ \A other \in {"resolved", "failed"} :
               other # progress => Settled(other)' = Settled(other)
      BY <2>4 DEF AuditSettles, Begun, TimedOut, Settled, Typed
    <3>2. \A f \in Evaluations :
            /\ (evaluation[f].pc = "idle" <=> audit[f] = "none")'
            /\ (evaluation[f].pc # "returned" => evaluation[f].outcome # "timedOut")'
      BY <2>4 DEF AuditSettles, Counting, Typed
    <3>3. CASE progress = "resolved"
      <4>1. /\ audits'.attempted = audits.attempted /\ audits'.pending = audits.pending - 1
            /\ audits'.resolved = audits.resolved + 1 /\ audits'.failed = audits.failed
            /\ audits'.timedOut = audits.timedOut
        BY <2>4, <3>3, CountersMove DEF AuditSettles, Typed
      <4> QED BY <2>1, <2>4, <3>1, <3>2, <3>3, <4>1, CountsGrow DEF Counting, AuditSettles, content
    <3>4. CASE progress = "failed"
      <4>1. /\ audits'.attempted = audits.attempted /\ audits'.pending = audits.pending - 1
            /\ audits'.resolved = audits.resolved /\ audits'.failed = audits.failed + 1
            /\ audits'.timedOut = audits.timedOut
        BY <2>4, <3>4, CountersMove DEF AuditSettles, Typed
      <4> QED BY <2>1, <2>4, <3>1, <3>2, <3>4, <4>1, CountsGrow DEF Counting, AuditSettles, content
    <3> QED BY <3>3, <3>4
  <2>5. ASSUME NEW e \in Evaluations, ResumeInTime(e) PROVE Counting'
    <3>1. Ends(e, audit[e] = "resolved", FALSE) /\ audit[e] \in {"resolved", "failed"}
      <4>1. \A confirmed, timedOut \in BOOLEAN :
              Resume(e, confirmed, timedOut) => Ends(e, confirmed, timedOut)
        BY ResumeEnds
      <4>2. (audit[e] = "resolved") \in BOOLEAN /\ FALSE \in BOOLEAN
        OBVIOUS
      <4> QED BY <2>5, <4>1, <4>2, Zenon DEF ResumeInTime
    <3>2. evaluation'[e].outcome # "timedOut" /\ evaluation[e].outcome # "timedOut"
      BY <3>1 DEF Ends, IsAnswer, Attempt, Counting
    <3>3. /\ Begun' = Begun /\ TimedOut' = TimedOut
          /\ \A progress : Settled(progress)' = Settled(progress)
      BY <3>1, <3>2 DEF Ends, Replaces, IsAnswer, Begun, TimedOut, Settled, Typed
    <3>4. UNCHANGED audits
      BY <2>5 DEF ResumeInTime
    <3>5. \A f \in Evaluations :
            /\ (evaluation[f].pc = "idle" <=> audit[f] = "none")'
            /\ (evaluation[f].pc # "returned" => evaluation[f].outcome # "timedOut")'
      BY <3>1 DEF Ends, Replaces, IsAnswer, Counting, Typed
    <3> QED BY <3>1, <3>3, <3>4, <3>5 DEF Ends, Replaces, Counting
  <2>6. ASSUME NEW e \in Evaluations, ResumeTooLate(e) PROVE Counting'
    <3>1. Ends(e, FALSE, TRUE)
      <4>1. \A confirmed, timedOut \in BOOLEAN :
              Resume(e, confirmed, timedOut) => Ends(e, confirmed, timedOut)
        BY ResumeEnds
      <4>2. TRUE \in BOOLEAN /\ FALSE \in BOOLEAN
        OBVIOUS
      <4> QED BY <2>6, <4>1, <4>2, Zenon DEF ResumeTooLate, ConfirmsAfterDeadline
    <3>2. evaluation'[e].outcome = "timedOut" /\ evaluation[e].outcome # "timedOut"
      BY <3>1 DEF Ends, IsAnswer, Counting
    <3>3. /\ Begun' = Begun /\ TimedOut' = TimedOut \cup {e} /\ e \notin TimedOut
          /\ \A progress : Settled(progress)' = Settled(progress)
      BY <3>1, <3>2 DEF Ends, Replaces, IsAnswer, Begun, TimedOut, Settled, Typed
    <3>4. /\ audits'.attempted = audits.attempted /\ audits'.pending = audits.pending
          /\ audits'.resolved = audits.resolved /\ audits'.failed = audits.failed
          /\ audits'.timedOut = audits.timedOut + 1
      BY <2>6, CountersMove DEF ResumeTooLate, Typed
    <3>5. \A f \in Evaluations :
            /\ (evaluation[f].pc = "idle" <=> audit[f] = "none")'
            /\ (evaluation[f].pc # "returned" => evaluation[f].outcome # "timedOut")'
      BY <3>1 DEF Ends, Replaces, IsAnswer, Counting, Typed
    <3> QED BY <2>1, <3>1, <3>3, <3>4, <3>5, CountsGrow DEF Ends, Replaces, Counting
  <2>7. CASE OnClose \/ Closes
    BY <2>7 DEF OnClose, Closes, calls, content, Counting, Begun, TimedOut, Settled
  <2>8. CASE UNCHANGED vars
    BY <2>8 DEF vars, calls, content, Counting, Begun, TimedOut, Settled
  <2> QED BY <2>2, <2>3, <2>4, <2>5, <2>6, <2>7, <2>8 DEF Next
<1> QED BY <1>1, <1>2, TypedInvariant, PTL DEF Spec

(* getStatus tells the truth about every audit, for any number of          *)
(* evaluations that settle, time out and end in any order                  *)
(* (OperationalState, writeAuditEvent).                                    *)
THEOREM ProviderStatusTruthful == Spec => []StatusTruthful
PROOF
<1>1. Typed /\ Counting => StatusTruthful
  <2> SUFFICES ASSUME Typed, Counting PROVE StatusTruthful
    OBVIOUS
  <2>1. /\ Begun \in SUBSET Evaluations /\ TimedOut \in SUBSET Evaluations
        /\ \A progress : Settled(progress) \in SUBSET Evaluations
    BY DEF Begun, TimedOut, Settled
  <2>2. \A S \in SUBSET Evaluations : Cardinality(S) \in Nat
    BY ProviderAssumption, FS_Subset, FS_CardinalityType
  <2>3. /\ audits.attempted \in Nat /\ audits.pending \in Nat /\ audits.resolved \in Nat
        /\ audits.failed \in Nat /\ audits.timedOut \in Nat
    BY <2>1, <2>2 DEF Counting
  <2>4. audits \in [attempted : Nat, resolved : Nat, failed : Nat, timedOut : Nat, pending : Nat]
    BY <2>3 DEF Typed, Counters
  <2> QED BY <2>4 DEF StatusTruthful, TypeOK, Typed, Counting, Begun, TimedOut
<1> QED BY <1>1, TypedInvariant, CountingInvariant, PTL

-----------------------------------------------------------------------------
(***************************************************************************)
(* The evaluation of a flag.                                               *)
(*                                                                         *)
(* A condition is of some level up to MaxHeight; what is said of all       *)
(* conditions is proved by induction on the level.  The recursive          *)
(* functions of the model are shown to exist first, each by an induction   *)
(* of its own; the rest uses only their equations.                         *)
(***************************************************************************)
(* A set with zero and every successor of its members has all the          *)
(* naturals.                                                               *)
LEMMA NaturalInduction ==
  ASSUME NEW S, 0 \in S, \A n \in Nat : n \in S => n + 1 \in S
  PROVE  Nat \subseteq S
PROOF
<1> DEFINE T == Nat \ S
<1> SUFFICES ASSUME T # {} PROVE FALSE
  OBVIOUS
<1>1. \E x \in T : \A y \in T : ~ (<<y, x>> \in OpToRel(<, Nat))
  <2>1. T \subseteq Nat
    OBVIOUS
  <2> HIDE DEF T
  <2> QED BY <2>1, NatLessThanWellFounded, WFMin
<1>2. PICK x \in T : \A y \in T : ~(y < x)
  BY <1>1 DEF OpToRel
<1>3. x \in Nat /\ x # 0 /\ x - 1 \in Nat /\ x - 1 < x
  OBVIOUS
<1>4. x - 1 \in S
  BY <1>2, <1>3
<1> QED BY <1>3, <1>4

(* Level is what its definition says.                                      *)
LEMMA LevelDefined ==
  Level = [height \in 0 .. MaxHeight |->
             IF height = 0 THEN Leaves \cup IndexedLeaves ELSE Nested(Level[height - 1])]
PROOF
<1> DEFINE E(g, n) == IF n = 0 THEN Leaves \cup IndexedLeaves ELSE Nested(g[n - 1])
           S == {n \in Nat : \E g : \A m \in 0 .. n : g[m] = E(g, m)}
<1>1. 0 \in S
  <2> DEFINE g == [m \in 0 .. 0 |-> Leaves \cup IndexedLeaves]
  <2>1. \A m \in 0 .. 0 : g[m] = E(g, m)
    OBVIOUS
  <2> HIDE DEF g
  <2> QED BY <2>1
<1>2. ASSUME NEW n \in Nat, n \in S PROVE n + 1 \in S
  <2>1. PICK g : \A m \in 0 .. n : g[m] = E(g, m)
    BY <1>2
  <2> DEFINE h == [m \in 0 .. n + 1 |-> E(g, m)]
  <2>2. ASSUME NEW m \in 0 .. n PROVE h[m] = g[m]
    <3>1. g[m] = E(g, m)
      BY <2>1
    <3>2. m \in 0 .. n + 1
      OBVIOUS
    <3>3. h[m] = E(g, m)
      BY <3>2
    <3> QED BY <3>1, <3>3
  <2>3. \A m \in 0 .. n + 1 : h[m] = E(h, m)
    <3>1. ASSUME NEW m \in 0 .. n + 1 PROVE E(g, m) = E(h, m)
      <4>1. m = 0 \/ m - 1 \in 0 .. n
        OBVIOUS
      <4> HIDE DEF h
      <4> QED BY <4>1, <2>2
    <3> QED BY <3>1
  <2> HIDE DEF h
  <2> QED BY <2>3
<1>3. MaxHeight \in S
  <2> HIDE DEF S
  <2> QED BY <1>1, <1>2, NaturalInduction, ConditionsAssumption
<1>4. PICK g : \A m \in 0 .. MaxHeight : g[m] = E(g, m)
  BY <1>3
<1> DEFINE h == [m \in 0 .. MaxHeight |-> E(g, m)]
<1>5. \A m \in 0 .. MaxHeight : h[m] = g[m]
  BY <1>4
<1>6. h = [m \in 0 .. MaxHeight |-> E(h, m)]
  <2>1. ASSUME NEW m \in 0 .. MaxHeight PROVE E(g, m) = E(h, m)
    <3>1. m = 0 \/ m - 1 \in 0 .. MaxHeight
      BY ConditionsAssumption
    <3> HIDE DEF h
    <3> QED BY <3>1, <1>5
  <2> QED BY <2>1
<1> HIDE DEF h
<1> QED BY <1>6 DEF Level

(* The conditions a condition is made of.                                  *)
Parts(c) ==
  IF c.kind = "leaf" THEN {} ELSE IF c.kind = "not" THEN {c.of} ELSE {c.of[i] : i \in DOMAIN c.of}

IsLeafCondition(c) == c \in Leaves \cup IndexedLeaves /\ c.kind = "leaf"
IsNegation(c)      == c.kind = "not" /\ c = [kind |-> "not", of |-> c.of]
IsGroup(c)         ==
  /\ c.kind \in {"all", "any"} /\ c = [kind |-> c.kind, of |-> c.of]
  /\ Len(c.of) \in Nat /\ DOMAIN c.of = 1 .. Len(c.of)

(* The conditions of level zero are leaves.                                *)
LEMMA LeavesAreLeaves ==
  ASSUME NEW leaf \in Leaves \cup IndexedLeaves
  PROVE  leaf.kind = "leaf"
PROOF
<1>1. CASE leaf \in Leaves
  BY <1>1, ConditionsAssumption DEF IsLeaf
<1>2. CASE leaf \in IndexedLeaves
  <2>1. PICK l \in Leaves : leaf = [l EXCEPT !.index = CaptureConditionValues(l.operand)]
    BY <1>2 DEF IndexedLeaves
  <2>2. IsLeaf(l)
    BY ConditionsAssumption
  <2> QED BY <2>1, <2>2 DEF IsLeaf
<1> QED BY <1>1, <1>2

(* A level holds leaves, and what is made of the level below it.           *)
LEMMA LevelShape ==
  ASSUME NEW n \in 0 .. MaxHeight, NEW c \in Level[n]
  PROVE  /\ IsLeafCondition(c) \/ IsNegation(c) \/ IsGroup(c)
         /\ n = 0 => Parts(c) = {}
         /\ n > 0 => Parts(c) \subseteq Level[n - 1]
         /\ n < MaxHeight => c \in Level[n + 1]
PROOF
<1> DEFINE Shaped(d) == IsLeafCondition(d) \/ IsNegation(d) \/ IsGroup(d)
           Fits(d, m) == /\ Shaped(d)
                         /\ m = 0 => Parts(d) = {}
                         /\ m > 0 => Parts(d) \subseteq Level[m - 1]
           S == {m \in Nat : m \in 0 .. MaxHeight => \A d \in Level[m] : Fits(d, m)}
<1>1. ASSUME NEW m \in Nat, m + 1 \in 0 .. MaxHeight
      PROVE  Level[m + 1] = Nested(Level[m])
  <2>1. MaxHeight \in Nat /\ m + 1 # 0 /\ (m + 1) - 1 = m
    BY ConditionsAssumption
  <2> QED BY <1>1, <2>1, LevelDefined
<1>2. Level[0] = Leaves \cup IndexedLeaves
  BY LevelDefined, ConditionsAssumption
<1>3. ASSUME NEW d \in Leaves \cup IndexedLeaves PROVE Shaped(d) /\ Parts(d) = {}
  BY LeavesAreLeaves DEF IsLeafCondition, Parts
<1>4. 0 \in S
  BY <1>2, <1>3
<1>5. ASSUME NEW m \in Nat, m \in S PROVE m + 1 \in S
  <2> SUFFICES ASSUME m + 1 \in 0 .. MaxHeight, NEW d \in Level[m + 1] PROVE Fits(d, m + 1)
    OBVIOUS
  <2>1. m \in 0 .. MaxHeight /\ (m + 1) - 1 = m
    BY ConditionsAssumption
  <2>2. Level[m + 1] = Nested(Level[m])
    BY <1>1
  <2>3. CASE d \in Level[m]
    <3>1. Fits(d, m)
      BY <1>5, <2>1, <2>3
    <3>2. Parts(d) \subseteq Level[m]
      <4>1. CASE m = 0
        BY <3>1, <4>1
      <4>2. CASE m > 0
        <5>1. Parts(d) \subseteq Level[m - 1] /\ m - 1 \in Nat /\ (m - 1) + 1 = m
          BY <3>1, <4>2
        <5>2. Level[m] = Nested(Level[m - 1])
          BY <1>1, <2>1, <5>1
        <5> QED BY <5>1, <5>2 DEF Nested
      <4> QED BY <4>1, <4>2
    <3> QED BY <2>1, <3>1, <3>2
  <2>4. CASE d \in [kind : {"not"}, of : Level[m]]
    <3>1. IsNegation(d) /\ Parts(d) = {d.of} /\ d.of \in Level[m]
      BY <2>4 DEF IsNegation, Parts
    <3> QED BY <2>1, <3>1
  <2>5. CASE d \in [kind : {"all", "any"}, of : Seq(Level[m])]
    <3>1. d.kind \in {"all", "any"} /\ d = [kind |-> d.kind, of |-> d.of] /\ d.of \in Seq(Level[m])
      BY <2>5
    <3>2. IsGroup(d)
      BY <3>1 DEF IsGroup
    <3>3. Parts(d) = {d.of[i] : i \in DOMAIN d.of}
      BY <3>1 DEF Parts
    <3>4. Parts(d) \subseteq Level[m]
      BY <3>1, <3>3
    <3> QED BY <2>1, <3>2, <3>4
  <2> QED BY <2>2, <2>3, <2>4, <2>5 DEF Nested
<1>6. n \in S
  <2> HIDE DEF S
  <2> QED BY <1>4, <1>5, NaturalInduction
<1>7. n < MaxHeight => c \in Level[n + 1]
  <2> SUFFICES ASSUME n < MaxHeight PROVE c \in Level[n + 1]
    OBVIOUS
  <2>1. n + 1 \in 0 .. MaxHeight /\ n \in Nat
    BY ConditionsAssumption
  <2> QED BY <1>1, <2>1 DEF Nested
<1> QED BY <1>6, <1>7

(* The conditions of a snapshot are those of the last level.               *)
LEMMA LevelOfTargetingCondition ==
  MaxHeight \in 0 .. MaxHeight /\ TargetingCondition = Level[MaxHeight]
PROOF
BY ConditionsAssumption DEF TargetingCondition

(* What is a condition at some level is a condition.                       *)
LEMMA LevelsGrow ==
  ASSUME NEW n \in 0 .. MaxHeight
  PROVE  Level[n] \subseteq TargetingCondition
PROOF
<1> DEFINE S == {k \in Nat : k <= MaxHeight => Level[MaxHeight - k] \subseteq TargetingCondition}
<1>1. 0 \in S
  BY LevelOfTargetingCondition, ConditionsAssumption
<1>2. ASSUME NEW k \in Nat, k \in S PROVE k + 1 \in S
  <2> SUFFICES ASSUME k + 1 <= MaxHeight, NEW c \in Level[MaxHeight - (k + 1)]
               PROVE  c \in TargetingCondition
    OBVIOUS
  <2>1. /\ MaxHeight - (k + 1) \in 0 .. MaxHeight
        /\ MaxHeight - (k + 1) < MaxHeight
        /\ (MaxHeight - (k + 1)) + 1 = MaxHeight - k
        /\ k <= MaxHeight
    BY ConditionsAssumption
  <2>2. c \in Level[MaxHeight - k]
    BY <2>1, LevelShape
  <2> QED BY <1>2, <2>1, <2>2
<1>3. MaxHeight - n \in Nat /\ MaxHeight - n <= MaxHeight /\ MaxHeight - (MaxHeight - n) = n
  BY ConditionsAssumption
<1>4. MaxHeight - n \in S
  <2> HIDE DEF S
  <2> QED BY <1>1, <1>2, <1>3, NaturalInduction
<1> QED BY <1>3, <1>4

(* A condition is a leaf, a negation or a group, of conditions.            *)
LEMMA ConditionShape ==
  ASSUME NEW c \in TargetingCondition
  PROVE  /\ IsLeafCondition(c) \/ IsNegation(c) \/ IsGroup(c)
         /\ Parts(c) \subseteq TargetingCondition
PROOF
<1>1. MaxHeight \in Nat /\ c \in Level[MaxHeight]
  BY LevelOfTargetingCondition, ConditionsAssumption
<1>2. MaxHeight > 0 => MaxHeight - 1 \in 0 .. MaxHeight
  BY <1>1
<1>3. MaxHeight > 0 => Level[MaxHeight - 1] \subseteq TargetingCondition
  BY <1>2, LevelsGrow
<1>4. /\ IsLeafCondition(c) \/ IsNegation(c) \/ IsGroup(c)
      /\ MaxHeight = 0 => Parts(c) = {}
      /\ MaxHeight > 0 => Parts(c) \subseteq Level[MaxHeight - 1]
  BY <1>1, LevelShape
<1> QED BY <1>1, <1>3, <1>4

(* Induction over conditions: what a condition has as soon as its parts    *)
(* have it, every condition has.                                           *)
LEMMA ConditionInduction ==
  ASSUME NEW S, \A c \in TargetingCondition : Parts(c) \subseteq S => c \in S
  PROVE  TargetingCondition \subseteq S
PROOF
<1> DEFINE T == {n \in Nat : n <= MaxHeight => Level[n] \subseteq S}
<1>1. 0 \in T
  <2> SUFFICES ASSUME NEW c \in Level[0], 0 \in 0 .. MaxHeight PROVE c \in S
    BY ConditionsAssumption
  <2>1. Parts(c) = {}
    BY LevelShape
  <2>2. c \in TargetingCondition
    BY LevelsGrow
  <2> QED BY <2>1, <2>2
<1>2. ASSUME NEW n \in Nat, n \in T PROVE n + 1 \in T
  <2> SUFFICES ASSUME n + 1 <= MaxHeight, NEW c \in Level[n + 1] PROVE c \in S
    OBVIOUS
  <2>1. n + 1 \in 0 .. MaxHeight /\ (n + 1) - 1 = n /\ n + 1 > 0 /\ n <= MaxHeight
    BY ConditionsAssumption
  <2>2. Parts(c) \subseteq Level[n]
    <3>1. Parts(c) \subseteq Level[(n + 1) - 1]
      BY <2>1, LevelShape
    <3> QED BY <2>1, <3>1
  <2>3. c \in TargetingCondition
    BY <2>1, LevelsGrow
  <2> QED BY <1>2, <2>1, <2>2, <2>3
<1>3. MaxHeight \in T
  <2> HIDE DEF T
  <2> QED BY <1>1, <1>2, NaturalInduction, ConditionsAssumption
<1> QED BY <1>3, LevelOfTargetingCondition, ConditionsAssumption

AnswersOf(c, request, cache) ==
  {CheckedCondition(c.of[i], request, cache) : i \in DOMAIN c.of}

(* Checking a condition is what its recursive definition says.             *)
LEMMA CheckedDefined ==
  ASSUME NEW request, NEW cache, NEW d \in TargetingCondition
  PROVE  CheckedCondition(d, request, cache) =
         IF d.kind = "leaf" THEN CheckedLeaf(d, request, cache)
         ELSE IF d.kind = "not" THEN Negated(CheckedCondition(d.of, request, cache))
         ELSE CheckedGroup(d.kind, AnswersOf(d, request, cache))
PROOF
<1> DEFINE E(g, x) ==
             IF x.kind = "leaf" THEN CheckedLeaf(x, request, cache)
             ELSE IF x.kind = "not" THEN Negated(g[x.of])
             ELSE CheckedGroup(x.kind, {g[x.of[i]] : i \in DOMAIN x.of})
           S == {n \in Nat : n <= MaxHeight => \E g : \A x \in Level[n] : g[x] = E(g, x)}
<1>1. ASSUME NEW g, NEW h, NEW x \in TargetingCondition, \A part \in Parts(x) : g[part] = h[part]
      PROVE  E(g, x) = E(h, x)
  <2>1. CASE IsLeafCondition(x)
    BY <2>1 DEF IsLeafCondition
  <2>2. CASE IsNegation(x)
    <3>1. g[x.of] = h[x.of]
      BY <1>1, <2>2 DEF IsNegation, Parts
    <3> QED BY <2>2, <3>1 DEF IsNegation
  <2>3. CASE IsGroup(x)
    <3>1. \A i \in DOMAIN x.of : g[x.of[i]] = h[x.of[i]]
      BY <1>1, <2>3 DEF IsGroup, Parts
    <3>2. {g[x.of[i]] : i \in DOMAIN x.of} = {h[x.of[i]] : i \in DOMAIN x.of}
      BY <3>1
    <3> QED BY <2>3, <3>2 DEF IsGroup
  <2> QED BY <2>1, <2>2, <2>3, ConditionShape
<1> HIDE DEF E
<1>2. 0 \in S
  <2> DEFINE g == [x \in Level[0] |-> E(<<>>, x)]
  <2> SUFFICES ASSUME 0 <= MaxHeight PROVE \A x \in Level[0] : g[x] = E(g, x)
    OBVIOUS
  <2>1. ASSUME NEW x \in Level[0] PROVE E(<<>>, x) = E(g, x)
    <3>1. Parts(x) = {} /\ x \in TargetingCondition
      BY LevelShape, LevelsGrow, ConditionsAssumption
    <3> HIDE DEF g
    <3> QED BY <1>1, <3>1
  <2> QED BY <2>1
<1>3. ASSUME NEW n \in Nat, n \in S PROVE n + 1 \in S
  <2> SUFFICES ASSUME n + 1 <= MaxHeight
               PROVE  \E h : \A x \in Level[n + 1] : h[x] = E(h, x)
    OBVIOUS
  <2>1. /\ n \in 0 .. MaxHeight /\ n + 1 \in 0 .. MaxHeight
        /\ n < MaxHeight /\ n + 1 > 0 /\ (n + 1) - 1 = n
    BY ConditionsAssumption
  <2>2. PICK g : \A x \in Level[n] : g[x] = E(g, x)
    BY <1>3, <2>1
  <2> DEFINE h == [x \in Level[n + 1] |-> E(g, x)]
  <2>3. ASSUME NEW x \in Level[n] PROVE h[x] = g[x]
    <3>1. x \in Level[n + 1]
      BY <2>1, LevelShape
    <3>2. h[x] = E(g, x)
      BY <3>1
    <3> QED BY <2>2, <3>2
  <2>4. ASSUME NEW x \in Level[n + 1] PROVE h[x] = E(h, x)
    <3>1. Parts(x) \subseteq Level[n]
      <4>1. Parts(x) \subseteq Level[(n + 1) - 1]
        BY <2>1, LevelShape
      <4> QED BY <2>1, <4>1
    <3>2. x \in TargetingCondition
      BY <2>1, LevelsGrow
    <3>3. \A part \in Parts(x) : g[part] = h[part]
      <4> HIDE DEF h
      <4> QED BY <2>3, <3>1
    <3>4. E(g, x) = E(h, x)
      <4> HIDE DEF h
      <4> QED BY <1>1, <3>2, <3>3
    <3> QED BY <3>4
  <2> HIDE DEF h
  <2> QED BY <2>4
<1>4. MaxHeight \in S
  <2> HIDE DEF S
  <2> QED BY <1>2, <1>3, NaturalInduction, ConditionsAssumption
<1>5. PICK g : \A x \in TargetingCondition : g[x] = E(g, x)
  BY <1>4, LevelOfTargetingCondition
<1> DEFINE h == [x \in TargetingCondition |-> E(g, x)]
<1>6. h = [x \in TargetingCondition |-> E(h, x)]
  <2>1. ASSUME NEW x \in TargetingCondition PROVE E(g, x) = E(h, x)
    <3>1. \A part \in Parts(x) : h[part] = g[part]
      BY <1>5, ConditionShape
    <3> HIDE DEF h
    <3> QED BY <1>1, <3>1
  <2> QED BY <2>1
<1> HIDE DEF h
<1> QED BY <1>6 DEF CheckedCondition, AnswersOf, E

(* Matching a condition is what its recursive definition says.             *)
LEMMA MatchesDefined ==
  ASSUME NEW request, NEW cache, NEW d \in TargetingCondition
  PROVE  MatchesCondition(d, request, cache) =
         IF d.kind = "leaf" THEN MatchedLeaf(d, request, cache)
         ELSE IF d.kind = "not" THEN CheckedCondition(d.of, request, cache) = FALSE
         ELSE IF d.kind = "all" THEN \A i \in DOMAIN d.of : MatchesCondition(d.of[i], request, cache)
         ELSE \E i \in DOMAIN d.of : MatchesCondition(d.of[i], request, cache)
PROOF
<1> DEFINE E(g, x) ==
             IF x.kind = "leaf" THEN MatchedLeaf(x, request, cache)
             ELSE IF x.kind = "not" THEN CheckedCondition(x.of, request, cache) = FALSE
             ELSE IF x.kind = "all" THEN \A i \in DOMAIN x.of : g[x.of[i]]
             ELSE \E i \in DOMAIN x.of : g[x.of[i]]
           S == {n \in Nat : n <= MaxHeight => \E g : \A x \in Level[n] : g[x] = E(g, x)}
<1>1. ASSUME NEW g, NEW h, NEW x \in TargetingCondition, \A part \in Parts(x) : g[part] = h[part]
      PROVE  E(g, x) = E(h, x)
  <2>1. CASE IsLeafCondition(x)
    BY <2>1 DEF IsLeafCondition
  <2>2. CASE IsNegation(x)
    <3>1. g[x.of] = h[x.of]
      BY <1>1, <2>2 DEF IsNegation, Parts
    <3> QED BY <2>2, <3>1 DEF IsNegation
  <2>3. CASE IsGroup(x)
    <3>1. \A i \in DOMAIN x.of : g[x.of[i]] = h[x.of[i]]
      BY <1>1, <2>3 DEF IsGroup, Parts
    <3> QED BY <2>3, <3>1 DEF IsGroup
  <2> QED BY <2>1, <2>2, <2>3, ConditionShape
<1> HIDE DEF E
<1>2. 0 \in S
  <2> DEFINE g == [x \in Level[0] |-> E(<<>>, x)]
  <2> SUFFICES ASSUME 0 <= MaxHeight PROVE \A x \in Level[0] : g[x] = E(g, x)
    OBVIOUS
  <2>1. ASSUME NEW x \in Level[0] PROVE E(<<>>, x) = E(g, x)
    <3>1. Parts(x) = {} /\ x \in TargetingCondition
      BY LevelShape, LevelsGrow, ConditionsAssumption
    <3> HIDE DEF g
    <3> QED BY <1>1, <3>1
  <2> QED BY <2>1
<1>3. ASSUME NEW n \in Nat, n \in S PROVE n + 1 \in S
  <2> SUFFICES ASSUME n + 1 <= MaxHeight
               PROVE  \E h : \A x \in Level[n + 1] : h[x] = E(h, x)
    OBVIOUS
  <2>1. /\ n \in 0 .. MaxHeight /\ n + 1 \in 0 .. MaxHeight
        /\ n < MaxHeight /\ n + 1 > 0 /\ (n + 1) - 1 = n
    BY ConditionsAssumption
  <2>2. PICK g : \A x \in Level[n] : g[x] = E(g, x)
    BY <1>3, <2>1
  <2> DEFINE h == [x \in Level[n + 1] |-> E(g, x)]
  <2>3. ASSUME NEW x \in Level[n] PROVE h[x] = g[x]
    <3>1. x \in Level[n + 1]
      BY <2>1, LevelShape
    <3>2. h[x] = E(g, x)
      BY <3>1
    <3> QED BY <2>2, <3>2
  <2>4. ASSUME NEW x \in Level[n + 1] PROVE h[x] = E(h, x)
    <3>1. Parts(x) \subseteq Level[n]
      <4>1. Parts(x) \subseteq Level[(n + 1) - 1]
        BY <2>1, LevelShape
      <4> QED BY <2>1, <4>1
    <3>2. x \in TargetingCondition
      BY <2>1, LevelsGrow
    <3>3. \A part \in Parts(x) : g[part] = h[part]
      <4> HIDE DEF h
      <4> QED BY <2>3, <3>1
    <3>4. E(g, x) = E(h, x)
      <4> HIDE DEF h
      <4> QED BY <1>1, <3>2, <3>3
    <3> QED BY <3>4
  <2> HIDE DEF h
  <2> QED BY <2>4
<1>4. MaxHeight \in S
  <2> HIDE DEF S
  <2> QED BY <1>2, <1>3, NaturalInduction, ConditionsAssumption
<1>5. PICK g : \A x \in TargetingCondition : g[x] = E(g, x)
  BY <1>4, LevelOfTargetingCondition
<1> DEFINE h == [x \in TargetingCondition |-> E(g, x)]
<1>6. h = [x \in TargetingCondition |-> E(h, x)]
  <2>1. ASSUME NEW x \in TargetingCondition PROVE E(g, x) = E(h, x)
    <3>1. \A part \in Parts(x) : h[part] = g[part]
      BY <1>5, ConditionShape
    <3> HIDE DEF h
    <3> QED BY <1>1, <3>1
  <2> QED BY <2>1
<1> HIDE DEF h
<1> QED BY <1>6 DEF MatchesCondition, E

(* The leaves of a condition are those of its parts.                       *)
LEMMA LeavesDefined ==
  ASSUME NEW d \in TargetingCondition
  PROVE  LeavesOf(d) =
         IF d.kind = "leaf" THEN {d}
         ELSE IF d.kind = "not" THEN LeavesOf(d.of)
         ELSE UNION {LeavesOf(d.of[i]) : i \in DOMAIN d.of}
PROOF
<1> DEFINE E(g, x) ==
             IF x.kind = "leaf" THEN {x}
             ELSE IF x.kind = "not" THEN g[x.of]
             ELSE UNION {g[x.of[i]] : i \in DOMAIN x.of}
           S == {n \in Nat : n <= MaxHeight => \E g : \A x \in Level[n] : g[x] = E(g, x)}
<1>1. ASSUME NEW g, NEW h, NEW x \in TargetingCondition, \A part \in Parts(x) : g[part] = h[part]
      PROVE  E(g, x) = E(h, x)
  <2>1. CASE IsLeafCondition(x)
    BY <2>1 DEF IsLeafCondition
  <2>2. CASE IsNegation(x)
    <3>1. g[x.of] = h[x.of]
      BY <1>1, <2>2 DEF IsNegation, Parts
    <3> QED BY <2>2, <3>1 DEF IsNegation
  <2>3. CASE IsGroup(x)
    <3>1. \A i \in DOMAIN x.of : g[x.of[i]] = h[x.of[i]]
      BY <1>1, <2>3 DEF IsGroup, Parts
    <3>2. {g[x.of[i]] : i \in DOMAIN x.of} = {h[x.of[i]] : i \in DOMAIN x.of}
      BY <3>1
    <3> QED BY <2>3, <3>2 DEF IsGroup
  <2> QED BY <2>1, <2>2, <2>3, ConditionShape
<1> HIDE DEF E
<1>2. 0 \in S
  <2> DEFINE g == [x \in Level[0] |-> E(<<>>, x)]
  <2> SUFFICES ASSUME 0 <= MaxHeight PROVE \A x \in Level[0] : g[x] = E(g, x)
    OBVIOUS
  <2>1. ASSUME NEW x \in Level[0] PROVE E(<<>>, x) = E(g, x)
    <3>1. Parts(x) = {} /\ x \in TargetingCondition
      BY LevelShape, LevelsGrow, ConditionsAssumption
    <3> HIDE DEF g
    <3> QED BY <1>1, <3>1
  <2> QED BY <2>1
<1>3. ASSUME NEW n \in Nat, n \in S PROVE n + 1 \in S
  <2> SUFFICES ASSUME n + 1 <= MaxHeight
               PROVE  \E h : \A x \in Level[n + 1] : h[x] = E(h, x)
    OBVIOUS
  <2>1. /\ n \in 0 .. MaxHeight /\ n + 1 \in 0 .. MaxHeight
        /\ n < MaxHeight /\ n + 1 > 0 /\ (n + 1) - 1 = n
    BY ConditionsAssumption
  <2>2. PICK g : \A x \in Level[n] : g[x] = E(g, x)
    BY <1>3, <2>1
  <2> DEFINE h == [x \in Level[n + 1] |-> E(g, x)]
  <2>3. ASSUME NEW x \in Level[n] PROVE h[x] = g[x]
    <3>1. x \in Level[n + 1]
      BY <2>1, LevelShape
    <3>2. h[x] = E(g, x)
      BY <3>1
    <3> QED BY <2>2, <3>2
  <2>4. ASSUME NEW x \in Level[n + 1] PROVE h[x] = E(h, x)
    <3>1. Parts(x) \subseteq Level[n]
      <4>1. Parts(x) \subseteq Level[(n + 1) - 1]
        BY <2>1, LevelShape
      <4> QED BY <2>1, <4>1
    <3>2. x \in TargetingCondition
      BY <2>1, LevelsGrow
    <3>3. \A part \in Parts(x) : g[part] = h[part]
      <4> HIDE DEF h
      <4> QED BY <2>3, <3>1
    <3>4. E(g, x) = E(h, x)
      <4> HIDE DEF h
      <4> QED BY <1>1, <3>2, <3>3
    <3> QED BY <3>4
  <2> HIDE DEF h
  <2> QED BY <2>4
<1>4. MaxHeight \in S
  <2> HIDE DEF S
  <2> QED BY <1>2, <1>3, NaturalInduction, ConditionsAssumption
<1>5. PICK g : \A x \in TargetingCondition : g[x] = E(g, x)
  BY <1>4, LevelOfTargetingCondition
<1> DEFINE h == [x \in TargetingCondition |-> E(g, x)]
<1>6. h = [x \in TargetingCondition |-> E(h, x)]
  <2>1. ASSUME NEW x \in TargetingCondition PROVE E(g, x) = E(h, x)
    <3>1. \A part \in Parts(x) : h[part] = g[part]
      BY <1>5, ConditionShape
    <3> HIDE DEF h
    <3> QED BY <1>1, <3>1
  <2> QED BY <2>1
<1> HIDE DEF h
<1> QED BY <1>6 DEF LeavesOf, E

(* Classical truth is what its recursive definition says.                  *)
LEMMA ClassicalDefined ==
  ASSUME NEW request, NEW cache, NEW d \in TargetingCondition
  PROVE  Classical(d, request, cache) =
         IF d.kind = "leaf" THEN Says(d, request, cache) = TRUE
         ELSE IF d.kind = "not" THEN ~Classical(d.of, request, cache)
         ELSE IF d.kind = "all" THEN \A i \in DOMAIN d.of : Classical(d.of[i], request, cache)
         ELSE \E i \in DOMAIN d.of : Classical(d.of[i], request, cache)
PROOF
<1> DEFINE E(g, x) ==
             IF x.kind = "leaf" THEN Says(x, request, cache) = TRUE
             ELSE IF x.kind = "not" THEN ~g[x.of]
             ELSE IF x.kind = "all" THEN \A i \in DOMAIN x.of : g[x.of[i]]
             ELSE \E i \in DOMAIN x.of : g[x.of[i]]
           S == {n \in Nat : n <= MaxHeight => \E g : \A x \in Level[n] : g[x] = E(g, x)}
<1>1. ASSUME NEW g, NEW h, NEW x \in TargetingCondition, \A part \in Parts(x) : g[part] = h[part]
      PROVE  E(g, x) = E(h, x)
  <2>1. CASE IsLeafCondition(x)
    BY <2>1 DEF IsLeafCondition
  <2>2. CASE IsNegation(x)
    <3>1. g[x.of] = h[x.of]
      BY <1>1, <2>2 DEF IsNegation, Parts
    <3> QED BY <2>2, <3>1 DEF IsNegation
  <2>3. CASE IsGroup(x)
    <3>1. \A i \in DOMAIN x.of : g[x.of[i]] = h[x.of[i]]
      BY <1>1, <2>3 DEF IsGroup, Parts
    <3> QED BY <2>3, <3>1 DEF IsGroup
  <2> QED BY <2>1, <2>2, <2>3, ConditionShape
<1> HIDE DEF E
<1>2. 0 \in S
  <2> DEFINE g == [x \in Level[0] |-> E(<<>>, x)]
  <2> SUFFICES ASSUME 0 <= MaxHeight PROVE \A x \in Level[0] : g[x] = E(g, x)
    OBVIOUS
  <2>1. ASSUME NEW x \in Level[0] PROVE E(<<>>, x) = E(g, x)
    <3>1. Parts(x) = {} /\ x \in TargetingCondition
      BY LevelShape, LevelsGrow, ConditionsAssumption
    <3> HIDE DEF g
    <3> QED BY <1>1, <3>1
  <2> QED BY <2>1
<1>3. ASSUME NEW n \in Nat, n \in S PROVE n + 1 \in S
  <2> SUFFICES ASSUME n + 1 <= MaxHeight
               PROVE  \E h : \A x \in Level[n + 1] : h[x] = E(h, x)
    OBVIOUS
  <2>1. /\ n \in 0 .. MaxHeight /\ n + 1 \in 0 .. MaxHeight
        /\ n < MaxHeight /\ n + 1 > 0 /\ (n + 1) - 1 = n
    BY ConditionsAssumption
  <2>2. PICK g : \A x \in Level[n] : g[x] = E(g, x)
    BY <1>3, <2>1
  <2> DEFINE h == [x \in Level[n + 1] |-> E(g, x)]
  <2>3. ASSUME NEW x \in Level[n] PROVE h[x] = g[x]
    <3>1. x \in Level[n + 1]
      BY <2>1, LevelShape
    <3>2. h[x] = E(g, x)
      BY <3>1
    <3> QED BY <2>2, <3>2
  <2>4. ASSUME NEW x \in Level[n + 1] PROVE h[x] = E(h, x)
    <3>1. Parts(x) \subseteq Level[n]
      <4>1. Parts(x) \subseteq Level[(n + 1) - 1]
        BY <2>1, LevelShape
      <4> QED BY <2>1, <4>1
    <3>2. x \in TargetingCondition
      BY <2>1, LevelsGrow
    <3>3. \A part \in Parts(x) : g[part] = h[part]
      <4> HIDE DEF h
      <4> QED BY <2>3, <3>1
    <3>4. E(g, x) = E(h, x)
      <4> HIDE DEF h
      <4> QED BY <1>1, <3>2, <3>3
    <3> QED BY <3>4
  <2> HIDE DEF h
  <2> QED BY <2>4
<1>4. MaxHeight \in S
  <2> HIDE DEF S
  <2> QED BY <1>2, <1>3, NaturalInduction, ConditionsAssumption
<1>5. PICK g : \A x \in TargetingCondition : g[x] = E(g, x)
  BY <1>4, LevelOfTargetingCondition
<1> DEFINE h == [x \in TargetingCondition |-> E(g, x)]
<1>6. h = [x \in TargetingCondition |-> E(h, x)]
  <2>1. ASSUME NEW x \in TargetingCondition PROVE E(g, x) = E(h, x)
    <3>1. \A part \in Parts(x) : h[part] = g[part]
      BY <1>5, ConditionShape
    <3> HIDE DEF h
    <3> QED BY <1>1, <3>1
  <2> QED BY <2>1
<1> HIDE DEF h
<1> QED BY <1>6 DEF Classical, E

(* The reference a match is compared with is what its definition says.     *)
LEMMA HoldsDefined ==
  ASSUME NEW request, NEW cache, NEW d \in TargetingCondition
  PROVE  Holds(d, request, cache) =
         IF d.kind = "leaf" THEN Says(d, request, cache) = TRUE
         ELSE IF d.kind = "not"
           THEN Readable(d.of, request, cache) /\ ~Classical(d.of, request, cache)
         ELSE IF d.kind = "all" THEN \A i \in DOMAIN d.of : Holds(d.of[i], request, cache)
         ELSE \E i \in DOMAIN d.of : Holds(d.of[i], request, cache)
PROOF
<1> DEFINE E(g, x) ==
             IF x.kind = "leaf" THEN Says(x, request, cache) = TRUE
             ELSE IF x.kind = "not"
               THEN Readable(x.of, request, cache) /\ ~Classical(x.of, request, cache)
             ELSE IF x.kind = "all" THEN \A i \in DOMAIN x.of : g[x.of[i]]
             ELSE \E i \in DOMAIN x.of : g[x.of[i]]
           S == {n \in Nat : n <= MaxHeight => \E g : \A x \in Level[n] : g[x] = E(g, x)}
<1>1. ASSUME NEW g, NEW h, NEW x \in TargetingCondition, \A part \in Parts(x) : g[part] = h[part]
      PROVE  E(g, x) = E(h, x)
  <2>1. CASE IsLeafCondition(x)
    BY <2>1 DEF IsLeafCondition
  <2>2. CASE IsNegation(x)
    <3>1. g[x.of] = h[x.of]
      BY <1>1, <2>2 DEF IsNegation, Parts
    <3> QED BY <2>2, <3>1 DEF IsNegation
  <2>3. CASE IsGroup(x)
    <3>1. \A i \in DOMAIN x.of : g[x.of[i]] = h[x.of[i]]
      BY <1>1, <2>3 DEF IsGroup, Parts
    <3> QED BY <2>3, <3>1 DEF IsGroup
  <2> QED BY <2>1, <2>2, <2>3, ConditionShape
<1> HIDE DEF E
<1>2. 0 \in S
  <2> DEFINE g == [x \in Level[0] |-> E(<<>>, x)]
  <2> SUFFICES ASSUME 0 <= MaxHeight PROVE \A x \in Level[0] : g[x] = E(g, x)
    OBVIOUS
  <2>1. ASSUME NEW x \in Level[0] PROVE E(<<>>, x) = E(g, x)
    <3>1. Parts(x) = {} /\ x \in TargetingCondition
      BY LevelShape, LevelsGrow, ConditionsAssumption
    <3> HIDE DEF g
    <3> QED BY <1>1, <3>1
  <2> QED BY <2>1
<1>3. ASSUME NEW n \in Nat, n \in S PROVE n + 1 \in S
  <2> SUFFICES ASSUME n + 1 <= MaxHeight
               PROVE  \E h : \A x \in Level[n + 1] : h[x] = E(h, x)
    OBVIOUS
  <2>1. /\ n \in 0 .. MaxHeight /\ n + 1 \in 0 .. MaxHeight
        /\ n < MaxHeight /\ n + 1 > 0 /\ (n + 1) - 1 = n
    BY ConditionsAssumption
  <2>2. PICK g : \A x \in Level[n] : g[x] = E(g, x)
    BY <1>3, <2>1
  <2> DEFINE h == [x \in Level[n + 1] |-> E(g, x)]
  <2>3. ASSUME NEW x \in Level[n] PROVE h[x] = g[x]
    <3>1. x \in Level[n + 1]
      BY <2>1, LevelShape
    <3>2. h[x] = E(g, x)
      BY <3>1
    <3> QED BY <2>2, <3>2
  <2>4. ASSUME NEW x \in Level[n + 1] PROVE h[x] = E(h, x)
    <3>1. Parts(x) \subseteq Level[n]
      <4>1. Parts(x) \subseteq Level[(n + 1) - 1]
        BY <2>1, LevelShape
      <4> QED BY <2>1, <4>1
    <3>2. x \in TargetingCondition
      BY <2>1, LevelsGrow
    <3>3. \A part \in Parts(x) : g[part] = h[part]
      <4> HIDE DEF h
      <4> QED BY <2>3, <3>1
    <3>4. E(g, x) = E(h, x)
      <4> HIDE DEF h
      <4> QED BY <1>1, <3>2, <3>3
    <3> QED BY <3>4
  <2> HIDE DEF h
  <2> QED BY <2>4
<1>4. MaxHeight \in S
  <2> HIDE DEF S
  <2> QED BY <1>2, <1>3, NaturalInduction, ConditionsAssumption
<1>5. PICK g : \A x \in TargetingCondition : g[x] = E(g, x)
  BY <1>4, LevelOfTargetingCondition
<1> DEFINE h == [x \in TargetingCondition |-> E(g, x)]
<1>6. h = [x \in TargetingCondition |-> E(h, x)]
  <2>1. ASSUME NEW x \in TargetingCondition PROVE E(g, x) = E(h, x)
    <3>1. \A part \in Parts(x) : h[part] = g[part]
      BY <1>5, ConditionShape
    <3> HIDE DEF h
    <3> QED BY <1>1, <3>1
  <2> QED BY <2>1
<1> HIDE DEF h
<1> QED BY <1>6 DEF Holds, E

(* Capturing a condition captures its parts.                               *)
LEMMA CapturedDefined ==
  ASSUME NEW d \in TargetingCondition
  PROVE  Captured(d) =
         IF d.kind = "leaf" THEN CapturedLeaf(d)
         ELSE IF d.kind = "not" THEN [d EXCEPT !.of = Captured(d.of)]
         ELSE [d EXCEPT !.of = [i \in DOMAIN d.of |-> Captured(d.of[i])]]
PROOF
<1> DEFINE E(g, x) ==
             IF x.kind = "leaf" THEN CapturedLeaf(x)
             ELSE IF x.kind = "not" THEN [x EXCEPT !.of = g[x.of]]
             ELSE [x EXCEPT !.of = [i \in DOMAIN x.of |-> g[x.of[i]]]]
           S == {n \in Nat : n <= MaxHeight => \E g : \A x \in Level[n] : g[x] = E(g, x)}
<1>1. ASSUME NEW g, NEW h, NEW x \in TargetingCondition, \A part \in Parts(x) : g[part] = h[part]
      PROVE  E(g, x) = E(h, x)
  <2>1. CASE IsLeafCondition(x)
    BY <2>1 DEF IsLeafCondition
  <2>2. CASE IsNegation(x)
    <3>1. g[x.of] = h[x.of]
      BY <1>1, <2>2 DEF IsNegation, Parts
    <3> QED BY <2>2, <3>1 DEF IsNegation
  <2>3. CASE IsGroup(x)
    <3>1. \A i \in DOMAIN x.of : g[x.of[i]] = h[x.of[i]]
      BY <1>1, <2>3 DEF IsGroup, Parts
    <3>2. [i \in DOMAIN x.of |-> g[x.of[i]]] = [i \in DOMAIN x.of |-> h[x.of[i]]]
      BY <3>1
    <3> QED BY <2>3, <3>2 DEF IsGroup
  <2> QED BY <2>1, <2>2, <2>3, ConditionShape
<1> HIDE DEF E
<1>2. 0 \in S
  <2> DEFINE g == [x \in Level[0] |-> E(<<>>, x)]
  <2> SUFFICES ASSUME 0 <= MaxHeight PROVE \A x \in Level[0] : g[x] = E(g, x)
    OBVIOUS
  <2>1. ASSUME NEW x \in Level[0] PROVE E(<<>>, x) = E(g, x)
    <3>1. Parts(x) = {} /\ x \in TargetingCondition
      BY LevelShape, LevelsGrow, ConditionsAssumption
    <3> HIDE DEF g
    <3> QED BY <1>1, <3>1
  <2> QED BY <2>1
<1>3. ASSUME NEW n \in Nat, n \in S PROVE n + 1 \in S
  <2> SUFFICES ASSUME n + 1 <= MaxHeight
               PROVE  \E h : \A x \in Level[n + 1] : h[x] = E(h, x)
    OBVIOUS
  <2>1. /\ n \in 0 .. MaxHeight /\ n + 1 \in 0 .. MaxHeight
        /\ n < MaxHeight /\ n + 1 > 0 /\ (n + 1) - 1 = n
    BY ConditionsAssumption
  <2>2. PICK g : \A x \in Level[n] : g[x] = E(g, x)
    BY <1>3, <2>1
  <2> DEFINE h == [x \in Level[n + 1] |-> E(g, x)]
  <2>3. ASSUME NEW x \in Level[n] PROVE h[x] = g[x]
    <3>1. x \in Level[n + 1]
      BY <2>1, LevelShape
    <3>2. h[x] = E(g, x)
      BY <3>1
    <3> QED BY <2>2, <3>2
  <2>4. ASSUME NEW x \in Level[n + 1] PROVE h[x] = E(h, x)
    <3>1. Parts(x) \subseteq Level[n]
      <4>1. Parts(x) \subseteq Level[(n + 1) - 1]
        BY <2>1, LevelShape
      <4> QED BY <2>1, <4>1
    <3>2. x \in TargetingCondition
      BY <2>1, LevelsGrow
    <3>3. \A part \in Parts(x) : g[part] = h[part]
      <4> HIDE DEF h
      <4> QED BY <2>3, <3>1
    <3>4. E(g, x) = E(h, x)
      <4> HIDE DEF h
      <4> QED BY <1>1, <3>2, <3>3
    <3> QED BY <3>4
  <2> HIDE DEF h
  <2> QED BY <2>4
<1>4. MaxHeight \in S
  <2> HIDE DEF S
  <2> QED BY <1>2, <1>3, NaturalInduction, ConditionsAssumption
<1>5. PICK g : \A x \in TargetingCondition : g[x] = E(g, x)
  BY <1>4, LevelOfTargetingCondition
<1> DEFINE h == [x \in TargetingCondition |-> E(g, x)]
<1>6. h = [x \in TargetingCondition |-> E(h, x)]
  <2>1. ASSUME NEW x \in TargetingCondition PROVE E(g, x) = E(h, x)
    <3>1. \A part \in Parts(x) : h[part] = g[part]
      BY <1>5, ConditionShape
    <3> HIDE DEF h
    <3> QED BY <1>1, <3>1
  <2> QED BY <2>1
<1> HIDE DEF h
<1> QED BY <1>6 DEF Captured, E

(* The text of a condition is that of its parts.                           *)
LEMMA PlainDefined ==
  ASSUME NEW d \in TargetingCondition
  PROVE  Plain(d) =
         IF d.kind = "leaf" THEN PlainLeaf(d)
         ELSE IF d.kind = "not" THEN [d EXCEPT !.of = Plain(d.of)]
         ELSE [d EXCEPT !.of = [i \in DOMAIN d.of |-> Plain(d.of[i])]]
PROOF
<1> DEFINE E(g, x) ==
             IF x.kind = "leaf" THEN PlainLeaf(x)
             ELSE IF x.kind = "not" THEN [x EXCEPT !.of = g[x.of]]
             ELSE [x EXCEPT !.of = [i \in DOMAIN x.of |-> g[x.of[i]]]]
           S == {n \in Nat : n <= MaxHeight => \E g : \A x \in Level[n] : g[x] = E(g, x)}
<1>1. ASSUME NEW g, NEW h, NEW x \in TargetingCondition, \A part \in Parts(x) : g[part] = h[part]
      PROVE  E(g, x) = E(h, x)
  <2>1. CASE IsLeafCondition(x)
    BY <2>1 DEF IsLeafCondition
  <2>2. CASE IsNegation(x)
    <3>1. g[x.of] = h[x.of]
      BY <1>1, <2>2 DEF IsNegation, Parts
    <3> QED BY <2>2, <3>1 DEF IsNegation
  <2>3. CASE IsGroup(x)
    <3>1. \A i \in DOMAIN x.of : g[x.of[i]] = h[x.of[i]]
      BY <1>1, <2>3 DEF IsGroup, Parts
    <3>2. [i \in DOMAIN x.of |-> g[x.of[i]]] = [i \in DOMAIN x.of |-> h[x.of[i]]]
      BY <3>1
    <3> QED BY <2>3, <3>2 DEF IsGroup
  <2> QED BY <2>1, <2>2, <2>3, ConditionShape
<1> HIDE DEF E
<1>2. 0 \in S
  <2> DEFINE g == [x \in Level[0] |-> E(<<>>, x)]
  <2> SUFFICES ASSUME 0 <= MaxHeight PROVE \A x \in Level[0] : g[x] = E(g, x)
    OBVIOUS
  <2>1. ASSUME NEW x \in Level[0] PROVE E(<<>>, x) = E(g, x)
    <3>1. Parts(x) = {} /\ x \in TargetingCondition
      BY LevelShape, LevelsGrow, ConditionsAssumption
    <3> HIDE DEF g
    <3> QED BY <1>1, <3>1
  <2> QED BY <2>1
<1>3. ASSUME NEW n \in Nat, n \in S PROVE n + 1 \in S
  <2> SUFFICES ASSUME n + 1 <= MaxHeight
               PROVE  \E h : \A x \in Level[n + 1] : h[x] = E(h, x)
    OBVIOUS
  <2>1. /\ n \in 0 .. MaxHeight /\ n + 1 \in 0 .. MaxHeight
        /\ n < MaxHeight /\ n + 1 > 0 /\ (n + 1) - 1 = n
    BY ConditionsAssumption
  <2>2. PICK g : \A x \in Level[n] : g[x] = E(g, x)
    BY <1>3, <2>1
  <2> DEFINE h == [x \in Level[n + 1] |-> E(g, x)]
  <2>3. ASSUME NEW x \in Level[n] PROVE h[x] = g[x]
    <3>1. x \in Level[n + 1]
      BY <2>1, LevelShape
    <3>2. h[x] = E(g, x)
      BY <3>1
    <3> QED BY <2>2, <3>2
  <2>4. ASSUME NEW x \in Level[n + 1] PROVE h[x] = E(h, x)
    <3>1. Parts(x) \subseteq Level[n]
      <4>1. Parts(x) \subseteq Level[(n + 1) - 1]
        BY <2>1, LevelShape
      <4> QED BY <2>1, <4>1
    <3>2. x \in TargetingCondition
      BY <2>1, LevelsGrow
    <3>3. \A part \in Parts(x) : g[part] = h[part]
      <4> HIDE DEF h
      <4> QED BY <2>3, <3>1
    <3>4. E(g, x) = E(h, x)
      <4> HIDE DEF h
      <4> QED BY <1>1, <3>2, <3>3
    <3> QED BY <3>4
  <2> HIDE DEF h
  <2> QED BY <2>4
<1>4. MaxHeight \in S
  <2> HIDE DEF S
  <2> QED BY <1>2, <1>3, NaturalInduction, ConditionsAssumption
<1>5. PICK g : \A x \in TargetingCondition : g[x] = E(g, x)
  BY <1>4, LevelOfTargetingCondition
<1> DEFINE h == [x \in TargetingCondition |-> E(g, x)]
<1>6. h = [x \in TargetingCondition |-> E(h, x)]
  <2>1. ASSUME NEW x \in TargetingCondition PROVE E(g, x) = E(h, x)
    <3>1. \A part \in Parts(x) : h[part] = g[part]
      BY <1>5, ConditionShape
    <3> HIDE DEF h
    <3> QED BY <1>1, <3>1
  <2> QED BY <2>1
<1> HIDE DEF h
<1> QED BY <1>6 DEF Plain, E

(* What was parsed is what the operand it was read with parses to.         *)
CacheSound(cache) ==
  \A id \in Conditions :
    cache[id] # Undefined => cache[id].parsed = StrictVersion(cache[id].value)

(* A leaf, indexed or not, is that of a text, with an index of its         *)
(* operand.                                                                *)
LEMMA LeafFacts ==
  ASSUME NEW leaf \in Leaves \cup IndexedLeaves
  PROVE  /\ IsLeaf(PlainLeaf(leaf))
         /\ PlainLeaf(leaf).op = leaf.op /\ PlainLeaf(leaf).path = leaf.path
         /\ PlainLeaf(leaf).operand = leaf.operand /\ PlainLeaf(leaf).id = leaf.id
         /\ PlainLeaf(leaf).index = Undefined
         /\ leaf.kind = "leaf" /\ leaf.id \in Conditions /\ leaf.op \in Operators
         /\ leaf.op = "exists" => leaf.operand \in BOOLEAN
         /\ leaf.op = "eq" => IsValue(leaf.operand)
         /\ leaf.op = "in" => \A i \in DOMAIN leaf.operand : IsValue(leaf.operand[i])
         /\ leaf.index # Undefined =>
              /\ leaf.op = "in"
              /\ \A i \in DOMAIN leaf.operand : BoundedScalar(leaf.operand[i])
              /\ leaf.index = [values |-> ToSet(leaf.operand),
                               types |-> {value.type : value \in ToSet(leaf.operand)}]
PROOF
<1>1. CASE leaf \in Leaves
  <2>1. IsLeaf(leaf)
    BY <1>1, ConditionsAssumption
  <2> QED BY <2>1 DEF IsLeaf, PlainLeaf
<1>2. CASE leaf \in IndexedLeaves
  <2>1. PICK l \in Leaves : /\ l.op = "in"
                            /\ \A i \in DOMAIN l.operand : BoundedScalar(l.operand[i])
                            /\ leaf = [l EXCEPT !.index = CaptureConditionValues(l.operand)]
    BY <1>2 DEF IndexedLeaves
  <2>2. IsLeaf(l)
    BY ConditionsAssumption
  <2>3. leaf = [kind |-> "leaf", id |-> l.id, path |-> l.path, op |-> l.op,
                operand |-> l.operand, index |-> CaptureConditionValues(l.operand)]
    BY <2>1, <2>2 DEF IsLeaf
  <2>4. PlainLeaf(leaf) = l
    BY <2>2, <2>3 DEF IsLeaf, PlainLeaf
  <2>5. /\ leaf.op = "in" /\ leaf.id = l.id /\ leaf.path = l.path /\ leaf.operand = l.operand
        /\ leaf.kind = "leaf" /\ leaf.index = CaptureConditionValues(l.operand) /\ l.index = Undefined
    BY <2>1, <2>2, <2>3 DEF IsLeaf
  <2>6. leaf.index # Undefined => 
         leaf.index = [values |-> ToSet(leaf.operand),
                               types |-> {value.type : value \in ToSet(leaf.operand)}]
    BY <2>5 DEF CaptureConditionValues
  <2> QED BY <2>1, <2>2, <2>4, <2>5, <2>6 DEF IsLeaf
<1> QED BY <1>1, <1>2

(* Without its index a leaf is one of a text.                              *)
LEMMA UnindexedIsLeaf ==
  ASSUME NEW leaf \in Leaves \cup IndexedLeaves
  PROVE  PlainLeaf(leaf) \in Leaves
PROOF
<1>1. CASE leaf \in Leaves
  <2>1. IsLeaf(leaf)
    BY <1>1, ConditionsAssumption
  <2>2. PlainLeaf(leaf) = leaf
    BY <2>1 DEF IsLeaf, PlainLeaf
  <2> QED BY <1>1, <2>2
<1>2. CASE leaf \in IndexedLeaves
  <2>1. PICK l \in Leaves : leaf = [l EXCEPT !.index = CaptureConditionValues(l.operand)]
    BY <1>2 DEF IndexedLeaves
  <2>2. IsLeaf(l)
    BY ConditionsAssumption
  <2>3. leaf = [kind |-> "leaf", id |-> l.id, path |-> l.path, op |-> l.op,
                operand |-> l.operand, index |-> CaptureConditionValues(l.operand)]
    BY <2>1, <2>2 DEF IsLeaf
  <2>4. PlainLeaf(leaf) = l
    BY <2>2, <2>3 DEF IsLeaf, PlainLeaf
  <2> QED BY <2>4
<1> QED BY <1>1, <1>2

(* What the validator makes of a leaf it accepts is an indexed leaf.       *)
LEMMA CapturedLeaves ==
  ASSUME NEW leaf \in Leaves \cup IndexedLeaves, ValidLeaf(leaf)
  PROVE  CapturedLeaf(leaf) \in Leaves \cup IndexedLeaves
PROOF
<1>1. CASE leaf.op # "in"
  BY <1>1 DEF CapturedLeaf
<1>2. CASE leaf.op = "in"
  <2> DEFINE plain == PlainLeaf(leaf)
  <2>1. plain \in Leaves /\ plain.op = "in" /\ plain.operand = leaf.operand
    BY <1>2, LeafFacts, UnindexedIsLeaf
  <2>2. \A i \in DOMAIN leaf.operand : BoundedScalar(leaf.operand[i])
    BY <1>2 DEF ValidLeaf, ConditionScalar, NumberOps, StringOps, VersionOps
  <2>3. CapturedLeaf(leaf) = [plain EXCEPT !.index = CaptureConditionValues(plain.operand)]
    BY <1>2, <2>1 DEF CapturedLeaf, PlainLeaf
  <2> HIDE DEF plain
  <2> QED BY <2>1, <2>2, <2>3 DEF IndexedLeaves
<1> QED BY <1>1, <1>2

(* An index answers as the operand it was made of.                         *)
LEMMA IndexAgrees ==
  ASSUME NEW leaf \in Leaves \cup IndexedLeaves, leaf.op = "in", NEW actual
  PROVE  /\ Member(leaf, actual) <=> Member(PlainLeaf(leaf), actual)
         /\ SomeOfItsType(leaf, actual) <=> SomeOfItsType(PlainLeaf(leaf), actual)
PROOF
<1> DEFINE plain == PlainLeaf(leaf)
<1>1. CASE leaf.index = Undefined
  BY <1>1, LeafFacts DEF Member, SomeOfItsType
<1>2. CASE leaf.index # Undefined
  <2>1. /\ \A i \in DOMAIN leaf.operand : BoundedScalar(leaf.operand[i]) /\ IsValue(leaf.operand[i])
        /\ leaf.index.values = {leaf.operand[i] : i \in DOMAIN leaf.operand}
        /\ leaf.index.types = {value.type : value \in {leaf.operand[i] : i \in DOMAIN leaf.operand}}
        /\ plain.index = Undefined /\ plain.operand = leaf.operand
    <3>1. leaf.index = [values |-> ToSet(leaf.operand),
                        types |-> {value.type : value \in ToSet(leaf.operand)}]
      BY <1>2, LeafFacts
    <3>2. ToSet(leaf.operand) = {leaf.operand[i] : i \in DOMAIN leaf.operand}
      BY DEF ToSet
    <3>3. \A i \in DOMAIN leaf.operand : BoundedScalar(leaf.operand[i]) /\ IsValue(leaf.operand[i])
      BY <1>2, LeafFacts
    <3>4. plain.index = Undefined /\ plain.operand = leaf.operand
      BY LeafFacts
    <3> QED BY <3>1, <3>2, <3>3, <3>4
  <2>2. \A i \in DOMAIN leaf.operand : Identical(leaf.operand[i], actual) <=> leaf.operand[i] = actual
    BY <2>1, ConditionsAssumption DEF BoundedScalar, IsValue, ValueTypes, Identical
  <2>3. Member(leaf, actual) <=> (actual \in leaf.index.values)
    BY <1>2 DEF Member
  <2>4. Member(plain, actual) <=> (\E i \in DOMAIN leaf.operand : Identical(leaf.operand[i], actual))
    BY <2>1 DEF Member
  <2>5. SomeOfItsType(leaf, actual) <=> (actual.type \in leaf.index.types)
    BY <1>2 DEF SomeOfItsType
  <2>6. SomeOfItsType(plain, actual) <=> (\E i \in DOMAIN leaf.operand : leaf.operand[i].type = actual.type)
    BY <2>1 DEF SomeOfItsType
  <2>7. (actual \in leaf.index.values) <=> \E i \in DOMAIN leaf.operand : Identical(leaf.operand[i], actual)
    BY <2>1, <2>2
  <2>8. (actual.type \in leaf.index.types) <=> \E i \in DOMAIN leaf.operand : leaf.operand[i].type = actual.type
    BY <2>1
  <2> HIDE DEF plain
  <2> QED BY <2>3, <2>4, <2>5, <2>6, <2>7, <2>8 DEF plain
<1> QED BY <1>1, <1>2

(* A version operand kept for a condition is used only for the text it     *)
(* has.                                                                    *)
LEMMA OperandParsed ==
  ASSUME NEW leaf \in Leaves \cup IndexedLeaves, NEW cache, CacheSound(cache)
  PROVE  OperandVersion(leaf, cache) = StrictVersion(leaf.operand.v)
PROOF
BY LeafFacts DEF CacheSound, OperandVersion

(* An empty cache is sound.                                                *)
LEMMA NothingCached ==
  CacheSound(NoOperands)
PROOF
BY DEF CacheSound, NoOperands

(* A leaf matches alike with and without its index and its cached operand. *)
LEMMA BooleanLeaves ==
  ASSUME NEW leaf, NEW actual, NEW cache
  PROVE  MatchesLeaf(leaf, actual, cache) \in BOOLEAN /\ Comparable(leaf, actual, cache) \in BOOLEAN
PROOF
<1>1. MatchesLeaf(leaf, actual, cache) \in BOOLEAN
  BY DEF MatchesLeaf
<1>2. Comparable(leaf, actual, cache) \in BOOLEAN
  BY DEF Comparable
<1> QED BY <1>1, <1>2

(* Neither an index nor a sound cache changes what a leaf says of a        *)
(* value.                                                                  *)
LEMMA LeafMatchesAlike ==
  ASSUME NEW leaf \in Leaves \cup IndexedLeaves, leaf.op # "exists",
         NEW actual, NEW cache, CacheSound(cache)
  PROVE  /\ MatchesLeaf(leaf, actual, cache) <=> MatchesLeaf(PlainLeaf(leaf), actual, NoOperands)
         /\ Comparable(leaf, actual, cache) <=> Comparable(PlainLeaf(leaf), actual, NoOperands)
PROOF
<1> DEFINE plain == PlainLeaf(leaf)
<1>1. plain.op = leaf.op /\ plain.operand = leaf.operand /\ plain.id = leaf.id
  BY LeafFacts
<1>2. OperandVersion(leaf, cache) = OperandVersion(plain, NoOperands)
  <2>1. OperandVersion(leaf, cache) = StrictVersion(leaf.operand.v)
    BY OperandParsed
  <2>2. OperandVersion(plain, NoOperands) = StrictVersion(plain.operand.v)
    BY <1>1, LeafFacts DEF OperandVersion, NoOperands
  <2> QED BY <1>1, <2>1, <2>2
<1>3. leaf.op = "in" => /\ Member(leaf, actual) <=> Member(plain, actual)
                        /\ SomeOfItsType(leaf, actual) <=> SomeOfItsType(plain, actual)
  BY IndexAgrees
<1> HIDE DEF plain
<1>4. MatchesLeaf(leaf, actual, cache) <=> MatchesLeaf(plain, actual, NoOperands)
  BY <1>1, <1>2, <1>3 DEF MatchesLeaf
<1>5. Comparable(leaf, actual, cache) <=> Comparable(plain, actual, NoOperands)
  BY <1>1, <1>2, <1>3 DEF Comparable
<1> QED BY <1>4, <1>5 DEF plain

(* What cannot be compared does not match.                                 *)
LEMMA UnreadableLeaf ==
  ASSUME NEW leaf \in Leaves \cup IndexedLeaves, NEW actual,
         ~BoundedScalar(actual) \/ ~Comparable(PlainLeaf(leaf), actual, NoOperands),
         actual \notin {Missing, InvalidAttribute}
  PROVE  ~MatchesLeaf(PlainLeaf(leaf), actual, NoOperands)
PROOF
<1> DEFINE plain == PlainLeaf(leaf)
<1>1. /\ plain.op = "eq" => IsValue(plain.operand)
      /\ plain.op = "in" => \A i \in DOMAIN plain.operand : IsValue(plain.operand[i])
      /\ plain.index = Undefined
  BY LeafFacts
<1> HIDE DEF plain
<1> SUFFICES ASSUME MatchesLeaf(plain, actual, NoOperands) PROVE FALSE
  BY DEF plain
<1>2. ~(OfType(actual, "string") /\ actual.v \in LongStrings)
  BY DEF MatchesLeaf
<1>3. CASE plain.op = "eq" /\ Identical(plain.operand, actual)
  <2>1. actual = plain.operand /\ actual # Undefined /\ actual.type \in ValueTypes
    BY <1>1, <1>3 DEF Identical, IsValue
  <2>2. BoundedScalar(actual)
    BY <1>2, <1>3, <2>1 DEF BoundedScalar, Identical, ValueTypes, OfType
  <2>3. Comparable(plain, actual, NoOperands)
    BY <1>3, <2>1 DEF Comparable
  <2> QED BY <2>2, <2>3 DEF plain
<1>4. CASE plain.op = "in" /\ Member(plain, actual)
  <2>1. PICK i \in DOMAIN plain.operand : Identical(plain.operand[i], actual)
    BY <1>1, <1>4 DEF Member
  <2>2. actual = plain.operand[i] /\ actual # Undefined /\ actual.type \in ValueTypes
    BY <1>1, <1>4, <2>1 DEF Identical, IsValue
  <2>3. BoundedScalar(actual)
    BY <1>2, <2>1, <2>2 DEF BoundedScalar, Identical, ValueTypes, OfType
  <2>4. Comparable(plain, actual, NoOperands)
    BY <1>1, <1>4, <2>2 DEF Comparable, SomeOfItsType
  <2> QED BY <2>3, <2>4 DEF plain
<1>5. CASE plain.op \in StringOps /\ OfType(actual, "string")
  <2>1. BoundedScalar(actual) /\ Comparable(plain, actual, NoOperands)
    BY <1>2, <1>5 DEF BoundedScalar, OfType, Comparable
  <2> QED BY <2>1 DEF plain
<1>6. CASE plain.op \in NumberOps /\ OfType(actual, "number") /\ actual.v # NotFinite
  <2>1. BoundedScalar(actual) /\ Comparable(plain, actual, NoOperands)
    BY <1>2, <1>6 DEF BoundedScalar, OfType, Comparable
  <2> QED BY <2>1 DEF plain
<1>7. CASE /\ plain.op \in VersionOps /\ OfType(actual, "string")
           /\ StrictVersion(actual.v) # Undefined /\ OperandVersion(plain, NoOperands) # Undefined
  <2>1. BoundedScalar(actual) /\ Comparable(plain, actual, NoOperands)
    BY <1>2, <1>7 DEF BoundedScalar, OfType, Comparable
  <2> QED BY <2>1 DEF plain
<1> QED BY <1>3, <1>4, <1>5, <1>6, <1>7 DEF MatchesLeaf, StringOps

(* A leaf is answered as its operand reads, and matches if the answer is   *)
(* that it holds.                                                          *)
LEMMA LeafAnswers ==
  ASSUME NEW leaf \in Leaves \cup IndexedLeaves, NEW request, NEW cache, CacheSound(cache)
  PROVE  /\ Says(leaf, request, NoOperands) \in BOOLEAN \cup {Undefined}
         /\ CheckedLeaf(leaf, request, cache) = Says(leaf, request, NoOperands)
         /\ MatchedLeaf(leaf, request, cache) <=> Says(leaf, request, NoOperands) = TRUE
PROOF
<1> DEFINE plain == PlainLeaf(leaf)
           actual == ReadCheckedAttribute(leaf.path, request)
<1>1. /\ plain.op = leaf.op /\ plain.path = leaf.path /\ plain.operand = leaf.operand
      /\ leaf.op = "exists" => leaf.operand \in BOOLEAN
  BY LeafFacts
<1>2. Says(leaf, request, NoOperands) = CheckedLeaf(plain, request, NoOperands)
  BY DEF Says
<1>3. CASE leaf.op = "exists"
  <2>1. CheckedLeaf(plain, request, NoOperands) = Presence(actual, leaf.operand)
    BY <1>1, <1>3 DEF CheckedLeaf
  <2>2. CheckedLeaf(leaf, request, cache) = Presence(actual, leaf.operand)
    BY <1>3 DEF CheckedLeaf
  <2>3. Presence(actual, leaf.operand) \in BOOLEAN \cup {Undefined}
    BY <1>1, <1>3 DEF Presence
  <2>4. MatchedLeaf(leaf, request, cache) <=> Presence(actual, leaf.operand) = TRUE
    BY <1>3 DEF MatchedLeaf
  <2> QED BY <1>2, <2>1, <2>2, <2>3, <2>4
<1>4. CASE leaf.op # "exists"
  <2>1. ASSUME NEW a
        PROVE  /\ MatchesLeaf(leaf, a, cache) = MatchesLeaf(plain, a, NoOperands)
               /\ MatchesLeaf(plain, a, NoOperands) \in BOOLEAN
               /\ Comparable(leaf, a, cache) = Comparable(plain, a, NoOperands)
    <3>1. /\ MatchesLeaf(leaf, a, cache) <=> MatchesLeaf(plain, a, NoOperands)
          /\ Comparable(leaf, a, cache) <=> Comparable(plain, a, NoOperands)
      BY <1>4, LeafMatchesAlike
    <3>2. /\ MatchesLeaf(leaf, a, cache) \in BOOLEAN /\ MatchesLeaf(plain, a, NoOperands) \in BOOLEAN
          /\ Comparable(leaf, a, cache) \in BOOLEAN /\ Comparable(plain, a, NoOperands) \in BOOLEAN
      BY BooleanLeaves
    <3> HIDE DEF plain
    <3> QED BY <3>1, <3>2
  <2>2. MatchedLeaf(leaf, request, cache) = MatchesLeaf(plain, ReadAttribute(leaf.path, request), NoOperands)
    <3>1. MatchedLeaf(leaf, request, cache) = MatchesLeaf(leaf, ReadAttribute(leaf.path, request), cache)
      BY <1>4 DEF MatchedLeaf
    <3> QED BY <2>1, <3>1
  <2>3. ReadAttribute(leaf.path, request) =
          IF actual \in {Missing, InvalidAttribute} THEN Undefined ELSE actual
    BY DEF ReadAttribute
  <2>4. CheckedLeaf(leaf, request, cache) =
          IF BoundedScalar(actual) /\ Comparable(plain, actual, NoOperands)
            THEN MatchesLeaf(plain, actual, NoOperands) ELSE Undefined
    <3>1. CheckedLeaf(leaf, request, cache) =
          IF BoundedScalar(actual) /\ Comparable(leaf, actual, cache)
            THEN MatchesLeaf(leaf, actual, cache) ELSE Undefined
      BY <1>4 DEF CheckedLeaf
    <3> HIDE DEF plain, actual
    <3> QED BY <2>1, <3>1
  <2>5. CheckedLeaf(plain, request, NoOperands) =
          IF BoundedScalar(actual) /\ Comparable(plain, actual, NoOperands)
            THEN MatchesLeaf(plain, actual, NoOperands) ELSE Undefined
    BY <1>1, <1>4 DEF CheckedLeaf
  <2>6. CASE BoundedScalar(actual) /\ Comparable(plain, actual, NoOperands)
    <3>1. ReadAttribute(leaf.path, request) = actual
      BY <2>3, <2>6 DEF BoundedScalar
    <3> HIDE DEF plain, actual
    <3> QED BY <1>2, <2>1, <2>2, <2>4, <2>5, <2>6, <3>1
  <2>7. CASE ~(BoundedScalar(actual) /\ Comparable(plain, actual, NoOperands))
    <3>1. ~MatchesLeaf(plain, ReadAttribute(leaf.path, request), NoOperands)
      <4>1. CASE actual \in {Missing, InvalidAttribute}
        <5>1. ReadAttribute(leaf.path, request) = Undefined /\ ~BoundedScalar(Undefined)
          BY <2>3, <4>1 DEF BoundedScalar
        <5>2. Undefined \notin {Missing, InvalidAttribute} => ~MatchesLeaf(plain, Undefined, NoOperands)
          BY <5>1, UnreadableLeaf
        <5> QED BY <5>1, <5>2, ConditionsAssumption
      <4>2. CASE actual \notin {Missing, InvalidAttribute}
        BY <2>3, <2>7, <4>2, UnreadableLeaf
      <4> QED BY <4>1, <4>2
    <3>2. CheckedLeaf(leaf, request, cache) = Undefined /\ CheckedLeaf(plain, request, NoOperands) = Undefined
      <4> HIDE DEF plain, actual
      <4> QED BY <2>4, <2>5, <2>7
    <3> HIDE DEF plain, actual
    <3> QED BY <1>2, <2>2, <3>1, <3>2, ConditionsAssumption
  <2> HIDE DEF plain, actual
  <2> QED BY <2>6, <2>7
<1> QED BY <1>3, <1>4

(* A condition is readable if its parts are.                               *)
LEMMA ReadableDefined ==
  ASSUME NEW request, NEW cache, NEW c \in TargetingCondition
  PROVE  /\ IsLeafCondition(c) =>
              (Readable(c, request, cache) <=> Says(c, request, cache) # Undefined)
         /\ IsNegation(c) => (Readable(c, request, cache) <=> Readable(c.of, request, cache))
         /\ IsGroup(c) =>
              (Readable(c, request, cache) <=> \A i \in DOMAIN c.of : Readable(c.of[i], request, cache))
PROOF
<1>1. CASE IsLeafCondition(c)
  <2>1. LeavesOf(c) = {c}
    BY <1>1, LeavesDefined DEF IsLeafCondition
  <2> QED BY <1>1, <2>1 DEF Readable, IsNegation, IsGroup, IsLeafCondition
<1>2. CASE IsNegation(c)
  <2>1. LeavesOf(c) = LeavesOf(c.of)
    BY <1>2, LeavesDefined DEF IsNegation
  <2> QED BY <1>2, <2>1 DEF Readable, IsNegation, IsGroup, IsLeafCondition
<1>3. CASE IsGroup(c)
  <2>1. LeavesOf(c) = UNION {LeavesOf(c.of[i]) : i \in DOMAIN c.of}
    BY <1>3, LeavesDefined DEF IsGroup
  <2>2. \A leaf : leaf \in LeavesOf(c) <=> \E i \in DOMAIN c.of : leaf \in LeavesOf(c.of[i])
    BY <2>1
  <2>3. Readable(c, request, cache) <=> \A i \in DOMAIN c.of : Readable(c.of[i], request, cache)
    BY <2>2 DEF Readable
  <2> QED BY <1>3, <2>3 DEF IsNegation, IsGroup, IsLeafCondition
<1> QED BY <1>1, <1>2, <1>3, ConditionShape

(* The two-valued readings of a condition are two-valued.                  *)
LEMMA BooleanConditions ==
  ASSUME NEW request, NEW cache, NEW c \in TargetingCondition
  PROVE  /\ Classical(c, request, cache) \in BOOLEAN
         /\ Holds(c, request, cache) \in BOOLEAN
         /\ Readable(c, request, cache) \in BOOLEAN
         /\ MatchesCondition(c, request, cache) \in BOOLEAN
PROOF
<1>0. Readable(c, request, cache) \in BOOLEAN
  BY DEF Readable
<1>1. Classical(c, request, cache) \in BOOLEAN
  <2>1. CASE IsLeafCondition(c)
    BY <2>1, ClassicalDefined DEF IsLeafCondition
  <2>2. CASE IsNegation(c)
    <3>1. Classical(c, request, cache) = ~Classical(c.of, request, cache)
      BY <2>2, ClassicalDefined DEF IsNegation
    <3> QED BY <3>1
  <2>3. CASE IsGroup(c)
    BY <2>3, ClassicalDefined DEF IsGroup
  <2> QED BY <2>1, <2>2, <2>3, ConditionShape
<1>2. Holds(c, request, cache) \in BOOLEAN
  BY HoldsDefined
<1>3. MatchesCondition(c, request, cache) \in BOOLEAN
  <2>1. MatchedLeaf(c, request, cache) \in BOOLEAN
    BY BooleanLeaves DEF MatchedLeaf
  <2> QED BY <2>1, MatchesDefined
<1> QED BY <1>0, <1>1, <1>2, <1>3

(* A checked condition is undefined exactly if something below it cannot   *)
(* be read, and otherwise classically true or false.                       *)
LEMMA CheckedMeaning ==
  ASSUME NEW request, NEW cache, CacheSound(cache), NEW c \in TargetingCondition
  PROVE  CheckedCondition(c, request, cache) =
           IF Readable(c, request, NoOperands) THEN Classical(c, request, NoOperands) ELSE Undefined
PROOF
<1> DEFINE checked(d) == CheckedCondition(d, request, cache)
           readable(d) == Readable(d, request, NoOperands)
           truth(d) == Classical(d, request, NoOperands)
           S == {d \in TargetingCondition : checked(d) = IF readable(d) THEN truth(d) ELSE Undefined}
<1>1. ASSUME NEW d \in TargetingCondition, Parts(d) \subseteq S PROVE d \in S
  <2>0. truth(d) \in BOOLEAN /\ \A part \in Parts(d) : truth(part) \in BOOLEAN
    BY BooleanConditions, ConditionShape
  <2>1. CASE IsLeafCondition(d)
    <3>1. checked(d) = Says(d, request, NoOperands)
      BY <2>1, CheckedDefined, LeafAnswers DEF IsLeafCondition
    <3>2. readable(d) <=> Says(d, request, NoOperands) # Undefined
      BY <2>1, ReadableDefined
    <3>3. truth(d) = (Says(d, request, NoOperands) = TRUE)
      BY <2>1, ClassicalDefined DEF IsLeafCondition
    <3>4. Says(d, request, NoOperands) \in BOOLEAN \cup {Undefined}
      BY <2>1, LeafAnswers DEF IsLeafCondition
    <3> HIDE DEF checked, readable, truth
    <3>5. checked(d) = IF readable(d) THEN truth(d) ELSE Undefined
      BY <3>1, <3>2, <3>3, <3>4
    <3> QED BY <3>5
  <2>2. CASE IsNegation(d)
    <3>1. checked(d) = Negated(checked(d.of))
      BY <2>2, CheckedDefined DEF IsNegation
    <3>2. readable(d) <=> readable(d.of)
      BY <2>2, ReadableDefined
    <3>3. truth(d) = ~truth(d.of)
      BY <2>2, ClassicalDefined DEF IsNegation
    <3>4. truth(d.of) \in BOOLEAN /\ d.of \in S
      BY <1>1, <2>0, <2>2 DEF IsNegation, Parts
    <3>5. checked(d) = IF readable(d) THEN truth(d) ELSE Undefined
      <4>1. checked(d.of) = IF readable(d.of) THEN truth(d.of) ELSE Undefined
        BY <3>4
      <4> HIDE DEF checked, readable, truth
      <4> QED BY <3>1, <3>2, <3>3, <3>4, <4>1, ConditionsAssumption DEF Negated
    <3> QED BY <3>5
  <2>3. CASE IsGroup(d)
    <3> DEFINE answers == AnswersOf(d, request, cache)
    <3>1. checked(d) = CheckedGroup(d.kind, answers)
      <4>1. d.kind # "leaf" /\ d.kind # "not"
        BY <2>3 DEF IsGroup
      <4> QED BY <4>1, CheckedDefined
    <3>6. answers = {checked(d.of[i]) : i \in DOMAIN d.of}
      BY DEF AnswersOf
    <3>2. readable(d) <=> \A i \in DOMAIN d.of : readable(d.of[i])
      BY <2>3, ReadableDefined
    <3>3. truth(d) = IF d.kind = "all" THEN \A i \in DOMAIN d.of : truth(d.of[i])
                                       ELSE \E i \in DOMAIN d.of : truth(d.of[i])
      BY <2>3, ClassicalDefined DEF IsGroup
    <3>4. \A i \in DOMAIN d.of : /\ truth(d.of[i]) \in BOOLEAN
                                 /\ checked(d.of[i]) = IF readable(d.of[i]) THEN truth(d.of[i]) ELSE Undefined
      BY <1>1, <2>0, <2>3 DEF IsGroup, Parts
    <3>5. checked(d) = IF readable(d) THEN truth(d) ELSE Undefined
      <4> HIDE DEF checked, readable, truth, answers
      <4>1. Undefined \in answers <=> ~readable(d)
        BY <3>2, <3>4, <3>6, ConditionsAssumption
      <4>2. readable(d) =>
              /\ (\A answer \in answers : answer) <=> \A i \in DOMAIN d.of : truth(d.of[i])
              /\ (\E answer \in answers : answer) <=> \E i \in DOMAIN d.of : truth(d.of[i])
        BY <3>2, <3>4, <3>6
      <4>3. CASE ~readable(d)
        BY <3>1, <4>1, <4>3 DEF CheckedGroup
      <4>4. CASE readable(d) /\ d.kind = "all"
        BY <3>1, <3>3, <4>1, <4>2, <4>4 DEF CheckedGroup
      <4>5. CASE readable(d) /\ d.kind # "all"
        BY <3>1, <3>3, <4>1, <4>2, <4>5 DEF CheckedGroup
      <4> QED BY <4>3, <4>4, <4>5
    <3> QED BY <3>5
  <2> QED BY <2>1, <2>2, <2>3, ConditionShape
<1>2. c \in S
  <2> HIDE DEF S
  <2> QED BY <1>1, ConditionInduction
<1> QED BY <1>2

(* A condition matches exactly if it holds.                                *)
THEOREM MatchedMeaning ==
  ASSUME NEW request, NEW cache, CacheSound(cache), NEW c \in TargetingCondition
  PROVE  MatchesCondition(c, request, cache) = Holds(c, request, NoOperands)
PROOF
<1> DEFINE matches(d) == MatchesCondition(d, request, cache)
           holds(d) == Holds(d, request, NoOperands)
           S == {d \in TargetingCondition : matches(d) <=> holds(d)}
<1>1. ASSUME NEW d \in TargetingCondition, Parts(d) \subseteq S PROVE d \in S
  <2>1. CASE IsLeafCondition(d)
    <3>1. matches(d) = MatchedLeaf(d, request, cache)
      BY <2>1, MatchesDefined DEF IsLeafCondition
    <3>2. holds(d) = (Says(d, request, NoOperands) = TRUE)
      BY <2>1, HoldsDefined DEF IsLeafCondition
    <3>3. MatchedLeaf(d, request, cache) <=> Says(d, request, NoOperands) = TRUE
      BY <2>1, LeafAnswers DEF IsLeafCondition
    <3> QED BY <3>1, <3>2, <3>3
  <2>2. CASE IsNegation(d)
    <3>1. matches(d) = (CheckedCondition(d.of, request, cache) = FALSE)
      BY <2>2, MatchesDefined DEF IsNegation
    <3>2. holds(d) = (Readable(d.of, request, NoOperands) /\ ~Classical(d.of, request, NoOperands))
      BY <2>2, HoldsDefined DEF IsNegation
    <3>3. d.of \in TargetingCondition
      BY <2>2, ConditionShape DEF IsNegation, Parts
    <3>4. CheckedCondition(d.of, request, cache) =
           IF Readable(d.of, request, NoOperands) THEN Classical(d.of, request, NoOperands) ELSE Undefined
      BY <3>3, CheckedMeaning
    <3>5. Classical(d.of, request, NoOperands) \in BOOLEAN
      BY <3>3, BooleanConditions
    <3>6. CheckedCondition(d.of, request, cache) = FALSE
            <=> (Readable(d.of, request, NoOperands) /\ ~Classical(d.of, request, NoOperands))
      BY <3>4, <3>5, ConditionsAssumption
    <3> QED BY <3>1, <3>2, <3>6
  <2>3. CASE IsGroup(d)
    <3>1. matches(d) = IF d.kind = "all" THEN \A i \in DOMAIN d.of : matches(d.of[i])
                                         ELSE \E i \in DOMAIN d.of : matches(d.of[i])
      BY <2>3, MatchesDefined DEF IsGroup
    <3>2. holds(d) = IF d.kind = "all" THEN \A i \in DOMAIN d.of : holds(d.of[i])
                                       ELSE \E i \in DOMAIN d.of : holds(d.of[i])
      BY <2>3, HoldsDefined DEF IsGroup
    <3>3. \A i \in DOMAIN d.of : matches(d.of[i]) <=> holds(d.of[i])
      BY <1>1, <2>3 DEF IsGroup, Parts
    <3> HIDE DEF matches, holds
    <3>4. matches(d) <=> holds(d)
      BY <3>1, <3>2, <3>3
    <3> QED BY <3>4
  <2> QED BY <2>1, <2>2, <2>3, ConditionShape
<1>2. c \in S
  <2> HIDE DEF S
  <2> QED BY <1>1, ConditionInduction
<1> QED BY <1>2, BooleanConditions

(* What maps leaves to leaves, and negations and groups part by part, maps *)
(* conditions to conditions.                                               *)
LEMMA MappedConditions ==
  ASSUME NEW F, NEW G,
         \A c \in G \cap TargetingCondition :
           /\ Parts(c) \subseteq G
           /\ IsLeafCondition(c) => F[c] \in Leaves \cup IndexedLeaves
           /\ IsNegation(c) => F[c] = [kind |-> "not", of |-> F[c.of]]
           /\ IsGroup(c) => F[c] = [kind |-> c.kind, of |-> [i \in DOMAIN c.of |-> F[c.of[i]]]]
  PROVE  \A c \in G \cap TargetingCondition : F[c] \in TargetingCondition
PROOF
<1> DEFINE S == {n \in Nat : n <= MaxHeight => \A c \in G \cap Level[n] : F[c] \in Level[n]}
<1>1. ASSUME NEW n \in 0 .. MaxHeight, NEW c \in G \cap Level[n]
      PROVE  /\ c \in G \cap TargetingCondition /\ Parts(c) \subseteq G
             /\ IsLeafCondition(c) \/ IsNegation(c) \/ IsGroup(c)
             /\ n = 0 => Parts(c) = {}
             /\ n > 0 => Parts(c) \subseteq Level[n - 1]
  BY LevelShape, LevelsGrow
<1>2. ASSUME NEW n \in 0 .. MaxHeight PROVE Leaves \cup IndexedLeaves \subseteq Level[n]
  <2> DEFINE T == {m \in Nat : m <= MaxHeight => Leaves \cup IndexedLeaves \subseteq Level[m]}
  <2>1. 0 \in T
    BY LevelDefined, ConditionsAssumption
  <2>2. ASSUME NEW m \in Nat, m \in T PROVE m + 1 \in T
    <3>1. m + 1 <= MaxHeight => m \in 0 .. MaxHeight /\ m < MaxHeight
      BY ConditionsAssumption
    <3> QED BY <2>2, <3>1, LevelShape
  <2>3. n \in T
    <3> HIDE DEF T
    <3> QED BY <2>1, <2>2, NaturalInduction
  <2> QED BY <2>3
<1>3. 0 \in S
  <2> SUFFICES ASSUME 0 \in 0 .. MaxHeight, NEW c \in G \cap Level[0] PROVE F[c] \in Level[0]
    BY ConditionsAssumption
  <2>1. c \in Leaves \cup IndexedLeaves
    BY LevelDefined
  <2>2. IsLeafCondition(c)
    BY <2>1, LeavesAreLeaves DEF IsLeafCondition
  <2> QED BY <1>1, <1>2, <2>2
<1>4. ASSUME NEW n \in Nat, n \in S PROVE n + 1 \in S
  <2> SUFFICES ASSUME n + 1 <= MaxHeight, NEW c \in G \cap Level[n + 1] PROVE F[c] \in Level[n + 1]
    OBVIOUS
  <2>1. /\ n \in 0 .. MaxHeight /\ n + 1 \in 0 .. MaxHeight /\ n + 1 > 0 /\ n + 1 # 0
        /\ (n + 1) - 1 = n
    BY ConditionsAssumption
  <2>2. Parts(c) \subseteq G \cap Level[n] /\ c \in G \cap TargetingCondition
    BY <1>1, <2>1
  <2>3. \A part \in Parts(c) : F[part] \in Level[n]
    BY <1>4, <2>1, <2>2
  <2>4. Level[n + 1] = Nested(Level[n])
    BY <2>1, LevelDefined
  <2>5. CASE IsLeafCondition(c)
    BY <1>2, <2>1, <2>2, <2>5
  <2>6. CASE IsNegation(c)
    <3>1. F[c] = [kind |-> "not", of |-> F[c.of]] /\ F[c.of] \in Level[n]
      BY <2>2, <2>3, <2>6 DEF IsNegation, Parts
    <3> QED BY <2>4, <3>1 DEF Nested
  <2>7. CASE IsGroup(c)
    <3>1. /\ F[c] = [kind |-> c.kind, of |-> [i \in DOMAIN c.of |-> F[c.of[i]]]]
          /\ c.kind \in {"all", "any"}
          /\ \A i \in DOMAIN c.of : F[c.of[i]] \in Level[n]
          /\ Len(c.of) \in Nat /\ DOMAIN c.of = 1 .. Len(c.of)
      BY <2>2, <2>3, <2>7 DEF IsGroup, Parts
    <3>2. [i \in DOMAIN c.of |-> F[c.of[i]]] \in Seq(Level[n])
      BY <3>1
    <3> QED BY <2>4, <3>1, <3>2 DEF Nested
  <2> QED BY <1>1, <2>1, <2>5, <2>6, <2>7
<1>5. MaxHeight \in S
  <2> HIDE DEF S
  <2> QED BY <1>3, <1>4, NaturalInduction, ConditionsAssumption
<1> QED BY <1>5, LevelOfTargetingCondition, ConditionsAssumption

(* A condition without indexes is a condition, and holds alike.            *)
LEMMA PlainConditions ==
  ASSUME NEW c \in TargetingCondition
  PROVE  /\ Plain(c) \in TargetingCondition
         /\ IsLeafCondition(c) => Plain(c) = PlainLeaf(c)
         /\ IsNegation(c) => Plain(c) = [kind |-> "not", of |-> Plain(c.of)]
         /\ IsGroup(c) => Plain(c) = [kind |-> c.kind, of |-> [i \in DOMAIN c.of |-> Plain(c.of[i])]]
PROOF
<1> DEFINE F == [d \in TargetingCondition |-> Plain(d)]
<1>1. ASSUME NEW d \in TargetingCondition
      PROVE  /\ IsLeafCondition(d) => Plain(d) = PlainLeaf(d)
             /\ IsNegation(d) => Plain(d) = [kind |-> "not", of |-> Plain(d.of)]
             /\ IsGroup(d) => Plain(d) = [kind |-> d.kind, of |-> [i \in DOMAIN d.of |-> Plain(d.of[i])]]
  <2>1. CASE IsLeafCondition(d)
    BY <2>1, PlainDefined DEF IsLeafCondition, IsNegation, IsGroup
  <2>2. CASE IsNegation(d)
    <3>1. Plain(d) = [d EXCEPT !.of = Plain(d.of)]
      BY <2>2, PlainDefined DEF IsNegation
    <3> QED BY <2>2, <3>1 DEF IsLeafCondition, IsNegation, IsGroup
  <2>3. CASE IsGroup(d)
    <3>1. Plain(d) = [d EXCEPT !.of = [i \in DOMAIN d.of |-> Plain(d.of[i])]]
      BY <2>3, PlainDefined DEF IsGroup
    <3> QED BY <2>3, <3>1 DEF IsLeafCondition, IsNegation, IsGroup
  <2> QED BY <2>1, <2>2, <2>3, ConditionShape
<1>2. ASSUME NEW d \in TargetingCondition
      PROVE  /\ Parts(d) \subseteq TargetingCondition
             /\ IsLeafCondition(d) => F[d] \in Leaves \cup IndexedLeaves
             /\ IsNegation(d) => F[d] = [kind |-> "not", of |-> F[d.of]]
             /\ IsGroup(d) => F[d] = [kind |-> d.kind, of |-> [i \in DOMAIN d.of |-> F[d.of[i]]]]
  <2>1. Parts(d) \subseteq TargetingCondition
    BY ConditionShape
  <2>2. CASE IsLeafCondition(d)
    <3>1. F[d] = PlainLeaf(d)
      BY <1>1, <2>2
    <3>2. PlainLeaf(d) \in Leaves
      BY <2>2, UnindexedIsLeaf DEF IsLeafCondition
    <3> QED BY <2>1, <2>2, <3>1, <3>2 DEF IsLeafCondition, IsNegation, IsGroup
  <2>3. CASE IsNegation(d)
    <3>1. d.of \in TargetingCondition
      BY <2>1, <2>3 DEF IsNegation, Parts
    <3> QED BY <1>1, <2>1, <2>3, <3>1 DEF IsLeafCondition, IsNegation, IsGroup
  <2>4. CASE IsGroup(d)
    <3>1. \A i \in DOMAIN d.of : F[d.of[i]] = Plain(d.of[i])
      BY <2>1, <2>4 DEF IsGroup, Parts
    <3>2. F[d] = [kind |-> d.kind, of |-> [i \in DOMAIN d.of |-> Plain(d.of[i])]]
      BY <1>1, <2>4
    <3> HIDE DEF F
    <3> QED BY <2>1, <2>4, <3>1, <3>2 DEF IsLeafCondition, IsNegation, IsGroup
  <2> QED BY <2>2, <2>3, <2>4, ConditionShape
<1>3. F[c] \in TargetingCondition
  <2> HIDE DEF F
  <2> QED BY <1>2, MappedConditions
<1> QED BY <1>1, <1>3

(* What a condition says does not depend on its indexes.                   *)
LEMMA PlainMeaning ==
  ASSUME NEW request, NEW c \in TargetingCondition
  PROVE  /\ Readable(Plain(c), request, NoOperands) <=> Readable(c, request, NoOperands)
         /\ Classical(Plain(c), request, NoOperands) <=> Classical(c, request, NoOperands)
         /\ Holds(Plain(c), request, NoOperands) <=> Holds(c, request, NoOperands)
PROOF
<1> DEFINE readable(d) == Readable(d, request, NoOperands)
           truth(d) == Classical(d, request, NoOperands)
           holds(d) == Holds(d, request, NoOperands)
           S == {d \in TargetingCondition : /\ readable(Plain(d)) <=> readable(d)
                                            /\ truth(Plain(d)) <=> truth(d)
                                            /\ holds(Plain(d)) <=> holds(d)}
<1>1. ASSUME NEW d \in TargetingCondition, Parts(d) \subseteq S PROVE d \in S
  <2>1. Plain(d) \in TargetingCondition
    BY PlainConditions
  <2>2. CASE IsLeafCondition(d)
    <3>1. Plain(d) = PlainLeaf(d) /\ IsLeafCondition(Plain(d))
      <4>1. Plain(d) = PlainLeaf(d) /\ PlainLeaf(d) \in Leaves
        BY <2>2, PlainConditions, UnindexedIsLeaf DEF IsLeafCondition
      <4> QED BY <4>1, LeavesAreLeaves DEF IsLeafCondition
    <3>2. Says(Plain(d), request, NoOperands) = Says(d, request, NoOperands)
      <4>1. PlainLeaf(PlainLeaf(d)) = PlainLeaf(d)
        BY DEF PlainLeaf
      <4> QED BY <3>1, <4>1 DEF Says
    <3>3. readable(Plain(d)) <=> readable(d)
      BY <2>1, <2>2, <3>1, <3>2, ReadableDefined
    <3>4. truth(Plain(d)) = (Says(Plain(d), request, NoOperands) = TRUE)
      BY <2>1, <3>1, ClassicalDefined DEF IsLeafCondition
    <3>5. truth(d) = (Says(d, request, NoOperands) = TRUE)
      BY <2>2, ClassicalDefined DEF IsLeafCondition
    <3>6. holds(Plain(d)) = (Says(Plain(d), request, NoOperands) = TRUE)
      BY <2>1, <3>1, HoldsDefined DEF IsLeafCondition
    <3>7. holds(d) = (Says(d, request, NoOperands) = TRUE)
      BY <2>2, HoldsDefined DEF IsLeafCondition
    <3> HIDE DEF readable, truth, holds
    <3> QED BY <3>2, <3>3, <3>4, <3>5, <3>6, <3>7
  <2>3. CASE IsNegation(d)
    <3>1. Plain(d).of = Plain(d.of) /\ IsNegation(Plain(d)) /\ d.of \in S
      BY <1>1, <2>3, PlainConditions DEF IsNegation, Parts
    <3>2. readable(Plain(d)) <=> readable(d)
      BY <2>1, <2>3, <3>1, ReadableDefined
    <3> DEFINE e == Plain(d)
    <3>8. e \in TargetingCondition /\ e.kind = "not" /\ e.of = Plain(d.of)
      BY <2>1, <3>1 DEF IsNegation
    <3> HIDE DEF e
    <3>3. truth(e) = ~truth(Plain(d.of))
      <4>1. truth(e) = ~truth(e.of)
        BY <3>8, ClassicalDefined
      <4> QED BY <3>8, <4>1
    <3>4. truth(d) = ~truth(d.of)
      BY <2>3, ClassicalDefined DEF IsNegation
    <3>5. holds(e) = (readable(Plain(d.of)) /\ ~truth(Plain(d.of)))
      <4>1. holds(e) = (readable(e.of) /\ ~truth(e.of))
        BY <3>8, HoldsDefined
      <4> QED BY <3>8, <4>1
    <3>6. holds(d) = (readable(d.of) /\ ~truth(d.of))
      BY <2>3, HoldsDefined DEF IsNegation
    <3>7. (readable(Plain(d.of)) <=> readable(d.of)) /\ (truth(Plain(d.of)) <=> truth(d.of))
      BY <3>1
    <3> HIDE DEF readable, truth, holds
    <3> QED BY <3>2, <3>3, <3>4, <3>5, <3>6, <3>7 DEF e
  <2>4. CASE IsGroup(d)
    <3>1. /\ IsGroup(Plain(d)) /\ Plain(d).kind = d.kind /\ DOMAIN Plain(d).of = DOMAIN d.of
          /\ \A i \in DOMAIN d.of : Plain(d).of[i] = Plain(d.of[i])
      <4>1. Plain(d) = [kind |-> d.kind, of |-> [i \in DOMAIN d.of |-> Plain(d.of[i])]]
        BY <2>4, PlainConditions
      <4>2. d.kind \in {"all", "any"} /\ Len(d.of) \in Nat /\ DOMAIN d.of = 1 .. Len(d.of)
        BY <2>4 DEF IsGroup
      <4> DEFINE parts == [i \in DOMAIN d.of |-> Plain(d.of[i])]
      <4>3. Len(parts) \in Nat /\ DOMAIN parts = 1 .. Len(parts)
        BY <4>2
      <4>4. Plain(d).of = parts /\ Plain(d).kind = d.kind
        BY <4>1
      <4>5. IsGroup(Plain(d))
        <5> HIDE DEF parts
        <5> QED BY <4>1, <4>2, <4>3, <4>4 DEF IsGroup, parts
      <4> QED BY <4>4, <4>5
    <3>2. \A i \in DOMAIN d.of : /\ readable(Plain(d.of[i])) <=> readable(d.of[i])
                                 /\ truth(Plain(d.of[i])) <=> truth(d.of[i])
                                 /\ holds(Plain(d.of[i])) <=> holds(d.of[i])
      BY <1>1, <2>4 DEF IsGroup, Parts
    <3>3. /\ readable(Plain(d)) <=> \A i \in DOMAIN d.of : readable(Plain(d).of[i])
          /\ readable(d) <=> \A i \in DOMAIN d.of : readable(d.of[i])
      BY <2>1, <2>4, <3>1, ReadableDefined
    <3>4. truth(Plain(d)) = IF d.kind = "all" THEN \A i \in DOMAIN d.of : truth(Plain(d).of[i])
                                              ELSE \E i \in DOMAIN d.of : truth(Plain(d).of[i])
      BY <2>1, <3>1, ClassicalDefined DEF IsGroup
    <3>5. truth(d) = IF d.kind = "all" THEN \A i \in DOMAIN d.of : truth(d.of[i])
                                       ELSE \E i \in DOMAIN d.of : truth(d.of[i])
      BY <2>4, ClassicalDefined DEF IsGroup
    <3>6. holds(Plain(d)) = IF d.kind = "all" THEN \A i \in DOMAIN d.of : holds(Plain(d).of[i])
                                              ELSE \E i \in DOMAIN d.of : holds(Plain(d).of[i])
      BY <2>1, <3>1, HoldsDefined DEF IsGroup
    <3>7. holds(d) = IF d.kind = "all" THEN \A i \in DOMAIN d.of : holds(d.of[i])
                                       ELSE \E i \in DOMAIN d.of : holds(d.of[i])
      BY <2>4, HoldsDefined DEF IsGroup
    <3> HIDE DEF readable, truth, holds
    <3>8. readable(Plain(d)) <=> readable(d)
      BY <3>1, <3>2, <3>3
    <3>9. truth(Plain(d)) <=> truth(d)
      BY <3>1, <3>2, <3>4, <3>5
    <3>10. holds(Plain(d)) <=> holds(d)
      BY <3>1, <3>2, <3>6, <3>7
    <3> QED BY <3>8, <3>9, <3>10
  <2> QED BY <2>2, <2>3, <2>4, ConditionShape
<1>2. c \in S
  <2> HIDE DEF S
  <2> QED BY <1>1, ConditionInduction
<1> QED BY <1>2

(* The captured copy of a condition with valid leaves is a condition.      *)
LEMMA CapturedConditions ==
  ASSUME NEW c \in TargetingCondition, \A leaf \in LeavesOf(c) : ValidLeaf(leaf)
  PROVE  Captured(c) \in TargetingCondition
PROOF
<1> DEFINE F == [d \in TargetingCondition |-> Captured(d)]
           G == {d \in TargetingCondition : \A leaf \in LeavesOf(d) : ValidLeaf(leaf)}
<1>1. ASSUME NEW d \in G \cap TargetingCondition
      PROVE  /\ Parts(d) \subseteq G
             /\ IsLeafCondition(d) => F[d] \in Leaves \cup IndexedLeaves
             /\ IsNegation(d) => F[d] = [kind |-> "not", of |-> F[d.of]]
             /\ IsGroup(d) => F[d] = [kind |-> d.kind, of |-> [i \in DOMAIN d.of |-> F[d.of[i]]]]
  <2>1. Parts(d) \subseteq TargetingCondition
    BY ConditionShape
  <2>2. CASE IsLeafCondition(d)
    <3>1. F[d] = CapturedLeaf(d) /\ LeavesOf(d) = {d}
      BY <2>2, CapturedDefined, LeavesDefined DEF IsLeafCondition
    <3>2. CapturedLeaf(d) \in Leaves \cup IndexedLeaves
      BY <2>2, <3>1, CapturedLeaves DEF IsLeafCondition
    <3>3. Parts(d) = {}
      BY <2>2 DEF IsLeafCondition, Parts
    <3> QED BY <2>2, <3>1, <3>2, <3>3 DEF IsLeafCondition, IsNegation, IsGroup
  <2>3. CASE IsNegation(d)
    <3>1. Parts(d) = {d.of} /\ d.of \in TargetingCondition /\ LeavesOf(d) = LeavesOf(d.of)
      BY <2>1, <2>3, LeavesDefined DEF IsNegation, Parts
    <3>2. Captured(d) = [d EXCEPT !.of = Captured(d.of)]
      BY <2>3, CapturedDefined DEF IsNegation
    <3> QED BY <2>3, <3>1, <3>2 DEF IsLeafCondition, IsNegation, IsGroup
  <2>4. CASE IsGroup(d)
    <3>1. Parts(d) = {d.of[i] : i \in DOMAIN d.of} /\ LeavesOf(d) = UNION {LeavesOf(d.of[i]) : i \in DOMAIN d.of}
      BY <2>4, LeavesDefined DEF IsGroup, Parts
    <3>2. Captured(d) = [d EXCEPT !.of = [i \in DOMAIN d.of |-> Captured(d.of[i])]]
      BY <2>4, CapturedDefined DEF IsGroup
    <3>3. Parts(d) \subseteq G
      BY <2>1, <3>1
    <3>4. \A i \in DOMAIN d.of : F[d.of[i]] = Captured(d.of[i])
      BY <2>1, <3>1
    <3>5. F[d] = Captured(d)
      OBVIOUS
    <3> HIDE DEF F
    <3>6. F[d] = [kind |-> d.kind, of |-> [i \in DOMAIN d.of |-> F[d.of[i]]]]
      BY <2>4, <3>2, <3>4, <3>5 DEF IsGroup
    <3> QED BY <2>4, <3>3, <3>6 DEF IsLeafCondition, IsNegation, IsGroup
  <2> QED BY <2>2, <2>3, <2>4, ConditionShape
<1>2. c \in G /\ G \cap TargetingCondition = G /\ F[c] = Captured(c)
  OBVIOUS
<1> HIDE DEF F, G
<1>3. \A d \in G \cap TargetingCondition : F[d] \in TargetingCondition
  BY <1>1, MappedConditions
<1> QED BY <1>2, <1>3

(* A set of naturals that is not empty has a least member.                 *)
LEMMA LeastOfNaturals ==
  ASSUME NEW S \in SUBSET Nat, S # {}
  PROVE  Min(S) \in S /\ \A n \in S : Min(S) <= n
PROOF
<1> DEFINE T == {n \in Nat : \A k \in 0 .. n : k \in S => \E x \in S : \A y \in S : x <= y}
<1>1. 0 \in T
  OBVIOUS
<1>2. ASSUME NEW n \in Nat, n \in T PROVE n + 1 \in T
  <2> SUFFICES ASSUME n + 1 \in S, \A k \in 0 .. n : k \notin S
               PROVE  \A y \in S : n + 1 <= y
    BY <1>2
  <2> QED OBVIOUS
<1>3. Nat \subseteq T
  <2> HIDE DEF T
  <2> QED BY <1>1, <1>2, NaturalInduction
<1>4. \E x \in S : \A y \in S : x <= y
  <2>1. PICK n \in S : n \in T
    BY <1>3
  <2>2. n \in 0 .. n
    OBVIOUS
  <2> QED BY <2>1, <2>2
<1> QED BY <1>4 DEF Min

(* Each upper bound is the one before and the rule's own share.            *)
LEMMA BoundsDefined ==
  ASSUME NEW rules, IsSequence(rules), NEW i \in 0 .. Len(rules)
  PROVE  UpperBound(rules, i) =
           IF i = 0 THEN 0 ELSE UpperBound(rules, i - 1) + PercentageToBucketCount(rules[i].percentage)
PROOF
<1> DEFINE E(g, n) == IF n = 0 THEN 0 ELSE g[n - 1] + PercentageToBucketCount(rules[n].percentage)
           S == {n \in Nat : \E g : \A m \in 0 .. n : g[m] = E(g, m)}
<1>0. Len(rules) \in Nat
  BY DEF IsSequence
<1>1. 0 \in S
  <2> DEFINE g == [m \in 0 .. 0 |-> 0]
  <2>1. \A m \in 0 .. 0 : g[m] = E(g, m)
    OBVIOUS
  <2> HIDE DEF g
  <2> QED BY <2>1
<1>2. ASSUME NEW n \in Nat, n \in S PROVE n + 1 \in S
  <2>1. PICK g : \A m \in 0 .. n : g[m] = E(g, m)
    BY <1>2
  <2> DEFINE h == [m \in 0 .. n + 1 |-> E(g, m)]
  <2>2. ASSUME NEW m \in 0 .. n PROVE h[m] = g[m]
    <3>1. g[m] = E(g, m)
      BY <2>1
    <3>2. m \in 0 .. n + 1
      OBVIOUS
    <3>3. h[m] = E(g, m)
      BY <3>2
    <3> QED BY <3>1, <3>3
  <2>3. \A m \in 0 .. n + 1 : h[m] = E(h, m)
    <3>1. ASSUME NEW m \in 0 .. n + 1 PROVE E(g, m) = E(h, m)
      <4>1. m = 0 \/ m - 1 \in 0 .. n
        OBVIOUS
      <4> HIDE DEF h
      <4> QED BY <4>1, <2>2
    <3> QED BY <3>1
  <2> HIDE DEF h
  <2> QED BY <2>3
<1>3. Len(rules) \in S
  <2> HIDE DEF S
  <2> QED BY <1>0, <1>1, <1>2, NaturalInduction
<1>4. PICK g : \A m \in 0 .. Len(rules) : g[m] = E(g, m)
  BY <1>3
<1> DEFINE h == [m \in 0 .. Len(rules) |-> E(g, m)]
<1>5. h = [m \in 0 .. Len(rules) |-> E(h, m)]
  <2>1. ASSUME NEW m \in 0 .. Len(rules) PROVE E(g, m) = E(h, m)
    <3>1. m # 0 => m - 1 \in 0 .. Len(rules)
      BY <1>0
    <3>2. m # 0 => h[m - 1] = g[m - 1]
      BY <1>4, <3>1
    <3> HIDE DEF h
    <3> QED BY <3>2
  <2> QED BY <2>1
<1> DEFINE bound == CHOOSE b : b = [m \in 0 .. Len(rules) |-> E(b, m)]
<1>6. bound = [m \in 0 .. Len(rules) |-> E(bound, m)]
  <2> HIDE DEF h, E
  <2> QED BY <1>5
<1>7. \A m \in 0 .. Len(rules) : UpperBound(rules, m) = bound[m]
  BY DEF UpperBound
<1>8. bound[i] = E(bound, i) /\ (i # 0 => i - 1 \in 0 .. Len(rules))
  <2> HIDE DEF bound, E
  <2> QED BY <1>0, <1>6
<1> HIDE DEF bound
<1> QED BY <1>7, <1>8

(* The middle of a span lies within it, below its end.                     *)
LEMMA Halfway ==
  ASSUME NEW low \in Nat, NEW high \in Nat, low < high
  PROVE  /\ (low + high) \div 2 \in Nat
         /\ low <= (low + high) \div 2 /\ (low + high) \div 2 < high
PROOF
OBVIOUS

(* The search is what its definition says.                                 *)
LEMMA SearchDefined ==
  ASSUME NEW before, Len(before) \in Nat
  PROVE  \E g :
           /\ FirstNotBefore(before) = g[<<1, Len(before) + 1>>]
           /\ \A span \in (1 .. Len(before) + 1) \X (1 .. Len(before) + 1) :
                g[span] =
                  IF span[1] >= span[2] THEN span[1]
                  ELSE IF before[(span[1] + span[2]) \div 2]
                    THEN g[<<((span[1] + span[2]) \div 2) + 1, span[2]>>]
                  ELSE g[<<span[1], (span[1] + span[2]) \div 2>>]
PROOF
<1> DEFINE E(g, span) ==
                  IF span[1] >= span[2] THEN span[1]
                  ELSE IF before[(span[1] + span[2]) \div 2]
                    THEN g[<<((span[1] + span[2]) \div 2) + 1, span[2]>>]
                  ELSE g[<<span[1], (span[1] + span[2]) \div 2>>]
           A == (1 .. Len(before) + 1) \X (1 .. Len(before) + 1)
           S == {n \in Nat : \E g : \A span \in A : span[2] - span[1] <= n => g[span] = E(g, span)}
           f == CHOOSE g : g = [span \in A |-> E(g, span)]
<1>1. FirstNotBefore(before) = f[<<1, Len(before) + 1>>]
  BY DEF FirstNotBefore
<1>2. \A span \in A : span[1] \in 1 .. Len(before) + 1 /\ span[2] \in 1 .. Len(before) + 1
  OBVIOUS
<1>3. ASSUME NEW g, NEW h, NEW span \in A,
             \A part \in A : part[2] - part[1] < span[2] - span[1] => g[part] = h[part]
      PROVE  E(g, span) = E(h, span)
  <2>1. CASE span[1] >= span[2]
    BY <2>1
  <2>2. CASE span[1] < span[2]
    <3> DEFINE middle == (span[1] + span[2]) \div 2
               left == <<span[1], middle>>
               right == <<middle + 1, span[2]>>
    <3>1. middle \in Nat /\ span[1] <= middle /\ middle < span[2]
      BY <1>2, <2>2, Halfway
    <3>2. /\ left \in A /\ right \in A
          /\ left[2] - left[1] < span[2] - span[1] /\ right[2] - right[1] < span[2] - span[1]
      <4> HIDE DEF middle
      <4> QED BY <1>2, <3>1
    <3>3. g[left] = h[left] /\ g[right] = h[right]
      <4> HIDE DEF left, right
      <4> QED BY <1>3, <3>2
    <3> QED BY <3>3
  <2> QED BY <1>2, <2>1, <2>2
<1> HIDE DEF E
<1>4. 0 \in S
  <2> DEFINE g == [span \in A |-> E(<<>>, span)]
  <2>1. ASSUME NEW span \in A, span[2] - span[1] <= 0
        PROVE  g[span] = E(g, span)
    <3>1. g[span] = E(<<>>, span)
      OBVIOUS
    <3> HIDE DEF g
    <3>2. \A part \in A : part[2] - part[1] < span[2] - span[1] => part[2] - part[1] < 0
      BY <1>2, <2>1
    <3>3. E(<<>>, span) = E(g, span)
      BY <1>2, <2>1 DEF E
    <3> QED BY <3>1, <3>3
  <2> HIDE DEF g
  <2> QED BY <2>1
<1>5. ASSUME NEW n \in Nat, n \in S PROVE n + 1 \in S
  <2>1. PICK g : \A span \in A : span[2] - span[1] <= n => g[span] = E(g, span)
    BY <1>5
  <2> DEFINE h == [span \in A |-> E(g, span)]
  <2>2. ASSUME NEW span \in A, span[2] - span[1] <= n PROVE h[span] = g[span]
    BY <2>1, <2>2
  <2>3. ASSUME NEW span \in A, span[2] - span[1] <= n + 1
        PROVE  h[span] = E(h, span)
    <3>1. h[span] = E(g, span)
      OBVIOUS
    <3> HIDE DEF h
    <3>2. \A part \in A : part[2] - part[1] < span[2] - span[1] => part[2] - part[1] <= n
      BY <2>3, <1>2
    <3>3. E(g, span) = E(h, span)
      BY <1>3, <2>2, <3>2
    <3> QED BY <3>1, <3>3
  <2> HIDE DEF h
  <2> QED BY <2>3
<1>6. Len(before) \in S
  <2> HIDE DEF S
  <2> QED BY <1>4, <1>5, NaturalInduction
<1>7. PICK g : \A span \in A : g[span] = E(g, span)
  <2>1. PICK g : \A span \in A : span[2] - span[1] <= Len(before) => g[span] = E(g, span)
    BY <1>6
  <2>2. \A span \in A : span[2] - span[1] <= Len(before)
    BY <1>2
  <2> QED BY <2>1, <2>2
<1> DEFINE h == [span \in A |-> E(g, span)]
<1>8. \A span \in A : h[span] = g[span]
  BY <1>7
<1>9. h = [span \in A |-> E(h, span)]
  <2>1. ASSUME NEW span \in A PROVE E(g, span) = E(h, span)
    <3> HIDE DEF h
    <3> QED BY <1>3, <1>8
  <2> QED BY <2>1
<1>10. f = [span \in A |-> E(f, span)]
  <2> HIDE DEF h
  <2> QED BY <1>9
<1>11. \A span \in A : f[span] = E(f, span)
  <2> HIDE DEF f
  <2> QED BY <1>10
<1> HIDE DEF f
<1> QED BY <1>1, <1>11 DEF E

(* If everything before a place that is before is before it too, the       *)
(* search finds the first place that is not.                               *)
THEOREM SearchFinds ==
  ASSUME NEW before, Len(before) \in Nat, DOMAIN before = 1 .. Len(before),
         \A i, j \in DOMAIN before : (i < j /\ before[j]) => before[i]
  PROVE  /\ FirstNotBefore(before) \in 1 .. Len(before) + 1
         /\ \A i \in DOMAIN before : before[i] <=> i < FirstNotBefore(before)
PROOF
<1> DEFINE A == (1 .. Len(before) + 1) \X (1 .. Len(before) + 1)
<1>1. PICK g :
        /\ FirstNotBefore(before) = g[<<1, Len(before) + 1>>]
        /\ \A span \in A :
             g[span] = IF span[1] >= span[2] THEN span[1]
                       ELSE IF before[(span[1] + span[2]) \div 2]
                         THEN g[<<((span[1] + span[2]) \div 2) + 1, span[2]>>]
                       ELSE g[<<span[1], (span[1] + span[2]) \div 2>>]
  BY SearchDefined
<1> DEFINE Right(low, high) == /\ \A i \in DOMAIN before : i < low => before[i]
                               /\ \A i \in DOMAIN before : i >= high => ~before[i]
           Finds(low, high) == (low <= high /\ Right(low, high)) =>
                                 g[<<low, high>>] \in 1 .. Len(before) + 1
                                 /\ \A i \in DOMAIN before : before[i] <=> i < g[<<low, high>>]
           S == {n \in Nat : \A low, high \in 1 .. Len(before) + 1 : high - low <= n => Finds(low, high)}
<1>2. ASSUME NEW low \in 1 .. Len(before) + 1, NEW high \in 1 .. Len(before) + 1
      PROVE  g[<<low, high>>] = IF low >= high THEN low
                                ELSE IF before[(low + high) \div 2]
                                  THEN g[<<((low + high) \div 2) + 1, high>>]
                                ELSE g[<<low, (low + high) \div 2>>]
  <2> DEFINE span == <<low, high>>
  <2>1. span \in A /\ span[1] = low /\ span[2] = high
    OBVIOUS
  <2> HIDE DEF span
  <2> QED BY <1>1, <2>1 DEF span
<1>3. 0 \in S
  <2> SUFFICES ASSUME NEW low \in 1 .. Len(before) + 1, NEW high \in 1 .. Len(before) + 1,
                      high - low <= 0, low <= high, Right(low, high)
               PROVE  g[<<low, high>>] \in 1 .. Len(before) + 1
                      /\ \A i \in DOMAIN before : before[i] <=> i < g[<<low, high>>]
    OBVIOUS
  <2>1. low = high
    OBVIOUS
  <2>2. g[<<low, high>>] = low
    BY <1>2, <2>1
  <2> QED BY <2>1, <2>2
<1>4. ASSUME NEW n \in Nat, n \in S PROVE n + 1 \in S
  <2> SUFFICES ASSUME NEW low \in 1 .. Len(before) + 1, NEW high \in 1 .. Len(before) + 1,
                      high - low <= n + 1, low < high, Right(low, high)
               PROVE  g[<<low, high>>] \in 1 .. Len(before) + 1
                      /\ \A i \in DOMAIN before : before[i] <=> i < g[<<low, high>>]
    <3>1. \A low, high \in 1 .. Len(before) + 1 : (low <= high /\ ~(low < high)) => high - low <= n
      OBVIOUS
    <3>2. \A low, high \in 1 .. Len(before) + 1 : high - low <= n => Finds(low, high)
      BY <1>4
    <3> HIDE DEF Right
    <3> QED BY <3>1, <3>2
  <2> DEFINE middle == (low + high) \div 2
  <2>1. middle \in Nat /\ low <= middle /\ middle < high
    BY Halfway
  <2>2. \A l, h \in 1 .. Len(before) + 1 : h - l <= n => Finds(l, h)
    BY <1>4
  <2>3. g[<<low, high>>] = IF before[middle] THEN g[<<middle + 1, high>>] ELSE g[<<low, middle>>]
    BY <1>2
  <2> HIDE DEF middle
  <2>4. middle \in DOMAIN before /\ middle + 1 \in 1 .. Len(before) + 1 /\ middle \in 1 .. Len(before) + 1
    BY <2>1
  <2>5. CASE before[middle]
    <3>1. Right(middle + 1, high)
      BY <2>1, <2>4, <2>5
    <3>2. high - (middle + 1) <= n /\ middle + 1 <= high
      BY <2>1
    <3>3. Finds(middle + 1, high)
      <4> HIDE DEF Finds
      <4> QED BY <2>2, <2>4, <3>2
    <3> QED BY <2>3, <2>5, <3>1, <3>2, <3>3
  <2>6. CASE ~before[middle]
    <3>1. Right(low, middle)
      BY <2>1, <2>4, <2>6
    <3>2. middle - low <= n /\ low <= middle
      BY <2>1
    <3>3. Finds(low, middle)
      <4> HIDE DEF Finds
      <4> QED BY <2>2, <2>4, <3>2
    <3> QED BY <2>3, <2>6, <3>1, <3>2, <3>3
  <2> QED BY <2>5, <2>6
<1>5. Len(before) \in S
  <2> HIDE DEF S
  <2> QED BY <1>3, <1>4, NaturalInduction
<1>6. Finds(1, Len(before) + 1)
  <2> HIDE DEF Finds
  <2> QED BY <1>5
<1>7. Right(1, Len(before) + 1) /\ 1 <= Len(before) + 1
  OBVIOUS
<1> HIDE DEF Right
<1> QED BY <1>1, <1>6, <1>7

(* The places of a sequence.                                               *)
LEMMA SequenceDomain ==
  ASSUME NEW rules, IsSequence(rules)
  PROVE  Len(rules) \in Nat /\ DOMAIN rules = 1 .. Len(rules)
PROOF
BY DEF IsSequence

(* A rule of a positive percentage has a bucket.                           *)
LEMMA HalvesOfOne ==
  ASSUME NEW percentage \in Nat \ {0}
  PROVE  PercentageToBucketCount(percentage) \in Nat \ {0}
PROOF
<1>1. (percentage + 1) \div 2 \in Nat /\ (percentage + 1) \div 2 >= 1
  OBVIOUS
<1> QED BY <1>1 DEF PercentageToBucketCount

(* The bounds of a rollout rise by what each rule gets.                    *)
LEMMA BoundsRise ==
  ASSUME NEW rules, IsSequence(rules),
         \A i \in DOMAIN rules : rules[i].percentage \in Nat \ {0}
  PROVE  /\ UpperBound(rules, 0) = 0
         /\ \A i \in DOMAIN rules :
              /\ UpperBound(rules, i) = UpperBound(rules, i - 1) + PercentageToBucketCount(rules[i].percentage)
              /\ PercentageToBucketCount(rules[i].percentage) \in Nat \ {0}
         /\ \A i \in 0 .. Len(rules) : UpperBound(rules, i) \in Nat
         /\ \A i, j \in 0 .. Len(rules) : i < j => UpperBound(rules, i) < UpperBound(rules, j)
PROOF
<1> DEFINE Bound(i) == UpperBound(rules, i)
           count(i) == PercentageToBucketCount(rules[i].percentage)
<1>1. Len(rules) \in Nat /\ DOMAIN rules = 1 .. Len(rules)
  BY SequenceDomain
<1>2. \A i \in DOMAIN rules : count(i) \in Nat \ {0}
  <2> SUFFICES ASSUME NEW i \in DOMAIN rules PROVE count(i) \in Nat \ {0}
    OBVIOUS
  <2>1. rules[i].percentage \in Nat \ {0}
    OBVIOUS
  <2> QED BY <2>1, HalvesOfOne
<1>3. Bound(0) = 0
  BY <1>1, BoundsDefined
<1>4. \A i \in DOMAIN rules : Bound(i) = Bound(i - 1) + count(i)
  BY <1>1, BoundsDefined
<1> HIDE DEF Bound, count
<1> DEFINE S == {n \in Nat : n <= Len(rules) =>
                   Bound(n) \in Nat /\ \A i \in 0 .. n : i < n => Bound(i) < Bound(n)}
<1>5. 0 \in S
  BY <1>3
<1>6. ASSUME NEW n \in Nat, n \in S PROVE n + 1 \in S
  <2> SUFFICES ASSUME n + 1 <= Len(rules)
               PROVE  Bound(n + 1) \in Nat /\ \A i \in 0 .. n + 1 : i < n + 1 => Bound(i) < Bound(n + 1)
    OBVIOUS
  <2>1. n <= Len(rules) /\ n + 1 \in DOMAIN rules /\ (n + 1) - 1 = n
    BY <1>1
  <2>2. Bound(n) \in Nat /\ \A i \in 0 .. n : i < n => Bound(i) < Bound(n)
    BY <1>6, <2>1
  <2>3. Bound(n + 1) = Bound(n) + count(n + 1) /\ count(n + 1) \in Nat \ {0}
    BY <1>2, <1>4, <2>1
  <2>4. \A i \in 0 .. n + 1 : i < n + 1 => i = n \/ (i \in 0 .. n /\ i < n)
    OBVIOUS
  <2>5. \A i \in 0 .. n : i < n => Bound(i) < Bound(n)
    BY <2>2
  <2>6. Bound(n) \in Nat /\ Bound(n) < Bound(n + 1) /\ Bound(n + 1) \in Nat
    BY <2>2, <2>3
  <2>7. \A i \in 0 .. n : Bound(i) \in Nat
    <3> DEFINE T == {m \in Nat : m <= n => Bound(m) \in Nat}
    <3>1. 0 \in T
      BY <1>3
    <3>2. ASSUME NEW m \in Nat, m \in T PROVE m + 1 \in T
      <4> SUFFICES ASSUME m + 1 <= n PROVE Bound(m + 1) \in Nat
        OBVIOUS
      <4>1. m + 1 \in DOMAIN rules /\ (m + 1) - 1 = m
        BY <1>1, <2>1
      <4>2. Bound(m + 1) = Bound(m) + count(m + 1) /\ count(m + 1) \in Nat /\ Bound(m) \in Nat
        BY <1>2, <1>4, <3>2, <4>1
      <4> QED BY <4>2
    <3> HIDE DEF T
    <3>3. Nat \subseteq T
      BY <3>1, <3>2, NaturalInduction
    <3> QED BY <3>3 DEF T
  <2> QED BY <2>4, <2>5, <2>6, <2>7
<1>7. Nat \subseteq S
  <2> HIDE DEF S
  <2> QED BY <1>5, <1>6, NaturalInduction
<1>8. /\ \A i \in 0 .. Len(rules) : Bound(i) \in Nat
      /\ \A i, j \in 0 .. Len(rules) : i < j => Bound(i) < Bound(j)
  BY <1>1, <1>7
<1> QED BY <1>2, <1>3, <1>4, <1>8 DEF Bound, count

(* The positions below a bound from a place on have that place as minimum. *)
LEMMA LeastFrom ==
  ASSUME NEW length \in Nat, NEW first \in 1 .. length
  PROVE  Min(first .. length) = first
PROOF
<1>1. first .. length \in SUBSET Nat /\ first \in first .. length
  OBVIOUS
<1>2. Min(first .. length) \in first .. length /\ \A n \in first .. length : Min(first .. length) <= n
  BY <1>1, LeastOfNaturals
<1> QED BY <1>1, <1>2

(* The seed of a rollout is one of the seeds.                              *)
LEMMA SeedOfRollout ==
  ASSUME NEW rollout \in Rollouts
  PROVE  RolloutSeed(rollout.rules) \in Seeds
PROOF
<1> DEFINE rules == rollout.rules
           seeded == {i \in DOMAIN rules : rules[i].seed # Undefined}
<1>1. /\ Len(rules) \in Nat /\ DOMAIN rules = 1 .. Len(rules)
      /\ \A i \in DOMAIN rules : rules[i].seed \in Seeds \cup {Undefined}
      /\ DefaultSeed \in Seeds
  BY RolloutsAssumption, SequenceDomain
<1>2. seeded \in SUBSET Nat
  BY <1>1
<1>3. seeded # {} => Min(seeded) \in seeded
  <2> HIDE DEF seeded
  <2> QED BY <1>2, LeastOfNaturals
<1>4. RolloutSeed(rules) = IF seeded = {} THEN DefaultSeed ELSE rules[Min(seeded)].seed
  BY DEF RolloutSeed
<1>5. \A i \in seeded : rules[i].seed \in Seeds
  BY <1>1
<1> HIDE DEF seeded, rules
<1> QED BY <1>1, <1>3, <1>4, <1>5 DEF rules

(* The rule a bucket falls to is the first whose bound is above it, whether *)
(* it is searched for or not.                                              *)
RuleOf(rules, bucket) == {i \in DOMAIN rules : bucket < UpperBound(rules, i)}

(* The binary search finds the first rule whose bound is above the         *)
(* bucket.                                                                 *)
LEMMA IndexFindsRule ==
  ASSUME NEW rules, IsSequence(rules),
         \A i \in DOMAIN rules : rules[i].percentage \in Nat \ {0},
         NEW bucket \in Nat
  PROVE  LET found == FindRolloutIndex([i \in DOMAIN rules |-> UpperBound(rules, i)], bucket)
         IN  /\ found \in 1 .. Len(rules) + 1
             /\ RuleOf(rules, bucket) = found .. Len(rules)
             /\ found = Len(rules) + 1 => RuleOf(rules, bucket) = {} /\ {found} \cap DOMAIN rules = {}
             /\ found \in DOMAIN rules => /\ RuleOf(rules, bucket) # {}
                                          /\ Min(RuleOf(rules, bucket)) = found
                                          /\ {found} \cap DOMAIN rules = {found}
                                          /\ Min({found}) = found
PROOF
<1> DEFINE bounds == [i \in DOMAIN rules |-> UpperBound(rules, i)]
           before == [i \in DOMAIN bounds |-> ~(bucket < bounds[i])]
           found == FindRolloutIndex(bounds, bucket)
<1>1. Len(rules) \in Nat /\ DOMAIN rules = 1 .. Len(rules)
  BY SequenceDomain
<1>2. \A i \in DOMAIN rules : UpperBound(rules, i) \in Nat
  BY <1>1, BoundsRise
<1>3. \A i, j \in DOMAIN rules : i < j => UpperBound(rules, i) < UpperBound(rules, j)
  BY <1>1, BoundsRise
<1>4. DOMAIN before = 1 .. Len(rules) /\ \A i \in DOMAIN rules : before[i] <=> ~(bucket < UpperBound(rules, i))
  BY <1>1
<1>5. Len(before) = Len(rules)
  <2> HIDE DEF before
  <2> QED BY <1>1, <1>4
<1>6. found = FirstNotBefore(before)
  BY DEF FindRolloutIndex
<1> HIDE DEF before, found, bounds
<1>7. \A i, j \in DOMAIN before : (i < j /\ before[j]) => before[i]
  BY <1>1, <1>2, <1>3, <1>4
<1>8. found \in 1 .. Len(rules) + 1 /\ \A i \in DOMAIN rules : before[i] <=> i < found
  BY <1>1, <1>4, <1>5, <1>6, <1>7, SearchFinds
<1>9. RuleOf(rules, bucket) = found .. Len(rules)
  BY <1>1, <1>4, <1>8 DEF RuleOf
<1>10. found = Len(rules) + 1 => RuleOf(rules, bucket) = {} /\ {found} \cap DOMAIN rules = {}
  BY <1>1, <1>9
<1>11. ASSUME found \in DOMAIN rules
       PROVE  /\ RuleOf(rules, bucket) # {}
              /\ Min(RuleOf(rules, bucket)) = found
              /\ {found} \cap DOMAIN rules = {found}
              /\ Min({found}) = found
  <2>1. found \in 1 .. Len(rules) /\ {found} = found .. found
    BY <1>1, <1>11
  <2>2. Min(found .. Len(rules)) = found
    BY <1>1, <2>1, LeastFrom
  <2>3. found \in Nat /\ found \in 1 .. found
    BY <2>1
  <2>4. Min(found .. found) = found
    BY <2>3, LeastFrom
  <2> QED BY <1>1, <1>9, <2>1, <2>2, <2>4
<1> QED BY <1>8, <1>9, <1>10, <1>11 DEF found, bounds

(* A rollout and its captured copy.                                        *)
LEMMA RolloutShape ==
  ASSUME NEW rollout \in Rollouts
  PROVE  /\ rollout # Undefined /\ IsSequence(rollout.rules)
         /\ rollout.index = Undefined
         /\ PlainRollout(rollout) = rollout
         /\ PlainRollout(CapturedRollout(rollout)) = rollout
         /\ CapturedRollout(rollout) # Undefined
         /\ CapturedRollout(rollout) =
              [rules |-> rollout.rules, index |-> IndexValidatedRollout(rollout.rules)]
PROOF
<1>1. /\ rollout = [rules |-> rollout.rules, index |-> Undefined]
      /\ IsSequence(rollout.rules)
      /\ Undefined \notin {rollout, CapturedRollout(rollout)}
  BY RolloutsAssumption
<1>2. CapturedRollout(rollout) = [rules |-> rollout.rules, index |-> IndexValidatedRollout(rollout.rules)]
  BY <1>1 DEF CapturedRollout
<1>3. PlainRollout(rollout) = rollout
  BY <1>1 DEF PlainRollout
<1>4. PlainRollout(CapturedRollout(rollout)) = rollout
  BY <1>1, <1>2 DEF PlainRollout
<1> QED BY <1>1, <1>2, <1>3, <1>4

(* Without an index the first rule whose bound is above the bucket.        *)
LEMMA SelectedDirectly ==
  ASSUME NEW rollout \in Rollouts, NEW bucketOf
  PROVE  LET rules  == rollout.rules
             bucket == bucketOf[RolloutSeed(rules)]
         IN  SelectRolloutVariant(rollout, bucketOf) =
               [bucket |-> bucket,
                variant |-> IF RuleOf(rules, bucket) = {} THEN Undefined
                            ELSE rules[Min(RuleOf(rules, bucket))].variant]
PROOF
<1>1. rollout.index = Undefined
  BY RolloutShape
<1> QED BY <1>1 DEF SelectRolloutVariant, RuleOf

(* The index of a rollout chooses what reading its rules in order          *)
(* chooses.                                                                *)
LEMMA SelectedAlike ==
  ASSUME NEW rollout \in Rollouts,
         \A i \in DOMAIN rollout.rules : rollout.rules[i].percentage \in Nat \ {0},
         NEW bucketOf, bucketOf[RolloutSeed(rollout.rules)] \in Nat
  PROVE  SelectRolloutVariant(CapturedRollout(rollout), bucketOf) = SelectRolloutVariant(rollout, bucketOf)
PROOF
<1> DEFINE rules == rollout.rules
           seed == RolloutSeed(rules)
           bucket == bucketOf[seed]
           bounds == [i \in DOMAIN rules |-> UpperBound(rules, i)]
           found == FindRolloutIndex(bounds, bucket)
           captured == CapturedRollout(rollout)
           chosen == {found} \cap DOMAIN rules
<1>1. captured.rules = rules /\ captured.index = IndexValidatedRollout(rules) /\ IsSequence(rules)
  BY RolloutShape
<1>2. CASE captured.index = Undefined
  BY <1>1, <1>2, RolloutShape DEF SelectRolloutVariant
<1>3. CASE captured.index # Undefined
  <2>1. captured.index = [seed |-> seed, upperBounds |-> bounds]
    BY <1>1, <1>3 DEF IndexValidatedRollout
  <2>2. captured.index.seed = seed /\ captured.index.upperBounds = bounds
    BY <2>1
  <2>3. SelectRolloutVariant(captured, bucketOf) =
          [bucket |-> bucket,
           variant |-> IF chosen = {} THEN Undefined ELSE rules[Min(chosen)].variant]
    <3> HIDE DEF bounds, captured
    <3> QED BY <1>1, <1>3, <2>2 DEF SelectRolloutVariant
  <2>4. SelectRolloutVariant(rollout, bucketOf) =
          [bucket |-> bucket,
           variant |-> IF RuleOf(rules, bucket) = {} THEN Undefined
                       ELSE rules[Min(RuleOf(rules, bucket))].variant]
    BY SelectedDirectly
  <2>5. /\ found \in 1 .. Len(rules) + 1
        /\ found = Len(rules) + 1 => RuleOf(rules, bucket) = {} /\ chosen = {}
        /\ found \in DOMAIN rules => /\ RuleOf(rules, bucket) # {}
                                     /\ Min(RuleOf(rules, bucket)) = found
                                     /\ chosen # {}
                                     /\ Min(chosen) = found
    BY <1>1, IndexFindsRule
  <2>6. found = Len(rules) + 1 \/ found \in DOMAIN rules
    <3>1. Len(rules) \in Nat /\ DOMAIN rules = 1 .. Len(rules)
      BY <1>1, SequenceDomain
    <3> HIDE DEF found, rules
    <3> QED BY <2>5, <3>1
  <2> HIDE DEF found, bounds, rules, chosen, captured, bucket
  <2> QED BY <2>3, <2>4, <2>5, <2>6 DEF captured
<1> HIDE DEF captured
<1> QED BY <1>2, <1>3 DEF captured

(* The largest of the numbers up to one is that one.                       *)
LEMMA LargestUpTo ==
  ASSUME NEW n \in Nat
  PROVE  Max(0 .. n) = n
PROOF
<1>1. n \in 0 .. n /\ \A y \in 0 .. n : n >= y
  OBVIOUS
<1>2. \A x \in 0 .. n : (\A y \in 0 .. n : x >= y) => x = n
  OBVIOUS
<1> QED BY <1>1, <1>2 DEF Max

(* Of valid stages, a later one begins later and has no smaller share.     *)
LEMMA StagesRise ==
  ASSUME NEW stages, IsSequence(stages), ValidStages(stages)
  PROVE  \A i, j \in DOMAIN stages : i <= j =>
           stages[i].at <= stages[j].at /\ stages[i].percentage <= stages[j].percentage
PROOF
<1> DEFINE at(i) == stages[i].at
           percentage(i) == stages[i].percentage
<1>1. Len(stages) \in Nat /\ DOMAIN stages = 1 .. Len(stages)
  BY SequenceDomain
<1>2. \A i \in DOMAIN stages : /\ at(i) \in Nat /\ percentage(i) \in Int
                               /\ i > 1 => at(i - 1) < at(i) /\ percentage(i - 1) <= percentage(i)
  BY DEF ValidStages, ValidScheduleTime
<1> HIDE DEF at, percentage
<1> DEFINE S == {n \in Nat : n \in DOMAIN stages => \A i \in DOMAIN stages : i <= n =>
                   at(i) <= at(n) /\ percentage(i) <= percentage(n)}
<1>3. 0 \in S
  BY <1>1
<1>4. ASSUME NEW n \in Nat, n \in S PROVE n + 1 \in S
  <2> SUFFICES ASSUME n + 1 \in DOMAIN stages, NEW i \in DOMAIN stages, i <= n + 1
               PROVE  at(i) <= at(n + 1) /\ percentage(i) <= percentage(n + 1)
    OBVIOUS
  <2>1. CASE i = n + 1
    BY <1>2, <2>1
  <2>2. CASE i # n + 1
    <3>1. n \in DOMAIN stages /\ n + 1 > 1 /\ (n + 1) - 1 = n /\ i <= n
      BY <1>1, <2>2
    <3>2. at(i) <= at(n) /\ percentage(i) <= percentage(n)
      BY <1>4, <3>1
    <3>3. at(n) < at(n + 1) /\ percentage(n) <= percentage(n + 1)
      BY <1>2, <3>1
    <3>4. /\ at(i) \in Nat /\ at(n) \in Nat /\ at(n + 1) \in Nat
          /\ percentage(i) \in Int /\ percentage(n) \in Int /\ percentage(n + 1) \in Int
      BY <1>2, <3>1
    <3> QED BY <3>2, <3>3, <3>4
  <2> QED BY <2>1, <2>2
<1>5. Nat \subseteq S
  <2> HIDE DEF S
  <2> QED BY <1>3, <1>4, NaturalInduction
<1>6. \A i, j \in DOMAIN stages : i <= j => at(i) <= at(j) /\ percentage(i) <= percentage(j)
  BY <1>1, <1>5
<1> QED BY <1>6 DEF at, percentage

(* The stage found by halving is the last that has begun.                  *)
LEMMA StageFound ==
  ASSUME NEW stages, IsSequence(stages), ValidStages(stages), NEW time \in Nat
  PROVE  /\ FindOrderedStage(stages, time) = LastBegun(stages, time)
         /\ LastBegun(stages, time) \in 0 .. Len(stages)
         /\ \A i \in DOMAIN stages : stages[i].at <= time <=> i <= LastBegun(stages, time)
PROOF
<1> DEFINE before == [i \in DOMAIN stages |-> stages[i].at <= time]
           found == FirstNotBefore(before)
           begun == {i \in 0 .. Len(stages) : \A j \in 1 .. i : stages[j].at <= time}
<1>1. Len(stages) \in Nat /\ DOMAIN stages = 1 .. Len(stages)
  BY SequenceDomain
<1>2. \A i \in DOMAIN stages : stages[i].at \in Nat
  BY DEF ValidStages, ValidScheduleTime
<1>3. DOMAIN before = 1 .. Len(stages) /\ \A i \in DOMAIN stages : before[i] <=> stages[i].at <= time
  BY <1>1
<1>4. Len(before) = Len(stages)
  <2> HIDE DEF before
  <2> QED BY <1>1, <1>3
<1>5. FindOrderedStage(stages, time) = found - 1
  BY DEF FindOrderedStage
<1> HIDE DEF before, found
<1>6. \A i, j \in DOMAIN before : (i < j /\ before[j]) => before[i]
  <2> SUFFICES ASSUME NEW i \in DOMAIN stages, NEW j \in DOMAIN stages, i < j, stages[j].at <= time
               PROVE  stages[i].at <= time
    BY <1>1, <1>3
  <2>1. stages[i].at <= stages[j].at
    BY <1>1, StagesRise
  <2> QED BY <1>2, <2>1
<1>7. found \in 1 .. Len(stages) + 1 /\ \A i \in DOMAIN stages : before[i] <=> i < found
  BY <1>1, <1>3, <1>4, <1>6, SearchFinds DEF found
<1>8. begun = 0 .. found - 1
  <2>1. \A i \in 0 .. Len(stages) : (\A j \in 1 .. i : stages[j].at <= time) <=> i < found
    <3> SUFFICES ASSUME NEW i \in 0 .. Len(stages)
                 PROVE  (\A j \in 1 .. i : stages[j].at <= time) <=> i < found
      OBVIOUS
    <3>1. \A j \in 1 .. i : stages[j].at <= time <=> j < found
      BY <1>1, <1>3, <1>7
    <3>2. (\A j \in 1 .. i : j < found) <=> i < found
      BY <1>7
    <3> QED BY <3>1, <3>2
  <2> QED BY <1>1, <1>7, <2>1
<1>9. Max(begun) = found - 1
  <2>1. found - 1 \in Nat
    BY <1>1, <1>7
  <2>2. Max(0 .. found - 1) = found - 1
    BY <2>1, LargestUpTo
  <2> QED BY <1>8, <2>2
<1>10. LastBegun(stages, time) = found - 1
  BY <1>9 DEF LastBegun
<1> QED BY <1>1, <1>3, <1>5, <1>7, <1>10

(* A schedule chooses alike with either search.                            *)
LEMMA ScheduledAlike ==
  ASSUME NEW schedule, IsSchedule(schedule), ValidStages(schedule.stages), NEW time \in Nat,
         NEW bucketOf
  PROVE  SelectScheduledVariant(schedule, time, bucketOf, TRUE) =
           SelectScheduledVariant(schedule, time, bucketOf, FALSE)
PROOF
BY StageFound DEF SelectScheduledVariant, IsSchedule

(* A greater percentage has no fewer buckets.                              *)
LEMMA CountsRise ==
  ASSUME NEW low \in Nat, NEW high \in Nat, low <= high
  PROVE  /\ PercentageToBucketCount(low) \in Nat /\ PercentageToBucketCount(high) \in Nat
         /\ PercentageToBucketCount(low) <= PercentageToBucketCount(high)
PROOF
<1>1. (low + 1) \div 2 \in Nat /\ (high + 1) \div 2 \in Nat /\ (low + 1) \div 2 <= (high + 1) \div 2
  OBVIOUS
<1> QED BY <1>1 DEF PercentageToBucketCount

(* A valid schedule that gave a bucket its variant still does later.       *)
THEOREM ValidScheduleGrows ==
  ASSUME NEW schedule, IsSchedule(schedule), ValidStages(schedule.stages),
         schedule.variant # Undefined,
         NEW early \in Nat, NEW late \in Nat, early <= late, NEW bucket \in Nat,
         Scheduled(schedule, early, bucket)
  PROVE  Scheduled(schedule, late, bucket)
PROOF
<1> DEFINE stages == schedule.stages
           share(time) == IF LastBegun(stages, time) = 0 THEN 0
                          ELSE stages[LastBegun(stages, time)].percentage
<1>1. IsSequence(stages) /\ Len(stages) \in Nat /\ DOMAIN stages = 1 .. Len(stages)
  BY SequenceDomain DEF IsSchedule
<1>2. ASSUME NEW time \in Nat
      PROVE  Scheduled(schedule, time, bucket) <=> bucket < PercentageToBucketCount(share(time))
  <2> DEFINE seeds == {schedule.seed, DefaultSeed}
             seed == IF schedule.seed = Undefined THEN DefaultSeed ELSE schedule.seed
             bucketOf == [s \in seeds |-> bucket]
  <2>1. bucketOf[seed] = bucket
    OBVIOUS
  <2>2. FindOrderedStage(stages, time) = LastBegun(stages, time)
    BY <1>1, StageFound
  <2>3. SelectScheduledVariant(schedule, time, bucketOf, TRUE).variant =
          IF bucket < PercentageToBucketCount(share(time)) THEN schedule.variant ELSE Undefined
    <3> HIDE DEF bucketOf
    <3> QED BY <2>1, <2>2 DEF SelectScheduledVariant
  <2> QED BY <2>3 DEF Scheduled
<1>3. LastBegun(stages, early) \in 0 .. Len(stages) /\ LastBegun(stages, late) \in 0 .. Len(stages)
  BY <1>1, StageFound
<1>4. LastBegun(stages, early) <= LastBegun(stages, late)
  <2>1. CASE LastBegun(stages, early) = 0
    BY <1>3, <2>1
  <2>2. CASE LastBegun(stages, early) # 0
    <3> DEFINE i == LastBegun(stages, early)
    <3>1. i \in DOMAIN stages
      BY <1>1, <1>3, <2>2
    <3>2. stages[i].at <= early
      <4>1. \A k \in DOMAIN stages : stages[k].at <= early <=> k <= LastBegun(stages, early)
        BY <1>1, StageFound
      <4>2. i <= i
        BY <1>3
      <4> QED BY <3>1, <4>1, <4>2
    <3>3. stages[i].at \in Nat
      BY <3>1 DEF ValidStages, ValidScheduleTime
    <3>4. stages[i].at <= late
      BY <3>2, <3>3
    <3> QED BY <1>1, <3>1, <3>4, StageFound
  <2> QED BY <2>1, <2>2
<1>5. \A i \in DOMAIN stages : stages[i].percentage \in Nat
  BY DEF ValidStages
<1>6. share(early) \in Nat /\ share(late) \in Nat /\ share(early) <= share(late)
  <2>1. share(early) \in Nat /\ share(late) \in Nat
    BY <1>1, <1>3, <1>5
  <2>2. CASE LastBegun(stages, early) = 0
    BY <2>1, <2>2
  <2>3. CASE LastBegun(stages, early) # 0
    <3>1. LastBegun(stages, early) \in DOMAIN stages /\ LastBegun(stages, late) \in DOMAIN stages
      BY <1>1, <1>3, <1>4, <2>3
    <3>2. LastBegun(stages, late) # 0
      BY <1>1, <3>1
    <3>3. stages[LastBegun(stages, early)].percentage <= stages[LastBegun(stages, late)].percentage
      BY <1>1, <1>4, <3>1, StagesRise
    <3> QED BY <2>1, <2>3, <3>2, <3>3
  <2> QED BY <2>2, <2>3
<1> HIDE DEF share
<1>7. /\ PercentageToBucketCount(share(early)) \in Nat /\ PercentageToBucketCount(share(late)) \in Nat
      /\ PercentageToBucketCount(share(early)) <= PercentageToBucketCount(share(late))
  BY <1>6, CountsRise
<1> QED BY <1>2, <1>7

(* A percentage that is a whole number of buckets is not rounded.          *)
LEMMA EvenHalves ==
  ASSUME NEW percentage \in Nat, percentage % 2 = 0
  PROVE  PercentageToBucketCount(percentage) = percentage \div 2
PROOF
<1>1. (percentage + 1) \div 2 = percentage \div 2
  OBVIOUS
<1> QED BY <1>1 DEF PercentageToBucketCount

(* The buckets from the bound before a rule up to its own fall to it.      *)
LEMMA BucketsOfRule ==
  ASSUME NEW rules, IsSequence(rules),
         \A i \in DOMAIN rules : rules[i].percentage \in Nat \ {0},
         NEW bucket \in Nat
  PROVE  /\ \A i \in DOMAIN rules :
              (UpperBound(rules, i - 1) <= bucket /\ bucket < UpperBound(rules, i)) =>
                RuleOf(rules, bucket) # {} /\ Min(RuleOf(rules, bucket)) = i
         /\ RuleOf(rules, bucket) # {} =>
              LET i == Min(RuleOf(rules, bucket))
              IN  /\ i \in DOMAIN rules
                  /\ UpperBound(rules, i - 1) <= bucket /\ bucket < UpperBound(rules, i)
PROOF
<1> DEFINE Bound(i) == UpperBound(rules, i)
           ruleOf == RuleOf(rules, bucket)
<1>1. Len(rules) \in Nat /\ DOMAIN rules = 1 .. Len(rules)
  BY SequenceDomain
<1>2. /\ \A i \in 0 .. Len(rules) : Bound(i) \in Nat
      /\ \A i, j \in 0 .. Len(rules) : i < j => Bound(i) < Bound(j)
      /\ Bound(0) = 0
  BY BoundsRise
<1>3. ruleOf = {i \in DOMAIN rules : bucket < Bound(i)}
  BY DEF RuleOf
<1> HIDE DEF Bound, ruleOf
<1>4. ruleOf \in SUBSET Nat
  BY <1>1, <1>3
<1>5. ruleOf # {} => Min(ruleOf) \in ruleOf /\ \A i \in ruleOf : Min(ruleOf) <= i
  BY <1>4, LeastOfNaturals
<1>6. ASSUME NEW i \in DOMAIN rules, Bound(i - 1) <= bucket, bucket < Bound(i)
      PROVE  ruleOf # {} /\ Min(ruleOf) = i
  <2>1. i \in ruleOf
    BY <1>3, <1>6
  <2>2. ASSUME NEW k \in ruleOf, k < i PROVE FALSE
    <3>1. k \in 1 .. Len(rules) /\ bucket < Bound(k) /\ i - 1 \in 0 .. Len(rules) /\ k <= i - 1
      BY <1>1, <1>3, <2>2
    <3>2. Bound(k) <= Bound(i - 1)
      <4>1. CASE k = i - 1
        BY <1>2, <3>1, <4>1
      <4>2. CASE k < i - 1
        <5>1. k \in 0 .. Len(rules)
          BY <3>1
        <5>2. Bound(k) < Bound(i - 1)
          BY <1>2, <3>1, <4>2, <5>1
        <5> QED BY <1>2, <3>1, <5>1, <5>2
      <4> QED BY <1>1, <3>1, <4>1, <4>2
    <3>3. Bound(k) \in Nat /\ Bound(i - 1) \in Nat
      BY <1>2, <3>1
    <3> QED BY <1>6, <3>1, <3>2, <3>3
  <2>3. Min(ruleOf) \in Nat /\ i \in Nat
    BY <1>4, <1>5, <2>1
  <2> QED BY <1>5, <2>1, <2>2, <2>3
<1>7. ASSUME ruleOf # {}
      PROVE  LET i == Min(ruleOf) IN i \in DOMAIN rules /\ Bound(i - 1) <= bucket /\ bucket < Bound(i)
  <2> DEFINE i == Min(ruleOf)
  <2>1. i \in DOMAIN rules /\ bucket < Bound(i)
    BY <1>3, <1>5, <1>7
  <2> HIDE DEF i
  <2>2. CASE i = 1
    BY <1>2, <2>1, <2>2 DEF i
  <2>3. CASE i # 1
    <3>1. i - 1 \in DOMAIN rules /\ i - 1 < i /\ i \in Nat /\ i - 1 \in 0 .. Len(rules)
      BY <1>1, <2>1, <2>3
    <3>2. i - 1 \notin ruleOf
      <4>1. \A k \in ruleOf : i <= k
        BY <1>5, <1>7 DEF i
      <4> QED BY <3>1, <4>1
    <3>3. Bound(i - 1) \in Nat /\ ~(bucket < Bound(i - 1))
      BY <1>2, <1>3, <3>1, <3>2
    <3>4. Bound(i - 1) <= bucket
      BY <3>3
    <3> QED BY <2>1, <3>4 DEF i
  <2> QED BY <2>2, <2>3
<1> QED BY <1>6, <1>7 DEF Bound, ruleOf

(* The shares of a variant: a place in the share of one of its rules.      *)
FallTo(rules, name) ==
  {bucket \in 0 .. BucketScale - 1 :
     RuleOf(rules, bucket) # {} /\ rules[Min(RuleOf(rules, bucket))].variant = name}

(* A variant falls to exactly as many buckets as its rules ask for: each   *)
(* rule's buckets are the ones between its bound and the one before.       *)
THEOREM SharesOfVariant ==
  ASSUME NEW rules, IsSequence(rules), NEW variants, NEW version,
         ValidRollout(rules, variants, version), NEW name
  PROVE  Cardinality(FallTo(rules, name)) = Cardinality(Shares(rules, name))
PROOF
<1> DEFINE Bound(i) == UpperBound(rules, i)
           ruleOf(b) == Min(RuleOf(rules, b))
           count(i) == rules[i].percentage \div 2
           B == {bucket \in 0 .. BucketScale - 1 :
                   RuleOf(rules, bucket) # {} /\ rules[ruleOf(bucket)].variant = name}
           T == {share \in (DOMAIN rules) \X (1 .. BucketScale) :
                   rules[share[1]].variant = name /\ share[2] <= count(share[1])}
           F == [b \in B |-> <<ruleOf(b), b - Bound(ruleOf(b) - 1) + 1>>]
<1>1. Len(rules) \in Nat /\ DOMAIN rules = 1 .. Len(rules) /\ BucketScale \in Nat
  BY SequenceDomain, RolloutsAssumption
<1>2. \A i \in DOMAIN rules : /\ rules[i].percentage \in Nat \ {0}
                              /\ rules[i].percentage <= 2 * BucketScale
                              /\ rules[i].percentage % 2 = 0
  BY <1>1 DEF ValidRollout, HasRolloutPrecision
<1>3. \A i \in DOMAIN rules : /\ count(i) = PercentageToBucketCount(rules[i].percentage)
                              /\ count(i) \in Nat /\ count(i) <= BucketScale
  <2> SUFFICES ASSUME NEW i \in DOMAIN rules
               PROVE  /\ count(i) = PercentageToBucketCount(rules[i].percentage)
                      /\ count(i) \in Nat /\ count(i) <= BucketScale
    OBVIOUS
  <2> DEFINE percentage == rules[i].percentage
  <2>1. percentage \in Nat /\ percentage <= 2 * BucketScale /\ percentage % 2 = 0
    BY <1>2
  <2> HIDE DEF percentage
  <2>2. percentage \div 2 \in Nat /\ percentage \div 2 <= BucketScale
    BY <1>1, <2>1
  <2>3. PercentageToBucketCount(percentage) = percentage \div 2
    BY <2>1, EvenHalves
  <2> QED BY <2>2, <2>3 DEF percentage
<1>4. /\ \A i \in 0 .. Len(rules) : Bound(i) \in Nat
      /\ \A i \in DOMAIN rules : Bound(i) = Bound(i - 1) + count(i)
      /\ \A i, j \in 0 .. Len(rules) : i < j => Bound(i) < Bound(j)
  BY <1>2, <1>3, BoundsRise
<1>5. Bound(Len(rules)) <= BucketScale
  BY DEF ValidRollout
<1>6. \A b \in Nat : RuleOf(rules, b) # {} =>
         /\ ruleOf(b) \in DOMAIN rules
         /\ Bound(ruleOf(b) - 1) <= b /\ b < Bound(ruleOf(b))
  BY <1>2, BucketsOfRule
<1>7. \A b \in Nat, i \in DOMAIN rules : (Bound(i - 1) <= b /\ b < Bound(i)) =>
         RuleOf(rules, b) # {} /\ ruleOf(b) = i
  BY <1>2, BucketsOfRule
<1>8. \A b \in B : /\ b \in Nat /\ b < BucketScale /\ RuleOf(rules, b) # {}
                   /\ rules[ruleOf(b)].variant = name
  BY <1>1
<1>9. \A b \in Nat : (b < BucketScale /\ RuleOf(rules, b) # {} /\ rules[ruleOf(b)].variant = name) => b \in B
  BY <1>1
<1>10. \A share \in T : /\ share[1] \in DOMAIN rules /\ share[2] \in 1 .. count(share[1])
                        /\ share = <<share[1], share[2]>> /\ rules[share[1]].variant = name
  BY <1>1, <1>3
<1>11. \A i \in DOMAIN rules, n \in Nat :
         (1 <= n /\ n <= count(i) /\ rules[i].variant = name) => <<i, n>> \in T
  <2> SUFFICES ASSUME NEW i \in DOMAIN rules, NEW n \in Nat, 1 <= n, n <= count(i), rules[i].variant = name
               PROVE  <<i, n>> \in T
    OBVIOUS
  <2>1. n \in 1 .. BucketScale
    BY <1>1, <1>3
  <2> DEFINE share == <<i, n>>
  <2>2. share \in (DOMAIN rules) \X (1 .. BucketScale) /\ share[1] = i /\ share[2] = n
    BY <2>1
  <2> HIDE DEF share, count
  <2> QED BY <2>2 DEF share
<1>12. IsFiniteSet(B)
  <2>1. IsFiniteSet(0 .. BucketScale - 1)
    BY <1>1, FS_Interval
  <2> QED BY <2>1, FS_Subset
<1>13. \A b \in B : F[b] = <<ruleOf(b), b - Bound(ruleOf(b) - 1) + 1>>
  OBVIOUS
<1>14. DOMAIN F = B /\ F = [b \in B |-> F[b]]
  OBVIOUS
<1> HIDE DEF Bound, ruleOf, count, B, T, F
<1>15. ASSUME NEW b \in B
       PROVE  /\ F[b] \in T
              /\ F[b][1] = ruleOf(b) /\ F[b][2] = b - Bound(ruleOf(b) - 1) + 1
              /\ ruleOf(b) \in DOMAIN rules /\ Bound(ruleOf(b) - 1) \in Nat /\ b \in Nat
  <2> DEFINE i == ruleOf(b)
             n == b - Bound(i - 1) + 1
  <2>1. /\ b \in Nat /\ i \in DOMAIN rules /\ Bound(i - 1) <= b /\ b < Bound(i)
        /\ rules[i].variant = name
    BY <1>6, <1>8
  <2> HIDE DEF i
  <2>2. /\ i - 1 \in 0 .. Len(rules) /\ i \in 0 .. Len(rules)
        /\ Bound(i - 1) \in Nat /\ Bound(i) = Bound(i - 1) + count(i) /\ count(i) \in Nat
    BY <1>1, <1>3, <1>4, <2>1
  <2>3. n \in Nat /\ 1 <= n /\ n <= count(i)
    BY <2>1, <2>2
  <2> HIDE DEF n
  <2>4. <<i, n>> \in T
    BY <1>11, <2>1, <2>3
  <2>5. F[b] = <<i, n>>
    BY <1>13 DEF i, n
  <2> QED BY <2>1, <2>2, <2>4, <2>5 DEF i, n
<1>16. F \in [B -> T]
  <2>1. \A b \in B : F[b] \in T
    BY <1>15
  <2> QED BY <1>14, <2>1
<1>17. ASSUME NEW a \in B, NEW b \in B, F[a] = F[b] PROVE a = b
  <2>1. ruleOf(a) = ruleOf(b) /\ a - Bound(ruleOf(a) - 1) + 1 = b - Bound(ruleOf(b) - 1) + 1
    BY <1>15, <1>17
  <2>2. a \in Nat /\ b \in Nat /\ Bound(ruleOf(a) - 1) \in Nat
    BY <1>15
  <2> QED BY <2>1, <2>2
<1>18. ASSUME NEW t \in T PROVE \E b \in B : F[b] = t
  <2> DEFINE i == t[1]
             n == t[2]
             b == Bound(i - 1) + n - 1
  <2>1. i \in DOMAIN rules /\ n \in 1 .. count(i) /\ t = <<i, n>> /\ rules[i].variant = name
    BY <1>10
  <2> HIDE DEF i, n
  <2>2. /\ i - 1 \in 0 .. Len(rules) /\ i \in 0 .. Len(rules) /\ Len(rules) \in 0 .. Len(rules)
        /\ Bound(i - 1) \in Nat /\ Bound(i) = Bound(i - 1) + count(i) /\ count(i) \in Nat
    BY <1>1, <1>3, <1>4, <2>1
  <2>3. b \in Nat /\ Bound(i - 1) <= b /\ b < Bound(i) /\ b - Bound(i - 1) + 1 = n
    BY <2>1, <2>2
  <2>4. Bound(i) <= Bound(Len(rules)) /\ Bound(Len(rules)) \in Nat /\ Bound(i) \in Nat
    <3>1. i = Len(rules) \/ i < Len(rules)
      BY <1>1, <2>1
    <3>2. Bound(Len(rules)) \in Nat /\ Bound(i) \in Nat
      BY <1>4, <2>2
    <3>3. i < Len(rules) => Bound(i) < Bound(Len(rules))
      BY <1>4, <2>2
    <3> QED BY <3>1, <3>2, <3>3
  <2>5. b < BucketScale
    BY <1>1, <1>5, <2>3, <2>4
  <2> HIDE DEF b
  <2>6. RuleOf(rules, b) # {} /\ ruleOf(b) = i
    BY <1>7, <2>1, <2>3
  <2>7. b \in B
    BY <1>9, <2>1, <2>3, <2>5, <2>6
  <2>8. F[b] = <<i, n>>
    BY <1>13, <2>3, <2>6, <2>7
  <2> QED BY <2>1, <2>7, <2>8
<1>19. F \in Bijection(B, T)
  <2>1. \A a, b \in B : F[a] = F[b] => a = b
    BY <1>17
  <2>2. \A t \in T : \E b \in B : F[b] = t
    BY <1>18
  <2> QED BY <1>16, <2>1, <2>2, Fun_IsBij
<1>20. ExistsBijection(B, T)
  BY <1>19 DEF ExistsBijection
<1>21. Cardinality(T) = Cardinality(B)
  BY <1>12, <1>20, FS_Bijection
<1> QED BY <1>21 DEF B, T, ruleOf, count, FallTo, Shares

(* The leaves of a condition are leaves.                                   *)
LEMMA LeavesOfConditions ==
  ASSUME NEW c \in TargetingCondition
  PROVE  LeavesOf(c) \subseteq Leaves \cup IndexedLeaves
PROOF
<1> DEFINE S == {d \in TargetingCondition : LeavesOf(d) \subseteq Leaves \cup IndexedLeaves}
<1>1. ASSUME NEW d \in TargetingCondition, Parts(d) \subseteq S PROVE d \in S
  <2>1. CASE IsLeafCondition(d)
    BY <2>1, LeavesDefined DEF IsLeafCondition
  <2>2. CASE IsNegation(d)
    BY <1>1, <2>2, LeavesDefined DEF IsNegation, Parts
  <2>3. CASE IsGroup(d)
    <3>1. LeavesOf(d) = UNION {LeavesOf(d.of[i]) : i \in DOMAIN d.of}
      BY <2>3, LeavesDefined DEF IsGroup
    <3>2. \A i \in DOMAIN d.of : LeavesOf(d.of[i]) \subseteq Leaves \cup IndexedLeaves
      BY <1>1, <2>3 DEF IsGroup, Parts
    <3> QED BY <3>1, <3>2
  <2> QED BY <2>1, <2>2, <2>3, ConditionShape
<1>2. c \in S
  <2> HIDE DEF S
  <2> QED BY <1>1, ConditionInduction
<1> QED BY <1>2

-----------------------------------------------------------------------------
(* What an evaluation needs of a snapshot.                                 *)

Positive(rollout) == \A i \in DOMAIN rollout.rules : rollout.rules[i].percentage \in Nat \ {0}

SoundRollout(rollout) ==
  rollout # Undefined =>
    \E raw \in Rollouts : rollout = raw \/ (Positive(raw) /\ rollout = CapturedRollout(raw))

SoundRule(rule) ==
  /\ DOMAIN rule = {"id", "when", "variant", "rollout"}
  /\ rule.when \in TargetingCondition
  /\ SoundRollout(rule.rollout)

SoundFlag(flag) ==
  /\ DOMAIN flag = {"type", "variants", "defaultVariant", "rollout", "envVar", "rules",
                    "disabledVariant", "schedule", "unknownField"}
  /\ SoundRollout(flag.rollout)
  /\ flag.schedule # Undefined => IsSchedule(flag.schedule)
  /\ IsSequence(flag.rules)
  /\ \A i \in DOMAIN flag.rules : SoundRule(flag.rules[i])

SoundSnapshot(snapshot) ==
  /\ DOMAIN snapshot = {"ownData", "schemaVersion", "validated", "flags"}
  /\ \A key \in DOMAIN snapshot.flags :
       /\ SoundFlag(snapshot.flags[key])
       /\ (snapshot.validated /\ snapshot.flags[key].schedule # Undefined) =>
            ValidStages(snapshot.flags[key].schedule.stages)

(* A snapshot as its type has it is sound, valid or not.                   *)
LEMMA RawSnapshotSound ==
  ASSUME NEW snapshot, IsSnapshot(snapshot)
  PROVE  SoundSnapshot(snapshot)
PROOF
<1>1. ASSUME NEW rollout \in Rollouts \cup {Undefined} PROVE SoundRollout(rollout)
  BY DEF SoundRollout
<1>2. ASSUME NEW key \in DOMAIN snapshot.flags PROVE SoundFlag(snapshot.flags[key])
  <2> DEFINE flag == snapshot.flags[key]
  <2>1. IsFlag(flag)
    BY DEF IsSnapshot, IsSnapshotOf, IsFlag
  <2> HIDE DEF flag
  <2>2. \A i \in DOMAIN flag.rules : SoundRule(flag.rules[i])
    BY <1>1, <2>1 DEF IsFlag, IsFlagOf, IsRuleOf, SoundRule
  <2> QED BY <1>1, <2>1, <2>2 DEF IsFlag, IsFlagOf, SoundFlag, flag
<1> QED BY <1>2 DEF IsSnapshot, IsSnapshotOf, SoundSnapshot

(* Mapping a sequence leaves it one, of the same length.                   *)
LEMMA MappedSequence ==
  ASSUME NEW rules, NEW mapped, IsSequence(rules), DOMAIN mapped = DOMAIN rules,
         mapped = [i \in DOMAIN rules |-> mapped[i]]
  PROVE  IsSequence(mapped) /\ Len(mapped) = Len(rules)
PROOF
<1>1. Len(rules) \in Nat /\ DOMAIN rules = 1 .. Len(rules)
  BY SequenceDomain
<1>2. \A i \in 1 .. Len(rules) : mapped[i] \in Range(mapped)
  BY <1>1 DEF Range
<1>3. mapped \in [1 .. Len(rules) -> Range(mapped)]
  BY <1>1, <1>2
<1>4. mapped \in Seq(Range(mapped))
  BY <1>1, <1>3
<1> QED BY <1>1, <1>4 DEF IsSequence

(* What validation passes and captures.                                    *)
LEMMA ValidRolloutPositive ==
  ASSUME NEW rollout, NEW variants, NEW version, ValidRollout(rollout.rules, variants, version)
  PROVE  Positive(rollout)
PROOF
BY RolloutsAssumption DEF ValidRollout, Positive

(* The captured copy of a rollout is sound.                                *)
LEMMA CapturedRolloutSound ==
  ASSUME NEW rollout \in Rollouts \cup {Undefined}, rollout # Undefined => Positive(rollout)
  PROVE  /\ SoundRollout(CapturedRollout(rollout))
         /\ CapturedRollout(rollout) = Undefined <=> rollout = Undefined
PROOF
<1>1. CASE rollout = Undefined
  BY <1>1 DEF CapturedRollout, SoundRollout
<1>2. CASE rollout # Undefined
  BY <1>2, RolloutShape DEF SoundRollout
<1> QED BY <1>1, <1>2

(* The captured copy of a valid rule is sound and keeps its fields.        *)
LEMMA CapturedRuleSound ==
  ASSUME NEW rule, IsRule(rule), NEW variants, ValidRule(rule, variants)
  PROVE  /\ SoundRule(CapturedRule(rule))
         /\ CapturedRule(rule).id = rule.id /\ CapturedRule(rule).variant = rule.variant
         /\ CapturedRule(rule).when = Captured(rule.when)
         /\ CapturedRule(rule).rollout = CapturedRollout(rule.rollout)
         /\ CapturedRule(rule).rollout = Undefined <=> rule.rollout = Undefined
PROOF
<1>1. /\ DOMAIN rule = {"id", "when", "variant", "rollout"}
      /\ rule.when \in TargetingCondition /\ rule.rollout \in Rollouts \cup {Undefined}
  BY DEF IsRule, IsRuleOf
<1>2. Captured(rule.when) \in TargetingCondition
  BY <1>1, CapturedConditions DEF ValidRule, ValidCondition
<1>3. rule.rollout # Undefined => Positive(rule.rollout)
  BY ValidRolloutPositive DEF ValidRule
<1>4. /\ SoundRollout(CapturedRollout(rule.rollout))
      /\ CapturedRollout(rule.rollout) = Undefined <=> rule.rollout = Undefined
  BY <1>1, <1>3, CapturedRolloutSound
<1>5. /\ DOMAIN CapturedRule(rule) = {"id", "when", "variant", "rollout"}
      /\ CapturedRule(rule).id = rule.id /\ CapturedRule(rule).variant = rule.variant
      /\ CapturedRule(rule).when = Captured(rule.when)
      /\ CapturedRule(rule).rollout = CapturedRollout(rule.rollout)
  BY <1>1 DEF CapturedRule
<1> QED BY <1>2, <1>4, <1>5 DEF SoundRule

(* The captured copy of a valid flag has the same fields but for what was  *)
(* indexed.                                                                *)
LEMMA CapturedFlagSound ==
  ASSUME NEW flag, IsFlag(flag), NEW version \in {1, 2}, ValidFlag(flag, version)
  PROVE  LET captured == CapturedFlag(flag) IN
         /\ SoundFlag(captured)
         /\ \A field \in {"type", "variants", "defaultVariant", "envVar", "disabledVariant", "schedule"} :
              captured[field] = flag[field]
         /\ captured.rollout = CapturedRollout(flag.rollout)
         /\ captured.rollout = Undefined <=> flag.rollout = Undefined
         /\ DOMAIN captured.rules = DOMAIN flag.rules
         /\ Len(captured.rules) = Len(flag.rules)
         /\ \A i \in DOMAIN flag.rules : captured.rules[i] = CapturedRule(flag.rules[i])
         /\ flag.schedule # Undefined => ValidSchedule(flag.schedule, flag.variants)
PROOF
<1> DEFINE captured == CapturedFlag(flag)
           fields == {"type", "variants", "defaultVariant", "rollout", "envVar", "rules",
                      "disabledVariant", "schedule", "unknownField"}
           rules == [i \in DOMAIN flag.rules |-> CapturedRule(flag.rules[i])]
<1>1. /\ DOMAIN flag = fields
      /\ flag.rollout \in Rollouts \cup {Undefined}
      /\ flag.schedule # Undefined => IsSchedule(flag.schedule)
      /\ IsSequence(flag.rules)
      /\ \A i \in DOMAIN flag.rules : IsRule(flag.rules[i])
  BY DEF IsFlag, IsFlagOf, IsRule
<1>2. captured = [flag EXCEPT !.rollout = CapturedRollout(@), !.rules = rules]
  BY DEF CapturedFlag
<1>3. /\ DOMAIN captured = fields
      /\ \A field \in {"type", "variants", "defaultVariant", "envVar", "disabledVariant", "schedule"} :
              captured[field] = flag[field]
      /\ captured.rollout = CapturedRollout(flag.rollout)
      /\ captured.rules = rules
  <2> HIDE DEF captured, rules
  <2> QED BY <1>1, <1>2
<1>4. flag.rollout # Undefined => Positive(flag.rollout)
  BY ValidRolloutPositive DEF ValidFlag
<1>5. SoundRollout(captured.rollout) /\ (captured.rollout = Undefined <=> flag.rollout = Undefined)
  BY <1>1, <1>3, <1>4, CapturedRolloutSound
<1>6. flag.rules = <<>> \/ ValidRules(flag.rules, flag.variants)
  BY DEF ValidFlag
<1>7. \A i \in DOMAIN flag.rules : ValidRule(flag.rules[i], flag.variants)
  BY <1>6 DEF ValidRules
<1>8. \A i \in DOMAIN rules : SoundRule(rules[i])
  BY <1>1, <1>7, CapturedRuleSound
<1>9. IsSequence(rules) /\ Len(rules) = Len(flag.rules) /\ DOMAIN rules = DOMAIN flag.rules
      /\ \A i \in DOMAIN flag.rules : rules[i] = CapturedRule(flag.rules[i])
  <2>1. DOMAIN rules = DOMAIN flag.rules /\ rules = [i \in DOMAIN flag.rules |-> rules[i]]
        /\ \A i \in DOMAIN flag.rules : rules[i] = CapturedRule(flag.rules[i])
    OBVIOUS
  <2> HIDE DEF rules
  <2> QED BY <1>1, <2>1, MappedSequence
<1>10. flag.schedule # Undefined => ValidSchedule(flag.schedule, flag.variants)
  BY DEF ValidFlag
<1>11. captured.schedule = flag.schedule
  BY <1>3
<1> HIDE DEF captured, rules
<1>12. SoundFlag(captured)
  BY <1>1, <1>3, <1>5, <1>8, <1>9, <1>11 DEF SoundFlag
<1> QED BY <1>3, <1>5, <1>9, <1>10, <1>12 DEF captured

(* The captured copy of a valid snapshot is sound, and its flags are the   *)
(* copies of valid ones.                                                   *)
LEMMA CapturedSnapshotSound ==
  ASSUME NEW snapshot, IsSnapshot(snapshot), ValidSnapshot(snapshot)
  PROVE  LET copy == ValidateFlagSnapshot(snapshot) IN
         /\ SoundSnapshot(copy)
         /\ copy.validated = TRUE
         /\ copy.schemaVersion = snapshot.schemaVersion /\ snapshot.schemaVersion \in {1, 2}
         /\ DOMAIN copy.flags = DOMAIN snapshot.flags
         /\ \A key \in DOMAIN snapshot.flags :
              /\ copy.flags[key] = CapturedFlag(snapshot.flags[key])
              /\ IsFlag(snapshot.flags[key])
              /\ ValidFlag(snapshot.flags[key], snapshot.schemaVersion)
PROOF
<1> DEFINE copy == ValidateFlagSnapshot(snapshot)
           flags == [key \in DOMAIN snapshot.flags |-> CapturedFlag(snapshot.flags[key])]
<1>1. /\ DOMAIN snapshot = {"ownData", "schemaVersion", "validated", "flags"}
      /\ \A key \in DOMAIN snapshot.flags : IsFlag(snapshot.flags[key])
  BY DEF IsSnapshot, IsSnapshotOf, IsFlag
<1>2. /\ snapshot.schemaVersion \in {1, 2}
      /\ \A key \in DOMAIN snapshot.flags : ValidFlag(snapshot.flags[key], snapshot.schemaVersion)
  BY DEF ValidSnapshot
<1>3. copy = [snapshot EXCEPT !.validated = TRUE, !.flags = flags]
  BY DEF ValidateFlagSnapshot
<1>4. /\ DOMAIN flags = DOMAIN snapshot.flags
      /\ \A key \in DOMAIN snapshot.flags : flags[key] = CapturedFlag(snapshot.flags[key])
  OBVIOUS
<1> HIDE DEF flags, copy
<1>5. /\ DOMAIN copy = {"ownData", "schemaVersion", "validated", "flags"}
      /\ copy.validated = TRUE /\ copy.schemaVersion = snapshot.schemaVersion
      /\ copy.flags = flags
  BY <1>1, <1>3
<1>6. ASSUME NEW key \in DOMAIN copy.flags
      PROVE  /\ SoundFlag(copy.flags[key])
             /\ copy.flags[key].schedule # Undefined =>
                  ValidStages(copy.flags[key].schedule.stages)
  <2> DEFINE flag == snapshot.flags[key]
  <2>1. IsFlag(flag) /\ ValidFlag(flag, snapshot.schemaVersion) /\ copy.flags[key] = CapturedFlag(flag)
    BY <1>1, <1>2, <1>4, <1>5
  <2> HIDE DEF flag
  <2>2. /\ SoundFlag(CapturedFlag(flag))
        /\ \A field \in {"type", "variants", "defaultVariant", "envVar", "disabledVariant", "schedule"} :
              CapturedFlag(flag)[field] = flag[field]
        /\ flag.schedule # Undefined => ValidSchedule(flag.schedule, flag.variants)
    BY <1>2, <2>1, CapturedFlagSound
  <2>3. CapturedFlag(flag).schedule = flag.schedule
    BY <2>2
  <2> QED BY <2>1, <2>2, <2>3 DEF ValidSchedule
<1>7. SoundSnapshot(copy)
  BY <1>5, <1>6 DEF SoundSnapshot
<1> QED BY <1>1, <1>2, <1>4, <1>5, <1>7 DEF copy

-----------------------------------------------------------------------------
(* A snapshot decides as the text it was captured from.                    *)

RolloutAlike(rollout, other, request) ==
  /\ rollout = Undefined <=> other = Undefined
  /\ (rollout # Undefined /\ HasKey(request)) =>
       SelectRolloutVariant(rollout, BucketsOf(request))
         = SelectRolloutVariant(other, BucketsOf(request))

RuleAlike(rule, other, request) ==
  /\ other.id = rule.id /\ other.variant = rule.variant
  /\ RolloutAlike(rule.rollout, other.rollout, request)

FlagAlike(flag, other, request) ==
  /\ other.type = flag.type /\ other.variants = flag.variants
  /\ other.defaultVariant = flag.defaultVariant
  /\ other.disabledVariant = flag.disabledVariant /\ other.schedule = flag.schedule
  /\ RolloutAlike(flag.rollout, other.rollout, request)

(* A rollout chooses as its text does.                                     *)
LEMMA PlainRolloutAlike ==
  ASSUME NEW rollout, SoundRollout(rollout), NEW request, Hashed(request)
  PROVE  RolloutAlike(rollout, PlainRollout(rollout), request)
PROOF
<1>1. CASE rollout = Undefined
  BY <1>1 DEF RolloutAlike, PlainRollout
<1>2. CASE rollout # Undefined
  <2>1. PICK raw \in Rollouts : rollout = raw \/ (Positive(raw) /\ rollout = CapturedRollout(raw))
    BY <1>2 DEF SoundRollout
  <2>2. PlainRollout(rollout) = raw /\ raw # Undefined
    BY <2>1, RolloutShape
  <2>3. CASE rollout = raw
    BY <2>2, <2>3 DEF RolloutAlike
  <2>4. CASE Positive(raw) /\ rollout = CapturedRollout(raw)
    <3> SUFFICES ASSUME HasKey(request)
                 PROVE  SelectRolloutVariant(CapturedRollout(raw), BucketsOf(request))
                          = SelectRolloutVariant(raw, BucketsOf(request))
      BY <1>2, <2>2, <2>4 DEF RolloutAlike
    <3>1. BucketsOf(request)[RolloutSeed(raw.rules)] \in Nat
      BY SeedOfRollout, EvaluationAssumption DEF Hashed, BucketsOf, HasKey
    <3> QED BY <2>4, <3>1, SelectedAlike DEF Positive
  <2> QED BY <2>1, <2>3, <2>4
<1> QED BY <1>1, <1>2

(* A rule chooses as its text does.                                        *)
LEMMA PlainRuleAlike ==
  ASSUME NEW rule, SoundRule(rule), NEW request, Hashed(request)
  PROVE  RuleAlike(rule, PlainRule(rule), request) /\ PlainRule(rule).when = Plain(rule.when)
PROOF
<1>1. DOMAIN rule = {"id", "when", "variant", "rollout"}
  BY DEF SoundRule
<1>2. /\ PlainRule(rule).id = rule.id /\ PlainRule(rule).variant = rule.variant
      /\ PlainRule(rule).when = Plain(rule.when)
      /\ PlainRule(rule).rollout = PlainRollout(rule.rollout)
  BY <1>1 DEF PlainRule
<1> QED BY <1>2, PlainRolloutAlike DEF RuleAlike, SoundRule

(* A flag chooses as its text does, rule by rule.                          *)
LEMMA PlainFlagAlike ==
  ASSUME NEW flag, SoundFlag(flag), NEW request, Hashed(request)
  PROVE  /\ FlagAlike(flag, PlainFlag(flag), request)
         /\ DOMAIN PlainFlag(flag).rules = DOMAIN flag.rules
         /\ Len(PlainFlag(flag).rules) = Len(flag.rules)
         /\ \A i \in DOMAIN flag.rules : PlainFlag(flag).rules[i] = PlainRule(flag.rules[i])
PROOF
<1> DEFINE plain == PlainFlag(flag)
           rules == [i \in DOMAIN flag.rules |-> PlainRule(flag.rules[i])]
<1>1. /\ DOMAIN flag = {"type", "variants", "defaultVariant", "rollout", "envVar", "rules",
                        "disabledVariant", "schedule", "unknownField"}
      /\ SoundRollout(flag.rollout) /\ IsSequence(flag.rules)
  BY DEF SoundFlag
<1>2. plain = [flag EXCEPT !.rollout = PlainRollout(@), !.rules = rules]
  BY DEF PlainFlag
<1>3. DOMAIN rules = DOMAIN flag.rules /\ rules = [i \in DOMAIN flag.rules |-> rules[i]]
      /\ \A i \in DOMAIN flag.rules : rules[i] = PlainRule(flag.rules[i])
  OBVIOUS
<1> HIDE DEF plain, rules
<1>4. Len(rules) = Len(flag.rules)
  BY <1>1, <1>3, MappedSequence
<1>5. /\ plain.type = flag.type /\ plain.variants = flag.variants
      /\ plain.defaultVariant = flag.defaultVariant
      /\ plain.disabledVariant = flag.disabledVariant /\ plain.schedule = flag.schedule
      /\ plain.rollout = PlainRollout(flag.rollout)
      /\ plain.rules = rules
  BY <1>1, <1>2
<1>6. FlagAlike(flag, plain, request)
  BY <1>1, <1>5, PlainRolloutAlike DEF FlagAlike
<1> QED BY <1>3, <1>4, <1>5, <1>6 DEF plain

(* A selection is answered from the variants and the default alone.        *)
LEMMA SelectedFromVariants ==
  ASSUME NEW flag, NEW other, NEW request, other.variants = flag.variants,
         other.defaultVariant = flag.defaultVariant
  PROVE  /\ \A name, reason :
              SelectedVariant(flag, request, name, reason) = SelectedVariant(other, request, name, reason)
         /\ \A selection, otherwise :
              FromSelection(flag, request, selection, otherwise)
                = FromSelection(other, request, selection, otherwise)
PROOF
<1>1. \A name, reason :
        SelectedVariant(flag, request, name, reason) = SelectedVariant(other, request, name, reason)
  BY DEF SelectedVariant
<1>2. \A selection, otherwise :
        FromSelection(flag, request, selection, otherwise)
          = FromSelection(other, request, selection, otherwise)
  BY <1>1 DEF FromSelection
<1> QED BY <1>1, <1>2

(* Flags alike are answered alike by their rollouts.                       *)
LEMMA ByRolloutAlike ==
  ASSUME NEW flag, NEW other, NEW request, FlagAlike(flag, other, request)
  PROVE  ByRollout(flag, request) = ByRollout(other, request)
PROOF
<1>1. /\ \A name, reason :
           SelectedVariant(flag, request, name, reason) = SelectedVariant(other, request, name, reason)
      /\ \A selection, otherwise :
           FromSelection(flag, request, selection, otherwise)
             = FromSelection(other, request, selection, otherwise)
  BY SelectedFromVariants DEF FlagAlike
<1>2. CASE flag.rollout = Undefined
  BY <1>1, <1>2 DEF ByRollout, FlagAlike, RolloutAlike
<1>3. CASE flag.rollout # Undefined /\ ~HasKey(request)
  BY <1>3 DEF ByRollout, FlagAlike, RolloutAlike
<1>4. CASE flag.rollout # Undefined /\ HasKey(request)
  <2>1. /\ other.rollout # Undefined
        /\ SelectRolloutVariant(flag.rollout, BucketsOf(request))
             = SelectRolloutVariant(other.rollout, BucketsOf(request))
        /\ other.defaultVariant = flag.defaultVariant
    BY <1>4 DEF FlagAlike, RolloutAlike
  <2> QED BY <1>1, <1>4, <2>1 DEF ByRollout
<1> QED BY <1>2, <1>3, <1>4

(* Only what validation passed is searched as if its stages were valid.    *)
StagesValid(snapshot, flag) ==
  (snapshot.validated /\ flag.schedule # Undefined) => ValidStages(flag.schedule.stages)

Unvalidated(plain, snapshot) ==
  plain.schemaVersion = snapshot.schemaVersion /\ plain.validated = FALSE

(* So are they by their schedules, searched or read in order.              *)
LEMMA ByScheduleAlike ==
  ASSUME NEW snapshot, NEW plain, Unvalidated(plain, snapshot),
         NEW flag, NEW other, NEW request, FlagAlike(flag, other, request),
         flag.schedule # Undefined => IsSchedule(flag.schedule),
         StagesValid(snapshot, flag)
  PROVE  BySchedule(snapshot, flag, request) = BySchedule(plain, other, request)
PROOF
<1>1. /\ other.schedule = flag.schedule
      /\ plain.schemaVersion = snapshot.schemaVersion /\ plain.validated = FALSE
  BY DEF FlagAlike, Unvalidated
<1>2. CASE snapshot.schemaVersion # 2 \/ flag.schedule = Undefined
  BY <1>1, <1>2, ByRolloutAlike DEF BySchedule
<1>3. CASE ~(snapshot.schemaVersion # 2 \/ flag.schedule = Undefined)
  <2>1. CASE ~ValidScheduleTime(request.time) \/ ~HasKey(request)
    BY <1>1, <1>3, <2>1 DEF BySchedule
  <2>2. CASE ~(~ValidScheduleTime(request.time) \/ ~HasKey(request))
    <3> DEFINE s1 == SelectScheduledVariant(flag.schedule, request.time, BucketsOf(request), snapshot.validated)
               s2 == SelectScheduledVariant(flag.schedule, request.time, BucketsOf(request), FALSE)
    <3>1. s1 = s2
      <4>1. CASE ~snapshot.validated
        BY <4>1 DEF SelectScheduledVariant
      <4>2. CASE snapshot.validated
        <5>1. SelectScheduledVariant(flag.schedule, request.time, BucketsOf(request), TRUE) = s2
          BY <1>3, <2>2, <4>2, ScheduledAlike DEF ValidScheduleTime, StagesValid
        <5>2. s1 = SelectScheduledVariant(flag.schedule, request.time, BucketsOf(request), TRUE)
          BY <4>2 DEF SelectScheduledVariant
        <5> QED BY <5>1, <5>2
      <4> QED BY <4>1, <4>2
    <3> HIDE DEF s1, s2
    <3>2. BySchedule(snapshot, flag, request) =
            [FromSelection(flag, request, s1, "STATIC") EXCEPT !.schedule = s1.schedule]
      BY <1>3, <2>2 DEF BySchedule, s1
    <3>3. BySchedule(plain, other, request) =
            [FromSelection(other, request, s2, "STATIC") EXCEPT !.schedule = s2.schedule]
      BY <1>1, <1>3, <2>2 DEF BySchedule, s2
    <3>4. FromSelection(flag, request, s1, "STATIC") = FromSelection(other, request, s1, "STATIC")
      BY SelectedFromVariants DEF FlagAlike
    <3> QED BY <3>1, <3>2, <3>3, <3>4
  <2> QED BY <2>1, <2>2
<1> QED BY <1>2, <1>3

(* So are they by a rule.                                                  *)
LEMMA ByRuleAlike ==
  ASSUME NEW flag, NEW other, NEW request, FlagAlike(flag, other, request),
         NEW rule, NEW plain, RuleAlike(rule, plain, request)
  PROVE  ByRule(flag, request, rule) = ByRule(other, request, plain)
PROOF
<1>1. /\ \A name, reason :
           SelectedVariant(flag, request, name, reason) = SelectedVariant(other, request, name, reason)
      /\ \A selection, otherwise :
           FromSelection(flag, request, selection, otherwise)
             = FromSelection(other, request, selection, otherwise)
  BY SelectedFromVariants DEF FlagAlike
<1>2. plain.id = rule.id /\ plain.variant = rule.variant /\ (plain.rollout = Undefined <=> rule.rollout = Undefined)
  BY DEF RuleAlike, RolloutAlike
<1>3. (rule.rollout # Undefined /\ HasKey(request)) =>
        SelectRolloutVariant(rule.rollout, BucketsOf(request)) = SelectRolloutVariant(plain.rollout, BucketsOf(request))
  BY DEF RuleAlike, RolloutAlike
<1> QED BY <1>1, <1>2, <1>3 DEF ByRule

(* A rule matches as its condition reads, with whatever was kept of it.    *)
LEMMA RuleMatchesAlike ==
  ASSUME NEW when \in TargetingCondition, NEW request, NEW cache, CacheSound(cache)
  PROVE  /\ MatchesCondition(when, request, cache) = MatchesCondition(Plain(when), request, NoOperands)
         /\ MatchesCondition(when, request, cache) = Holds(when, request, NoOperands)
PROOF
<1>1. Plain(when) \in TargetingCondition
  BY PlainConditions
<1>2. MatchesCondition(when, request, cache) = Holds(when, request, NoOperands)
  BY MatchedMeaning
<1>3. MatchesCondition(Plain(when), request, NoOperands) = Holds(Plain(when), request, NoOperands)
  BY <1>1, NothingCached, MatchedMeaning
<1>4. Holds(Plain(when), request, NoOperands) <=> Holds(when, request, NoOperands)
  BY PlainMeaning
<1>5. Holds(Plain(when), request, NoOperands) \in BOOLEAN /\ Holds(when, request, NoOperands) \in BOOLEAN
  BY <1>1, BooleanConditions
<1> QED BY <1>2, <1>3, <1>4, <1>5

RulesOf(snapshot, flag) == IF snapshot.schemaVersion = 2 THEN flag.rules ELSE <<>>

Matched(snapshot, flag, request, cache) ==
  [i \in DOMAIN RulesOf(snapshot, flag) |->
     MatchesCondition(RulesOf(snapshot, flag)[i].when, request, cache)]

FirstMatch(rules, matched) == Min({i \in DOMAIN rules : matched[i]} \cup {Len(rules) + 1})

(* The decision of the rules, with its parts named.                        *)
LEMMA ByRulesMeans ==
  ASSUME NEW snapshot, NEW flag, NEW request, NEW cache
  PROVE  LET rules   == RulesOf(snapshot, flag)
             matched == Matched(snapshot, flag, request, cache)
             first   == FirstMatch(rules, matched)
         IN  ByRules(snapshot, flag, request, cache) =
               [(IF first \in DOMAIN rules THEN ByRule(flag, request, rules[first])
                                           ELSE BySchedule(snapshot, flag, request))
                EXCEPT !.trace = SubSeq(matched, 1, Min({first, Len(rules)}))]
PROOF
BY DEF ByRules, RulesOf, Matched, FirstMatch

(* The first match is a place, or the one after the last.                  *)
LEMMA FirstMatchIs ==
  ASSUME NEW rules, NEW matched, IsSequence(rules)
  PROVE  FirstMatch(rules, matched) \in 1 .. Len(rules) + 1
PROOF
<1> DEFINE S == {i \in DOMAIN rules : matched[i]} \cup {Len(rules) + 1}
<1>1. Len(rules) \in Nat /\ DOMAIN rules = 1 .. Len(rules)
  BY SequenceDomain
<1>2. S \subseteq 1 .. Len(rules) + 1 /\ S # {} /\ S \in SUBSET Nat
  BY <1>1
<1>3. Min(S) \in S
  <2> HIDE DEF S
  <2> QED BY <1>2, LeastOfNaturals
<1> QED BY <1>2, <1>3 DEF FirstMatch

(* No rules are a sequence of rules.                                       *)
LEMMA EmptyIsSequence ==
  IsSequence(<<>>)
PROOF
BY DEF IsSequence

(* So are they by all rules: the same ones match, whatever is cached.      *)
LEMMA ByRulesAlike ==
  ASSUME NEW snapshot, NEW plain, Unvalidated(plain, snapshot),
         NEW flag, SoundFlag(flag), NEW request, Hashed(request), NEW cache, CacheSound(cache),
         StagesValid(snapshot, flag)
  PROVE  ByRules(snapshot, flag, request, cache) = ByRules(plain, PlainFlag(flag), request, NoOperands)
PROOF
<1> DEFINE other == PlainFlag(flag)
           rules == RulesOf(snapshot, flag)
           plains == RulesOf(plain, other)
           matched == Matched(snapshot, flag, request, cache)
           again == Matched(plain, other, request, NoOperands)
           first == FirstMatch(rules, matched)
           chosen == IF first \in DOMAIN rules THEN ByRule(flag, request, rules[first])
                                               ELSE BySchedule(snapshot, flag, request)
           same == IF first \in DOMAIN plains THEN ByRule(other, request, plains[first])
                                              ELSE BySchedule(plain, other, request)
<1>1. /\ FlagAlike(flag, other, request)
      /\ DOMAIN other.rules = DOMAIN flag.rules /\ Len(other.rules) = Len(flag.rules)
      /\ \A i \in DOMAIN flag.rules : other.rules[i] = PlainRule(flag.rules[i])
  BY PlainFlagAlike
<1>2. /\ IsSequence(flag.rules)
      /\ \A i \in DOMAIN flag.rules : SoundRule(flag.rules[i])
      /\ flag.schedule # Undefined => IsSchedule(flag.schedule)
  BY DEF SoundFlag
<1> HIDE DEF other
<1>0. plain.schemaVersion = snapshot.schemaVersion
  BY DEF Unvalidated
<1>3. /\ IsSequence(rules) /\ DOMAIN plains = DOMAIN rules /\ Len(plains) = Len(rules)
      /\ \A i \in DOMAIN rules : plains[i] = PlainRule(rules[i]) /\ SoundRule(rules[i])
  <2>1. CASE snapshot.schemaVersion = 2
    BY <1>0, <1>1, <1>2, <2>1 DEF RulesOf
  <2>2. CASE snapshot.schemaVersion # 2
    <3>1. rules = <<>> /\ plains = <<>>
      BY <1>0, <2>2 DEF RulesOf
    <3>2. DOMAIN rules = {}
      BY <3>1
    <3> HIDE DEF rules, plains
    <3> QED BY <3>1, <3>2, EmptyIsSequence
  <2> QED BY <2>1, <2>2
<1> HIDE DEF rules, plains
<1>4. \A i \in DOMAIN rules :
        MatchesCondition(rules[i].when, request, cache) = MatchesCondition(plains[i].when, request, NoOperands)
  <2> SUFFICES ASSUME NEW i \in DOMAIN rules
               PROVE  MatchesCondition(rules[i].when, request, cache)
                        = MatchesCondition(plains[i].when, request, NoOperands)
    OBVIOUS
  <2>1. plains[i].when = Plain(rules[i].when)
    BY <1>3, PlainRuleAlike
  <2>2. rules[i].when \in TargetingCondition
    BY <1>3 DEF SoundRule
  <2> QED BY <2>1, <2>2, RuleMatchesAlike
<1>5. matched = again
  <2>1. matched = [i \in DOMAIN rules |-> MatchesCondition(rules[i].when, request, cache)]
    BY DEF Matched, rules
  <2>2. again = [i \in DOMAIN plains |-> MatchesCondition(plains[i].when, request, NoOperands)]
    BY DEF Matched, plains
  <2> HIDE DEF matched, again
  <2> QED BY <1>3, <1>4, <2>1, <2>2
<1>6. FirstMatch(plains, again) = first
  <2> HIDE DEF matched, again
  <2> QED BY <1>3, <1>5 DEF FirstMatch
<1>7. chosen = same
  <2>1. BySchedule(snapshot, flag, request) = BySchedule(plain, other, request)
    BY <1>1, <1>2, ByScheduleAlike
  <2>2. ASSUME NEW i \in DOMAIN rules
        PROVE  ByRule(flag, request, rules[i]) = ByRule(other, request, plains[i])
    <3>1. RuleAlike(rules[i], plains[i], request)
      BY <1>3, PlainRuleAlike
    <3> QED BY <1>1, <3>1, ByRuleAlike
  <2> HIDE DEF first
  <2> QED BY <1>3, <2>1, <2>2
<1>8. ByRules(snapshot, flag, request, cache) =
        [chosen EXCEPT !.trace = SubSeq(matched, 1, Min({first, Len(rules)}))]
  BY ByRulesMeans DEF rules
<1>9. ByRules(plain, other, request, NoOperands) =
        [same EXCEPT !.trace = SubSeq(again, 1, Min({first, Len(plains)}))]
  <2> DEFINE start == FirstMatch(plains, again)
  <2>1. ByRules(plain, other, request, NoOperands) =
               [(IF start \in DOMAIN plains THEN ByRule(other, request, plains[start])
                                           ELSE BySchedule(plain, other, request))
                EXCEPT !.trace = SubSeq(again, 1, Min({start, Len(plains)}))]
    BY ByRulesMeans DEF plains
  <2> HIDE DEF again, first
  <2> QED BY <1>6, <2>1
<1> HIDE DEF matched, again, first, chosen, same
<1>10. [chosen EXCEPT !.trace = SubSeq(matched, 1, Min({first, Len(rules)}))]
         = [same EXCEPT !.trace = SubSeq(again, 1, Min({first, Len(plains)}))]
  BY <1>3, <1>5, <1>7
<1> QED BY <1>8, <1>9, <1>10 DEF other

(* The text of a snapshot, flag by flag.                                   *)
LEMMA UnindexedSnapshot ==
  ASSUME NEW snapshot, SoundSnapshot(snapshot)
  PROVE  /\ Unindexed(snapshot).schemaVersion = snapshot.schemaVersion
         /\ Unindexed(snapshot).validated = FALSE
         /\ DOMAIN Unindexed(snapshot).flags = DOMAIN snapshot.flags
         /\ \A key \in DOMAIN snapshot.flags :
              Unindexed(snapshot).flags[key] = PlainFlag(snapshot.flags[key])
PROOF
<1> DEFINE flags == [key \in DOMAIN snapshot.flags |-> PlainFlag(snapshot.flags[key])]
<1>1. DOMAIN snapshot = {"ownData", "schemaVersion", "validated", "flags"}
  BY DEF SoundSnapshot
<1>2. Unindexed(snapshot) = [snapshot EXCEPT !.validated = FALSE, !.flags = flags]
  BY DEF Unindexed
<1>3. /\ DOMAIN flags = DOMAIN snapshot.flags
      /\ \A key \in DOMAIN snapshot.flags : flags[key] = PlainFlag(snapshot.flags[key])
  OBVIOUS
<1> HIDE DEF flags
<1> QED BY <1>1, <1>2, <1>3

(* An evaluation decides as the text would, read front to back.            *)
THEOREM DecisionAlike ==
  ASSUME NEW snapshot, SoundSnapshot(snapshot), NEW request, Hashed(request),
         NEW overriding, NEW cache, CacheSound(cache)
  PROVE  Decision(snapshot, request, overriding, cache)
           = Decision(Unindexed(snapshot), request, overriding, NoOperands)
PROOF
<1> DEFINE plain == Unindexed(snapshot)
           key == request.flagKey
           flag == snapshot.flags[key]
           other == plain.flags[key]
<1>0. Unvalidated(plain, snapshot)
  BY UnindexedSnapshot DEF Unvalidated
<1>1. /\ plain.schemaVersion = snapshot.schemaVersion
      /\ DOMAIN plain.flags = DOMAIN snapshot.flags
  BY UnindexedSnapshot
<1>2. CASE key \notin DOMAIN snapshot.flags
  BY <1>1, <1>2 DEF Decision
<1>3. CASE key \in DOMAIN snapshot.flags
  <2>1. other = PlainFlag(flag)
    BY <1>3, UnindexedSnapshot
  <2>2. /\ SoundFlag(flag)
        /\ StagesValid(snapshot, flag)
    BY <1>3 DEF SoundSnapshot, StagesValid
  <2> HIDE DEF plain, flag, other
  <2>3. FlagAlike(flag, other, request)
    BY <2>1, <2>2, PlainFlagAlike
  <2>4. ByRules(snapshot, flag, request, cache) = ByRules(plain, other, request, NoOperands)
    BY <1>0, <2>1, <2>2, ByRulesAlike
  <2>5. ByOverride(snapshot, flag, request, overriding, cache) = ByOverride(plain, other, request, overriding, NoOperands)
    BY <2>4 DEF ByOverride
  <2>6. \A name, reason :
           SelectedVariant(flag, request, name, reason) = SelectedVariant(other, request, name, reason)
    BY <2>3, SelectedFromVariants DEF FlagAlike
  <2>7. Decision(snapshot, request, overriding, cache) =
          IF flag.type # request.expectedType THEN Failure("TYPE_MISMATCH")
          ELSE IF snapshot.schemaVersion = 2 /\ flag.disabledVariant # Undefined
            THEN SelectedVariant(flag, request, flag.disabledVariant, "DISABLED")
          ELSE ByOverride(snapshot, flag, request, overriding, cache)
    BY <1>3 DEF Decision, flag
  <2>8. Decision(plain, request, overriding, NoOperands) =
          IF other.type # request.expectedType THEN Failure("TYPE_MISMATCH")
          ELSE IF plain.schemaVersion = 2 /\ other.disabledVariant # Undefined
            THEN SelectedVariant(other, request, other.disabledVariant, "DISABLED")
          ELSE ByOverride(plain, other, request, overriding, NoOperands)
    BY <1>1, <1>3 DEF Decision, other
  <2>9. Decision(snapshot, request, overriding, cache) = Decision(plain, request, overriding, NoOperands)
    BY <1>1, <2>3, <2>5, <2>6, <2>7, <2>8 DEF FlagAlike
  <2> QED BY <2>9 DEF plain
<1> QED BY <1>2, <1>3

(* Reading operands keeps the cache sound.                                 *)
LEMMA ReadKeepsSound ==
  ASSUME NEW snapshot, SoundSnapshot(snapshot), NEW request, NEW cache, CacheSound(cache),
         NEW leaves \in SUBSET VersionLeaves(snapshot, request)
  PROVE  CacheSound(Read(leaves, cache))
PROOF
<1>1. leaves \subseteq Leaves \cup IndexedLeaves
  <2>1. CASE request.flagKey \notin DOMAIN snapshot.flags
    BY <2>1 DEF VersionLeaves
  <2>2. CASE request.flagKey \in DOMAIN snapshot.flags
    <3> DEFINE flag == snapshot.flags[request.flagKey]
    <3>1. \A i \in DOMAIN flag.rules : flag.rules[i].when \in TargetingCondition
      BY <2>2 DEF SoundSnapshot, SoundFlag, SoundRule
    <3>2. \A rule \in ToSet(flag.rules) : LeavesOf(rule.when) \subseteq Leaves \cup IndexedLeaves
      BY <3>1, LeavesOfConditions DEF ToSet
    <3>3. \A leaf \in VersionLeaves(snapshot, request) :
            \E rule \in ToSet(flag.rules) : leaf \in LeavesOf(rule.when)
      BY <2>2 DEF VersionLeaves
    <3> QED BY <3>2, <3>3
  <2> QED BY <2>1, <2>2
<1> SUFFICES ASSUME NEW id \in Conditions, Read(leaves, cache)[id] # Undefined
             PROVE  Read(leaves, cache)[id].parsed = StrictVersion(Read(leaves, cache)[id].value)
  BY DEF CacheSound
<1>2. CASE \E leaf \in leaves : leaf.id = id
  <2> DEFINE leaf == CHOOSE l \in leaves : l.id = id
  <2>1. leaf \in leaves
    BY <1>2
  <2>2. Read(leaves, cache)[id] = [value |-> leaf.operand.v, parsed |-> OperandVersion(leaf, cache)]
    BY <1>2 DEF Read
  <2> HIDE DEF leaf
  <2>3. OperandVersion(leaf, cache) = StrictVersion(leaf.operand.v)
    BY <1>1, <2>1, OperandParsed
  <2> QED BY <2>2, <2>3
<1>3. CASE ~\E leaf \in leaves : leaf.id = id
  <2>1. Read(leaves, cache)[id] = cache[id]
    BY <1>3 DEF Read
  <2> QED BY <2>1 DEF CacheSound
<1> QED BY <1>2, <1>3

-----------------------------------------------------------------------------
(* What an evaluation returns.                                             *)

OutcomeFields == {"value", "variant", "reason", "errorCode", "rule", "bucket", "schedule", "trace"}

Untraced(outcome) == DOMAIN outcome = OutcomeFields /\ outcome.trace = <<>>

(* An answer has no trace until the rules give it theirs.                  *)
LEMMA UntracedAnswers ==
  ASSUME NEW flag, NEW request
  PROVE  /\ \A reason : Untraced(Answer(reason)) /\ Untraced(Failure(reason))
         /\ \A name, reason : Untraced(SelectedVariant(flag, request, name, reason))
         /\ \A selection, otherwise : Untraced(FromSelection(flag, request, selection, otherwise))
PROOF
<1>1. \A reason : Untraced(Answer(reason))
  BY DEF Answer, Untraced, OutcomeFields
<1>2. \A reason : Untraced(Failure(reason))
  BY <1>1 DEF Failure, Untraced, OutcomeFields
<1>3. \A name, reason : Untraced(SelectedVariant(flag, request, name, reason))
  BY <1>1, <1>2 DEF SelectedVariant, Untraced, OutcomeFields
<1>4. \A selection, otherwise : Untraced(FromSelection(flag, request, selection, otherwise))
  BY <1>3 DEF FromSelection, Untraced, OutcomeFields
<1> QED BY <1>1, <1>2, <1>3, <1>4

(* Nor has that of a rollout.                                              *)
LEMMA UntracedRollout ==
  ASSUME NEW flag, NEW request
  PROVE  Untraced(ByRollout(flag, request))
PROOF
BY UntracedAnswers DEF ByRollout

(* Nor has that of a schedule.                                             *)
LEMMA UntracedSchedule ==
  ASSUME NEW snapshot, NEW flag, NEW request
  PROVE  Untraced(BySchedule(snapshot, flag, request))
PROOF
<1> DEFINE selection == SelectScheduledVariant(flag.schedule, request.time,
                                               BucketsOf(request), snapshot.validated)
           scheduled == [FromSelection(flag, request, selection, "STATIC") EXCEPT !.schedule = selection.schedule]
<1>1. Untraced(scheduled)
  BY UntracedAnswers DEF Untraced, OutcomeFields
<1> HIDE DEF scheduled
<1>2. BySchedule(snapshot, flag, request) \in
        {ByRollout(flag, request), Failure("INVALID_CONTEXT"), scheduled}
  BY DEF BySchedule, scheduled
<1> QED BY <1>1, <1>2, UntracedRollout, UntracedAnswers

(* Nor has that of a single rule.                                          *)
LEMMA UntracedRule ==
  ASSUME NEW flag, NEW request, NEW rule
  PROVE  Untraced(ByRule(flag, request, rule))
PROOF
<1> DEFINE answer == IF rule.variant # Undefined
                       THEN SelectedVariant(flag, request, rule.variant, "TARGETING_MATCH")
                     ELSE IF ~HasKey(request) THEN Failure("INVALID_CONTEXT")
                     ELSE IF rule.rollout = Undefined THEN Answer("THROWN")
                     ELSE FromSelection(flag, request,
                            SelectRolloutVariant(rule.rollout, BucketsOf(request)), "TARGETING_MATCH")
<1>1. Untraced(answer)
  BY UntracedAnswers
<1>2. ByRule(flag, request, rule) = [answer EXCEPT !.rule = rule.id]
  BY DEF ByRule
<1> HIDE DEF answer
<1> QED BY <1>1, <1>2 DEF Untraced, OutcomeFields

(* The trace of the rules is how far they were matched.                    *)
LEMMA TraceOfRules ==
  ASSUME NEW snapshot, NEW flag, SoundFlag(flag), NEW request, NEW cache, CacheSound(cache)
  PROVE  LET outcome == ByRules(snapshot, flag, request, cache) IN
         /\ DOMAIN outcome = OutcomeFields
         /\ \A i \in DOMAIN outcome.trace :
              /\ i \in DOMAIN flag.rules
              /\ outcome.trace[i] <=> Holds(flag.rules[i].when, request, NoOperands)
PROOF
<1> DEFINE rules == RulesOf(snapshot, flag)
           matched == Matched(snapshot, flag, request, cache)
           first == FirstMatch(rules, matched)
           chosen == IF first \in DOMAIN rules THEN ByRule(flag, request, rules[first])
                                               ELSE BySchedule(snapshot, flag, request)
           last == Min({first, Len(rules)})
           outcome == ByRules(snapshot, flag, request, cache)
<1>1. outcome = [chosen EXCEPT !.trace = SubSeq(matched, 1, last)]
  BY ByRulesMeans
<1>2. Untraced(chosen)
  BY UntracedRule, UntracedSchedule
<1>3. /\ IsSequence(flag.rules) /\ Len(flag.rules) \in Nat /\ DOMAIN flag.rules = 1 .. Len(flag.rules)
      /\ \A i \in DOMAIN flag.rules : flag.rules[i].when \in TargetingCondition
  BY SequenceDomain DEF SoundFlag, SoundRule
<1>4. /\ IsSequence(rules) /\ Len(rules) \in Nat /\ DOMAIN rules = 1 .. Len(rules)
      /\ \A i \in DOMAIN rules : i \in DOMAIN flag.rules /\ rules[i] = flag.rules[i]
  <2>1. CASE snapshot.schemaVersion = 2
    BY <1>3, <2>1 DEF RulesOf
  <2>2. CASE snapshot.schemaVersion # 2
    <3>1. rules = <<>>
      BY <2>2 DEF RulesOf
    <3>2. DOMAIN rules = {} /\ Len(rules) = 0
      BY <3>1
    <3> HIDE DEF rules
    <3> QED BY <3>1, <3>2, EmptyIsSequence
  <2> QED BY <2>1, <2>2
<1>5. first \in 1 .. Len(rules) + 1
  BY <1>4, FirstMatchIs
<1>6. last \in 0 .. Len(rules)
  <2>1. {first, Len(rules)} \in SUBSET Nat /\ {first, Len(rules)} # {}
    BY <1>4, <1>5
  <2>2. last \in {first, Len(rules)} /\ \A n \in {first, Len(rules)} : last <= n
    BY <2>1, LeastOfNaturals
  <2>3. last \in {first, Len(rules)} /\ last <= Len(rules)
    BY <2>2
  <2> HIDE DEF last, first, rules
  <2>4. Len(rules) \in Nat /\ first \in Nat
    BY <1>4, <1>5
  <2>5. last \in Nat
    BY <2>3, <2>4
  <2> QED BY <2>3, <2>4, <2>5
<1>7. matched = [i \in DOMAIN rules |-> MatchesCondition(rules[i].when, request, cache)]
  BY DEF Matched
<1> HIDE DEF rules, matched, first, chosen, last, outcome
<1>8. /\ DOMAIN matched = 1 .. Len(rules)
      /\ \A i \in DOMAIN rules : matched[i] = MatchesCondition(rules[i].when, request, cache)
  BY <1>4, <1>7
<1>9. \A i \in DOMAIN rules : matched[i] = Holds(flag.rules[i].when, request, NoOperands)
  BY <1>3, <1>4, <1>8, RuleMatchesAlike
<1>10. matched \in Seq({matched[i] : i \in DOMAIN matched}) /\ Len(matched) = Len(rules)
  BY <1>4, <1>7, <1>8
<1>11. /\ DOMAIN SubSeq(matched, 1, last) = 1 .. last
       /\ \A i \in 1 .. last : SubSeq(matched, 1, last)[i] = matched[i]
  <2> DEFINE S == {matched[i] : i \in DOMAIN matched}
  <2>1. matched \in Seq(S) /\ 1 \in 1 .. Len(matched) + 1 /\ last \in 0 .. Len(matched)
    BY <1>4, <1>6, <1>10
  <2> HIDE DEF S
  <2>2. /\ SubSeq(matched, 1, last) \in Seq(S)
        /\ Len(SubSeq(matched, 1, last)) = last
        /\ \A i \in 1 .. last : SubSeq(matched, 1, last)[i] = matched[i]
    <3>1. last \in Nat /\ (1 <= last + 1)
      BY <1>4, <1>6
    <3> QED BY <2>1, <3>1
  <2> QED BY <2>2
<1>12. DOMAIN outcome = OutcomeFields /\ outcome.trace = SubSeq(matched, 1, last)
  BY <1>1, <1>2 DEF Untraced, OutcomeFields
<1>13. \A i \in 1 .. last : i \in DOMAIN rules
  BY <1>4, <1>6
<1> QED BY <1>4, <1>9, <1>11, <1>12, <1>13 DEF outcome

(* Every entry of a trace says whether that rule's condition really        *)
(* holds.                                                                  *)
LEMMA TraceOfDecision ==
  ASSUME NEW snapshot, SoundSnapshot(snapshot), NEW request,
         NEW overriding, NEW cache, CacheSound(cache)
  PROVE  LET outcome == Decision(snapshot, request, overriding, cache) IN
         \A i \in DOMAIN outcome.trace :
           outcome.trace[i] <=>
             Holds(snapshot.flags[request.flagKey].rules[i].when, request, NoOperands)
PROOF
<1> DEFINE outcome == Decision(snapshot, request, overriding, cache)
           flag == snapshot.flags[request.flagKey]
<1>1. ASSUME Untraced(outcome) PROVE DOMAIN outcome.trace = {}
  BY <1>1 DEF Untraced
<1>2. CASE request.flagKey \notin DOMAIN snapshot.flags
  <2>1. outcome = [Answer("DEFAULT") EXCEPT !.errorCode = "FLAG_NOT_FOUND"]
    BY <1>2 DEF Decision
  <2>2. Untraced(outcome)
    BY <2>1, UntracedAnswers DEF Untraced, OutcomeFields
  <2> QED BY <1>1, <2>2
<1>3. CASE request.flagKey \in DOMAIN snapshot.flags
  <2>1. SoundFlag(flag)
    BY <1>3 DEF SoundSnapshot
  <2>2. Untraced([Answer("ENV_OVERRIDE") EXCEPT !.value = overriding.values[request.flagKey]])
    BY UntracedAnswers DEF Untraced, OutcomeFields
  <2>3. outcome = ByRules(snapshot, flag, request, cache) \/ Untraced(outcome)
    <3> HIDE DEF flag
    <3> QED BY <1>3, <2>2, UntracedAnswers DEF Decision, ByOverride, flag
  <2>4. CASE outcome = ByRules(snapshot, flag, request, cache)
    <3> HIDE DEF outcome
    <3> QED BY <2>1, <2>4, TraceOfRules DEF outcome
  <2> QED BY <1>1, <2>3, <2>4
<1> QED BY <1>2, <1>3

-----------------------------------------------------------------------------
(* A captured copy never fails for itself.                                 *)

RolloutChooses(rollout, variants) ==
  \E raw \in Rollouts :
    /\ Positive(raw) /\ rollout = CapturedRollout(raw)
    /\ \A i \in DOMAIN raw.rules : raw.rules[i].variant \in DOMAIN variants

Chooses(flag) ==
  /\ \A name \in DOMAIN flag.variants :
       name # Undefined /\ FlagValueMatchesType(flag.variants[name], flag.type)
  /\ flag.defaultVariant \in DOMAIN flag.variants
  /\ flag.disabledVariant # Undefined => flag.disabledVariant \in DOMAIN flag.variants
  /\ flag.rollout # Undefined => RolloutChooses(flag.rollout, flag.variants)
  /\ flag.schedule # Undefined => flag.schedule.variant \in DOMAIN flag.variants
  /\ IsSequence(flag.rules)
  /\ \A i \in DOMAIN flag.rules :
       IF flag.rules[i].variant # Undefined THEN flag.rules[i].variant \in DOMAIN flag.variants
       ELSE /\ flag.rules[i].rollout # Undefined
            /\ RolloutChooses(flag.rules[i].rollout, flag.variants)

(* A captured rollout chooses among the variants of its flag.              *)
LEMMA CapturedRolloutChooses ==
  ASSUME NEW rollout \in Rollouts, NEW variants, NEW version,
         ValidRollout(rollout.rules, variants, version)
  PROVE  RolloutChooses(CapturedRollout(rollout), variants)
PROOF
<1>1. \A i \in DOMAIN rollout.rules : rollout.rules[i].variant \in DOMAIN variants
  BY DEF ValidRollout
<1> QED BY <1>1, ValidRolloutPositive DEF RolloutChooses

(* Everything in the copy of a valid flag names a variant of its type.     *)
LEMMA CapturedFlagChooses ==
  ASSUME NEW flag, IsFlag(flag), NEW version \in {1, 2}, ValidFlag(flag, version)
  PROVE  Chooses(CapturedFlag(flag))
PROOF
<1> DEFINE captured == CapturedFlag(flag)
<1>1. /\ SoundFlag(captured)
      /\ captured.type = flag.type /\ captured.variants = flag.variants
      /\ captured.defaultVariant = flag.defaultVariant
      /\ captured.disabledVariant = flag.disabledVariant /\ captured.schedule = flag.schedule
      /\ captured.rollout = CapturedRollout(flag.rollout)
      /\ captured.rollout = Undefined <=> flag.rollout = Undefined
      /\ DOMAIN captured.rules = DOMAIN flag.rules
      /\ \A i \in DOMAIN flag.rules : captured.rules[i] = CapturedRule(flag.rules[i])
      /\ flag.schedule # Undefined => ValidSchedule(flag.schedule, flag.variants)
  <2>1. \A field \in {"type", "variants", "defaultVariant", "envVar", "disabledVariant", "schedule"} :
              captured[field] = flag[field]
    BY CapturedFlagSound
  <2> HIDE DEF captured
  <2> QED BY <2>1, CapturedFlagSound DEF captured
<1>2. /\ flag.rollout \in Rollouts \cup {Undefined}
      /\ \A i \in DOMAIN flag.rules : IsRule(flag.rules[i])
  BY DEF IsFlag, IsFlagOf, IsRule
<1>3. /\ \A name \in DOMAIN flag.variants :
            name # Undefined /\ FlagValueMatchesType(flag.variants[name], flag.type)
      /\ flag.defaultVariant \in DOMAIN flag.variants
      /\ flag.rollout # Undefined => ValidRollout(flag.rollout.rules, flag.variants, version)
  BY DEF ValidFlag, ValidVariants, NonBlank
<1>4. flag.disabledVariant # Undefined => flag.disabledVariant \in DOMAIN flag.variants
  BY DEF ValidFlag
<1>5. captured.rollout # Undefined => RolloutChooses(captured.rollout, captured.variants)
  BY <1>1, <1>2, <1>3, CapturedRolloutChooses
<1>6. flag.rules = <<>> \/ ValidRules(flag.rules, flag.variants)
  BY DEF ValidFlag
<1>7. \A i \in DOMAIN flag.rules : ValidRule(flag.rules[i], flag.variants)
  BY <1>6 DEF ValidRules
<1>8. ASSUME NEW i \in DOMAIN captured.rules
      PROVE  IF captured.rules[i].variant # Undefined
               THEN captured.rules[i].variant \in DOMAIN captured.variants
             ELSE /\ captured.rules[i].rollout # Undefined
                  /\ RolloutChooses(captured.rules[i].rollout, captured.variants)
  <2> DEFINE rule == flag.rules[i]
  <2>1. /\ IsRule(rule) /\ ValidRule(rule, flag.variants) /\ captured.rules[i] = CapturedRule(rule)
    BY <1>1, <1>2, <1>7
  <2>2. /\ CapturedRule(rule).variant = rule.variant
        /\ CapturedRule(rule).rollout = CapturedRollout(rule.rollout)
        /\ CapturedRule(rule).rollout = Undefined <=> rule.rollout = Undefined
    BY <2>1, CapturedRuleSound
  <2>3. /\ (rule.variant = Undefined) # (rule.rollout = Undefined)
        /\ rule.variant # Undefined => rule.variant \in DOMAIN flag.variants
        /\ rule.rollout # Undefined => ValidRollout(rule.rollout.rules, flag.variants, 2)
        /\ rule.rollout \in Rollouts \cup {Undefined}
    BY <2>1 DEF ValidRule, IsRule, IsRuleOf
  <2> HIDE DEF rule, captured
  <2>4. rule.rollout # Undefined => RolloutChooses(CapturedRollout(rule.rollout), flag.variants)
    BY <2>3, CapturedRolloutChooses
  <2> QED BY <1>1, <2>1, <2>2, <2>3, <2>4
<1>9. captured.schedule # Undefined => captured.schedule.variant \in DOMAIN captured.variants
  BY <1>1 DEF ValidSchedule
<1> HIDE DEF captured
<1> QED BY <1>1, <1>3, <1>4, <1>5, <1>8, <1>9 DEF Chooses, SoundFlag, captured

(* A rollout chooses one of the variants, or none.                         *)
LEMMA ChosenFromVariants ==
  ASSUME NEW rollout, NEW variants, RolloutChooses(rollout, variants),
         NEW request \in Requests, HasKey(request)
  PROVE  SelectRolloutVariant(rollout, BucketsOf(request)).variant \in DOMAIN variants \cup {Undefined}
PROOF
<1>1. PICK raw \in Rollouts : /\ Positive(raw) /\ rollout = CapturedRollout(raw)
                              /\ \A i \in DOMAIN raw.rules : raw.rules[i].variant \in DOMAIN variants
  BY DEF RolloutChooses
<1> DEFINE rules == raw.rules
           bucket == BucketsOf(request)[RolloutSeed(rules)]
<1>2. bucket \in Nat
  BY SeedOfRollout, EvaluationAssumption DEF Hashed, BucketsOf, HasKey
<1>3. SelectRolloutVariant(rollout, BucketsOf(request)) = SelectRolloutVariant(raw, BucketsOf(request))
  BY <1>1, <1>2, SelectedAlike DEF Positive
<1>4. SelectRolloutVariant(raw, BucketsOf(request)).variant =
        IF RuleOf(rules, bucket) = {} THEN Undefined ELSE rules[Min(RuleOf(rules, bucket))].variant
  BY SelectedDirectly
<1>5. IsSequence(rules)
  BY RolloutShape
<1> HIDE DEF bucket
<1>6. RuleOf(rules, bucket) # {} => Min(RuleOf(rules, bucket)) \in DOMAIN rules
  BY <1>1, <1>2, <1>5, BucketsOfRule DEF Positive
<1> QED BY <1>1, <1>3, <1>4, <1>6

(* Neither thrown nor of another type, and refused only for the request.   *)
Unblamed(outcome, request) ==
  /\ DOMAIN outcome = OutcomeFields
  /\ outcome.reason # "THROWN"
  /\ outcome.errorCode # "TYPE_MISMATCH"
  /\ outcome.errorCode = "INVALID_CONTEXT" =>
       ~HasKey(request) \/ ~ValidScheduleTime(request.time)
  /\ Expected(outcome, request)

(* A variant of the flag's type is an answer of that type.                 *)
LEMMA UnblamedVariant ==
  ASSUME NEW flag, Chooses(flag), NEW request, flag.type = request.expectedType,
         NEW name \in DOMAIN flag.variants,
         NEW reason \in {"SPLIT", "STATIC", "TARGETING_MATCH", "DISABLED"}
  PROVE  Unblamed(SelectedVariant(flag, request, name, reason), request)
PROOF
<1>1. FlagValueMatchesType(flag.variants[name], request.expectedType)
  BY DEF Chooses
<1>2. SelectedVariant(flag, request, name, reason) =
        [Answer(reason) EXCEPT !.value = flag.variants[name], !.variant = name]
  BY <1>1 DEF SelectedVariant
<1>3. flag.variants[name].type = request.expectedType
  BY <1>1 DEF FlagValueMatchesType
<1>4. Undefined \notin ErrorCodes
  BY EvaluationAssumption
<1> DEFINE outcome == SelectedVariant(flag, request, name, reason)
<1>5. /\ DOMAIN outcome = OutcomeFields /\ outcome.reason = reason /\ outcome.errorCode = Undefined
      /\ outcome.value = flag.variants[name]
  BY <1>2 DEF Answer, OutcomeFields
<1> HIDE DEF outcome
<1>6. Undefined # "TYPE_MISMATCH" /\ Undefined # "INVALID_CONTEXT"
  BY <1>4 DEF ErrorCodes
<1> QED BY <1>3, <1>5, <1>6 DEF Unblamed, Expected, outcome

(* A refusal for the request's sake.                                       *)
LEMMA UnblamedFailure ==
  ASSUME NEW request, NEW code \in {"INVALID_CONTEXT", "OVERRIDE_PARSE_ERROR"},
         code = "INVALID_CONTEXT" => ~HasKey(request) \/ ~ValidScheduleTime(request.time)
  PROVE  Unblamed(Failure(code), request)
PROOF
<1>1. Undefined \notin ErrorCodes
  BY EvaluationAssumption
<1>2. /\ DOMAIN Failure(code) = OutcomeFields /\ Failure(code).reason = "ERROR"
      /\ Failure(code).errorCode = code
  BY DEF Failure, Answer, OutcomeFields
<1>3. code # Undefined
  BY <1>1 DEF ErrorCodes
<1> QED BY <1>2, <1>3 DEF Unblamed, Expected

(* The answer to a selection among the variants.                           *)
LEMMA UnblamedSelection ==
  ASSUME NEW flag, Chooses(flag), NEW request, flag.type = request.expectedType,
         NEW selection, selection.variant \in DOMAIN flag.variants \cup {Undefined},
         NEW otherwise \in {"STATIC", "TARGETING_MATCH"}
  PROVE  Unblamed(FromSelection(flag, request, selection, otherwise), request)
PROOF
<1> DEFINE outcome == IF selection.variant # Undefined
                        THEN SelectedVariant(flag, request, selection.variant, "SPLIT")
                        ELSE SelectedVariant(flag, request, flag.defaultVariant, otherwise)
<1>1. Unblamed(outcome, request)
  <2>1. flag.defaultVariant \in DOMAIN flag.variants
    BY DEF Chooses
  <2> QED BY <2>1, UnblamedVariant
<1>2. FromSelection(flag, request, selection, otherwise) = [outcome EXCEPT !.bucket = selection.bucket]
  BY DEF FromSelection
<1> HIDE DEF outcome
<1> QED BY <1>1, <1>2 DEF Unblamed, Expected, OutcomeFields

(* The answer of a rollout.                                                *)
LEMMA UnblamedRollout ==
  ASSUME NEW flag, Chooses(flag), NEW request \in Requests, flag.type = request.expectedType
  PROVE  Unblamed(ByRollout(flag, request), request)
PROOF
<1>1. flag.defaultVariant \in DOMAIN flag.variants
  BY DEF Chooses
<1>2. Unblamed(SelectedVariant(flag, request, flag.defaultVariant, "STATIC"), request)
  BY <1>1, UnblamedVariant
<1>3. CASE flag.rollout = Undefined
  BY <1>2, <1>3 DEF ByRollout
<1>4. CASE flag.rollout # Undefined /\ ~HasKey(request)
  BY <1>4, UnblamedFailure DEF ByRollout
<1>5. CASE flag.rollout # Undefined /\ HasKey(request)
  <2> DEFINE selection == SelectRolloutVariant(flag.rollout, BucketsOf(request))
  <2>1. selection.variant \in DOMAIN flag.variants \cup {Undefined}
    BY <1>5, ChosenFromVariants DEF Chooses
  <2>2. ByRollout(flag, request) \in {SelectedVariant(flag, request, flag.defaultVariant, "STATIC"),
                                      FromSelection(flag, request, selection, "STATIC")}
    BY <1>5 DEF ByRollout
  <2> HIDE DEF selection
  <2>3. Unblamed(FromSelection(flag, request, selection, "STATIC"), request)
    BY <2>1, UnblamedSelection
  <2> QED BY <1>2, <2>2, <2>3
<1> QED BY <1>3, <1>4, <1>5

(* The answer of a schedule.                                               *)
LEMMA UnblamedSchedule ==
  ASSUME NEW snapshot, NEW flag, Chooses(flag), NEW request \in Requests,
         flag.type = request.expectedType
  PROVE  Unblamed(BySchedule(snapshot, flag, request), request)
PROOF
<1> DEFINE selection == SelectScheduledVariant(flag.schedule, request.time,
                                               BucketsOf(request), snapshot.validated)
           scheduled == [FromSelection(flag, request, selection, "STATIC") EXCEPT !.schedule = selection.schedule]
<1>1. CASE snapshot.schemaVersion # 2 \/ flag.schedule = Undefined
  BY <1>1, UnblamedRollout DEF BySchedule
<1>2. CASE ~(snapshot.schemaVersion # 2 \/ flag.schedule = Undefined)
  <2>1. CASE ~ValidScheduleTime(request.time) \/ ~HasKey(request)
    BY <1>2, <2>1, UnblamedFailure DEF BySchedule
  <2>2. CASE ~(~ValidScheduleTime(request.time) \/ ~HasKey(request))
    <3>1. selection.variant \in DOMAIN flag.variants \cup {Undefined}
      BY <1>2 DEF SelectScheduledVariant, Chooses
    <3>2. BySchedule(snapshot, flag, request) = scheduled
      BY <1>2, <2>2 DEF BySchedule
    <3> HIDE DEF selection
    <3>3. Unblamed(FromSelection(flag, request, selection, "STATIC"), request)
      BY <3>1, UnblamedSelection
    <3> QED BY <3>2, <3>3 DEF Unblamed, Expected, OutcomeFields
  <2> QED BY <2>1, <2>2
<1> QED BY <1>1, <1>2

(* The answer of a rule, which has a variant or a rollout.                 *)
LEMMA UnblamedRule ==
  ASSUME NEW flag, Chooses(flag), NEW request \in Requests, flag.type = request.expectedType,
         NEW i \in DOMAIN flag.rules
  PROVE  Unblamed(ByRule(flag, request, flag.rules[i]), request)
PROOF
<1> DEFINE rule == flag.rules[i]
           selection == SelectRolloutVariant(rule.rollout, BucketsOf(request))
           answer == IF rule.variant # Undefined
                       THEN SelectedVariant(flag, request, rule.variant, "TARGETING_MATCH")
                     ELSE IF ~HasKey(request) THEN Failure("INVALID_CONTEXT")
                     ELSE IF rule.rollout = Undefined THEN Answer("THROWN")
                     ELSE FromSelection(flag, request, selection, "TARGETING_MATCH")
<1>1. ByRule(flag, request, rule) = [answer EXCEPT !.rule = rule.id]
  BY DEF ByRule
<1>2. IF rule.variant # Undefined THEN rule.variant \in DOMAIN flag.variants
      ELSE rule.rollout # Undefined /\ RolloutChooses(rule.rollout, flag.variants)
  BY DEF Chooses
<1> HIDE DEF rule
<1>3. CASE rule.variant # Undefined
  <2>1. Unblamed(SelectedVariant(flag, request, rule.variant, "TARGETING_MATCH"), request)
    BY <1>2, <1>3, UnblamedVariant
  <2>2. answer = SelectedVariant(flag, request, rule.variant, "TARGETING_MATCH")
    BY <1>3
  <2> HIDE DEF answer
  <2> QED BY <1>1, <2>1, <2>2 DEF Unblamed, Expected, OutcomeFields, rule
<1>4. CASE rule.variant = Undefined /\ ~HasKey(request)
  <2>1. Unblamed(Failure("INVALID_CONTEXT"), request)
    BY <1>4, UnblamedFailure
  <2>2. answer = Failure("INVALID_CONTEXT")
    BY <1>4
  <2> HIDE DEF answer
  <2> QED BY <1>1, <2>1, <2>2 DEF Unblamed, Expected, OutcomeFields, rule
<1>5. CASE rule.variant = Undefined /\ HasKey(request)
  <2>1. selection.variant \in DOMAIN flag.variants \cup {Undefined}
    BY <1>2, <1>5, ChosenFromVariants
  <2>2. answer = FromSelection(flag, request, selection, "TARGETING_MATCH")
    BY <1>2, <1>5
  <2> HIDE DEF answer, selection
  <2>3. Unblamed(FromSelection(flag, request, selection, "TARGETING_MATCH"), request)
    BY <2>1, UnblamedSelection
  <2> QED BY <1>1, <2>2, <2>3 DEF Unblamed, Expected, OutcomeFields, rule
<1> QED BY <1>3, <1>4, <1>5

(* The answer of the rules.                                                *)
LEMMA UnblamedRules ==
  ASSUME NEW snapshot, NEW flag, Chooses(flag), NEW request \in Requests,
         flag.type = request.expectedType, NEW cache
  PROVE  Unblamed(ByRules(snapshot, flag, request, cache), request)
PROOF
<1> DEFINE rules == RulesOf(snapshot, flag)
           matched == Matched(snapshot, flag, request, cache)
           first == FirstMatch(rules, matched)
           chosen == IF first \in DOMAIN rules THEN ByRule(flag, request, rules[first])
                                               ELSE BySchedule(snapshot, flag, request)
           trace == SubSeq(matched, 1, Min({first, Len(rules)}))
<1>1. ByRules(snapshot, flag, request, cache) = [chosen EXCEPT !.trace = trace]
  BY ByRulesMeans
<1>2. \A i \in DOMAIN rules : i \in DOMAIN flag.rules /\ rules[i] = flag.rules[i]
  BY DEF RulesOf
<1>3. Unblamed(chosen, request)
  <2> HIDE DEF rules, first
  <2> QED BY <1>2, UnblamedRule, UnblamedSchedule
<1> HIDE DEF chosen, trace
<1> QED BY <1>1, <1>3 DEF Unblamed, Expected, OutcomeFields

(* A decision of a copy fails only for what the request or the             *)
(* environment lacks.                                                      *)
LEMMA UnblamedDecision ==
  ASSUME NEW snapshot, NEW request \in Requests, NEW overriding, NEW cache,
         \A key \in DOMAIN snapshot.flags : Chooses(snapshot.flags[key])
  PROVE  LET outcome == Decision(snapshot, request, overriding, cache) IN
         /\ outcome.reason # "THROWN"
         /\ outcome.errorCode = "TYPE_MISMATCH" =>
              snapshot.flags[request.flagKey].type # request.expectedType
         /\ outcome.errorCode = "INVALID_CONTEXT" =>
              ~HasKey(request) \/ ~ValidScheduleTime(request.time)
         /\ Expected(outcome, request)
PROOF
<1> DEFINE key == request.flagKey
           flag == snapshot.flags[key]
           outcome == Decision(snapshot, request, overriding, cache)
<1>0. Undefined \notin ErrorCodes
  BY EvaluationAssumption
<1>1. CASE key \notin DOMAIN snapshot.flags
  <2>1. outcome.reason = "DEFAULT" /\ outcome.errorCode = "FLAG_NOT_FOUND"
    BY <1>1 DEF Decision, Answer
  <2> HIDE DEF outcome
  <2>2. Undefined # "FLAG_NOT_FOUND"
    BY <1>0 DEF ErrorCodes
  <2> QED BY <2>1, <2>2 DEF Expected, outcome
<1>2. CASE key \in DOMAIN snapshot.flags /\ flag.type # request.expectedType
  <2>1. outcome.reason = "ERROR" /\ outcome.errorCode = "TYPE_MISMATCH"
    BY <1>2 DEF Decision, Answer, Failure
  <2> HIDE DEF outcome
  <2>2. Undefined # "TYPE_MISMATCH"
    BY <1>0 DEF ErrorCodes
  <2> QED BY <1>2, <2>1, <2>2 DEF Expected, outcome
<1>3. CASE key \in DOMAIN snapshot.flags /\ flag.type = request.expectedType
  <2>1. Chooses(flag)
    BY <1>3
  <2>2. (flag.disabledVariant # Undefined) =>
           Unblamed(SelectedVariant(flag, request, flag.disabledVariant, "DISABLED"), request)
    <3>1. flag.disabledVariant # Undefined => flag.disabledVariant \in DOMAIN flag.variants
      BY <2>1 DEF Chooses
    <3> HIDE DEF flag
    <3> QED BY <1>3, <2>1, <3>1, UnblamedVariant
  <2>3. Unblamed(ByRules(snapshot, flag, request, cache), request)
    BY <1>3, <2>1, UnblamedRules
  <2>4. Unblamed(Failure("OVERRIDE_PARSE_ERROR"), request)
    BY UnblamedFailure
  <2> DEFINE value == overriding.values[key]
             replaced == [Answer("ENV_OVERRIDE") EXCEPT !.value = value]
  <2>5. FlagValueMatchesType(value, request.expectedType) => Unblamed(replaced, request)
    <3>1. /\ DOMAIN replaced = OutcomeFields /\ replaced.reason = "ENV_OVERRIDE"
          /\ replaced.errorCode = Undefined /\ replaced.value = value
      BY DEF Answer, OutcomeFields
    <3>2. Undefined # "TYPE_MISMATCH" /\ Undefined # "INVALID_CONTEXT"
      BY <1>0 DEF ErrorCodes
    <3> HIDE DEF replaced, value
    <3> QED BY <3>1, <3>2 DEF Unblamed, Expected, FlagValueMatchesType
  <2>6. Unblamed(ByOverride(snapshot, flag, request, overriding, cache), request)
    <3> HIDE DEF flag
    <3> QED BY <2>3, <2>4, <2>5 DEF ByOverride
  <2>7. outcome = IF snapshot.schemaVersion = 2 /\ flag.disabledVariant # Undefined
                    THEN SelectedVariant(flag, request, flag.disabledVariant, "DISABLED")
                  ELSE ByOverride(snapshot, flag, request, overriding, cache)
    BY <1>3 DEF Decision
  <2> HIDE DEF flag
  <2>8. Unblamed(outcome, request)
    <3> HIDE DEF outcome
    <3> QED BY <2>2, <2>6, <2>7
  <2> HIDE DEF outcome
  <2> QED BY <2>8 DEF Unblamed, outcome
<1> QED BY <1>1, <1>2, <1>3

-----------------------------------------------------------------------------
(* What a captured copy promises of its rollouts and schedules.            *)

(* The buckets for which a captured rollout chooses a variant are as many  *)
(* as its rules ask for.                                                   *)
LEMMA CapturedShares ==
  ASSUME NEW raw \in Rollouts, NEW variants, NEW version, ValidRollout(raw.rules, variants, version),
         NEW name, name # Undefined
  PROVE  Cardinality(Chosen(CapturedRollout(raw), name)) = Cardinality(Shares(raw.rules, name))
PROOF
<1> DEFINE rollout == CapturedRollout(raw)
           rules == raw.rules
           bucketOf(bucket) == [seed \in {RolloutSeed(rules)} |-> bucket]
<1>1. IsSequence(rules) /\ rollout.rules = rules
  BY RolloutShape
<1>2. Positive(raw)
  BY ValidRolloutPositive
<1>3. ASSUME NEW bucket \in 0 .. BucketScale - 1
      PROVE  SelectRolloutVariant(rollout, bucketOf(bucket)).variant = name
               <=> RuleOf(rules, bucket) # {} /\ rules[Min(RuleOf(rules, bucket))].variant = name
  <2>1. bucketOf(bucket)[RolloutSeed(rules)] = bucket /\ bucket \in Nat
    BY RolloutsAssumption
  <2> HIDE DEF bucketOf
  <2>2. SelectRolloutVariant(rollout, bucketOf(bucket)) = SelectRolloutVariant(raw, bucketOf(bucket))
    BY <1>2, <2>1, SelectedAlike DEF Positive
  <2>3. SelectRolloutVariant(raw, bucketOf(bucket)).variant =
          IF RuleOf(rules, bucket) = {} THEN Undefined ELSE rules[Min(RuleOf(rules, bucket))].variant
    BY <2>1, SelectedDirectly
  <2> HIDE DEF rollout, rules
  <2> QED BY <2>2, <2>3
<1>4. Chosen(rollout, name) = {bucket \in 0 .. BucketScale - 1 :
                                 SelectRolloutVariant(rollout, bucketOf(bucket)).variant = name}
  <2> HIDE DEF rollout, rules
  <2> QED BY <1>1 DEF Chosen
<1>5. Chosen(rollout, name) = FallTo(rules, name)
  <2> HIDE DEF rollout, rules, bucketOf
  <2> QED BY <1>3, <1>4 DEF FallTo
<1>6. Cardinality(FallTo(rules, name)) = Cardinality(Shares(rules, name))
  BY <1>1, SharesOfVariant
<1> HIDE DEF rules, rollout
<1> QED BY <1>5, <1>6 DEF rules, rollout

(* The copy of a valid flag.                                               *)
LEMMA CopiedFlag ==
  ASSUME NEW flag, IsFlag(flag), NEW version \in {1, 2}, ValidFlag(flag, version)
  PROVE  LET copy == CapturedFlag(flag) IN
         /\ copy.rollout # Undefined =>
              \A name \in DOMAIN copy.variants :
                Cardinality(Chosen(copy.rollout, name)) = Cardinality(Shares(copy.rollout.rules, name))
         /\ copy.schedule # Undefined => NeverShrinks(copy.schedule)
PROOF
<1> DEFINE copy == CapturedFlag(flag)
<1>1. /\ copy.rollout = CapturedRollout(flag.rollout)
      /\ copy.rollout = Undefined <=> flag.rollout = Undefined
      /\ copy.variants = flag.variants /\ copy.schedule = flag.schedule
      /\ flag.schedule # Undefined => ValidSchedule(flag.schedule, flag.variants)
      /\ SoundFlag(copy)
  <2>1. \A field \in {"type", "variants", "defaultVariant", "envVar", "disabledVariant", "schedule"} :
          copy[field] = flag[field]
    BY CapturedFlagSound
  <2>2. copy.variants = flag.variants /\ copy.schedule = flag.schedule
    <3> HIDE DEF copy
    <3> QED BY <2>1
  <2> QED BY <2>2, CapturedFlagSound
<1>2. \A name \in DOMAIN flag.variants : name # Undefined
  BY DEF ValidFlag, ValidVariants, NonBlank
<1>3. flag.rollout # Undefined => flag.rollout \in Rollouts /\ ValidRollout(flag.rollout.rules, flag.variants, version)
  BY DEF IsFlag, IsFlagOf, ValidFlag
<1>4. ASSUME flag.rollout # Undefined, NEW name \in DOMAIN flag.variants
      PROVE  Cardinality(Chosen(copy.rollout, name)) = Cardinality(Shares(copy.rollout.rules, name))
  <2>1. Cardinality(Chosen(CapturedRollout(flag.rollout), name)) = Cardinality(Shares(flag.rollout.rules, name))
    BY <1>2, <1>3, <1>4, CapturedShares
  <2>2. CapturedRollout(flag.rollout).rules = flag.rollout.rules
    BY <1>3, <1>4, RolloutShape
  <2> HIDE DEF copy
  <2> QED BY <1>1, <2>1, <2>2
<1>5. ASSUME flag.schedule # Undefined PROVE NeverShrinks(flag.schedule)
  <2>1. IsSchedule(flag.schedule)
    BY <1>5 DEF IsFlag, IsFlagOf
  <2>2. ValidStages(flag.schedule.stages) /\ flag.schedule.variant # Undefined
    BY <1>1, <1>2, <1>5 DEF ValidSchedule
  <2>3. RequestTimes \subseteq Nat /\ 0 .. BucketScale - 1 \subseteq Nat
    BY EvaluationAssumption, RolloutsAssumption
  <2> QED BY <2>1, <2>2, <2>3, ValidScheduleGrows DEF NeverShrinks
<1> HIDE DEF copy
<1> QED BY <1>1, <1>4, <1>5 DEF copy

-----------------------------------------------------------------------------
(* The overrides of the environment.                                       *)

TextOf(flags, env, key) ==
  IF flags[key].envVar = Undefined THEN Undefined ELSE Lookup(env, flags[key].envVar)

ValueOf(flags, env, key) == ParsedAs[flags[key].type][TextOf(flags, env, key)]

(* Every object kept was parsed from the text it is kept with.             *)
ObjectsSound(cache) ==
  /\ DOMAIN cache = {"last", "bindings"}
  /\ cache.last # Undefined => cache.last.value = ParsedAs["object"][cache.last.input]
  /\ \A binding \in DOMAIN cache.bindings :
       cache.bindings[binding].value = ParsedAs["object"][cache.bindings[binding].input]

(* A text is parsed to the same value with and without what was kept, and  *)
(* what is kept stays sound.                                               *)
LEMMA ParsedAlike ==
  ASSUME NEW text, NEW type, NEW cache, ObjectsSound(cache), NEW binding
  PROVE  LET parsed == ParseEnvValue(text, type, cache, binding) IN
         parsed.value = ParsedAs[type][text] /\ ObjectsSound(parsed.cache)
PROOF
<1> DEFINE reused == IF type = "object" THEN Reused(cache, text, binding) ELSE Undefined
           value == IF reused # Undefined THEN reused.value ELSE ParsedAs[type][text]
           entry == [input |-> text, value |-> value]
           names == DOMAIN cache.bindings \cup {binding}
           kept == [b \in names |-> IF b = binding THEN entry ELSE cache.bindings[b]]
           next == [last |-> entry, bindings |-> kept]
<1>1. reused # Undefined => type = "object" /\ reused.value = ParsedAs["object"][text]
  BY DEF Reused, ObjectsSound
<1>2. value = ParsedAs[type][text]
  BY <1>1
<1>3. /\ ParseEnvValue(text, type, cache, binding).value = value
      /\ ParseEnvValue(text, type, cache, binding).cache =
           IF type = "object" /\ value # Undefined THEN next ELSE cache
  BY DEF ParseEnvValue
<1> HIDE DEF value, reused
<1>4. type = "object" => ObjectsSound(next)
  <2> SUFFICES ASSUME type = "object" PROVE ObjectsSound(next)
    OBVIOUS
  <2>1. entry.value = ParsedAs["object"][entry.input]
    BY <1>2
  <2>2. /\ DOMAIN next = {"last", "bindings"} /\ next.last = entry /\ next.bindings = kept
        /\ DOMAIN kept = names
    OBVIOUS
  <2>3. \A b \in names : kept[b].value = ParsedAs["object"][kept[b].input]
    <3> HIDE DEF entry
    <3> QED BY <2>1 DEF ObjectsSound
  <2> HIDE DEF next, kept, names, entry
  <2> QED BY <2>1, <2>2, <2>3 DEF ObjectsSound
<1> HIDE DEF next
<1> QED BY <1>2, <1>3, <1>4

Given(flags, env, done, key) ==
  key \in done /\ TextOf(flags, env, key) # Undefined /\ ValueOf(flags, env, key) # Undefined

Wrong(flags, env, done, key) ==
  key \in done /\ TextOf(flags, env, key) # Undefined /\ ValueOf(flags, env, key) = Undefined

(* The flags done have what their own texts give them.                     *)
StateSound(flags, env, done, progress) ==
  /\ DOMAIN progress = {"values", "errors", "cache"}
  /\ ObjectsSound(progress.cache)
  /\ \A k : k \in DOMAIN progress.values <=> Given(flags, env, done, k)
  /\ \A k \in DOMAIN progress.values : progress.values[k] = ValueOf(flags, env, k)
  /\ \A k : k \in progress.errors <=> Wrong(flags, env, done, k)

(* One turn of the loop over the flags.                                    *)
LEMMA OneFlagApplied ==
  ASSUME NEW flags, NEW env, NEW done, NEW progress, StateSound(flags, env, done, progress), NEW key
  PROVE  StateSound(flags, env, done \cup {key}, ApplyFlag(flags, env, progress, key))
PROOF
<1> DEFINE name == flags[key].envVar
           text == TextOf(flags, env, key)
           value == ValueOf(flags, env, key)
           parsed == ParseEnvValue(text, flags[key].type, progress.cache, name)
           next == ApplyFlag(flags, env, progress, key)
           more == done \cup {key}
<1>1. parsed.value = value /\ ObjectsSound(parsed.cache)
  BY ParsedAlike DEF StateSound, ValueOf
<1>2. next = IF text = Undefined THEN progress
             ELSE IF parsed.value = Undefined
               THEN [progress EXCEPT !.errors = @ \cup {key}, !.cache = parsed.cache]
             ELSE [progress EXCEPT !.values = With(@, key, parsed.value), !.cache = parsed.cache]
  BY DEF ApplyFlag, TextOf
<1> HIDE DEF parsed, next
<1>6. \A k : k \in more <=> k \in done \/ k = key
  OBVIOUS
<1>7. /\ DOMAIN progress = {"values", "errors", "cache"}
      /\ ObjectsSound(progress.cache)
      /\ \A k : k \in DOMAIN progress.values <=> Given(flags, env, done, k)
      /\ \A k \in DOMAIN progress.values : progress.values[k] = ValueOf(flags, env, k)
      /\ \A k : k \in progress.errors <=> Wrong(flags, env, done, k)
  BY DEF StateSound
<1>8. \A k : /\ Given(flags, env, more, k) <=>
                  Given(flags, env, done, k) \/ (k = key /\ text # Undefined /\ value # Undefined)
             /\ Wrong(flags, env, more, k) <=>
                  Wrong(flags, env, done, k) \/ (k = key /\ text # Undefined /\ value = Undefined)
  BY <1>6 DEF Given, Wrong
<1>9. \A k : (k = key /\ k \in DOMAIN progress.values) => progress.values[k] = value
  BY <1>7
<1> HIDE DEF text, value, more
<1>3. CASE text = Undefined
  <2>1. next = progress
    BY <1>2, <1>3
  <2>2. /\ \A k : k \in DOMAIN next.values <=> Given(flags, env, more, k)
        /\ \A k : k \in next.errors <=> Wrong(flags, env, more, k)
    BY <1>3, <1>7, <1>8, <2>1
  <2>3. StateSound(flags, env, more, next)
    BY <1>7, <2>1, <2>2 DEF StateSound
  <2> QED BY <2>3 DEF next, more
<1>4. CASE text # Undefined /\ value = Undefined
  <2>1. /\ DOMAIN next = {"values", "errors", "cache"} /\ next.values = progress.values
        /\ next.errors = progress.errors \cup {key} /\ next.cache = parsed.cache
    BY <1>1, <1>2, <1>4, <1>7
  <2>2. \A k : k \in next.errors <=> k \in progress.errors \/ k = key
    BY <2>1
  <2>3. /\ \A k : k \in DOMAIN next.values <=> Given(flags, env, more, k)
        /\ \A k : k \in next.errors <=> Wrong(flags, env, more, k)
    BY <1>4, <1>7, <1>8, <2>1, <2>2
  <2>4. StateSound(flags, env, more, next)
    BY <1>1, <1>7, <2>1, <2>3 DEF StateSound
  <2> QED BY <2>4 DEF next, more
<1>5. CASE text # Undefined /\ value # Undefined
  <2>1. /\ DOMAIN next = {"values", "errors", "cache"} /\ next.errors = progress.errors
        /\ next.values = With(progress.values, key, value) /\ next.cache = parsed.cache
    BY <1>1, <1>2, <1>5, <1>7
  <2>2. /\ DOMAIN next.values = DOMAIN progress.values \cup {key}
        /\ \A k \in DOMAIN next.values : next.values[k] = IF k = key THEN value ELSE progress.values[k]
    BY <2>1 DEF With
  <2>3. \A k : k \in DOMAIN next.values <=> k \in DOMAIN progress.values \/ k = key
    BY <2>2
  <2>4. value = ValueOf(flags, env, key)
    BY DEF value
  <2>5. \A k \in DOMAIN next.values : next.values[k] = ValueOf(flags, env, k)
    BY <1>7, <2>2, <2>3, <2>4
  <2>6. /\ \A k : k \in DOMAIN next.values <=> Given(flags, env, more, k)
        /\ \A k : k \in next.errors <=> Wrong(flags, env, more, k)
    BY <1>5, <1>7, <1>8, <2>1, <2>3
  <2>7. StateSound(flags, env, more, next)
    BY <1>1, <2>1, <2>5, <2>6 DEF StateSound
  <2> QED BY <2>7 DEF next, more
<1> QED BY <1>3, <1>4, <1>5

(* The turns of the loop.                                                  *)
LEMMA AppliedDefined ==
  ASSUME NEW flags, NEW env
  PROVE  \E g :
           /\ ApplyPerFlagEnvOverrides(flags, env) = g[Len(FlagOrder)]
           /\ \A i \in 0 .. Len(FlagOrder) :
                g[i] = IF i = 0 THEN [values |-> <<>>, errors |-> {}, cache |-> NoCache]
                       ELSE IF FlagOrder[i] \in DOMAIN flags
                         THEN ApplyFlag(flags, env, g[i - 1], FlagOrder[i])
                       ELSE g[i - 1]
PROOF
<1> DEFINE E(g, i) == IF i = 0 THEN [values |-> <<>>, errors |-> {}, cache |-> NoCache]
                      ELSE IF FlagOrder[i] \in DOMAIN flags
                        THEN ApplyFlag(flags, env, g[i - 1], FlagOrder[i])
                      ELSE g[i - 1]
           S == {n \in Nat : \E g : \A m \in 0 .. n : g[m] = E(g, m)}
<1>0. Len(FlagOrder) \in Nat
  BY SequenceDomain, FlagOrderAssumption
<1>e. ASSUME NEW g, NEW h, NEW m, m = 0 \/ g[m - 1] = h[m - 1] PROVE E(g, m) = E(h, m)
  BY <1>e
<1>1. 0 \in S
  <2> DEFINE g == [m \in 0 .. 0 |-> [values |-> <<>>, errors |-> {}, cache |-> NoCache]]
  <2>1. \A m \in 0 .. 0 : g[m] = E(g, m)
    OBVIOUS
  <2> HIDE DEF g, E
  <2> QED BY <2>1
<1>2. ASSUME NEW n \in Nat, n \in S PROVE n + 1 \in S
  <2>1. PICK g : \A m \in 0 .. n : g[m] = E(g, m)
    BY <1>2
  <2> DEFINE h == [m \in 0 .. n + 1 |-> E(g, m)]
  <2> HIDE DEF E
  <2>2. ASSUME NEW m \in 0 .. n PROVE h[m] = g[m]
    <3>1. g[m] = E(g, m)
      BY <2>1
    <3>2. m \in 0 .. n + 1
      OBVIOUS
    <3>3. h[m] = E(g, m)
      BY <3>2
    <3> QED BY <3>1, <3>3
  <2>3. \A m \in 0 .. n + 1 : h[m] = E(h, m)
    <3>1. ASSUME NEW m \in 0 .. n + 1 PROVE E(g, m) = E(h, m)
      <4>1. m = 0 \/ m - 1 \in 0 .. n
        OBVIOUS
      <4> HIDE DEF h
      <4> QED BY <4>1, <2>2, <1>e
    <3> QED BY <3>1
  <2> HIDE DEF h
  <2> QED BY <2>3
<1>3. Len(FlagOrder) \in S
  <2> HIDE DEF S
  <2> QED BY <1>0, <1>1, <1>2, NaturalInduction
<1>4. PICK g : \A m \in 0 .. Len(FlagOrder) : g[m] = E(g, m)
  BY <1>3
<1> DEFINE h == [m \in 0 .. Len(FlagOrder) |-> E(g, m)]
<1>5. h = [m \in 0 .. Len(FlagOrder) |-> E(h, m)]
  <2> HIDE DEF E
  <2>1. ASSUME NEW m \in 0 .. Len(FlagOrder) PROVE E(g, m) = E(h, m)
    <3>1. m # 0 => m - 1 \in 0 .. Len(FlagOrder)
      BY <1>0
    <3>2. m # 0 => h[m - 1] = g[m - 1]
      BY <1>4, <3>1
    <3> HIDE DEF h
    <3> QED BY <3>2, <1>e
  <2> QED BY <2>1
<1> DEFINE applied == CHOOSE b : b = [m \in 0 .. Len(FlagOrder) |-> E(b, m)]
<1>6. applied = [m \in 0 .. Len(FlagOrder) |-> E(applied, m)]
  <2> HIDE DEF h, E
  <2> QED BY <1>5
<1>7. ApplyPerFlagEnvOverrides(flags, env) = applied[Len(FlagOrder)]
  BY DEF ApplyPerFlagEnvOverrides
<1>8. \A m \in 0 .. Len(FlagOrder) : applied[m] = E(applied, m)
  <2> HIDE DEF applied, E
  <2> QED BY <1>6
<1> HIDE DEF applied
<1> QED BY <1>7, <1>8

(* After the loop every flag in order has what its own text gives it.      *)
LEMMA AllFlagsApplied ==
  ASSUME NEW flags, NEW env
  PROVE  StateSound(flags, env, ToSet(FlagOrder) \cap DOMAIN flags, ApplyPerFlagEnvOverrides(flags, env))
PROOF
<1>0. Len(FlagOrder) \in Nat /\ DOMAIN FlagOrder = 1 .. Len(FlagOrder)
  BY SequenceDomain, FlagOrderAssumption
<1>1. PICK g :
        /\ ApplyPerFlagEnvOverrides(flags, env) = g[Len(FlagOrder)]
        /\ \A i \in 0 .. Len(FlagOrder) :
             g[i] = IF i = 0 THEN [values |-> <<>>, errors |-> {}, cache |-> NoCache]
                    ELSE IF FlagOrder[i] \in DOMAIN flags
                      THEN ApplyFlag(flags, env, g[i - 1], FlagOrder[i])
                    ELSE g[i - 1]
  BY AppliedDefined
<1> DEFINE done(n) == {FlagOrder[i] : i \in 1 .. n} \cap DOMAIN flags
           S == {n \in Nat : n <= Len(FlagOrder) => StateSound(flags, env, done(n), g[n])}
<1>2. 0 \in S
  <2>1. g[0] = [values |-> <<>>, errors |-> {}, cache |-> NoCache]
    <3>1. 0 \in 0 .. Len(FlagOrder)
      BY <1>0
    <3> QED BY <1>1, <3>1
  <2>2. done(0) = {}
    OBVIOUS
  <2>3. ObjectsSound(NoCache)
    BY DEF ObjectsSound, NoCache
  <2>5. /\ DOMAIN g[0] = {"values", "errors", "cache"} /\ DOMAIN g[0].values = {}
        /\ g[0].errors = {} /\ g[0].cache = NoCache
    BY <2>1
  <2>6. \A key : ~Given(flags, env, done(0), key) /\ ~Wrong(flags, env, done(0), key)
    BY <2>2 DEF Given, Wrong
  <2> HIDE DEF done
  <2>4. StateSound(flags, env, done(0), g[0])
    BY <2>3, <2>5, <2>6 DEF StateSound
  <2> QED BY <2>4
<1>3. ASSUME NEW n \in Nat, n \in S PROVE n + 1 \in S
  <2> SUFFICES ASSUME n + 1 <= Len(FlagOrder)
               PROVE  StateSound(flags, env, done(n + 1), g[n + 1])
    OBVIOUS
  <2>1. StateSound(flags, env, done(n), g[n])
    BY <1>0, <1>3
  <2>2. n + 1 \in 0 .. Len(FlagOrder) /\ n + 1 # 0 /\ (n + 1) - 1 = n
    BY <1>0
  <2>3. g[n + 1] = IF FlagOrder[n + 1] \in DOMAIN flags
                     THEN ApplyFlag(flags, env, g[n], FlagOrder[n + 1]) ELSE g[n]
    BY <1>1, <2>2
  <2>4. done(n + 1) = IF FlagOrder[n + 1] \in DOMAIN flags
                        THEN done(n) \cup {FlagOrder[n + 1]} ELSE done(n)
    <3>1. 1 .. n + 1 = (1 .. n) \cup {n + 1}
      OBVIOUS
    <3> QED BY <3>1
  <2> HIDE DEF done
  <2> QED BY <2>1, <2>3, <2>4, OneFlagApplied
<1>4. StateSound(flags, env, done(Len(FlagOrder)), g[Len(FlagOrder)])
  <2>1. Len(FlagOrder) \in S
    <3> HIDE DEF S
    <3> QED BY <1>0, <1>2, <1>3, NaturalInduction
  <2>2. Len(FlagOrder) <= Len(FlagOrder)
    BY <1>0
  <2> HIDE DEF done
  <2> QED BY <2>1, <2>2
<1>5. done(Len(FlagOrder)) = ToSet(FlagOrder) \cap DOMAIN flags
  BY <1>0 DEF ToSet
<1> HIDE DEF done
<1> QED BY <1>1, <1>4, <1>5

(* With or without the environment's index.                                *)
LEMMA AppliedOverrides ==
  ASSUME NEW flags, NEW options, NEW key \in ToSet(FlagOrder)
  PROVE  OverrideOf(CreateEnvOverrides(flags, options), key) = ReferenceOverride(flags, options, key)
PROOF
<1> DEFINE env == options.env
           bound == ApplyPerFlagEnvOverrides(flags, env)
           json == IF options.json \in {Undefined, JsonError} THEN <<>> ELSE options.json
           progress == CreateEnvOverrides(flags, options)
           values == [k \in DOMAIN json \cup DOMAIN bound.values |->
                        IF k \in DOMAIN json THEN json[k] ELSE bound.values[k]]
           text == IF key \in DOMAIN flags THEN TextOf(flags, env, key) ELSE Undefined
           value == IF text = Undefined THEN Undefined ELSE ValueOf(flags, env, key)
           wrong == text # Undefined /\ value = Undefined
<1>1. /\ \A k : k \in DOMAIN bound.values <=> Given(flags, env, ToSet(FlagOrder) \cap DOMAIN flags, k)
      /\ \A k \in DOMAIN bound.values : bound.values[k] = ValueOf(flags, env, k)
      /\ \A k : k \in bound.errors <=> Wrong(flags, env, ToSet(FlagOrder) \cap DOMAIN flags, k)
  BY AllFlagsApplied DEF StateSound
<1>2. progress.values = values /\ progress.errors = bound.errors \ DOMAIN json
  BY DEF CreateEnvOverrides
<1>3. /\ DOMAIN values = DOMAIN json \cup DOMAIN bound.values
      /\ \A k \in DOMAIN values : values[k] = IF k \in DOMAIN json THEN json[k] ELSE bound.values[k]
  OBVIOUS
<1>4. ReferenceOverride(flags, options, key) =
        IF key \in DOMAIN json THEN [value |-> json[key], error |-> FALSE]
        ELSE [value |-> value, error |-> wrong]
  BY DEF ReferenceOverride, TextOf, ValueOf
<1> HIDE DEF bound, json, progress, values
<1>5. /\ key \in DOMAIN bound.values <=> value # Undefined
      /\ key \in bound.errors <=> wrong
      /\ key \in DOMAIN bound.values => bound.values[key] = value
  BY <1>1 DEF Given, Wrong
<1> HIDE DEF value, text, wrong
<1>6. CASE key \in DOMAIN json
  <2>1. key \in DOMAIN progress.values /\ progress.values[key] = json[key] /\ ~(key \in progress.errors)
    BY <1>2, <1>3, <1>6
  <2>2. OverrideOf(progress, key) = [value |-> json[key], error |-> FALSE]
    <3>1. (key \in progress.errors) = FALSE
      BY <2>1
    <3>2. (IF key \in DOMAIN progress.values THEN progress.values[key] ELSE Undefined) = json[key]
      BY <2>1
    <3> QED BY <3>1, <3>2 DEF OverrideOf
  <2> QED BY <1>4, <1>6, <2>2 DEF progress
<1>7. CASE key \notin DOMAIN json
  <2>1. /\ key \in progress.errors <=> wrong
        /\ (IF key \in DOMAIN progress.values THEN progress.values[key] ELSE Undefined) = value
    BY <1>2, <1>3, <1>5, <1>7
  <2>2. OverrideOf(progress, key) = [value |-> value, error |-> wrong]
    BY <2>1 DEF OverrideOf
  <2> QED BY <1>4, <1>7, <2>2 DEF progress
<1> QED BY <1>6, <1>7

(* The overrides found through the environment's names are for every flag  *)
(* the documented ones.                                                    *)
THEOREM IndexedOverrides ==
  ASSUME NEW flags, NEW options, NEW key \in ToSet(FlagOrder)
  PROVE  OverrideOf(CreateIndexedEnvOverrides(flags, options), key) = ReferenceOverride(flags, options, key)
PROOF
<1> DEFINE names == Names(options.env)
           bound == {k \in DOMAIN flags : flags[k].envVar \in names}
           found == [k \in bound |-> flags[k]]
           text == IF key \in DOMAIN flags /\ flags[key].envVar # Undefined
                     THEN Lookup(options.env, flags[key].envVar) ELSE Undefined
           foundText == IF key \in DOMAIN found /\ found[key].envVar # Undefined
                          THEN Lookup(options.env, found[key].envVar) ELSE Undefined
<1>1. OverrideOf(CreateIndexedEnvOverrides(flags, options), key) = ReferenceOverride(found, options, key)
  BY AppliedOverrides DEF CreateIndexedEnvOverrides
<1>2. key \in DOMAIN flags /\ key \notin bound => Lookup(options.env, flags[key].envVar) = Undefined
  BY DEF Lookup, Names
<1>3. /\ key \in bound <=> key \in DOMAIN found
      /\ key \in bound => key \in DOMAIN flags /\ found[key] = flags[key]
  OBVIOUS
<1> HIDE DEF found, bound
<1>4. foundText = text
  BY <1>2, <1>3
<1>5. text # Undefined => ParsedAs[found[key].type][text] = ParsedAs[flags[key].type][text]
  <2>1. text # Undefined => key \in bound
    BY <1>2
  <2> QED BY <1>3, <2>1
<1> HIDE DEF text, foundText
<1>6. ReferenceOverride(found, options, key) = ReferenceOverride(flags, options, key)
  BY <1>4, <1>5 DEF ReferenceOverride, text, foundText
<1> QED BY <1>1, <1>6

-----------------------------------------------------------------------------
(* The inductive invariant: the copy is that of a valid snapshot, every    *)
(* operand kept says what its text does, the overrides are those of the    *)
(* captured flags, and the last answer is the decision of the snapshot it  *)
(* was asked of, as that snapshot is now and whatever was kept.            *)

LoadingNext == EvaluationNext \/ \E snapshot : IsSnapshot(snapshot) /\ Load(snapshot)

LoadingSpec == EvaluationInit /\ [][LoadingNext]_evaluationVars

CapturedFrom(snapshot) ==
  /\ IsSnapshot(snapshot) /\ ValidSnapshot(snapshot)
  /\ owned = ValidateFlagSnapshot(snapshot)

EvaluationInv ==
  /\ IsSnapshot(input)
  /\ operands = [side \in Sides |-> operands[side]]
  /\ \A side \in Sides : CacheSound(operands[side])
  /\ owned # Undefined => \E snapshot : CapturedFrom(snapshot)
  /\ IF origin = Undefined THEN overrides = NoOverrides
     ELSE owned # Undefined /\ overrides = CreateIndexedEnvOverrides(owned.flags, origin)
  /\ result # Undefined =>
       /\ result.side \in Sides /\ result.request \in Requests
       /\ SnapshotOf(result.side) # Undefined
       /\ result.outcome = Decision(SnapshotOf(result.side), result.request, overrides, NoOperands)

(* The caller's snapshot and the captured one are sound.                   *)
LEMMA BothSound ==
  ASSUME EvaluationInv, NEW side \in Sides, SnapshotOf(side) # Undefined
  PROVE  SoundSnapshot(SnapshotOf(side))
PROOF
<1>1. CASE side = "input"
  <2>1. IsSnapshot(input)
    BY DEF EvaluationInv
  <2> QED BY <1>1, <2>1, RawSnapshotSound DEF SnapshotOf
<1>2. CASE side = "owned"
  <2>1. PICK snapshot : CapturedFrom(snapshot)
    BY <1>2 DEF EvaluationInv, SnapshotOf, Sides
  <2>2. IsSnapshot(snapshot)
    BY <2>1 DEF CapturedFrom
  <2>3. SoundSnapshot(owned)
    BY <2>1, <2>2, CapturedSnapshotSound DEF CapturedFrom
  <2> QED BY <1>2, <2>3 DEF SnapshotOf
<1> QED BY <1>1, <1>2 DEF Sides

(* The invariant holds at first.                                           *)
LEMMA EvaluationStarts == EvaluationInit => EvaluationInv
PROOF
<1> SUFFICES ASSUME EvaluationInit PROVE EvaluationInv
  OBVIOUS
<1>1. operands = [side \in Sides |-> NoOperands]
  BY DEF EvaluationInit
<1>2. \A side \in Sides : operands[side] = NoOperands
  BY <1>1
<1>3. operands = [side \in Sides |-> operands[side]]
  BY <1>1
<1>4. IsSnapshot(input)
  BY EvaluationAssumption DEF EvaluationInit
<1> QED BY <1>2, <1>3, <1>4, NothingCached DEF EvaluationInit, EvaluationInv

(* Every step keeps it, the caller's edits and loads included.             *)
LEMMA EvaluationKeeps == EvaluationInv /\ [LoadingNext]_evaluationVars => EvaluationInv'
PROOF
<1> SUFFICES ASSUME EvaluationInv, [LoadingNext]_evaluationVars PROVE EvaluationInv'
  OBVIOUS
<1>1. CASE Edit
  <2>1. IsSnapshot(input')
    BY <1>1, EvaluationAssumption DEF Edit
  <2> QED BY <1>1, <2>1 DEF Edit, EvaluationInv, CapturedFrom
<1>2. CASE Validate
  <2>1. /\ input' = input /\ origin' = Undefined /\ overrides' = NoOverrides /\ result' = Undefined
        /\ operands' = [operands EXCEPT !["owned"] = NoOperands]
        /\ ValidSnapshot(input) /\ owned' = ValidateFlagSnapshot(input)
    BY <1>2 DEF Validate
  <2>2. /\ operands' = [side \in Sides |-> operands'[side]]
        /\ \A side \in Sides : CacheSound(operands'[side])
    BY <2>1, NothingCached DEF EvaluationInv, Sides
  <2>3. CapturedFrom(input)' /\ IsSnapshot(input')
    BY <2>1 DEF CapturedFrom, EvaluationInv
  <2> QED BY <2>1, <2>2, <2>3 DEF EvaluationInv, CapturedFrom
<1>3. ASSUME NEW options \in Options, BindOverrides(options) PROVE EvaluationInv'
  <2>1. /\ overrides' = CreateIndexedEnvOverrides(owned.flags, options) /\ origin' = options
        /\ result' = Undefined /\ UNCHANGED <<input, owned, operands>>
        /\ owned # Undefined
    BY <1>3 DEF BindOverrides
  <2> QED BY <2>1, EvaluationAssumption DEF EvaluationInv, CapturedFrom
<1>4. ASSUME NEW side \in Sides, NEW request \in Requests, EvaluateWithTrace(side, request)
      PROVE  EvaluationInv'
  <2> DEFINE snapshot == SnapshotOf(side)
             outcome == Decision(snapshot, request, overrides, operands[side])
             answered == [side |-> side, request |-> request, outcome |-> outcome]
  <2>1. /\ snapshot # Undefined /\ result' = answered
        /\ UNCHANGED <<input, owned, overrides, origin>>
    BY <1>4 DEF EvaluateWithTrace
  <2>2. PICK leaves \in SUBSET VersionLeaves(snapshot, request) :
          operands' = [operands EXCEPT ![side] = Read(leaves, @)]
    BY <1>4 DEF EvaluateWithTrace
  <2>3. SoundSnapshot(snapshot) /\ CacheSound(operands[side])
    BY <2>1, BothSound DEF EvaluationInv
  <2>4. CacheSound(Read(leaves, operands[side]))
    BY <2>3, ReadKeepsSound
  <2>5. outcome = Decision(snapshot, request, overrides, NoOperands)
    BY <2>3, EvaluationAssumption, DecisionAlike, NothingCached
  <2>6. /\ operands' = [other \in Sides |-> operands'[other]]
        /\ \A other \in Sides : CacheSound(operands'[other])
    BY <2>2, <2>3, <2>4 DEF EvaluationInv
  <2>7. SnapshotOf(side)' = snapshot
    BY <2>1 DEF SnapshotOf
  <2>8. answered.side = side /\ answered.request = request /\ answered.outcome = outcome
    OBVIOUS
  <2> HIDE DEF answered, outcome, snapshot
  <2>9. /\ result'.side \in Sides /\ result'.request \in Requests
        /\ SnapshotOf(result.side)' # Undefined
        /\ result'.outcome = Decision(SnapshotOf(result.side)', result'.request, overrides', NoOperands)
    <3>1. result'.side = side /\ result'.request = request /\ result'.outcome = outcome
      BY <2>1, <2>8
    <3>2. SnapshotOf(result.side)' = snapshot
      BY <2>1, <3>1 DEF SnapshotOf, snapshot
    <3> QED BY <2>1, <2>5, <3>1, <3>2
  <2>10. /\ IsSnapshot(input')
         /\ owned' # Undefined => \E other : CapturedFrom(other)'
         /\ IF origin' = Undefined THEN overrides' = NoOverrides
            ELSE owned' # Undefined /\ overrides' = CreateIndexedEnvOverrides(owned'.flags, origin')
    BY <2>1 DEF EvaluationInv, CapturedFrom
  <2> QED BY <2>6, <2>9, <2>10 DEF EvaluationInv
<1>5. CASE UNCHANGED evaluationVars
  BY <1>5 DEF evaluationVars, EvaluationInv, CapturedFrom, SnapshotOf
<1>6. ASSUME NEW snapshot, IsSnapshot(snapshot), Load(snapshot) PROVE EvaluationInv'
  <2>1. /\ input' = snapshot /\ operands' = [operands EXCEPT !["input"] = NoOperands]
        /\ result' = Undefined /\ UNCHANGED <<owned, overrides, origin>>
    BY <1>6 DEF Load
  <2>2. /\ operands' = [side \in Sides |-> operands'[side]]
        /\ \A side \in Sides : CacheSound(operands'[side])
    BY <2>1, NothingCached DEF EvaluationInv, Sides
  <2> QED BY <1>6, <2>1, <2>2 DEF EvaluationInv, CapturedFrom
<1> QED BY <1>1, <1>2, <1>3, <1>4, <1>5, <1>6 DEF LoadingNext, EvaluationNext

(* The inductive invariant holds always.                                   *)
THEOREM EvaluationInvariant == LoadingSpec => []EvaluationInv
PROOF
BY EvaluationStarts, EvaluationKeeps, PTL DEF LoadingSpec

(* Without files that are read later: the specification as it is run.      *)
LEMMA EvaluationIsLoading == EvaluationSpec => LoadingSpec
PROOF
<1>1. [EvaluationNext]_evaluationVars => [LoadingNext]_evaluationVars
  BY DEF LoadingNext
<1> QED BY <1>1, PTL DEF EvaluationSpec, LoadingSpec

(* The invariant implies that evaluations are sound.                       *)
LEMMA InvariantSound == EvaluationInv => EvaluationsSound
PROOF
<1> SUFFICES ASSUME EvaluationInv PROVE EvaluationsSound
  OBVIOUS
<1>1. EvaluationsFresh
  <2> SUFFICES ASSUME result # Undefined
               PROVE  result.outcome = Decision(Unindexed(SnapshotOf(result.side)), result.request,
                                                overrides, NoOperands)
    BY DEF EvaluationsFresh
  <2>1. /\ result.side \in Sides /\ result.request \in Requests /\ SnapshotOf(result.side) # Undefined
        /\ result.outcome = Decision(SnapshotOf(result.side), result.request, overrides, NoOperands)
    BY DEF EvaluationInv
  <2>2. SoundSnapshot(SnapshotOf(result.side))
    BY <2>1, BothSound
  <2> QED BY <2>1, <2>2, EvaluationAssumption, DecisionAlike, NothingCached
<1>2. NegationsSafe
  <2> SUFFICES ASSUME result # Undefined, NEW i \in DOMAIN result.outcome.trace
               PROVE  result.outcome.trace[i] <=>
                        Holds(SnapshotOf(result.side).flags[result.request.flagKey].rules[i].when,
                              result.request, NoOperands)
    BY DEF NegationsSafe
  <2>1. /\ result.side \in Sides /\ result.request \in Requests /\ SnapshotOf(result.side) # Undefined
        /\ result.outcome = Decision(SnapshotOf(result.side), result.request, overrides, NoOperands)
    BY DEF EvaluationInv
  <2>2. SoundSnapshot(SnapshotOf(result.side))
    BY <2>1, BothSound
  <2> QED BY <2>1, <2>2, TraceOfDecision, NothingCached
<1>3. OverridesAsDocumented
  BY IndexedOverrides DEF EvaluationInv, OverridesAsDocumented
<1> QED BY <1>1, <1>2, <1>3 DEF EvaluationsSound

(* The invariant implies that validation suffices.                         *)
LEMMA InvariantSuffices == EvaluationInv => ValidationSuffices
PROOF
<1> SUFFICES ASSUME EvaluationInv PROVE ValidationSuffices
  OBVIOUS
<1>1. CASE owned = Undefined
  <2>1. ~(result # Undefined /\ result.side = "owned")
    BY <1>1 DEF EvaluationInv, SnapshotOf
  <2> QED BY <1>1, <2>1 DEF ValidationSuffices, ValidatedNeverFails, ScheduleOnlyGrows, RolloutShares
<1>2. CASE owned # Undefined
  <2>1. PICK snapshot : CapturedFrom(snapshot)
    BY <1>2 DEF EvaluationInv
  <2>2. IsSnapshot(snapshot) /\ ValidSnapshot(snapshot) /\ owned = ValidateFlagSnapshot(snapshot)
    BY <2>1 DEF CapturedFrom
  <2>3. /\ DOMAIN owned.flags = DOMAIN snapshot.flags
        /\ snapshot.schemaVersion \in {1, 2}
        /\ \A key \in DOMAIN owned.flags :
             /\ owned.flags[key] = CapturedFlag(snapshot.flags[key])
             /\ IsFlag(snapshot.flags[key])
             /\ ValidFlag(snapshot.flags[key], snapshot.schemaVersion)
    BY <2>2, CapturedSnapshotSound
  <2>4. \A key \in DOMAIN owned.flags : Chooses(owned.flags[key])
    BY <2>3, CapturedFlagChooses
  <2>5. ASSUME result # Undefined, result.side = "owned"
        PROVE  LET outcome == result.outcome IN
               /\ outcome.reason # "THROWN"
               /\ outcome.errorCode = "TYPE_MISMATCH" =>
                    owned.flags[result.request.flagKey].type # result.request.expectedType
               /\ outcome.errorCode = "INVALID_CONTEXT" =>
                    ~HasKey(result.request) \/ ~ValidScheduleTime(result.request.time)
               /\ Expected(outcome, result.request)
    <3>1. /\ result.request \in Requests
          /\ result.outcome = Decision(owned, result.request, overrides, NoOperands)
      BY <2>5 DEF EvaluationInv, SnapshotOf
    <3> QED BY <2>4, <3>1, UnblamedDecision
  <2>6. ValidatedNeverFails
    BY <2>5 DEF ValidatedNeverFails
  <2>7. ASSUME NEW key \in DOMAIN owned.flags
        PROVE  /\ owned.flags[key].rollout # Undefined =>
                    \A name \in DOMAIN owned.flags[key].variants :
                      Cardinality(Chosen(owned.flags[key].rollout, name))
                        = Cardinality(Shares(owned.flags[key].rollout.rules, name))
               /\ owned.flags[key].schedule # Undefined => NeverShrinks(owned.flags[key].schedule)
    BY <2>3, CopiedFlag
  <2>8. ScheduleOnlyGrows /\ RolloutShares
    BY <2>7 DEF ScheduleOnlyGrows, RolloutShares
  <2> QED BY <2>6, <2>8 DEF ValidationSuffices
<1> QED BY <1>1, <1>2

(* Every answer is the one the snapshot, as it is now and read front to    *)
(* back, and the environment give; no negation of what could not be read   *)
(* is turned into a match; whatever snapshots are loaded.                  *)
THEOREM LoadedEvaluationsAreSound == LoadingSpec => []EvaluationsSound
PROOF
BY EvaluationInvariant, InvariantSound, PTL

(* A captured copy never fails for itself, its schedules never take a      *)
(* variant back and its rollouts give every variant its share.             *)
THEOREM LoadedValidationIsEnough == LoadingSpec => []ValidationSuffices
PROOF
BY EvaluationInvariant, InvariantSuffices, PTL

(* The same of the specification without loading.                          *)
THEOREM EvaluationsAreSound == EvaluationSpec => []EvaluationsSound
PROOF
BY EvaluationIsLoading, LoadedEvaluationsAreSound, PTL

(* A captured copy, of the specification without loading.                  *)
THEOREM ValidationIsEnough == EvaluationSpec => []ValidationSuffices
PROOF
BY EvaluationIsLoading, LoadedValidationIsEnough, PTL

-----------------------------------------------------------------------------
(* Sums over the parts of conditions.                                      *)


(* A part of a finite set, with and without one of its members.            *)
LEMMA FiniteParts ==
  ASSUME NEW whole, IsFiniteSet(whole), NEW s \in SUBSET whole
  PROVE  /\ IsFiniteSet(s) /\ Cardinality(s) \in Nat /\ Cardinality(s) <= Cardinality(whole)
         /\ Cardinality(s) = 0 <=> s = {}
         /\ \A x \in s : s \ {x} \in SUBSET whole /\ Cardinality(s \ {x}) = Cardinality(s) - 1
PROOF
<1>1. IsFiniteSet(s) /\ Cardinality(s) <= Cardinality(whole)
  BY FS_Subset
<1>2. Cardinality(s) \in Nat
  BY <1>1, FS_CardinalityType
<1>3. Cardinality(s) = 0 <=> s = {}
  BY <1>1, FS_EmptySet
<1>4. \A x \in s : Cardinality(s \ {x}) = Cardinality(s) - 1
  BY <1>1, FS_RemoveElement
<1> QED BY <1>1, <1>2, <1>3, <1>4

(* A sum takes one place after the other, in some order.                   *)
LEMMA SumDefined ==
  ASSUME NEW counts, IsFiniteSet(DOMAIN counts)
  PROVE  \E g :
           /\ SumFunction(counts) = g[DOMAIN counts]
           /\ \A s \in SUBSET DOMAIN counts :
                g[s] = IF s = {} THEN 0
                       ELSE counts[CHOOSE x \in s : TRUE] + g[s \ {CHOOSE x \in s : TRUE}]
PROOF
<1> DEFINE A == SUBSET DOMAIN counts
           first(s) == CHOOSE x \in s : TRUE
           E(g, s) == IF s = {} THEN 0 ELSE counts[first(s)] + g[s \ {first(s)}]
           S == {n \in Nat : \E g : \A s \in A : Cardinality(s) <= n => g[s] = E(g, s)}
           f == CHOOSE g : g = [s \in A |-> E(g, s)]
<1>1. SumFunction(counts) = f[DOMAIN counts]
  BY DEF SumFunction, SumFunctionOnSet, FoldFunctionOnSet, MapThenFoldSet
<1>2. \A s \in A : /\ Cardinality(s) \in Nat /\ Cardinality(s) <= Cardinality(DOMAIN counts)
                   /\ Cardinality(s) = 0 <=> s = {}
  BY FiniteParts
<1>a. ASSUME NEW s \in A, s # {}
      PROVE  s \ {first(s)} \in A /\ Cardinality(s \ {first(s)}) = Cardinality(s) - 1
  <2>1. first(s) \in s
    BY <1>a
  <2> HIDE DEF first
  <2> QED BY <2>1, FiniteParts
<1>3. ASSUME NEW g, NEW h, NEW s \in A,
             \A part \in A : Cardinality(part) < Cardinality(s) => g[part] = h[part]
      PROVE  E(g, s) = E(h, s)
  <2> HIDE DEF first
  <2>1. s # {} => g[s \ {first(s)}] = h[s \ {first(s)}]
    BY <1>2, <1>3, <1>a
  <2> QED BY <2>1
<1> HIDE DEF E, first
<1>4. 0 \in S
  <2> DEFINE g == [s \in A |-> E(<<>>, s)]
  <2>1. ASSUME NEW s \in A, Cardinality(s) <= 0
        PROVE  g[s] = E(g, s)
    <3>1. g[s] = E(<<>>, s)
      OBVIOUS
    <3> HIDE DEF g
    <3>2. s = {}
      BY <1>2, <2>1
    <3>3. E(<<>>, s) = E(g, s)
      BY <3>2 DEF E
    <3> QED BY <3>1, <3>3
  <2> HIDE DEF g
  <2> QED BY <2>1
<1>5. ASSUME NEW n \in Nat, n \in S PROVE n + 1 \in S
  <2>1. PICK g : \A s \in A : Cardinality(s) <= n => g[s] = E(g, s)
    BY <1>5
  <2> DEFINE h == [s \in A |-> E(g, s)]
  <2>2. ASSUME NEW s \in A, Cardinality(s) <= n PROVE h[s] = g[s]
    BY <2>1, <2>2
  <2>3. ASSUME NEW s \in A, Cardinality(s) <= n + 1
        PROVE  h[s] = E(h, s)
    <3>1. h[s] = E(g, s)
      OBVIOUS
    <3> HIDE DEF h
    <3>2. \A part \in A : Cardinality(part) < Cardinality(s) => Cardinality(part) <= n
      BY <2>3, <1>2
    <3>3. E(g, s) = E(h, s)
      BY <1>3, <2>2, <3>2
    <3> QED BY <3>1, <3>3
  <2> HIDE DEF h
  <2> QED BY <2>3
<1>6. Cardinality(DOMAIN counts) \in Nat /\ DOMAIN counts \in A
  BY FS_CardinalityType
<1>7. Cardinality(DOMAIN counts) \in S
  <2> HIDE DEF S
  <2> QED BY <1>4, <1>5, <1>6, NaturalInduction
<1>8. PICK g : \A s \in A : g[s] = E(g, s)
  <2>1. PICK g : \A s \in A : Cardinality(s) <= Cardinality(DOMAIN counts) => g[s] = E(g, s)
    BY <1>7
  <2>2. \A s \in A : Cardinality(s) <= Cardinality(DOMAIN counts)
    BY <1>2
  <2> QED BY <2>1, <2>2
<1> DEFINE h == [s \in A |-> E(g, s)]
<1>9. \A s \in A : h[s] = g[s]
  BY <1>8
<1>10. h = [s \in A |-> E(h, s)]
  <2>1. ASSUME NEW s \in A PROVE E(g, s) = E(h, s)
    <3> HIDE DEF h
    <3> QED BY <1>3, <1>9
  <2> QED BY <2>1
<1>11. f = [s \in A |-> E(f, s)]
  <2> HIDE DEF h
  <2> QED BY <1>10
<1>12. \A s \in A : f[s] = E(f, s)
  <2> HIDE DEF f
  <2> QED BY <1>11
<1> HIDE DEF f
<1> QED BY <1>1, <1>12 DEF E, first

(* The sum of one count is that count.                                     *)
LEMMA SumOfOne ==
  ASSUME NEW counts, DOMAIN counts = {1}, counts[1] \in Nat
  PROVE  SumFunction(counts) = counts[1]
PROOF
<1>1. IsFiniteSet(DOMAIN counts)
  BY FS_Singleton
<1>2. PICK g : /\ SumFunction(counts) = g[DOMAIN counts]
               /\ \A s \in SUBSET DOMAIN counts :
                    g[s] = IF s = {} THEN 0
                           ELSE counts[CHOOSE x \in s : TRUE] + g[s \ {CHOOSE x \in s : TRUE}]
  BY <1>1, SumDefined
<1>3. (CHOOSE x \in {1} : TRUE) = 1
  OBVIOUS
<1>4. g[{}] = 0
  BY <1>2
<1>5. g[{1}] = counts[1] + g[{1} \ {1}]
  BY <1>2, <1>3
<1>6. {1} \ {1} = {}
  OBVIOUS
<1> QED BY <1>2, <1>4, <1>5, <1>6

(* The sum of larger counts is larger.                                     *)
LEMMA SumsGrow ==
  ASSUME NEW counts, NEW others, IsFiniteSet(DOMAIN counts), DOMAIN others = DOMAIN counts,
         \A x \in DOMAIN counts : counts[x] \in Nat /\ others[x] \in Nat /\ counts[x] <= others[x]
  PROVE  /\ SumFunction(counts) \in Nat /\ SumFunction(others) \in Nat
         /\ SumFunction(counts) <= SumFunction(others)
PROOF
<1>1. PICK D : D = DOMAIN counts /\ D = DOMAIN others /\ IsFiniteSet(D)
  OBVIOUS
<1> DEFINE first(s) == CHOOSE x \in s : TRUE
           Sums(f, k) == \A s \in SUBSET D :
                           f[s] = IF s = {} THEN 0 ELSE k[first(s)] + f[s \ {first(s)}]
<1>2. PICK g : SumFunction(counts) = g[D] /\ Sums(g, counts)
  <2>1. PICK f : /\ SumFunction(counts) = f[DOMAIN counts]
                 /\ \A s \in SUBSET DOMAIN counts :
                      f[s] = IF s = {} THEN 0
                             ELSE counts[CHOOSE x \in s : TRUE] + f[s \ {CHOOSE x \in s : TRUE}]
    BY <1>1, SumDefined
  <2> QED BY <1>1, <2>1
<1>3. PICK h : SumFunction(others) = h[D] /\ Sums(h, others)
  <2>1. PICK f : /\ SumFunction(others) = f[DOMAIN others]
                 /\ \A s \in SUBSET DOMAIN others :
                      f[s] = IF s = {} THEN 0
                             ELSE others[CHOOSE x \in s : TRUE] + f[s \ {CHOOSE x \in s : TRUE}]
    BY <1>1, SumDefined
  <2> QED BY <1>1, <2>1
<1> DEFINE Grown(s) == g[s] \in Nat /\ h[s] \in Nat /\ g[s] <= h[s]
           S == {n \in Nat : \A s \in SUBSET D : Cardinality(s) = n => Grown(s)}
<1>4. \A s : s # {} => first(s) \in s
  OBVIOUS
<1> HIDE DEF first
<1>5. 0 \in S
  <2>1. ASSUME NEW s \in SUBSET D, Cardinality(s) = 0 PROVE Grown(s)
    <3>1. s = {}
      BY <1>1, <2>1, FiniteParts
    <3>2. g[s] = 0 /\ h[s] = 0
      BY <1>2, <1>3, <3>1
    <3> QED BY <3>2
  <2> QED BY <2>1
<1>6. ASSUME NEW n \in Nat, n \in S PROVE n + 1 \in S
  <2> SUFFICES ASSUME NEW s \in SUBSET D, Cardinality(s) = n + 1 PROVE Grown(s)
    OBVIOUS
  <2> DEFINE rest == s \ {first(s)}
  <2>1. s # {}
    BY <1>1, FiniteParts
  <2>2. first(s) \in s /\ first(s) \in D
    BY <1>4, <2>1
  <2>3. rest \in SUBSET D /\ Cardinality(rest) = n
    BY <1>1, <2>2, FiniteParts
  <2>4. Grown(rest)
    BY <1>6, <2>3
  <2>5. g[s] = counts[first(s)] + g[rest] /\ h[s] = others[first(s)] + h[rest]
    BY <1>2, <1>3, <2>1
  <2> HIDE DEF rest
  <2> QED BY <1>1, <2>2, <2>4, <2>5
<1>7. Cardinality(D) \in Nat
  BY <1>1, FS_CardinalityType
<1>8. Cardinality(D) \in S
  <2> HIDE DEF S
  <2> QED BY <1>5, <1>6, <1>7, NaturalInduction
<1>9. Grown(D)
  BY <1>8
<1> QED BY <1>2, <1>3, <1>9

(* The conditions right below a condition are its parts.                   *)
LEMMA ChildrenAreParts ==
  ASSUME NEW c \in TargetingCondition
  PROVE  /\ \A i \in DOMAIN Children(c) : Children(c)[i] \in Parts(c)
         /\ IsLeafCondition(c) => Children(c) = <<>>
         /\ IsNegation(c) => DOMAIN Children(c) = {1} /\ Children(c)[1] = c.of
         /\ IsGroup(c) => Children(c) = c.of
PROOF
<1>1. CASE IsLeafCondition(c)
  BY <1>1 DEF IsLeafCondition, IsNegation, IsGroup, Children, Parts
<1>2. CASE IsNegation(c)
  BY <1>2 DEF IsLeafCondition, IsNegation, IsGroup, Children, Parts
<1>3. CASE IsGroup(c)
  BY <1>3 DEF IsLeafCondition, IsNegation, IsGroup, Children, Parts
<1> QED BY <1>1, <1>2, <1>3, ConditionShape

(* The nodes of a condition are itself and those of its parts.             *)
LEMMA NodesDefined ==
  ASSUME NEW d \in TargetingCondition
  PROVE  Nodes(d) = 1 + SumFunction([i \in DOMAIN Children(d) |-> Nodes(Children(d)[i])])
PROOF
<1> DEFINE E(g, x) == 1 + SumFunction([i \in DOMAIN Children(x) |-> g[Children(x)[i]]])
           S == {n \in Nat : n <= MaxHeight => \E g : \A x \in Level[n] : g[x] = E(g, x)}
<1>1. ASSUME NEW g, NEW h, NEW x \in TargetingCondition, \A part \in Parts(x) : g[part] = h[part]
      PROVE  E(g, x) = E(h, x)
  <2>1. \A i \in DOMAIN Children(x) : g[Children(x)[i]] = h[Children(x)[i]]
    BY <1>1, ChildrenAreParts
  <2>2. [i \in DOMAIN Children(x) |-> g[Children(x)[i]]] = [i \in DOMAIN Children(x) |-> h[Children(x)[i]]]
    BY <2>1
  <2> QED BY <2>2
<1> HIDE DEF E
<1>2. 0 \in S
  <2> DEFINE g == [x \in Level[0] |-> E(<<>>, x)]
  <2> SUFFICES ASSUME 0 <= MaxHeight PROVE \A x \in Level[0] : g[x] = E(g, x)
    OBVIOUS
  <2>1. ASSUME NEW x \in Level[0] PROVE E(<<>>, x) = E(g, x)
    <3>1. Parts(x) = {} /\ x \in TargetingCondition
      BY LevelShape, LevelsGrow, ConditionsAssumption
    <3> HIDE DEF g
    <3> QED BY <1>1, <3>1
  <2> QED BY <2>1
<1>3. ASSUME NEW n \in Nat, n \in S PROVE n + 1 \in S
  <2> SUFFICES ASSUME n + 1 <= MaxHeight
               PROVE  \E h : \A x \in Level[n + 1] : h[x] = E(h, x)
    OBVIOUS
  <2>1. /\ n \in 0 .. MaxHeight /\ n + 1 \in 0 .. MaxHeight
        /\ n < MaxHeight /\ n + 1 > 0 /\ (n + 1) - 1 = n
    BY ConditionsAssumption
  <2>2. PICK g : \A x \in Level[n] : g[x] = E(g, x)
    BY <1>3, <2>1
  <2> DEFINE h == [x \in Level[n + 1] |-> E(g, x)]
  <2>3. ASSUME NEW x \in Level[n] PROVE h[x] = g[x]
    <3>1. x \in Level[n + 1]
      BY <2>1, LevelShape
    <3>2. h[x] = E(g, x)
      BY <3>1
    <3> QED BY <2>2, <3>2
  <2>4. ASSUME NEW x \in Level[n + 1] PROVE h[x] = E(h, x)
    <3>1. Parts(x) \subseteq Level[n]
      <4>1. Parts(x) \subseteq Level[(n + 1) - 1]
        BY <2>1, LevelShape
      <4> QED BY <2>1, <4>1
    <3>2. x \in TargetingCondition
      BY <2>1, LevelsGrow
    <3>3. \A part \in Parts(x) : g[part] = h[part]
      <4> HIDE DEF h
      <4> QED BY <2>3, <3>1
    <3>4. E(g, x) = E(h, x)
      <4> HIDE DEF h
      <4> QED BY <1>1, <3>2, <3>3
    <3> QED BY <3>4
  <2> HIDE DEF h
  <2> QED BY <2>4
<1>4. MaxHeight \in S
  <2> HIDE DEF S
  <2> QED BY <1>2, <1>3, NaturalInduction, ConditionsAssumption
<1>5. PICK g : \A x \in TargetingCondition : g[x] = E(g, x)
  BY <1>4, LevelOfTargetingCondition
<1> DEFINE h == [x \in TargetingCondition |-> E(g, x)]
<1>6. h = [x \in TargetingCondition |-> E(h, x)]
  <2>1. ASSUME NEW x \in TargetingCondition PROVE E(g, x) = E(h, x)
    <3>1. \A part \in Parts(x) : h[part] = g[part]
      BY <1>5, ConditionShape
    <3> HIDE DEF h
    <3> QED BY <1>1, <3>1
  <2> QED BY <2>1
<1> HIDE DEF h
<1> QED BY <1>6 DEF Nodes, E

(* A condition is well grouped if it is and its parts are.                 *)
LEMMA GroupedDefined ==
  ASSUME NEW d \in TargetingCondition
  PROVE  WellGrouped(d) = (/\ d.kind \in {"all", "any"} => Len(d.of) \in 1 .. MaxChildren
                           /\ \A i \in DOMAIN Children(d) : WellGrouped(Children(d)[i]))
PROOF
<1> DEFINE E(g, x) == /\ x.kind \in {"all", "any"} => Len(x.of) \in 1 .. MaxChildren
                      /\ \A i \in DOMAIN Children(x) : g[Children(x)[i]]
           S == {n \in Nat : n <= MaxHeight => \E g : \A x \in Level[n] : g[x] = E(g, x)}
<1>1. ASSUME NEW g, NEW h, NEW x \in TargetingCondition, \A part \in Parts(x) : g[part] = h[part]
      PROVE  E(g, x) = E(h, x)
  <2>1. \A i \in DOMAIN Children(x) : g[Children(x)[i]] = h[Children(x)[i]]
    BY <1>1, ChildrenAreParts
  <2> QED BY <2>1
<1> HIDE DEF E
<1>2. 0 \in S
  <2> DEFINE g == [x \in Level[0] |-> E(<<>>, x)]
  <2> SUFFICES ASSUME 0 <= MaxHeight PROVE \A x \in Level[0] : g[x] = E(g, x)
    OBVIOUS
  <2>1. ASSUME NEW x \in Level[0] PROVE E(<<>>, x) = E(g, x)
    <3>1. Parts(x) = {} /\ x \in TargetingCondition
      BY LevelShape, LevelsGrow, ConditionsAssumption
    <3> HIDE DEF g
    <3> QED BY <1>1, <3>1
  <2> QED BY <2>1
<1>3. ASSUME NEW n \in Nat, n \in S PROVE n + 1 \in S
  <2> SUFFICES ASSUME n + 1 <= MaxHeight
               PROVE  \E h : \A x \in Level[n + 1] : h[x] = E(h, x)
    OBVIOUS
  <2>1. /\ n \in 0 .. MaxHeight /\ n + 1 \in 0 .. MaxHeight
        /\ n < MaxHeight /\ n + 1 > 0 /\ (n + 1) - 1 = n
    BY ConditionsAssumption
  <2>2. PICK g : \A x \in Level[n] : g[x] = E(g, x)
    BY <1>3, <2>1
  <2> DEFINE h == [x \in Level[n + 1] |-> E(g, x)]
  <2>3. ASSUME NEW x \in Level[n] PROVE h[x] = g[x]
    <3>1. x \in Level[n + 1]
      BY <2>1, LevelShape
    <3>2. h[x] = E(g, x)
      BY <3>1
    <3> QED BY <2>2, <3>2
  <2>4. ASSUME NEW x \in Level[n + 1] PROVE h[x] = E(h, x)
    <3>1. Parts(x) \subseteq Level[n]
      <4>1. Parts(x) \subseteq Level[(n + 1) - 1]
        BY <2>1, LevelShape
      <4> QED BY <2>1, <4>1
    <3>2. x \in TargetingCondition
      BY <2>1, LevelsGrow
    <3>3. \A part \in Parts(x) : g[part] = h[part]
      <4> HIDE DEF h
      <4> QED BY <2>3, <3>1
    <3>4. E(g, x) = E(h, x)
      <4> HIDE DEF h
      <4> QED BY <1>1, <3>2, <3>3
    <3> QED BY <3>4
  <2> HIDE DEF h
  <2> QED BY <2>4
<1>4. MaxHeight \in S
  <2> HIDE DEF S
  <2> QED BY <1>2, <1>3, NaturalInduction, ConditionsAssumption
<1>5. PICK g : \A x \in TargetingCondition : g[x] = E(g, x)
  BY <1>4, LevelOfTargetingCondition
<1> DEFINE h == [x \in TargetingCondition |-> E(g, x)]
<1>6. h = [x \in TargetingCondition |-> E(h, x)]
  <2>1. ASSUME NEW x \in TargetingCondition PROVE E(g, x) = E(h, x)
    <3>1. \A part \in Parts(x) : h[part] = g[part]
      BY <1>5, ConditionShape
    <3> HIDE DEF h
    <3> QED BY <1>1, <3>1
  <2> QED BY <2>1
<1> HIDE DEF h
<1> QED BY <1>6 DEF WellGrouped, E

(* One level, of the expansions of the one below.                          *)
ExpandedBy(segments, parts, room) ==
  [when \in Authored |-> [active \in SUBSET DOMAIN segments |->
    IF room = 0 THEN Rejection
    ELSE IF when.kind = "leaf" THEN [accepted |-> TRUE, nodes |-> 1, when |-> when]
    ELSE IF when.kind = "segment"
      THEN IF when.name \in DOMAIN segments \ active
             THEN Referred(parts[segments[when.name]][active \cup {when.name}])
             ELSE Rejection
    ELSE Composed(when, [i \in DOMAIN Children(when) |-> parts[Children(when)[i]][active]])]]

(* An expansion is what its recursive definition says.                     *)
LEMMA ExpandingDefined ==
  ASSUME NEW segments, NEW n \in 0 .. MaxDepth
  PROVE  Expanding(segments)[n] = ExpandedBy(segments, Expanding(segments)[n - 1], n)
PROOF
<1> DEFINE B(p, m) == ExpandedBy(segments, p, m)
           E(g, m) == B(g[m - 1], m)
           S == {m \in Nat : \E g : \A k \in 0 .. m : g[k] = E(g, k)}
<1>0. MaxDepth \in Nat
  BY DepthAssumption, ConditionsAssumption
<1>1. \A p, q : B(p, 0) = B(q, 0)
  BY DEF ExpandedBy
<1>2. Expanding(segments) = CHOOSE g : g = [m \in 0 .. MaxDepth |-> E(g, m)]
  BY DEF Expanding, ExpandedBy
<1> HIDE DEF B
<1>3. 0 \in S
  <2> DEFINE g == [m \in 0 .. 0 |-> B(<<>>, 0)]
  <2>1. \A m \in 0 .. 0 : g[m] = E(g, m)
    BY <1>1
  <2> HIDE DEF g
  <2> QED BY <2>1
<1>4. ASSUME NEW m \in Nat, m \in S PROVE m + 1 \in S
  <2>1. PICK g : \A k \in 0 .. m : g[k] = E(g, k)
    BY <1>4
  <2> DEFINE h == [k \in 0 .. m + 1 |-> E(g, k)]
  <2>2. ASSUME NEW k \in 0 .. m PROVE h[k] = g[k]
    <3>1. g[k] = E(g, k)
      BY <2>1
    <3>2. k \in 0 .. m + 1
      OBVIOUS
    <3>3. h[k] = E(g, k)
      BY <3>2
    <3> QED BY <3>1, <3>3
  <2>3. \A k \in 0 .. m + 1 : h[k] = E(h, k)
    <3>1. ASSUME NEW k \in 0 .. m + 1 PROVE E(g, k) = E(h, k)
      <4>1. k = 0 \/ k - 1 \in 0 .. m
        OBVIOUS
      <4> HIDE DEF h
      <4> QED BY <4>1, <1>1, <2>2
    <3> QED BY <3>1
  <2> HIDE DEF h
  <2> QED BY <2>3
<1>5. MaxDepth \in S
  <2> HIDE DEF S
  <2> QED BY <1>0, <1>3, <1>4, NaturalInduction
<1>6. PICK g : \A k \in 0 .. MaxDepth : g[k] = E(g, k)
  BY <1>5
<1> DEFINE h == [m \in 0 .. MaxDepth |-> E(g, m)]
<1>7. h = [m \in 0 .. MaxDepth |-> E(h, m)]
  <2>1. ASSUME NEW m \in 0 .. MaxDepth PROVE E(g, m) = E(h, m)
    <3>1. m # 0 => m - 1 \in 0 .. MaxDepth
      BY <1>0
    <3>2. m # 0 => h[m - 1] = g[m - 1]
      BY <1>6, <3>1
    <3> HIDE DEF h
    <3> QED BY <1>1, <3>2
  <2> QED BY <2>1
<1>8. Expanding(segments) = [m \in 0 .. MaxDepth |-> E(Expanding(segments), m)]
  <2> HIDE DEF h, E
  <2> QED BY <1>2, <1>7
<1>9. Expanding(segments)[n] = B(Expanding(segments)[n - 1], n)
  BY <1>8
<1> QED BY <1>9 DEF B

(* One level, of the conditions of the one below.                          *)
UnfoldedBy(segments, parts, room) ==
  [when \in Authored |->
    IF room = 0 THEN Cut
    ELSE IF when.kind = "leaf" THEN when
    ELSE IF when.kind = "segment"
      THEN IF when.name \in DOMAIN segments
             THEN [kind |-> "all", of |-> <<parts[segments[when.name]]>>]
             ELSE Cut
    ELSE IF when.kind = "not" THEN [kind |-> "not", of |-> parts[when.of]]
    ELSE [kind |-> when.kind, of |-> [i \in DOMAIN when.of |-> parts[when.of[i]]]]]

(* A condition with its references replaced is what its definition says.   *)
LEMMA UnfoldingDefined ==
  ASSUME NEW segments, NEW n \in 0 .. MaxDepth
  PROVE  Unfolding(segments)[n] = UnfoldedBy(segments, Unfolding(segments)[n - 1], n)
PROOF
<1> DEFINE B(p, m) == UnfoldedBy(segments, p, m)
           E(g, m) == B(g[m - 1], m)
           S == {m \in Nat : \E g : \A k \in 0 .. m : g[k] = E(g, k)}
<1>0. MaxDepth \in Nat
  BY DepthAssumption, ConditionsAssumption
<1>1. \A p, q : B(p, 0) = B(q, 0)
  BY DEF UnfoldedBy
<1>2. Unfolding(segments) = CHOOSE g : g = [m \in 0 .. MaxDepth |-> E(g, m)]
  BY DEF Unfolding, UnfoldedBy
<1> HIDE DEF B
<1>3. 0 \in S
  <2> DEFINE g == [m \in 0 .. 0 |-> B(<<>>, 0)]
  <2>1. \A m \in 0 .. 0 : g[m] = E(g, m)
    BY <1>1
  <2> HIDE DEF g
  <2> QED BY <2>1
<1>4. ASSUME NEW m \in Nat, m \in S PROVE m + 1 \in S
  <2>1. PICK g : \A k \in 0 .. m : g[k] = E(g, k)
    BY <1>4
  <2> DEFINE h == [k \in 0 .. m + 1 |-> E(g, k)]
  <2>2. ASSUME NEW k \in 0 .. m PROVE h[k] = g[k]
    <3>1. g[k] = E(g, k)
      BY <2>1
    <3>2. k \in 0 .. m + 1
      OBVIOUS
    <3>3. h[k] = E(g, k)
      BY <3>2
    <3> QED BY <3>1, <3>3
  <2>3. \A k \in 0 .. m + 1 : h[k] = E(h, k)
    <3>1. ASSUME NEW k \in 0 .. m + 1 PROVE E(g, k) = E(h, k)
      <4>1. k = 0 \/ k - 1 \in 0 .. m
        OBVIOUS
      <4> HIDE DEF h
      <4> QED BY <4>1, <1>1, <2>2
    <3> QED BY <3>1
  <2> HIDE DEF h
  <2> QED BY <2>3
<1>5. MaxDepth \in S
  <2> HIDE DEF S
  <2> QED BY <1>0, <1>3, <1>4, NaturalInduction
<1>6. PICK g : \A k \in 0 .. MaxDepth : g[k] = E(g, k)
  BY <1>5
<1> DEFINE h == [m \in 0 .. MaxDepth |-> E(g, m)]
<1>7. h = [m \in 0 .. MaxDepth |-> E(h, m)]
  <2>1. ASSUME NEW m \in 0 .. MaxDepth PROVE E(g, m) = E(h, m)
    <3>1. m # 0 => m - 1 \in 0 .. MaxDepth
      BY <1>0
    <3>2. m # 0 => h[m - 1] = g[m - 1]
      BY <1>6, <3>1
    <3> HIDE DEF h
    <3> QED BY <1>1, <3>2
  <2> QED BY <2>1
<1>8. Unfolding(segments) = [m \in 0 .. MaxDepth |-> E(Unfolding(segments), m)]
  <2> HIDE DEF h, E
  <2> QED BY <1>2, <1>7
<1>9. Unfolding(segments)[n] = B(Unfolding(segments)[n - 1], n)
  BY <1>8
<1> QED BY <1>9 DEF B

(* Grouped within the limits, at some level.                               *)
Fitting(c, m) == c \in Level[m] /\ WellGrouped(c)

(* A negation or a group fits a level if its parts fit the one below.      *)
LEMMA FittingParts ==
  ASSUME NEW m \in 0 .. MaxHeight, NEW c, IsNegation(c) \/ IsGroup(c),
         IsGroup(c) => c.of = [i \in DOMAIN c.of |-> c.of[i]]
  PROVE  Fitting(c, m) <=> /\ m > 0
                           /\ IsGroup(c) => Len(c.of) \in 1 .. MaxChildren
                           /\ \A part \in Parts(c) : Fitting(part, m - 1)
PROOF
<1>0. MaxHeight \in Nat /\ MaxChildren \in Nat \ {0} /\ m \in Nat
  BY ConditionsAssumption, DocumentsAssumption
<1>1. /\ IsNegation(c) => c.kind = "not" /\ Parts(c) = {c.of} /\ Children(c) = <<c.of>>
      /\ IsGroup(c) => /\ c.kind \in {"all", "any"} /\ Parts(c) = {c.of[i] : i \in DOMAIN c.of}
                       /\ Children(c) = c.of
                       /\ Len(c.of) \in Nat /\ DOMAIN c.of = 1 .. Len(c.of)
  BY DEF IsNegation, IsGroup, Parts, Children
<1>2. Parts(c) = {Children(c)[i] : i \in DOMAIN Children(c)}
  BY <1>1
<1>3. ASSUME c \in TargetingCondition
      PROVE  WellGrouped(c) <=> /\ IsGroup(c) => Len(c.of) \in 1 .. MaxChildren
                                /\ \A part \in Parts(c) : WellGrouped(part)
  <2>1. IsGroup(c) <=> c.kind \in {"all", "any"}
    BY <1>1
  <2>2. WellGrouped(c) = (/\ c.kind \in {"all", "any"} => Len(c.of) \in 1 .. MaxChildren
                          /\ \A i \in DOMAIN Children(c) : WellGrouped(Children(c)[i]))
    BY <1>3, GroupedDefined
  <2> QED BY <1>2, <2>1, <2>2
<1>4. ASSUME Fitting(c, m)
      PROVE  /\ m > 0
             /\ IsGroup(c) => Len(c.of) \in 1 .. MaxChildren
             /\ \A part \in Parts(c) : Fitting(part, m - 1)
  <2>1. c \in TargetingCondition /\ c \in Level[m] /\ WellGrouped(c)
    BY <1>4, LevelsGrow DEF Fitting
  <2>2. /\ IsGroup(c) => Len(c.of) \in 1 .. MaxChildren
        /\ \A part \in Parts(c) : WellGrouped(part)
    BY <1>3, <2>1
  <2>3. Parts(c) # {}
    <3>1. CASE IsNegation(c)
      BY <1>1, <3>1
    <3>2. CASE IsGroup(c)
      <4>1. 1 \in DOMAIN c.of
        BY <1>1, <2>2, <3>2
      <4> QED BY <1>1, <3>2, <4>1
    <3> QED BY <3>1, <3>2
  <2>4. /\ m = 0 => Parts(c) = {}
        /\ m > 0 => Parts(c) \subseteq Level[m - 1]
    BY <2>1, LevelShape
  <2> QED BY <1>0, <2>2, <2>3, <2>4 DEF Fitting
<1>5. ASSUME m > 0, IsGroup(c) => Len(c.of) \in 1 .. MaxChildren,
             \A part \in Parts(c) : Fitting(part, m - 1)
      PROVE  Fitting(c, m)
  <2>0. m # 0
    BY <1>0, <1>5
  <2>1. Level[m] = Nested(Level[m - 1])
    BY <2>0, LevelDefined
  <2>2. Parts(c) \subseteq Level[m - 1]
    BY <1>5 DEF Fitting
  <2>3. c \in Level[m]
    <3>1. CASE IsNegation(c)
      <4>1. c.of \in Level[m - 1] /\ c = [kind |-> "not", of |-> c.of]
        BY <1>1, <2>2, <3>1 DEF IsNegation
      <4> QED BY <2>1, <4>1 DEF Nested
    <3>2. CASE IsGroup(c)
      <4>1. c.of \in Seq(Level[m - 1])
        <5>1. \A i \in 1 .. Len(c.of) : c.of[i] \in Level[m - 1]
          BY <1>1, <2>2, <3>2
        <5>2. c.of = [i \in 1 .. Len(c.of) |-> c.of[i]]
          BY <1>1, <3>2
        <5> QED BY <1>1, <3>2, <5>1, <5>2
      <4>2. c.kind \in {"all", "any"} /\ c = [kind |-> c.kind, of |-> c.of]
        BY <3>2 DEF IsGroup
      <4> QED BY <2>1, <4>1, <4>2 DEF Nested
    <3> QED BY <3>1, <3>2
  <2>4. c \in TargetingCondition
    BY <2>3, LevelsGrow
  <2>5. \A part \in Parts(c) : WellGrouped(part)
    BY <1>5 DEF Fitting
  <2>6. WellGrouped(c)
    BY <1>3, <1>5, <2>4, <2>5
  <2> QED BY <2>3, <2>6 DEF Fitting
<1> QED BY <1>4, <1>5

(* A leaf is a condition of every level, and well grouped.                 *)
LEMMA LeavesFit ==
  ASSUME NEW m \in 0 .. MaxHeight, NEW leaf \in Leaves \cup IndexedLeaves
  PROVE  leaf \in TargetingCondition /\ IsLeafCondition(leaf) /\ Fitting(leaf, m)
PROOF
<1> DEFINE T == {k \in Nat : k <= MaxHeight => leaf \in Level[k]}
<1>1. 0 \in T
  BY LevelDefined, ConditionsAssumption
<1>2. ASSUME NEW k \in Nat, k \in T PROVE k + 1 \in T
  <2>1. k + 1 <= MaxHeight => k \in 0 .. MaxHeight /\ k < MaxHeight
    BY ConditionsAssumption
  <2> QED BY <1>2, <2>1, LevelShape
<1>3. m \in T
  <2> HIDE DEF T
  <2> QED BY <1>1, <1>2, NaturalInduction
<1>4. leaf \in Level[m] /\ leaf \in TargetingCondition
  BY <1>3, LevelsGrow
<1>5. IsLeafCondition(leaf)
  BY LeavesAreLeaves DEF IsLeafCondition
<1>6. Children(leaf) = <<>> /\ leaf.kind \notin {"all", "any"}
  BY <1>5 DEF IsLeafCondition, Children
<1>7. WellGrouped(leaf)
  <2>1. WellGrouped(leaf) = (/\ leaf.kind \in {"all", "any"} => Len(leaf.of) \in 1 .. MaxChildren
                             /\ \A i \in DOMAIN Children(leaf) : WellGrouped(Children(leaf)[i]))
    BY <1>4, GroupedDefined
  <2>2. DOMAIN Children(leaf) = {}
    BY <1>6
  <2> QED BY <1>6, <2>1, <2>2
<1> QED BY <1>4, <1>5, <1>7 DEF Fitting

IsReference(w) == w.kind = "segment" /\ w = [kind |-> "segment", name |-> w.name]

(* A condition of a document is one or a reference, of such conditions.    *)
LEMMA AuthoredShape ==
  ASSUME NEW w \in Authored
  PROVE  /\ (w \in Leaves /\ IsLeafCondition(w)) \/ IsReference(w) \/ IsNegation(w) \/ IsGroup(w)
         /\ IsLeafCondition(w) => w.kind = "leaf"
         /\ IsReference(w) => w.kind = "segment"
         /\ IsNegation(w) => /\ w.kind = "not" /\ w.of \in Authored
                             /\ Children(w) = <<w.of>> /\ Parts(w) = {w.of}
         /\ IsGroup(w) => /\ w.kind \in {"all", "any"} /\ Len(w.of) \in Nat /\ DOMAIN w.of = 1 .. Len(w.of)
                          /\ \A i \in DOMAIN w.of : w.of[i] \in Authored
                          /\ Children(w) = w.of /\ Parts(w) = {w.of[i] : i \in DOMAIN w.of}
PROOF
<1>1. IsAuthored(w)
  BY DocumentsAssumption
<1>2. CASE w \in Leaves
  <2>1. w.kind = "leaf"
    BY <1>2, LeavesAreLeaves
  <2> QED BY <1>2, <2>1 DEF IsLeafCondition, IsReference, IsNegation, IsGroup
<1>3. CASE w.kind = "segment" /\ w = [kind |-> "segment", name |-> w.name]
  BY <1>3 DEF IsLeafCondition, IsReference, IsNegation, IsGroup
<1>4. CASE w.kind = "not" /\ w = [kind |-> "not", of |-> w.of] /\ w.of \in Authored
  BY <1>4 DEF IsLeafCondition, IsReference, IsNegation, IsGroup, Children, Parts
<1>5. CASE /\ w.kind \in {"all", "any"} /\ w = [kind |-> w.kind, of |-> w.of]
           /\ IsSequence(w.of) /\ Range(w.of) \subseteq Authored
  <2>1. Len(w.of) \in Nat /\ DOMAIN w.of = 1 .. Len(w.of)
    BY <1>5 DEF IsSequence
  <2>2. \A i \in DOMAIN w.of : w.of[i] \in Authored
    BY <1>5 DEF Range
  <2> QED BY <1>5, <2>1, <2>2 DEF IsLeafCondition, IsReference, IsNegation, IsGroup, Children, Parts
<1> QED BY <1>1, <1>2, <1>3, <1>4, <1>5 DEF IsAuthored

Definitions(segments) == \A name \in DOMAIN segments : segments[name] \in Authored

(* A condition unfolds to one within the limits.                           *)
Resolved(segments, n, w) == n > 0 /\ Fitting(Unfolding(segments)[n][w], n - 1)

(* A condition can be unfolded if its parts can be.                        *)
LEMMA ResolvedParts ==
  ASSUME NEW segments, Definitions(segments), NEW n \in 1 .. MaxDepth, NEW m, m = n - 1, NEW w \in Authored
  PROVE  LET unfolded(k, c) == Unfolding(segments)[k][c] IN
         /\ IsLeafCondition(w) => unfolded(n, w) = w /\ Resolved(segments, n, w)
         /\ IsReference(w) =>
              /\ w.name \in DOMAIN segments =>
                   unfolded(n, w) = [kind |-> "all", of |-> <<unfolded(m, segments[w.name])>>]
              /\ Resolved(segments, n, w) <=>
                   w.name \in DOMAIN segments /\ Resolved(segments, m, segments[w.name])
         /\ IsNegation(w) =>
              /\ unfolded(n, w) = [kind |-> "not", of |-> unfolded(m, w.of)]
              /\ Resolved(segments, n, w) <=> Resolved(segments, m, w.of)
         /\ IsGroup(w) =>
              /\ unfolded(n, w) = [kind |-> w.kind, of |-> [i \in DOMAIN w.of |-> unfolded(m, w.of[i])]]
              /\ Resolved(segments, n, w) <=>
                   /\ Len(w.of) \in 1 .. MaxChildren
                   /\ \A i \in DOMAIN w.of : Resolved(segments, m, w.of[i])
PROOF
<1> DEFINE unfolded(k, c) == Unfolding(segments)[k][c]
           u == unfolded(n, w)
<1>0. /\ MaxDepth \in Nat /\ n \in 0 .. MaxDepth /\ m \in 0 .. MaxHeight /\ n # 0 /\ n > 0
      /\ MaxChildren \in Nat \ {0}
  BY DepthAssumption, ConditionsAssumption, DocumentsAssumption
<1>1. u = IF w.kind = "leaf" THEN w
          ELSE IF w.kind = "segment"
            THEN IF w.name \in DOMAIN segments
                   THEN [kind |-> "all", of |-> <<unfolded(m, segments[w.name])>>]
                   ELSE Cut
          ELSE IF w.kind = "not" THEN [kind |-> "not", of |-> unfolded(m, w.of)]
          ELSE [kind |-> w.kind, of |-> [i \in DOMAIN w.of |-> unfolded(m, w.of[i])]]
  <2> DEFINE F == Unfolding(segments)[m]
  <2>1. Unfolding(segments)[n] = UnfoldedBy(segments, F, n)
    BY <1>0, m = n - 1, UnfoldingDefined
  <2> HIDE DEF F
  <2>2. u = IF w.kind = "leaf" THEN w
            ELSE IF w.kind = "segment"
              THEN IF w.name \in DOMAIN segments
                     THEN [kind |-> "all", of |-> <<F[segments[w.name]]>>]
                     ELSE Cut
            ELSE IF w.kind = "not" THEN [kind |-> "not", of |-> F[w.of]]
            ELSE [kind |-> w.kind, of |-> [i \in DOMAIN w.of |-> F[w.of[i]]]]
    BY <1>0, <2>1 DEF UnfoldedBy
  <2> QED BY <2>2 DEF F
<1>2. Resolved(segments, n, w) <=> Fitting(u, m)
  BY <1>0, m = n - 1 DEF Resolved
<1>3. \A c : Resolved(segments, m, c) <=> m > 0 /\ Fitting(unfolded(m, c), m - 1)
  BY DEF Resolved
<1> HIDE DEF u, unfolded
<1>4. CASE IsLeafCondition(w)
  <2>1. w.kind = "leaf" /\ w \in Leaves \cup IndexedLeaves
    BY <1>4 DEF IsLeafCondition
  <2>2. u = w /\ Fitting(w, m)
    BY <1>0, <1>1, <2>1, LeavesFit
  <2> QED BY <1>2, <1>4, <2>1, <2>2 DEF u, unfolded, IsReference, IsNegation, IsGroup
<1>5. CASE IsReference(w)
  <2>1. w.kind = "segment"
    BY <1>5 DEF IsReference
  <2>2. CASE w.name \in DOMAIN segments
    <3> DEFINE part == unfolded(m, segments[w.name])
    <3>1. u = [kind |-> "all", of |-> <<part>>]
      BY <1>1, <2>1, <2>2
    <3> HIDE DEF part
    <3>2. /\ IsGroup(u) /\ u.of = [i \in DOMAIN u.of |-> u.of[i]] /\ Parts(u) = {part}
          /\ Len(u.of) = 1
      BY <3>1 DEF IsGroup, Parts
    <3>3. Fitting(u, m) <=> m > 0 /\ Fitting(part, m - 1)
      <4>1. Len(u.of) \in 1 .. MaxChildren
        BY <1>0, <3>2
      <4>2. Fitting(u, m) <=> /\ m > 0
                              /\ IsGroup(u) => Len(u.of) \in 1 .. MaxChildren
                              /\ \A p \in Parts(u) : Fitting(p, m - 1)
        BY <1>0, <3>2, FittingParts
      <4> QED BY <3>2, <4>1, <4>2
    <3>4. Fitting(u, m) <=> Resolved(segments, m, segments[w.name])
      BY <1>3, <3>3 DEF part
    <3> QED BY <1>2, <1>5, <2>1, <2>2, <3>1, <3>4 DEF part, u, unfolded, IsLeafCondition, IsNegation, IsGroup
  <2>3. CASE w.name \notin DOMAIN segments
    <3>1. u = Cut
      BY <1>1, <2>1, <2>3
    <3>2. ~Fitting(Cut, m)
      <4>1. Cut \notin TargetingCondition
        BY ConditionShape DEF Cut, IsLeafCondition, IsNegation, IsGroup
      <4> QED BY <1>0, <4>1, LevelsGrow DEF Fitting
    <3> QED BY <1>2, <1>5, <2>1, <2>3, <3>1, <3>2 DEF IsLeafCondition, IsNegation, IsGroup
  <2> QED BY <2>2, <2>3
<1>6. CASE IsNegation(w)
  <2> DEFINE part == unfolded(m, w.of)
  <2>1. w.kind = "not"
    BY <1>6 DEF IsNegation
  <2>2. u = [kind |-> "not", of |-> part]
    BY <1>1, <2>1
  <2> HIDE DEF part
  <2>3. IsNegation(u) /\ ~IsGroup(u) /\ Parts(u) = {part}
    BY <2>2 DEF IsNegation, IsGroup, Parts
  <2>4. Fitting(u, m) <=> m > 0 /\ Fitting(part, m - 1)
    BY <1>0, <2>3, FittingParts
  <2>5. Fitting(u, m) <=> Resolved(segments, m, w.of)
    BY <1>3, <2>4 DEF part
  <2> QED BY <1>2, <1>6, <2>1, <2>2, <2>5 DEF part, u, unfolded, IsLeafCondition, IsReference, IsGroup
<1>7. CASE IsGroup(w)
  <2> DEFINE parts == [i \in DOMAIN w.of |-> unfolded(m, w.of[i])]
  <2>1. /\ w.kind \in {"all", "any"} /\ Len(w.of) \in Nat /\ DOMAIN w.of = 1 .. Len(w.of)
    BY <1>7 DEF IsGroup
  <2>2. u = [kind |-> w.kind, of |-> parts]
    BY <1>1, <2>1
  <2>3. /\ DOMAIN parts = 1 .. Len(w.of) /\ Len(parts) = Len(w.of)
        /\ \A i \in DOMAIN w.of : parts[i] = unfolded(m, w.of[i])
    BY <2>1
  <2>4. parts = [i \in DOMAIN parts |-> parts[i]]
    OBVIOUS
  <2> HIDE DEF parts
  <2>5. /\ IsGroup(u) /\ u.of = parts /\ Parts(u) = {parts[i] : i \in 1 .. Len(w.of)}
        /\ Len(u.of) = Len(w.of)
    BY <2>1, <2>2, <2>3 DEF IsGroup, Parts
  <2>6. Fitting(u, m) <=> /\ m > 0 /\ Len(w.of) \in 1 .. MaxChildren
                          /\ \A part \in Parts(u) : Fitting(part, m - 1)
    <3>1. u.of = [i \in DOMAIN u.of |-> u.of[i]]
      BY <2>4, <2>5
    <3> QED BY <1>0, <2>5, <3>1, FittingParts
  <2>7. Fitting(u, m) <=> /\ Len(w.of) \in 1 .. MaxChildren
                          /\ \A i \in DOMAIN w.of : Resolved(segments, m, w.of[i])
    <3>1. Len(w.of) \in 1 .. MaxChildren => 1 \in DOMAIN w.of
      BY <1>0, <2>1
    <3>2. (\A part \in Parts(u) : Fitting(part, m - 1))
            <=> \A i \in DOMAIN w.of : Fitting(unfolded(m, w.of[i]), m - 1)
      BY <2>1, <2>3, <2>5
    <3> QED BY <1>3, <2>6, <3>1, <3>2
  <2> QED BY <1>2, <1>7, <2>1, <2>2, <2>7 DEF parts, u, unfolded, IsLeafCondition, IsReference, IsNegation
<1> QED BY <1>4, <1>5, <1>6, <1>7, AuthoredShape DEF unfolded

Expanded(segments, n, w, active) == Expanding(segments)[n][w][active]

IsExpansion(x) ==
  x = [accepted |-> x.accepted, nodes |-> x.nodes, when |-> x.when] /\ x.accepted \in BOOLEAN

PartsAt(segments, n, w, active) ==
  [i \in DOMAIN Children(w) |-> Expanded(segments, n, Children(w)[i], active)]

(* One level of an expansion.                                              *)
LEMMA ExpandedStep ==
  ASSUME NEW segments, NEW n \in 0 .. MaxDepth, NEW w \in Authored, NEW active \in SUBSET DOMAIN segments
  PROVE  Expanded(segments, n, w, active) =
           IF n = 0 THEN Rejection
           ELSE IF w.kind = "leaf" THEN [accepted |-> TRUE, nodes |-> 1, when |-> w]
           ELSE IF w.kind = "segment"
             THEN IF w.name \in DOMAIN segments \ active
                    THEN Referred(Expanded(segments, n - 1, segments[w.name], active \cup {w.name}))
                    ELSE Rejection
           ELSE Composed(w, PartsAt(segments, n - 1, w, active))
PROOF
<1> DEFINE F == Expanding(segments)[n - 1]
<1>1. Expanding(segments)[n] = ExpandedBy(segments, F, n)
  BY ExpandingDefined
<1> HIDE DEF F
<1>2. Expanding(segments)[n][w][active] =
           IF n = 0 THEN Rejection
           ELSE IF w.kind = "leaf" THEN [accepted |-> TRUE, nodes |-> 1, when |-> w]
           ELSE IF w.kind = "segment"
             THEN IF w.name \in DOMAIN segments \ active
                    THEN Referred(F[segments[w.name]][active \cup {w.name}])
                    ELSE Rejection
           ELSE Composed(w, [i \in DOMAIN Children(w) |-> F[Children(w)[i]][active]])
  BY <1>1 DEF ExpandedBy
<1> QED BY <1>2 DEF F, Expanded, PartsAt

(* An expansion says whether it is accepted.                               *)
LEMMA ExpansionShape ==
  ASSUME NEW segments, Definitions(segments), NEW n \in 0 .. MaxDepth, NEW w \in Authored,
         NEW active \in SUBSET DOMAIN segments
  PROVE  IsExpansion(Expanded(segments, n, w, active))
PROOF
<1> DEFINE S == {m \in Nat : m <= MaxDepth =>
                   \A c \in Authored : \A names \in SUBSET DOMAIN segments :
                     IsExpansion(Expanded(segments, m, c, names))}
<1>1. MaxDepth \in Nat
  BY DepthAssumption, ConditionsAssumption
<1>2. IsExpansion(Rejection)
  BY DEF IsExpansion, Rejection
<1>3. 0 \in S
  <2>1. ASSUME NEW c \in Authored, NEW names \in SUBSET DOMAIN segments
        PROVE  Expanded(segments, 0, c, names) = Rejection
    <3>1. 0 \in 0 .. MaxDepth
      BY <1>1
    <3> QED BY <3>1, ExpandedStep
  <2> QED BY <1>2, <2>1
<1>4. ASSUME NEW m \in Nat, m \in S PROVE m + 1 \in S
  <2> SUFFICES ASSUME m + 1 <= MaxDepth, NEW c \in Authored, NEW names \in SUBSET DOMAIN segments
               PROVE  IsExpansion(Expanded(segments, m + 1, c, names))
    OBVIOUS
  <2>0. m + 1 \in 0 .. MaxDepth /\ m + 1 # 0 /\ (m + 1) - 1 = m /\ m <= MaxDepth
    BY <1>1
  <2>1. CASE c.kind = "leaf"
    <3> DEFINE x == [accepted |-> TRUE, nodes |-> 1, when |-> c]
    <3>1. Expanded(segments, m + 1, c, names) = x
      BY <2>0, <2>1, ExpandedStep
    <3>2. IsExpansion(x)
      BY DEF IsExpansion
    <3> HIDE DEF x
    <3> QED BY <3>1, <3>2
  <2>2. CASE c.kind = "segment" /\ c.name \in DOMAIN segments \ names
    <3> DEFINE x == Expanded(segments, m, segments[c.name], names \cup {c.name})
    <3>1. Expanded(segments, m + 1, c, names) = Referred(x)
      BY <2>0, <2>2, ExpandedStep
    <3>2. segments[c.name] \in Authored /\ names \cup {c.name} \in SUBSET DOMAIN segments
      BY <2>2 DEF Definitions
    <3>3. IsExpansion(x)
      BY <1>4, <2>0, <3>2
    <3> HIDE DEF x
    <3>4. IsExpansion(Referred(x))
      BY <3>3 DEF IsExpansion, Referred
    <3> QED BY <3>1, <3>4
  <2>3. CASE c.kind = "segment" /\ c.name \notin DOMAIN segments \ names
    <3>1. Expanded(segments, m + 1, c, names) = Rejection
      BY <2>0, <2>3, ExpandedStep
    <3> QED BY <1>2, <3>1
  <2>4. CASE c.kind # "leaf" /\ c.kind # "segment"
    <3> DEFINE parts == PartsAt(segments, m, c, names)
    <3>1. Expanded(segments, m + 1, c, names) = Composed(c, parts)
      BY <2>0, <2>4, ExpandedStep
    <3> HIDE DEF parts
    <3>2. IsExpansion(Composed(c, parts))
      BY <1>2 DEF IsExpansion, Composed
    <3> QED BY <3>1, <3>2
  <2> QED BY <2>1, <2>2, <2>3, <2>4
<1>5. n \in S
  <2> HIDE DEF S
  <2> QED BY <1>3, <1>4, NaturalInduction
<1> QED BY <1>5

NodesAt(segments, n, w, active) ==
  [i \in DOMAIN Children(w) |-> Expanded(segments, n, Children(w)[i], active).nodes]
WhensAt(segments, n, w, active) ==
  [i \in DOMAIN Children(w) |-> Expanded(segments, n, Children(w)[i], active).when]

(* What an expansion is of its parts.                                      *)
MadeOfParts(segments, n, m, w, active) ==
  LET x == Expanded(segments, n, w, active)
      part(c) == Expanded(segments, m, c, active)
      definition == Expanded(segments, m, segments[w.name], active \cup {w.name})
  IN
  /\ IsLeafCondition(w) => x.accepted /\ x.nodes = 1 /\ x.when = w
  /\ IsReference(w) =>
       /\ x.accepted <=> w.name \in DOMAIN segments \ active /\ definition.accepted
       /\ x.accepted => x.nodes = definition.nodes + 1 /\ x.when = definition.when
  /\ IsNegation(w) =>
       /\ x.accepted <=> part(w.of).accepted
       /\ x.accepted => /\ x.nodes = 1 + SumFunction(NodesAt(segments, m, w, active))
                        /\ x.when = [kind |-> "not", of |-> part(w.of).when]
  /\ IsGroup(w) =>
       /\ x.accepted <=> /\ Len(w.of) \in 1 .. MaxChildren
                         /\ \A i \in DOMAIN w.of : part(w.of[i]).accepted
       /\ x.accepted =>
            /\ x.nodes = 1 + SumFunction(NodesAt(segments, m, w, active))
            /\ x.when = [kind |-> w.kind, of |-> WhensAt(segments, m, w, active)]

(* An expansion is made of those of its parts, in the conditions and in    *)
(* the nodes they took.                                                    *)
LEMMA ExpandedParts ==
  ASSUME NEW segments, Definitions(segments), NEW n \in 1 .. MaxDepth, NEW m, m = n - 1, NEW w \in Authored,
         NEW active \in SUBSET DOMAIN segments
  PROVE  MadeOfParts(segments, n, m, w, active)
PROOF
<1> DEFINE x == Expanded(segments, n, w, active)
           part(c) == Expanded(segments, m, c, active)
           definition == Expanded(segments, m, segments[w.name], active \cup {w.name})
           parts == [i \in DOMAIN Children(w) |-> part(Children(w)[i])]
<1>0. /\ MaxDepth \in Nat /\ n \in 0 .. MaxDepth /\ n # 0 /\ m \in 0 .. MaxDepth
      /\ MaxChildren \in Nat \ {0}
  BY DepthAssumption, ConditionsAssumption, DocumentsAssumption
<1>1. x = IF w.kind = "leaf" THEN [accepted |-> TRUE, nodes |-> 1, when |-> w]
          ELSE IF w.kind = "segment"
            THEN IF w.name \in DOMAIN segments \ active THEN Referred(definition) ELSE Rejection
          ELSE Composed(w, parts)
  <2>1. Expanded(segments, n, w, active) =
          IF w.kind = "leaf" THEN [accepted |-> TRUE, nodes |-> 1, when |-> w]
          ELSE IF w.kind = "segment"
            THEN IF w.name \in DOMAIN segments \ active THEN Referred(definition) ELSE Rejection
          ELSE Composed(w, PartsAt(segments, m, w, active))
    BY <1>0, ExpandedStep
  <2> QED BY <2>1 DEF PartsAt
<1>2. \A c \in Authored : IsExpansion(part(c))
  BY <1>0, ExpansionShape
<1>3. w.name \in DOMAIN segments \ active => IsExpansion(definition)
  <2> SUFFICES ASSUME w.name \in DOMAIN segments \ active PROVE IsExpansion(definition)
    OBVIOUS
  <2>1. segments[w.name] \in Authored /\ active \cup {w.name} \in SUBSET DOMAIN segments
    BY DEF Definitions
  <2> QED BY <1>0, <2>1, ExpansionShape
<1> HIDE DEF x, part, definition
<1>4. CASE IsLeafCondition(w)
  <2>1. x.accepted /\ x.nodes = 1 /\ x.when = w
    BY <1>1, <1>4 DEF IsLeafCondition
  <2> QED BY <1>4, <2>1 DEF IsLeafCondition, IsReference, IsNegation, IsGroup, MadeOfParts, x, part, definition
<1>5. CASE IsReference(w)
  <2>1. /\ x.accepted <=> w.name \in DOMAIN segments \ active /\ definition.accepted
        /\ x.accepted => x.nodes = definition.nodes + 1 /\ x.when = definition.when
    <3>1. CASE w.name \in DOMAIN segments \ active
      <4>1. x = [definition EXCEPT !.nodes = @ + 1]
        BY <1>1, <1>5, <3>1 DEF IsReference, Referred
      <4> QED BY <1>3, <3>1, <4>1 DEF IsExpansion
    <3>2. CASE w.name \notin DOMAIN segments \ active
      BY <1>1, <1>5, <3>2 DEF IsReference, Rejection
    <3> QED BY <3>1, <3>2
  <2> QED BY <1>5, <2>1 DEF IsLeafCondition, IsReference, IsNegation, IsGroup, MadeOfParts, x, part, definition
<1>6. CASE IsNegation(w)
  <2>1. Children(w) = <<w.of>> /\ w.of \in Authored /\ w.kind = "not"
    BY <1>6, AuthoredShape
  <2>2. parts = [i \in {1} |-> part(w.of)]
    BY <2>1
  <2>3. Len(Children(w)) \in 1 .. MaxChildren
    BY <1>0, <2>1
  <2> DEFINE p == part(w.of)
  <2>4. parts = [i \in {1} |-> p] /\ IsExpansion(p)
    BY <1>2, <2>1, <2>2
  <2>5. x = Composed(w, parts)
    BY <1>1, <2>1
  <2> HIDE DEF p, parts
  <2>6. /\ DOMAIN parts = {1} /\ parts[1] = p
        /\ [i \in DOMAIN parts |-> parts[i].nodes] = NodesAt(segments, m, w, active)
    BY <2>1, <2>4 DEF NodesAt, p, part
  <2>7. CASE p.accepted
    <3>1. x = [accepted |-> TRUE, nodes |-> 1 + SumFunction(NodesAt(segments, m, w, active)),
               when |-> [w EXCEPT !.of = p.when]]
      BY <2>1, <2>3, <2>5, <2>6, <2>7 DEF Composed
    <3>2. [w EXCEPT !.of = p.when] = [kind |-> "not", of |-> p.when]
      BY <1>6 DEF IsNegation
    <3>3. /\ x.accepted /\ x.nodes = 1 + SumFunction(NodesAt(segments, m, w, active))
          /\ x.when = [kind |-> "not", of |-> p.when]
      BY <3>1, <3>2
    <3> QED BY <1>6, <2>7, <3>3 DEF IsLeafCondition, IsReference, IsNegation, IsGroup, MadeOfParts, x, part, definition, p
  <2>8. CASE ~p.accepted
    <3>1. x = Rejection
      BY <2>5, <2>6, <2>8 DEF Composed
    <3>2. ~x.accepted
      BY <3>1 DEF Rejection
    <3> QED BY <1>6, <2>8, <3>2 DEF IsLeafCondition, IsReference, IsNegation, IsGroup, MadeOfParts, x, part, definition, p
  <2> QED BY <2>7, <2>8
<1>7. CASE IsGroup(w)
  <2>1. /\ Children(w) = w.of /\ \A i \in DOMAIN w.of : w.of[i] \in Authored
        /\ w.kind \in {"all", "any"}
    BY <1>7, AuthoredShape
  <2>2. x = Composed(w, parts)
    BY <1>1, <2>1
  <2>3. DOMAIN parts = DOMAIN w.of /\ \A i \in DOMAIN w.of : parts[i] = part(w.of[i])
    BY <2>1
  <2> HIDE DEF parts
  <2>4. /\ [i \in DOMAIN parts |-> parts[i].nodes] = NodesAt(segments, m, w, active)
        /\ [i \in DOMAIN parts |-> parts[i].when] = WhensAt(segments, m, w, active)
    BY <2>1, <2>3 DEF NodesAt, WhensAt, part
  <2>5. CASE Len(w.of) \in 1 .. MaxChildren /\ \A i \in DOMAIN w.of : part(w.of[i]).accepted
    <3>0. /\ Len(Children(w)) \in 1 .. MaxChildren /\ \A i \in DOMAIN parts : parts[i].accepted
          /\ w.kind # "not"
      BY <2>1, <2>3, <2>5
    <3>1. x = [accepted |-> TRUE,
               nodes |-> 1 + SumFunction(NodesAt(segments, m, w, active)),
               when |-> [w EXCEPT !.of = WhensAt(segments, m, w, active)]]
      BY <2>2, <2>4, <3>0 DEF Composed
    <3>2. [w EXCEPT !.of = WhensAt(segments, m, w, active)]
            = [kind |-> w.kind, of |-> WhensAt(segments, m, w, active)]
      BY <1>7 DEF IsGroup
    <3>3. /\ x.accepted /\ x.nodes = 1 + SumFunction(NodesAt(segments, m, w, active))
          /\ x.when = [kind |-> w.kind, of |-> WhensAt(segments, m, w, active)]
      BY <3>1, <3>2
    <3> QED BY <1>7, <2>5, <3>3 DEF IsLeafCondition, IsReference, IsNegation, IsGroup, MadeOfParts, x, part, definition
  <2>6. CASE ~(Len(w.of) \in 1 .. MaxChildren /\ \A i \in DOMAIN w.of : part(w.of[i]).accepted)
    <3>1. x = Rejection
      BY <2>1, <2>2, <2>3, <2>6 DEF Composed
    <3>2. ~x.accepted
      BY <3>1 DEF Rejection
    <3> QED BY <1>7, <2>6, <3>2 DEF IsLeafCondition, IsReference, IsNegation, IsGroup, MadeOfParts, x, part, definition
  <2> QED BY <2>5, <2>6
<1> QED BY <1>4, <1>5, <1>6, <1>7, AuthoredShape

(* Every condition has a node.                                             *)
LEMMA NodesCounted ==
  ASSUME NEW c \in TargetingCondition
  PROVE  /\ Nodes(c) \in Nat
         /\ IsFiniteSet(DOMAIN Children(c))
         /\ IsLeafCondition(c) => Nodes(c) = 1
PROOF
<1>1. ASSUME NEW d \in TargetingCondition PROVE IsFiniteSet(DOMAIN Children(d))
  <2>1. CASE IsLeafCondition(d)
    <3>1. DOMAIN Children(d) = {}
      BY <2>1, ChildrenAreParts
    <3> QED BY <3>1, FS_EmptySet
  <2>2. CASE IsNegation(d)
    <3>1. DOMAIN Children(d) = {1}
      BY <2>2, ChildrenAreParts
    <3> QED BY <3>1, FS_Singleton
  <2>3. CASE IsGroup(d)
    <3>1. DOMAIN Children(d) = 1 .. Len(d.of) /\ Len(d.of) \in Nat
      BY <2>3, ChildrenAreParts DEF IsGroup
    <3> QED BY <3>1, FS_Interval
  <2> QED BY <2>1, <2>2, <2>3, ConditionShape
<1> DEFINE S == {d \in TargetingCondition : Nodes(d) \in Nat}
           counts(d) == [i \in DOMAIN Children(d) |-> Nodes(Children(d)[i])]
<1>2. ASSUME NEW d \in TargetingCondition PROVE Nodes(d) = 1 + SumFunction(counts(d))
  BY NodesDefined
<1>3. ASSUME NEW d \in TargetingCondition, Parts(d) \subseteq S PROVE d \in S
  <2>1. \A i \in DOMAIN Children(d) : counts(d)[i] \in Nat
    BY <1>3, ChildrenAreParts
  <2>2. DOMAIN counts(d) = DOMAIN Children(d)
    OBVIOUS
  <2> HIDE DEF counts
  <2>3. \A i \in DOMAIN counts(d) : counts(d)[i] <= counts(d)[i]
    BY <2>1, <2>2
  <2>4. IsFiniteSet(DOMAIN counts(d))
    BY <1>1, <2>2
  <2>5. SumFunction(counts(d)) \in Nat
    BY <2>1, <2>2, <2>3, <2>4, SumsGrow
  <2> QED BY <1>2, <2>5
<1>4. c \in S
  <2> HIDE DEF S
  <2> QED BY <1>3, ConditionInduction
<1>5. IsLeafCondition(c) => Nodes(c) = 1
  <2> SUFFICES ASSUME IsLeafCondition(c) PROVE Nodes(c) = 1
    OBVIOUS
  <2>1. DOMAIN counts(c) = {} /\ IsFiniteSet(DOMAIN counts(c))
    BY <1>1, ChildrenAreParts
  <2> HIDE DEF counts
  <2>2. PICK g : /\ SumFunction(counts(c)) = g[DOMAIN counts(c)]
                 /\ \A s \in SUBSET DOMAIN counts(c) :
                      g[s] = IF s = {} THEN 0
                             ELSE counts(c)[CHOOSE x \in s : TRUE] + g[s \ {CHOOSE x \in s : TRUE}]
    BY <2>1, SumDefined
  <2>3. SumFunction(counts(c)) = 0
    BY <2>1, <2>2
  <2> QED BY <1>2, <2>3
<1> QED BY <1>1, <1>4, <1>5

(* No larger, of the same leaves, and with the same answers.               *)
StandsFor(c, d, request) ==
  /\ Nodes(c) <= Nodes(d)
  /\ LeavesOf(c) = LeavesOf(d)
  /\ MatchesCondition(c, request, NoOperands) = MatchesCondition(d, request, NoOperands)
  /\ CheckedCondition(c, request, NoOperands) = CheckedCondition(d, request, NoOperands)

(* A condition whose parts are replaced is itself replaced.                *)
LEMMA ReplacedParts ==
  ASSUME NEW request, NEW c \in TargetingCondition, NEW d \in TargetingCondition,
         c.kind = d.kind,
         \/ IsNegation(c) /\ IsNegation(d) /\ StandsFor(c.of, d.of, request)
         \/ /\ IsGroup(c) /\ IsGroup(d) /\ DOMAIN c.of = DOMAIN d.of
            /\ \A i \in DOMAIN c.of : StandsFor(c.of[i], d.of[i], request)
  PROVE  StandsFor(c, d, request)
PROOF
<1>1. /\ DOMAIN Children(c) = DOMAIN Children(d)
      /\ \A i \in DOMAIN Children(c) : /\ Children(c)[i] \in TargetingCondition
                                       /\ Children(d)[i] \in TargetingCondition
                                       /\ StandsFor(Children(c)[i], Children(d)[i], request)
  <2>1. CASE IsNegation(c) /\ IsNegation(d) /\ StandsFor(c.of, d.of, request)
    BY <2>1, ChildrenAreParts, ConditionShape
  <2>2. CASE /\ IsGroup(c) /\ IsGroup(d) /\ DOMAIN c.of = DOMAIN d.of
             /\ \A i \in DOMAIN c.of : StandsFor(c.of[i], d.of[i], request)
    BY <2>2, ChildrenAreParts, ConditionShape
  <2> QED BY <2>1, <2>2
<1>2. Nodes(c) <= Nodes(d)
  <2> DEFINE counts == [i \in DOMAIN Children(c) |-> Nodes(Children(c)[i])]
             others == [i \in DOMAIN Children(d) |-> Nodes(Children(d)[i])]
  <2>1. Nodes(c) = 1 + SumFunction(counts) /\ Nodes(d) = 1 + SumFunction(others)
    BY NodesDefined
  <2>2. /\ IsFiniteSet(DOMAIN counts) /\ DOMAIN others = DOMAIN counts
        /\ \A x \in DOMAIN counts : counts[x] \in Nat /\ others[x] \in Nat /\ counts[x] <= others[x]
    BY <1>1, NodesCounted DEF StandsFor
  <2> HIDE DEF counts, others
  <2> QED BY <2>1, <2>2, SumsGrow
<1>3. CASE IsNegation(c) /\ IsNegation(d) /\ StandsFor(c.of, d.of, request)
  <2>1. c.kind = "not" /\ d.kind = "not"
    BY <1>3 DEF IsNegation
  <2>2. LeavesOf(c) = LeavesOf(d)
    BY <1>3, <2>1, LeavesDefined DEF StandsFor
  <2>3. CheckedCondition(c, request, NoOperands) = CheckedCondition(d, request, NoOperands)
    BY <1>3, <2>1, CheckedDefined DEF StandsFor
  <2>4. MatchesCondition(c, request, NoOperands) = MatchesCondition(d, request, NoOperands)
    <3>1. /\ MatchesCondition(c, request, NoOperands) = (CheckedCondition(c.of, request, NoOperands) = FALSE)
          /\ MatchesCondition(d, request, NoOperands) = (CheckedCondition(d.of, request, NoOperands) = FALSE)
      BY <2>1, MatchesDefined
    <3>2. CheckedCondition(c.of, request, NoOperands) = CheckedCondition(d.of, request, NoOperands)
      BY <1>3 DEF StandsFor
    <3> QED BY <3>1, <3>2
  <2> QED BY <1>2, <2>2, <2>3, <2>4 DEF StandsFor
<1>4. CASE /\ IsGroup(c) /\ IsGroup(d) /\ DOMAIN c.of = DOMAIN d.of
           /\ \A i \in DOMAIN c.of : StandsFor(c.of[i], d.of[i], request)
  <2>1. c.kind \in {"all", "any"} /\ d.kind = c.kind
    BY <1>4 DEF IsGroup
  <2>2. LeavesOf(c) = LeavesOf(d)
    <3>1. {LeavesOf(c.of[i]) : i \in DOMAIN c.of} = {LeavesOf(d.of[i]) : i \in DOMAIN d.of}
      BY <1>4 DEF StandsFor
    <3>2. /\ LeavesOf(c) = UNION {LeavesOf(c.of[i]) : i \in DOMAIN c.of}
          /\ LeavesOf(d) = UNION {LeavesOf(d.of[i]) : i \in DOMAIN d.of}
      BY <2>1, LeavesDefined
    <3> QED BY <3>1, <3>2
  <2>3. CheckedCondition(c, request, NoOperands) = CheckedCondition(d, request, NoOperands)
    <3>1. AnswersOf(c, request, NoOperands) = AnswersOf(d, request, NoOperands)
      BY <1>4 DEF StandsFor, AnswersOf
    <3>2. /\ CheckedCondition(c, request, NoOperands) = CheckedGroup(c.kind, AnswersOf(c, request, NoOperands))
          /\ CheckedCondition(d, request, NoOperands) = CheckedGroup(d.kind, AnswersOf(d, request, NoOperands))
      <4>1. c.kind # "leaf" /\ c.kind # "not"
        BY <2>1
      <4> QED BY <4>1, CheckedDefined
    <3> QED BY <2>1, <3>1, <3>2
  <2>4. MatchesCondition(c, request, NoOperands) = MatchesCondition(d, request, NoOperands)
    <3> DEFINE matches(e) == MatchesCondition(e, request, NoOperands)
    <3>1. \A i \in DOMAIN c.of : matches(c.of[i]) = matches(d.of[i])
      BY <1>4 DEF StandsFor
    <3>2. /\ matches(c) = IF c.kind = "all" THEN \A i \in DOMAIN c.of : matches(c.of[i])
                                            ELSE \E i \in DOMAIN c.of : matches(c.of[i])
          /\ matches(d) = IF c.kind = "all" THEN \A i \in DOMAIN c.of : matches(d.of[i])
                                            ELSE \E i \in DOMAIN c.of : matches(d.of[i])
      <4>1. c.kind # "leaf" /\ c.kind # "not"
        BY <2>1
      <4> QED BY <1>4, <2>1, <4>1, MatchesDefined
    <3> HIDE DEF matches
    <3>3. matches(c) = matches(d)
      BY <3>1, <3>2
    <3> QED BY <3>3 DEF matches
  <2> QED BY <1>2, <2>2, <2>3, <2>4 DEF StandsFor
<1> QED BY <1>3, <1>4

(* A group of one is replaced by what replaces its only part.              *)
LEMMA ReplacedReference ==
  ASSUME NEW request, NEW c \in TargetingCondition, NEW d \in TargetingCondition, NEW part,
         d = [kind |-> "all", of |-> <<part>>], StandsFor(c, part, request)
  PROVE  StandsFor(c, d, request) /\ Nodes(d) = 1 + Nodes(part)
PROOF
<1>1. /\ d.kind = "all" /\ d.of = <<part>> /\ DOMAIN d.of = {1} /\ d.of[1] = part
      /\ IsGroup(d) /\ Parts(d) = {part}
  BY DEF IsGroup, Parts
<1>2. part \in TargetingCondition
  BY <1>1, ConditionShape
<1>3. Nodes(d) = 1 + Nodes(part)
  <2> DEFINE counts == [i \in DOMAIN Children(d) |-> Nodes(Children(d)[i])]
  <2>1. Nodes(d) = 1 + SumFunction(counts)
    BY NodesDefined
  <2>2. DOMAIN counts = {1} /\ counts[1] = Nodes(part)
    BY <1>1, ChildrenAreParts
  <2> HIDE DEF counts
  <2>3. Nodes(part) \in Nat
    BY <1>2, NodesCounted
  <2> QED BY <2>1, <2>2, <2>3, SumOfOne
<1>4. Nodes(c) <= Nodes(d)
  BY <1>2, <1>3, NodesCounted DEF StandsFor
<1>5. LeavesOf(d) = LeavesOf(part)
  <2>1. LeavesOf(d) = UNION {LeavesOf(d.of[i]) : i \in DOMAIN d.of}
    BY <1>1, LeavesDefined
  <2> QED BY <1>1, <2>1
<1>6. MatchesCondition(d, request, NoOperands) = MatchesCondition(part, request, NoOperands)
  <2>1. MatchesCondition(d, request, NoOperands)
          = \A i \in DOMAIN d.of : MatchesCondition(d.of[i], request, NoOperands)
    BY <1>1, MatchesDefined
  <2>2. MatchesCondition(part, request, NoOperands) \in BOOLEAN
    BY <1>2, BooleanConditions
  <2> QED BY <1>1, <2>1, <2>2
<1>7. CheckedCondition(d, request, NoOperands) = CheckedCondition(part, request, NoOperands)
  <2> DEFINE answer == CheckedCondition(part, request, NoOperands)
  <2>1. CheckedCondition(d, request, NoOperands) = CheckedGroup("all", AnswersOf(d, request, NoOperands))
    BY <1>1, CheckedDefined
  <2>2. AnswersOf(d, request, NoOperands) = {answer}
    BY <1>1 DEF AnswersOf
  <2>3. answer \in BOOLEAN \cup {Undefined}
    <3>1. answer = IF Readable(part, request, NoOperands) THEN Classical(part, request, NoOperands) ELSE Undefined
      BY <1>2, NothingCached, CheckedMeaning
    <3> QED BY <1>2, <3>1, BooleanConditions
  <2> HIDE DEF answer
  <2>4. CheckedGroup("all", {answer}) = answer
    BY <2>3, ConditionsAssumption DEF CheckedGroup
  <2>5. CheckedCondition(d, request, NoOperands) = answer
    BY <2>1, <2>2, <2>4
  <2> QED BY <2>5 DEF answer
<1> QED BY <1>3, <1>4, <1>5, <1>6, <1>7 DEF StandsFor

(* What is accepted resolves, and is replaced by its expansion.            *)
Replacing(x, u, n, request) ==
  /\ n > 0 /\ Fitting(u, n - 1) /\ Fitting(x.when, n - 1)
  /\ x.nodes = Nodes(u)
  /\ StandsFor(x.when, u, request)

(* What a condition expands to replaces the one it unfolds to.             *)
LEMMA ExpansionReplaces ==
  ASSUME NEW request, NEW segments, Definitions(segments), NEW n \in 0 .. MaxDepth, NEW w \in Authored,
         NEW active \in SUBSET DOMAIN segments, Expanded(segments, n, w, active).accepted
  PROVE  Replacing(Expanded(segments, n, w, active), Unfolding(segments)[n][w], n, request)
PROOF
<1> DEFINE ok(m, c, names) ==
             Expanded(segments, m, c, names).accepted =>
               Replacing(Expanded(segments, m, c, names), Unfolding(segments)[m][c], m, request)
           S == {m \in Nat : m <= MaxDepth =>
                   \A c \in Authored : \A names \in SUBSET DOMAIN segments : ok(m, c, names)}
<1>0. MaxDepth \in Nat /\ MaxDepth <= MaxHeight + 1 /\ MaxHeight \in Nat /\ MaxChildren \in Nat \ {0}
  BY DepthAssumption, ConditionsAssumption, DocumentsAssumption
<1>1. 0 \in S
  <2>1. ASSUME NEW c \in Authored, NEW names \in SUBSET DOMAIN segments PROVE ok(0, c, names)
    <3>1. 0 \in 0 .. MaxDepth
      BY <1>0
    <3>2. Expanded(segments, 0, c, names) = Rejection
      BY <3>1, ExpandedStep
    <3> QED BY <3>2 DEF Rejection
  <2> QED BY <2>1
<1>2. ASSUME NEW m \in Nat, m \in S PROVE m + 1 \in S
  <2> SUFFICES ASSUME m + 1 <= MaxDepth, NEW c \in Authored, NEW names \in SUBSET DOMAIN segments,
                      Expanded(segments, m + 1, c, names).accepted
               PROVE  Replacing(Expanded(segments, m + 1, c, names), Unfolding(segments)[m + 1][c], m + 1, request)
    OBVIOUS
  <2> DEFINE x == Expanded(segments, m + 1, c, names)
             u == Unfolding(segments)[m + 1][c]
             part(d) == Expanded(segments, m, d, names)
             of(d) == Unfolding(segments)[m][d]
             definition == Expanded(segments, m, segments[c.name], names \cup {c.name})
  <2>0. /\ m + 1 \in 1 .. MaxDepth /\ (m + 1) - 1 = m /\ m <= MaxDepth /\ m \in 0 .. MaxHeight /\ m + 1 > 0
        /\ m > 0 => m - 1 \in 0 .. MaxHeight
    BY <1>0
  <2>a. \A d \in Authored : part(d).accepted => Replacing(part(d), of(d), m, request)
    BY <1>2, <2>0
  <2>b. c.name \in DOMAIN segments /\ definition.accepted
          => Replacing(definition, of(segments[c.name]), m, request)
    <3> SUFFICES ASSUME c.name \in DOMAIN segments
                 PROVE  definition.accepted => Replacing(definition, of(segments[c.name]), m, request)
      OBVIOUS
    <3>1. segments[c.name] \in Authored /\ names \cup {c.name} \in SUBSET DOMAIN segments
      BY DEF Definitions
    <3> QED BY <1>2, <2>0, <3>1
  <2>1. /\ IsLeafCondition(c) => x.nodes = 1 /\ x.when = c
        /\ IsReference(c) => /\ c.name \in DOMAIN segments \ names /\ definition.accepted
                             /\ x.nodes = definition.nodes + 1 /\ x.when = definition.when
        /\ IsNegation(c) => /\ part(c.of).accepted
                            /\ x.nodes = 1 + SumFunction(NodesAt(segments, m, c, names))
                            /\ x.when = [kind |-> "not", of |-> part(c.of).when]
        /\ IsGroup(c) => /\ Len(c.of) \in 1 .. MaxChildren
                         /\ \A i \in DOMAIN c.of : part(c.of[i]).accepted
                         /\ x.nodes = 1 + SumFunction(NodesAt(segments, m, c, names))
                         /\ x.when = [kind |-> c.kind, of |-> WhensAt(segments, m, c, names)]
    <3>1. MadeOfParts(segments, m + 1, m, c, names)
      BY <2>0, ExpandedParts
    <3> QED BY <3>1 DEF MadeOfParts
  <2>2. /\ IsLeafCondition(c) => u = c /\ Resolved(segments, m + 1, c)
        /\ IsReference(c) =>
             /\ c.name \in DOMAIN segments => u = [kind |-> "all", of |-> <<of(segments[c.name])>>]
             /\ Resolved(segments, m + 1, c)
                  <=> c.name \in DOMAIN segments /\ Resolved(segments, m, segments[c.name])
        /\ IsNegation(c) =>
             /\ u = [kind |-> "not", of |-> of(c.of)]
             /\ Resolved(segments, m + 1, c) <=> Resolved(segments, m, c.of)
        /\ IsGroup(c) =>
             /\ u = [kind |-> c.kind, of |-> [i \in DOMAIN c.of |-> of(c.of[i])]]
             /\ Resolved(segments, m + 1, c) <=> /\ Len(c.of) \in 1 .. MaxChildren
                                                 /\ \A i \in DOMAIN c.of : Resolved(segments, m, c.of[i])
    BY <2>0, ResolvedParts
  <2>3. \A d : Resolved(segments, m, d) <=> m > 0 /\ Fitting(of(d), m - 1)
    BY DEF Resolved
  <2>4. Resolved(segments, m + 1, c) <=> Fitting(u, m)
    BY <2>0 DEF Resolved
  <2>5. ASSUME NEW d, NEW k \in 0 .. MaxHeight, Fitting(d, k) PROVE d \in TargetingCondition
    BY <2>5, LevelsGrow DEF Fitting
  <2>6. SUFFICES /\ Fitting(u, m) /\ Fitting(x.when, m)
                 /\ x.nodes = Nodes(u) /\ StandsFor(x.when, u, request)
    BY <2>0 DEF Replacing
  <2> HIDE DEF x, u, part, of, definition
  <2>7. CASE IsLeafCondition(c)
    <3>1. x.when = c /\ u = c /\ x.nodes = 1 /\ Fitting(u, m)
      BY <2>1, <2>2, <2>4, <2>7
    <3>2. Nodes(c) = 1
      BY <2>0, <2>5, <2>7, <3>1, NodesCounted
    <3>3. StandsFor(c, c, request)
      BY <3>2 DEF StandsFor
    <3> QED BY <3>1, <3>2, <3>3
  <2>8. CASE IsReference(c)
    <3> DEFINE d == of(segments[c.name])
    <3>1. /\ c.name \in DOMAIN segments /\ x.nodes = definition.nodes + 1 /\ x.when = definition.when
          /\ u = [kind |-> "all", of |-> <<d>>]
          /\ Replacing(definition, d, m, request)
      BY <2>1, <2>2, <2>8, <2>b
    <3>2. /\ m > 0 /\ Fitting(d, m - 1) /\ Fitting(x.when, m - 1) /\ definition.nodes = Nodes(d)
          /\ StandsFor(x.when, d, request)
      BY <3>1 DEF Replacing
    <3>3. Fitting(u, m)
      BY <2>2, <2>3, <2>4, <2>8, <3>1, <3>2
    <3>4. Fitting(x.when, m)
      <4>1. m - 1 \in 0 .. MaxHeight /\ m - 1 < MaxHeight /\ (m - 1) + 1 = m
        BY <1>0, <2>0, <3>2
      <4> QED BY <3>2, <4>1, LevelShape DEF Fitting
    <3>5. u \in TargetingCondition /\ x.when \in TargetingCondition /\ d \in TargetingCondition
      BY <2>0, <2>5, <3>2, <3>3, <3>4
    <3> HIDE DEF d
    <3>6. StandsFor(x.when, u, request) /\ Nodes(u) = 1 + Nodes(d)
      BY <3>1, <3>2, <3>5, ReplacedReference
    <3>7. x.nodes = Nodes(u)
      BY <3>1, <3>2, <3>5, <3>6, NodesCounted
    <3> QED BY <3>3, <3>4, <3>6, <3>7
  <2>9. CASE IsNegation(c)
    <3> DEFINE d == of(c.of)
               y == part(c.of)
    <3>0. NodesAt(segments, m, c, names) = [i \in {1} |-> y.nodes]
      BY <2>9, AuthoredShape DEF NodesAt, part
    <3>1. /\ x.nodes = 1 + SumFunction([i \in {1} |-> y.nodes])
          /\ x.when = [kind |-> "not", of |-> y.when]
          /\ u = [kind |-> "not", of |-> d]
          /\ Replacing(y, d, m, request)
      BY <2>1, <2>2, <2>9, <2>a, <3>0, AuthoredShape
    <3> HIDE DEF d, y
    <3>2. /\ m > 0 /\ Fitting(d, m - 1) /\ Fitting(y.when, m - 1) /\ y.nodes = Nodes(d)
          /\ StandsFor(y.when, d, request)
      BY <3>1 DEF Replacing
    <3>3. /\ IsNegation(u) /\ ~IsGroup(u) /\ u.of = d /\ Parts(u) = {d}
          /\ IsNegation(x.when) /\ ~IsGroup(x.when) /\ x.when.of = y.when /\ Parts(x.when) = {y.when}
          /\ x.when.kind = u.kind
      BY <3>1 DEF IsNegation, IsGroup, Parts
    <3>4. Fitting(u, m) /\ Fitting(x.when, m)
      BY <2>0, <3>2, <3>3, FittingParts
    <3>5. u \in TargetingCondition /\ x.when \in TargetingCondition
      BY <2>0, <2>5, <3>4
    <3>6. StandsFor(x.when, u, request)
      BY <3>2, <3>3, <3>5, ReplacedParts
    <3>7. x.nodes = Nodes(u)
      <4>1. Nodes(u) = 1 + SumFunction([i \in DOMAIN Children(u) |-> Nodes(Children(u)[i])])
        BY <3>5, NodesDefined
      <4>2. [i \in DOMAIN Children(u) |-> Nodes(Children(u)[i])] = [i \in {1} |-> y.nodes]
        BY <3>2, <3>3, <3>5, ChildrenAreParts
      <4> QED BY <3>1, <4>1, <4>2
    <3> QED BY <3>4, <3>6, <3>7
  <2>10. CASE IsGroup(c)
    <3> DEFINE D == DOMAIN c.of
               whens == [i \in D |-> part(c.of[i]).when]
               ofs == [i \in D |-> of(c.of[i])]
               counts == [i \in D |-> part(c.of[i]).nodes]
    <3>0. NodesAt(segments, m, c, names) = counts /\ WhensAt(segments, m, c, names) = whens
      BY <2>10, AuthoredShape DEF NodesAt, WhensAt, part
    <3>1. /\ Len(c.of) \in 1 .. MaxChildren /\ D = 1 .. Len(c.of) /\ c.kind \in {"all", "any"}
          /\ x.nodes = 1 + SumFunction(counts)
          /\ x.when = [kind |-> c.kind, of |-> whens]
          /\ u = [kind |-> c.kind, of |-> ofs]
      BY <2>1, <2>2, <2>10, <3>0 DEF IsGroup
    <3>2. \A i \in D : Replacing(part(c.of[i]), of(c.of[i]), m, request)
      BY <2>1, <2>10, <2>a, AuthoredShape
    <3>3. /\ m > 0
          /\ \A i \in D : /\ Fitting(ofs[i], m - 1) /\ Fitting(whens[i], m - 1)
                          /\ counts[i] = Nodes(ofs[i]) /\ StandsFor(whens[i], ofs[i], request)
      <4>1. 1 \in D
        BY <1>0, <3>1
      <4> QED BY <3>2, <4>1 DEF Replacing
    <3>4. /\ DOMAIN whens = D /\ DOMAIN ofs = D /\ Len(whens) = Len(c.of) /\ Len(ofs) = Len(c.of)
          /\ whens = [i \in D |-> whens[i]] /\ ofs = [i \in D |-> ofs[i]]
          /\ counts = [i \in D |-> counts[i]]
      BY <3>1
    <3> HIDE DEF whens, ofs, counts, D
    <3>5. /\ IsGroup(u) /\ u.of = ofs /\ Parts(u) = {ofs[i] : i \in D}
          /\ IsGroup(x.when) /\ x.when.of = whens /\ Parts(x.when) = {whens[i] : i \in D}
          /\ x.when.kind = u.kind
      BY <3>1, <3>4 DEF IsGroup, Parts
    <3>6. Fitting(u, m) /\ Fitting(x.when, m)
      <4>1. u.of = [i \in DOMAIN u.of |-> u.of[i]] /\ x.when.of = [i \in DOMAIN x.when.of |-> x.when.of[i]]
        BY <3>4, <3>5
      <4>2. Len(u.of) \in 1 .. MaxChildren /\ Len(x.when.of) \in 1 .. MaxChildren
        BY <3>1, <3>4, <3>5
      <4>3. /\ \A p \in Parts(u) : Fitting(p, m - 1)
            /\ \A p \in Parts(x.when) : Fitting(p, m - 1)
        BY <3>3, <3>5
      <4> QED BY <2>0, <3>3, <3>5, <4>1, <4>2, <4>3, FittingParts
    <3>7. u \in TargetingCondition /\ x.when \in TargetingCondition
      BY <2>0, <2>5, <3>6
    <3>8. StandsFor(x.when, u, request)
      BY <3>3, <3>4, <3>5, <3>7, ReplacedParts
    <3>9. x.nodes = Nodes(u)
      <4>1. Nodes(u) = 1 + SumFunction([i \in DOMAIN Children(u) |-> Nodes(Children(u)[i])])
        BY <3>7, NodesDefined
      <4>2. Children(u) = ofs
        BY <3>5, <3>7, ChildrenAreParts
      <4>3. [i \in DOMAIN ofs |-> Nodes(ofs[i])] = counts
        BY <3>3, <3>4
      <4> QED BY <3>1, <4>1, <4>2, <4>3
    <3> QED BY <3>6, <3>8, <3>9
  <2> QED BY <2>7, <2>8, <2>9, <2>10, AuthoredShape
<1>3. n \in S
  <2> HIDE DEF S
  <2> QED BY <1>1, <1>2, NaturalInduction
<1> QED BY <1>3

(* A definition being expanded resolves no sooner than what is met on the  *)
(* way: otherwise its own expansion would never end.                       *)
Separate(segments, w, active) ==
  \A name \in active : \A j \in 0 .. MaxDepth :
    Resolved(segments, j, segments[name]) => \E i \in 0 .. j : Resolved(segments, i, w)

(* It is so for the parts of a condition, which resolve sooner.            *)
LEMMA SeparateParts ==
  ASSUME NEW segments, Definitions(segments), NEW w \in Authored, NEW part \in Authored,
         NEW active \in SUBSET DOMAIN segments, Separate(segments, w, active),
         \A i \in 1 .. MaxDepth : Resolved(segments, i, w) => Resolved(segments, i - 1, part)
  PROVE  Separate(segments, part, active)
PROOF
<1> SUFFICES ASSUME NEW name \in active, NEW j \in 0 .. MaxDepth, Resolved(segments, j, segments[name])
             PROVE  \E i \in 0 .. j : Resolved(segments, i, part)
  BY DEF Separate
<1>0. MaxDepth \in Nat
  BY DepthAssumption, ConditionsAssumption
<1>1. PICK i \in 0 .. j : Resolved(segments, i, w)
  BY DEF Separate
<1>2. i > 0
  BY <1>1 DEF Resolved
<1>3. i \in 1 .. MaxDepth /\ i - 1 \in 0 .. j
  BY <1>0, <1>2
<1> QED BY <1>1, <1>3

(* What resolves is accepted.                                              *)
LEMMA ExpansionAccepts ==
  ASSUME NEW segments, Definitions(segments), NEW n \in 0 .. MaxDepth, NEW w \in Authored,
         NEW active \in SUBSET DOMAIN segments,
         Resolved(segments, n, w), Separate(segments, w, active)
  PROVE  Expanded(segments, n, w, active).accepted
PROOF
<1> DEFINE ok(m, c, names) == Resolved(segments, m, c) /\ Separate(segments, c, names)
                                => Expanded(segments, m, c, names).accepted
           S == {m \in Nat : m <= MaxDepth =>
                   \A c \in Authored : \A names \in SUBSET DOMAIN segments : ok(m, c, names)}
<1>0. MaxDepth \in Nat /\ MaxChildren \in Nat \ {0}
  BY DepthAssumption, ConditionsAssumption, DocumentsAssumption
<1>1. 0 \in S
  BY DEF Resolved
<1>2. ASSUME NEW m \in Nat, m \in S PROVE m + 1 \in S
  <2> SUFFICES ASSUME m + 1 <= MaxDepth, NEW c \in Authored, NEW names \in SUBSET DOMAIN segments,
                      Resolved(segments, m + 1, c), Separate(segments, c, names)
               PROVE  Expanded(segments, m + 1, c, names).accepted
    OBVIOUS
  <2>0. m + 1 \in 1 .. MaxDepth /\ m + 1 \in 0 .. MaxDepth /\ m = (m + 1) - 1 /\ m <= MaxDepth
    BY <1>0
  <2>a. ASSUME NEW d \in Authored, NEW more \in SUBSET DOMAIN segments,
               Resolved(segments, m, d), Separate(segments, d, more)
        PROVE  Expanded(segments, m, d, more).accepted
    BY <1>2, <2>0, <2>a
  <2>1. MadeOfParts(segments, m + 1, m, c, names)
    BY <2>0, ExpandedParts
  <2>2. ASSUME NEW k \in 1 .. MaxDepth, Resolved(segments, k, c)
        PROVE  /\ IsReference(c) => /\ c.name \in DOMAIN segments
                                    /\ Resolved(segments, k - 1, segments[c.name])
               /\ IsNegation(c) => Resolved(segments, k - 1, c.of)
               /\ IsGroup(c) => /\ Len(c.of) \in 1 .. MaxChildren
                                /\ \A i \in DOMAIN c.of : Resolved(segments, k - 1, c.of[i])
    BY <2>2, ResolvedParts
  <2>3. CASE IsLeafCondition(c)
    BY <2>1, <2>3 DEF MadeOfParts
  <2>4. CASE IsReference(c)
    <3>1. c.name \in DOMAIN segments /\ Resolved(segments, m, segments[c.name])
      BY <2>0, <2>2, <2>4
    <3>2. segments[c.name] \in Authored /\ names \cup {c.name} \in SUBSET DOMAIN segments
      BY <3>1 DEF Definitions
    <3>3. \A k \in 1 .. MaxDepth : Resolved(segments, k, c) => Resolved(segments, k - 1, segments[c.name])
      BY <2>2, <2>4
    <3>4. c.name \notin names
      <4> SUFFICES ASSUME c.name \in names PROVE FALSE
        OBVIOUS
      <4> DEFINE T == {k \in Nat : k <= MaxDepth /\ Resolved(segments, k, segments[c.name])}
      <4>1. T \in SUBSET Nat /\ m \in T
        BY <2>0, <3>1
      <4> DEFINE least == Min(T)
      <4>2. least \in T /\ \A k \in T : least <= k
        <5> HIDE DEF T
        <5> QED BY <4>1, LeastOfNaturals
      <4> HIDE DEF least
      <4>3. least \in 0 .. MaxDepth /\ Resolved(segments, least, segments[c.name])
        BY <1>0, <4>2
      <4>4. PICK i \in 0 .. least : Resolved(segments, i, c)
        BY <4>3 DEF Separate
      <4>5. i > 0
        BY <4>4 DEF Resolved
      <4>6. i \in 1 .. MaxDepth
        BY <1>0, <4>3, <4>5
      <4>7. Resolved(segments, i - 1, segments[c.name])
        BY <3>3, <4>4, <4>6
      <4>8. i - 1 \in T /\ i - 1 < least
        BY <1>0, <4>3, <4>6, <4>7
      <4> QED BY <4>2, <4>3, <4>6, <4>8
    <3>5. Separate(segments, segments[c.name], names)
      BY <3>2, <3>3, SeparateParts
    <3>6. Separate(segments, segments[c.name], names \cup {c.name})
      <4>1. ASSUME NEW name \in names \cup {c.name}, NEW j \in 0 .. MaxDepth,
                   Resolved(segments, j, segments[name])
            PROVE  \E i \in 0 .. j : Resolved(segments, i, segments[c.name])
        <5>1. CASE name \in names
          BY <3>5, <4>1, <5>1 DEF Separate
        <5>2. CASE name = c.name
          <6>1. j \in 0 .. j
            BY <1>0
          <6> QED BY <4>1, <5>2, <6>1
        <5> QED BY <5>1, <5>2
      <4> QED BY <4>1 DEF Separate
    <3>7. Expanded(segments, m, segments[c.name], names \cup {c.name}).accepted
      BY <2>a, <3>1, <3>2, <3>6
    <3> QED BY <2>1, <2>4, <3>1, <3>4, <3>7 DEF MadeOfParts
  <2>5. CASE IsNegation(c)
    <3>1. c.of \in Authored
      BY <2>5, AuthoredShape
    <3>2. Resolved(segments, m, c.of) /\ Separate(segments, c.of, names)
      BY <2>0, <2>2, <2>5, <3>1, SeparateParts
    <3>3. Expanded(segments, m, c.of, names).accepted
      BY <2>a, <3>1, <3>2
    <3> QED BY <2>1, <2>5, <3>3 DEF MadeOfParts
  <2>6. CASE IsGroup(c)
    <3>1. Len(c.of) \in 1 .. MaxChildren
      BY <2>0, <2>2, <2>6
    <3>2. ASSUME NEW i \in DOMAIN c.of PROVE Expanded(segments, m, c.of[i], names).accepted
      <4>1. c.of[i] \in Authored
        BY <2>6, AuthoredShape
      <4>2. Resolved(segments, m, c.of[i]) /\ Separate(segments, c.of[i], names)
        BY <2>0, <2>2, <2>6, <4>1, SeparateParts
      <4> QED BY <2>a, <4>1, <4>2
    <3> QED BY <2>1, <2>6, <3>1, <3>2 DEF MadeOfParts
  <2> QED BY <2>3, <2>4, <2>5, <2>6, AuthoredShape
<1>3. n \in S
  <2> HIDE DEF S
  <2> QED BY <1>1, <1>2, NaturalInduction
<1> QED BY <1>3

-----------------------------------------------------------------------------
(* Expanding a condition of a document in one pass, with the references on *)
(* the way, succeeds exactly if the condition with every reference         *)
(* replaced is a valid one, of as many nodes; the result matches alike     *)
(* (compile: expand).                                                      *)
THEOREM AcceptableExpands ==
  ASSUME NEW request, NEW segments, Definitions(segments), NEW w \in Authored,
         NEW active \in SUBSET DOMAIN segments, Separate(segments, w, active)
  PROVE  LET x == Expand(segments, w, active)
             u == Unfolded(segments, w)
         IN
         /\ Acceptable(segments, w) <=> Expands(x) /\ ValidCondition(x.when)
         /\ Expands(x) => /\ x.when \in TargetingCondition
                          /\ x.nodes = Nodes(u)
                          /\ StandsFor(x.when, u, request)
                          /\ ValidCondition(x.when) <=> ValidCondition(u)
PROOF
<1> DEFINE x == Expand(segments, w, active)
           u == Unfolded(segments, w)
<1>0. /\ MaxDepth \in 0 .. MaxDepth /\ MaxDepth > 0 /\ MaxDepth - 1 \in 0 .. MaxHeight
      /\ MaxNodes \in Nat
  BY DepthAssumption, ConditionsAssumption, DocumentsAssumption
<1>1. x = Expanded(segments, MaxDepth, w, active) /\ u = Unfolding(segments)[MaxDepth][w]
  BY DEF Expand, Expanded, Unfolded
<1>2. Resolved(segments, MaxDepth, w) <=> Fitting(u, MaxDepth - 1)
  BY <1>0, <1>1 DEF Resolved
<1>3. Acceptable(segments, w) <=> u \in TargetingCondition /\ ValidCondition(u)
  BY DEF Acceptable
<1> HIDE DEF x, u
<1>4. ASSUME x.accepted
      PROVE  /\ Fitting(u, MaxDepth - 1) /\ Fitting(x.when, MaxDepth - 1)
             /\ x.nodes = Nodes(u) /\ StandsFor(x.when, u, request)
             /\ u \in TargetingCondition /\ x.when \in TargetingCondition
  <2>1. Replacing(x, u, MaxDepth, request)
    BY <1>0, <1>1, <1>4, ExpansionReplaces
  <2>2. /\ Fitting(u, MaxDepth - 1) /\ Fitting(x.when, MaxDepth - 1)
        /\ x.nodes = Nodes(u) /\ StandsFor(x.when, u, request)
    BY <2>1 DEF Replacing
  <2> QED BY <1>0, <2>2, LevelsGrow DEF Fitting
<1>5. ASSUME u \in TargetingCondition, ValidCondition(u) PROVE Expands(x)
  <2>1. Fitting(u, MaxDepth - 1) /\ Nodes(u) <= MaxNodes
    BY <1>5 DEF ValidCondition, Fitting
  <2>2. x.accepted
    BY <1>0, <1>1, <1>2, <2>1, ExpansionAccepts
  <2>3. x.nodes = Nodes(u)
    BY <1>4, <2>2
  <2> QED BY <2>1, <2>2, <2>3 DEF Expands
<1>6. ASSUME Expands(x)
      PROVE  /\ x.when \in TargetingCondition /\ u \in TargetingCondition
             /\ x.nodes = Nodes(u) /\ StandsFor(x.when, u, request)
             /\ ValidCondition(x.when) <=> ValidCondition(u)
  <2>1. x.accepted /\ x.nodes <= MaxNodes
    BY <1>6 DEF Expands
  <2>2. /\ Fitting(u, MaxDepth - 1) /\ Fitting(x.when, MaxDepth - 1)
        /\ x.nodes = Nodes(u) /\ StandsFor(x.when, u, request)
        /\ u \in TargetingCondition /\ x.when \in TargetingCondition
    BY <1>4, <2>1
  <2>3. Nodes(x.when) \in Nat /\ Nodes(u) \in Nat
    BY <2>2, NodesCounted
  <2>4. Nodes(u) <= MaxNodes /\ Nodes(x.when) <= MaxNodes
    BY <1>0, <2>1, <2>2, <2>3 DEF StandsFor
  <2>5. ValidCondition(x.when) <=> ValidCondition(u)
    BY <2>2, <2>4 DEF ValidCondition, Fitting, StandsFor
  <2> QED BY <2>2, <2>5
<1>7. Acceptable(segments, w) <=> Expands(x) /\ ValidCondition(x.when)
  BY <1>3, <1>5, <1>6
<1> QED BY <1>6, <1>7 DEF x, u

(* Every definition is looked at, with itself on the way.                  *)
LEMMA DefinitionsAcceptable ==
  ASSUME NEW segments, Definitions(segments)
  PROVE  DefinitionsHold(segments) <=> \A name \in DOMAIN segments : Acceptable(segments, segments[name])
PROOF
<1>1. ASSUME NEW name \in DOMAIN segments
      PROVE  Acceptable(segments, segments[name])
               <=> /\ Expands(Expand(segments, segments[name], {name}))
                   /\ ValidCondition(Expand(segments, segments[name], {name}).when)
  <2>1. segments[name] \in Authored /\ {name} \in SUBSET DOMAIN segments
    BY DEF Definitions
  <2>2. Separate(segments, segments[name], {name})
    <3>1. ASSUME NEW j \in 0 .. MaxDepth PROVE j \in 0 .. j
      BY DepthAssumption, ConditionsAssumption
    <3> QED BY <3>1 DEF Separate
  <2> QED BY <2>1, <2>2, AcceptableExpands
<1> QED BY <1>1 DEF DefinitionsHold

(* A flag with other conditions for its rules.                             *)
FlagWith(flag, other, F) ==
  /\ DOMAIN other = {"type", "variants", "defaultVariant", "rollout", "envVar", "rules",
                     "disabledVariant", "schedule", "unknownField"}
  /\ other.type = flag.type /\ other.variants = flag.variants
  /\ other.defaultVariant = flag.defaultVariant /\ other.rollout = flag.rollout
  /\ other.envVar = flag.envVar /\ other.disabledVariant = flag.disabledVariant
  /\ other.schedule = flag.schedule /\ other.unknownField = flag.unknownField
  /\ IsSequence(other.rules) /\ DOMAIN other.rules = DOMAIN flag.rules
  /\ Len(other.rules) = Len(flag.rules)
  /\ \A i \in DOMAIN flag.rules :
       LET rule == flag.rules[i]  made == other.rules[i] IN
       /\ DOMAIN made = {"id", "when", "variant", "rollout"}
       /\ made.id = rule.id /\ made.variant = rule.variant /\ made.rollout = rule.rollout
       /\ made.when = F[rule.when]

(* A snapshot with other conditions is otherwise the same.                 *)
LEMMA WithConditionsIs ==
  ASSUME NEW snapshot, NEW F, IsSnapshotOf(snapshot, Authored)
  PROVE  LET made == WithConditions(snapshot, F) IN
         /\ DOMAIN made = {"ownData", "schemaVersion", "validated", "flags"}
         /\ made.ownData = snapshot.ownData /\ made.schemaVersion = snapshot.schemaVersion
         /\ made.validated = snapshot.validated
         /\ DOMAIN made.flags = DOMAIN snapshot.flags
         /\ \A key \in DOMAIN snapshot.flags : FlagWith(snapshot.flags[key], made.flags[key], F)
PROOF
<1> DEFINE rulesOf(flag) == [i \in DOMAIN flag.rules |-> [flag.rules[i] EXCEPT !.when = F[flag.rules[i].when]]]
           flagOf(flag) == [flag EXCEPT !.rules = rulesOf(flag)]
           flags == [key \in DOMAIN snapshot.flags |-> flagOf(snapshot.flags[key])]
           made == WithConditions(snapshot, F)
<1>1. made = [snapshot EXCEPT !.flags = flags]
  BY DEF WithConditions
<1>2. ASSUME NEW flag, IsFlagOf(flag, Authored) PROVE FlagWith(flag, flagOf(flag), F)
  <2> DEFINE rules == rulesOf(flag)
  <2>1. /\ IsSequence(flag.rules)
        /\ \A i \in DOMAIN flag.rules : DOMAIN flag.rules[i] = {"id", "when", "variant", "rollout"}
        /\ DOMAIN flag = {"type", "variants", "defaultVariant", "rollout", "envVar", "rules",
                          "disabledVariant", "schedule", "unknownField"}
    BY <1>2 DEF IsFlagOf, IsRuleOf
  <2>2. DOMAIN rules = DOMAIN flag.rules /\ rules = [i \in DOMAIN flag.rules |-> rules[i]]
    OBVIOUS
  <2>3. ASSUME NEW i \in DOMAIN flag.rules
        PROVE  /\ DOMAIN rules[i] = {"id", "when", "variant", "rollout"}
               /\ rules[i].id = flag.rules[i].id /\ rules[i].variant = flag.rules[i].variant
               /\ rules[i].rollout = flag.rules[i].rollout /\ rules[i].when = F[flag.rules[i].when]
    BY <2>1
  <2>4. flagOf(flag) = [flag EXCEPT !.rules = rules]
    OBVIOUS
  <2> HIDE DEF rules, flagOf
  <2>5. IsSequence(rules) /\ Len(rules) = Len(flag.rules)
    BY <2>1, <2>2, MappedSequence
  <2> QED BY <2>1, <2>2, <2>3, <2>4, <2>5 DEF FlagWith
<1>3. \A key \in DOMAIN snapshot.flags : IsFlagOf(snapshot.flags[key], Authored)
  BY DEF IsSnapshotOf
<1> HIDE DEF flagOf
<1>4. /\ DOMAIN flags = DOMAIN snapshot.flags
      /\ \A key \in DOMAIN snapshot.flags : FlagWith(snapshot.flags[key], flags[key], F)
  BY <1>2, <1>3
<1> HIDE DEF flags, made
<1>5. /\ DOMAIN made = {"ownData", "schemaVersion", "validated", "flags"}
      /\ made.ownData = snapshot.ownData /\ made.schemaVersion = snapshot.schemaVersion
      /\ made.validated = snapshot.validated /\ made.flags = flags
  BY <1>1 DEF IsSnapshotOf
<1> QED BY <1>4, <1>5 DEF made

(* The conditions of the rules of a snapshot.                              *)
WhensOf(snapshot) ==
  {w \in Authored : \E key \in DOMAIN snapshot.flags :
                      \E i \in DOMAIN snapshot.flags[key].rules : w = snapshot.flags[key].rules[i].when}

(* Whether it is valid depends on whether its conditions are.              *)
LEMMA ValidWithConditions ==
  ASSUME NEW snapshot, IsSnapshotOf(snapshot, Authored), snapshot.schemaVersion = 2, NEW F, NEW G,
         \A w \in WhensOf(snapshot) : ValidCondition(F[w]) => ValidCondition(G[w]),
         ValidSnapshot(WithConditions(snapshot, F))
  PROVE  ValidSnapshot(WithConditions(snapshot, G))
PROOF
<1> DEFINE one == WithConditions(snapshot, F)
           other == WithConditions(snapshot, G)
<1>1. /\ one.ownData = snapshot.ownData /\ one.schemaVersion = 2
      /\ DOMAIN one.flags = DOMAIN snapshot.flags
      /\ \A key \in DOMAIN snapshot.flags : FlagWith(snapshot.flags[key], one.flags[key], F)
  BY WithConditionsIs
<1>2. /\ other.ownData = snapshot.ownData /\ other.schemaVersion = 2
      /\ DOMAIN other.flags = DOMAIN snapshot.flags
      /\ \A key \in DOMAIN snapshot.flags : FlagWith(snapshot.flags[key], other.flags[key], G)
  BY WithConditionsIs
<1>3. ValidSnapshot(one)
  OBVIOUS
<1> HIDE DEF one, other
<1>4. ASSUME NEW key \in DOMAIN snapshot.flags PROVE NonBlank(key) /\ ValidFlag(other.flags[key], 2)
  <2> DEFINE flag == snapshot.flags[key]
             f == one.flags[key]
             g == other.flags[key]
  <2>1. NonBlank(key) /\ ValidFlag(f, 2)
    BY <1>1, <1>3 DEF ValidSnapshot
  <2>2. FlagWith(flag, f, F) /\ FlagWith(flag, g, G) /\ IsFlagOf(flag, Authored)
    BY <1>1, <1>2 DEF IsSnapshotOf
  <2>3. \A i \in DOMAIN flag.rules : ValidCondition(F[flag.rules[i].when]) => ValidCondition(G[flag.rules[i].when])
    BY <2>2 DEF WhensOf, IsFlagOf, IsRuleOf
  <2> HIDE DEF flag, f, g
  <2>4. ValidRules(f.rules, f.variants)
    BY <2>1 DEF ValidFlag
  <2>5. /\ DOMAIN g.rules = DOMAIN f.rules /\ Len(g.rules) = Len(f.rules) /\ g.variants = f.variants
        /\ \A i \in DOMAIN f.rules :
             /\ g.rules[i].id = f.rules[i].id /\ g.rules[i].variant = f.rules[i].variant
             /\ g.rules[i].rollout = f.rules[i].rollout
             /\ ValidCondition(f.rules[i].when) => ValidCondition(g.rules[i].when)
    BY <2>2, <2>3 DEF FlagWith
  <2>6. ValidRules(g.rules, g.variants)
    <3>1. [i \in DOMAIN g.rules |-> g.rules[i].id] = [i \in DOMAIN f.rules |-> f.rules[i].id]
      BY <2>5
    <3>2. \A i \in DOMAIN g.rules : ValidRule(g.rules[i], g.variants)
      BY <2>4, <2>5 DEF ValidRules, ValidRule
    <3> QED BY <2>4, <2>5, <3>1, <3>2 DEF ValidRules
  <2>7. /\ g.type = f.type /\ g.variants = f.variants /\ g.defaultVariant = f.defaultVariant
        /\ g.rollout = f.rollout /\ g.envVar = f.envVar /\ g.disabledVariant = f.disabledVariant
        /\ g.schedule = f.schedule /\ g.unknownField = f.unknownField
    BY <2>2 DEF FlagWith
  <2>8. ValidFlag(g, 2)
    BY <2>1, <2>6, <2>7 DEF ValidFlag
  <2> QED BY <2>1, <2>8 DEF g
<1>5. ValidSnapshot(other)
  BY <1>1, <1>2, <1>3, <1>4 DEF ValidSnapshot
<1> QED BY <1>5 DEF other

(* Snapshots alike in version and origin decide a schedule alike.          *)
LEMMA ByScheduleSame ==
  ASSUME NEW one, NEW other, other.schemaVersion = one.schemaVersion, other.validated = one.validated,
         NEW flag, NEW same, NEW request, FlagAlike(flag, same, request)
  PROVE  BySchedule(one, flag, request) = BySchedule(other, same, request)
PROOF
<1> DEFINE selection == SelectScheduledVariant(flag.schedule, request.time, BucketsOf(request), one.validated)
<1>1. same.schedule = flag.schedule
  BY DEF FlagAlike
<1>2. CASE one.schemaVersion # 2 \/ flag.schedule = Undefined
  BY <1>1, <1>2, ByRolloutAlike DEF BySchedule
<1>3. CASE ~(one.schemaVersion # 2 \/ flag.schedule = Undefined)
  <2>1. CASE ~ValidScheduleTime(request.time) \/ ~HasKey(request)
    BY <1>1, <1>3, <2>1 DEF BySchedule
  <2>2. CASE ~(~ValidScheduleTime(request.time) \/ ~HasKey(request))
    <3>1. BySchedule(one, flag, request) =
            [FromSelection(flag, request, selection, "STATIC") EXCEPT !.schedule = selection.schedule]
      BY <1>3, <2>2 DEF BySchedule
    <3>2. BySchedule(other, same, request) =
            [FromSelection(same, request, selection, "STATIC") EXCEPT !.schedule = selection.schedule]
      BY <1>1, <1>3, <2>2 DEF BySchedule
    <3>3. FromSelection(flag, request, selection, "STATIC") = FromSelection(same, request, selection, "STATIC")
      BY SelectedFromVariants DEF FlagAlike
    <3> QED BY <3>1, <3>2, <3>3
  <2> QED BY <2>1, <2>2
<1> QED BY <1>2, <1>3

(* Conditions that match the same requests lead to the same rule.          *)
LEMMA ByRulesWith ==
  ASSUME NEW one, NEW other, other.schemaVersion = one.schemaVersion, other.validated = one.validated,
         NEW flag, IsFlagOf(flag, Authored), NEW F, NEW G, NEW f, NEW g,
         FlagWith(flag, f, F), FlagWith(flag, g, G), NEW request,
         \A i \in DOMAIN flag.rules :
           MatchesCondition(F[flag.rules[i].when], request, NoOperands)
             = MatchesCondition(G[flag.rules[i].when], request, NoOperands)
  PROVE  ByRules(one, f, request, NoOperands) = ByRules(other, g, request, NoOperands)
PROOF
<1> DEFINE rules == RulesOf(one, f)
           others == RulesOf(other, g)
           matched == Matched(one, f, request, NoOperands)
           again == Matched(other, g, request, NoOperands)
           first == FirstMatch(rules, matched)
           chosen == IF first \in DOMAIN rules THEN ByRule(f, request, rules[first])
                                               ELSE BySchedule(one, f, request)
           same == IF first \in DOMAIN others THEN ByRule(g, request, others[first])
                                              ELSE BySchedule(other, g, request)
<1>1. FlagAlike(f, g, request)
  BY DEF FlagWith, FlagAlike, RolloutAlike
<1>2. /\ DOMAIN g.rules = DOMAIN f.rules /\ Len(g.rules) = Len(f.rules)
      /\ \A i \in DOMAIN f.rules :
           /\ RuleAlike(f.rules[i], g.rules[i], request)
           /\ MatchesCondition(f.rules[i].when, request, NoOperands)
                = MatchesCondition(g.rules[i].when, request, NoOperands)
  <2>1. DOMAIN f.rules = DOMAIN flag.rules /\ DOMAIN g.rules = DOMAIN flag.rules
        /\ Len(g.rules) = Len(f.rules)
    BY DEF FlagWith
  <2>2. ASSUME NEW i \in DOMAIN flag.rules
        PROVE  /\ RuleAlike(f.rules[i], g.rules[i], request)
               /\ f.rules[i].when = F[flag.rules[i].when] /\ g.rules[i].when = G[flag.rules[i].when]
    BY DEF FlagWith, RuleAlike, RolloutAlike
  <2>3. ASSUME NEW i \in DOMAIN flag.rules
        PROVE  MatchesCondition(f.rules[i].when, request, NoOperands)
                 = MatchesCondition(g.rules[i].when, request, NoOperands)
    BY <2>2
  <2> QED BY <2>1, <2>2, <2>3
<1>3. /\ DOMAIN others = DOMAIN rules /\ Len(others) = Len(rules)
      /\ \A i \in DOMAIN rules :
           /\ RuleAlike(rules[i], others[i], request)
           /\ MatchesCondition(rules[i].when, request, NoOperands)
                = MatchesCondition(others[i].when, request, NoOperands)
  <2>1. CASE one.schemaVersion = 2
    BY <1>2, <2>1 DEF RulesOf
  <2>2. CASE one.schemaVersion # 2
    <3>1. rules = <<>> /\ others = <<>>
      BY <2>2 DEF RulesOf
    <3>2. DOMAIN rules = {}
      BY <3>1
    <3> HIDE DEF rules, others
    <3> QED BY <3>1, <3>2
  <2> QED BY <2>1, <2>2
<1> HIDE DEF rules, others
<1>5. matched = again
  <2>1. matched = [i \in DOMAIN rules |-> MatchesCondition(rules[i].when, request, NoOperands)]
    BY DEF Matched, rules
  <2>2. again = [i \in DOMAIN others |-> MatchesCondition(others[i].when, request, NoOperands)]
    BY DEF Matched, others
  <2> HIDE DEF matched, again
  <2> QED BY <1>3, <2>1, <2>2
<1>6. FirstMatch(others, again) = first
  <2> HIDE DEF matched, again
  <2> QED BY <1>3, <1>5 DEF FirstMatch
<1>7. chosen = same
  <2>1. BySchedule(one, f, request) = BySchedule(other, g, request)
    BY <1>1, ByScheduleSame
  <2>2. ASSUME NEW i \in DOMAIN rules
        PROVE  ByRule(f, request, rules[i]) = ByRule(g, request, others[i])
    BY <1>1, <1>3, ByRuleAlike
  <2> HIDE DEF first
  <2> QED BY <1>3, <2>1, <2>2
<1>8. ByRules(one, f, request, NoOperands) =
        [chosen EXCEPT !.trace = SubSeq(matched, 1, Min({first, Len(rules)}))]
  BY ByRulesMeans DEF rules
<1>9. ByRules(other, g, request, NoOperands) =
        [same EXCEPT !.trace = SubSeq(again, 1, Min({first, Len(others)}))]
  <2> DEFINE start == FirstMatch(others, again)
  <2>1. ByRules(other, g, request, NoOperands) =
               [(IF start \in DOMAIN others THEN ByRule(g, request, others[start])
                                           ELSE BySchedule(other, g, request))
                EXCEPT !.trace = SubSeq(again, 1, Min({start, Len(others)}))]
    BY ByRulesMeans DEF others
  <2> HIDE DEF again, first
  <2> QED BY <1>6, <2>1
<1> HIDE DEF matched, again, first, chosen, same
<1>10. [chosen EXCEPT !.trace = SubSeq(matched, 1, Min({first, Len(rules)}))]
         = [same EXCEPT !.trace = SubSeq(again, 1, Min({first, Len(others)}))]
  BY <1>3, <1>5, <1>7
<1> QED BY <1>8, <1>9, <1>10

(* So two snapshots that differ in their conditions decide alike.          *)
LEMMA DecisionWith ==
  ASSUME NEW snapshot, IsSnapshotOf(snapshot, Authored), NEW F, NEW G, NEW request,
         \A w \in WhensOf(snapshot) :
           MatchesCondition(F[w], request, NoOperands) = MatchesCondition(G[w], request, NoOperands)
  PROVE  Decision(WithConditions(snapshot, F), request, NoOverrides, NoOperands)
           = Decision(WithConditions(snapshot, G), request, NoOverrides, NoOperands)
PROOF
<1> DEFINE one == WithConditions(snapshot, F)
           other == WithConditions(snapshot, G)
           key == request.flagKey
           f == one.flags[key]
           g == other.flags[key]
<1>1. /\ one.schemaVersion = snapshot.schemaVersion /\ one.validated = snapshot.validated
      /\ DOMAIN one.flags = DOMAIN snapshot.flags
      /\ \A k \in DOMAIN snapshot.flags : FlagWith(snapshot.flags[k], one.flags[k], F)
  BY WithConditionsIs
<1>2. /\ other.schemaVersion = snapshot.schemaVersion /\ other.validated = snapshot.validated
      /\ DOMAIN other.flags = DOMAIN snapshot.flags
      /\ \A k \in DOMAIN snapshot.flags : FlagWith(snapshot.flags[k], other.flags[k], G)
  BY WithConditionsIs
<1> HIDE DEF one, other
<1>3. CASE key \notin DOMAIN snapshot.flags
  <2>1. Decision(one, request, NoOverrides, NoOperands) = Decision(other, request, NoOverrides, NoOperands)
    BY <1>1, <1>2, <1>3 DEF Decision
  <2> QED BY <2>1 DEF one, other
<1>4. CASE key \in DOMAIN snapshot.flags
  <2> DEFINE flag == snapshot.flags[key]
  <2>1. FlagWith(flag, f, F) /\ FlagWith(flag, g, G) /\ IsFlagOf(flag, Authored)
    BY <1>1, <1>2, <1>4 DEF IsSnapshotOf
  <2>2. \A i \in DOMAIN flag.rules :
           MatchesCondition(F[flag.rules[i].when], request, NoOperands)
             = MatchesCondition(G[flag.rules[i].when], request, NoOperands)
    BY <1>4, <2>1 DEF WhensOf, IsFlagOf, IsRuleOf
  <2> HIDE DEF flag, f, g
  <2>3. ByRules(one, f, request, NoOperands) = ByRules(other, g, request, NoOperands)
    BY <1>1, <1>2, <2>1, <2>2, ByRulesWith
  <2>4. ByOverride(one, f, request, NoOverrides, NoOperands) = ByOverride(other, g, request, NoOverrides, NoOperands)
    BY <2>3 DEF ByOverride
  <2>5. /\ g.type = f.type /\ g.variants = f.variants /\ g.defaultVariant = f.defaultVariant
        /\ g.disabledVariant = f.disabledVariant
    BY <2>1 DEF FlagWith
  <2>6. \A name, reason :
           SelectedVariant(f, request, name, reason) = SelectedVariant(g, request, name, reason)
    BY <2>5, SelectedFromVariants
  <2>7. Decision(one, request, NoOverrides, NoOperands) =
          IF f.type # request.expectedType THEN Failure("TYPE_MISMATCH")
          ELSE IF one.schemaVersion = 2 /\ f.disabledVariant # Undefined
            THEN SelectedVariant(f, request, f.disabledVariant, "DISABLED")
          ELSE ByOverride(one, f, request, NoOverrides, NoOperands)
    BY <1>1, <1>4 DEF Decision, f
  <2>8. Decision(other, request, NoOverrides, NoOperands) =
          IF g.type # request.expectedType THEN Failure("TYPE_MISMATCH")
          ELSE IF other.schemaVersion = 2 /\ g.disabledVariant # Undefined
            THEN SelectedVariant(g, request, g.disabledVariant, "DISABLED")
          ELSE ByOverride(other, g, request, NoOverrides, NoOperands)
    BY <1>2, <1>4 DEF Decision, g
  <2>9. Decision(one, request, NoOverrides, NoOperands) = Decision(other, request, NoOverrides, NoOperands)
    BY <1>1, <1>2, <2>4, <2>5, <2>6, <2>7, <2>8
  <2> QED BY <2>9 DEF one, other
<1> QED BY <1>3, <1>4

(* It counts what its conditions count.                                    *)
LEMMA TotalWith ==
  ASSUME NEW snapshot, IsSnapshotOf(snapshot, Authored), NEW F, NEW G,
         \A w \in WhensOf(snapshot) : F[w] = G[w]
  PROVE  TotalOf(snapshot, F) = TotalOf(snapshot, G)
PROOF
<1> DEFINE inner(key, counts) == [i \in DOMAIN snapshot.flags[key].rules |-> counts[snapshot.flags[key].rules[i].when]]
           outer(counts) == [key \in DOMAIN snapshot.flags |-> SumFunction(inner(key, counts))]
<1>1. ASSUME NEW key \in DOMAIN snapshot.flags PROVE inner(key, F) = inner(key, G)
  <2>1. ASSUME NEW i \in DOMAIN snapshot.flags[key].rules
        PROVE  F[snapshot.flags[key].rules[i].when] = G[snapshot.flags[key].rules[i].when]
    <3>1. snapshot.flags[key].rules[i].when \in WhensOf(snapshot)
      BY DEF WhensOf, IsSnapshotOf, IsFlagOf, IsRuleOf
    <3> QED BY <3>1
  <2> QED BY <2>1
<1> HIDE DEF inner
<1>2. outer(F) = outer(G)
  BY <1>1
<1>3. TotalOf(snapshot, F) = SumFunction(outer(F)) /\ TotalOf(snapshot, G) = SumFunction(outer(G))
  BY DEF TotalOf, inner
<1> HIDE DEF outer
<1> QED BY <1>2, <1>3

(* It is a snapshot if they are conditions.                                *)
LEMMA SnapshotWith ==
  ASSUME NEW snapshot, IsSnapshotOf(snapshot, Authored), NEW F,
         \A w \in WhensOf(snapshot) : F[w] \in TargetingCondition
  PROVE  IsSnapshot(WithConditions(snapshot, F))
PROOF
<1> DEFINE made == WithConditions(snapshot, F)
<1>1. /\ DOMAIN made = {"ownData", "schemaVersion", "validated", "flags"}
      /\ made.validated = snapshot.validated
      /\ DOMAIN made.flags = DOMAIN snapshot.flags
      /\ \A key \in DOMAIN snapshot.flags : FlagWith(snapshot.flags[key], made.flags[key], F)
  BY WithConditionsIs
<1> HIDE DEF made
<1>2. ASSUME NEW key \in DOMAIN snapshot.flags PROVE IsFlagOf(made.flags[key], TargetingCondition)
  <2> DEFINE flag == snapshot.flags[key]
             f == made.flags[key]
  <2>1. FlagWith(flag, f, F) /\ IsFlagOf(flag, Authored)
    BY <1>1 DEF IsSnapshotOf
  <2>2. \A i \in DOMAIN flag.rules : F[flag.rules[i].when] \in TargetingCondition
    BY <2>1 DEF WhensOf, IsFlagOf, IsRuleOf
  <2> HIDE DEF flag, f
  <2>3. ASSUME NEW i \in DOMAIN f.rules PROVE IsRuleOf(f.rules[i], TargetingCondition)
    <3>1. i \in DOMAIN flag.rules
      BY <2>1 DEF FlagWith
    <3>2. IsRuleOf(flag.rules[i], Authored)
      BY <2>1, <3>1 DEF IsFlagOf
    <3> QED BY <2>1, <2>2, <3>1, <3>2 DEF FlagWith, IsRuleOf
  <2> QED BY <2>1, <2>3 DEF FlagWith, IsFlagOf, f
<1>3. IsSnapshot(made)
  BY <1>1, <1>2 DEF IsSnapshot, IsSnapshotOf
<1> QED BY <1>3 DEF made

(* They are valid if it is.                                                *)
LEMMA WhensValid ==
  ASSUME NEW snapshot, IsSnapshotOf(snapshot, Authored), snapshot.schemaVersion = 2, NEW F,
         ValidSnapshot(WithConditions(snapshot, F))
  PROVE  \A w \in WhensOf(snapshot) : ValidCondition(F[w])
PROOF
<1> DEFINE made == WithConditions(snapshot, F)
<1>1. /\ made.schemaVersion = 2
      /\ DOMAIN made.flags = DOMAIN snapshot.flags
      /\ \A key \in DOMAIN snapshot.flags : FlagWith(snapshot.flags[key], made.flags[key], F)
  BY WithConditionsIs
<1>2. ValidSnapshot(made)
  OBVIOUS
<1> HIDE DEF made
<1> SUFFICES ASSUME NEW key \in DOMAIN snapshot.flags, NEW i \in DOMAIN snapshot.flags[key].rules
             PROVE  ValidCondition(F[snapshot.flags[key].rules[i].when])
  BY DEF WhensOf
<1> DEFINE f == made.flags[key]
<1>3. ValidFlag(f, 2)
  BY <1>1, <1>2 DEF ValidSnapshot
<1>4. FlagWith(snapshot.flags[key], f, F)
  BY <1>1
<1> HIDE DEF f
<1>5. i \in DOMAIN f.rules /\ f.rules[i].when = F[snapshot.flags[key].rules[i].when]
  BY <1>4 DEF FlagWith
<1>6. ValidRule(f.rules[i], f.variants)
  BY <1>3, <1>5 DEF ValidFlag, ValidRules
<1> QED BY <1>5, <1>6 DEF ValidRule

(* A document is accepted as written, and what is emitted is a snapshot    *)
(* that decides as written.                                                *)
THEOREM CompilesAsWritten ==
  ASSUME NEW document \in Documents
  PROVE  LET segments == document.segments
             snapshot == document.snapshot
             flags    == snapshot.flags
             unfolded == [when \in Authored |-> Unfolded(segments, when)]
             inlined  == WithConditions(snapshot, unfolded)
             made     == Compiled(document)
         IN  /\ made.accepted <=>
                  /\ \A name \in DOMAIN segments : Acceptable(segments, segments[name])
                  /\ \A key \in DOMAIN flags : \A i \in DOMAIN flags[key].rules :
                       Acceptable(segments, flags[key].rules[i].when)
                  /\ TotalOf(snapshot, [when \in Authored |-> Nodes(unfolded[when])]) <= MaxVisits
                  /\ snapshot.schemaVersion = 2 /\ ValidSnapshot(inlined)
             /\ made.accepted =>
                  /\ IsSnapshot(made.output)
                  /\ \A request : Decision(made.output, request, NoOverrides, NoOperands)
                                    = Decision(inlined, request, NoOverrides, NoOperands)
PROOF
<1> DEFINE segments == document.segments
           snapshot == document.snapshot
           flags == snapshot.flags
           W == WhensOf(snapshot)
           X(w) == Expand(segments, w, {})
           expansions == [when \in Authored |-> X(when)]
           emitted == [when \in Authored |-> expansions[when].when]
           counted == [when \in Authored |-> expansions[when].nodes]
           unfolded == [when \in Authored |-> Unfolded(segments, when)]
           counts == [when \in Authored |-> Nodes(unfolded[when])]
           output == WithConditions(snapshot, emitted)
           inlined == WithConditions(snapshot, unfolded)
           made == Compiled(document)
<1>1. IsSnapshotOf(snapshot, Authored) /\ Definitions(segments)
  BY DocumentsAssumption DEF Definitions
<1>2. \A w \in Authored : /\ expansions[w] = X(w) /\ emitted[w] = X(w).when /\ counted[w] = X(w).nodes
                          /\ unfolded[w] = Unfolded(segments, w) /\ counts[w] = Nodes(Unfolded(segments, w))
  OBVIOUS
<1> DEFINE accepts == /\ snapshot.schemaVersion = 2
                      /\ DefinitionsHold(segments)
                      /\ \A key \in DOMAIN flags : \A i \in DOMAIN flags[key].rules :
                           Expands(expansions[flags[key].rules[i].when])
                      /\ TotalOf(snapshot, counted) <= MaxVisits
                      /\ ValidSnapshot(output)
<1>3. made = [accepted |-> accepts, output |-> output]
  BY Zenon DEF Compiled
<1> HIDE DEF expansions, emitted, counted, unfolded, counts, output, inlined, made, X
<1>4. /\ made.output = output
      /\ made.accepted <=>
           /\ snapshot.schemaVersion = 2 /\ DefinitionsHold(segments)
           /\ \A w \in W : Expands(X(w))
           /\ TotalOf(snapshot, counted) <= MaxVisits /\ ValidSnapshot(output)
  <2>1. (\A key \in DOMAIN flags : \A i \in DOMAIN flags[key].rules : Expands(expansions[flags[key].rules[i].when]))
          <=> \A w \in W : Expands(X(w))
    <3>1. \A key \in DOMAIN flags : \A i \in DOMAIN flags[key].rules :
            flags[key].rules[i].when \in W /\ flags[key].rules[i].when \in Authored
      BY <1>1 DEF WhensOf, IsSnapshotOf, IsFlagOf, IsRuleOf
    <3>2. \A w \in W : \E key \in DOMAIN flags : \E i \in DOMAIN flags[key].rules : w = flags[key].rules[i].when
      BY DEF WhensOf
    <3> HIDE DEF W, flags
    <3> QED BY <1>2, <3>1, <3>2
  <2>2. made.output = output /\ made.accepted = accepts
    <3> HIDE DEF accepts
    <3> QED BY <1>3
  <2> QED BY <2>1, <2>2
<1>5. (\A key \in DOMAIN flags : \A i \in DOMAIN flags[key].rules : Acceptable(segments, flags[key].rules[i].when))
        <=> \A w \in W : Acceptable(segments, w)
  <2>1. \A key \in DOMAIN flags : \A i \in DOMAIN flags[key].rules : flags[key].rules[i].when \in W
    BY <1>1 DEF WhensOf, IsSnapshotOf, IsFlagOf, IsRuleOf
  <2>2. \A w \in W : \E key \in DOMAIN flags : \E i \in DOMAIN flags[key].rules : w = flags[key].rules[i].when
    BY DEF WhensOf
  <2> HIDE DEF W, flags
  <2> QED BY <2>1, <2>2
<1>6. ASSUME NEW w \in W, NEW request
      PROVE  /\ Acceptable(segments, w) <=> Expands(X(w)) /\ ValidCondition(X(w).when)
             /\ Expands(X(w)) => /\ X(w).when \in TargetingCondition
                                 /\ X(w).nodes = Nodes(Unfolded(segments, w))
                                 /\ StandsFor(X(w).when, Unfolded(segments, w), request)
                                 /\ ValidCondition(X(w).when) <=> ValidCondition(Unfolded(segments, w))
  <2>1. w \in Authored /\ {} \in SUBSET DOMAIN segments
    BY DEF WhensOf
  <2>2. Separate(segments, w, {})
    BY DEF Separate
  <2> HIDE DEF W, segments
  <2> QED BY <1>1, <2>1, <2>2, AcceptableExpands DEF X
<1>7. W \subseteq Authored
  BY DEF WhensOf
<1>8. DefinitionsHold(segments) <=> \A name \in DOMAIN segments : Acceptable(segments, segments[name])
  BY <1>1, DefinitionsAcceptable
<1> HIDE DEF segments, snapshot, flags, W
<1>9. ASSUME \A w \in W : Expands(X(w))
      PROVE  /\ TotalOf(snapshot, counted) = TotalOf(snapshot, counts)
             /\ IsSnapshot(output)
             /\ \A request : Decision(output, request, NoOverrides, NoOperands)
                               = Decision(inlined, request, NoOverrides, NoOperands)
             /\ snapshot.schemaVersion = 2 => (ValidSnapshot(output) <=> ValidSnapshot(inlined))
  <2>1. TotalOf(snapshot, counted) = TotalOf(snapshot, counts)
    <3>1. \A w \in W : counted[w] = counts[w]
      BY <1>2, <1>6, <1>7, <1>9
    <3> QED BY <1>1, <3>1, TotalWith DEF W
  <2>2. IsSnapshot(output)
    <3>1. \A w \in W : emitted[w] \in TargetingCondition
      BY <1>2, <1>6, <1>7, <1>9
    <3> QED BY <1>1, <3>1, SnapshotWith DEF W, output
  <2>3. ASSUME NEW request
        PROVE  Decision(output, request, NoOverrides, NoOperands) = Decision(inlined, request, NoOverrides, NoOperands)
    <3>1. \A w \in W : MatchesCondition(emitted[w], request, NoOperands) = MatchesCondition(unfolded[w], request, NoOperands)
      BY <1>2, <1>6, <1>7, <1>9 DEF StandsFor
    <3> QED BY <1>1, <3>1, DecisionWith DEF W, output, inlined
  <2>4. ASSUME snapshot.schemaVersion = 2 PROVE ValidSnapshot(output) <=> ValidSnapshot(inlined)
    <3>1. \A w \in W : ValidCondition(emitted[w]) <=> ValidCondition(unfolded[w])
      BY <1>2, <1>6, <1>7, <1>9
    <3>2. ValidSnapshot(output) => ValidSnapshot(inlined)
      BY <1>1, <2>4, <3>1, ValidWithConditions DEF W, output, inlined
    <3>3. ValidSnapshot(inlined) => ValidSnapshot(output)
      BY <1>1, <2>4, <3>1, ValidWithConditions DEF W, output, inlined
    <3> QED BY <3>2, <3>3
  <2> QED BY <2>1, <2>2, <2>3, <2>4
<1>10. (snapshot.schemaVersion = 2 /\ ValidSnapshot(output)) => \A w \in W : ValidCondition(X(w).when)
  <2>1. ASSUME snapshot.schemaVersion = 2, ValidSnapshot(output) PROVE \A w \in W : ValidCondition(emitted[w])
    BY <1>1, <2>1, WhensValid DEF W, output
  <2> QED BY <1>2, <1>7, <2>1
<1>11. made.accepted <=>
         /\ \A name \in DOMAIN segments : Acceptable(segments, segments[name])
         /\ \A w \in W : Acceptable(segments, w)
         /\ TotalOf(snapshot, counts) <= MaxVisits
         /\ snapshot.schemaVersion = 2 /\ ValidSnapshot(inlined)
  BY <1>4, <1>6, <1>8, <1>9, <1>10
<1>12. made.accepted =>
         /\ IsSnapshot(made.output)
         /\ \A request : Decision(made.output, request, NoOverrides, NoOperands)
                           = Decision(inlined, request, NoOverrides, NoOperands)
  BY <1>4, <1>9
<1> QED BY <1>5, <1>11, <1>12 DEF segments, snapshot, flags, unfolded, counts, inlined, made

-----------------------------------------------------------------------------
(* What a document of the other format is imported as.                     *)

(* Without anything to choose by, a flag answers its default.              *)
LEMMA DefaultAnswered ==
  ASSUME NEW snapshot, NEW request, request.flagKey \in DOMAIN snapshot.flags,
         NEW flag, flag = snapshot.flags[request.flagKey],
         flag.rollout = Undefined, flag.schedule = Undefined, flag.disabledVariant = Undefined,
         flag.rules = <<>>, flag.defaultVariant \in DOMAIN flag.variants,
         FlagValueMatchesType(flag.variants[flag.defaultVariant], flag.type),
         request.expectedType = flag.type
  PROVE  LET answer == Decision(snapshot, request, NoOverrides, NoOperands)
         IN  answer.value = flag.variants[flag.defaultVariant] /\ answer.errorCode = Undefined
PROOF
<1> DEFINE chosen == SelectedVariant(flag, request, flag.defaultVariant, "STATIC")
           rules == RulesOf(snapshot, flag)
           matched == Matched(snapshot, flag, request, NoOperands)
           first == FirstMatch(rules, matched)
           traced == [chosen EXCEPT !.trace = SubSeq(matched, 1, Min({first, Len(rules)}))]
<1>1. /\ chosen.value = flag.variants[flag.defaultVariant] /\ chosen.errorCode = Undefined
      /\ DOMAIN chosen = {"value", "variant", "reason", "errorCode", "rule", "bucket", "schedule", "trace"}
  BY DEF SelectedVariant, Answer
<1>2. BySchedule(snapshot, flag, request) = chosen
  BY DEF BySchedule, ByRollout
<1>3. rules = <<>> /\ first \notin DOMAIN rules
  <2>1. rules = <<>>
    BY DEF RulesOf
  <2>2. DOMAIN rules = {}
    BY <2>1
  <2> HIDE DEF first, rules
  <2> QED BY <2>1, <2>2
<1>4. ByRules(snapshot, flag, request, NoOperands) =
        [(IF first \in DOMAIN rules THEN ByRule(flag, request, rules[first])
                                    ELSE BySchedule(snapshot, flag, request))
         EXCEPT !.trace = SubSeq(matched, 1, Min({first, Len(rules)}))]
  BY ByRulesMeans
<1> HIDE DEF chosen, matched, first, rules
<1>5. ByRules(snapshot, flag, request, NoOperands) = traced
  BY <1>2, <1>3, <1>4
<1>6. traced.value = chosen.value /\ traced.errorCode = chosen.errorCode
  BY <1>1
<1> HIDE DEF traced
<1>7. Decision(snapshot, request, NoOverrides, NoOperands) = ByOverride(snapshot, flag, request, NoOverrides, NoOperands)
  BY DEF Decision
<1>8. ByOverride(snapshot, flag, request, NoOverrides, NoOperands) = traced
  <2>1. NoOverrides.globalError = FALSE /\ NoOverrides.errors = {} /\ NoOverrides.values = <<>>
    BY DEF NoOverrides
  <2>2. DOMAIN NoOverrides.values = {}
    BY <2>1
  <2> QED BY <1>5, <2>1, <2>2 DEF ByOverride
<1> QED BY <1>1, <1>6, <1>7, <1>8

(* What is accepted is a snapshot whose flags answer their defaults.       *)
LEMMA ImportsAsWritten ==
  ASSUME NEW document, Imported(document).accepted
  PROVE  /\ IsSnapshot(Imported(document).output)
         /\ \A key \in DOMAIN document.flags : \A request \in Requests :
              LET flag   == document.flags[key]
                  value  == flag.variants[flag.defaultVariant]
                  answer == Decision(Imported(document).output,
                              [request EXCEPT !.flagKey = key, !.expectedType = value.type], NoOverrides, NoOperands)
              IN  answer.value = value /\ answer.errorCode = Undefined /\ flag.enabled
PROOF
<1> DEFINE flags == [key \in DOMAIN document.flags |-> Converted(document.flags[key])]
           output == [ownData |-> TRUE, schemaVersion |-> 2, validated |-> FALSE, flags |-> flags]
           accepts == /\ document.plain
                      /\ \A key \in DOMAIN document.flags : Convertible(document.flags[key])
                      /\ ValidSnapshot(output)
<1>1. Imported(document) = [accepted |-> accepts, output |-> output]
  BY Zenon DEF Imported
<1>2. Imported(document).output = output /\ accepts
  <2> HIDE DEF accepts, output
  <2> QED BY <1>1
<1>3. /\ DOMAIN output = {"ownData", "schemaVersion", "validated", "flags"}
      /\ output.schemaVersion = 2 /\ output.validated = FALSE /\ output.flags = flags
      /\ DOMAIN flags = DOMAIN document.flags
      /\ \A key \in DOMAIN document.flags : flags[key] = Converted(document.flags[key])
  OBVIOUS
<1>4. \A key \in DOMAIN document.flags : Convertible(document.flags[key])
  BY <1>2
<1>5. ValidSnapshot(output)
  BY <1>2
<1> HIDE DEF flags, output, accepts
<1>6. ASSUME NEW key \in DOMAIN document.flags
      PROVE  LET flag == document.flags[key]  made == flags[key] IN
             /\ DOMAIN made = {"type", "variants", "defaultVariant", "rollout", "envVar", "rules",
                               "disabledVariant", "schedule", "unknownField"}
             /\ made.variants = flag.variants /\ made.defaultVariant = flag.defaultVariant
             /\ made.rollout = Undefined /\ made.schedule = Undefined /\ made.disabledVariant = Undefined
             /\ made.rules = <<>> /\ ValidFlag(made, 2)
  <2>1. flags[key] = Converted(document.flags[key])
    BY <1>3
  <2>2. ValidFlag(flags[key], 2)
    BY <1>3, <1>5 DEF ValidSnapshot
  <2> QED BY <2>1, <2>2 DEF Converted
<1>7. IsSnapshot(output)
  <2>1. ASSUME NEW key \in DOMAIN document.flags PROVE IsFlagOf(flags[key], TargetingCondition)
    <3>1. flags[key].rules = <<>>
      BY <1>6
    <3>2. DOMAIN flags[key].rules = {}
      BY <3>1
    <3>3. IsSequence(flags[key].rules)
      BY <3>1, EmptyIsSequence
    <3> QED BY <1>6, <3>2, <3>3 DEF IsFlagOf
  <2> QED BY <1>3, <2>1 DEF IsSnapshot, IsSnapshotOf
<1>8. ASSUME NEW key \in DOMAIN document.flags, NEW request \in Requests
      PROVE  LET flag   == document.flags[key]
                 value  == flag.variants[flag.defaultVariant]
                 answer == Decision(output,
                             [request EXCEPT !.flagKey = key, !.expectedType = value.type], NoOverrides, NoOperands)
             IN  answer.value = value /\ answer.errorCode = Undefined /\ flag.enabled
  <2> DEFINE flag == document.flags[key]
             value == flag.variants[flag.defaultVariant]
             made == flags[key]
             asked == [request EXCEPT !.flagKey = key, !.expectedType = value.type]
  <2>1. /\ made.variants = flag.variants /\ made.defaultVariant = flag.defaultVariant
        /\ made.rollout = Undefined /\ made.schedule = Undefined /\ made.disabledVariant = Undefined
        /\ made.rules = <<>> /\ ValidFlag(made, 2)
    BY <1>6
  <2>2. flag.enabled /\ flag.defaultVariant \in DOMAIN flag.variants
    BY <1>4 DEF Convertible
  <2>3. asked.flagKey = key /\ asked.expectedType = value.type
    <3>1. {"flagKey", "expectedType"} \subseteq DOMAIN request
      BY RequestsAssumption
    <3> HIDE DEF value
    <3> QED BY <3>1
  <2>4. made = output.flags[asked.flagKey] /\ asked.flagKey \in DOMAIN output.flags
    BY <1>3, <2>3
  <2> HIDE DEF flag, made, asked, value
  <2>5. FlagValueMatchesType(made.variants[made.defaultVariant], made.type)
    BY <2>1 DEF ValidFlag, ValidVariants
  <2>6. value = made.variants[made.defaultVariant] /\ asked.expectedType = made.type
        /\ made.defaultVariant \in DOMAIN made.variants
    BY <2>1, <2>2, <2>3, <2>5 DEF value, FlagValueMatchesType
  <2>7. LET answer == Decision(output, asked, NoOverrides, NoOperands)
        IN  answer.value = made.variants[made.defaultVariant] /\ answer.errorCode = Undefined
    BY <2>1, <2>4, <2>5, <2>6, DefaultAnswered
  <2> QED BY <2>2, <2>6, <2>7 DEF flag, value, asked
<1> QED BY <1>2, <1>7, <1>8

-----------------------------------------------------------------------------
(* Overrides that are the same for a flag.                                 *)

OverridesAlike(one, other, key) ==
  /\ one.globalError = other.globalError
  /\ key \in one.errors <=> key \in other.errors
  /\ key \in DOMAIN one.values <=> key \in DOMAIN other.values
  /\ key \in DOMAIN one.values => one.values[key] = other.values[key]

(* A decision looks at nothing else of the overrides.                      *)
LEMMA DecisionOverridden ==
  ASSUME NEW snapshot, NEW request, NEW one, NEW other, NEW cache,
         OverridesAlike(one, other, request.flagKey)
  PROVE  Decision(snapshot, request, one, cache) = Decision(snapshot, request, other, cache)
PROOF
<1>1. ASSUME NEW flag PROVE ByOverride(snapshot, flag, request, one, cache) = ByOverride(snapshot, flag, request, other, cache)
  BY DEF ByOverride, OverridesAlike
<1> QED BY <1>1 DEF Decision

(* Flags with the same texts in the environment get the same overrides.    *)
LEMMA CreatedAlike ==
  ASSUME NEW flags, NEW others, NEW options, NEW key,
         LET env == options.env
             all == ToSet(FlagOrder) \cap DOMAIN flags
             rest == ToSet(FlagOrder) \cap DOMAIN others
         IN  /\ Given(flags, env, all, key) <=> Given(others, env, rest, key)
             /\ Wrong(flags, env, all, key) <=> Wrong(others, env, rest, key)
             /\ Given(flags, env, all, key) => ValueOf(flags, env, key) = ValueOf(others, env, key)
  PROVE  OverridesAlike(CreateEnvOverrides(flags, options), CreateEnvOverrides(others, options), key)
PROOF
<1> DEFINE env == options.env
           json == IF options.json \in {Undefined, JsonError} THEN <<>> ELSE options.json
           bound(f) == ApplyPerFlagEnvOverrides(f, env)
           values(f) == [k \in DOMAIN json \cup DOMAIN bound(f).values |->
                           IF k \in DOMAIN json THEN json[k] ELSE bound(f).values[k]]
           created(f) == CreateEnvOverrides(f, options)
<1>1. ASSUME NEW f
      PROVE  /\ created(f).values = values(f) /\ created(f).errors = bound(f).errors \ DOMAIN json
             /\ created(f).globalError = (options.json = JsonError)
             /\ DOMAIN values(f) = DOMAIN json \cup DOMAIN bound(f).values
             /\ \A k \in DOMAIN values(f) : values(f)[k] = IF k \in DOMAIN json THEN json[k] ELSE bound(f).values[k]
  BY DEF CreateEnvOverrides
<1>2. ASSUME NEW f
      PROVE  LET set == ToSet(FlagOrder) \cap DOMAIN f IN
             /\ key \in DOMAIN bound(f).values <=> Given(f, env, set, key)
             /\ key \in DOMAIN bound(f).values => bound(f).values[key] = ValueOf(f, env, key)
             /\ key \in bound(f).errors <=> Wrong(f, env, set, key)
  BY AllFlagsApplied DEF StateSound
<1> HIDE DEF json, bound, values, created
<1>3. /\ key \in DOMAIN bound(flags).values <=> key \in DOMAIN bound(others).values
      /\ key \in bound(flags).errors <=> key \in bound(others).errors
      /\ key \in DOMAIN bound(flags).values => bound(flags).values[key] = bound(others).values[key]
  BY <1>2
<1>4. /\ key \in DOMAIN values(flags) <=> key \in DOMAIN values(others)
      /\ key \in DOMAIN values(flags) => values(flags)[key] = values(others)[key]
  BY <1>1, <1>3
<1>5. /\ created(flags).globalError = created(others).globalError
      /\ key \in created(flags).errors <=> key \in created(others).errors
      /\ created(flags).values = values(flags) /\ created(others).values = values(others)
  BY <1>1, <1>3
<1> QED BY <1>4, <1>5 DEF OverridesAlike, created

(* Through the environment's names, and from the text of the snapshot.     *)
LEMMA OverridesOfText ==
  ASSUME NEW snapshot, SoundSnapshot(snapshot), NEW options, NEW key
  PROVE  /\ OverridesAlike(CreateIndexedEnvOverrides(snapshot.flags, options),
                           CreateEnvOverrides(snapshot.flags, options), key)
         /\ OverridesAlike(CreateIndexedEnvOverrides(snapshot.flags, options),
                           CreateEnvOverrides(Unindexed(snapshot).flags, options), key)
PROOF
<1> DEFINE flags == snapshot.flags
           plain == Unindexed(snapshot).flags
           env == options.env
           names == Names(env)
           bound == {k \in DOMAIN flags : flags[k].envVar \in names}
           found == [k \in bound |-> flags[k]]
<1>1. CreateIndexedEnvOverrides(flags, options) = CreateEnvOverrides(found, options)
  BY DEF CreateIndexedEnvOverrides
<1>2. (key \in DOMAIN flags /\ key \notin bound) => TextOf(flags, env, key) = Undefined
  BY DEF Lookup, Names, TextOf
<1>3. /\ key \in bound <=> key \in DOMAIN found
      /\ bound \subseteq DOMAIN flags
      /\ key \in bound => found[key] = flags[key]
  OBVIOUS
<1>4. /\ DOMAIN plain = DOMAIN flags
      /\ key \in DOMAIN flags => plain[key].envVar = flags[key].envVar /\ plain[key].type = flags[key].type
  <2>1. DOMAIN plain = DOMAIN flags /\ (key \in DOMAIN flags => plain[key] = PlainFlag(flags[key]))
    BY UnindexedSnapshot
  <2>2. ASSUME key \in DOMAIN flags
        PROVE  PlainFlag(flags[key]).envVar = flags[key].envVar /\ PlainFlag(flags[key]).type = flags[key].type
    <3> DEFINE flag == flags[key]
               rules == [i \in DOMAIN flag.rules |-> PlainRule(flag.rules[i])]
    <3>1. DOMAIN flag = {"type", "variants", "defaultVariant", "rollout", "envVar", "rules",
                         "disabledVariant", "schedule", "unknownField"}
      BY <2>2 DEF SoundSnapshot, SoundFlag
    <3>2. PlainFlag(flag) = [flag EXCEPT !.rollout = PlainRollout(@), !.rules = rules]
      BY DEF PlainFlag
    <3> HIDE DEF flag, rules
    <3>3. PlainFlag(flag).envVar = flag.envVar /\ PlainFlag(flag).type = flag.type
      BY <3>1, <3>2
    <3> QED BY <3>3 DEF flag
  <2> HIDE DEF plain, flags
  <2> QED BY <2>1, <2>2
<1> HIDE DEF found, bound, plain, flags
<1>5. key \in bound => TextOf(found, env, key) = TextOf(flags, env, key) /\ ValueOf(found, env, key) = ValueOf(flags, env, key)
  BY <1>3 DEF TextOf, ValueOf
<1>6. key \in DOMAIN flags => TextOf(plain, env, key) = TextOf(flags, env, key) /\ ValueOf(plain, env, key) = ValueOf(flags, env, key)
  BY <1>4 DEF TextOf, ValueOf
<1>7. OverridesAlike(CreateEnvOverrides(found, options), CreateEnvOverrides(flags, options), key)
  <2>1. LET all == ToSet(FlagOrder) \cap DOMAIN found
            rest == ToSet(FlagOrder) \cap DOMAIN flags
        IN  /\ Given(found, env, all, key) <=> Given(flags, env, rest, key)
            /\ Wrong(found, env, all, key) <=> Wrong(flags, env, rest, key)
            /\ Given(found, env, all, key) => ValueOf(found, env, key) = ValueOf(flags, env, key)
    BY <1>2, <1>3, <1>5 DEF Given, Wrong
  <2> QED BY <2>1, CreatedAlike
<1>8. OverridesAlike(CreateEnvOverrides(found, options), CreateEnvOverrides(plain, options), key)
  <2>1. LET all == ToSet(FlagOrder) \cap DOMAIN found
            rest == ToSet(FlagOrder) \cap DOMAIN plain
        IN  /\ Given(found, env, all, key) <=> Given(plain, env, rest, key)
            /\ Wrong(found, env, all, key) <=> Wrong(plain, env, rest, key)
            /\ Given(found, env, all, key) => ValueOf(found, env, key) = ValueOf(plain, env, key)
    BY <1>2, <1>3, <1>4, <1>5, <1>6 DEF Given, Wrong
  <2> QED BY <2>1, CreatedAlike
<1> QED BY <1>1, <1>7, <1>8 DEF flags, plain

(* The same decision, from the text and with the overrides made from it.   *)
LEMMA DecisionFromText ==
  ASSUME NEW snapshot, SoundSnapshot(snapshot), NEW request, Hashed(request), NEW options
  PROVE  LET bindings == CreateIndexedEnvOverrides(snapshot.flags, options)
             decision == Decision(snapshot, request, bindings, NoOperands)
         IN  /\ decision = Decision(Unindexed(snapshot), request, CreateEnvOverrides(snapshot.flags, options), NoOperands)
             /\ decision = Decision(Unindexed(snapshot), request,
                                    CreateEnvOverrides(Unindexed(snapshot).flags, options), NoOperands)
             /\ Decision(snapshot, request, NoOverrides, NoOperands)
                  = Decision(Unindexed(snapshot), request, NoOverrides, NoOperands)
PROOF
<1> DEFINE bindings == CreateIndexedEnvOverrides(snapshot.flags, options)
           plain == Unindexed(snapshot)
<1>1. \A overriding : Decision(snapshot, request, overriding, NoOperands) = Decision(plain, request, overriding, NoOperands)
  BY DecisionAlike, NothingCached
<1>2. /\ OverridesAlike(bindings, CreateEnvOverrides(snapshot.flags, options), request.flagKey)
      /\ OverridesAlike(bindings, CreateEnvOverrides(plain.flags, options), request.flagKey)
  BY OverridesOfText
<1> HIDE DEF bindings, plain
<1>3. /\ Decision(plain, request, bindings, NoOperands)
           = Decision(plain, request, CreateEnvOverrides(snapshot.flags, options), NoOperands)
      /\ Decision(plain, request, bindings, NoOperands)
           = Decision(plain, request, CreateEnvOverrides(plain.flags, options), NoOperands)
  BY <1>2, DecisionOverridden
<1> QED BY <1>1, <1>3 DEF bindings, plain

(* What was recorded replays.                                              *)
LEMMA RecordedReplays ==
  ASSUME EvaluationInv, owned # Undefined, NEW request \in Requests
  PROVE  Mismatches(Recorded(request)) = {}
PROOF
<1> DEFINE fixture == Recorded(request)
           plain == Unindexed(owned)
           bindings == IF origin = Undefined THEN NoOverrides ELSE CreateEnvOverrides(plain.flags, origin)
           actual == Decision(plain, request, bindings, NoOperands)
           expected == Decision(owned, request, overrides, operands["owned"])
<1>1. SoundSnapshot(owned) /\ CacheSound(operands["owned"]) /\ Hashed(request)
  <2>1. SnapshotOf("owned") = owned /\ "owned" \in Sides
    BY DEF SnapshotOf, Sides
  <2> QED BY <2>1, BothSound, EvaluationAssumption DEF EvaluationInv
<1>2. expected = Decision(owned, request, overrides, NoOperands)
  BY <1>1, DecisionAlike, NothingCached
<1>3. Decision(owned, request, overrides, NoOperands) = actual
  <2>1. CASE origin = Undefined
    BY <1>1, <2>1, DecisionFromText DEF EvaluationInv
  <2>2. CASE origin # Undefined
    BY <1>1, <2>2, DecisionFromText DEF EvaluationInv
  <2> QED BY <2>1, <2>2
<1>4. /\ fixture.snapshot = plain /\ fixture.request = request /\ fixture.options = origin
      /\ fixture.expected = expected
  BY DEF Recorded
<1> HIDE DEF fixture, plain, expected
<1>5. Mismatches(fixture) = {field \in ReplayFields : fixture.expected[field] # actual[field]}
  BY <1>4 DEF Mismatches
<1> HIDE DEF actual
<1> QED BY <1>2, <1>3, <1>4, <1>5 DEF fixture

-----------------------------------------------------------------------------
(* Comparing two snapshots.                                                *)

(* The division of a product is never above what it divides.               *)
LEMMA ShareBounds ==
  ASSUME NEW a \in Nat, NEW b \in Nat \ {0}, NEW c \in 0 .. a \div b
  PROVE  c * b <= a
PROOF
<1>1. a \div b \in Int /\ (a \div b) * b <= a
  OBVIOUS
<1>2. c \in Nat /\ c <= a \div b
  BY <1>1
<1>3. c * b <= (a \div b) * b
  BY <1>1, <1>2
<1>4. c * b \in Int /\ (a \div b) * b \in Int
  BY <1>1, <1>2
<1> QED BY <1>1, <1>3, <1>4

(* What is decided of a snapshot is what its text says.                    *)
LEMMA DecisionsOfText ==
  ASSUME NEW snapshot, SoundSnapshot(snapshot), NEW raws, \A raw \in raws : Hashed(ParseRequest(raw)),
         NEW options
  PROVE  LET bindings == IF options = Undefined THEN NoOverrides ELSE CreateEnvOverrides(snapshot.flags, options)
         IN  DecisionsOf(snapshot, raws, options)
               = [raw \in raws |-> Decision(Unindexed(snapshot), ParseRequest(raw), bindings, NoOperands)]
PROOF
<1> DEFINE indexed == IF options = Undefined THEN NoOverrides ELSE CreateIndexedEnvOverrides(snapshot.flags, options)
           bindings == IF options = Undefined THEN NoOverrides ELSE CreateEnvOverrides(snapshot.flags, options)
<1>1. ASSUME NEW raw \in raws
      PROVE  Decision(snapshot, ParseRequest(raw), indexed, NoOperands)
               = Decision(Unindexed(snapshot), ParseRequest(raw), bindings, NoOperands)
  BY DecisionFromText
<1>2. DecisionsOf(snapshot, raws, options) = [raw \in raws |-> Decision(snapshot, ParseRequest(raw), indexed, NoOperands)]
  BY DEF DecisionsOf
<1> HIDE DEF indexed, bindings
<1>3. DecisionsOf(snapshot, raws, options)
        = [raw \in raws |-> Decision(Unindexed(snapshot), ParseRequest(raw), bindings, NoOperands)]
  BY <1>1, <1>2
<1> QED BY <1>3 DEF bindings

(* Every decision has the parts of an outcome.                             *)
LEMMA DecisionShape ==
  ASSUME NEW snapshot, NEW request, NEW bindings, NEW cache
  PROVE  DOMAIN Decision(snapshot, request, bindings, cache) = OutcomeFields
PROOF
<1> DEFINE flag == snapshot.flags[request.flagKey]
           rules == RulesOf(snapshot, flag)
           first == FirstMatch(rules, Matched(snapshot, flag, request, cache))
           chosen == IF first \in DOMAIN rules THEN ByRule(flag, request, rules[first])
                                               ELSE BySchedule(snapshot, flag, request)
           traced == ByRules(snapshot, flag, request, cache)
           answer == ByOverride(snapshot, flag, request, bindings, cache)
<1>1. /\ \A reason : DOMAIN Answer(reason) = OutcomeFields /\ DOMAIN Failure(reason) = OutcomeFields
      /\ \A name, reason : DOMAIN SelectedVariant(flag, request, name, reason) = OutcomeFields
  BY UntracedAnswers DEF Untraced
<1>2. DOMAIN traced = OutcomeFields
  <2>1. traced = [chosen EXCEPT !.trace =
                   SubSeq(Matched(snapshot, flag, request, cache), 1, Min({first, Len(rules)}))]
    BY ByRulesMeans
  <2>2. DOMAIN chosen = OutcomeFields
    <3>1. \A rule : Untraced(ByRule(flag, request, rule))
      BY UntracedRule
    <3>2. Untraced(BySchedule(snapshot, flag, request))
      BY UntracedSchedule
    <3> QED BY <3>1, <3>2 DEF Untraced
  <2> HIDE DEF traced, chosen, first, rules
  <2> QED BY <2>1, <2>2
<1>3. DOMAIN answer = OutcomeFields
  <2> HIDE DEF traced
  <2>1. answer \in {Failure("OVERRIDE_PARSE_ERROR"), traced,
                    [Answer("ENV_OVERRIDE") EXCEPT !.value = bindings.values[request.flagKey]]}
    BY DEF ByOverride, traced
  <2>2. DOMAIN [Answer("ENV_OVERRIDE") EXCEPT !.value = bindings.values[request.flagKey]] = OutcomeFields
    BY <1>1
  <2> QED BY <1>1, <1>2, <2>1, <2>2
<1>4. DOMAIN [Answer("DEFAULT") EXCEPT !.errorCode = "FLAG_NOT_FOUND"] = OutcomeFields
  BY <1>1
<1> HIDE DEF answer
<1>5. Decision(snapshot, request, bindings, cache) \in
        {[Answer("DEFAULT") EXCEPT !.errorCode = "FLAG_NOT_FOUND"], Failure("TYPE_MISMATCH"),
         SelectedVariant(flag, request, flag.disabledVariant, "DISABLED"), answer}
  BY DEF Decision, answer
<1> QED BY <1>1, <1>3, <1>4, <1>5

(* What comparison looks at is all but the value and the trace.            *)
LEMMA DecidedOtherwise ==
  ASSUME NEW before, NEW after, DOMAIN before = OutcomeFields
  PROVE  Differs(before, after, DecisionFields) <=> DecidesOtherwise(before, after)
PROOF
<1>1. DecisionFields = DOMAIN before \ {"value", "trace"}
  BY DEF DecisionFields, OutcomeFields
<1> QED BY <1>1 DEF Differs, DecidesOtherwise

(* Without a changed decision every group has as many on either side.      *)
LEMMA SummariesAlike ==
  ASSUME NEW raws, NEW before, NEW after, DOMAIN before = raws, DOMAIN after = raws,
         \A raw \in raws : ~Differs(before[raw], after[raw], DecisionFields)
  PROVE  Summarize(before) = Summarize(after)
PROOF
<1> DEFINE group(decisions, raw) == <<raw.flagKey, decisions[raw].reason, decisions[raw].variant,
                                      decisions[raw].rule, decisions[raw].errorCode>>
           groups(decisions) == {group(decisions, raw) : raw \in raws}
           count(decisions, g) == Cardinality({raw \in raws : group(decisions, raw) = g})
<1>1. \A raw \in raws : group(before, raw) = group(after, raw)
  BY DEF Differs, DecisionFields
<1>2. /\ Summarize(before) = [g \in groups(before) |-> count(before, g)]
      /\ Summarize(after) = [g \in groups(after) |-> count(after, g)]
  BY DEF Summarize
<1> HIDE DEF group
<1>3. groups(before) = groups(after)
  BY <1>1
<1>4. \A g : {raw \in raws : group(before, raw) = g} = {raw \in raws : group(after, raw) = g}
  BY <1>1
<1>5. \A g : count(before, g) = count(after, g)
  BY <1>4
<1> HIDE DEF groups, count
<1> QED BY <1>2, <1>3, <1>5

(* A share no greater than its limit is not exceeded.                      *)
LEMMA ShareWithin ==
  ASSUME NEW limit, limit # Undefined => limit \in Nat, NEW changed \in Nat, NEW total \in Nat
  PROVE  Exceeds(limit, changed, total)
           => limit # Undefined /\ changed \notin 0 .. (limit * total) \div Whole
PROOF
<1> SUFFICES ASSUME limit # Undefined, limit \in Nat, changed \in 0 .. (limit * total) \div Whole
             PROVE  ~(changed * Whole > limit * total)
  BY DEF Exceeds
<1> DEFINE product == limit * total
           share == changed * Whole
<1>1. product \in Nat /\ Whole \in Nat \ {0} /\ share \in Nat
  BY RequestsAssumption
<1>2. changed \in 0 .. product \div Whole
  OBVIOUS
<1> HIDE DEF product
<1>3. share <= product
  BY <1>1, <1>2, ShareBounds
<1> HIDE DEF share
<1>4. ~(share > product)
  BY <1>1, <1>3
<1> QED BY <1>4 DEF share, product

(* What is to be reported of the decisions of two snapshots.               *)
Reporting(outcome, before, after, raws, limits) ==
  LET values    == Cardinality({raw \in raws : before[raw].value # after[raw].value})
      decisions == Cardinality({raw \in raws : DecidesOtherwise(before[raw], after[raw])})
      beyond(limit, changed) ==
        limit # Undefined /\ changed \notin 0 .. (limit * Cardinality(raws)) \div Whole
  IN
  /\ outcome.values = values /\ outcome.decisions = decisions
  /\ outcome.decisions = 0 => outcome.before = outcome.after
  /\ outcome.exit # 1 => \A raw \in raws :
       before[raw].errorCode = Undefined /\ after[raw].errorCode = Undefined
  /\ outcome.exit = 3 => beyond(limits.values, values) \/ beyond(limits.decisions, decisions)

(* What a comparison reports of the decisions it was made from.            *)
LEMMA ComparisonReports ==
  ASSUME NEW raws, IsFiniteSet(raws), NEW before, NEW after, DOMAIN before = raws, DOMAIN after = raws,
         NEW limits \in Limits, \A raw \in raws : DOMAIN before[raw] = OutcomeFields
  PROVE  Reporting(Comparison(before, after, raws, limits), before, after, raws, limits)
PROOF
<1> DEFINE outcome == Comparison(before, after, raws, limits)
           differing(fields) == {raw \in raws : Differs(before[raw], after[raw], fields)}
           changed(fields) == Cardinality(differing(fields))
           failing == \E raw \in raws : {before[raw].errorCode, after[raw].errorCode} # {Undefined}
           total == Cardinality(raws)
           values == changed({"value"})
           decisions == changed(DecisionFields)
           passed == ~Exceeds(limits.values, values, total) /\ ~Exceeds(limits.decisions, decisions, total)
           exit == IF failing THEN 1 ELSE IF passed THEN 0 ELSE 3
           one == Summarize(before)
           other == Summarize(after)
<1>1. outcome = [values |-> values, decisions |-> decisions, before |-> one, after |-> other, exit |-> exit]
  BY Zenon DEF Comparison
<1>2. \A fields : IsFiniteSet(differing(fields)) /\ changed(fields) \in Nat
  <2> SUFFICES ASSUME NEW fields PROVE IsFiniteSet(differing(fields)) /\ changed(fields) \in Nat
    OBVIOUS
  <2>1. differing(fields) \subseteq raws
    OBVIOUS
  <2> HIDE DEF differing
  <2> QED BY <2>1, FS_Subset, FS_CardinalityType
<1>3. total \in Nat
  BY FS_CardinalityType
<1>4. decisions = 0 => one = other
  <2> SUFFICES ASSUME decisions = 0 PROVE one = other
    OBVIOUS
  <2>1. differing(DecisionFields) = {}
    <3> HIDE DEF differing
    <3> QED BY <1>2, FS_EmptySet
  <2>2. \A raw \in raws : ~Differs(before[raw], after[raw], DecisionFields)
    BY <2>1
  <2> QED BY <2>2, SummariesAlike
<1>5. ~failing => \A raw \in raws : before[raw].errorCode = Undefined /\ after[raw].errorCode = Undefined
  OBVIOUS
<1>6. /\ limits.values # Undefined => limits.values \in Nat
      /\ limits.decisions # Undefined => limits.decisions \in Nat
  BY RequestsAssumption
<1>7. values \in Nat /\ decisions \in Nat
  BY <1>2
<1>12. /\ values = Cardinality({raw \in raws : before[raw].value # after[raw].value})
       /\ decisions = Cardinality({raw \in raws : DecidesOtherwise(before[raw], after[raw])})
  <2>1. \A raw \in raws : Differs(before[raw], after[raw], {"value"}) <=> before[raw].value # after[raw].value
    BY DEF Differs
  <2>2. \A raw \in raws :
          Differs(before[raw], after[raw], DecisionFields) <=> DecidesOtherwise(before[raw], after[raw])
    BY DecidedOtherwise
  <2>3. /\ differing({"value"}) = {raw \in raws : before[raw].value # after[raw].value}
        /\ differing(DecisionFields) = {raw \in raws : DecidesOtherwise(before[raw], after[raw])}
    BY <2>1, <2>2
  <2> HIDE DEF differing
  <2> QED BY <2>3
<1> HIDE DEF one, other, values, decisions, total
<1>8. ~passed => \/ limits.values # Undefined /\ values \notin 0 .. (limits.values * total) \div Whole
                 \/ limits.decisions # Undefined /\ decisions \notin 0 .. (limits.decisions * total) \div Whole
  <2>1. Exceeds(limits.values, values, total)
          => limits.values # Undefined /\ values \notin 0 .. (limits.values * total) \div Whole
    BY <1>3, <1>6, <1>7, ShareWithin
  <2>2. Exceeds(limits.decisions, decisions, total)
          => limits.decisions # Undefined /\ decisions \notin 0 .. (limits.decisions * total) \div Whole
    BY <1>3, <1>6, <1>7, ShareWithin
  <2> QED BY <2>1, <2>2
<1> HIDE DEF failing, passed
<1>9. (exit # 1 => ~failing) /\ (exit = 3 => ~passed)
  OBVIOUS
<1> HIDE DEF exit
<1>10. /\ outcome.values = values /\ outcome.decisions = decisions /\ outcome.before = one
       /\ outcome.after = other /\ outcome.exit = exit
  BY <1>1
<1> HIDE DEF outcome
<1>11. /\ outcome.decisions = 0 => outcome.before = outcome.after
       /\ outcome.exit # 1 => \A raw \in raws :
             before[raw].errorCode = Undefined /\ after[raw].errorCode = Undefined
       /\ outcome.exit = 3 => \/ limits.values # Undefined /\ values \notin 0 .. (limits.values * total) \div Whole
                              \/ limits.decisions # Undefined /\ decisions \notin 0 .. (limits.decisions * total) \div Whole
  BY <1>4, <1>5, <1>8, <1>9, <1>10
<1> QED BY <1>10, <1>11, <1>12 DEF outcome, total, Reporting

-----------------------------------------------------------------------------
(* The commands keep the evaluator's invariant, and report faithfully.     *)

(* The four claims, of what is reported.                                   *)
Written(document, accepted, output) ==
  LET segments == document.segments
      snapshot == document.snapshot
      flags    == snapshot.flags
      unfolded == [when \in Authored |-> Unfolded(segments, when)]
      inlined  == WithConditions(snapshot, unfolded)
  IN  /\ accepted <=>
           /\ \A name \in DOMAIN segments : Acceptable(segments, segments[name])
           /\ \A key \in DOMAIN flags : \A i \in DOMAIN flags[key].rules :
                Acceptable(segments, flags[key].rules[i].when)
           /\ TotalOf(snapshot, [when \in Authored |-> Nodes(unfolded[when])]) <= MaxVisits
           /\ snapshot.schemaVersion = 2 /\ ValidSnapshot(inlined)
      /\ accepted => \A request \in Requests :
           Decision(output, request, NoOverrides, NoOperands)
             = Decision(inlined, request, NoOverrides, NoOperands)

DefaultsKept(document, output) ==
  \A key \in DOMAIN document.flags : \A request \in Requests :
    LET flag   == document.flags[key]
        value  == flag.variants[flag.defaultVariant]
        answer == Decision(output,
                    [request EXCEPT !.flagKey = key, !.expectedType = value.type], NoOverrides, NoOperands)
    IN  answer.value = value /\ answer.errorCode = Undefined /\ flag.enabled

AsRead(baseline, candidate, raws, options, limits, outcome) ==
  LET bindings(snapshot) == IF options = Undefined THEN NoOverrides
                         ELSE CreateEnvOverrides(snapshot.flags, options)
      answers == [snapshot \in {baseline, candidate} |-> [raw \in raws |->
        Decision(Unindexed(snapshot), ParseRequest(raw), bindings(snapshot), NoOperands)]]
  IN  \A before \in {answers[baseline]}, after \in {answers[candidate]} :
        Reporting(outcome, before, after, raws, limits)

Faithful(made, baseline) ==
  made # Undefined =>
    /\ made.kind = "compiled" => Written(made.document, made.accepted, made.output)
    /\ made.kind = "imported" /\ made.accepted => DefaultsKept(made.document, made.output)
    /\ made.kind = "compared" =>
         AsRead(baseline, made.after, made.raws, made.options, made.limits, made.outcome)
    /\ made.kind = "replayed" => made.mismatches = {}

(* They are the properties, of the report there is and of the next one.    *)
LEMMA ReportsFaithful == ToolsFaithful <=> Faithful(report, owned)
PROOF
<1>1. CompiledAsWritten <=>
        (report # Undefined /\ report.kind = "compiled" => Written(report.document, report.accepted, report.output))
  BY Zenon DEF CompiledAsWritten, Written
<1>2. ImportedAsWritten <=>
        (report # Undefined /\ report.kind = "imported" /\ report.accepted => DefaultsKept(report.document, report.output))
  BY Zenon DEF ImportedAsWritten, DefaultsKept
<1>3. ComparedAsRead <=>
        (report # Undefined /\ report.kind = "compared" =>
            AsRead(owned, report.after, report.raws, report.options, report.limits, report.outcome))
  BY Zenon DEF ComparedAsRead, AsRead, Reporting, Beyond
<1> QED BY <1>1, <1>2, <1>3 DEF ToolsFaithful, ReplaysAgree, Faithful

(* So they are of the next report.                                        *)
LEMMA NextReportsFaithful == ToolsFaithful' <=> Faithful(report', owned')
PROOF
<1>1. CompiledAsWritten' <=>
        (report' # Undefined /\ report'.kind = "compiled" => Written(report'.document, report'.accepted, report'.output))
  BY Zenon DEF CompiledAsWritten, Written
<1>2. ImportedAsWritten' <=>
        (report' # Undefined /\ report'.kind = "imported" /\ report'.accepted => DefaultsKept(report'.document, report'.output))
  BY Zenon DEF ImportedAsWritten, DefaultsKept
<1>3. ComparedAsRead' <=>
        (report' # Undefined /\ report'.kind = "compared" =>
            AsRead(owned', report'.after, report'.raws, report'.options, report'.limits, report'.outcome))
  BY Zenon DEF ComparedAsRead, AsRead, Reporting, Beyond
<1> QED BY <1>1, <1>2, <1>3 DEF ToolsFaithful, ReplaysAgree, Faithful

(* A document is reported as written, accepted or not.                     *)
LEMMA CompiledWritten ==
  ASSUME NEW document \in Documents
  PROVE  LET made == Compiled(document) IN
         /\ made.accepted => IsSnapshot(made.output) /\ Written(document, TRUE, made.output)
         /\ ~made.accepted => \A output : Written(document, FALSE, output)
PROOF
<1> DEFINE made == Compiled(document)
           segments == document.segments
           snapshot == document.snapshot
           flags == snapshot.flags
           unfolded == [when \in Authored |-> Unfolded(segments, when)]
           inlined == WithConditions(snapshot, unfolded)
           asked == /\ \A name \in DOMAIN segments : Acceptable(segments, segments[name])
                    /\ \A key \in DOMAIN flags : \A i \in DOMAIN flags[key].rules :
                         Acceptable(segments, flags[key].rules[i].when)
                    /\ TotalOf(snapshot, [when \in Authored |-> Nodes(unfolded[when])]) <= MaxVisits
                    /\ snapshot.schemaVersion = 2 /\ ValidSnapshot(inlined)
           answers(output, request) ==
             Decision(output, request, NoOverrides, NoOperands) = Decision(inlined, request, NoOverrides, NoOperands)
<1>1. /\ made.accepted <=> asked
      /\ made.accepted => IsSnapshot(made.output) /\ \A request : answers(made.output, request)
  BY Zenon, CompilesAsWritten
<1>2. \A accepted, output :
        Written(document, accepted, output)
          <=> (accepted <=> asked) /\ (accepted => \A request \in Requests : answers(output, request))
  BY Zenon DEF Written
<1> HIDE DEF made, asked, answers
<1> QED BY <1>1, <1>2 DEF made

(* A comparison is reported as read.                                       *)
LEMMA ComparedRead ==
  ASSUME NEW baseline, NEW candidate, SoundSnapshot(baseline), SoundSnapshot(candidate),
         NEW raws \in RequestFiles, \A raw \in raws : Parsable(raw), NEW options, NEW limits \in Limits
  PROVE  AsRead(baseline, candidate, raws, options, limits,
           Comparison(DecisionsOf(baseline, raws, options), DecisionsOf(candidate, raws, options), raws, limits))
PROOF
<1> DEFINE bindings(snapshot) == IF options = Undefined THEN NoOverrides
                              ELSE CreateEnvOverrides(snapshot.flags, options)
           read(snapshot) == [raw \in raws |->
             Decision(Unindexed(snapshot), ParseRequest(raw), bindings(snapshot), NoOperands)]
           answers == [snapshot \in {baseline, candidate} |-> read(snapshot)]
           one == DecisionsOf(baseline, raws, options)
           other == DecisionsOf(candidate, raws, options)
           outcome == Comparison(one, other, raws, limits)
<1>1. IsFiniteSet(raws) /\ \A raw \in raws : Hashed(ParseRequest(raw))
  BY RequestsAssumption
<1>2. one = read(baseline) /\ other = read(candidate)
  BY <1>1, DecisionsOfText
<1>3. DOMAIN one = raws /\ DOMAIN other = raws
  BY DEF DecisionsOf
<1>4. answers[baseline] = read(baseline) /\ answers[candidate] = read(candidate)
  <2> HIDE DEF read
  <2> QED OBVIOUS
<1> HIDE DEF one, other
<1>5. Reporting(outcome, one, other, raws, limits)
  <2>1. \A raw \in raws : DOMAIN one[raw] = OutcomeFields
    BY <1>2, DecisionShape
  <2> QED BY <1>1, <1>3, <2>1, ComparisonReports DEF outcome
<1>6. AsRead(baseline, candidate, raws, options, limits, outcome)
        <=> \A before \in {answers[baseline]}, after \in {answers[candidate]} :
              Reporting(outcome, before, after, raws, limits)
  BY Zenon DEF AsRead
<1> HIDE DEF answers, read, outcome
<1>7. AsRead(baseline, candidate, raws, options, limits, outcome)
  BY <1>2, <1>4, <1>5, <1>6
<1> QED BY <1>7 DEF outcome, one, other

(* For the evaluator a command is a file that is read, or nothing.         *)
LEMMA ToolsAreLoading == [ToolsNext]_allVars => [LoadingNext]_evaluationVars
PROOF
<1> SUFFICES ASSUME [ToolsNext]_allVars PROVE [LoadingNext]_evaluationVars
  OBVIOUS
<1>1. CASE EvaluationNext
  BY <1>1 DEF LoadingNext
<1>2. CASE UNCHANGED evaluationVars
  BY <1>2
<1>3. CASE CompileSegments
  <2>1. PICK document \in Documents : Emits("compiled", document, Compiled(document))
    BY <1>3 DEF CompileSegments
  <2> DEFINE made == Compiled(document)
  <2>2. made.accepted => IsSnapshot(made.output)
    BY CompiledWritten
  <2> HIDE DEF made
  <2>3. (Load(made.output) /\ IsSnapshot(made.output)) \/ UNCHANGED evaluationVars
    BY <2>1, <2>2 DEF Emits, made
  <2> QED BY <2>3 DEF LoadingNext
<1>4. CASE ImportFlagd
  <2>1. PICK document \in FlagdDocuments : Emits("imported", document, Imported(document))
    BY <1>4 DEF ImportFlagd
  <2> DEFINE made == Imported(document)
  <2>2. made.accepted => IsSnapshot(made.output)
    BY ImportsAsWritten
  <2> HIDE DEF made
  <2>3. (Load(made.output) /\ IsSnapshot(made.output)) \/ UNCHANGED evaluationVars
    BY <2>1, <2>2 DEF Emits, made
  <2> QED BY <2>3 DEF LoadingNext
<1> QED BY <1>1, <1>2, <1>3, <1>4 DEF ToolsNext, Reported, Compare, Replay, allVars

(* Every report is faithful.                                               *)
LEMMA ToolsReport == EvaluationInv /\ ToolsFaithful /\ [ToolsNext]_allVars => ToolsFaithful'
PROOF
<1> SUFFICES ASSUME EvaluationInv, ToolsFaithful, [ToolsNext]_allVars PROVE ToolsFaithful'
  OBVIOUS
<1>1. ToolsFaithful' <=> Faithful(report', owned')
  BY NextReportsFaithful
<1>2. CASE report' = Undefined
  BY <1>1, <1>2 DEF Faithful
<1>3. CASE CompileSegments
  <2>1. PICK document \in Documents : Emits("compiled", document, Compiled(document))
    BY <1>3 DEF CompileSegments
  <2> DEFINE made == Compiled(document)
  <2>2. /\ made.accepted => Written(document, TRUE, made.output)
        /\ ~made.accepted => \A output : Written(document, FALSE, output)
    BY CompiledWritten
  <2> HIDE DEF made
  <2>3. CASE made.accepted
    <3>1. report' = [kind |-> "compiled", document |-> document, accepted |-> TRUE, output |-> made.output]
      BY <2>1, <2>3 DEF Emits, made
    <3> QED BY <1>1, <2>2, <2>3, <3>1 DEF Faithful
  <2>4. CASE ~made.accepted
    <3>1. report' = [kind |-> "compiled", document |-> document, accepted |-> FALSE]
      BY <2>1, <2>4 DEF Emits, made
    <3> QED BY <1>1, <2>2, <2>4, <3>1 DEF Faithful
  <2> QED BY <2>3, <2>4
<1>4. CASE ImportFlagd
  <2>1. PICK document \in FlagdDocuments : Emits("imported", document, Imported(document))
    BY <1>4 DEF ImportFlagd
  <2> DEFINE made == Imported(document)
  <2>2. made.accepted => DefaultsKept(document, made.output)
    BY ImportsAsWritten DEF DefaultsKept
  <2> HIDE DEF made
  <2>3. CASE made.accepted
    <3>1. report' = [kind |-> "imported", document |-> document, accepted |-> TRUE, output |-> made.output]
      BY <2>1, <2>3 DEF Emits, made
    <3> QED BY <1>1, <2>2, <2>3, <3>1 DEF Faithful
  <2>4. CASE ~made.accepted
    <3>1. report' = [kind |-> "imported", document |-> document, accepted |-> FALSE]
      BY <2>1, <2>4 DEF Emits, made
    <3> QED BY <1>1, <3>1 DEF Faithful
  <2> QED BY <2>3, <2>4
<1>5. CASE Compare
  <2>1. /\ owned # Undefined /\ ValidSnapshot(input) /\ owned' = owned
        /\ SoundSnapshot(owned) /\ SoundSnapshot(ValidateFlagSnapshot(input))
    <3>1. owned # Undefined /\ ValidSnapshot(input) /\ owned' = owned
      BY <1>5 DEF Compare, evaluationVars
    <3>2. SnapshotOf("owned") = owned /\ "owned" \in Sides
      BY DEF SnapshotOf, Sides
    <3> QED BY <3>1, <3>2, BothSound, CapturedSnapshotSound DEF EvaluationInv
  <2>2. PICK raws \in RequestFiles, options \in Options \cup {Undefined}, limits \in Limits :
       \/ report' = [kind |-> "failed"]
       \/ /\ \A raw \in raws : Parsable(raw)
          /\ \E after \in {ValidateFlagSnapshot(input)} :
             \E baseline \in {DecisionsOf(owned, raws, options)},
                candidate \in {DecisionsOf(after, raws, options)} :
               report' = [kind |-> "compared", after |-> after, raws |-> raws,
                          options |-> options, limits |-> limits,
                          outcome |-> Comparison(baseline, candidate, raws, limits)]
    BY <1>5 DEF Compare
  <2>3. CASE report' = [kind |-> "failed"]
    BY <1>1, <2>3 DEF Faithful
  <2>4. CASE ~(report' = [kind |-> "failed"])
    <3> DEFINE after == ValidateFlagSnapshot(input)
               outcome == Comparison(DecisionsOf(owned, raws, options), DecisionsOf(after, raws, options), raws, limits)
    <3>1. /\ \A raw \in raws : Parsable(raw)
          /\ report' = [kind |-> "compared", after |-> after, raws |-> raws,
                        options |-> options, limits |-> limits, outcome |-> outcome]
      BY <2>2, <2>4
    <3>2. AsRead(owned, after, raws, options, limits, outcome)
      BY <2>1, <3>1, ComparedRead
    <3> HIDE DEF after, outcome
    <3> QED BY <1>1, <2>1, <3>1, <3>2 DEF Faithful
  <2> QED BY <2>3, <2>4
<1>6. CASE Replay
  <2>1. PICK request \in Requests : report' = [kind |-> "replayed", mismatches |-> Mismatches(Recorded(request))]
    BY <1>6 DEF Replay
  <2>2. Mismatches(Recorded(request)) = {}
    BY <1>6, RecordedReplays DEF Replay
  <2> QED BY <1>1, <2>1, <2>2 DEF Faithful
<1>7. CASE UNCHANGED allVars
  <2>1. report' = report /\ owned' = owned
    BY <1>7 DEF allVars, evaluationVars
  <2> QED BY <1>1, <2>1, ReportsFaithful
<1> QED BY <1>2, <1>3, <1>4, <1>5, <1>6, <1>7 DEF ToolsNext, Reported

(* For every document, snapshot, environment and file of requests: what    *)
(* the commands report is what evaluation does with what they were given   *)
(* (compile-segments, import-flagd, compare and the replay of a fixture).  *)
THEOREM ToolsAreFaithful == ToolsSpec => []ToolsFaithful
PROOF
<1>1. ToolsInit => EvaluationInv /\ ToolsFaithful
  BY EvaluationStarts, ReportsFaithful DEF ToolsInit, Faithful
<1>2. EvaluationInv /\ ToolsFaithful /\ [ToolsNext]_allVars => (EvaluationInv /\ ToolsFaithful)'
  BY EvaluationKeeps, ToolsAreLoading, ToolsReport
<1> QED BY <1>1, <1>2, PTL DEF ToolsSpec

(* And evaluation is what it is without them, whatever they emit.          *)
LEMMA ToolsSpecIsLoading == ToolsSpec => LoadingSpec
PROOF
<1>1. ToolsInit => EvaluationInit
  BY DEF ToolsInit
<1> QED BY <1>1, ToolsAreLoading, PTL DEF ToolsSpec, LoadingSpec

(* A snapshot a command emitted is evaluated as soundly as any other       *)
(* (evaluateWithTrace after compile-segments or import-flagd).             *)
THEOREM EmittedEvaluationsAreSound == ToolsSpec => []EvaluationsSound
PROOF
BY ToolsSpecIsLoading, LoadedEvaluationsAreSound, PTL

(* And validation is enough for it.                                        *)
THEOREM EmittedValidationIsEnough == ToolsSpec => []ValidationSuffices
PROOF
BY ToolsSpecIsLoading, LoadedValidationIsEnough, PTL
================================================================================
