------------------------------ MODULE SourceReads ------------------------------
(***************************************************************************)
(* One fetch of a remote source: readWithPolicy, which retries reads       *)
(* within a time for each and a time for all, over readAttempt of the S3   *)
(* source, which must release what a client hands it, also when the answer *)
(* comes after the read was given up.  The HTTPS source is the case of a   *)
(* client that answers an abort; its response is the body.                 *)
(*                                                                         *)
(* Times are what is left of them, counted in ticks.  A timer fires some   *)
(* time after nothing is left.  What a promise's handlers do is one step;  *)
(* time may pass before it.                                                *)
(***************************************************************************)
EXTENDS Integers, FiniteSets, FiniteSetsExt

CONSTANTS
  Timeout,        (* timeoutMs                                             *)
  TotalTimeout,   (* totalTimeoutMs                                        *)
  MaxAttempts,
  RetryDelay,     (* retryDelayMs                                          *)
  MaxBackoff,     (* MAX_BACKOFF_MS                                        *)
  None

ASSUME ReadsAssumption ==
  /\ Timeout \in Nat \ {0}
  /\ TotalTimeout \in Nat \ {0}
  /\ MaxAttempts \in Nat \ {0}
  /\ RetryDelay \in 0 .. MaxBackoff
  /\ MaxBackoff \in Nat
  /\ None \notin {"content", "notModified"}
  /\ \A n \in 0 .. MaxAttempts : 2 ^ n \in Nat    (* said for the provers   *)

VARIABLES
  stage,          (* of readWithPolicy: idle, reading or sleeping          *)
  attempt,        (* reads begun                                           *)
  total, due, wake,   (* left until the deadlines and the end of the sleep *)
  aborted,        (* the request's signal                                  *)
  tries,          (* the reads, by attempt                                 *)
  outcome         (* what the last fetch returned or threw                 *)

readVars == <<stage, attempt, total, due, wake, aborted, tries, outcome>>

(* call: the client's getObject, or the body's chunks; stopped: the read's    *)
(* own controller; why: the reason of the interruption.  bodies and        *)
(* returns count how often the body was closed, the iterator returned.     *)
Try ==
  [call : {"none", "asked", "body", "over"}, stopped : BOOLEAN,
   why : {None, "cancelled", "timeout"}, finished : BOOLEAN,
   result : {None, "content", "notModified", "retryable", "fatal"},
   body : BOOLEAN, iterator : BOOLEAN, bodies : 0 .. 2, returns : 0 .. 2]

NoTry ==
  [call |-> "none", stopped |-> FALSE, why |-> None, finished |-> FALSE, result |-> None,
   body |-> FALSE, iterator |-> FALSE, bodies |-> 0, returns |-> 0]

Outcomes == {None, "content", "notModified", "failed", "cancelled", "timeout"}

ReadsTypeOK ==
  /\ stage \in {"idle", "reading", "sleeping"}
  /\ attempt \in 0 .. MaxAttempts
  /\ total \in 0 .. TotalTimeout /\ due \in 0 .. Timeout /\ wake \in 0 .. MaxBackoff
  /\ aborted \in BOOLEAN
  /\ tries \in [1 .. MaxAttempts -> Try]
  /\ outcome \in Outcomes

ReadsInit ==
  /\ stage = "idle" /\ attempt = 0
  /\ total = 0 /\ due = 0 /\ wake = 0
  /\ aborted = FALSE
  /\ tries = [k \in 1 .. MaxAttempts |-> NoTry]
  /\ outcome = None

-----------------------------------------------------------------------------
(* One read                                                                *)

(* Variant: what was closed is not remembered.                             *)
ReleasesAgain(t) ==
  [t EXCEPT !.bodies  = IF t.body THEN Min({@ + 1, 2}) ELSE @,
            !.returns = IF t.iterator THEN Min({@ + 1, 2}) ELSE @]

(* close: abort, timeout and finally may all come to it.                   *)
Released(t) ==
  [t EXCEPT !.bodies  = IF t.body THEN 1 ELSE @,
            !.returns = IF t.iterator THEN 1 ELSE @]

Interrupt(t, reason) ==
  Released([t EXCEPT !.stopped = TRUE, !.why = IF @ = None THEN reason ELSE @])

Abandoned(t) == t.finished \/ t.stopped

(* An abandoned read's own outcome is not looked at.                       *)
Ends(t, result) ==
  [t EXCEPT !.call = "over", !.result = IF Abandoned(t) THEN @ ELSE result]

(* getObject resolves: too late; with a status or headers that end the     *)
(* read; or with a body, whose iterator is taken.                          *)
ClientAnswers(k) ==
  LET t == [tries[k] EXCEPT !.body = TRUE] IN
  /\ t.call = "asked"
  /\ \/ /\ Abandoned(t)
        /\ tries' = [tries EXCEPT ![k] = Ends(Released(t), None)]
     \/ /\ ~Abandoned(t)
        /\ \E result \in {"notModified", "retryable", "fatal"} :
             tries' = [tries EXCEPT ![k] = Ends(t, result)]
     \/ /\ ~Abandoned(t)
        /\ tries' = [tries EXCEPT ![k] = [t EXCEPT !.call = "body", !.iterator = TRUE]]
  /\ UNCHANGED <<stage, attempt, total, due, wake, aborted, outcome>>

ClientFails(k) ==
  /\ tries[k].call = "asked"
  /\ \E result \in {"notModified", "retryable", "fatal"} :
       tries' = [tries EXCEPT ![k] = Ends(@, result)]
  /\ UNCHANGED <<stage, attempt, total, due, wake, aborted, outcome>>

(* The iterator's last answer: the end, an error, too much or no bytes.    *)
BodyEnds(k) ==
  /\ tries[k].call = "body"
  /\ \E result \in {"content", "retryable", "fatal"} :
       tries' = [tries EXCEPT ![k] = Ends(@, result)]
  /\ UNCHANGED <<stage, attempt, total, due, wake, aborted, outcome>>

TimerFires ==
  /\ stage = "reading" /\ due = 0
  /\ tries[attempt].result = None /\ tries[attempt].why = None
  /\ tries' = [tries EXCEPT ![attempt] = Interrupt(@, "timeout")]
  /\ UNCHANGED <<stage, attempt, total, due, wake, aborted, outcome>>

-----------------------------------------------------------------------------
(* The policy                                                              *)

Settles(result) ==
  /\ stage' = "idle" /\ outcome' = result
  /\ attempt' = 0 /\ total' = 0 /\ due' = 0 /\ wake' = 0

(* A late answer to an earlier read under this number is no longer         *)
(* followed: it is the client's that never answers.                        *)
Begins(n, left) ==
  /\ stage' = "reading" /\ attempt' = n
  /\ total' = left /\ due' = Min({Timeout, left}) /\ wake' = 0
  /\ tries' = [tries EXCEPT ![n] = [NoTry EXCEPT !.call = "asked"]]
  /\ outcome' = None

StartFetch ==
  /\ aborted' = FALSE
  /\ Begins(1, TotalTimeout)

(* The request's signal is aborted.                                        *)
AbortFetch ==
  /\ aborted' = TRUE
  /\ tries' = IF stage = "reading" THEN [tries EXCEPT ![attempt] = Interrupt(@, "cancelled")]
                                   ELSE tries

Backoff == Min({MaxBackoff, RetryDelay * 2 ^ (attempt - 1)})

(* Variant: an answer is taken as long as no timer has fired.              *)
AnswersByTimer(t) == t.why = None

(* Timers may run late: an answer must have come before the deadline.      *)
AnswersInTime(t) == due > 0

(* The race is over: finally, and the rest of the loop's turn.             *)
Resume ==
  LET t      == tries[attempt]
      result == IF t.why = "timeout" \/ ~AnswersInTime(t) THEN "retryable" ELSE t.result
  IN  /\ stage = "reading"
      /\ t.result # None \/ t.why # None
      /\ tries' = [tries EXCEPT ![attempt] = Released([@ EXCEPT !.finished = TRUE])]
      /\ IF aborted THEN Settles("cancelled")
         ELSE IF result \in {"content", "notModified"} THEN Settles(result)
         ELSE IF t.result = "fatal" \/ attempt = MaxAttempts THEN Settles("failed")
         ELSE IF total = 0 THEN Settles("timeout")
         ELSE /\ stage' = "sleeping" /\ due' = 0
              /\ \E ticks \in 0 .. Min({total, Max({Backoff - 1, 0})}) : wake' = ticks
              /\ UNCHANGED <<attempt, total, outcome>>
      /\ UNCHANGED aborted

Wakes ==
  /\ stage = "sleeping" /\ (wake = 0 \/ aborted)
  /\ IF aborted THEN Settles("cancelled") /\ UNCHANGED tries
     ELSE IF total = 0 THEN Settles("timeout") /\ UNCHANGED tries
     ELSE Begins(attempt + 1, total)
  /\ UNCHANGED aborted

Tick ==
  /\ total > 0
  /\ total' = total - 1
  /\ due' = Max({due - 1, 0})
  /\ wake' = Max({wake - 1, 0})
  /\ UNCHANGED <<stage, attempt, aborted, tries, outcome>>

ClientStep ==
  \E k \in 1 .. MaxAttempts : ClientAnswers(k) \/ ClientFails(k) \/ BodyEnds(k)
================================================================================
