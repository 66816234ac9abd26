------------------------- MODULE ManagedProviderProofs -------------------------
(***************************************************************************)
(* Proofs about ManagedProvider, for any number of attempts and any times: *)
(* polling is one chain, what the client hands over is released once, and  *)
(* a fetch answers only within its times.                                  *)
(***************************************************************************)
EXTENDS ManagedProvider, TLAPS

(***************************************************************************)
(* The least and the greatest of two.                                      *)
(***************************************************************************)
(* Math.min of two numbers.                                                *)
LEMMA MinOfTwo ==
  ASSUME NEW a \in Int, NEW b \in Int
  PROVE  Min({a, b}) = IF a <= b THEN a ELSE b
PROOF
<1>1. \E x \in {a, b} : \A y \in {a, b} : x <= y
  OBVIOUS
<1> QED BY <1>1 DEF Min

(* The greater one.                                                        *)
LEMMA MaxOfTwo ==
  ASSUME NEW a \in Int, NEW b \in Int
  PROVE  Max({a, b}) = IF a >= b THEN a ELSE b
PROOF
<1>1. \E x \in {a, b} : \A y \in {a, b} : x >= y
  OBVIOUS
<1> QED BY <1>1 DEF Max

(***************************************************************************)
(* The inductive invariant.                                                *)
(***************************************************************************)
(* A read has nothing to release before the client has answered, and holds *)
(* what it was handed until it is over.                                    *)
TrySound(t) ==
  /\ t \in Try
  /\ t.call \in {"none", "asked"} => ~t.body
  /\ t.iterator => t.body
  /\ t.bodies = IF t.body /\ Abandoned(t) THEN 1 ELSE 0
  /\ t.returns = IF t.iterator /\ Abandoned(t) THEN 1 ELSE 0

ReadsInv ==
  /\ ReadsTypeOK
  /\ \A k \in 1 .. MaxAttempts : TrySound(tries[k])
  /\ due <= total
  /\ stage = "idle" <=> attempt = 0
  /\ stage = "sleeping" => attempt < MaxAttempts

(* Only a refresh that is running has polls to answer; one that was given  *)
(* up, or that close found running, has an aborted signal.                 *)
PollsInv ==
  /\ OnePollChain
  /\ stage # "idle" => refresh # "idle"
  /\ refresh # "running" => polls = 0
  /\ refresh = "draining" \/ (closing /\ refresh = "running") => aborted
  /\ ~started => timers + polls + owed = 0

IInv == ReadsInv /\ PollsInv

(***************************************************************************)
(* The life of a read.                                                     *)
(***************************************************************************)
(* The request is sent.                                                    *)
LEMMA AskedSound == TrySound([NoTry EXCEPT !.call = "asked"]) /\ TrySound(NoTry)
PROOF
<1>1. NoTry \in Try
  BY DEF NoTry, Try
<1>2. [NoTry EXCEPT !.call = "asked"] \in Try
  BY <1>1 DEF Try
<1> QED BY <1>1, <1>2 DEF TrySound, NoTry, Abandoned

(* What close leaves of a read.                                            *)
LEMMA ReleasedFields ==
  ASSUME NEW t \in Try
  PROVE  /\ Released(t) \in Try
         /\ Released(t).call = t.call /\ Released(t).body = t.body
         /\ Released(t).iterator = t.iterator /\ Released(t).stopped = t.stopped
         /\ Released(t).finished = t.finished
         /\ Released(t).bodies = IF t.body THEN 1 ELSE t.bodies
         /\ Released(t).returns = IF t.iterator THEN 1 ELSE t.returns
PROOF
<1> DEFINE b == IF t.body THEN 1 ELSE t.bodies
           r == IF t.iterator THEN 1 ELSE t.returns
<1>1. b \in 0 .. 2 /\ r \in 0 .. 2
  BY DEF Try
<1>2. Released(t) = [t EXCEPT !.bodies = b, !.returns = r]
  BY Zenon DEF Released
<1> HIDE DEF b, r
<1>3. [t EXCEPT !.bodies = b, !.returns = r] \in Try
  BY <1>1, Zenon DEF Try
<1>4. /\ Released(t).call = t.call /\ Released(t).body = t.body
      /\ Released(t).iterator = t.iterator /\ Released(t).stopped = t.stopped
      /\ Released(t).finished = t.finished
      /\ Released(t).bodies = b /\ Released(t).returns = r
  BY <1>2 DEF Try
<1> QED BY <1>2, <1>3, <1>4 DEF b, r

(* Abort and timer interrupt it, and release what there is.                *)
LEMMA InterruptSound ==
  ASSUME NEW t, TrySound(t), NEW reason \in {"cancelled", "timeout"}
  PROVE  TrySound(Interrupt(t, reason)) /\ Abandoned(Interrupt(t, reason))
PROOF
<1> DEFINE w == IF t.why = None THEN reason ELSE t.why
           u == [t EXCEPT !.stopped = TRUE, !.why = w]
<1>1. t \in Try /\ w \in {None, "cancelled", "timeout"}
  BY DEF TrySound, Try
<1>2. Interrupt(t, reason) = Released(u)
  BY Zenon DEF Interrupt
<1> HIDE DEF w
<1>3. u \in Try
  BY <1>1, Zenon DEF Try
<1>4. /\ u.call = t.call /\ u.body = t.body /\ u.iterator = t.iterator /\ u.stopped = TRUE
      /\ u.bodies = t.bodies /\ u.returns = t.returns
  BY <1>1 DEF Try
<1> HIDE DEF u
<1> QED BY <1>2, <1>3, <1>4, ReleasedFields DEF TrySound, Abandoned

(* It is over: finally.                                                    *)
LEMMA FinishedSound ==
  ASSUME NEW t, TrySound(t)
  PROVE  TrySound(Released([t EXCEPT !.finished = TRUE]))
PROOF
<1> DEFINE u == [t EXCEPT !.finished = TRUE]
<1>1. t \in Try
  BY DEF TrySound
<1>2. u \in Try
  BY <1>1, Zenon DEF Try
<1>3. /\ u.call = t.call /\ u.body = t.body /\ u.iterator = t.iterator /\ u.finished = TRUE
      /\ u.bodies = t.bodies /\ u.returns = t.returns
  BY <1>1 DEF Try
<1> HIDE DEF u
<1>4. TrySound(Released(u))
  BY <1>2, <1>3, ReleasedFields DEF TrySound, Abandoned
<1> QED BY <1>4 DEF u

(* The client fails, or its body ends.                                     *)
LEMMA EndsSound ==
  ASSUME NEW t, TrySound(t),
         NEW result \in {None, "content", "notModified", "retryable", "fatal"}
  PROVE  TrySound(Ends(t, result))
BY DEF TrySound, Try, Abandoned, Ends

(* What the client hands over, before anything is done with it.            *)
LEMMA Handed ==
  ASSUME NEW t, TrySound(t), t.call = "asked", NEW u, u = [t EXCEPT !.body = TRUE]
  PROVE  /\ u \in Try /\ u.call = "asked" /\ u.body = TRUE /\ u.iterator = FALSE
         /\ u.bodies = 0 /\ u.returns = 0 /\ (Abandoned(u) <=> Abandoned(t))
PROOF
<1>1. t \in Try /\ t.body = FALSE /\ t.iterator = FALSE /\ t.bodies = 0 /\ t.returns = 0
  BY DEF TrySound, Try
<1>2. u \in Try
  BY <1>1, Zenon DEF Try
<1>3. /\ u.call = t.call /\ u.body = TRUE /\ u.iterator = t.iterator
      /\ u.bodies = t.bodies /\ u.returns = t.returns
      /\ u.finished = t.finished /\ u.stopped = t.stopped
  BY <1>1 DEF Try
<1> QED BY <1>1, <1>2, <1>3 DEF Abandoned

(* The client answers too late, and what it hands over is released at      *)
(* once.                                                                   *)
LEMMA LateSound ==
  ASSUME NEW t, TrySound(t), t.call = "asked", Abandoned(t)
  PROVE  TrySound(Ends(Released([t EXCEPT !.body = TRUE]), None))
PROOF
<1> DEFINE u == [t EXCEPT !.body = TRUE]
<1>1. /\ u \in Try /\ u.call = "asked" /\ u.body = TRUE /\ u.iterator = FALSE
      /\ u.bodies = 0 /\ u.returns = 0 /\ Abandoned(u)
  BY Handed
<1> HIDE DEF u
<1> DEFINE v == Released(u)
<1>2. /\ v \in Try /\ v.call = "asked" /\ v.body = TRUE /\ v.iterator = FALSE
      /\ v.bodies = 1 /\ v.returns = 0 /\ Abandoned(v)
  BY <1>1, ReleasedFields DEF Abandoned
<1> HIDE DEF v
<1>3. TrySound(Ends(v, None))
  BY <1>2 DEF TrySound, Try, Abandoned, Ends
<1> QED BY <1>3 DEF u, v

(* It answers with what ends the read.                                     *)
LEMMA AnswerSound ==
  ASSUME NEW t, TrySound(t), t.call = "asked", ~Abandoned(t),
         NEW result \in {"notModified", "retryable", "fatal"}
  PROVE  TrySound(Ends([t EXCEPT !.body = TRUE], result))
PROOF
<1> DEFINE u == [t EXCEPT !.body = TRUE]
<1>1. /\ u \in Try /\ u.call = "asked" /\ u.body = TRUE /\ u.iterator = FALSE
      /\ u.bodies = 0 /\ u.returns = 0 /\ ~Abandoned(u)
  BY Handed
<1> HIDE DEF u
<1>2. TrySound(Ends(u, result))
  BY <1>1 DEF TrySound, Try, Abandoned, Ends
<1> QED BY <1>2 DEF u

(* It answers with a body.                                                 *)
LEMMA BodySound ==
  ASSUME NEW t, TrySound(t), t.call = "asked", ~Abandoned(t)
  PROVE  TrySound([[t EXCEPT !.body = TRUE] EXCEPT !.call = "body", !.iterator = TRUE])
PROOF
<1> DEFINE u == [t EXCEPT !.body = TRUE]
           v == [u EXCEPT !.call = "body", !.iterator = TRUE]
<1>1. /\ u \in Try /\ u.call = "asked" /\ u.body = TRUE /\ u.iterator = FALSE
      /\ u.bodies = 0 /\ u.returns = 0 /\ ~Abandoned(u)
  BY Handed
<1> HIDE DEF u
<1>2. v \in Try
  BY <1>1, Zenon DEF Try
<1>3. /\ v.call = "body" /\ v.body = TRUE /\ v.iterator = TRUE /\ v.bodies = 0 /\ v.returns = 0
      /\ (Abandoned(v) <=> Abandoned(u))
  BY <1>1 DEF Try, Abandoned
<1> HIDE DEF v
<1>4. TrySound(v)
  BY <1>1, <1>2, <1>3 DEF TrySound
<1> QED BY <1>4 DEF u, v
(* One read changes and the others stay as they are.                       *)
LEMMA OneTryKept ==
  ASSUME tries \in [1 .. MaxAttempts -> Try], \A k \in 1 .. MaxAttempts : TrySound(tries[k]),
         NEW k \in 1 .. MaxAttempts, NEW t, TrySound(t), tries' = [tries EXCEPT ![k] = t]
  PROVE  /\ tries' \in [1 .. MaxAttempts -> Try]
         /\ \A i \in 1 .. MaxAttempts : TrySound(tries'[i])
PROOF
<1>1. t \in Try
  BY DEF TrySound
<1>2. tries' \in [1 .. MaxAttempts -> Try]
  BY <1>1
<1>3. \A i \in 1 .. MaxAttempts : tries'[i] = IF i = k THEN t ELSE tries[i]
  OBVIOUS
<1> QED BY <1>2, <1>3

(***************************************************************************)
(* The steps of a fetch.                                                   *)
(***************************************************************************)
(* A fetch begins with its first read.                                     *)
LEMMA StartFetchKeeps ==
  ASSUME ReadsInv, StartFetch
  PROVE  ReadsInv' /\ stage' = "reading" /\ attempt' = 1 /\ total' > 0 /\ aborted' = FALSE
PROOF
<1> USE ReadsAssumption DEF ReadsInv, ReadsTypeOK
<1>1. 1 \in 1 .. MaxAttempts
  OBVIOUS
<1>2. /\ tries' \in [1 .. MaxAttempts -> Try]
      /\ \A i \in 1 .. MaxAttempts : TrySound(tries'[i])
  BY <1>1, AskedSound, OneTryKept DEF StartFetch, Begins
<1>3. Min({Timeout, TotalTimeout}) = IF Timeout <= TotalTimeout THEN Timeout ELSE TotalTimeout
  BY MinOfTwo
<1>4. /\ stage' = "reading" /\ attempt' = 1 /\ total' = TotalTimeout /\ wake' = 0
      /\ due' = Min({Timeout, TotalTimeout}) /\ outcome' = None /\ aborted' = FALSE
  BY DEF StartFetch, Begins
<1>5. due' \in 0 .. Timeout /\ due' <= total'
  BY <1>3, <1>4
<1>6. ReadsTypeOK'
  <2>1. /\ stage' \in {"idle", "reading", "sleeping"} /\ attempt' \in 0 .. MaxAttempts
        /\ total' \in 0 .. TotalTimeout /\ wake' \in 0 .. MaxBackoff
    BY <1>4
  <2>2. aborted' \in BOOLEAN /\ outcome' \in Outcomes
    BY <1>4 DEF Outcomes
  <2> QED BY <1>2, <1>5, <2>1, <2>2
<1> QED BY <1>2, <1>4, <1>5, <1>6

(* The request is aborted.                                                 *)
LEMMA AbortFetchKeeps ==
  ASSUME ReadsInv, AbortFetch, UNCHANGED <<stage, attempt, total, due, wake, outcome>>
  PROVE  ReadsInv' /\ aborted' = TRUE
PROOF
<1> USE ReadsAssumption DEF ReadsInv, ReadsTypeOK
<1>1. CASE stage = "reading"
  <2>1. attempt \in 1 .. MaxAttempts
    BY <1>1
  <2>2. TrySound(Interrupt(tries[attempt], "cancelled"))
    BY <2>1, InterruptSound
  <2>3. /\ tries' \in [1 .. MaxAttempts -> Try]
        /\ \A i \in 1 .. MaxAttempts : TrySound(tries'[i])
    BY <1>1, <2>1, <2>2, OneTryKept DEF AbortFetch
  <2> QED BY <2>3 DEF AbortFetch
<1>2. CASE stage # "reading"
  BY <1>2 DEF AbortFetch
<1> QED BY <1>1, <1>2

(* A read's time is over.                                                  *)
LEMMA TimerFiresKeeps ==
  ASSUME ReadsInv, TimerFires
  PROVE  ReadsInv'
PROOF
<1> USE ReadsAssumption DEF ReadsInv, ReadsTypeOK
<1>1. attempt \in 1 .. MaxAttempts
  BY DEF TimerFires
<1>2. TrySound(Interrupt(tries[attempt], "timeout"))
  BY <1>1, InterruptSound
<1>3. /\ tries' \in [1 .. MaxAttempts -> Try]
      /\ \A i \in 1 .. MaxAttempts : TrySound(tries'[i])
  BY <1>1, <1>2, OneTryKept DEF TimerFires
<1> QED BY <1>3 DEF TimerFires

(* The fetch goes on, settles or sleeps.                                   *)
LEMMA ResumeKeeps ==
  ASSUME ReadsInv, Resume
  PROVE  /\ ReadsInv' /\ attempt' <= attempt /\ UNCHANGED aborted
         /\ outcome' # outcome /\ outcome' \in {"content", "notModified"} =>
              ~aborted /\ due > 0 /\ total > 0
PROOF
<1> USE ReadsAssumption DEF ReadsInv, ReadsTypeOK
<1>1. attempt \in 1 .. MaxAttempts
  BY DEF Resume
<1>2. TrySound(Released([tries[attempt] EXCEPT !.finished = TRUE]))
  BY <1>1, FinishedSound
<1>3. /\ tries' \in [1 .. MaxAttempts -> Try]
      /\ \A i \in 1 .. MaxAttempts : TrySound(tries'[i])
  BY <1>1, <1>2, OneTryKept DEF Resume
<1> DEFINE t == tries[attempt]
           result == IF t.why = "timeout" \/ ~AnswersInTime(t) THEN "retryable" ELSE t.result
<1>4. ASSUME NEW o \in {"cancelled", "failed", "timeout"}, Settles(o)
      PROVE  ReadsInv' /\ attempt' <= attempt /\ outcome' \notin {"content", "notModified"} /\ UNCHANGED aborted
  <2>1. /\ stage' = "idle" /\ outcome' = o /\ attempt' = 0 /\ total' = 0 /\ due' = 0 /\ wake' = 0
        /\ UNCHANGED aborted
    BY <1>4 DEF Settles, Resume
  <2> QED BY <1>1, <1>3, <2>1 DEF Outcomes
<1>5. CASE ~aborted /\ result \in {"content", "notModified"} /\ Settles(result)
  <2>1. due > 0
    BY <1>5 DEF AnswersInTime
  <2> HIDE DEF result
  <2>2. /\ stage' = "idle" /\ outcome' \in Outcomes /\ attempt' = 0 /\ total' = 0 /\ due' = 0 /\ wake' = 0
        /\ UNCHANGED aborted
    BY <1>5 DEF Settles, Resume, Outcomes
  <2> QED BY <1>1, <1>3, <1>5, <2>1, <2>2
<1>6. CASE /\ attempt # MaxAttempts /\ stage' = "sleeping" /\ due' = 0
           /\ \E ticks \in 0 .. Min({total, Max({Backoff - 1, 0})}) : wake' = ticks
           /\ UNCHANGED <<attempt, total, outcome>>
  <2>1. RetryDelay * 2 ^ (attempt - 1) \in Int
    BY <1>1
  <2>2. Backoff \in Int /\ Backoff <= MaxBackoff
    BY <2>1, MinOfTwo DEF Backoff
  <2>3. Max({Backoff - 1, 0}) \in 0 .. MaxBackoff
    BY <2>2, MaxOfTwo
  <2>4. Min({total, Max({Backoff - 1, 0})}) \in 0 .. MaxBackoff
    <3> DEFINE m == Max({Backoff - 1, 0})
    <3>1. m \in Int /\ total \in Int /\ total >= 0
      BY <2>3
    <3> HIDE DEF m
    <3>2. Min({total, m}) = IF total <= m THEN total ELSE m
      BY <3>1, MinOfTwo
    <3> QED BY <2>3, <3>1, <3>2 DEF m
  <2>5. wake' \in 0 .. MaxBackoff
    BY <1>6, <2>4
  <2>6. stage' = "sleeping" /\ due' = 0 /\ UNCHANGED <<attempt, total, outcome, aborted>> /\ outcome = outcome'
    BY <1>6 DEF Resume
  <2>7. ReadsTypeOK'
    BY <1>1, <1>3, <2>5, <2>6
  <2> QED BY <1>1, <1>3, <1>6, <2>6, <2>7
<1> HIDE DEF result, t
<1>7. \/ \E o \in {"cancelled", "failed", "timeout"} : Settles(o)
      \/ ~aborted /\ result \in {"content", "notModified"} /\ Settles(result)
      \/ /\ attempt # MaxAttempts /\ stage' = "sleeping" /\ due' = 0
         /\ \E ticks \in 0 .. Min({total, Max({Backoff - 1, 0})}) : wake' = ticks
         /\ UNCHANGED <<attempt, total, outcome>>
  BY Zenon DEF Resume, result, t
<1> QED BY <1>4, <1>5, <1>6, <1>7

(* The sleep is over.                                                      *)
LEMMA WakesKeeps ==
  ASSUME ReadsInv, Wakes
  PROVE  /\ ReadsInv'
         /\ UNCHANGED aborted /\ outcome' \notin {"content", "notModified"}
         /\ attempt' > attempt => ~aborted /\ total' > 0
PROOF
<1> USE ReadsAssumption DEF ReadsInv, ReadsTypeOK
<1>1. CASE \E o \in {"cancelled", "timeout"} : Settles(o) /\ UNCHANGED tries
  BY <1>1 DEF Wakes, Settles, Outcomes
<1>2. CASE ~aborted /\ total # 0 /\ Begins(attempt + 1, total)
  <2>1. attempt + 1 \in 1 .. MaxAttempts
    BY DEF Wakes
  <2>2. /\ tries' \in [1 .. MaxAttempts -> Try]
        /\ \A i \in 1 .. MaxAttempts : TrySound(tries'[i])
    BY <1>2, <2>1, AskedSound, OneTryKept DEF Begins
  <2>3. due' \in 0 .. Timeout /\ due' <= total'
    <3>1. Min({Timeout, total}) = IF Timeout <= total THEN Timeout ELSE total
      BY MinOfTwo
    <3>2. due' = Min({Timeout, total}) /\ total' = total
      BY <1>2 DEF Begins
    <3> QED BY <3>1, <3>2
  <2>4. /\ stage' = "reading" /\ attempt' = attempt + 1 /\ total' = total /\ wake' = 0
        /\ outcome' = None /\ UNCHANGED aborted
    BY <1>2 DEF Wakes, Begins
  <2>5. ReadsTypeOK'
    BY <2>1, <2>2, <2>3, <2>4 DEF Outcomes
  <2> QED BY <1>2, <2>1, <2>2, <2>3, <2>4, <2>5
<1> QED BY <1>1, <1>2 DEF Wakes

(* Time passes.                                                            *)
LEMMA TickKeeps ==
  ASSUME ReadsInv, Tick
  PROVE  ReadsInv'
PROOF
<1> USE ReadsAssumption DEF ReadsInv, ReadsTypeOK
<1>1. due' = (IF due - 1 >= 0 THEN due - 1 ELSE 0) /\ wake' = (IF wake - 1 >= 0 THEN wake - 1 ELSE 0)
  BY MaxOfTwo DEF Tick
<1> QED BY <1>1 DEF Tick

(* The client answers, fails, or ends a body.                              *)
LEMMA ClientStepKeeps ==
  ASSUME ReadsInv, ClientStep
  PROVE  ReadsInv'
PROOF
<1> USE ReadsAssumption DEF ReadsInv, ReadsTypeOK
<1>1. PICK k \in 1 .. MaxAttempts : ClientAnswers(k) \/ ClientFails(k) \/ BodyEnds(k)
  BY DEF ClientStep
<1>2. \E t : TrySound(t) /\ tries' = [tries EXCEPT ![k] = t]
  <2>1. CASE ClientAnswers(k)
    <3> DEFINE t == tries[k]
               u == [t EXCEPT !.body = TRUE]
    <3>1. t \in Try /\ TrySound(t)
      OBVIOUS
    <3>2. u.call = t.call /\ (Abandoned(u) <=> Abandoned(t))
      BY <3>1 DEF Try, Abandoned
    <3>3. /\ t.call = "asked"
          /\ \/ /\ Abandoned(t)
                /\ tries' = [tries EXCEPT ![k] = Ends(Released(u), None)]
             \/ /\ ~Abandoned(t)
                /\ \E result \in {"notModified", "retryable", "fatal"} :
                     tries' = [tries EXCEPT ![k] = Ends(u, result)]
             \/ /\ ~Abandoned(t)
                /\ tries' = [tries EXCEPT ![k] = [u EXCEPT !.call = "body", !.iterator = TRUE]]
      BY <2>1, <3>2, Zenon DEF ClientAnswers
    <3> HIDE DEF t
    <3> QED BY <3>1, <3>3, LateSound, AnswerSound, BodySound
  <2>2. CASE ClientFails(k)
    BY <2>2, EndsSound DEF ClientFails
  <2>3. CASE BodyEnds(k)
    BY <2>3, EndsSound DEF BodyEnds
  <2> QED BY <1>1, <2>1, <2>2, <2>3
<1>3. /\ tries' \in [1 .. MaxAttempts -> Try]
      /\ \A i \in 1 .. MaxAttempts : TrySound(tries'[i])
  BY <1>2, OneTryKept
<1>4. UNCHANGED <<stage, attempt, total, due, wake, aborted, outcome>>
  BY <1>1 DEF ClientAnswers, ClientFails, BodyEnds
<1> QED BY <1>3, <1>4

(***************************************************************************)
(* The chain of polls.                                                     *)
(***************************************************************************)
(* What a step does to reads that have begun.                              *)
ReadsStep ==
  /\ outcome' # outcome /\ outcome' \in {"content", "notModified"} =>
       ~aborted /\ due > 0 /\ total > 0
  /\ ReadBegins => ~closing /\ ~aborted' /\ total' > 0

(* A refresh begins, is joined, or has been answered already.              *)
LEMMA RefreshKeeps ==
  ASSUME IInv, ~closing, NEW n \in {0, 1}, Refresh(n)
  PROVE  /\ ReadsInv' /\ ReadsStep
         /\ polls' \in Nat /\ owed' \in Nat /\ polls' + owed' = polls + owed + n
         /\ refresh' \in {"running", "draining"}
         /\ refresh' = "draining" => aborted' /\ polls' = 0
PROOF
<1> USE DEF IInv, PollsInv, OnePollChain, TypeOK
<1>1. CASE refresh = "idle"
  <2>1. /\ StartFetch /\ refresh' = "running" /\ polls' = polls + n /\ UNCHANGED owed
    BY <1>1 DEF Refresh
  <2>2. /\ ReadsInv' /\ total' > 0 /\ aborted' = FALSE
    BY <2>1, StartFetchKeeps
  <2>3. outcome' \notin {"content", "notModified"}
    BY <2>1, ReadsAssumption DEF StartFetch, Begins
  <2> QED BY <2>1, <2>2, <2>3 DEF ReadsStep
<1>2. CASE refresh # "idle"
  <2>1. /\ UNCHANGED <<readVars, refresh>>
        /\ refresh = "running" => polls' = polls + n /\ UNCHANGED owed
        /\ refresh = "draining" => owed' = owed + n /\ UNCHANGED polls
    BY <1>2 DEF Refresh
  <2>2. ReadsInv' /\ ReadsStep
    BY <2>1 DEF ReadsInv, ReadsTypeOK, readVars, ReadsStep, ReadBegins
  <2>3. UNCHANGED aborted
    BY <2>1 DEF readVars
  <2> QED BY <1>2, <2>1, <2>2, <2>3
<1> QED BY <1>1, <1>2

(* Every step keeps the invariant and the policy of the reads.             *)
LEMMA Inductive ==
  ASSUME IInv, [Next]_vars
  PROVE  IInv' /\ [ReadsStep]_vars
PROOF
<1> USE DEF IInv, PollsInv, OnePollChain, TypeOK, pollVars
<1>r. ReadsInv => ReadsTypeOK
  BY DEF ReadsInv
<1>s. ReadsInv' => ReadsTypeOK'
  BY DEF ReadsInv
<1>1. CASE TimerFires /\ UNCHANGED pollVars
  <2>1. ReadsInv' /\ UNCHANGED <<stage, aborted, attempt, outcome>>
    BY <1>1, TimerFiresKeeps DEF TimerFires
  <2> QED BY <1>1, <1>s, <2>1 DEF ReadsStep, ReadBegins, ReadsInv, ReadsTypeOK
<1>2. CASE Resume /\ UNCHANGED pollVars
  <2>1. /\ ReadsInv' /\ attempt' <= attempt /\ UNCHANGED aborted
        /\ outcome' # outcome /\ outcome' \in {"content", "notModified"} =>
             ~aborted /\ due > 0 /\ total > 0
    BY <1>2, ResumeKeeps
  <2>2. stage # "idle"
    BY <1>2 DEF Resume
  <2>3. ReadsStep
    BY <2>1 DEF ReadsStep, ReadBegins, ReadsInv, ReadsTypeOK
  <2> QED BY <1>2, <1>s, <2>1, <2>2, <2>3
<1>3. CASE Wakes /\ UNCHANGED pollVars
  <2>1. /\ ReadsInv' /\ UNCHANGED aborted /\ outcome' \notin {"content", "notModified"}
        /\ attempt' > attempt => ~aborted /\ total' > 0
    BY <1>3, WakesKeeps
  <2>2. stage # "idle"
    BY <1>3 DEF Wakes
  <2>3. ~aborted => ~closing
    BY <2>2
  <2>4. ReadsStep
    BY <2>1, <2>3 DEF ReadsStep, ReadBegins
  <2> QED BY <1>3, <1>s, <2>1, <2>2, <2>4
<1>4. CASE Tick /\ UNCHANGED pollVars
  <2>1. ReadsInv' /\ UNCHANGED <<stage, aborted, attempt, outcome>>
    BY <1>4, TickKeeps DEF Tick
  <2> QED BY <1>4, <1>s, <2>1 DEF ReadsStep, ReadBegins, ReadsInv, ReadsTypeOK
<1>5. CASE ClientStep /\ UNCHANGED pollVars
  <2>1. ReadsInv'
    BY <1>5, ClientStepKeeps
  <2>2. UNCHANGED <<stage, aborted, attempt, outcome>>
    BY <1>5 DEF ClientStep, ClientAnswers, ClientFails, BodyEnds
  <2> QED BY <1>5, <1>s, <2>1, <2>2 DEF ReadsStep, ReadBegins, ReadsInv, ReadsTypeOK
<1>u. ASSUME UNCHANGED readVars PROVE ReadsInv' /\ ReadsStep /\ UNCHANGED <<stage, aborted>>
  BY <1>u DEF readVars, ReadsInv, ReadsTypeOK, ReadsStep, ReadBegins
<1>a. ASSUME AbortFetch, UNCHANGED <<stage, attempt, total, due, wake, outcome>>
      PROVE  ReadsInv' /\ ReadsStep /\ aborted' = TRUE /\ UNCHANGED stage
  <2>1. ReadsInv' /\ aborted' = TRUE
    BY <1>a, AbortFetchKeeps
  <2> QED BY <1>a, <2>1 DEF ReadsStep, ReadBegins, ReadsInv, ReadsTypeOK
<1>6. CASE RefreshSettles
  BY <1>6, <1>u, <1>s DEF RefreshSettles, Answered
<1>7. CASE RefreshEnds
  BY <1>7, <1>a, <1>s DEF RefreshEnds, Answered
<1>8. CASE SlotIsFreed
  BY <1>8, <1>u, <1>s DEF SlotIsFreed
<1>9. CASE ManualRefresh
  BY <1>9, <1>s, RefreshKeeps DEF ManualRefresh
<1>10. CASE Start
  BY <1>10, <1>s, RefreshKeeps DEF Start, StartsOnce
<1>11. CASE PollFires
  <2>1. CASE closing
    BY <1>11, <2>1, <1>u, <1>s DEF PollFires
  <2>2. CASE ~closing
    BY <1>11, <2>2, <1>s, RefreshKeeps DEF PollFires
  <2> QED BY <2>1, <2>2
<1>12. CASE Schedule
  BY <1>12, <1>u, <1>s DEF Schedule, Schedules
<1>13. CASE Close
  <2>1. timers' = IF timers - 1 >= 0 THEN timers - 1 ELSE 0
    BY <1>13, MaxOfTwo DEF Close
  <2>2. CASE refresh = "running"
    BY <1>13, <1>a, <1>s, <2>1, <2>2 DEF Close
  <2>3. CASE refresh # "running"
    <3>1. UNCHANGED readVars
      BY <1>13, <2>3 DEF Close, readVars
    <3> QED BY <1>13, <1>u, <1>s, <2>1, <2>3, <3>1 DEF Close
  <2> QED BY <2>2, <2>3
<1>14. CASE UNCHANGED vars
  BY <1>14, <1>u, <1>s DEF vars
<1> QED BY <1>1, <1>2, <1>3, <1>4, <1>5, <1>6, <1>7, <1>8, <1>9, <1>10, <1>11, <1>12, <1>13, <1>14 DEF Next

(* A provider begins without a fetch, a poll or a refresh.                 *)
LEMMA InitIInv == Init => IInv
PROOF
<1> SUFFICES ASSUME Init PROVE IInv
  OBVIOUS
<1>1. NoTry \in Try /\ TrySound(NoTry)
  BY AskedSound DEF TrySound
<1>2. /\ aborted \in BOOLEAN /\ started \in BOOLEAN /\ closing \in BOOLEAN
      /\ ~aborted /\ ~started /\ ~closing
  BY Zenon DEF Init, ReadsInit
<1>3. ReadsTypeOK
  <2>1. /\ attempt \in 0 .. MaxAttempts /\ total \in 0 .. TotalTimeout /\ due \in 0 .. Timeout
        /\ wake \in 0 .. MaxBackoff
    BY ReadsAssumption DEF Init, ReadsInit
  <2>2. /\ stage \in {"idle", "reading", "sleeping"} /\ outcome \in Outcomes
        /\ tries \in [1 .. MaxAttempts -> Try]
    BY <1>1 DEF Init, ReadsInit, Outcomes
  <2> QED BY <1>2, <2>1, <2>2 DEF ReadsTypeOK
<1>4. ReadsInv
  BY <1>1, <1>3 DEF Init, ReadsInit, ReadsInv
<1>5. PollsInv
  <2>1. timers = 0 /\ polls = 0 /\ owed = 0 /\ refresh = "idle" /\ stage = "idle"
    BY DEF Init, ReadsInit
  <2>2. TypeOK
    BY <1>2, <1>3, <2>1 DEF TypeOK
  <2> QED BY <1>2, <2>1, <2>2 DEF PollsInv, OnePollChain
<1> QED BY <1>4, <1>5 DEF IInv

(* The inductive invariant holds in every reachable state.                 *)
LEMMA ManagedInvariant == Spec => []IInv
BY InitIInv, Inductive, PTL DEF Spec

(***************************************************************************)
(* The theorems.                                                           *)
(***************************************************************************)
(* Polling is one chain from start to close, whatever else refreshes       *)
(* (createManagedLocalProvider's schedule, poll and close).                *)
THEOREM PollingIsOneChain == Spec => []OnePollChain
PROOF
<1>1. IInv => OnePollChain
  BY DEF IInv, PollsInv
<1> QED BY <1>1, ManagedInvariant, PTL

(* Every body and iterator the client hands over is released once, and not *)
(* before its read is over (readAttempt's close).                          *)
THEOREM BodiesAreReleased == Spec => []BodiesReleased
PROOF
<1>1. IInv => BodiesReleased
  BY DEF IInv, ReadsInv, ReadsTypeOK, TrySound, Try, BodiesReleased, Used, Abandoned
<1> QED BY <1>1, ManagedInvariant, PTL

(* A fetch answers only within its times and only while it is wanted, and  *)
(* reads nothing after close (readWithPolicy).                             *)
THEOREM ReadsFollowPolicy == Spec => ReadsKeepPolicy
PROOF
<1>1. IInv /\ [Next]_vars =>
        [/\ outcome' # outcome /\ outcome' \in {"content", "notModified"} =>
              ~aborted /\ due > 0 /\ total > 0
         /\ ReadBegins => ~closing /\ ~aborted' /\ total' > 0]_vars
  BY Inductive DEF ReadsStep
<1> QED BY <1>1, ManagedInvariant, PTL DEF Spec, ReadsKeepPolicy
================================================================================
