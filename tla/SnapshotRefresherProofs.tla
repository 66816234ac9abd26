------------------------ MODULE SnapshotRefresherProofs ------------------------
(***************************************************************************)
(* Proofs about SnapshotRefresher, for any artifacts, callers, policies    *)
(* and clock: first the replay order on artifacts; then the refresher's    *)
(* types, reservations and counters; then what it delivers: the replay     *)
(* floor, what is applied and when, the promise of SignedDelivery, and     *)
(* what a 304 is believed for.                                             *)
(***************************************************************************)
EXTENDS SnapshotRefresher, TLAPS

(***************************************************************************)
(* The order that the replay rule puts on signed artifacts, and what       *)
(* mergeFloor makes of it.                                                 *)
(***************************************************************************)
Floors == Artifacts \cup {None}

(* Accepting the accepted artifact again is always allowed: verification   *)
(* after persistence uses the artifact's own provenance as its floor.      *)
LEMMA ContinuesReflexive ==
  \A a \in Artifacts : Continues(a, a)
PROOF BY ArtifactAssumption DEF Continues

(* A chain of accepted artifacts is itself free of replay.                 *)
LEMMA ContinuesTransitive ==
  ASSUME NEW a \in Artifacts, NEW b \in Artifacts, NEW c \in Floors,
         Continues(a, b), Continues(b, c)
  PROVE  Continues(a, c)
PROOF BY ArtifactAssumption DEF Continues, Floors

(* Two artifacts that continue each other are one artifact: no equivocation *)
(* under one sequence.                                                     *)
LEMMA ContinuesAntisymmetric ==
  ASSUME NEW a \in Artifacts, NEW b \in Artifacts, Continues(a, b), Continues(b, a)
  PROVE  a = b
PROOF BY ArtifactAssumption DEF Continues

(* A compatible claim never lowers the floor: the merged floor continues   *)
(* both claims it was made of.                                             *)
LEMMA MergedFloorCoversBoth ==
  ASSUME NEW previous \in Floors, NEW candidate \in Floors, Compatible(previous, candidate)
  PROVE  /\ MergeFloor(previous, candidate) \in Floors
         /\ previous # None =>
              /\ MergeFloor(previous, candidate) # None
              /\ Continues(MergeFloor(previous, candidate), previous)
         /\ candidate # None =>
              /\ MergeFloor(previous, candidate) # None
              /\ Continues(MergeFloor(previous, candidate), candidate)
PROOF
<1>1. CASE candidate = None
  BY <1>1, ContinuesReflexive, ArtifactAssumption DEF MergeFloor, Floors
<1>2. CASE candidate # None /\ previous = None
  BY <1>2, ContinuesReflexive, ArtifactAssumption DEF MergeFloor, Floors
<1>3. CASE candidate # None /\ previous # None
  <2>1. Continues(candidate, previous) \/ Continues(previous, candidate)
    BY <1>3 DEF Compatible
  <2>2. candidate \in Artifacts /\ previous \in Artifacts
    BY <1>3 DEF Floors
  <2>3. CASE candidate.seq > previous.seq
    BY <1>3, <2>1, <2>2, <2>3, ContinuesReflexive, ArtifactAssumption
       DEF MergeFloor, Floors, Continues
  <2>4. CASE ~(candidate.seq > previous.seq)
    BY <1>3, <2>1, <2>2, <2>4, ContinuesReflexive, ArtifactAssumption
       DEF MergeFloor, Floors, Continues
  <2> QED BY <2>3, <2>4
<1> QED BY <1>1, <1>2, <1>3

(***************************************************************************)
(* Where the worker is determines what it awaits, which reads are          *)
(* outstanding and what the last await returned.                           *)
(***************************************************************************)
ReadPhases == {"loading", "fetching"}

Awaits ==
  /\ phase \in ReadPhases \cup {"persisting"} <=> wait # "none"
  /\ wait = "opened" => phase = "loading"

ReadsTracked ==
  /\ reads \in {0, 1}
  /\ phase \in ReadPhases /\ Pending => reads = 1
  /\ phase \in ReadPhases /\ wait = "value" => reads = 0
  /\ phase = "draining" => reads = 1
  /\ phase \notin ReadPhases \cup {"draining"} => reads = 0

Results ==
  /\ phase \in {"loading", "persisting", "recovering"} => Durable
  /\ phase \in {"loading", "recovering"} => got \in Floors
  /\ phase = "down" => got = None
  /\ phase = "fetching" /\ wait = "value" => got \in Responses
  /\ phase = "persisting" =>
       /\ got \in Responses
       /\ Delivery \in Artifacts
       /\ got.kind = "notModified" => committed # None
  /\ phase \in ReadPhases /\ op.etag # None => committed # None

Typed == TypeOK /\ Awaits /\ ReadsTracked /\ Results

(* What an update installs is an origin.                                   *)
LEMMA OriginsOfParts ==
  /\ \A s \in Snapshots : Unsigned(s) \in Origins
  /\ \A a \in Artifacts : FromArtifact(a) \in Origins
  /\ AppOrigins \subseteq Origins
PROOF BY ArtifactAssumption, RefresherAssumption DEF Unsigned, FromArtifact, Origins

(* The helpers on operations keep their type.                              *)
LEMMA OperationParts ==
  /\ NewOperation \in Operations
  /\ \A o \in Operations : Counted(o) \in Operations
  /\ \A o \in Operations : Expire(o) \in Operations
  /\ \A o \in Operations : TimedOut(o) \in Operations
PROOF
<1>1. NewOperation \in Operations
  BY OriginsOfParts, RefresherAssumption DEF NewOperation, Operations
<1>2. ASSUME NEW o \in Operations PROVE Counted(o) \in Operations
  <2>1. CountOnce(o.counted) \in 0..1
    BY DEF CountOnce, Operations
  <2> QED BY <2>1 DEF Counted, Operations
<1>3. ASSUME NEW o \in Operations PROVE Expire(o) \in Operations
  BY <1>2 DEF Expire, Operations
<1> QED BY <1>1, <1>2, <1>3 DEF TimedOut

(***************************************************************************)
(* Every way a refresh settles preserves the types.                        *)
(***************************************************************************)
(* Ending a refresh, when what it installed is typed.                      *)
LEMMA FinishTyped ==
  ASSUME Typed, NEW o \in Operations, NEW answer \in {"ok", "error"}, Finish(o, answer),
         phase \in Running,
         active' \in Origins, pendingUpdate' \in {"none", "refresh", "app"},
         floor' \in Floors, {activated', delivered'} \subseteq Floors,
         committed' \in [origin : Origins, etag : Bodies \cup {None}] \cup {None}
  PROVE  Typed'
PROOF
<1>1. op' \in Operations
  BY OperationParts DEF Finish, Operations, NewOperation
<1>2. reads = 0 \/ reads = 1
  BY DEF Typed, ReadsTracked
<1>3. TypeOK'
  BY <1>1, <1>2 DEF Typed, TypeOK, Finish, SlotAfterWorker, Floors
<1>4. Awaits' /\ ReadsTracked' /\ Results'
  BY <1>2 DEF Finish, SlotAfterWorker, Awaits, ReadsTracked, Results, ReadPhases, Typed
<1> QED BY <1>3, <1>4 DEF Typed

(* Ending a refresh with a failure.                                        *)
LEMMA FailTyped ==
  ASSUME Typed, NEW o \in Operations, Fail(o), phase \in Running,
         pendingUpdate' \in {"none", "refresh", "app"}, floor' \in Floors
  PROVE  Typed'
PROOF BY FinishTyped DEF Fail, Typed, TypeOK, Floors

(* Every floor the worker derives is one.                                  *)
LEMMA FloorsKept ==
  ASSUME TypeOK
  PROVE  /\ SignatureFloor \in Floors
         /\ ValidationFloor \in Floors
         /\ \A f \in Floors : MergeFloor(floor, f) \in Floors
PROOF BY DEF TypeOK, Operations, Origins, SignatureFloor, ValidationFloor, MergeFloor, Floors

(***************************************************************************)
(* Types are preserved by the worker's blocks ...                          *)
(***************************************************************************)
(* The worker's early returns.                                             *)
LEMMA FailuresTyped ==
  ASSUME Typed,
         \/ ResumesTooLate \/ StartsClosed \/ LoadFails \/ LoadedButUnusable \/ FetchFails
         \/ ContentInvalid \/ SignatureInvalid \/ ValidatedTooLate \/ UpdateRefused
         \/ PersistFails \/ PersistedTooLate \/ PersistedButClosed \/ PersistedButStale
         \/ ReverifiedTooLate
  PROVE  Typed'
PROOF
<1>1. /\ op \in Operations /\ Counted(op) \in Operations
      /\ Expire(op) \in Operations /\ TimedOut(op) \in Operations
  BY OperationParts DEF Typed, TypeOK
<1>2. /\ floor \in Floors /\ pendingUpdate \in {"none", "refresh", "app"}
      /\ SignatureFloor \in Floors /\ ValidationFloor \in Floors
      /\ \A f \in Floors : MergeFloor(floor, f) \in Floors
  BY FloorsKept DEF Typed, TypeOK, Floors
<1>3. phase = "loading" => got \in Floors
  BY DEF Typed, Results
<1>4. phase = "persisting" => Delivery \in Floors
  BY DEF Typed, Results, Floors
<1> USE DEF Resumes
<1>5. CASE ResumesTooLate
  BY <1>1, <1>2, <1>5, FailTyped DEF ResumesTooLate, Running
<1>6. CASE StartsClosed
  BY <1>1, <1>2, <1>6, FailTyped DEF StartsClosed, Running
<1>7. CASE LoadFails
  BY <1>1, <1>2, <1>7, FailTyped DEF LoadFails, Running
<1>8. CASE LoadedButUnusable
  BY <1>1, <1>2, <1>3, <1>8, FailTyped DEF LoadedButUnusable, Loaded, Running
<1>9. CASE FetchFails
  BY <1>1, <1>2, <1>9, FailTyped DEF FetchFails, Running
<1>10. CASE ContentInvalid
  BY <1>1, <1>2, <1>10, FailTyped DEF ContentInvalid, Fetched, Running
<1>11. CASE SignatureInvalid
  BY <1>1, <1>2, <1>11, FailTyped DEF SignatureInvalid, Fetched, Running
<1>12. CASE ValidatedTooLate
  BY <1>1, <1>2, <1>12, FailTyped DEF ValidatedTooLate, Validated, Fetched, Running
<1>13. CASE UpdateRefused
  BY <1>1, <1>2, <1>13, FailTyped DEF UpdateRefused, Validated, Fetched, Running
<1>14. CASE PersistFails
  BY <1>1, <1>2, <1>14, FailTyped DEF PersistFails, Release, Running
<1>15. CASE PersistedTooLate
  BY <1>1, <1>4, <1>15, FailTyped DEF PersistedTooLate, Acknowledged, Release, Running
<1>16. CASE PersistedButClosed
  BY <1>1, <1>4, <1>16, FailTyped DEF PersistedButClosed, Acknowledged, Release, Running
<1>17. CASE PersistedButStale
  BY <1>1, <1>4, <1>17, FailTyped DEF PersistedButStale, Acknowledged, Release, Running
<1>18. CASE ReverifiedTooLate
  BY <1>1, <1>4, <1>18, FailTyped DEF ReverifiedTooLate, Activatable, Acknowledged, Release, Running
<1> QED BY <1>5, <1>6, <1>7, <1>8, <1>9, <1>10, <1>11, <1>12, <1>13, <1>14, <1>15, <1>16, <1>17,
           <1>18

(* An ETag is sent only of what was committed.                             *)
LEMMA ConditionalEtagTyped ==
  ASSUME TypeOK
  PROVE  /\ ConditionalEtag \in Bodies \cup {None}
         /\ ConditionalEtag # None => committed # None
PROOF BY DEF TypeOK, ConditionalEtag

(* Beginning the load, or the fetch when there is no store.                *)
LEMMA StartsTyped ==
  ASSUME Typed, Starts
  PROVE  Typed'
PROOF
<1>1. op' \in Operations /\ op'.etag = ConditionalEtag
  BY ConditionalEtagTyped DEF Typed, TypeOK, Starts, BeginRead, Operations
<1>2. TypeOK'
  BY <1>1 DEF Typed, ReadsTracked, TypeOK, Starts, BeginRead, Running, providerVars,
             refresherVars, Resumes
<1>3. Awaits' /\ ReadsTracked' /\ Results'
  BY <1>1, ConditionalEtagTyped
     DEF Typed, Starts, BeginRead, Resumes, Awaits, ReadsTracked, Results, ReadPhases, Pending,
         Floors, refresherVars
<1> QED BY <1>2, <1>3 DEF Typed

(* From the loaded head to the fetch.                                      *)
LEMMA FetchesTyped ==
  ASSUME Typed, Fetches
  PROVE  Typed'
PROOF
<1>1. floor' \in Floors
  BY FloorsKept DEF Typed, Results, Fetches, Loaded, Resumes
<1>2. TypeOK'
  BY <1>1 DEF Typed, ReadsTracked, TypeOK, Fetches, Loaded, BeginRead, Running, providerVars,
             Resumes, Floors
<1>3. Awaits' /\ ReadsTracked' /\ Results'
  BY DEF Typed, Fetches, Loaded, BeginRead, Resumes, Awaits, ReadsTracked, Results, ReadPhases,
         Pending
<1> QED BY <1>2, <1>3 DEF Typed

(* What a validated refresh delivers is something the provider can hold.   *)
LEMMA ValidatedDelivers ==
  ASSUME Typed, Validated
  PROVE  /\ got \in Responses
         /\ Signed => Delivery \in Artifacts
         /\ DeliveredOrigin \in Origins
         /\ got.kind = "notModified" => committed # None
PROOF
<1>1. got \in Responses
  BY DEF Typed, Results, Validated, Fetched, Resumes
<1>2. Signed => Delivery \in Artifacts
  BY DEF Validated, Verified, Verifies
<1>3. got.kind = "notModified" => committed # None
  BY DEF Validated, Acceptable, Fetched, Resumes, Typed, Results, ReadPhases
<1>4. ~Signed /\ got.kind = "content" => got.body \in Artifacts
  BY <1>1 DEF Validated, Acceptable, Responses, Bodies
<1>5. DeliveredOrigin \in Origins
  <2>1. active.snap \in Snapshots
    BY DEF Typed, TypeOK, Origins
  <2> QED BY <1>2, <1>4, <2>1, OriginsOfParts, ArtifactAssumption DEF DeliveredOrigin
<1> QED BY <1>1, <1>2, <1>3, <1>5

(* The ETag kept is one that a body carried.                               *)
LEMMA EtagToKeepTyped ==
  ASSUME TypeOK, got \in Responses, got.kind = "notModified" => committed # None
  PROVE  EtagToKeep \in Bodies \cup {None}
PROOF BY DEF TypeOK, Responses, EtagToKeep

(* Installing what the refresh delivers, or a change handler's update.     *)
LEMMA SettledTyped ==
  ASSUME Typed, NEW origin \in Origins, Adopt(origin) \/ ReplacedByHandler(origin),
         phase \in Running, got \in Responses, got.kind = "notModified" => committed # None,
         pendingUpdate' \in {"none", "refresh", "app"},
         floor' \in Floors, {activated', delivered'} \subseteq Floors
  PROVE  Typed'
PROOF
<1>1. op \in Operations /\ Counted(op) \in Operations
  BY OperationParts DEF Typed, TypeOK
<1>2. CASE Adopt(origin)
  <2>1. committed' \in [origin : Origins, etag : Bodies \cup {None}]
    BY <1>2, EtagToKeepTyped DEF Adopt, Typed
  <2> QED BY <1>1, <1>2, <2>1, FinishTyped DEF Adopt
<1>3. CASE ReplacedByHandler(origin)
  <2>1. active' \in Origins
    BY <1>3, OriginsOfParts DEF ReplacedByHandler, Replacements
  <2>2. committed' \in [origin : Origins, etag : Bodies \cup {None}] \cup {None}
    BY <1>3 DEF ReplacedByHandler, Typed, TypeOK
  <2> QED BY <1>1, <1>3, <2>1, <2>2, FinishTyped DEF ReplacedByHandler
<1> QED BY <1>2, <1>3

(* The worker's ways to deliver.                                           *)
LEMMA DeliveriesTyped ==
  ASSUME Typed, Reserves \/ AppliesDirectly \/ Activates
  PROVE  Typed'
PROOF
<1>1. /\ SignatureFloor \in Floors /\ ValidationFloor \in Floors
      /\ floor \in Floors /\ activated \in Floors /\ delivered \in Floors
      /\ pendingUpdate \in {"none", "refresh", "app"}
  BY FloorsKept DEF Typed, TypeOK, Floors
<1>2. CASE Reserves
  <2>1. Signed /\ got \in Responses /\ Delivery \in Artifacts
        /\ (got.kind = "notModified" => committed # None)
    BY <1>2, ValidatedDelivers, RefresherAssumption DEF Reserves
  <2>2. phase = "fetching" /\ wait = "value" /\ reads = 0
    BY <1>2 DEF Reserves, Validated, Fetched, Resumes, Typed, ReadsTracked, ReadPhases
  <2>3. TypeOK'
    BY <1>1, <1>2 DEF Reserves, Typed, TypeOK, Running, Floors
  <2>4. Delivery' = Delivery
    BY <1>2 DEF Reserves, Delivery
  <2>5. Awaits' /\ ReadsTracked' /\ Results'
    BY <1>2, <2>1, <2>2, <2>4 DEF Reserves, Awaits, ReadsTracked, Results, ReadPhases, Pending
  <2> QED BY <2>3, <2>5 DEF Typed
<1>3. CASE AppliesDirectly
  <2>1. /\ got \in Responses /\ DeliveredOrigin \in Origins
        /\ Signed => Delivery \in Floors
        /\ got.kind = "notModified" => committed # None
    BY <1>3, ValidatedDelivers DEF AppliesDirectly, Floors
  <2>2. phase \in Running
    BY <1>3 DEF AppliesDirectly, Validated, Fetched, Resumes, Running
  <2>3. floor' \in Floors /\ {activated', delivered'} \subseteq Floors
        /\ pendingUpdate' \in {"none", "refresh", "app"}
    BY <1>1, <1>3, <2>1 DEF AppliesDirectly
  <2>4. Adopt(DeliveredOrigin) \/ ReplacedByHandler(DeliveredOrigin)
    BY <1>3 DEF AppliesDirectly
  <2> QED BY <2>1, <2>2, <2>3, <2>4, SettledTyped
<1>4. CASE Activates
  <2>1. /\ phase = "persisting" /\ Signed
        /\ got \in Responses /\ Delivery \in Artifacts
        /\ got.kind = "notModified" => committed # None
    BY <1>4, RefresherAssumption DEF Activates, Activatable, Acknowledged, Resumes, Typed, Results
  <2>2. DeliveredOrigin \in Origins
    BY <2>1, OriginsOfParts DEF DeliveredOrigin
  <2>3. floor' \in Floors /\ {activated', delivered'} \subseteq Floors
        /\ pendingUpdate' = "none" /\ phase \in Running
    BY <1>4, <2>1 DEF Activates, Activatable, Acknowledged, Release, Floors, Running
  <2>4. Adopt(DeliveredOrigin) \/ ReplacedByHandler(DeliveredOrigin)
    BY <1>4 DEF Activates
  <2> QED BY <2>1, <2>2, <2>3, <2>4, SettledTyped
<1> QED BY <1>2, <1>3, <1>4

(***************************************************************************)
(* ... and by everything around it.                                        *)
(***************************************************************************)
(* Calls of refresh and their cancellation.                                *)
LEMMA CallersTyped ==
  ASSUME Typed, NEW c \in Callers, Refresh(c) \/ CancelWait(c)
  PROVE  Typed'
PROOF
<1> USE DEF providerVars, refresherVars, operationVars
<1>1. CASE Refresh(c)
  <2>1. op' \in Operations
    BY <1>1, OperationParts DEF Refresh, Typed, TypeOK
  <2>2. TypeOK'
    BY <1>1, <2>1 DEF Refresh, Typed, TypeOK, Running
  <2>3. Awaits' /\ ReadsTracked' /\ Results'
    BY <1>1 DEF Refresh, Typed, Awaits, ReadsTracked, Results, ReadPhases, Pending, Delivery
  <2> QED BY <2>2, <2>3 DEF Typed
<1>2. CASE CancelWait(c)
  <2>1. TypeOK'
    BY <1>2 DEF CancelWait, Typed, TypeOK
  <2>2. Awaits' /\ ReadsTracked' /\ Results'
    BY <1>2 DEF CancelWait, Typed, Awaits, ReadsTracked, Results, ReadPhases, Pending, Delivery
  <2> QED BY <2>1, <2>2 DEF Typed
<1> QED BY <1>1, <1>2

(* The deadline and close.                                                 *)
LEMMA DeadlineTyped ==
  ASSUME Typed, DeadlinePasses \/ TimerFires \/ Close
  PROVE  Typed'
PROOF
<1> USE DEF providerVars
<1>1. op' \in Operations /\ op'.etag = op.etag
  <2>1. op \in Operations /\ Expire(op) \in Operations
    BY OperationParts DEF Typed, TypeOK
  <2> QED BY <2>1 DEF DeadlinePasses, TimerFires, Close, Operations, Expire, Counted
<1>2. wait' = wait \/ (Pending /\ phase \in ReadPhases /\ wait' = "failed")
  BY DEF DeadlinePasses, TimerFires, Close, AbortWait, ReadPhases
<1>3. UNCHANGED <<active, pendingUpdate, provClosed, floor, committed, phase, got, reads, stored,
                  head, now, activated, delivered>>
  BY DEF DeadlinePasses, TimerFires, Close, refresherVars
<1>4. closed' \in BOOLEAN /\ waiting' \in SUBSET Callers
  BY DEF DeadlinePasses, TimerFires, Close, refresherVars, Typed, TypeOK
<1>5. TypeOK'
  BY <1>1, <1>2, <1>3, <1>4 DEF Typed, TypeOK
<1>6. Awaits' /\ ReadsTracked' /\ Results'
  BY <1>1, <1>2, <1>3
     DEF Typed, Awaits, ReadsTracked, Results, ReadPhases, Pending, Delivery
<1> QED BY <1>5, <1>6 DEF Typed

(* What the application does to the provider.                              *)
LEMMA UpdatesTyped ==
  ASSUME Typed,
         \/ ProviderCloses \/ AppPrepares \/ AppEndsTransaction \/ ClockMoves
         \/ \E origin \in AppOrigins : AppUpdates(origin)
  PROVE  Typed'
PROOF
<1>1. UNCHANGED <<refresherVars, operationVars, head, waiting, activated, delivered>>
  BY DEF ProviderCloses, AppPrepares, AppEndsTransaction, ClockMoves, AppUpdates
<1>2. /\ active' \in Origins /\ pendingUpdate' \in {"none", "refresh", "app"}
      /\ provClosed' \in BOOLEAN /\ now' \in 0..MaxTime
  BY OriginsOfParts
     DEF ProviderCloses, AppPrepares, AppEndsTransaction, ClockMoves, AppUpdates, Typed, TypeOK,
         providerVars
<1>3. TypeOK'
  BY <1>1, <1>2 DEF Typed, TypeOK, refresherVars, operationVars
<1>4. Awaits' /\ ReadsTracked' /\ Results'
  BY <1>1 DEF Typed, refresherVars, operationVars, Awaits, ReadsTracked, Results, ReadPhases,
              Pending, Delivery
<1> QED BY <1>3, <1>4 DEF Typed

(* Input and output that ends.                                             *)
LEMMA SettlingTyped ==
  ASSUME Typed,
         \/ LoadOpens \/ LoadSettles \/ FetchSettles \/ AbandonedReadSettles
         \/ CommitTakesEffect \/ CommitSettles \/ OtherWriterAccepts
  PROVE  Typed'
PROOF
<1> USE DEF providerVars, refresherVars, operationVars
<1>1. CASE LoadOpens
  <2>1. TypeOK' BY <1>1 DEF LoadOpens, Typed, TypeOK
  <2>2. Awaits' /\ ReadsTracked' /\ Results'
    BY <1>1 DEF LoadOpens, Typed, TypeOK, Awaits, ReadsTracked, Results, ReadPhases, Pending, Floors
  <2> QED BY <2>1, <2>2 DEF Typed
<1>2. CASE LoadSettles
  <2>1. reads = 1
    BY <1>2 DEF LoadSettles, Typed, ReadsTracked, ReadPhases
  <2>2. TypeOK' BY <1>2, <2>1 DEF LoadSettles, Typed, TypeOK
  <2>3. Awaits' /\ ReadsTracked' /\ Results'
    BY <1>2, <2>1 DEF LoadSettles, Typed, Awaits, ReadsTracked, Results, ReadPhases, Pending
  <2> QED BY <2>2, <2>3 DEF Typed
<1>3. CASE FetchSettles
  <2>1. reads = 1
    BY <1>3 DEF FetchSettles, Typed, ReadsTracked, ReadPhases, Pending
  <2>2. got' \in Responses \cup {None} /\ (wait' = "value" => got' \in Responses)
    <3>1. CASE wait' = "failed"
      BY <1>3, <3>1 DEF FetchSettles
    <3>2. CASE wait' = "value" /\ got' \in [kind : {"content"}, body : Bodies, tagged : BOOLEAN]
      BY <3>2 DEF Responses
    <3>3. ASSUME NEW sent \in Bodies,
                 got' = [kind |-> "notModified", body |-> sent, tagged |-> FALSE]
          PROVE  got' \in Responses
      BY <3>3 DEF Responses
    <3>4. (IF op.etag = None THEN Malformed ELSE op.etag) \in Bodies
      BY DEF Typed, TypeOK, Operations, Bodies
    <3> QED BY <1>3, <3>1, <3>2, <3>3, <3>4 DEF FetchSettles
  <2>3. TypeOK' BY <1>3, <2>1, <2>2 DEF FetchSettles, Typed, TypeOK
  <2>4. Awaits' /\ ReadsTracked' /\ Results'
    BY <1>3, <2>1, <2>2
       DEF FetchSettles, Typed, Awaits, ReadsTracked, Results, ReadPhases, Pending
  <2> QED BY <2>3, <2>4 DEF Typed
<1>4. CASE AbandonedReadSettles
  <2>1. reads = 1
    BY <1>4 DEF AbandonedReadSettles, Typed, ReadsTracked
  <2>2. TypeOK' BY <1>4, <2>1 DEF AbandonedReadSettles, SlotAfterRead, Typed, TypeOK
  <2>3. Awaits' /\ ReadsTracked' /\ Results'
    BY <1>4, <2>1
       DEF AbandonedReadSettles, SlotAfterRead, Typed, Awaits, ReadsTracked, Results, ReadPhases,
           Pending, Delivery
  <2> QED BY <2>2, <2>3 DEF Typed
<1>5. CASE CommitTakesEffect \/ CommitSettles \/ OtherWriterAccepts
  <2>1. head' \in Artifacts \cup {None}
    BY <1>5 DEF CommitTakesEffect, CommitSettles, OtherWriterAccepts, Typed, TypeOK, Results,
                Journal!Accept, Journal!RegisterNext
  <2>2. /\ wait' = wait \/ (phase = "persisting" /\ wait' \in {"failed", "value"})
        /\ stored' \in BOOLEAN
        /\ UNCHANGED <<providerVars, refresherVars, phase, got, reads, op, now, waiting,
                       activated, delivered>>
    BY <1>5 DEF CommitTakesEffect, CommitSettles, OtherWriterAccepts, Typed, TypeOK
  <2>3. TypeOK' BY <2>1, <2>2 DEF Typed, TypeOK
  <2>4. Awaits' /\ ReadsTracked' /\ Results'
    BY <2>2 DEF Typed, Awaits, ReadsTracked, Results, ReadPhases, Pending, Delivery
  <2> QED BY <2>3, <2>4 DEF Typed
<1> QED BY <1>1, <1>2, <1>3, <1>4, <1>5

(* A crash and the recovery after it.                                      *)
LEMMA CrashTyped ==
  ASSUME Typed, Crash \/ LoadsRecovery \/ Restart
  PROVE  Typed'
PROOF
<1> USE DEF providerVars, refresherVars
<1>1. CASE Crash
  <2>1. TypeOK'
    BY <1>1, OperationParts, OriginsOfParts, RefresherAssumption DEF Crash, Typed, TypeOK
  <2>2. Awaits' /\ ReadsTracked' /\ Results'
    BY <1>1 DEF Crash, Awaits, ReadsTracked, Results, ReadPhases, Pending
  <2> QED BY <2>1, <2>2 DEF Typed
<1>2. CASE LoadsRecovery
  <2>1. TypeOK' BY <1>2 DEF LoadsRecovery, Typed, TypeOK
  <2>2. Awaits' /\ ReadsTracked' /\ Results'
    BY <1>2 DEF LoadsRecovery, Typed, TypeOK, Awaits, ReadsTracked, Results, ReadPhases, Pending,
                Floors
  <2> QED BY <2>1, <2>2 DEF Typed
<1>3. CASE Restart
  <2>1. got # None /\ Durable => got \in Artifacts
    BY <1>3 DEF Restart, Typed, Results, Floors
  <2>2. active' \in Origins /\ floor' \in Floors /\ activated' \in Floors /\ delivered' \in Floors
    <3>1. active \in Origins /\ floor \in Floors /\ activated \in Floors /\ delivered \in Floors
      BY DEF Typed, TypeOK, Floors
    <3>2. CASE got = None
      BY <1>3, <3>1, <3>2 DEF Restart, Recovered
    <3>3. CASE got # None
      <4>1. floor' = got /\ got \in Floors
        BY <1>3, <2>1, <3>3 DEF Restart, Recovered, RecoveredFloor, Typed, Results, Floors
      <4>2. CASE Verifies(got, got, now)
        BY <1>3, <3>3, <4>1, <4>2, OriginsOfParts
           DEF Restart, Recovered, Verifies, Floors
      <4>3. CASE ~Verifies(got, got, now)
        BY <1>3, <3>1, <3>3, <4>1, <4>3 DEF Restart, Recovered
      <4> QED BY <4>2, <4>3
    <3> QED BY <3>2, <3>3
  <2>3. TypeOK' BY <1>3, <2>2 DEF Restart, Typed, TypeOK, Running, Floors
  <2>4. Awaits' /\ ReadsTracked' /\ Results'
    BY <1>3 DEF Restart, Typed, Awaits, ReadsTracked, Results, ReadPhases, Pending
  <2> QED BY <2>3, <2>4 DEF Typed
<1> QED BY <1>1, <1>2, <1>3

(* Typed holds in every state.                                             *)
LEMMA TypedInvariant == Spec => []Typed
PROOF
<1>1. Init => Typed
  <2>1. Init => TypeOK
    <3>1. NewOperation \in Operations /\ Unsigned(Bootstrap) \in Origins /\ 0 \in 0..MaxTime
      BY OperationParts, OriginsOfParts, RefresherAssumption
    <3> SUFFICES ASSUME Init PROVE TypeOK
      OBVIOUS
    <3>2. phase \in Running \cup {"idle", "draining", "down", "recovering"}
      BY DEF Init
    <3>3. head = None
      BY DEF Init, Journal!RegisterInit
    <3>4. waiting \in SUBSET Callers /\ reads \in Nat /\ now \in 0..MaxTime
      BY <3>1 DEF Init
    <3>5. provClosed \in BOOLEAN /\ closed \in BOOLEAN /\ stored \in BOOLEAN
      BY DEF Init
    <3> QED BY <3>1, <3>2, <3>3, <3>4, <3>5 DEF Init, TypeOK
  <2>2. Init => Awaits /\ ReadsTracked /\ Results
    BY DEF Init, Awaits, ReadsTracked, Results, ReadPhases, Pending
  <2> QED BY <2>1, <2>2 DEF Typed
<1>2. Typed /\ [Next]_vars => Typed'
  <2> SUFFICES ASSUME Typed, [Next]_vars PROVE Typed'
    OBVIOUS
  <2>1. CASE Worker
    BY <2>1, FailuresTyped, StartsTyped, FetchesTyped, DeliveriesTyped DEF Worker
  <2>2. CASE InputOutput \/ OtherWriterAccepts
    BY <2>2, SettlingTyped DEF InputOutput
  <2>3. CASE Application \/ ClockMoves
    BY <2>3, CallersTyped, UpdatesTyped, DeadlineTyped DEF Application
  <2>4. CASE DeadlinePasses \/ TimerFires
    BY <2>4, DeadlineTyped
  <2>5. CASE Crash \/ LoadsRecovery \/ Restart
    BY <2>5, CrashTyped
  <2>6. CASE UNCHANGED vars
    <3>1. TypeOK'
      BY <2>6 DEF vars, providerVars, refresherVars, operationVars, Typed, TypeOK
    <3>2. Awaits' /\ ReadsTracked' /\ Results'
      BY <2>6 DEF vars, providerVars, refresherVars, operationVars, Typed, Awaits, ReadsTracked,
                  Results, ReadPhases, Pending, Delivery
    <3> QED BY <3>1, <3>2 DEF Typed
  <2> QED BY <2>1, <2>2, <2>3, <2>4, <2>5, <2>6 DEF Next
<1> QED BY <1>1, <1>2, PTL DEF Spec

(* Every reachable state is a state of the program.                        *)
THEOREM RefresherTypeCorrect == Spec => []TypeOK
PROOF
<1>1. Typed => TypeOK
  BY DEF Typed
<1> QED BY <1>1, TypedInvariant, PTL

(* The slot stays taken until a read has settled, so no two refreshes ever *)
(* have reads of the source or the store outstanding.                      *)
THEOREM ReadsNeverOverlap == Spec => []NoOverlappingIO
PROOF
<1>1. Typed => NoOverlappingIO
  BY DEF Typed, ReadsTracked, ReadPhases, NoOverlappingIO
<1> QED BY <1>1, TypedInvariant, PTL

(***************************************************************************)
(* The actions by what they do to the worker: settle it from a phase other *)
(* than persisting, settle it from persisting, move it on, or leave it.    *)
(***************************************************************************)
FailsEarly ==
  \/ ResumesTooLate \/ StartsClosed \/ LoadFails \/ LoadedButUnusable \/ FetchFails
  \/ ContentInvalid \/ SignatureInvalid \/ ValidatedTooLate \/ UpdateRefused

FailsPersisting ==
  PersistFails \/ PersistedTooLate \/ PersistedButClosed \/ PersistedButStale \/ ReverifiedTooLate

(* A failure before the commit leaves the provider and the store alone.    *)
LEMMA FailsEarlyEffect ==
  ASSUME FailsEarly
  PROVE  /\ phase \in {"starting", "loading", "fetching"}
         /\ phase' \in {"idle", "draining"}
         /\ wait' = "none"
         /\ UNCHANGED <<active, committed, activated, delivered, pendingUpdate, provClosed, closed,
                        head, now>>
PROOF BY DEF FailsEarly, ResumesTooLate, StartsClosed, LoadFails, LoadedButUnusable, Loaded, FetchFails,
             ContentInvalid, SignatureInvalid, ValidatedTooLate, UpdateRefused, Validated, Fetched,
             Resumes, Fail, Finish, SlotAfterWorker

(* A failure of or after the commit releases the reservation.              *)
LEMMA FailsPersistingEffect ==
  ASSUME FailsPersisting
  PROVE  /\ phase = "persisting"
         /\ phase' \in {"idle", "draining"}
         /\ wait' = "none"
         /\ pendingUpdate' = "none"
         /\ UNCHANGED <<active, committed, activated, delivered, provClosed, closed, head, now>>
PROOF BY DEF FailsPersisting, PersistFails, PersistedTooLate, PersistedButClosed, PersistedButStale,
             ReverifiedTooLate, Activatable, Acknowledged, Release, Resumes, Fail, Finish,
             SlotAfterWorker

(* A worker's step fails, goes on or delivers.                             *)
LEMMA WorkerCases ==
  ASSUME Worker
  PROVE  FailsEarly \/ FailsPersisting \/ Starts \/ Fetches \/ Reserves \/ AppliesDirectly \/ Activates
PROOF BY DEF Worker, FailsEarly, FailsPersisting

(* A delivery without a store ends the refresh.                            *)
LEMMA AppliesEffect ==
  ASSUME AppliesDirectly
  PROVE  /\ phase = "fetching" /\ ~Durable
         /\ phase' \in {"idle", "draining"}
         /\ wait' = "none"
         /\ UNCHANGED <<pendingUpdate, provClosed, closed, head, now>>
PROOF BY DEF AppliesDirectly, Adopt, ReplacedByHandler, Validated, Fetched, Resumes, Finish,
             SlotAfterWorker

(* An activation ends the refresh and delivers what was persisted.         *)
LEMMA ActivatesEffect ==
  ASSUME Activates
  PROVE  /\ phase = "persisting" /\ wait = "value"
         /\ phase' \in {"idle", "draining"}
         /\ wait' = "none"
         /\ pendingUpdate' = "none"
         /\ floor' = Delivery /\ activated' = Delivery /\ delivered' = Delivery
         /\ UNCHANGED <<provClosed, closed, head, now>>
PROOF BY DEF Activates, Activatable, Acknowledged, Release, Adopt, ReplacedByHandler, Resumes, Finish,
             SlotAfterWorker

(***************************************************************************)
(* The provider's reservation.                                             *)
(***************************************************************************)
(* The reservation is held exactly while store.commit runs.                *)
THEOREM ReservationOnlyWhilePersisting == Spec => []ReservationHeldWhilePersisting
PROOF
<1>1. Init => ReservationHeldWhilePersisting
  BY DEF Init, ReservationHeldWhilePersisting
<1>2. ReservationHeldWhilePersisting /\ [Next]_vars => ReservationHeldWhilePersisting'
  <2> SUFFICES ASSUME ReservationHeldWhilePersisting, [Next]_vars
               PROVE  ReservationHeldWhilePersisting'
    OBVIOUS
  <2> USE DEF ReservationHeldWhilePersisting, providerVars, refresherVars, operationVars
  <2>1. CASE Worker
    <3>1. CASE Starts \/ Fetches
      BY <3>1, RefresherAssumption DEF Starts, Fetches, Loaded, BeginRead, Resumes
    <3>2. CASE Reserves
      BY <3>2 DEF Reserves
    <3> QED BY <2>1, <3>1, <3>2, WorkerCases, FailsEarlyEffect, FailsPersistingEffect, AppliesEffect,
               ActivatesEffect
  <2>2. CASE InputOutput \/ OtherWriterAccepts
    BY <2>2 DEF InputOutput, LoadOpens, LoadSettles, FetchSettles, AbandonedReadSettles, SlotAfterRead,
                CommitTakesEffect, CommitSettles, OtherWriterAccepts
  <2>3. CASE Application \/ ClockMoves \/ DeadlinePasses \/ TimerFires
    BY <2>3 DEF Application, Refresh, CancelWait, AppUpdates, AppPrepares, AppEndsTransaction, Close,
                ProviderCloses, ClockMoves, DeadlinePasses, TimerFires, UpdateAvailable
  <2>4. CASE Crash \/ LoadsRecovery \/ Restart
    BY <2>4 DEF Crash, LoadsRecovery, Restart
  <2>5. CASE UNCHANGED vars
    BY <2>5 DEF vars
  <2> QED BY <2>1, <2>2, <2>3, <2>4, <2>5 DEF Next
<1> QED BY <1>1, <1>2, PTL DEF Spec

(***************************************************************************)
(* Failures are counted once.  While a worker runs, the only thing that    *)
(* can have been counted or answered is the deadline.                      *)
(***************************************************************************)
Undecided(o) ==
  /\ o.answer = IF o.timedOut THEN "timeout" ELSE "none"
  /\ o.counted = IF o.timedOut THEN 1 ELSE 0

CountedSoFar ==
  /\ phase \in Running => Undecided(op)
  /\ FailureCountedExactlyOnce

(* What Counted and Expire do to an operation.                             *)
LEMMA OperationFields ==
  ASSUME NEW o \in Operations
  PROVE  /\ Counted(o).counted = (IF o.counted = 0 THEN 1 ELSE o.counted)
         /\ Counted(o).answer = o.answer
         /\ Expire(o).counted = (IF o.counted = 0 THEN 1 ELSE o.counted)
         /\ Expire(o).answer = (IF o.answer = "none" THEN "timeout" ELSE o.answer)
         /\ Expire(o).timedOut
PROOF
<1>1. Counted(o) \in Operations
  BY OperationParts
<1>2. /\ Counted(o).counted = (IF o.counted = 0 THEN 1 ELSE o.counted)
      /\ Counted(o).answer = o.answer
  BY DEF Counted, CountOnce, Operations
<1>3. /\ Expire(o).counted = Counted(o).counted
      /\ Expire(o).answer = (IF Counted(o).answer = "none" THEN "timeout" ELSE Counted(o).answer)
  BY <1>1 DEF Expire, Operations
<1>4. Expire(o).timedOut
  BY <1>1 DEF Expire, Operations
<1> QED BY <1>2, <1>3, <1>4

(* Ending a refresh keeps the count and the first answer.                  *)
LEMMA FinishCounts ==
  ASSUME NEW o \in Operations, NEW answer \in {"ok", "error"}, Finish(o, answer)
  PROVE  /\ op'.counted = o.counted
         /\ op'.answer = (IF o.answer = "none" THEN answer ELSE o.answer)
         /\ phase' \notin Running
         /\ UNCHANGED <<closed, provClosed>>
PROOF BY DEF Finish, SlotAfterWorker, Running, NewOperation

(* A failure that the deadline, the refresher or the provider counted.     *)
LEMMA FailCounts ==
  ASSUME TypeOK, Undecided(op), NEW o, Fail(o),
         \/ o = op /\ (closed \/ provClosed \/ op.timedOut)
         \/ o = Counted(op)
         \/ o = Expire(op)
  PROVE  CountedSoFar'
PROOF
<1>1. op \in Operations /\ Counted(op) \in Operations /\ Expire(op) \in Operations
  BY OperationParts DEF TypeOK
<1>2. o \in Operations /\ Finish(o, "error")
  BY <1>1 DEF Fail
<1>3. /\ op'.counted = o.counted
      /\ op'.answer = (IF o.answer = "none" THEN "error" ELSE o.answer)
      /\ phase' \notin Running /\ closed' = closed /\ provClosed' = provClosed
  BY <1>2, FinishCounts
<1>4. CASE o = op /\ (closed \/ provClosed \/ op.timedOut)
  BY <1>3, <1>4 DEF CountedSoFar, FailureCountedExactlyOnce, Undecided
<1>5. CASE o = Counted(op) \/ o = Expire(op)
  <2>1. o.counted = 1 /\ o.answer # "ok"
    BY <1>1, <1>5, OperationFields DEF Undecided
  <2> QED BY <1>3, <2>1 DEF CountedSoFar, FailureCountedExactlyOnce
<1> QED BY <1>4, <1>5

(* A failure is counted unless the deadline has been.                      *)
LEMMA FailuresCount ==
  ASSUME TypeOK, CountedSoFar, FailsEarly \/ FailsPersisting
  PROVE  CountedSoFar'
PROOF
<1>1. Undecided(op)
  BY FailsEarlyEffect, FailsPersistingEffect DEF CountedSoFar, Running
<1>2. (TimedOut(op) = op /\ op.timedOut) \/ TimedOut(op) = Expire(op)
  BY DEF TimedOut
<1>3. CASE ResumesTooLate \/ PersistedTooLate
  BY <1>1, <1>2, <1>3, FailCounts DEF ResumesTooLate, PersistedTooLate
<1>4. CASE StartsClosed \/ PersistedButClosed
  BY <1>1, <1>4, FailCounts DEF StartsClosed, PersistedButClosed
<1>5. CASE LoadFails
  BY <1>1, <1>5, FailCounts DEF LoadFails
<1>6. CASE LoadedButUnusable
  BY <1>1, <1>6, FailCounts DEF LoadedButUnusable
<1>7. CASE FetchFails
  BY <1>1, <1>7, FailCounts DEF FetchFails
<1>8. CASE ContentInvalid \/ SignatureInvalid \/ UpdateRefused
  BY <1>1, <1>8, FailCounts DEF ContentInvalid, SignatureInvalid, UpdateRefused
<1>9. CASE ValidatedTooLate \/ ReverifiedTooLate
  BY <1>1, <1>9, FailCounts DEF ValidatedTooLate, ReverifiedTooLate
<1>10. CASE PersistFails \/ PersistedButStale
  BY <1>1, <1>10, FailCounts DEF PersistFails, PersistedButStale
<1> QED BY <1>3, <1>4, <1>5, <1>6, <1>7, <1>8, <1>9, <1>10 DEF FailsEarly, FailsPersisting

(* A success is not counted.                                               *)
LEMMA SettlementsCount ==
  ASSUME TypeOK, CountedSoFar, AppliesDirectly \/ Activates
  PROVE  CountedSoFar'
PROOF
<1>1. Undecided(op)
  BY AppliesEffect, ActivatesEffect DEF CountedSoFar, Running
<1>2. op \in Operations /\ Counted(op) \in Operations
  BY OperationParts DEF TypeOK
<1>3. ~op.timedOut
  BY DEF AppliesDirectly, Activates, Activatable, Validated, Fetched, TimeUp
<1>4. Finish(op, "ok") \/ Finish(Counted(op), "error")
  BY DEF AppliesDirectly, Activates, Adopt, ReplacedByHandler
<1>5. CASE Finish(op, "ok")
  BY <1>1, <1>2, <1>3, <1>5, FinishCounts
     DEF CountedSoFar, FailureCountedExactlyOnce, Undecided
<1>6. CASE Finish(Counted(op), "error")
  BY <1>1, <1>2, <1>3, <1>6, FinishCounts, OperationFields
     DEF CountedSoFar, FailureCountedExactlyOnce, Undecided
<1> QED BY <1>4, <1>5, <1>6

(* No other step counts or answers but the deadline.                       *)
LEMMA OthersCount ==
  ASSUME TypeOK, CountedSoFar, [Next]_vars,
         ~(FailsEarly \/ FailsPersisting \/ AppliesDirectly \/ Activates)
  PROVE  CountedSoFar'
PROOF
<1> USE DEF CountedSoFar, FailureCountedExactlyOnce, Undecided, Running, providerVars,
            refresherVars, operationVars
<1>1. op \in Operations
  BY DEF TypeOK
<1>2. CASE \E c \in Callers : Refresh(c)
  BY <1>1, <1>2 DEF Refresh, NewOperation
<1>3. CASE Starts \/ Fetches \/ Reserves
  BY <1>1, <1>3 DEF Starts, Fetches, Loaded, BeginRead, Resumes, Reserves, Validated, Fetched, Operations
<1>4. CASE DeadlinePasses
  BY <1>1, <1>4 DEF DeadlinePasses, Operations
<1>5. CASE TimerFires
  BY <1>1, <1>5, OperationFields DEF TimerFires, DeadlinePhases
<1>6. CASE Close
  BY <1>1, <1>6 DEF Close, Operations
<1>7. CASE Crash
  BY <1>7 DEF Crash, NewOperation
<1>8. CASE InputOutput \/ OtherWriterAccepts \/ ClockMoves \/ LoadsRecovery \/ Restart \/ UNCHANGED vars
  BY <1>8 DEF InputOutput, LoadOpens, LoadSettles, FetchSettles, AbandonedReadSettles, SlotAfterRead,
              CommitTakesEffect, CommitSettles, OtherWriterAccepts, ClockMoves, LoadsRecovery, Restart,
              vars
<1>9. CASE \/ \E c \in Callers : CancelWait(c)
           \/ \E origin \in AppOrigins : AppUpdates(origin)
           \/ AppPrepares \/ AppEndsTransaction \/ ProviderCloses
  BY <1>9 DEF CancelWait, AppUpdates, AppPrepares, AppEndsTransaction, ProviderCloses
<1> QED BY <1>2, <1>3, <1>4, <1>5, <1>6, <1>7, <1>8, <1>9, WorkerCases DEF Next, Application

(* CountedSoFar holds in every state.                                      *)
LEMMA CountedInvariant == Spec => []CountedSoFar
PROOF
<1>1. Init => CountedSoFar
  BY DEF Init, CountedSoFar, FailureCountedExactlyOnce, Running, NewOperation
<1>2. TypeOK /\ CountedSoFar /\ [Next]_vars => CountedSoFar'
  BY FailuresCount, SettlementsCount, OthersCount
<1> QED BY <1>1, <1>2, RefresherTypeCorrect, PTL DEF Spec

(* The refresher's bookkeeping as the runs check it.                       *)
THEOREM RefresherIsSound == Spec => []RefresherSound
PROOF
<1>1. TypeOK /\ ReservationHeldWhilePersisting /\ NoOverlappingIO => RefresherSound
  BY DEF RefresherSound
<1> QED BY <1>1, RefresherTypeCorrect, ReservationOnlyWhilePersisting, ReadsNeverOverlap, PTL

(* Whichever of deadline, store, source, verifier or provider spoke first, *)
(* a refused refresh is one more failure in the status, and a successful   *)
(* one none.                                                               *)
THEOREM FailuresCountedOnce == Spec => []FailureCountedExactlyOnce
PROOF
<1>1. CountedSoFar => FailureCountedExactlyOnce
  BY DEF CountedSoFar
<1> QED BY <1>1, CountedInvariant, PTL

(***************************************************************************)
(* A claim stands behind an artifact that continues it.                    *)
(***************************************************************************)
Behind(previous, a) == previous # None => a # None /\ Continues(a, previous)

(* A floor covers itself.                                                  *)
LEMMA BehindReflexive ==
  \A a \in Floors : Behind(a, a)
PROOF BY ContinuesReflexive DEF Behind, Floors

(* A floor covers what is covered by what it covers.                       *)
LEMMA BehindTransitive ==
  ASSUME NEW a \in Floors, NEW b \in Floors, NEW c \in Floors, Behind(a, b), Behind(b, c)
  PROVE  Behind(a, c)
PROOF
<1>1. CASE a = None
  BY <1>1 DEF Behind
<1>2. CASE a # None
  <2>1. a \in Artifacts /\ b \in Artifacts /\ c \in Artifacts
    BY <1>2 DEF Behind, Floors
  <2>2. Continues(b, a) /\ Continues(c, b)
    BY <1>2, <2>1, ArtifactAssumption DEF Behind
  <2>3. Continues(c, a)
    BY <2>1, <2>2, ContinuesTransitive DEF Floors
  <2> QED BY <2>1, <2>3, ArtifactAssumption DEF Behind
<1> QED BY <1>1, <1>2

(* A merged floor covers both of its parts.                                *)
LEMMA BehindMerged ==
  ASSUME NEW previous \in Floors, NEW candidate \in Floors, Compatible(previous, candidate)
  PROVE  /\ Behind(previous, MergeFloor(previous, candidate))
         /\ Behind(candidate, MergeFloor(previous, candidate))
PROOF BY MergedFloorCoversBoth DEF Behind

(***************************************************************************)
(* The replay floor.  While the process lives the floor covers what was    *)
(* delivered; across crashes the journal's head does; and in between, what *)
(* a restart read from the journal and what is being persisted stand in    *)
(* the same order.                                                         *)
(***************************************************************************)
FloorCovers == Alive => Behind(delivered, floor)

HeadCovers == Durable => Behind(delivered, head)

RecoveryCovers ==
  phase = "recovering" => Behind(delivered, got) /\ Behind(got, head)

PersistedCovers ==
  phase = "persisting" =>
    /\ Behind(floor, Delivery)
    /\ stored \/ wait = "value" => Behind(Delivery, head)

Forgotten ==
  /\ ~Signed => delivered = None
  /\ ~Durable /\ phase = "down" => delivered = None

Covered == FloorCovers /\ HeadCovers /\ RecoveryCovers /\ PersistedCovers /\ Forgotten

(* Where Typed says that a variable holds a floor.                         *)
LEMMA TypedFloors ==
  ASSUME Typed
  PROVE  /\ floor \in Floors /\ head \in Floors /\ delivered \in Floors
         /\ op.before.art \in Floors
         /\ phase = "loading" => got \in Floors
         /\ phase = "recovering" => got \in Floors
         /\ phase = "down" => got = None
         /\ phase = "persisting" => Delivery \in Artifacts /\ Signed /\ Durable
PROOF
<1>1. /\ floor \in Floors /\ head \in Floors /\ delivered \in Floors
      /\ op.before \in Origins
  BY DEF Typed, TypeOK, Operations, Floors
<1>2. op.before.art \in Floors
  BY <1>1 DEF Origins, Floors
<1> QED BY <1>1, <1>2, RefresherAssumption DEF Typed, Results

(* A step that delivers nothing and lets neither floor nor head fall       *)
(* behind keeps everything covered.                                        *)
LEMMA StaysCovered ==
  ASSUME Typed, Typed', Covered, Alive,
         phase' \notin {"persisting", "recovering", "down"},
         delivered' = delivered, Behind(floor, floor'), Behind(head, head')
  PROVE  Covered'
PROOF
<1>1. /\ floor \in Floors /\ head \in Floors /\ delivered \in Floors
      /\ floor' \in Floors /\ head' \in Floors
  BY DEF Typed, TypeOK, Floors
<1>2. Behind(delivered, floor) /\ (Durable => Behind(delivered, head))
  BY DEF Covered, FloorCovers, HeadCovers
<1>3. Behind(delivered, floor') /\ (Durable => Behind(delivered, head'))
  BY <1>1, <1>2, BehindTransitive
<1>4. FloorCovers' /\ HeadCovers'
  BY <1>3 DEF FloorCovers, HeadCovers, Behind
<1>5. RecoveryCovers' /\ PersistedCovers' /\ Forgotten'
  BY DEF RecoveryCovers, PersistedCovers, Forgotten, Covered
<1> QED BY <1>4, <1>5 DEF Covered

(* A refused refresh moves the floor only upwards.                         *)
LEMMA EarlyFailureKeepsFloor ==
  ASSUME Typed, FailsEarly
  PROVE  Behind(floor, floor')
PROOF
<1>1. /\ floor \in Floors /\ op.before.art \in Floors
      /\ phase = "loading" => got \in Floors
  BY TypedFloors
<1>2. Behind(floor, floor)
  BY <1>1, BehindReflexive
<1>3. Compatible(floor, op.before.art) => Behind(floor, SignatureFloor)
  BY <1>1, BehindMerged DEF SignatureFloor
<1>4. CASE ResumesTooLate \/ StartsClosed \/ LoadFails \/ FetchFails \/ ContentInvalid
  BY <1>2, <1>4 DEF ResumesTooLate, StartsClosed, LoadFails, FetchFails, ContentInvalid
<1>5. CASE LoadedButUnusable
  <2>1. phase = "loading" /\ Compatible(floor, got) /\ floor' = MergeFloor(floor, got)
    BY <1>5 DEF LoadedButUnusable, Loaded, Resumes
  <2> QED BY <1>1, <2>1, BehindMerged
<1>6. CASE SignatureInvalid
  BY <1>2, <1>3, <1>6 DEF SignatureInvalid
<1>7. CASE ValidatedTooLate \/ UpdateRefused
  <2>1. floor' = ValidationFloor /\ Verified
    BY <1>7 DEF ValidatedTooLate, UpdateRefused, Validated
  <2> QED BY <1>2, <1>3, <2>1 DEF ValidationFloor, Verified
<1> QED BY <1>4, <1>5, <1>6, <1>7 DEF FailsEarly

(* A failure may raise the floor, and takes nothing from it.               *)
LEMMA FailuresCovered ==
  ASSUME Typed, Typed', Covered, FailsEarly \/ FailsPersisting
  PROVE  Covered'
PROOF
<1>1. floor \in Floors /\ head \in Floors
  BY TypedFloors
<1>2. Behind(floor, floor) /\ Behind(head, head)
  BY <1>1, BehindReflexive
<1>3. CASE FailsEarly
  BY <1>2, <1>3, FailsEarlyEffect, EarlyFailureKeepsFloor, StaysCovered DEF Alive
<1>4. CASE FailsPersisting
  <2>1. /\ phase = "persisting" /\ phase' \in {"idle", "draining"}
        /\ delivered' = delivered /\ head' = head
    BY <1>4, FailsPersistingEffect
  <2>2. floor' = floor \/ floor' = Delivery
    BY <1>4 DEF FailsPersisting, PersistFails, PersistedTooLate, PersistedButClosed,
                PersistedButStale, ReverifiedTooLate, Activatable, Acknowledged
  <2>3. Behind(floor, floor')
    BY <1>2, <2>1, <2>2 DEF Covered, PersistedCovers
  <2> QED BY <1>2, <2>1, <2>3, StaysCovered DEF Alive
<1> QED BY <1>3, <1>4

(* A delivery raises the floor with what is delivered.                     *)
LEMMA DeliveriesCovered ==
  ASSUME Typed, Typed', Covered, Starts \/ Fetches \/ Reserves \/ AppliesDirectly \/ Activates
  PROVE  Covered'
PROOF
<1>1. /\ floor \in Floors /\ head \in Floors /\ delivered \in Floors /\ op.before.art \in Floors
      /\ phase = "loading" => got \in Floors
  BY TypedFloors
<1>2. Behind(floor, floor) /\ Behind(head, head)
  BY <1>1, BehindReflexive
<1>3. CASE Starts
  <2>1. /\ phase = "starting" /\ phase' \in {"loading", "fetching"}
        /\ delivered' = delivered /\ floor' = floor /\ head' = head
    BY <1>3 DEF Starts, BeginRead, Resumes, refresherVars
  <2> QED BY <1>2, <2>1, StaysCovered DEF Alive
<1>4. CASE Fetches
  <2>1. /\ phase = "loading" /\ phase' = "fetching" /\ Compatible(floor, got)
        /\ floor' = MergeFloor(floor, got) /\ delivered' = delivered /\ head' = head
    BY <1>4 DEF Fetches, Loaded, BeginRead, Resumes
  <2> QED BY <1>1, <1>2, <2>1, BehindMerged, StaysCovered DEF Alive
<1>5. CASE Reserves
  <2>1. /\ phase = "fetching" /\ Durable /\ Signed
        /\ Compatible(floor, op.before.art) /\ Verifies(Delivery, SignatureFloor, now)
    BY <1>5, RefresherAssumption DEF Reserves, Validated, Verified, Fetched, Resumes
  <2>2. /\ phase' = "persisting" /\ wait' = "pending" /\ ~stored'
        /\ floor' = SignatureFloor /\ delivered' = delivered /\ head' = head
        /\ got' = got /\ committed' = committed
    BY <1>5 DEF Reserves
  <2>3. Behind(floor, SignatureFloor) /\ SignatureFloor \in Floors
    BY <1>1, <2>1, BehindMerged, FloorsKept DEF SignatureFloor, Typed
  <2>4. Behind(delivered, floor')
    BY <1>1, <2>1, <2>2, <2>3, BehindTransitive DEF Covered, FloorCovers, Alive
  <2>5. Behind(floor', Delivery)
    BY <2>1, <2>2, ArtifactAssumption DEF Verifies, Behind
  <2>6. Delivery' = Delivery
    BY <2>2 DEF Delivery
  <2>7. FloorCovers' /\ HeadCovers' /\ RecoveryCovers' /\ PersistedCovers' /\ Forgotten'
    BY <2>1, <2>2, <2>4, <2>5, <2>6
       DEF Covered, FloorCovers, HeadCovers, RecoveryCovers, PersistedCovers, Forgotten, Behind
  <2> QED BY <2>7 DEF Covered
<1>6. CASE AppliesDirectly
  <2>1. /\ phase = "fetching" /\ ~Durable /\ phase' \in {"idle", "draining"} /\ head' = head
    BY <1>6, AppliesEffect
  <2>2. Signed => /\ Delivery \in Artifacts
                  /\ Compatible(floor, op.before.art)
    BY <1>6 DEF AppliesDirectly, Validated, Verified, Verifies
  <2>3. Behind(floor, ValidationFloor)
    BY <1>1, <1>2, <2>2, BehindMerged DEF ValidationFloor, SignatureFloor
  <2>4. CASE delivered' = delivered /\ Behind(floor, floor')
    BY <1>2, <2>1, <2>4, StaysCovered DEF Alive
  <2>5. CASE Signed /\ delivered' = Delivery /\ floor' = Delivery
    <3>1. Behind(delivered', floor')
      BY <2>2, <2>5, BehindReflexive DEF Floors
    <3> QED BY <2>1, <2>5, <3>1
            DEF Covered, FloorCovers, HeadCovers, RecoveryCovers, PersistedCovers, Forgotten, Behind
  <2>6. \/ delivered' = delivered /\ Behind(floor, floor')
        \/ Signed /\ delivered' = Delivery /\ floor' = Delivery
    BY <1>2, <1>6, <2>3 DEF AppliesDirectly
  <2> QED BY <2>4, <2>5, <2>6
<1>7. CASE Activates
  <2>1. /\ phase = "persisting" /\ wait = "value" /\ phase' \in {"idle", "draining"}
        /\ floor' = Delivery /\ delivered' = Delivery /\ head' = head
    BY <1>7, ActivatesEffect
  <2>2. Delivery \in Floors /\ Signed /\ Durable
    BY <2>1, TypedFloors DEF Floors
  <2>3. Behind(delivered', floor') /\ Behind(delivered', head')
    BY <2>1, <2>2, BehindReflexive DEF Covered, PersistedCovers
  <2> QED BY <2>1, <2>2, <2>3
          DEF Covered, FloorCovers, HeadCovers, RecoveryCovers, PersistedCovers, Forgotten, Behind
<1> QED BY <1>3, <1>4, <1>5, <1>6, <1>7

(* Nothing else touches floor, delivered or what is being persisted; only  *)
(* the head may advance.                                                   *)
LEMMA QuietSteps ==
  ASSUME Typed, Typed', Covered, phase' = phase, phase # "recovering",
         UNCHANGED <<floor, delivered>>, Behind(head, head'),
         phase = "persisting" =>
           /\ Delivery' = Delivery
           /\ stored' \/ wait' = "value" => stored \/ wait = "value" \/ Behind(Delivery, head')
  PROVE  Covered'
PROOF
<1>1. /\ floor \in Floors /\ head \in Floors /\ delivered \in Floors /\ head' \in Floors
      /\ phase = "persisting" => Delivery \in Floors
  BY TypedFloors DEF Typed, TypeOK, Floors
<1>2. HeadCovers'
  BY <1>1, BehindTransitive DEF Covered, HeadCovers, Behind
<1>3. FloorCovers' /\ RecoveryCovers' /\ Forgotten'
  BY DEF Covered, FloorCovers, RecoveryCovers, Forgotten, Alive, Behind
<1>4. PersistedCovers'
  <2>1. ASSUME phase = "persisting", stored' \/ wait' = "value"
        PROVE  Behind(Delivery, head')
    BY <1>1, <2>1, BehindTransitive DEF Covered, PersistedCovers
  <2> QED BY <2>1 DEF Covered, PersistedCovers, Behind
<1> QED BY <1>2, <1>3, <1>4 DEF Covered

(* Of what ends, only the commit moves the head, to what continues it.     *)
LEMMA SettlingCovered ==
  ASSUME Typed, Typed', Covered, InputOutput
  PROVE  Covered'
PROOF
<1>1. head \in Floors /\ Behind(head, head) /\ (phase = "persisting" => Delivery \in Floors)
  BY TypedFloors, BehindReflexive DEF Floors
<1> USE DEF providerVars, refresherVars, operationVars
<1>2. CASE LoadOpens \/ LoadSettles \/ FetchSettles
  BY <1>1, <1>2, QuietSteps DEF LoadOpens, LoadSettles, FetchSettles
<1>3. CASE AbandonedReadSettles
  <2>1. /\ UNCHANGED <<floor, delivered, head, committed, got, wait, stored>>
        /\ phase' = phase \/ (phase = "draining" /\ phase' = "idle")
    BY <1>3 DEF AbandonedReadSettles, SlotAfterRead
  <2>2. phase # "recovering"
    BY <1>3 DEF AbandonedReadSettles, Typed, ReadsTracked, ReadPhases
  <2>3. Delivery' = Delivery
    BY <2>1 DEF Delivery
  <2>4. CASE phase' = phase
    BY <1>1, <2>1, <2>2, <2>3, <2>4, QuietSteps
  <2>5. CASE phase = "draining" /\ phase' = "idle"
    <3>1. Behind(floor, floor')
      BY <2>1, TypedFloors, BehindReflexive
    <3> QED BY <1>1, <2>1, <2>5, <3>1, StaysCovered DEF Alive
  <2> QED BY <2>1, <2>4, <2>5
<1>4. CASE CommitTakesEffect
  <2>1. /\ phase = "persisting" /\ phase' = phase /\ head' = Delivery
        /\ Journal!Accept(Delivery)
        /\ UNCHANGED <<floor, delivered, committed, got>>
    BY <1>4 DEF CommitTakesEffect, Journal!Accept
  <2>2. Delivery' = Delivery
    BY <2>1 DEF Delivery
  <2>3. Continues(Delivery, head) /\ Delivery \in Artifacts
    BY <2>1, TypedFloors DEF Journal!Accept, Journal!Continues, Continues
  <2>4. Behind(head, head') /\ Behind(Delivery, head')
    BY <2>1, <2>3, ContinuesReflexive, ArtifactAssumption DEF Behind
  <2> QED BY <2>1, <2>2, <2>4, QuietSteps
<1>5. CASE CommitSettles
  <2>1. /\ phase = "persisting" /\ phase' = phase
        /\ UNCHANGED <<floor, delivered, head, committed, got>>
        /\ wait' = "failed" \/ stored
        /\ ~stored'
    BY <1>5 DEF CommitSettles
  <2>2. Delivery' = Delivery
    BY <2>1 DEF Delivery
  <2> QED BY <1>1, <2>1, <2>2, QuietSteps
<1> QED BY <1>2, <1>3, <1>4, <1>5 DEF InputOutput

(* The surroundings move the head at most, to what continues it.           *)
LEMMA SurroundingsCovered ==
  ASSUME Typed, Typed', Covered,
         \/ Application \/ DeadlinePasses \/ TimerFires \/ OtherWriterAccepts \/ ClockMoves
         \/ UNCHANGED vars
  PROVE  Covered'
PROOF
<1>1. head \in Floors /\ floor \in Floors /\ Behind(head, head) /\ Behind(floor, floor)
  BY TypedFloors, BehindReflexive
<1> USE DEF providerVars, refresherVars, operationVars
<1>2. ASSUME phase' = phase, UNCHANGED <<floor, delivered, committed, got, stored>>,
             wait' = wait \/ wait' = "failed", Behind(head, head')
      PROVE  Covered'
  <2>1. Delivery' = Delivery
    BY <1>2 DEF Delivery
  <2>2. CASE phase # "recovering"
    BY <1>2, <2>1, <2>2, QuietSteps
  <2>3. CASE phase = "recovering"
    <3>1. /\ got \in Floors /\ delivered \in Floors /\ head' \in Floors
      BY <2>3, TypedFloors DEF Typed, TypeOK, Floors
    <3>2. Behind(delivered, got) /\ Behind(got, head)
      BY <2>3 DEF Covered, RecoveryCovers
    <3>3. Behind(got, head') /\ Behind(delivered, head')
      BY <1>1, <1>2, <3>1, <3>2, BehindTransitive
    <3> QED BY <1>2, <2>3, <3>2, <3>3
            DEF Covered, FloorCovers, HeadCovers, RecoveryCovers, PersistedCovers, Forgotten, Alive, Behind
  <2> QED BY <2>2, <2>3
<1>3. CASE OtherWriterAccepts
  <2>1. PICK a \in Artifacts : Journal!Accept(a)
    BY <1>3 DEF OtherWriterAccepts, Journal!RegisterNext
  <2>2. Behind(head, head')
    BY <2>1, ArtifactAssumption DEF Journal!Accept, Journal!Continues, Continues, Behind
  <2> QED BY <1>2, <1>3, <2>2 DEF OtherWriterAccepts
<1>4. CASE ClockMoves \/ UNCHANGED vars
  BY <1>1, <1>2, <1>4 DEF ClockMoves, vars
<1>5. CASE DeadlinePasses \/ TimerFires \/ Close
  BY <1>1, <1>2, <1>5 DEF DeadlinePasses, TimerFires, Close, AbortWait
<1>6. CASE ProviderCloses \/ AppPrepares \/ AppEndsTransaction
  BY <1>1, <1>2, <1>6 DEF ProviderCloses, AppPrepares, AppEndsTransaction
<1>7. CASE \E origin \in AppOrigins : AppUpdates(origin)
  BY <1>1, <1>2, <1>7 DEF AppUpdates
<1>8. CASE \E c \in Callers : CancelWait(c)
  BY <1>1, <1>2, <1>8 DEF CancelWait
<1>9. CASE \E c \in Callers : Refresh(c)
  <2>1. PICK c \in Callers : Refresh(c)
    BY <1>9
  <2>2. /\ phase' = phase \/ (phase = "idle" /\ phase' = "starting")
        /\ UNCHANGED <<floor, delivered, head, committed, got, wait, stored>>
    BY <2>1 DEF Refresh
  <2>3. CASE phase' = phase
    BY <1>1, <1>2, <2>2, <2>3
  <2>4. CASE phase = "idle" /\ phase' = "starting"
    BY <1>1, <2>2, <2>4, StaysCovered DEF Alive
  <2> QED BY <2>2, <2>3, <2>4
<1> QED BY <1>3, <1>4, <1>5, <1>6, <1>7, <1>8, <1>9 DEF Application

(* A crash forgets the floor and keeps the head; a restart recovers the    *)
(* floor from the head before anything can be delivered.                   *)
LEMMA RestartCovered ==
  ASSUME Typed, Typed', Covered, Crash \/ LoadsRecovery \/ Restart
  PROVE  Covered'
PROOF
<1>1. /\ head \in Floors /\ delivered \in Floors
      /\ phase = "recovering" => got \in Floors
      /\ phase = "down" => got = None
  BY TypedFloors
<1> USE DEF providerVars, refresherVars, operationVars
<1>2. CASE Crash
  BY <1>2 DEF Crash, Covered, FloorCovers, HeadCovers, RecoveryCovers, PersistedCovers, Forgotten, Alive,
              Behind
<1>3. CASE LoadsRecovery
  <2>1. /\ phase' = "recovering" /\ got' = head /\ Durable
        /\ UNCHANGED <<delivered, head, floor>>
    BY <1>3 DEF LoadsRecovery
  <2>2. Behind(delivered, got') /\ Behind(got', head')
    BY <1>1, <2>1, BehindReflexive DEF Covered, HeadCovers
  <2> QED BY <2>1, <2>2 DEF Covered, FloorCovers, HeadCovers, RecoveryCovers, PersistedCovers, Forgotten,
                            Alive, Behind
<1>4. CASE Restart
  <2>1. phase' = "idle" /\ head' = head /\ Recovered
    BY <1>4 DEF Restart
  <2>2. CASE got # None
    <3>1. phase = "recovering" /\ Durable /\ Signed
      BY <1>1, <1>4, <2>2, RefresherAssumption DEF Restart
    <3>2. /\ floor' = got
          /\ delivered' = got \/ delivered' = delivered
      BY <2>1, <2>2 DEF Recovered, RecoveredFloor
    <3>3. /\ Behind(delivered, got) /\ Behind(got, head) /\ Behind(delivered, head)
          /\ Behind(got, got)
      BY <1>1, <3>1, BehindReflexive DEF Covered, RecoveryCovers, HeadCovers
    <3> QED BY <2>1, <3>1, <3>2, <3>3
            DEF Covered, FloorCovers, HeadCovers, RecoveryCovers, PersistedCovers, Forgotten, Alive, Behind
  <2>3. CASE got = None
    <3>1. delivered = None
      BY <1>4, <2>3 DEF Restart, Covered, RecoveryCovers, Forgotten, Behind
    <3>2. delivered' = delivered
      BY <2>1, <2>3 DEF Recovered
    <3> QED BY <2>1, <3>1, <3>2
            DEF Covered, FloorCovers, HeadCovers, RecoveryCovers, PersistedCovers, Forgotten, Alive, Behind
  <2> QED BY <2>2, <2>3
<1> QED BY <1>2, <1>3, <1>4

(* Covered holds in every state.                                           *)
LEMMA CoveredInvariant == Spec => []Covered
PROOF
<1>1. Init => Covered
  BY DEF Init, Covered, FloorCovers, HeadCovers, RecoveryCovers, PersistedCovers, Forgotten, Behind
<1>2. Typed /\ Typed' /\ Covered /\ [Next]_vars => Covered'
  BY FailuresCovered, DeliveriesCovered, SettlingCovered, SurroundingsCovered, RestartCovered, WorkerCases
     DEF Next
<1> QED BY <1>1, <1>2, TypedInvariant, PTL DEF Spec

(* The replay floor of a living process is never behind what was           *)
(* delivered, by this process or, with a store, by those before it.        *)
THEOREM FloorNeverBehind == Spec => []FloorCoversDelivered
PROOF
<1>1. Covered => FloorCoversDelivered
  BY DEF Covered, FloorCovers, FloorCoversDelivered, Behind
<1> QED BY <1>1, CoveredInvariant, PTL

(***************************************************************************)
(* Which steps deliver, and what they may deliver.                         *)
(***************************************************************************)
(* Who changes what was delivered or made active.                          *)
LEMMA ChangesOfDelivered ==
  ASSUME [Next]_vars
  PROVE  UNCHANGED <<activated, delivered>> \/ AppliesDirectly \/ Activates \/ Crash \/ Restart
PROOF
<1> USE DEF providerVars, refresherVars, operationVars
<1>1. CASE Worker
  <2>1. CASE Starts \/ Fetches \/ Reserves
    BY <2>1 DEF Starts, Fetches, Reserves
  <2> QED BY <1>1, <2>1, WorkerCases, FailsEarlyEffect, FailsPersistingEffect
<1>2. CASE InputOutput \/ OtherWriterAccepts
  BY <1>2 DEF InputOutput, LoadOpens, LoadSettles, FetchSettles, AbandonedReadSettles, CommitTakesEffect,
              CommitSettles, OtherWriterAccepts
<1>3. CASE Application \/ ClockMoves \/ DeadlinePasses \/ TimerFires \/ LoadsRecovery \/ UNCHANGED vars
  BY <1>3 DEF Application, Refresh, CancelWait, AppUpdates, AppPrepares, AppEndsTransaction, Close,
              ProviderCloses, ClockMoves, DeadlinePasses, TimerFires, LoadsRecovery, vars
<1> QED BY <1>1, <1>2, <1>3 DEF Next

(* What a step that delivers makes active.                                 *)
MadeActive == IF phase = "recovering" THEN got ELSE Delivery

Delivers == (Signed /\ AppliesDirectly) \/ Activates \/ (Restart /\ got # None)

(* Whatever a step makes active, a handler's replacement included,         *)
(* continues what was delivered before.                                    *)
LEMMA ActivationsAdvance ==
  ASSUME Typed, Covered, Delivers
  PROVE  /\ MadeActive \in Artifacts
         /\ Behind(delivered, MadeActive)
         /\ head' = head
         /\ Durable => Behind(MadeActive, head)
PROOF
<1>1. /\ floor \in Floors /\ head \in Floors /\ delivered \in Floors /\ op.before.art \in Floors
      /\ phase = "recovering" => got \in Floors
      /\ phase = "down" => got = None
      /\ phase = "persisting" => Delivery \in Artifacts
  BY TypedFloors
<1>2. CASE Signed /\ AppliesDirectly
  <2>1. /\ phase = "fetching" /\ ~Durable /\ head' = head
        /\ MadeActive = Delivery /\ Signed /\ Validated
    BY <1>2, AppliesEffect DEF AppliesDirectly, MadeActive
  <2>2. Compatible(floor, op.before.art) /\ Verifies(Delivery, SignatureFloor, now)
    BY <2>1 DEF Validated, Verified
  <2>3. Behind(floor, SignatureFloor) /\ SignatureFloor \in Floors
    BY <1>1, <2>2, BehindMerged, FloorsKept DEF SignatureFloor, Typed
  <2>4. Delivery \in Artifacts /\ Behind(SignatureFloor, Delivery)
    BY <2>2, ArtifactAssumption DEF Verifies, Behind
  <2>5. Behind(delivered, floor)
    BY <2>1 DEF Covered, FloorCovers, Alive
  <2>6. Behind(delivered, Delivery)
    BY <1>1, <2>3, <2>4, <2>5, BehindTransitive DEF Floors
  <2> QED BY <2>1, <2>4, <2>6
<1>3. CASE Activates
  <2>1. phase = "persisting" /\ wait = "value" /\ MadeActive = Delivery /\ head' = head
    BY <1>3, ActivatesEffect DEF MadeActive
  <2>2. Behind(delivered, floor) /\ Behind(floor, Delivery) /\ Behind(Delivery, head)
    BY <2>1 DEF Covered, FloorCovers, PersistedCovers, Alive
  <2>3. Behind(delivered, Delivery)
    BY <1>1, <2>1, <2>2, BehindTransitive DEF Floors
  <2> QED BY <1>1, <2>1, <2>2, <2>3
<1>4. CASE Restart /\ got # None
  <2>1. MadeActive = got /\ got # None /\ head' = head /\ phase = "recovering"
    BY <1>1, <1>4 DEF Restart, MadeActive
  <2> QED BY <1>1, <2>1 DEF Covered, RecoveryCovers, Floors
<1> QED BY <1>2, <1>3, <1>4 DEF Delivers

(* Both are changed by delivering, and then to what is made active.        *)
LEMMA ChangesDeliver ==
  ASSUME Typed, [Next]_vars, ~Crash
  PROVE  /\ activated' # activated => Delivers /\ activated' = MadeActive
         /\ delivered' # delivered => Delivers /\ delivered' = MadeActive
         /\ Durable => UNCHANGED <<activated, delivered>> \/ activated' = delivered'
PROOF
<1>1. CASE AppliesDirectly
  BY <1>1, AppliesEffect DEF AppliesDirectly, Delivers, MadeActive
<1>2. CASE Activates
  BY <1>2, ActivatesEffect DEF Delivers, MadeActive
<1>3. CASE Restart
  <2>1. got # None => phase = "recovering"
    BY <1>3, TypedFloors DEF Restart
  <2> QED BY <1>3, <2>1 DEF Restart, Recovered, Delivers, MadeActive
<1> QED BY <1>1, <1>2, <1>3, ChangesOfDelivered

(* A delivery continues the one before it.                                 *)
LEMMA DeliveredAdvances ==
  ASSUME Typed, Covered, [Next]_vars, delivered' # delivered, ~Crash
  PROVE  /\ delivered' \in Artifacts
         /\ Behind(delivered, delivered')
         /\ head' = head
         /\ Durable => Behind(delivered', head)
PROOF BY ChangesDeliver, ActivationsAdvance

(* With a store every artifact made active counts as delivered.            *)
StoreCountsAll == Durable => activated = delivered

(* StoreCountsAll holds in every state.                                    *)
LEMMA StoreCountsInvariant == Spec => []StoreCountsAll
PROOF
<1>1. Init => StoreCountsAll
  BY DEF Init, StoreCountsAll
<1>2. Typed /\ StoreCountsAll /\ [Next]_vars => StoreCountsAll'
  <2>1. CASE Crash
    BY <2>1 DEF Crash, StoreCountsAll
  <2> QED BY <2>1, ChangesDeliver DEF StoreCountsAll
<1> QED BY <1>1, <1>2, TypedInvariant, PTL DEF Spec

(* What one process makes active, an artifact that a handler replaces at   *)
(* once included, always continues what was delivered before; with a store *)
(* it continues whatever was active last.                                  *)
THEOREM DeliveryNeverRollsBack == Spec => NoRollback
PROOF
<1>1. Typed /\ Covered /\ StoreCountsAll /\ [Next]_vars =>
        (activated' # activated /\ phase' # "down" =>
           Continues(activated', IF Durable THEN activated ELSE delivered))
  <2> SUFFICES ASSUME Typed, Covered, StoreCountsAll, [Next]_vars,
                      activated' # activated, phase' # "down"
               PROVE  Continues(activated', IF Durable THEN activated ELSE delivered)
    OBVIOUS
  <2>1. ~Crash
    BY DEF Crash
  <2>2. Behind(delivered, activated')
    BY <2>1, ChangesDeliver, ActivationsAdvance
  <2>3. (IF Durable THEN activated ELSE delivered) = delivered
    BY DEF StoreCountsAll
  <2> QED BY <2>2, <2>3 DEF Behind, Continues
<1> QED BY <1>1, TypedInvariant, CoveredInvariant, StoreCountsInvariant, PTL DEF Spec, NoRollback

(***************************************************************************)
(* Durable delivery implements SignedDelivery: commits of any process      *)
(* accept, activations and restarts activate, all other steps stutter.     *)
(***************************************************************************)
(* The head moves only by accepting an artifact.                           *)
LEMMA HeadAdvances ==
  ASSUME [Next]_vars, head' # head
  PROVE  /\ \E a \in Artifacts \cup {Delivery} : Journal!Accept(a)
         /\ delivered' = delivered
         /\ CommitTakesEffect \/ OtherWriterAccepts
PROOF
<1> USE DEF providerVars, refresherVars, operationVars
<1>1. CASE Worker
  <2>1. CASE Starts \/ Fetches \/ Reserves
    BY <2>1 DEF Starts, Fetches, Reserves
  <2> QED BY <1>1, <2>1, WorkerCases, FailsEarlyEffect, FailsPersistingEffect, AppliesEffect,
             ActivatesEffect
<1>2. CASE InputOutput \/ OtherWriterAccepts
  BY <1>2 DEF InputOutput, LoadOpens, LoadSettles, FetchSettles, AbandonedReadSettles, CommitTakesEffect,
              CommitSettles, OtherWriterAccepts, Journal!RegisterNext
<1>3. CASE Application \/ ClockMoves \/ DeadlinePasses \/ TimerFires \/ UNCHANGED vars
  BY <1>3 DEF Application, Refresh, CancelWait, AppUpdates, AppPrepares, AppEndsTransaction, Close,
              ProviderCloses, ClockMoves, DeadlinePasses, TimerFires, vars
<1>4. CASE Crash \/ LoadsRecovery \/ Restart
  BY <1>4 DEF Crash, LoadsRecovery, Restart
<1> QED BY <1>1, <1>2, <1>3, <1>4 DEF Next

(* With a store, what is live was accepted first, and neither the accepted *)
(* head nor what is live ever rolls back, whatever crashes and whoever     *)
(* else writes.                                                            *)
THEOREM DeliveryKeepsPromise == Durable => (Spec => DeliveryPromise)
PROOF
<1> SUFFICES ASSUME Durable PROVE Spec => DeliveryPromise
  OBVIOUS
<1> USE DEF Promise!DeliveryNext, Promise!AcceptNewer, Promise!ActivateAccepted, Promise!Continues
<1>1. Init => Promise!DeliveryInit
  BY DEF Init, Journal!RegisterInit, Promise!DeliveryInit
<1>2. Typed /\ Covered /\ [Next]_vars => [Promise!DeliveryNext]_<<head, delivered>>
  <2> SUFFICES ASSUME Typed, Covered, [Next]_vars
               PROVE  [Promise!DeliveryNext]_<<head, delivered>>
    OBVIOUS
  <2>1. CASE head' # head
    <3>1. /\ CommitTakesEffect \/ OtherWriterAccepts
          /\ delivered' = delivered
      BY <2>1, HeadAdvances
    <3>2. CASE CommitTakesEffect
      BY <3>1, <3>2, TypedFloors DEF CommitTakesEffect, Journal!Accept, Journal!Continues
    <3>3. CASE OtherWriterAccepts
      BY <3>1, <3>3 DEF OtherWriterAccepts, Journal!RegisterNext, Journal!Accept, Journal!Continues
    <3> QED BY <3>1, <3>2, <3>3
  <2>2. CASE head' = head /\ delivered' # delivered
    <3>1. ~Crash
      BY <2>2 DEF Crash
    <3>2. /\ delivered' \in Artifacts /\ Behind(delivered, delivered') /\ Behind(delivered', head)
      BY <2>2, <3>1, DeliveredAdvances
    <3> QED BY <2>2, <3>2, ArtifactAssumption DEF Behind, Continues
  <2>3. CASE head' = head /\ delivered' = delivered
    BY <2>3
  <2> QED BY <2>1, <2>2, <2>3
<1> QED BY <1>1, <1>2, TypedInvariant, CoveredInvariant, PTL
        DEF Spec, DeliveryPromise, Promise!DeliverySpec

(***************************************************************************)
(* Which steps apply, and when.                                            *)
(***************************************************************************)
(* What applies is one of two deliveries.                                  *)
LEMMA AppliesCases ==
  ASSUME [Next]_vars, Applies
  PROVE  AppliesDirectly \/ Activates
PROOF
<1> USE DEF Applies, providerVars, refresherVars, operationVars
<1>1. CASE Worker
  <2>1. CASE Starts \/ Fetches \/ Reserves
    BY <2>1 DEF Starts, Fetches, Reserves
  <2> QED BY <1>1, <2>1, WorkerCases, FailsEarlyEffect, FailsPersistingEffect
<1>2. CASE InputOutput \/ OtherWriterAccepts
  BY <1>2 DEF InputOutput, LoadOpens, LoadSettles, FetchSettles, AbandonedReadSettles, CommitTakesEffect,
              CommitSettles, OtherWriterAccepts
<1>3. CASE Application \/ ClockMoves \/ DeadlinePasses \/ TimerFires \/ UNCHANGED vars
  BY <1>3 DEF Application, Refresh, CancelWait, AppUpdates, AppPrepares, AppEndsTransaction, Close,
              ProviderCloses, ClockMoves, DeadlinePasses, TimerFires, vars
<1>4. CASE Crash \/ LoadsRecovery \/ Restart
  BY <1>4 DEF Crash, LoadsRecovery, Restart
<1> QED BY <1>1, <1>2, <1>3, <1>4 DEF Next

(* Nothing is applied after the deadline's answer, after a close, or of an *)
(* artifact that is not fresh.                                             *)
THEOREM AppliedInTime == Spec => AppliesOnlyInTime
PROOF
<1>1. CountedSoFar /\ [Next]_vars =>
        (Applies => /\ op.answer = "none"
                    /\ ~closed /\ ~provClosed
                    /\ Signed => Fresh(Delivery, now))
  <2> SUFFICES ASSUME CountedSoFar, [Next]_vars, Applies
               PROVE  /\ op.answer = "none"
                      /\ ~closed /\ ~provClosed
                      /\ Signed => Fresh(Delivery, now)
    OBVIOUS
  <2>1. /\ ~op.timedOut /\ ~closed /\ ~provClosed
        /\ Signed => Fresh(Delivery, now)
    <3>1. CASE AppliesDirectly
      BY <3>1 DEF AppliesDirectly, Validated, Verified, Verifies, Fetched, TimeUp
    <3>2. CASE Activates
      BY <3>2 DEF Activates, Activatable, StillVerifies, Verifies, TimeUp
    <3> QED BY <3>1, <3>2, AppliesCases
  <2>2. op.answer = "none"
    BY <2>1 DEF CountedSoFar, Undecided, Applies, Running
  <2> QED BY <2>1, <2>2
<1> QED BY <1>1, CountedInvariant, PTL DEF Spec, AppliesOnlyInTime

(* The reservation protects what prepareSnapshot saw until store.commit    *)
(* has settled.                                                            *)
BeforeKept == phase = "persisting" => active = op.before

(* BeforeKept holds in every state.                                        *)
LEMMA BeforeInvariant == Spec => []BeforeKept
PROOF
<1>1. Init => BeforeKept
  BY DEF Init, BeforeKept
<1>2. TypeOK /\ ReservationHeldWhilePersisting /\ BeforeKept /\ [Next]_vars => BeforeKept'
  <2> SUFFICES ASSUME TypeOK, ReservationHeldWhilePersisting, BeforeKept, [Next]_vars
               PROVE  BeforeKept'
    OBVIOUS
  <2> USE DEF BeforeKept, providerVars, refresherVars, operationVars
  <2>1. CASE Worker
    <3>1. CASE Starts \/ Fetches
      BY <3>1 DEF Starts, Fetches, BeginRead
    <3>2. CASE Reserves
      BY <3>2 DEF Reserves, Validated, Fetched
    <3> QED BY <2>1, <3>1, <3>2, WorkerCases, FailsEarlyEffect, FailsPersistingEffect, AppliesEffect,
               ActivatesEffect
  <2>2. CASE InputOutput \/ OtherWriterAccepts
    BY <2>2 DEF InputOutput, LoadOpens, LoadSettles, FetchSettles, AbandonedReadSettles, SlotAfterRead,
                CommitTakesEffect, CommitSettles, OtherWriterAccepts
  <2>3. CASE (\E c \in Callers : Refresh(c) \/ CancelWait(c)) \/ ClockMoves \/ ProviderCloses \/ AppPrepares
    BY <2>3 DEF Refresh, CancelWait, ClockMoves, ProviderCloses, AppPrepares
  <2>4. CASE (\E origin \in AppOrigins : AppUpdates(origin)) \/ AppEndsTransaction
    BY <2>4 DEF AppUpdates, AppEndsTransaction, UpdateAvailable, ReservationHeldWhilePersisting
  <2>5. CASE Close \/ DeadlinePasses \/ TimerFires
    <3>1. op \in Operations /\ Expire(op).before = op.before
      BY DEF TypeOK, Expire, Counted, Operations
    <3>2. op'.before = op.before /\ phase' = phase /\ active' = active
      BY <2>5, <3>1 DEF Close, DeadlinePasses, TimerFires, Operations
    <3> QED BY <3>2
  <2>6. CASE Crash \/ LoadsRecovery \/ Restart \/ UNCHANGED vars
    BY <2>6 DEF Crash, LoadsRecovery, Restart, vars
  <2> QED BY <2>1, <2>2, <2>3, <2>4, <2>5, <2>6 DEF Next, Application
<1> QED BY <1>1, <1>2, RefresherTypeCorrect, ReservationOnlyWhilePersisting, PTL DEF Spec

(* What the application installed while a refresh was under way is never   *)
(* overwritten by it.                                                      *)
THEOREM LocalUpdatesWin == Spec => LocalUpdatesKept
PROOF
<1>1. BeforeKept /\ [Next]_vars => (Applies => active = op.before)
  BY AppliesCases DEF BeforeKept, AppliesDirectly, Validated, Fetched, Activates, Activatable,
                      Acknowledged, Resumes
<1> QED BY <1>1, BeforeInvariant, PTL DEF Spec, LocalUpdatesKept

(***************************************************************************)
(* Without signatures: the ETag kept with an adopted delivery is that of   *)
(* its contents, it is sent only while they are active, and a 304 names    *)
(* it.                                                                     *)
(***************************************************************************)
TagOfContents ==
  committed # None /\ committed.etag # None =>
    committed.etag \in Artifacts /\ committed.etag.snapshot = committed.origin.snap

TagSent ==
  phase = "fetching" /\ op.etag # None =>
    committed # None /\ committed.etag = op.etag /\ committed.origin = op.before

TagAnswered ==
  phase = "fetching" /\ wait = "value" /\ got.kind = "notModified" /\ op.etag # None =>
    got.body = op.etag

TagsTell == ~Signed => TagOfContents /\ TagSent /\ TagAnswered

(* An accepted unsigned delivery: its contents, and the ETag to keep.      *)
LEMMA UnsignedDelivery ==
  ASSUME Typed, TagsTell, ~Signed, Validated
  PROVE  /\ DeliveredOrigin.snap = got.body.snapshot
         /\ EtagToKeep # None =>
              EtagToKeep \in Artifacts /\ EtagToKeep.snapshot = DeliveredOrigin.snap
PROOF
<1>1. /\ phase = "fetching" /\ wait = "value" /\ active = op.before
      /\ got \in Responses /\ Acceptable(got)
  BY ValidatedDelivers DEF Validated, Fetched, Resumes
<1>2. got.kind \in {"content", "notModified"} /\ got.body \in Bodies
  BY <1>1 DEF Responses
<1>3. CASE got.kind = "content"
  <2>1. got.body \in Artifacts
    BY <1>1, <1>2, <1>3 DEF Acceptable, Bodies
  <2>2. DeliveredOrigin = Unsigned(got.body.snapshot)
    BY <1>3 DEF DeliveredOrigin
  <2>3. EtagToKeep \in {got.body, None}
    BY <1>3 DEF EtagToKeep
  <2> QED BY <2>1, <2>2, <2>3 DEF Unsigned
<1>4. CASE got.kind = "notModified"
  <2>1. op.etag # None
    BY <1>1, <1>4 DEF Acceptable
  <2>2. got.body = op.etag /\ committed # None /\ committed.etag = op.etag /\ committed.origin = active
    BY <1>1, <1>4, <2>1 DEF TagsTell, TagAnswered, TagSent
  <2>3. op.etag \in Artifacts /\ op.etag.snapshot = active.snap
    BY <2>1, <2>2 DEF TagsTell, TagOfContents
  <2>4. DeliveredOrigin = Unsigned(active.snap) /\ EtagToKeep = op.etag
    BY <1>4, <2>2 DEF DeliveredOrigin, EtagToKeep
  <2> QED BY <2>2, <2>3, <2>4 DEF Unsigned
<1> QED BY <1>2, <1>3, <1>4

(* Only the start of a fetch, its answer and an adoption concern an ETag.  *)
LEMMA WorkerKeepsTags ==
  ASSUME Typed, TagsTell, ~Signed, Worker
  PROVE  TagsTell'
PROOF
<1>1. ~Durable /\ phase # "loading" /\ phase # "persisting"
  BY RefresherAssumption DEF Typed, Results
<1> USE DEF TagsTell, TagOfContents, TagSent, TagAnswered
<1>2. CASE FailsEarly \/ FailsPersisting
  BY <1>2, FailsEarlyEffect, FailsPersistingEffect
<1>3. CASE Starts
  <2>1. /\ phase' = "fetching" /\ wait' = "pending" /\ committed' = committed
        /\ op' = [op EXCEPT !.before = active, !.etag = ConditionalEtag]
    BY <1>1, <1>3 DEF Starts, BeginRead, refresherVars
  <2>2. op'.before = active /\ op'.etag = ConditionalEtag
    BY <2>1 DEF Typed, TypeOK, Operations
  <2> QED BY <2>1, <2>2 DEF ConditionalEtag
<1>4. CASE AppliesDirectly
  <2>1. phase' # "fetching" /\ Validated
    BY <1>4, AppliesEffect DEF AppliesDirectly
  <2>2. CASE Adopt(DeliveredOrigin)
    <3>1. committed' = [origin |-> DeliveredOrigin, etag |-> EtagToKeep]
      BY <2>2 DEF Adopt
    <3> QED BY <2>1, <3>1, UnsignedDelivery
  <2>3. CASE ReplacedByHandler(DeliveredOrigin)
    BY <2>1, <2>3 DEF ReplacedByHandler
  <2> QED BY <1>4, <2>2, <2>3 DEF AppliesDirectly
<1>5. ~Fetches /\ ~Reserves /\ ~Activates
  BY <1>1 DEF Fetches, Loaded, Reserves, Activates, Activatable, Acknowledged, Resumes
<1> QED BY <1>2, <1>3, <1>4, <1>5, WorkerCases

(* The other steps leave the ETags alone, or answer with the one sent.     *)
LEMMA OthersKeepTags ==
  ASSUME Typed, TagsTell, ~Signed, [Next]_vars, ~Worker
  PROVE  TagsTell'
PROOF
<1> USE DEF TagsTell, TagOfContents, TagSent, TagAnswered, providerVars, refresherVars, operationVars
<1>1. CASE FetchSettles
  <2>1. UNCHANGED <<committed, phase, op>> /\ phase = "fetching"
    BY <1>1 DEF FetchSettles
  <2>2. wait' = "value" /\ got'.kind = "notModified" /\ op.etag # None => got'.body = op.etag
    BY <1>1 DEF FetchSettles
  <2> QED BY <2>1, <2>2
<1>2. CASE Crash
  BY <1>2 DEF Crash
<1>3. CASE LoadOpens \/ LoadSettles \/ CommitTakesEffect \/ CommitSettles \/ LoadsRecovery \/ Restart
  BY <1>3 DEF LoadOpens, LoadSettles, CommitTakesEffect, CommitSettles, LoadsRecovery, Restart
<1>4. CASE AbandonedReadSettles
  <2>1. UNCHANGED <<committed, wait, got, op>> /\ phase' \in {phase, "idle"}
    BY <1>4 DEF AbandonedReadSettles, SlotAfterRead
  <2> QED BY <2>1
<1>5. CASE \E c \in Callers : Refresh(c)
  BY <1>5 DEF Refresh
<1>6. CASE Close \/ DeadlinePasses \/ TimerFires
  <2>1. op \in Operations /\ Expire(op).before = op.before /\ Expire(op).etag = op.etag
    BY DEF Typed, TypeOK, Expire, Counted, Operations
  <2>2. /\ op'.before = op.before /\ op'.etag = op.etag
        /\ UNCHANGED <<committed, phase, got>> /\ wait' \in {wait, "failed"}
    BY <1>6, <2>1 DEF Close, DeadlinePasses, TimerFires, AbortWait, Operations
  <2> QED BY <2>2
<1>7. CASE \/ \E c \in Callers : CancelWait(c)
           \/ \E origin \in AppOrigins : AppUpdates(origin)
           \/ AppPrepares \/ AppEndsTransaction \/ ProviderCloses
           \/ OtherWriterAccepts \/ ClockMoves \/ UNCHANGED vars
  BY <1>7 DEF CancelWait, AppUpdates, AppPrepares, AppEndsTransaction, ProviderCloses,
              OtherWriterAccepts, ClockMoves, vars
<1> QED BY <1>1, <1>2, <1>3, <1>4, <1>5, <1>6, <1>7 DEF Next, InputOutput, Application

(* What the ETags tell, always.                                            *)
LEMMA TagsInvariant == Spec => []TagsTell
PROOF
<1>1. Init => TagsTell
  BY DEF Init, TagsTell, TagOfContents, TagSent, TagAnswered
<1>2. Typed /\ TagsTell /\ [Next]_vars => TagsTell'
  <2>1. CASE Signed
    BY <2>1 DEF TagsTell
  <2>2. CASE ~Signed
    BY <2>2, WorkerKeepsTags, OthersKeepTags
  <2> QED BY <2>1, <2>2
<1> QED BY <1>1, <1>2, TypedInvariant, PTL DEF Spec

(* Only an adoption answers "ok" while a fetch is being handled.           *)
LEMMA OkIsAdopted ==
  ASSUME TypeOK, CountedSoFar, ~Durable, [Next]_vars, phase = "fetching", op'.answer = "ok"
  PROVE  Validated /\ active' = DeliveredOrigin
PROOF
<1>1. Undecided(op) /\ op.answer # "ok"
  BY DEF CountedSoFar, Running, Undecided
<1>2. op \in Operations /\ Counted(op) \in Operations /\ Expire(op) \in Operations
      /\ Counted(op).answer = op.answer /\ Expire(op).answer # "ok"
  <2>1. op \in Operations
    BY DEF TypeOK
  <2> QED BY <1>1, <2>1, OperationParts, OperationFields
<1>3. \A o \in {op, Counted(op), Expire(op), TimedOut(op)} : o \in Operations /\ o.answer # "ok"
  BY <1>1, <1>2 DEF TimedOut
<1>4. \A o \in {op, Counted(op), Expire(op), TimedOut(op)} : ~Finish(o, "error")
  <2> SUFFICES ASSUME NEW o \in {op, Counted(op), Expire(op), TimedOut(op)}, Finish(o, "error")
               PROVE  FALSE
    OBVIOUS
  <2>1. op'.answer = (IF o.answer = "none" THEN "error" ELSE o.answer)
    BY <1>3, FinishCounts
  <2> QED BY <1>3, <2>1
<1> USE DEF providerVars, refresherVars, operationVars
<1>5. CASE Worker
  <2>1. ~FailsEarly /\ ~FailsPersisting
    BY <1>4 DEF FailsEarly, ResumesTooLate, StartsClosed, LoadFails, LoadedButUnusable, FetchFails,
                ContentInvalid, SignatureInvalid, ValidatedTooLate, UpdateRefused, FailsPersisting,
                PersistFails, PersistedTooLate, PersistedButClosed, PersistedButStale,
                ReverifiedTooLate, Fail
  <2>2. ~Starts /\ ~Fetches /\ ~Reserves /\ ~Activates
    BY DEF Starts, Fetches, Loaded, Reserves, Activates, Activatable, Acknowledged, Resumes
  <2>3. AppliesDirectly
    BY <1>5, <2>1, <2>2, WorkerCases
  <2>4. ~ReplacedByHandler(DeliveredOrigin)
    BY <1>4 DEF ReplacedByHandler
  <2> QED BY <2>3, <2>4 DEF AppliesDirectly, Adopt
<1>6. CASE Close \/ DeadlinePasses \/ TimerFires
  BY <1>1, <1>2, <1>6 DEF Close, DeadlinePasses, TimerFires, Operations
<1>7. CASE (\E c \in Callers : Refresh(c) \/ CancelWait(c)) \/ Crash \/ LoadsRecovery \/ Restart
  BY <1>1, <1>7 DEF Refresh, CancelWait, Crash, NewOperation, LoadsRecovery, Restart
<1>8. CASE InputOutput \/ OtherWriterAccepts \/ ClockMoves \/ UNCHANGED vars
  BY <1>1, <1>8 DEF InputOutput, LoadOpens, LoadSettles, FetchSettles, AbandonedReadSettles,
              CommitTakesEffect, CommitSettles, OtherWriterAccepts, ClockMoves, vars
<1>9. CASE \/ \E origin \in AppOrigins : AppUpdates(origin)
           \/ AppPrepares \/ AppEndsTransaction \/ ProviderCloses
  BY <1>1, <1>9 DEF AppUpdates, AppPrepares, AppEndsTransaction, ProviderCloses
<1> QED BY <1>5, <1>6, <1>7, <1>8, <1>9 DEF Next, Application

(* A successful refresh without signatures leaves exactly what the source  *)
(* last had: a 304 is believed only for the contents its ETag came with,   *)
(* whatever the application installed and whichever refreshes failed in    *)
(* between (performRefresh).                                               *)
THEOREM RefreshReflectsSource == Spec => ResultReflectsSource
PROOF
<1>1. Typed /\ CountedSoFar /\ TagsTell /\ [Next]_vars =>
        (~Signed /\ phase = "fetching" /\ op'.answer = "ok" => active'.snap = got.body.snapshot)
  <2> SUFFICES ASSUME Typed, CountedSoFar, TagsTell, [Next]_vars,
                      ~Signed, phase = "fetching", op'.answer = "ok"
               PROVE  active'.snap = got.body.snapshot
    OBVIOUS
  <2>1. ~Durable /\ TypeOK
    BY RefresherAssumption DEF Typed
  <2> QED BY <2>1, OkIsAdopted, UnsignedDelivery
<1> QED BY <1>1, TypedInvariant, CountedInvariant, TagsInvariant, PTL DEF Spec, ResultReflectsSource
==============================================================================
