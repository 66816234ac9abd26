---------------------------- MODULE FlagEvaluation ----------------------------
(***************************************************************************)
(* evaluateWithTrace: the value of a flag for a request.  The snapshot is  *)
(* either the caller's own object, which the caller may change between two *)
(* evaluations, or the copy validateFlagSnapshot captured, whose rollouts, *)
(* memberships and schedules are looked up through indexes.                *)
(***************************************************************************)
EXTENDS EnvOverrides

CONSTANTS
  Inputs,         (* the snapshots a caller may have, by family            *)
  Requests,       (* [flagKey, expectedType, targetingKey, context, time]  *)
  Options,        (* the options createEnvOverrides may be given           *)
  Bucket,         (* computeBucket: flag key -> targeting key -> seed      *)
  Default,        (* the caller's default value                            *)
  RequestTimes,   (* the valid times, over which schedules are compared    *)
  MaxEdits        (* bound on the changes a caller makes                   *)

ErrorCodes == {"INVALID_CONTEXT", "TYPE_MISMATCH", "FLAG_NOT_FOUND", "OVERRIDE_PARSE_ERROR"}

(* A key, when there is one, falls into a bucket whatever the seed.        *)
Hashed(request) ==
  NonBlank(request.targetingKey) =>
    \A seed \in Seeds : Bucket[request.flagKey][request.targetingKey][seed] \in Nat

ASSUME EvaluationAssumption ==
  /\ Undefined \notin ErrorCodes /\ Undefined \notin Options
  /\ \A snapshot \in UNION Inputs : IsSnapshot(snapshot)
  /\ RequestTimes \subseteq Nat
  /\ \A request \in Requests : Hashed(request)

VARIABLES
  input,          (* the caller's snapshot                                 *)
  owned,          (* the captured copy, or Undefined                       *)
  operands,       (* semverOperands, for the conditions of either          *)
  overrides,      (* the overrides state evaluations use                   *)
  origin,         (* history: the options they were made from              *)
  result,         (* what the last evaluation returned, until the next step*)
  edits

evaluationVars == <<input, owned, operands, overrides, origin, result, edits>>

Sides == {"input", "owned"}
SnapshotOf(side) == IF side = "input" THEN input ELSE owned

NoOperands  == [id \in Conditions |-> Undefined]
NoOverrides == [values |-> <<>>, errors |-> {}, globalError |-> FALSE]

-----------------------------------------------------------------------------
(* The decision                                                            *)

Answer(reason) ==
  [value |-> Default, variant |-> Undefined, reason |-> reason, errorCode |-> Undefined,
   rule |-> Undefined, bucket |-> Undefined, schedule |-> Undefined, trace |-> <<>>]

Failure(code) == [Answer("ERROR") EXCEPT !.errorCode = code]

HasKey(request) == NonBlank(request.targetingKey)

SelectedVariant(flag, request, name, reason) ==
  IF name \in DOMAIN flag.variants
       /\ FlagValueMatchesType(flag.variants[name], request.expectedType)
    THEN [Answer(reason) EXCEPT !.value = flag.variants[name], !.variant = name]
    ELSE Failure("TYPE_MISMATCH")

BucketsOf(request) == Bucket[request.flagKey][request.targetingKey]

(* The chosen variant, or the default one for another reason.              *)
FromSelection(flag, request, selection, otherwise) ==
  [(IF selection.variant # Undefined
      THEN SelectedVariant(flag, request, selection.variant, "SPLIT")
      ELSE SelectedVariant(flag, request, flag.defaultVariant, otherwise))
   EXCEPT !.bucket = selection.bucket]

ByRollout(flag, request) ==
  IF flag.rollout = Undefined THEN SelectedVariant(flag, request, flag.defaultVariant, "STATIC")
  ELSE IF ~HasKey(request) THEN Failure("INVALID_CONTEXT")
  ELSE LET selection == SelectRolloutVariant(flag.rollout, BucketsOf(request)) IN
       IF selection.variant = Undefined
         THEN SelectedVariant(flag, request, flag.defaultVariant, "STATIC")
         ELSE FromSelection(flag, request, selection, "STATIC")

BySchedule(snapshot, flag, request) ==
  IF snapshot.schemaVersion # 2 \/ flag.schedule = Undefined THEN ByRollout(flag, request)
  ELSE IF ~ValidScheduleTime(request.time) \/ ~HasKey(request) THEN Failure("INVALID_CONTEXT")
  ELSE LET selection == SelectScheduledVariant(flag.schedule, request.time,
                                               BucketsOf(request), snapshot.validated)
       IN  [FromSelection(flag, request, selection, "STATIC") EXCEPT !.schedule = selection.schedule]

ByRule(flag, request, rule) ==
  LET answer ==
        IF rule.variant # Undefined
          THEN SelectedVariant(flag, request, rule.variant, "TARGETING_MATCH")
        ELSE IF ~HasKey(request) THEN Failure("INVALID_CONTEXT")
        ELSE IF rule.rollout = Undefined THEN Answer("THROWN")
        ELSE FromSelection(flag, request,
               SelectRolloutVariant(rule.rollout, BucketsOf(request)), "TARGETING_MATCH")
  IN  [answer EXCEPT !.rule = rule.id]

(* The first rule that matches decides; the trace ends with it.            *)
ByRules(snapshot, flag, request, operandsOfIt) ==
  LET rules   == IF snapshot.schemaVersion = 2 THEN flag.rules ELSE <<>>
      matched == [i \in DOMAIN rules |-> MatchesCondition(rules[i].when, request, operandsOfIt)]
      first   == Min({i \in DOMAIN rules : matched[i]} \cup {Len(rules) + 1})
  IN  [(IF first \in DOMAIN rules THEN ByRule(flag, request, rules[first])
                                  ELSE BySchedule(snapshot, flag, request))
       EXCEPT !.trace = SubSeq(matched, 1, Min({first, Len(rules)}))]

ByOverride(snapshot, flag, request, state, operandsOfIt) ==
  LET key == request.flagKey IN
  IF state.globalError \/ key \in state.errors THEN Failure("OVERRIDE_PARSE_ERROR")
  ELSE IF key \notin DOMAIN state.values THEN ByRules(snapshot, flag, request, operandsOfIt)
  ELSE IF FlagValueMatchesType(state.values[key], request.expectedType)
    THEN [Answer("ENV_OVERRIDE") EXCEPT !.value = state.values[key]]
  ELSE Failure("OVERRIDE_PARSE_ERROR")

Decision(snapshot, request, state, operandsOfIt) ==
  LET flag == snapshot.flags[request.flagKey] IN
  IF request.flagKey \notin DOMAIN snapshot.flags
    THEN [Answer("DEFAULT") EXCEPT !.errorCode = "FLAG_NOT_FOUND"]
  ELSE IF flag.type # request.expectedType THEN Failure("TYPE_MISMATCH")
  ELSE IF snapshot.schemaVersion = 2 /\ flag.disabledVariant # Undefined
    THEN SelectedVariant(flag, request, flag.disabledVariant, "DISABLED")
  ELSE ByOverride(snapshot, flag, request, state, operandsOfIt)

-----------------------------------------------------------------------------
(* The steps                                                               *)

EvaluationInit ==
  /\ input \in UNION Inputs
  /\ owned = Undefined
  /\ operands = [side \in Sides |-> NoOperands]
  /\ overrides = NoOverrides
  /\ origin = Undefined
  /\ result = Undefined
  /\ edits = 0

(* The caller changes its own object in place, within its family: its      *)
(* conditions stay the objects they were.                                  *)
Edit ==
  /\ edits < MaxEdits
  /\ edits' = edits + 1
  /\ \E family \in Inputs : input \in family /\ input' \in family \ {input}
  /\ result' = Undefined
  /\ UNCHANGED <<owned, operands, overrides, origin>>

(* The caller reads another file, all of whose objects are new; which ones *)
(* a command may emit is the subject of SnapshotTools.                     *)
Load(snapshot) ==
  /\ input' = snapshot
  /\ operands' = [operands EXCEPT !["input"] = NoOperands]
  /\ result' = Undefined
  /\ UNCHANGED <<owned, overrides, origin, edits>>

(* The copy's conditions are new objects.                                  *)
Validate ==
  /\ ValidSnapshot(input)
  /\ owned' = ValidateFlagSnapshot(input)
  /\ owned' # owned
  /\ operands' = [operands EXCEPT !["owned"] = NoOperands]
  /\ overrides' = NoOverrides
  /\ origin' = Undefined
  /\ result' = Undefined
  /\ UNCHANGED <<input, edits>>

(* Of the captured copy, which is frozen, through the index.               *)
BindOverrides(options) ==
  /\ owned # Undefined
  /\ overrides' = CreateIndexedEnvOverrides(owned.flags, options)
  /\ origin' = options
  /\ result' = Undefined
  /\ UNCHANGED <<input, owned, operands, edits>>

VersionLeaves(snapshot, request) ==
  IF request.flagKey \notin DOMAIN snapshot.flags THEN {}
  ELSE {leaf \in UNION {LeavesOf(rule.when) : rule \in ToSet(snapshot.flags[request.flagKey].rules)} :
          leaf.op \in VersionOps}

Read(leaves, cache) ==
  [id \in Conditions |->
     IF \E leaf \in leaves : leaf.id = id
       THEN LET leaf == CHOOSE l \in leaves : l.id = id
            IN  [value |-> leaf.operand.v, parsed |-> OperandVersion(leaf, cache)]
       ELSE cache[id]]

(* Some of the version operands are read, and kept.                        *)
EvaluateWithTrace(side, request) ==
  /\ SnapshotOf(side) # Undefined
  /\ result' = [side |-> side, request |-> request,
                outcome |-> Decision(SnapshotOf(side), request, overrides, operands[side])]
  /\ \E leaves \in SUBSET VersionLeaves(SnapshotOf(side), request) :
       operands' = [operands EXCEPT ![side] = Read(leaves, @)]
  /\ UNCHANGED <<input, owned, overrides, origin, edits>>

EvaluationNext ==
  \/ Edit
  \/ Validate
  \/ \E options \in Options : BindOverrides(options)
  \/ \E side \in Sides, request \in Requests : EvaluateWithTrace(side, request)

EvaluationSpec == EvaluationInit /\ [][EvaluationNext]_evaluationVars

-----------------------------------------------------------------------------
(* Properties                                                              *)

Plain(condition) ==
  LET plain[c \in TargetingCondition] ==
        IF c.kind = "leaf" THEN PlainLeaf(c)
        ELSE IF c.kind = "not" THEN [c EXCEPT !.of = plain[c.of]]
        ELSE [c EXCEPT !.of = [i \in DOMAIN c.of |-> plain[c.of[i]]]]
  IN  plain[condition]

PlainRollout(rollout) ==
  IF rollout = Undefined THEN Undefined ELSE [rollout EXCEPT !.index = Undefined]

PlainRule(rule) == [rule EXCEPT !.when = Plain(@), !.rollout = PlainRollout(@)]

PlainFlag(flag) ==
  [flag EXCEPT !.rollout = PlainRollout(@), !.rules = [i \in DOMAIN @ |-> PlainRule(@[i])]]

(* The snapshot as a text has it, without what was captured beside it.     *)
Unindexed(snapshot) ==
  [snapshot EXCEPT !.validated = FALSE,
                   !.flags = [key \in DOMAIN @ |-> PlainFlag(@[key])]]

(* An evaluation returns what the snapshot says now, read front to back:   *)
(* neither an operand parsed before the caller changed it nor the search   *)
(* in an index at a boundary makes a difference.                           *)
EvaluationsFresh ==
  result # Undefined =>
    result.outcome = Decision(Unindexed(SnapshotOf(result.side)), result.request,
                              overrides, NoOperands)

(* A rule that matches really holds: a negation whose attributes could not *)
(* all be read, at whatever depth, is never turned into a match; and a     *)
(* rule that holds is not passed over.                                     *)
NegationsSafe ==
  result # Undefined =>
    LET snapshot == SnapshotOf(result.side) IN
    \A i \in DOMAIN result.outcome.trace :
      result.outcome.trace[i] <=>
        Holds(snapshot.flags[result.request.flagKey].rules[i].when, result.request, NoOperands)

Expected(outcome, request) ==
  outcome.errorCode = Undefined => outcome.value.type = request.expectedType

(* Of a captured copy: an evaluation fails only for what the request or    *)
(* the environment lacks, never for the snapshot itself.                   *)
ValidatedNeverFails ==
  (result # Undefined /\ result.side = "owned") =>
    LET outcome == result.outcome IN
    /\ outcome.reason # "THROWN"
    /\ outcome.errorCode = "TYPE_MISMATCH" =>
         owned.flags[result.request.flagKey].type # result.request.expectedType
    /\ outcome.errorCode = "INVALID_CONTEXT" =>
         ~HasKey(result.request) \/ ~ValidScheduleTime(result.request.time)
    /\ Expected(outcome, result.request)

Scheduled(schedule, time, bucket) ==
  SelectScheduledVariant(schedule, time,
    [seed \in {schedule.seed, DefaultSeed} |-> bucket], TRUE).variant # Undefined

NeverShrinks(schedule) ==
  \A bucket \in 0 .. BucketScale - 1 : \A t1, t2 \in RequestTimes :
    (t1 <= t2 /\ Scheduled(schedule, t1, bucket)) => Scheduled(schedule, t2, bucket)

(* The schedule of a captured copy never takes a variant back from a key   *)
(* it has given it to.                                                     *)
ScheduleOnlyGrows ==
  owned # Undefined =>
    \A key \in DOMAIN owned.flags :
      owned.flags[key].schedule # Undefined => NeverShrinks(owned.flags[key].schedule)

(* The buckets a variant is chosen for, and those its rules ask for.       *)
Chosen(rollout, name) ==
  {bucket \in 0 .. BucketScale - 1 :
     SelectRolloutVariant(rollout, [seed \in {RolloutSeed(rollout.rules)} |-> bucket]).variant = name}

Shares(rules, name) ==
  {share \in (DOMAIN rules) \X (1 .. BucketScale) :
     /\ rules[share[1]].variant = name
     /\ share[2] <= rules[share[1]].percentage \div 2}

(* Each rule of a captured rollout gets exactly its share of the buckets.  *)
RolloutShares ==
  owned # Undefined =>
    \A key \in DOMAIN owned.flags :
      LET rollout == owned.flags[key].rollout IN
      rollout # Undefined =>
        \A name \in DOMAIN owned.flags[key].variants :
          Cardinality(Chosen(rollout, name)) = Cardinality(Shares(rollout.rules, name))

(* What validation is for.                                                 *)
ValidationSuffices ==
  /\ ValidatedNeverFails
  /\ ScheduleOnlyGrows
  /\ RolloutShares

(* The overrides found through the environment's names, and with object    *)
(* texts parsed once, are for every flag what the environment and the map  *)
(* give it: the map first, an error only where nothing replaces it.        *)
OverridesAsDocumented ==
  origin # Undefined =>
    \A key \in ToSet(FlagOrder) :
      OverrideOf(overrides, key) = ReferenceOverride(owned.flags, origin, key)

(* The answer is the one the snapshot and the environment in front of the  *)
(* evaluator give.                                                         *)
EvaluationsSound == EvaluationsFresh /\ NegationsSafe /\ OverridesAsDocumented
================================================================================
