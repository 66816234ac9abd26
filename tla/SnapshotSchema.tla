---------------------------- MODULE SnapshotSchema ----------------------------
(***************************************************************************)
(* Which snapshots are accepted (validateFlagSnapshot and its helpers),    *)
(* the captured copy with its indexes, and how a rollout or a schedule     *)
(* chooses a variant.                                                      *)
(*                                                                         *)
(* A snapshot is [ownData, schemaVersion, flags].  An optional field of a  *)
(* flag, rule or rollout that is absent is Undefined.  A percentage is     *)
(* counted in halves of a bucket, so the odd ones are the percentages with *)
(* more decimals than a bucket has; UnknownField stands for a field the    *)
(* schema does not have.                                                   *)
(***************************************************************************)
EXTENDS TargetingConditions, FiniteSetsExt

CONSTANTS
  BlankStrings,   (* strings of white space only                           *)
  BucketScale,    (* number of buckets                                     *)
  Seeds,          (* of rollouts and schedules                             *)
  DefaultSeed,    (* DEFAULT_BUCKETING_SEED                                *)
  Rollouts,       (* the rollouts of a snapshot, before they are captured  *)
  MinRollout,     (* MIN_INDEXED_ROLLOUT_SIZE                              *)
  MinStages,      (* MIN_BINARY_SEARCH_STAGES                              *)
  MaxEntries,     (* entries of a version 2 rollout, rules, stages: 100    *)
  MaxDepth,       (* levels of a condition: 8                              *)
  MaxNodes,       (* of a condition: 100                                   *)
  MaxChildren     (* of a group: 20                                        *)

ASSUME DepthAssumption == MaxDepth \in 1 .. MaxHeight + 1

FlagTypes == {"boolean", "string", "number", "object"}

-----------------------------------------------------------------------------
(* Choosing a variant                                                      *)

(* Math.round(percentage * 1000).                                          *)
PercentageToBucketCount(percentage) == (percentage + 1) \div 2
HasRolloutPrecision(percentage) == percentage % 2 = 0

UpperBound(rollout, i) ==
  LET bound[j \in 0 .. Len(rollout)] ==
        IF j = 0 THEN 0 ELSE bound[j - 1] + PercentageToBucketCount(rollout[j].percentage)
  IN  bound[i]

RolloutSeed(rollout) ==
  LET seeded == {i \in DOMAIN rollout : rollout[i].seed # Undefined}
  IN  IF seeded = {} THEN DefaultSeed ELSE rollout[Min(seeded)].seed

IndexValidatedRollout(rollout) ==
  IF Len(rollout) < MinRollout THEN Undefined
  ELSE [seed |-> RolloutSeed(rollout),
        upperBounds |-> [i \in DOMAIN rollout |-> UpperBound(rollout, i)]]

(* Halving <<low, high>> to the first place that is not before: where the  *)
(* loops of findRolloutIndex and findOrderedStage end.                     *)
FirstNotBefore(before) ==
  LET places == 1 .. Len(before) + 1
      found[span \in places \X places] ==
        LET low == span[1]   high == span[2]   middle == (low + high) \div 2 IN
        IF low >= high THEN low
        ELSE IF before[middle] THEN found[<<middle + 1, high>>] ELSE found[<<low, middle>>]
  IN  found[<<1, Len(before) + 1>>]

(* The first upper bound strictly greater than bucket.                     *)
FindRolloutIndex(bounds, bucket) ==
  FirstNotBefore([i \in DOMAIN bounds |-> ~(bucket < bounds[i])])

(* rollout is [rules, index].                                              *)
SelectRolloutVariant(rollout, bucketOf) ==
  LET rules  == rollout.rules
      seed   == IF rollout.index # Undefined THEN rollout.index.seed ELSE RolloutSeed(rules)
      bucket == bucketOf[seed]
      chosen == IF rollout.index # Undefined
                  THEN {FindRolloutIndex(rollout.index.upperBounds, bucket)} \cap DOMAIN rules
                  ELSE {i \in DOMAIN rules : bucket < UpperBound(rules, i)}
  IN  [bucket |-> bucket,
       variant |-> IF chosen = {} THEN Undefined ELSE rules[Min(chosen)].variant]

FindOrderedStage(stages, time) ==
  FirstNotBefore([i \in DOMAIN stages |-> stages[i].at <= time]) - 1

(* Reading the stages in order up to the first that has not begun.         *)
LastBegun(stages, time) ==
  Max({i \in 0 .. Len(stages) : \A j \in 1 .. i : stages[j].at <= time})

(* Stage 0 stands for none.                                                *)
SelectScheduledVariant(schedule, time, bucketOf, validated) ==
  LET stages == schedule.stages
      stage  == IF validated /\ Len(stages) >= MinStages
                  THEN FindOrderedStage(stages, time) ELSE LastBegun(stages, time)
      share  == IF stage = 0 THEN 0 ELSE stages[stage].percentage
      bucket == bucketOf[IF schedule.seed = Undefined THEN DefaultSeed ELSE schedule.seed]
  IN  [bucket |-> bucket,
       schedule |-> [evaluatedAt |-> time, stage |-> stage, percentage |-> share],
       variant |-> IF bucket < PercentageToBucketCount(share) THEN schedule.variant
                                                              ELSE Undefined]

-----------------------------------------------------------------------------
(* Validation                                                              *)

ValidScheduleTime(time) == time \in Nat

NonBlank(string) == string # Undefined /\ string \notin BlankStrings
OptionalString(string) == string \notin BlankStrings

FlagValueMatchesType(value, type) ==
  value.type = type /\ value.v \notin {NotFinite, Null}

ValidRollout(rules, variants, version) ==
  /\ rules # <<>>
  /\ version = 2 => Len(rules) <= MaxEntries
  /\ \A i \in DOMAIN rules :
       /\ rules[i].variant \in DOMAIN variants
       /\ rules[i].percentage \in 1 .. 2 * BucketScale
       /\ HasRolloutPrecision(rules[i].percentage)
       /\ OptionalString(rules[i].seed)
  /\ UpperBound(rules, Len(rules)) <= BucketScale
  /\ Cardinality({rules[i].seed : i \in DOMAIN rules} \ {Undefined}) <= 1

(* Variant: a stage may lower the percentage.                              *)
ValidStagesInTime(stages) ==
  \A i \in DOMAIN stages :
    /\ ValidScheduleTime(stages[i].at)
    /\ i > 1 => stages[i - 1].at < stages[i].at
    /\ stages[i].percentage \in 0 .. 2 * BucketScale
    /\ HasRolloutPrecision(stages[i].percentage)

ValidStages(stages) ==
  \A i \in DOMAIN stages :
    /\ ValidScheduleTime(stages[i].at)
    /\ i > 1 => stages[i - 1].at < stages[i].at
    /\ i > 1 => stages[i - 1].percentage <= stages[i].percentage
    /\ stages[i].percentage \in 0 .. 2 * BucketScale
    /\ HasRolloutPrecision(stages[i].percentage)

ValidSchedule(schedule, variants) ==
  /\ schedule.variant \in DOMAIN variants
  /\ OptionalString(schedule.seed)
  /\ Len(schedule.stages) \in 1 .. MaxEntries
  /\ ValidStages(schedule.stages)

ConditionScalar(value) == BoundedScalar(value)

ValidLeaf(leaf) ==
  \/ leaf.op = "exists" /\ leaf.operand \in BOOLEAN
  \/ leaf.op = "eq" /\ ConditionScalar(leaf.operand)
  \/ /\ leaf.op = "in" /\ Len(leaf.operand) \in 1 .. MaxEntries
     /\ \A i \in DOMAIN leaf.operand : ConditionScalar(leaf.operand[i])
  \/ /\ leaf.op \in NumberOps
     /\ leaf.operand.type = "number" /\ leaf.operand.v # NotFinite
  \/ /\ leaf.op \in StringOps
     /\ leaf.operand.type = "string" /\ leaf.operand.v \notin LongStrings
  \/ /\ leaf.op \in VersionOps
     /\ leaf.operand.type = "string" /\ StrictVersion(leaf.operand.v) # Undefined

Children(condition) ==
  IF condition.kind = "leaf" THEN <<>>
  ELSE IF condition.kind = "not" THEN <<condition.of>>
  ELSE condition.of

Nodes(condition) ==
  LET nodes[c \in TargetingCondition] ==
        1 + SumFunction([i \in DOMAIN Children(c) |-> nodes[Children(c)[i]]])
  IN  nodes[condition]

WellGrouped(condition) ==
  LET grouped[c \in TargetingCondition] ==
        /\ c.kind \in {"all", "any"} => Len(c.of) \in 1 .. MaxChildren
        /\ \A i \in DOMAIN Children(c) : grouped[Children(c)[i]]
  IN  grouped[condition]

ValidCondition(condition) ==
  /\ WellGrouped(condition)
  /\ condition \in Level[MaxDepth - 1]
  /\ Nodes(condition) <= MaxNodes
  /\ \A leaf \in LeavesOf(condition) : ValidLeaf(leaf)

(* A rule's target is a variant or a rollout, never both nor neither.      *)
ValidRule(rule, variants) ==
  /\ NonBlank(rule.id)
  /\ ValidCondition(rule.when)
  /\ (rule.variant = Undefined) # (rule.rollout = Undefined)
  /\ rule.variant # Undefined => rule.variant \in DOMAIN variants
  /\ rule.rollout # Undefined => ValidRollout(rule.rollout.rules, variants, 2)

ValidRules(rules, variants) ==
  /\ Len(rules) <= MaxEntries
  /\ \A i \in DOMAIN rules : ValidRule(rules[i], variants)
  /\ IsInjective([i \in DOMAIN rules |-> rules[i].id])

ValidVariants(variants, type) ==
  /\ variants # <<>>
  /\ \A name \in DOMAIN variants : NonBlank(name) /\ FlagValueMatchesType(variants[name], type)

ValidFlag(flag, version) ==
  /\ ~flag.unknownField
  /\ flag.type \in FlagTypes
  /\ ValidVariants(flag.variants, flag.type)
  /\ NonBlank(flag.defaultVariant) /\ flag.defaultVariant \in DOMAIN flag.variants
  /\ OptionalString(flag.envVar)
  /\ flag.rollout # Undefined => ValidRollout(flag.rollout.rules, flag.variants, version)
  /\ IF version = 2
       THEN /\ flag.schedule # Undefined => ValidSchedule(flag.schedule, flag.variants)
            /\ flag.schedule = Undefined \/ flag.rollout = Undefined
            /\ ValidRules(flag.rules, flag.variants)
            /\ flag.disabledVariant # Undefined =>
                 flag.disabledVariant \in DOMAIN flag.variants \ BlankStrings
       ELSE /\ flag.schedule = Undefined /\ flag.disabledVariant = Undefined
            /\ flag.rules = <<>>

ValidSnapshot(snapshot) ==
  /\ snapshot.ownData
  /\ snapshot.schemaVersion \in {1, 2}
  /\ \A key \in DOMAIN snapshot.flags :
       NonBlank(key) /\ ValidFlag(snapshot.flags[key], snapshot.schemaVersion)

-----------------------------------------------------------------------------
(* The captured copy: the same contents, with indexes of its own.          *)

CapturedLeaf(leaf) ==
  IF leaf.op = "in" THEN [leaf EXCEPT !.index = CaptureConditionValues(leaf.operand)] ELSE leaf

Captured(condition) ==
  LET captured[c \in TargetingCondition] ==
        IF c.kind = "leaf" THEN CapturedLeaf(c)
        ELSE IF c.kind = "not" THEN [c EXCEPT !.of = captured[c.of]]
        ELSE [c EXCEPT !.of = [i \in DOMAIN c.of |-> captured[c.of[i]]]]
  IN  captured[condition]

CapturedRollout(rollout) ==
  IF rollout = Undefined THEN Undefined
  ELSE [rollout EXCEPT !.index = IndexValidatedRollout(rollout.rules)]

CapturedRule(rule) == [rule EXCEPT !.when = Captured(@), !.rollout = CapturedRollout(@)]

CapturedFlag(flag) ==
  [flag EXCEPT !.rollout = CapturedRollout(@),
               !.rules = [i \in DOMAIN @ |-> CapturedRule(@[i])]]

ValidateFlagSnapshot(snapshot) ==
  [snapshot EXCEPT !.validated = TRUE,
                   !.flags = [key \in DOMAIN @ |-> CapturedFlag(@[key])]]
-----------------------------------------------------------------------------
(* A snapshot as its types have it, valid or not.                          *)

IsSequence(rules) == rules \in Seq(Range(rules))

IsRuleOf(rule, conditions) ==
  /\ DOMAIN rule = {"id", "when", "variant", "rollout"}
  /\ rule.when \in conditions
  /\ rule.rollout \in Rollouts \cup {Undefined}

IsSchedule(schedule) ==
  /\ IsSequence(schedule.stages)
  /\ schedule.seed \in Seeds \cup {Undefined}

IsFlagOf(flag, conditions) ==
  /\ DOMAIN flag = {"type", "variants", "defaultVariant", "rollout", "envVar", "rules",
                    "disabledVariant", "schedule", "unknownField"}
  /\ flag.rollout \in Rollouts \cup {Undefined}
  /\ flag.schedule # Undefined => IsSchedule(flag.schedule)
  /\ IsSequence(flag.rules)
  /\ \A i \in DOMAIN flag.rules : IsRuleOf(flag.rules[i], conditions)

IsSnapshotOf(snapshot, conditions) ==
  /\ DOMAIN snapshot = {"ownData", "schemaVersion", "validated", "flags"}
  /\ ~snapshot.validated
  /\ \A key \in DOMAIN snapshot.flags : IsFlagOf(snapshot.flags[key], conditions)

IsRule(rule) == IsRuleOf(rule, TargetingCondition)
IsFlag(flag) == IsFlagOf(flag, TargetingCondition)
IsSnapshot(snapshot) == IsSnapshotOf(snapshot, TargetingCondition)

ASSUME RolloutsAssumption ==
  /\ DefaultSeed \in Seeds
  /\ BucketScale \in Nat
  /\ \A rollout \in Rollouts :
       /\ rollout = [rules |-> rollout.rules, index |-> Undefined]
       /\ IsSequence(rollout.rules)
       /\ \A i \in DOMAIN rollout.rules : rollout.rules[i].seed \in Seeds \cup {Undefined}
       /\ Undefined \notin {rollout, CapturedRollout(rollout)}
================================================================================
