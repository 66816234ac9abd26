----------------------------- MODULE SnapshotTools -----------------------------
(***************************************************************************)
(* The commands around evaluation: compile-segments, import-flagd,         *)
(* simulate and compare, and the replay of a recorded evaluation.  Each    *)
(* reads its documents, works in one go in a process of its own, and       *)
(* reports; what the first two emit is a snapshot like any other.          *)
(*                                                                         *)
(* An authoring document is [segments, snapshot]: its conditions may also  *)
(* be references, [kind |-> "segment", name].  A flagd document is         *)
(* [plain, flags], a flag [enabled, plain, variants, defaultVariant];      *)
(* plain: without fields the import does not know.                         *)
(*                                                                         *)
(* Left out: which code a rejection carries, the shape of documents that   *)
(* are no records, and limits on definitions, bytes and nodes of JSON.     *)
(***************************************************************************)
EXTENDS FlagEvaluation

CONSTANTS
  Documents, FlagdDocuments,
  Authored,       (* the conditions of documents, with all their parts     *)
  RequestFiles,   (* sets of raw requests, as a file holds them            *)
  Limits,         (* [values, decisions]: parts of Whole, or Undefined     *)
  Whole,          (* 100 percent, in the unit of Limits                    *)
  MaxVisits       (* MAX_EXPANSION_VISITS                                  *)

(* A leaf, a reference, a negation or a group.                             *)
IsAuthored(when) ==
  \/ when \in Leaves
  \/ when.kind = "segment" /\ when = [kind |-> "segment", name |-> when.name]
  \/ when.kind = "not" /\ when = [kind |-> "not", of |-> when.of] /\ when.of \in Authored
  \/ /\ when.kind \in {"all", "any"} /\ when = [kind |-> when.kind, of |-> when.of]
     /\ IsSequence(when.of) /\ Range(when.of) \subseteq Authored

ASSUME DocumentsAssumption ==
  /\ MaxChildren \in Nat \ {0} /\ MaxNodes \in Nat
  /\ \A when \in Authored : IsAuthored(when)
  /\ \A document \in Documents :
       /\ \A name \in DOMAIN document.segments : document.segments[name] \in Authored
       /\ IsSnapshotOf(document.snapshot, Authored)

VARIABLE report   (* of the last command, until the next step              *)

allVars == <<evaluationVars, report>>

-----------------------------------------------------------------------------
(* compile-segments                                                        *)

Rejection == [accepted |-> FALSE, nodes |-> 0, when |-> Undefined]

(* A reference is a node of its own, but leaves nothing in the condition.  *)
Referred(definition) == [definition EXCEPT !.nodes = @ + 1]

(* A group or a negation, of its expanded parts.                           *)
Composed(when, parts) ==
  IF Len(Children(when)) \in 1 .. MaxChildren /\ \A i \in DOMAIN parts : parts[i].accepted
    THEN [accepted |-> TRUE,
          nodes |-> 1 + SumFunction([i \in DOMAIN parts |-> parts[i].nodes]),
          when |-> [when EXCEPT !.of = IF when.kind = "not" THEN parts[1].when
                                       ELSE [i \in DOMAIN parts |-> parts[i].when]]]
    ELSE Rejection

(* A condition without references, and the nodes it took.  room: the       *)
(* levels left for it; active: the references on the way here.             *)
Expanding(segments) ==
  LET expand[room \in 0 .. MaxDepth] ==
        [when \in Authored |-> [active \in SUBSET DOMAIN segments |->
           IF room = 0 THEN Rejection
           ELSE IF when.kind = "leaf" THEN [accepted |-> TRUE, nodes |-> 1, when |-> when]
           ELSE IF when.kind = "segment"
             THEN IF when.name \in DOMAIN segments \ active
                    THEN Referred(expand[room - 1][segments[when.name]][active \cup {when.name}])
                    ELSE Rejection
           ELSE Composed(when, [i \in DOMAIN Children(when) |->
                                  expand[room - 1][Children(when)[i]][active]])]]
  IN  expand

Expand(segments, condition, names) == Expanding(segments)[MaxDepth][condition][names]

Expands(expansion) == expansion.accepted /\ expansion.nodes <= MaxNodes

DefinitionsUnread(segments) == TRUE     \* variant: only what rules refer to is looked at

(* Unused definitions too.                                                 *)
DefinitionsHold(segments) ==
  \A name \in DOMAIN segments :
    LET expansion == Expand(segments, segments[name], {name})
    IN  Expands(expansion) /\ ValidCondition(expansion.when)

(* A snapshot with another condition for each of its rules'.               *)
WithConditions(snapshot, conditions) ==
  LET rules(flag) == [i \in DOMAIN flag.rules |->
                        [flag.rules[i] EXCEPT !.when = conditions[flag.rules[i].when]]]
  IN  [snapshot EXCEPT !.flags = [key \in DOMAIN snapshot.flags |->
         [snapshot.flags[key] EXCEPT !.rules = rules(snapshot.flags[key])]]]

(* Over every rule, one that several flags have counted for each.          *)
TotalOf(snapshot, counts) ==
  SumFunction([key \in DOMAIN snapshot.flags |->
    SumFunction([i \in DOMAIN snapshot.flags[key].rules |-> counts[snapshot.flags[key].rules[i].when]])])

(* Whether a document is accepted, and the snapshot without references.    *)
Compiled(document) ==
  LET flags      == document.snapshot.flags
      expansions == [when \in Authored |-> Expand(document.segments, when, {})]
      output     == WithConditions(document.snapshot, [when \in Authored |-> expansions[when].when])
  IN  [accepted |-> /\ document.snapshot.schemaVersion = 2
                    /\ DefinitionsHold(document.segments)
                    /\ \A key \in DOMAIN flags : \A i \in DOMAIN flags[key].rules :
                         Expands(expansions[flags[key].rules[i].when])
                    /\ TotalOf(document.snapshot, [when \in Authored |-> expansions[when].nodes]) <= MaxVisits
                    /\ ValidSnapshot(output),
       output |-> output]

-----------------------------------------------------------------------------
(* import-flagd                                                            *)

Convertible(flag) ==
  /\ flag.plain /\ flag.enabled
  /\ flag.defaultVariant \in DOMAIN flag.variants
  /\ \A name \in DOMAIN flag.variants : flag.variants[name].v # Null
  /\ Cardinality({flag.variants[name].type : name \in DOMAIN flag.variants} \cap FlagTypes) = 1

Converted(flag) ==
  [type |-> (CHOOSE value \in Range(flag.variants) : TRUE).type,
   variants |-> flag.variants, defaultVariant |-> flag.defaultVariant,
   rollout |-> Undefined, envVar |-> Undefined, rules |-> <<>>, disabledVariant |-> Undefined,
   schedule |-> Undefined, unknownField |-> FALSE]

Imported(document) ==
  LET output == [ownData |-> TRUE, schemaVersion |-> 2, validated |-> FALSE,
                 flags |-> [key \in DOMAIN document.flags |-> Converted(document.flags[key])]]
  IN  [accepted |-> /\ document.plain
                    /\ \A key \in DOMAIN document.flags : Convertible(document.flags[key])
                    /\ ValidSnapshot(output),
       output |-> output]

-----------------------------------------------------------------------------
(* simulate and compare                                                    *)

Parsable(raw) ==
  /\ raw.targetingKey \notin LongStrings
  /\ raw.time = Undefined \/ ValidScheduleTime(raw.time)

(* The context's targeting key, when the request has none of its own.      *)
ParseRequest(raw) ==
  LET key == ReadAttribute(TargetingKey, raw)
  IN  IF raw.targetingKey = Undefined /\ OfType(key, "string")
        THEN [raw EXCEPT !.targetingKey = key.v] ELSE raw

DecisionsOf(snapshot, raws, options) ==
  LET state == IF options = Undefined THEN NoOverrides
               ELSE CreateIndexedEnvOverrides(snapshot.flags, options)
  IN  [raw \in raws |-> Decision(snapshot, ParseRequest(raw), state, NoOperands)]

UnscheduledFields == {"variant", "rule", "reason", "errorCode", "bucket"}   \* variant: no schedule

(* What comparison looks at besides the value; the source follows from the *)
(* reason.                                                                 *)
DecisionFields == {"variant", "rule", "reason", "errorCode", "bucket", "schedule"}

Differs(before, after, fields) == \E field \in fields : before[field] # after[field]

Exceeds(limit, changed, total) == limit # Undefined /\ changed * Whole > limit * total

(* How many requests had the same flag, reason, variant, rule and error.   *)
Summarize(decisions) ==
  LET group(raw) == <<raw.flagKey, decisions[raw].reason, decisions[raw].variant,
                      decisions[raw].rule, decisions[raw].errorCode>>
  IN  [g \in {group(raw) : raw \in DOMAIN decisions} |->
         Cardinality({raw \in DOMAIN decisions : group(raw) = g})]

(* Of the decisions of two snapshots about the same requests.              *)
Comparison(baseline, candidate, raws, limits) ==
  LET changed(fields) == {raw \in raws : Differs(baseline[raw], candidate[raw], fields)}
      values    == Cardinality(changed({"value"}))
      decisions == Cardinality(changed(DecisionFields))
      passed    == ~Exceeds(limits.values, values, Cardinality(raws))
                   /\ ~Exceeds(limits.decisions, decisions, Cardinality(raws))
  IN  [values |-> values, decisions |-> decisions,
       before |-> Summarize(baseline), after |-> Summarize(candidate),
       exit |-> IF \E raw \in raws : {baseline[raw].errorCode, candidate[raw].errorCode} # {Undefined}
                  THEN 1 ELSE IF passed THEN 0 ELSE 3]

-----------------------------------------------------------------------------
(* replay                                                                  *)

ReplayFields == {"schedule", "value", "variant", "rule", "bucket", "reason", "errorCode"}

(* A fixture is [snapshot, request, options, expected].                    *)
Mismatches(fixture) ==
  LET state  == IF fixture.options = Undefined THEN NoOverrides
                ELSE CreateEnvOverrides(fixture.snapshot.flags, fixture.options)
      actual == Decision(fixture.snapshot, fixture.request, state, NoOperands)
  IN  {field \in ReplayFields : fixture.expected[field] # actual[field]}

Recorded(request) ==
  [snapshot |-> Unindexed(owned), request |-> request,
   options |-> origin,
   expected |-> Decision(owned, request, overrides, operands["owned"])]

ASSUME RequestsAssumption ==
  /\ Whole \in Nat \ {0}
  /\ \A request \in Requests : {"flagKey", "expectedType"} \subseteq DOMAIN request
  /\ \A limits \in Limits : {limits.values, limits.decisions} \subseteq Nat \cup {Undefined}
  /\ \A raws \in RequestFiles :
       /\ IsFiniteSet(raws)
       /\ \A raw \in raws : Parsable(raw) => Hashed(ParseRequest(raw))

-----------------------------------------------------------------------------
(* The steps                                                               *)

ToolsInit == EvaluationInit /\ report = Undefined

(* A command is looked at between two evaluations.                         *)
Runs == result = Undefined /\ report = Undefined

(* An accepted output becomes the caller's snapshot (bound: its first).    *)
Emits(kind, document, made) ==
  /\ Runs
  /\ owned = Undefined /\ edits = 0
  /\ IF made.accepted
       THEN /\ report' = [kind |-> kind, document |-> document, accepted |-> TRUE, output |-> made.output]
            /\ Load(made.output)
       ELSE /\ report' = [kind |-> kind, document |-> document, accepted |-> FALSE]
            /\ UNCHANGED evaluationVars

CompileSegments == \E document \in Documents : Emits("compiled", document, Compiled(document))

ImportFlagd == \E document \in FlagdDocuments : Emits("imported", document, Imported(document))

(* The captured copy's file and the caller's, which is loaded anew.        *)
Compare ==
  /\ Runs
  /\ owned # Undefined /\ ValidSnapshot(input)
  /\ \E raws \in RequestFiles, options \in Options \cup {Undefined}, limits \in Limits :
       \/ /\ \E raw \in raws : ~Parsable(raw)
          /\ report' = [kind |-> "failed"]
       \/ /\ \A raw \in raws : Parsable(raw)
          /\ \E after \in {ValidateFlagSnapshot(input)} :
             \E baseline \in {DecisionsOf(owned, raws, options)},
                candidate \in {DecisionsOf(after, raws, options)} :
               report' = [kind |-> "compared", after |-> after, raws |-> raws,
                          options |-> options, limits |-> limits,
                          outcome |-> Comparison(baseline, candidate, raws, limits)]
  /\ UNCHANGED evaluationVars

(* An evaluation of the provider's, recorded and replayed elsewhere.       *)
Replay ==
  /\ Runs
  /\ owned # Undefined
  /\ \E request \in Requests :
       report' = [kind |-> "replayed", mismatches |-> Mismatches(Recorded(request))]
  /\ UNCHANGED evaluationVars

Reported ==
  /\ report # Undefined
  /\ report' = Undefined
  /\ UNCHANGED evaluationVars

ToolsNext ==
  \/ EvaluationNext /\ report = Undefined /\ UNCHANGED report
  \/ Reported
  \/ CompileSegments
  \/ ImportFlagd
  \/ Compare
  \/ Replay

ToolsSpec == ToolsInit /\ [][ToolsNext]_allVars

-----------------------------------------------------------------------------
(* Properties                                                              *)

Cut == [kind |-> "cut"]

(* The reference for an authoring document: a reference stands for a group *)
(* of one, its definition.  What is nested too deep is left out.           *)
Unfolding(segments) ==
  LET unfolded[room \in 0 .. MaxDepth] ==
        [when \in Authored |->
           IF room = 0 THEN Cut
           ELSE IF when.kind = "leaf" THEN when
           ELSE IF when.kind = "segment"
             THEN IF when.name \in DOMAIN segments
                    THEN [kind |-> "all", of |-> <<unfolded[room - 1][segments[when.name]]>>]
                    ELSE Cut
           ELSE IF when.kind = "not" THEN [kind |-> "not", of |-> unfolded[room - 1][when.of]]
           ELSE [kind |-> when.kind, of |-> [i \in DOMAIN when.of |-> unfolded[room - 1][when.of[i]]]]]
  IN  unfolded

Unfolded(segments, condition) == Unfolding(segments)[MaxDepth][condition]

Acceptable(segments, when) ==
  Unfolded(segments, when) \in TargetingCondition /\ ValidCondition(Unfolded(segments, when))

(* A document is compiled exactly if, with every reference replaced, all   *)
(* it defines and all its rules are conditions the validator accepts,      *)
(* whether a definition is used or not, and what is emitted decides every  *)
(* request as those do, sharing and negation included                      *)
(* (reusable-conditions.md: "sharing is not a cycle", "No partial output").*)
CompiledAsWritten ==
  (report # Undefined /\ report.kind = "compiled") =>
    LET segments == report.document.segments
        snapshot == report.document.snapshot
        flags    == snapshot.flags
        unfolded == [when \in Authored |-> Unfolded(segments, when)]
        inlined  == WithConditions(snapshot, unfolded)
    IN  /\ report.accepted <=>
             /\ \A name \in DOMAIN segments : Acceptable(segments, segments[name])
             /\ \A key \in DOMAIN flags : \A i \in DOMAIN flags[key].rules :
                  Acceptable(segments, flags[key].rules[i].when)
             /\ TotalOf(snapshot, [when \in Authored |-> Nodes(unfolded[when])]) <= MaxVisits
             /\ snapshot.schemaVersion = 2 /\ ValidSnapshot(inlined)
        /\ report.accepted => \A request \in Requests :
             Decision(report.output, request, NoOverrides, NoOperands)
               = Decision(inlined, request, NoOverrides, NoOperands)

(* Every flag of an imported document keeps deciding its explicit default. *)
ImportedAsWritten ==
  (report # Undefined /\ report.kind = "imported" /\ report.accepted) =>
    \A key \in DOMAIN report.document.flags : \A request \in Requests :
      LET flag   == report.document.flags[key]
          value  == flag.variants[flag.defaultVariant]
          answer == Decision(report.output,
                      [request EXCEPT !.flagKey = key, !.expectedType = value.type], NoOverrides, NoOperands)
      IN  answer.value = value /\ answer.errorCode = Undefined /\ flag.enabled

(* So many changed are not within the share a limit allows.                *)
Beyond(limit, changed) ==
  limit # Undefined /\ changed \notin 0 .. (limit * Cardinality(report.raws)) \div Whole

(* The answers differ in any part but the value: also in the time, stage   *)
(* or percentage of a schedule alone (local-inspection.md: "comparison     *)
(* includes schedule metadata in changedDecisions").                       *)
DecidesOtherwise(before, after) ==
  \E part \in DOMAIN before \ {"value", "trace"} : before[part] # after[part]

(* What a comparison counts is what the two snapshots, read front to back  *)
(* with overrides of their own, answer and decide differently; when it     *)
(* counts no changed decision its summaries agree; it succeeds only        *)
(* without an error in either; and a share equal to its limit is never     *)
(* rejected.                                                               *)
ComparedAsRead ==
  (report # Undefined /\ report.kind = "compared") =>
    LET state(snapshot) == IF report.options = Undefined THEN NoOverrides
                           ELSE CreateEnvOverrides(snapshot.flags, report.options)
        answers == [snapshot \in {owned, report.after} |-> [raw \in report.raws |->
          Decision(Unindexed(snapshot), ParseRequest(raw), state(snapshot), NoOperands)]]
        outcome == report.outcome
    IN  \A before \in {answers[owned]}, after \in {answers[report.after]} :
        LET values    == Cardinality({raw \in report.raws : before[raw].value # after[raw].value})
            decisions == Cardinality({raw \in report.raws : DecidesOtherwise(before[raw], after[raw])})
        IN
        /\ outcome.values = values /\ outcome.decisions = decisions
        /\ outcome.decisions = 0 => outcome.before = outcome.after
        /\ outcome.exit # 1 => \A raw \in report.raws :
             before[raw].errorCode = Undefined /\ after[raw].errorCode = Undefined
        /\ outcome.exit = 3 => \/ Beyond(report.limits.values, values)
                               \/ Beyond(report.limits.decisions, decisions)

(* An evaluation of the captured copy, with its indexes, its caches and    *)
(* its indexed overrides, replays without mismatch from the recorded text. *)
ReplaysAgree == (report # Undefined /\ report.kind = "replayed") => report.mismatches = {}

ToolsFaithful == CompiledAsWritten /\ ImportedAsWritten /\ ComparedAsRead /\ ReplaysAgree
================================================================================
