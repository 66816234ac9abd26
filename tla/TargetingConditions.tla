-------------------------- MODULE TargetingConditions --------------------------
(***************************************************************************)
(* conditions.ts: how a targeting condition is matched against a request.  *)
(* A condition is matched two-valued, a doubtful attribute counting as no  *)
(* match - except below `not`, where it is checked three-valued, so that   *)
(* data that could not be read is never inverted into a match.             *)
(*                                                                         *)
(* A value is [type, v]: type is its typeof, so null and composites are    *)
(* both "object".  Strings are model values; the relations between them    *)
(* and the ranks of the strict versions are constants.                     *)
(*                                                                         *)
(* Left out: the infinities, which an operand that was never validated     *)
(* could hold and be identical to (conditions.ts:239); and a request whose *)
(* own `context` or `targetingKey` is inherited or an accessor, which      *)
(* readAttribute reads and readCheckedAttribute refuses (:101-109).        *)
(***************************************************************************)
EXTENDS Integers, Sequences, FiniteSets, SequencesExt

CONSTANTS
  Undefined,      (* JavaScript's undefined; also the third truth value    *)
  Missing,        (* no attribute at the path                              *)
  InvalidAttribute,             (* denied, inherited or at a malformed path *)
  Null, Composite, NotFinite,   (* values: null, an object, NaN            *)
  LongStrings,    (* strings of more than 4096 code units                  *)
  StartsWith, EndsWith,         (* pairs <<string, part>>                  *)
  Version,        (* rank of each string that is a strict version          *)
  TargetingKey,   (* the path <<"targetingKey">>                           *)
  MinMembership,  (* MIN_INDEXED_MEMBERSHIP_SIZE                           *)
  Conditions,     (* identities of condition objects                       *)
  Leaves,         (* the leaf conditions of a snapshot                     *)
  MaxHeight       (* bound on how deep conditions are nested               *)

NumberOps  == {"gt", "gte", "lt", "lte"}
StringOps  == {"startsWith", "endsWith"}
VersionOps == {"semverEq", "semverGt", "semverGte", "semverLt", "semverLte"}
Operators  == {"exists", "eq", "in"} \cup NumberOps \cup StringOps \cup VersionOps

ValueTypes == {"boolean", "string", "number", "object"}

IsValue(value) == value # Undefined /\ value.type \in ValueTypes

(* A leaf as its type has it; the operand of `exists` is a boolean itself. *)
IsLeaf(leaf) ==
  /\ leaf = [kind |-> "leaf", id |-> leaf.id, path |-> leaf.path, op |-> leaf.op,
             operand |-> leaf.operand, index |-> Undefined]
  /\ leaf.id \in Conditions
  /\ leaf.op \in Operators
  /\ leaf.op = "exists" => leaf.operand \in BOOLEAN
  /\ leaf.op = "eq" => IsValue(leaf.operand)
  /\ leaf.op = "in" => \A i \in DOMAIN leaf.operand : IsValue(leaf.operand[i])

ASSUME ConditionsAssumption ==
  /\ Undefined \notin BOOLEAN \cup {Missing, InvalidAttribute}
  /\ Null # NotFinite
  /\ \A leaf \in Leaves : IsLeaf(leaf)
  /\ MaxHeight \in Nat

-----------------------------------------------------------------------------
(* Reading                                                                 *)

(* context maps every path to a value, Missing or InvalidAttribute.        *)
ReadCheckedAttribute(path, request) ==
  IF path = TargetingKey /\ request.targetingKey # Undefined
    THEN [type |-> "string", v |-> request.targetingKey]
    ELSE request.context[path]

ReadAttribute(path, request) ==
  LET actual == ReadCheckedAttribute(path, request)
  IN  IF actual \in {Missing, InvalidAttribute} THEN Undefined ELSE actual

BoundedScalar(actual) ==
  /\ actual \notin {Undefined, Missing, InvalidAttribute}
  /\ \/ actual.type = "boolean"
     \/ actual.type = "number" /\ actual.v # NotFinite
     \/ actual.type = "string" /\ actual.v \notin LongStrings
     \/ actual.v = Null

(* The answer of `exists`.                                                 *)
Presence(actual, expected) ==
  IF actual = Missing THEN ~expected
  ELSE IF BoundedScalar(actual) \/ actual \in [type : {"object"}, v : {Composite}] THEN expected
  ELSE Undefined

StrictVersion(string) == IF string \in DOMAIN Version THEN Version[string] ELSE Undefined

-----------------------------------------------------------------------------
(* Caches                                                                  *)

(* Variant: the cached parse of a condition object, whatever it says now.  *)
StaleOperand(leaf, operands) ==
  IF operands[leaf.id] # Undefined THEN operands[leaf.id].parsed ELSE StrictVersion(leaf.operand.v)

(* semverOperands: for each condition object, the operand it was last read *)
(* with and what that operand parsed to.                                   *)
OperandVersion(leaf, operands) ==
  LET cached == operands[leaf.id]
  IN  IF cached # Undefined /\ cached.value = leaf.operand.v
        THEN cached.parsed ELSE StrictVersion(leaf.operand.v)

(* The operand of `in`; a captured one carries an index when it is long.   *)
CaptureConditionValues(values) ==
  IF Len(values) < MinMembership THEN Undefined
  ELSE [values |-> ToSet(values), types |-> {value.type : value \in ToSet(values)}]

(* Only copies the validator made, and hence passed, are captured.         *)
IndexedLeaves ==
  {[leaf EXCEPT !.index = CaptureConditionValues(leaf.operand)] :
     leaf \in {l \in Leaves : /\ l.op = "in"
                             /\ \A i \in DOMAIN l.operand : BoundedScalar(l.operand[i])}}

(* The operator ===, of which a NaN and two objects of two documents are   *)
(* never a pair.                                                           *)
Identical(operand, actual) ==
  /\ operand = actual
  /\ operand.type = "number" => operand.v # NotFinite
  /\ operand.type = "object" => operand.v = Null

Member(leaf, actual) ==
  IF leaf.index = Undefined THEN \E i \in DOMAIN leaf.operand : Identical(leaf.operand[i], actual)
                            ELSE actual \in leaf.index.values

SomeOfItsType(leaf, actual) ==
  IF leaf.index = Undefined
    THEN \E i \in DOMAIN leaf.operand : leaf.operand[i].type = actual.type
    ELSE actual.type \in leaf.index.types

-----------------------------------------------------------------------------
(* Conditions                                                              *)

Nested(conditions) ==
  conditions \cup [kind : {"not"}, of : conditions]
             \cup [kind : {"all", "any"}, of : Seq(conditions)]

Level[height \in 0 .. MaxHeight] ==
  IF height = 0 THEN Leaves \cup IndexedLeaves ELSE Nested(Level[height - 1])

TargetingCondition == Level[MaxHeight]

-----------------------------------------------------------------------------
(* Matching                                                                *)

Compares(op, left, right) ==
  \/ op \in {"gt", "semverGt"}   /\ left > right
  \/ op \in {"gte", "semverGte"} /\ left >= right
  \/ op \in {"lt", "semverLt"}   /\ left < right
  \/ op \in {"lte", "semverLte"} /\ left <= right
  \/ op = "semverEq"             /\ left = right

OfType(actual, type) == actual # Undefined /\ actual.type = type

MatchesLeaf(leaf, actual, operands) ==
  /\ ~(OfType(actual, "string") /\ actual.v \in LongStrings)
  /\ \/ leaf.op = "eq" /\ Identical(leaf.operand, actual)
     \/ leaf.op = "in" /\ Member(leaf, actual)
     \/ /\ leaf.op = "startsWith" /\ OfType(actual, "string")
        /\ <<actual.v, leaf.operand.v>> \in StartsWith
     \/ /\ leaf.op = "endsWith" /\ OfType(actual, "string")
        /\ <<actual.v, leaf.operand.v>> \in EndsWith
     \/ /\ leaf.op \in NumberOps /\ OfType(actual, "number") /\ actual.v # NotFinite
        /\ Compares(leaf.op, actual.v, leaf.operand.v)
     \/ /\ leaf.op \in VersionOps /\ OfType(actual, "string")
        /\ StrictVersion(actual.v) # Undefined /\ OperandVersion(leaf, operands) # Undefined
        /\ Compares(leaf.op, StrictVersion(actual.v), OperandVersion(leaf, operands))

(* The operator says something about a value of this kind.                 *)
Comparable(leaf, actual, operands) ==
  \/ leaf.op = "eq" /\ actual.type = leaf.operand.type
  \/ leaf.op = "in" /\ SomeOfItsType(leaf, actual)
  \/ leaf.op \in NumberOps /\ actual.type = "number"
  \/ leaf.op \in StringOps /\ actual.type = "string"
  \/ /\ leaf.op \in VersionOps /\ actual.type = "string"
     /\ StrictVersion(actual.v) # Undefined /\ OperandVersion(leaf, operands) # Undefined

CheckedLeaf(leaf, request, operands) ==
  LET actual == ReadCheckedAttribute(leaf.path, request) IN
  IF leaf.op = "exists" THEN Presence(actual, leaf.operand)
  ELSE IF BoundedScalar(actual) /\ Comparable(leaf, actual, operands)
    THEN MatchesLeaf(leaf, actual, operands)
  ELSE Undefined

(* Variant: the group answers as soon as one child decides it.             *)
ShortCircuit(kind, answers) ==
  IF kind = "any" /\ TRUE \in answers       THEN TRUE
  ELSE IF kind = "all" /\ FALSE \in answers THEN FALSE
  ELSE IF Undefined \in answers             THEN Undefined
  ELSE kind = "all"

(* Every child is looked at: one that is not valid dominates.              *)
CheckedGroup(kind, answers) ==
  IF Undefined \in answers THEN Undefined
  ELSE IF kind = "all" THEN \A answer \in answers : answer ELSE \E answer \in answers : answer

Negated(answer) == IF answer = Undefined THEN Undefined ELSE ~answer

CheckedCondition(condition, request, operands) ==
  LET checked[c \in TargetingCondition] ==
        IF c.kind = "leaf" THEN CheckedLeaf(c, request, operands)
        ELSE IF c.kind = "not" THEN Negated(checked[c.of])
        ELSE CheckedGroup(c.kind, {checked[c.of[i]] : i \in DOMAIN c.of})
  IN  checked[condition]

MatchedLeaf(leaf, request, operands) ==
  IF leaf.op = "exists"
    THEN Presence(ReadCheckedAttribute(leaf.path, request), leaf.operand) = TRUE
    ELSE MatchesLeaf(leaf, ReadAttribute(leaf.path, request), operands)

MatchesCondition(condition, request, operands) ==
  LET matches[c \in TargetingCondition] ==
        IF c.kind = "leaf" THEN MatchedLeaf(c, request, operands)
        ELSE IF c.kind = "not" THEN CheckedCondition(c.of, request, operands) = FALSE
        ELSE IF c.kind = "all" THEN \A i \in DOMAIN c.of : matches[c.of[i]]
        ELSE \E i \in DOMAIN c.of : matches[c.of[i]]
  IN  matches[condition]

-----------------------------------------------------------------------------
(* The reference a matched condition is compared with.                     *)

LeavesOf(condition) ==
  LET leaves[c \in TargetingCondition] ==
        IF c.kind = "leaf" THEN {c}
        ELSE IF c.kind = "not" THEN leaves[c.of]
        ELSE UNION {leaves[c.of[i]] : i \in DOMAIN c.of}
  IN  leaves[condition]

PlainLeaf(leaf) == [leaf EXCEPT !.index = Undefined]

(* What a leaf says without the help of an index.                          *)
Says(leaf, request, operands) == CheckedLeaf(PlainLeaf(leaf), request, operands)

(* Classical truth, for conditions all of whose leaves can be read.        *)
Classical(condition, request, operands) ==
  LET truth[c \in TargetingCondition] ==
        IF c.kind = "leaf" THEN Says(c, request, operands) = TRUE
        ELSE IF c.kind = "not" THEN ~truth[c.of]
        ELSE IF c.kind = "all" THEN \A i \in DOMAIN c.of : truth[c.of[i]]
        ELSE \E i \in DOMAIN c.of : truth[c.of[i]]
  IN  truth[condition]

(* Everything below can be read.                                           *)
Readable(condition, request, operands) ==
  \A leaf \in LeavesOf(condition) : Says(leaf, request, operands) # Undefined

(* A negation holds only if everything below it could be read and the      *)
(* negated condition is false; elsewhere a leaf that cannot be read does   *)
(* not hold.                                                               *)
Holds(condition, request, operands) ==
  LET holds[c \in TargetingCondition] ==
        IF c.kind = "leaf" THEN Says(c, request, operands) = TRUE
        ELSE IF c.kind = "not"
          THEN Readable(c.of, request, operands) /\ ~Classical(c.of, request, operands)
        ELSE IF c.kind = "all" THEN \A i \in DOMAIN c.of : holds[c.of[i]]
        ELSE \E i \in DOMAIN c.of : holds[c.of[i]]
  IN  holds[condition]
================================================================================
