--------------------------- MODULE MCFlagEvaluation ---------------------------
(***************************************************************************)
(* A small instance of FlagEvaluation: two flags, conditions over two      *)
(* attributes, four buckets, rollouts and schedules long enough for their  *)
(* indexes, and, in each family, snapshots the validator must refuse.      *)
(***************************************************************************)
EXTENDS SnapshotTools

CONSTANTS f, g, p, q, a, b, v1, v2, word, long, k0, k1, k2, k3, blank,
          seed1, x, y, t1, t2, bad

Str(s) == [type |-> "string", v |-> s]
Num(n) == [type |-> "number", v |-> n]
Obj(o) == [type |-> "object", v |-> o]

Starts == {<<v1, v1>>, <<v2, v2>>, <<word, word>>, <<v2, word>>}
Ranks == (v1 :> 1) @@ (v2 :> 2)

Leaf(id, path, op, operand) ==
  [kind |-> "leaf", id |-> id, path |-> path, op |-> op, operand |-> operand, index |-> Undefined]
Not(c)  == [kind |-> "not", of |-> c]
AllOf(cs) == [kind |-> "all", of |-> cs]
AnyOf(cs) == [kind |-> "any", of |-> cs]

Ids == {"c1", "c2"}
Newer(v)  == Leaf("c1", p, "semverGt", Str(v))
Large     == Leaf("c2", q, "gte", Num(2))
Present   == Leaf("c1", p, "exists", TRUE)
Listed    == Leaf("c1", p, "in", <<Str(v1), Num(1)>>)
Begins    == Leaf("c1", p, "startsWith", Str(word))
Same      == Leaf("c1", p, "eq", Str(v1))
Misread   == Leaf("c1", p, "gte", Str(v1))

MCLeaves == {Newer(v1), Newer(v2), Large, Present, Listed, Begins, Same, Misread}

Flag == [type |-> "string", variants |-> (a :> Str(v1)) @@ (b :> Str(v2)), defaultVariant |-> a,
         rollout |-> Undefined, envVar |-> Undefined, rules |-> <<>>, disabledVariant |-> Undefined,
         schedule |-> Undefined, unknownField |-> FALSE]

Snapshot(flag) ==
  [ownData |-> TRUE, schemaVersion |-> 2, validated |-> FALSE, flags |-> (f :> flag)]

Rule(id, when) == [id |-> id, when |-> when, variant |-> b, rollout |-> Undefined]
Targeted(when) == Snapshot([Flag EXCEPT !.rules = <<Rule("r1", when)>>])

Rollout(rules) == [rules |-> rules, index |-> Undefined]
Share(name, percentage, seed) == [variant |-> name, percentage |-> percentage, seed |-> seed]
RolledOut(rules) == Snapshot([Flag EXCEPT !.rollout = Rollout(rules)])

Stage(at, percentage) == [at |-> at, percentage |-> percentage]
MCSeeds == {DefaultSeed, seed1}
Staged(stages) ==
  Snapshot([Flag EXCEPT !.schedule = [variant |-> b, seed |-> Undefined, stages |-> stages]])

VersionFamily == {Targeted(Newer(v1)), Targeted(Newer(v2)), Targeted(Not(Newer(v1))),
                  Targeted(Not(Newer(v2)))}

NegationFamily ==
  {Targeted(c) : c \in {
     Not(Not(Same)), Not(AnyOf(<<Same, Large>>)), Not(AllOf(<<Large, Listed>>)),
     AnyOf(<<Large, Not(Listed)>>), Not(AnyOf(<<Present, Not(Large)>>)), Not(Begins)}}

Rules1 == <<Share(a, 2, Undefined), Share(b, 4, Undefined)>>
Rules2 == <<Share(b, 2, Undefined), Share(a, 4, seed1), Share(b, 2, seed1)>>
Rules3 == <<Share(b, 3, Undefined), Share(a, 2, Undefined)>>
Rules4 == <<Share(b, 6, Undefined), Share(a, 4, Undefined)>>
Rules5 == <<Share(b, 6, Undefined)>>
Rules6 == <<Share(b, 2, Undefined), Share(a, 2, Undefined)>>
MCRollouts == {Rollout(rules) : rules \in {Rules1, Rules2, Rules3, Rules4, Rules5, Rules6}}

RolloutFamily ==
  {RolledOut(rules) : rules \in {Rules1, Rules2, Rules3, Rules4, Rules5}}
  \cup {[RolledOut(Rules6) EXCEPT !.schemaVersion = 1]}

ScheduleFamily ==
  {Staged(<<Stage(0, 2), Stage(1, 4), Stage(2, 8)>>),
   Staged(<<Stage(0, 4), Stage(1, 4), Stage(2, 8)>>),
   Staged(<<Stage(1, 6)>>),
   Staged(<<Stage(0, 4), Stage(1, 2)>>),
   Staged(<<Stage(1, 2), Stage(0, 4)>>)}

SchemaFamily ==
  {Snapshot([Flag EXCEPT !.disabledVariant = b]),
   Snapshot([Flag EXCEPT !.disabledVariant = blank]),
   Snapshot([Flag EXCEPT !.variants = (a :> Str(v1)) @@ (b :> Num(1)), !.defaultVariant = b]),
   Snapshot([Flag EXCEPT !.rules =
      <<[Rule("r1", Present) EXCEPT !.variant = Undefined]>>]),
   Snapshot([Flag EXCEPT !.rules =
      <<Rule("r1", Same),
        [Rule("r2", Present) EXCEPT !.variant = Undefined, !.rollout =
           Rollout(Rules6)]>>]),
   [Snapshot(Flag) EXCEPT !.schemaVersion = 3],
   [Snapshot(Flag) EXCEPT !.ownData = FALSE]}

ObjectFlag == [Flag EXCEPT !.type = "object", !.variants = (a :> Obj(Composite)), !.envVar = x]

OverrideFamily ==
  {[Snapshot(Flag) EXCEPT !.flags = (f :> ObjectFlag) @@ (g :> [ObjectFlag EXCEPT !.envVar = y])],
   [Snapshot(Flag) EXCEPT !.flags =
      (f :> [Flag EXCEPT !.envVar = x]) @@ (g :> [ObjectFlag EXCEPT !.envVar = x])]}

Families == {VersionFamily, NegationFamily, RolloutFamily, ScheduleFamily, SchemaFamily,
             OverrideFamily}

Composites == {t1, t2}
Parsed ==
  [type \in FlagTypes |->
    [text \in {t1, t2, bad} |->
      CASE type = "string" -> Str(text)
        [] type = "object" /\ text # bad -> [type |-> "object", v |-> text]
        [] OTHER -> Undefined]]

NoNames == <<>>
Env(own, inherited) == [own |-> own, inherited |-> inherited]
MCOptions ==
  {[env |-> Env((x :> t1) @@ (y :> t2), NoNames), json |-> Undefined],
   [env |-> Env(y :> bad, x :> t1), json |-> Undefined],
   [env |-> Env(x :> bad, x :> t1), json |-> (f :> Str(v2))],
   [env |-> Env(x :> t2, NoNames), json |-> JsonError]}

Order == <<f, g>>

Buckets ==
  [flag \in {f, g} |-> [key \in {k0, k1, k2, k3} |-> [seed \in {DefaultSeed, seed1} |->
     LET n == CASE key = k0 -> 0 [] key = k1 -> 1 [] key = k2 -> 2 [] key = k3 -> 3
     IN  IF seed = seed1 THEN (n + 1) % 4 ELSE n]]]

Context(pv, qv) == [path \in {p, q, TargetingKey} |->
                      CASE path = p -> pv [] path = q -> qv [] path = TargetingKey -> Missing]

Request(key, time, context) ==
  [flagKey |-> f, expectedType |-> "string", targetingKey |-> key, context |-> context, time |-> time]

PlainContext == Context(Str(v1), Num(1))

MCRequests ==
  {Request(k1, 0, Context(pv, qv)) :
     pv \in {Missing, InvalidAttribute, Str(v1), Str(v2), Str(word), Str(long), Num(1), Obj(Null), Obj(Composite)},
     qv \in {InvalidAttribute, Num(1), Num(2)}}
  \cup {Request(k1, 0, Context(Str(v1), qv)) : qv \in {Missing, Num(NotFinite)}}
  \cup {Request(key, time, PlainContext) : key \in {k0, k1, k2, k3}, time \in {0, 1, 2}}
  \cup {Request(key, 1, PlainContext) : key \in {blank, Undefined}}
  \cup {Request(k0, Undefined, PlainContext)}
  \cup {[Request(k1, 1, PlainContext) EXCEPT !.expectedType = "object"],
        [Request(k1, 1, PlainContext) EXCEPT !.flagKey = g],
        [Request(k1, 1, PlainContext) EXCEPT !.flagKey = g, !.expectedType = "object"]}

Ref(name) == [kind |-> "segment", name |-> name]
Document(segments, whens) ==
  [segments |-> segments,
   snapshot |-> Snapshot([Flag EXCEPT !.rules = [i \in DOMAIN whens |-> Rule(<<"r1", "r2">>[i], whens[i])]])]

Defined == ("s1" :> Large) @@ ("s2" :> Not(Ref("s1")))

MCDocuments ==
  {Document(Defined, <<AnyOf(<<Ref("s1"), Same>>)>>),
   Document(Defined, <<Not(Ref("s1"))>>),
   Document(Defined, <<AllOf(<<Ref("s1"), Ref("s1")>>)>>),
   Document(Defined, <<AnyOf(<<Ref("s1"), Ref("s1"), Same>>)>>),
   Document(Defined, <<Ref("s2")>>),
   Document(Defined, <<AnyOf(<<Ref("s1"), Same>>), AllOf(<<Ref("s1"), Same>>)>>),
   Document(Defined, <<Ref("s3")>>),
   Document(Defined @@ ("s3" :> Misread), <<Ref("s1")>>),
   Document(Defined @@ ("s3" :> Ref("s3")), <<Ref("s1")>>),
   Document(("s1" :> Ref("s2")) @@ ("s2" :> Ref("s1")), <<Same>>),
   Document(("s1" :> AllOf(<<>>)), <<Same>>),
   [Document(Defined, <<>>) EXCEPT !.snapshot.schemaVersion = 1]}

Whens == UNION {Range(document.segments) \cup
                  {document.snapshot.flags[f].rules[i].when : i \in DOMAIN document.snapshot.flags[f].rules} :
                    document \in MCDocuments}
Within(when) == {when} \cup (IF when.kind = "segment" THEN {} ELSE Range(Children(when)))
MCAuthored == UNION {UNION {Within(part) : part \in Within(when)} : when \in Whens}

FlagdFlag(variants, default) ==
  [enabled |-> TRUE, plain |-> TRUE, variants |-> variants, defaultVariant |-> default]
Flagd(flags) == [plain |-> TRUE, flags |-> flags]
Both == (a :> Str(v1)) @@ (b :> Str(v2))
MCFlagd ==
  {Flagd((f :> FlagdFlag(Both, b)) @@ (g :> FlagdFlag(a :> Obj(Composite), a))),
   Flagd((f :> FlagdFlag(Both, b)) @@ (g :> FlagdFlag((a :> Obj(Composite)) @@ (b :> Obj(Null)), a))),
   Flagd(f :> FlagdFlag((a :> Str(v1)) @@ (b :> Num(1)), a)),
   Flagd(f :> FlagdFlag(a :> Str(v1), b)),
   Flagd(f :> [FlagdFlag(Both, b) EXCEPT !.enabled = FALSE]),
   [Flagd(f :> FlagdFlag(Both, a)) EXCEPT !.plain = FALSE]}

MCRequestFiles ==
  {{Request(key, time, Context(pv, Num(2))) : key \in {k0, k1, k2, k3}, time \in {0, 2}, pv \in {Str(v1), Str(v2)}},
   {Request(Undefined, 1, [PlainContext EXCEPT ![TargetingKey] = Str(k1)]), Request(k2, Undefined, PlainContext)},
   {Request(long, 1, PlainContext)}}

MCLimits ==
  {[values |-> 2, decisions |-> Undefined], [values |-> Undefined, decisions |-> 2]}
================================================================================
