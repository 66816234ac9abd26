----------------------------- MODULE EnvOverrides -----------------------------
(***************************************************************************)
(* createEnvOverrides: the values the environment gives to flags, one      *)
(* variable per flag or a JSON map of all, and createIndexedEnvOverrides,  *)
(* which finds the bound flags from the environment's names instead.       *)
(*                                                                         *)
(* The environment is [own, inherited], functions from names to texts.     *)
(* ParsedAs[type][text] is the value a text has as a flag of that type, or *)
(* Undefined.  The options are [env, json]; json is Undefined, JsonError   *)
(* (too long, not JSON, not an object of flag values) or a function from   *)
(* flag keys to values.                                                    *)
(***************************************************************************)
EXTENDS SnapshotSchema

CONSTANTS
  ParsedAs, JsonError,
  FlagOrder       (* every flag key, in the order of Object.entries        *)

Names(env) == DOMAIN env.own \cup DOMAIN env.inherited

Lookup(env, name) ==
  IF name \in DOMAIN env.own THEN env.own[name]
  ELSE IF name \in DOMAIN env.inherited THEN env.inherited[name]
  ELSE Undefined

ASSUME FlagOrderAssumption == IsSequence(FlagOrder)

NoCache == [last |-> Undefined, bindings |-> <<>>]

(* Variant: the last object parsed is reused without comparing its text.   *)
ReusedUnseen(cache, text, binding) ==
  IF cache.last # Undefined THEN cache.last
  ELSE IF binding \in DOMAIN cache.bindings THEN cache.bindings[binding]
  ELSE Undefined

(* The entry of objectCache for this text: the last one used, or else the  *)
(* one of this environment name, and only if it was made from this text.   *)
Reused(cache, text, binding) ==
  IF cache.last # Undefined /\ cache.last.input = text THEN cache.last
  ELSE IF binding \in DOMAIN cache.bindings /\ cache.bindings[binding].input = text
    THEN cache.bindings[binding]
  ELSE Undefined

(* What parseEnvValue returns and leaves in the cache.                     *)
ParseEnvValue(text, type, cache, binding) ==
  LET reused == IF type = "object" THEN Reused(cache, text, binding) ELSE Undefined
      value  == IF reused # Undefined THEN reused.value ELSE ParsedAs[type][text]
      entry  == [input |-> text, value |-> value]
  IN  [value |-> value,
       cache |-> IF type = "object" /\ value # Undefined
                   THEN [last |-> entry,
                         bindings |-> [b \in DOMAIN cache.bindings \cup {binding} |->
                                         IF b = binding THEN entry ELSE cache.bindings[b]]]
                   ELSE cache]

With(record, key, value) ==
  [k \in DOMAIN record \cup {key} |-> IF k = key THEN value ELSE record[k]]

(* One turn of applyPerFlagEnvOverrides.                                   *)
ApplyFlag(flags, env, state, key) ==
  LET name == flags[key].envVar
      text == IF name = Undefined THEN Undefined ELSE Lookup(env, name)
      parsed == ParseEnvValue(text, flags[key].type, state.cache, name)
  IN  IF text = Undefined THEN state
      ELSE IF parsed.value = Undefined
        THEN [state EXCEPT !.errors = @ \cup {key}, !.cache = parsed.cache]
        ELSE [state EXCEPT !.values = With(@, key, parsed.value), !.cache = parsed.cache]

ApplyPerFlagEnvOverrides(flags, env) ==
  LET applied[i \in 0 .. Len(FlagOrder)] ==
        IF i = 0 THEN [values |-> <<>>, errors |-> {}, cache |-> NoCache]
        ELSE IF FlagOrder[i] \in DOMAIN flags
          THEN ApplyFlag(flags, env, applied[i - 1], FlagOrder[i])
          ELSE applied[i - 1]
  IN  applied[Len(FlagOrder)]

(* The map's entries replace a flag's value and clear its error.           *)
CreateEnvOverrides(flags, options) ==
  LET bound == ApplyPerFlagEnvOverrides(flags, options.env)
      json  == IF options.json \in {Undefined, JsonError} THEN <<>> ELSE options.json
  IN  [values |-> [key \in DOMAIN json \cup DOMAIN bound.values |->
                     IF key \in DOMAIN json THEN json[key] ELSE bound.values[key]],
       errors |-> bound.errors \ DOMAIN json,
       globalError |-> options.json = JsonError]

(* Only for a frozen snapshot: the flags whose variable the environment    *)
(* has, in their order.                                                    *)
CreateIndexedEnvOverrides(flags, options) ==
  LET bound == {key \in DOMAIN flags : flags[key].envVar \in Names(options.env)}
  IN  CreateEnvOverrides([key \in bound |-> flags[key]], options)

-----------------------------------------------------------------------------
(* The reference: what the documentation of overrides promises per flag.   *)

ReferenceOverride(flags, options, key) ==
  LET json == IF options.json \in {Undefined, JsonError} THEN <<>> ELSE options.json
      text == IF key \in DOMAIN flags /\ flags[key].envVar # Undefined
                THEN Lookup(options.env, flags[key].envVar) ELSE Undefined
      value == IF text = Undefined THEN Undefined ELSE ParsedAs[flags[key].type][text]
  IN  IF key \in DOMAIN json THEN [value |-> json[key], error |-> FALSE]
      ELSE [value |-> value, error |-> text # Undefined /\ value = Undefined]

OverrideOf(overrides, key) ==
  [value |-> IF key \in DOMAIN overrides.values THEN overrides.values[key] ELSE Undefined,
   error |-> key \in overrides.errors]
================================================================================
