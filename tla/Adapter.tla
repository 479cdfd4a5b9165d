------------------------------- MODULE Adapter -------------------------------
(***************************************************************************)
(* The path of a value between a property and the device: a write is       *)
(* checked against the property's definition (driver/check.rs), made raw   *)
(* by the role of its DP (data.rs) and translated by the DP adapter        *)
(* (adapter.rs); a report takes the same path back and ends in the value   *)
(* rules of ildevice (assembly.rs).                                        *)
(*                                                                         *)
(* Numbers of a property are in tenths, and a role's scale is one or ten.  *)
(* An answer is the set of what comes out: empty where the code returns an *)
(* error or drops a report.  Of the adapter's conversions, default and     *)
(* enum are modelled; the others take text apart.                          *)
(***************************************************************************)
EXTENDS Integers, Sequences, Functions, TLC

Word(w) == [type |-> "string", num |-> 0, word |-> w]
Number(n) == [type |-> "number", num |-> n, word |-> ""]
Bool(b) == [type |-> "boolean", num |-> IF b THEN 1 ELSE 0, word |-> ""]
Null == [type |-> "null", num |-> 0, word |-> ""]

Truth(v) == v.num # 0

-----------------------------------------------------------------------------
(* Conversions.  An entry has a code, the conversion's name, its map from  *)
(* raw words and what it makes of a missing value.                         *)

KeyOf(raw) ==
  CASE raw.type = "boolean" -> IF Truth(raw) THEN "true" ELSE "false"
    [] raw.type = "number"  -> ToString(raw.num)
    [] OTHER                -> raw.word

StrategyRead(e, raw) ==
  IF e.convert = "enum"
  THEN IF KeyOf(raw) \in DOMAIN e.config THEN Word(e.config[KeyOf(raw)]) ELSE e.missing
  ELSE IF raw \in {Null, Word("")} THEN e.missing ELSE raw

Digits == {ToString(n) : n \in 0..9}

StrategyWrite(e, v) ==
  LET keys == {k \in DOMAIN e.config : Word(e.config[k]) = v}
      named == IF keys \cap Digits = {} THEN keys ELSE keys \cap Digits
  IN  IF e.convert = "enum" /\ keys # {} THEN Word(CHOOSE k \in named : TRUE) ELSE v

-----------------------------------------------------------------------------
(* The adapter: its entry for each DP ID, the remap of each code and the   *)
(* words each Enum may report.                                             *)

NoRemap == [alias |-> <<>>, invert |-> FALSE, bounds |-> <<>>]
RemapOf(a, c) == IF c \in DOMAIN a.remaps THEN a.remaps[c] ELSE NoRemap

Flip(a, c, v) ==
  LET r == RemapOf(a, c)
  IN  IF ~r.invert THEN v
      ELSE IF v.type = "boolean" THEN Bool(~Truth(v))
      ELSE IF v.type = "number" /\ r.bounds # <<>> THEN Number(r.bounds[1] + r.bounds[2] - v.num)
      ELSE v

Aliased(a, c, v) ==
  LET alias == RemapOf(a, c).alias
  IN  IF v.type = "string" /\ v.word \in DOMAIN alias THEN Word(alias[v.word]) ELSE v

(* Variant: a word is written as the consumer says it. *)
UnaliasedSame(a, c, v) == v
Unaliased(a, c, v) ==
  LET alias == RemapOf(a, c).alias
      devs == {w \in DOMAIN alias : Word(alias[w]) = v}
  IN  IF devs = {} THEN v ELSE Word(CHOOSE w \in devs : TRUE)

Read(a, id, raw) ==
  IF id \notin DOMAIN a.entries THEN {}
  ELSE LET e == a.entries[id]
           v == Flip(a, e.code, Aliased(a, e.code, StrategyRead(e, raw)))
       IN  IF e.code \in DOMAIN a.ranges /\ v \notin a.ranges[e.code]
           THEN {} ELSE {[code |-> e.code, value |-> v]}

(* Of several DPs that have the code the export's order decides: any.      *)
Write(a, c, v) ==
  {[id |-> i, raw |-> StrategyWrite(a.entries[i], Unaliased(a, c, Flip(a, c, v)))]
     : i \in {j \in DOMAIN a.entries : a.entries[j].code = c}}

-----------------------------------------------------------------------------
(* Roles: a schema entry with the kind, the words of an Enum, the raw      *)
(* limits of an Integer and its scale.                                     *)

Tenths(spec, n) == (n * 10) \div spec.scale

(* round_ties_even of a raw number that has tenths *)
Rounded(t) ==
  LET low == t \div 10
      rest == t % 10
  IN  IF rest > 5 \/ (rest = 5 /\ low % 2 = 1) THEN low + 1 ELSE low

RoleRead(spec, v) ==
  CASE spec.kind = "Boolean" ->
         IF v.type = "number" /\ v.num \in {0, 1} THEN Number(10 * v.num)
         ELSE IF v.type = "boolean" THEN v ELSE Null
    [] spec.kind = "Enum" -> IF v \in spec.range THEN v ELSE Null
    [] spec.kind = "Integer" ->
         IF v.type \in {"boolean", "number"} /\ v.num \in spec.min .. spec.max
         THEN Number(Tenths(spec, v.num)) ELSE Null
    [] OTHER -> v

RoleWrite(spec, v) ==
  CASE spec.kind = "Boolean" -> IF v.type = "boolean" THEN {v} ELSE {}
    [] spec.kind = "Enum" -> IF v \in spec.range THEN {v} ELSE {}
    [] spec.kind = "Integer" ->
         LET x == Rounded((IF v.type = "boolean" THEN 10 ELSE 1) * v.num * spec.scale)
         IN  IF v.type \in {"number", "boolean"} /\ x \in spec.min .. spec.max
             THEN {Number(x)} ELSE {}
    [] OTHER -> {v}

-----------------------------------------------------------------------------
(* Properties bound to one DP: the definition an override gives them       *)
(* (overrides.rs, patch_descriptor), the check of a write and the value    *)
(* shown for a report.                                                     *)

Natural(spec) ==
  CASE spec.kind = "Boolean" -> "binary"
    [] spec.kind = "Integer" -> "number"
    [] spec.kind = "Enum"    -> "select"
    [] OTHER                 -> "text"

(* Limits are those of the DP, in tenths. *)
Definition(spec, type) ==
  [type    |-> type,
   min     |-> Tenths(spec, spec.min),
   max     |-> Tenths(spec, spec.max),
   step    |-> Tenths(spec, spec.step),
   options |-> spec.range]

Accepted(def, v) ==
  CASE def.type = "binary" ->
         IF v.type = "boolean" THEN {v}
         ELSE IF v \in {Word("on"), Word("true"), Word("1"), Number(10)} THEN {Bool(TRUE)}
         ELSE IF v \in {Word("off"), Word("false"), Word("0"), Number(0)} THEN {Bool(FALSE)}
         ELSE {}
    [] def.type = "number" ->
         IF v.type = "number" /\ v.num \in def.min .. def.max
            /\ (def.step = 0 \/ (v.num - def.min) % def.step = 0)
         THEN {v} ELSE {}
    [] def.type = "select" -> IF v \in def.options THEN {v} ELSE {}
    [] OTHER -> IF v.type = "string" /\ v.word # "" THEN {v} ELSE {}

DpRead(spec, def, v) ==
  IF def.type = "text" THEN (IF v.type \in {"null", "string"} THEN v ELSE Word(KeyOf(v)))
  ELSE RoleRead(spec, v)

IlValue(def, v) ==
  IF def.type = "select" /\ v \notin def.options THEN Null
  ELSE IF def.type = "binary" /\ v.type = "number"
       THEN (IF v.num \in {0, 10} THEN Bool(Truth(v)) ELSE Null)
  ELSE v
==============================================================================
