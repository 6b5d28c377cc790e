---- MODULE TypeIR ----
(***************************************************************************)
(* The values the generated codecs carry and the types they are generated  *)
(* from (src/src/ir/types.ts), as tuples tagged in their first place.      *)
(*                                                                         *)
(* A number is kept in halves, so that a double that is no integer is a    *)
(* value of the model: Num(7) is 3.5. Words are scaled down: Two8 to       *)
(* Two64 stand for 2^8 to 2^64, Safe for Number.MAX_SAFE_INTEGER, and a  *)
(* varint group holds a digit below Radix, for 128. A cell is one byte,    *)
(* <<n>> with n < 2 * Radix, or the JSON text of a value, which nothing    *)
(* here needs spelled out.                                                 *)
(***************************************************************************)
EXTENDS Integers, Sequences, FiniteSets

CONSTANTS Two8, Two16, Two32, Two64, Safe, Radix

ASSUME WordsNest ==
  /\ {Two8, Two16, Two32, Two64, Safe, Radix} \subseteq Nat \ {0}
  /\ Two8 < Two16 /\ 2 * Two16 <= Two32 /\ Two32 <= 2 * Radix /\ Two32 < Safe
  /\ Two64 = 4 * Radix * Radix /\ Safe < Two64 \div 2

----
(* JavaScript values *)

Undef == <<"undefined">>
Null == <<"null">>
Bool(b) == <<"bool", b>>
Num(halves) == <<"num", halves>>
Whole(n) == Num(2 * n)
Big(n) == <<"bigint", n>>
Str(cells) == <<"string", cells>>
Bytes(cells) == <<"bytes", cells>>
Date(ms) == <<"date", ms>>
Arr(items) == <<"array", items>>
Obj(entries) == <<"object", entries>>

Is(value, tag) == value[1] = tag
isAbsent(value) == value[1] \in {"undefined", "null"}

keys(obj) == {obj[2][i][1] : i \in 1..Len(obj[2])}
get(obj, key) ==
  IF \E i \in 1..Len(obj[2]) : obj[2][i][1] = key
  THEN (CHOOSE e \in {obj[2][i] : i \in 1..Len(obj[2])} : e[1] = key)[2]
  ELSE Undef
put(obj, key, value) ==
  IF key \in keys(obj)
  THEN Obj([i \in 1..Len(obj[2]) |-> IF obj[2][i][1] = key THEN <<key, value>> ELSE obj[2][i]])
  ELSE Obj(Append(obj[2], <<key, value>>))

(* Conversions of the language: Number(v) of a bigint is rounded to what a  *)
(* double holds, which beyond Safe is every other integer.                 *)
abs(n) == IF n < 0 THEN -n ELSE n
round(n) == IF abs(n) <= Safe THEN n ELSE 2 * (n \div 2)
trunc(halves) == IF halves < 0 THEN -((-halves) \div 2) ELSE halves \div 2
toNumber(v) == CASE Is(v, "bigint") -> round(v[2])
                 [] Is(v, "num") -> trunc(v[2])
                 [] Is(v, "bool") -> IF v[2] THEN 1 ELSE 0
                 [] OTHER -> 0
halvesOf(v) == IF Is(v, "num") THEN v[2] ELSE 2 * toNumber(v)
toInteger(v) == IF Is(v, "bigint") THEN v[2] ELSE toNumber(v)
(* What a 32-bit float keeps of a double: fewer digits, here no half. *)
fround(halves) == 2 * trunc(halves)
asUintN(modulus, n) == n % modulus
asIntN(modulus, n) == IF n % modulus < modulus \div 2 THEN n % modulus ELSE (n % modulus) - modulus

(* JSON.stringify and JSON.parse. A text is one cell that holds the value    *)
(* the text denotes; a bigint has no text, and stringify throws.           *)
Threw == <<"threw", 0, 0>>
Text(json) == <<"text", json>>
failed(cells) == \E i \in 1..Len(cells) : Len(cells[i]) = 3
isText(cells) == Len(cells) = 1 /\ Len(cells[1]) = 2
keyCells(key) == <<Text(<<"key", key>>)>>
keyOf(cells) == IF isText(cells) THEN cells[1][2][2] ELSE ""

RECURSIVE hasBigint(_)
hasBigint(v) ==
  \/ Is(v, "bigint")
  \/ Is(v, "array") /\ \E i \in 1..Len(v[2]) : hasBigint(v[2][i])
  \/ Is(v, "object") /\ \E i \in 1..Len(v[2]) : hasBigint(v[2][i][2])

RECURSIVE json(_)
json(v) ==
  CASE Is(v, "date") -> Str(<<Text(v)>>)
    [] Is(v, "bytes") -> Obj(<<>>)
    [] Is(v, "array") -> Arr([i \in 1..Len(v[2]) |-> IF Is(v[2][i], "undefined") THEN Null ELSE json(v[2][i])])
    [] Is(v, "object") ->
         LET kept == SelectSeq(v[2], LAMBDA e : ~Is(e[2], "undefined"))
         IN Obj([i \in 1..Len(kept) |-> <<kept[i][1], json(kept[i][2])>>])
    [] OTHER -> v
stringify(v) == IF hasBigint(v) THEN <<Threw>> ELSE IF Is(v, "undefined") THEN <<>> ELSE <<Text(json(v))>>
parse(cells) == IF isText(cells) THEN cells[1][2] ELSE Str(cells)

----
(* Types *)

Prim(type) == <<"primitive", type>>
FormattedPrim(type, format) == <<"primitive", type, format>>
Lit(value) == <<"literal", value>>
Enum(members) == <<"enum", members>>
ArrayOf(element) == <<"array", element>>
RecordOf(valueType) == <<"record", valueType>>
TupleOf(elements) == <<"tuple", elements>>
Union(types) == <<"union", types, <<>>, "">>
Tagged(types, tag) == <<"union", types, <<>>, tag>>
NumberedUnion(types, fieldNumbers) == <<"union", types, fieldNumbers, "">>
Intersection(types) == <<"intersection", types>>
Object(name, properties) == <<"object", name, properties, TRUE>>
OpenObject(name, properties) == <<"object", name, properties, FALSE>>
Ref(target) == <<"ref", target>>

Prop(name, type, fieldNumber) == <<name, type, FALSE, fieldNumber, "">>
Optional(name, type, fieldNumber) == <<name, type, TRUE, fieldNumber, "">>
Formatted(name, type, fieldNumber, format) == <<name, type, FALSE, fieldNumber, format>>
nameOf(p) == p[1]
typeOf(p) == p[2]
optional(p) == p[3]
fieldNumber(p) == p[4]
format(p) == p[5]
None == 0
(* The format of the property comes before that of the type itself. *)
declaredFormat(ir, f) == IF f = "" /\ Len(ir) = 3 THEN ir[3] ELSE f

isPrim(ir, type) == ir[1] = "primitive" /\ ir[2] = type
isAbsence(ir) == ir[1] = "primitive" /\ ir[2] \in {"undefined", "null", "void"}
meaningful(ir) == SelectSeq(ir[2], LAMBDA t : ~isAbsence(t))

(* What an intersection exposes: its members' properties, the last of a name  *)
(* in the place of the first.                                              *)
RECURSIVE flattenObjectProperties(_), mergeMembers(_, _)
mergeMembers(merged, properties) ==
  IF properties = <<>> THEN merged
  ELSE LET p == Head(properties)
           at == {i \in 1..Len(merged) : nameOf(merged[i]) = nameOf(p)}
       IN mergeMembers(IF at = {} THEN Append(merged, p)
                       ELSE [i \in 1..Len(merged) |-> IF i \in at THEN p ELSE merged[i]],
                       Tail(properties))
flattenObjectProperties(ir) ==
  CASE ir[1] = "object" -> ir[3]
    [] ir[1] = "intersection" ->
         LET all[i \in 0..Len(ir[2])] ==
               IF i = 0 THEN <<>> ELSE mergeMembers(all[i - 1], flattenObjectProperties(ir[2][i]))
         IN all[Len(ir[2])]
    [] OTHER -> <<>>

(* Every node of a type, and the objects its refs may name. *)
RECURSIVE nodes(_)
nodes(ir) ==
  {ir} \cup
  (CASE ir[1] = "object" -> UNION {nodes(typeOf(ir[3][i])) : i \in 1..Len(ir[3])}
     [] ir[1] \in {"array", "record"} -> nodes(ir[2])
     [] ir[1] = "tuple" -> UNION {nodes(ir[2][i][1]) : i \in 1..Len(ir[2])}
     [] ir[1] \in {"union", "intersection"} -> UNION {nodes(ir[2][i]) : i \in 1..Len(ir[2])}
     [] OTHER -> {})
resolve(root, ir) ==
  IF ir[1] # "ref" THEN ir
  ELSE CHOOSE t \in nodes(root) \cup {ir} :
         \/ t[1] = "object" /\ t[2] = ir[2]
         \/ t = ir /\ ~\E o \in nodes(root) : o[1] = "object" /\ o[2] = ir[2]

(* The range each integer format promises; Safe - 1 stands for fifteen nines. *)
IntegerFormats == {"int8", "uint8", "int16", "uint16", "sf-integer", "int32", "sint32", "sfixed32", "uint32", "fixed32", "int64",
                   "sint64", "sfixed64", "unixtime", "uint64", "fixed64", "double-int"}
rangeOf(f) ==
  CASE f = "int8" -> <<-(Two8 \div 2), Two8 \div 2 - 1>>
    [] f = "uint8" -> <<0, Two8 - 1>>
    [] f = "int16" -> <<-(Two16 \div 2), Two16 \div 2 - 1>>
    [] f = "uint16" -> <<0, Two16 - 1>>
    [] f = "sf-integer" -> <<-(Safe - 1), Safe - 1>>
    [] f \in {"int32", "sint32", "sfixed32"} -> <<-(Two32 \div 2), Two32 \div 2 - 1>>
    [] f \in {"uint32", "fixed32"} -> <<0, Two32 - 1>>
    [] f \in {"int64", "sint64", "sfixed64", "unixtime"} -> <<-(Two64 \div 2), Two64 \div 2 - 1>>
    [] f \in {"uint64", "fixed64"} -> <<0, Two64 - 1>>
    [] OTHER -> <<-Safe, Safe>>

(* What the patterns of two of the string formats admit, of two strings: an      *)
(* address, and "mailto:" before it, which the loose pattern of email takes.   *)
Address == Str(<<Text(<<"address", "plain">>)>>)
MailTo == Str(<<Text(<<"address", "mailto">>)>>)
STRING_FORMATS == [f \in {"email", "uri"} |-> IF f = "email" THEN {Address, MailTo} ELSE {MailTo}]
====
