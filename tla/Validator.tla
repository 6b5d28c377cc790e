---- MODULE Validator ----
(***************************************************************************)
(* The code generateValidatorCode writes for a type                        *)
(* (src/src/generators/validator.ts): is, and validate with its in-place   *)
(* pruning. A validation ends with <<errors were found, value left>>: the  *)
(* value is the caller's own object, so what a failing part has pruned     *)
(* stays pruned. Of the constraints, only the formats are here: those of   *)
(* integers, and of strings the email pattern and one other.               *)
(***************************************************************************)
EXTENDS TypeIR

RECURSIVE typeCheck(_, _)
typeCheck(ir, v) ==
  CASE ir[1] = "primitive" ->
         (CASE ir[2] = "number" -> Is(v, "num")
            [] ir[2] \in {"string", "bigint", "null", "undefined", "bytes", "date"} -> Is(v, ir[2])
            [] ir[2] = "boolean" -> Is(v, "bool")
            [] ir[2] \in {"void", "never"} -> v = Undef
            [] OTHER -> TRUE)
    [] ir[1] = "literal" -> v = ir[2]
    [] ir[1] = "enum" -> \E i \in 1..Len(ir[2]) : ir[2][i][2] = v
    [] ir[1] \in {"object", "record"} -> v[1] \in {"object", "date", "bytes"}
    [] ir[1] \in {"array", "tuple"} -> Is(v, "array")
    [] ir[1] = "union" -> \E i \in 1..Len(ir[2]) : typeCheck(ir[2][i], v)
    [] ir[1] = "intersection" -> \A i \in 1..Len(ir[2]) : typeCheck(ir[2][i], v)
    [] OTHER -> TRUE

constraintCheck(f, v) ==
  /\ f \in DOMAIN STRING_FORMATS /\ Is(v, "string") => v \in STRING_FORMATS[f]
  /\ f \in IntegerFormats =>
    LET min == rangeOf(f)[1]  max == rangeOf(f)[2]
    IN CASE Is(v, "num") -> /\ v[2] % 2 = 0
                            /\ trunc(v[2]) >= (IF min < -Safe THEN -Safe ELSE min)
                            /\ trunc(v[2]) <= (IF max > Safe THEN Safe ELSE max)
         [] Is(v, "bigint") -> v[2] >= min /\ v[2] <= max
         [] OTHER -> TRUE

(* Whoever only asks is pruned for too. *)
pruneObject_Always(ir, v, prune) ==
  IF ir[4] THEN Obj(SelectSeq(v[2], LAMBDA e : \E i \in 1..Len(ir[3]) : nameOf(ir[3][i]) = e[1])) ELSE v
(* Removes what a closed object does not declare. *)
pruneObject(ir, v, prune) ==
  IF prune /\ ir[4]
  THEN Obj(SelectSeq(v[2], LAMBDA e : \E i \in 1..Len(ir[3]) : nameOf(ir[3][i]) = e[1]))
  ELSE v

ok(result) == result[1]
left(result) == result[2]

RECURSIVE validationBlock(_, _, _), checkProperties(_, _, _, _), checkItems(_, _, _, _),
          checkUnion(_, _, _, _), checkAll(_, _, _, _)
validationBlock(ir, v, prune) ==
  CASE ir[1] \in {"primitive", "literal", "enum"} -> <<typeCheck(ir, v), v>>
    [] ir[1] = "object" ->
         IF ~typeCheck(ir, v) THEN <<FALSE, v>>
         ELSE IF ~Is(v, "object") THEN <<\A i \in 1..Len(ir[3]) : optional(ir[3][i]), v>>
         ELSE checkProperties(ir[3], <<TRUE, pruneObject(ir, v, prune)>>, prune, 1)
    [] ir[1] = "record" ->
         IF ~typeCheck(ir, v) THEN <<FALSE, v>>
         ELSE IF ~Is(v, "object") THEN <<TRUE, v>>
         ELSE LET parts == [i \in 1..Len(v[2]) |-> validationBlock(ir[2], v[2][i][2], prune)]
              IN <<\A i \in DOMAIN parts : ok(parts[i]),
                   Obj([i \in DOMAIN parts |-> <<v[2][i][1], left(parts[i])>>])>>
    [] ir[1] \in {"array", "tuple"} ->
         IF ~Is(v, "array") THEN <<FALSE, v>> ELSE checkItems(ir, <<TRUE, v>>, prune, 1)
    [] ir[1] = "union" -> checkUnion(ir[2], v, prune, 1)
    [] ir[1] = "intersection" -> checkAll(ir[2], <<TRUE, v>>, prune, 1)
    [] OTHER -> <<TRUE, v>>

(* One property after another, on the object as the last one left it. *)
checkProperties(properties, sofar, prune, i) ==
  IF i > Len(properties) THEN sofar
  ELSE LET p == properties[i]
           value == get(left(sofar), nameOf(p))
           part == validationBlock(typeOf(p), value, prune)
       IN checkProperties(properties,
            IF Is(value, "undefined") THEN <<ok(sofar) /\ optional(p), left(sofar)>>
            ELSE <<ok(sofar) /\ ok(part) /\ constraintCheck(format(p), value),
                   put(left(sofar), nameOf(p), left(part))>>,
            prune, i + 1)

(* The elements of an array; of a tuple only those it declares. *)
checkItems(ir, sofar, prune, i) ==
  LET items == left(sofar)[2]
      absent == i > Len(items) \/ Is(items[i], "undefined")
      part == validationBlock(IF ir[1] = "array" THEN ir[2] ELSE ir[2][i][1], items[i], prune)
  IN CASE i > (IF ir[1] = "array" THEN Len(items) ELSE Len(ir[2])) -> sofar
       [] ir[1] = "tuple" /\ absent ->
            checkItems(ir, <<ok(sofar) /\ ir[2][i][2], left(sofar)>>, prune, i + 1)
       [] OTHER -> checkItems(ir, <<ok(sofar) /\ ok(part), Arr([items EXCEPT ![i] = left(part)])>>, prune, i + 1)

(* The variants in turn, until one finds no error; each is given what the      *)
(* ones before it have left of the value.                                  *)
checkUnion(types, v, prune, i) ==
  IF i > Len(types) THEN <<FALSE, v>>
  ELSE LET tried == validationBlock(types[i], v, prune)
       IN IF ok(tried) THEN tried ELSE checkUnion(types, left(tried), prune, i + 1)

checkAll(types, sofar, prune, i) ==
  IF i > Len(types) THEN sofar
  ELSE LET part == validationBlock(types[i], left(sofar), prune)
       IN checkAll(types, <<ok(sofar) /\ ok(part), left(part)>>, prune, i + 1)

validate(ir, v, prune) == validationBlock(ir, v, prune)
is(ir, v) == ok(validate(ir, v, FALSE))
====
