---- MODULE JsonCodec ----
(***************************************************************************)
(* encodeJson and decodeJson as generateJsonCode writes them for a type    *)
(* (src/src/generators/json.ts). Decoding is generated code too: the       *)
(* statements for a field name it by a path from the value, val[_i]["ids"],*)
(* and every loop over an array counts with the variable _i, every loop    *)
(* over a record's keys with _k, the inner ones shadowing the outer.       *)
(***************************************************************************)
EXTENDS Validator

RECURSIVE needsTransform(_)
needsTransform(ir) ==
  CASE ir[1] = "primitive" -> ir[2] \in {"bigint", "date", "bytes"}
    [] ir[1] = "literal" -> Is(ir[2], "bigint")
    [] ir[1] = "object" -> \E i \in 1..Len(ir[3]) : needsTransform(typeOf(ir[3][i]))
    [] ir[1] \in {"array", "record"} -> needsTransform(ir[2])
    [] ir[1] = "tuple" -> \E i \in 1..Len(ir[2]) : needsTransform(ir[2][i][1])
    [] ir[1] \in {"union", "intersection"} -> \E i \in 1..Len(ir[2]) : needsTransform(ir[2][i])
    [] ir[1] = "enum" -> \E i \in 1..Len(ir[2]) : Is(ir[2][i][2], "bigint")
    [] OTHER -> FALSE

(* Literals are taken for what JSON can hold. *)
isWide_NotLiterals(type) == isPrim(type, "bigint")
isWide(type) == isPrim(type, "bigint") \/ (type[1] = "literal" /\ Is(type[2], "bigint"))
transformed(ir) == SelectSeq(ir[2], needsTransform)

----
(* Encoding: a copy of the value in which what JSON has no form for is text. *)

asText(v) == Str(<<Text(v)>>)
transformedProps(ir) == SelectSeq(ir[3], LAMBDA p : needsTransform(typeOf(p)))

RECURSIVE encodeExpr(_, _), encodeProps(_, _, _)
(* The properties that need it, each from the value being encoded. *)
encodeProps(props, v, out) ==
  IF props = <<>> THEN out
  ELSE LET name == nameOf(Head(props))
       IN encodeProps(Tail(props), v,
            IF Is(get(v, name), "undefined") THEN out
            ELSE put(out, name, encodeExpr(typeOf(Head(props)), get(v, name))))

encodeExpr(ir, v) ==
  LET props == IF ir[1] = "object" THEN transformedProps(ir) ELSE <<>>
      parts == IF ir[1] \in {"union", "intersection"}
               THEN SelectSeq(transformed(ir), LAMBDA t : t[1] = "object") ELSE <<>>
      branches[i \in 0..Len(parts)] == IF i = 0 THEN <<>> ELSE branches[i - 1] \o transformedProps(parts[i])
  IN CASE ~needsTransform(ir) -> v
       [] isWide(ir) -> IF Is(v, "bigint") THEN asText(v) ELSE v
       [] isPrim(ir, "date") -> IF Is(v, "date") THEN asText(v) ELSE v
       [] isPrim(ir, "bytes") -> IF Is(v, "bytes") THEN asText(v) ELSE v
       [] ir[1] = "object" -> IF Is(v, "object") THEN encodeProps(props, v, v) ELSE v
       [] ir[1] = "array" -> IF Is(v, "array") THEN Arr([i \in 1..Len(v[2]) |-> encodeExpr(ir[2], v[2][i])]) ELSE v
       [] ir[1] \in {"union", "intersection"} /\ needsTransform(ir) ->
            (CASE v[1] \in {"bigint", "date", "bytes"} -> asText(v)
               [] Is(v, "object") -> encodeProps(branches[Len(parts)], v, v)
               [] OTHER -> v)
       [] OTHER -> v

encodeJson(ir, v) == stringify(encodeExpr(ir, v))

----
(* Decoding. A run of the statements is <<the value as they left it>>, or     *)
(* Stopped when one of them threw.                                         *)

Stopped == <<"stopped">>
StepI == <<"_i">>
StepK == <<"_k">>
Prop1(name) == <<"prop", name>>
Free == 0

(* The value a path names, when _i and _k are env[1] and env[2]; reading       *)
(* through undefined or null throws, as does a variable before its declaration. *)
stepInto(v, step, env) ==
  CASE v = Stopped \/ isAbsent(v) -> Stopped
    [] step = StepI -> IF Is(v, "array") /\ env[1] <= Len(v[2]) THEN v[2][env[1]] ELSE Undef
    [] OTHER -> IF Is(v, "object") THEN get(v, IF step = StepK THEN env[2] ELSE step[2]) ELSE Undef
at(v, path, env) ==
  LET upTo[n \in 0..Len(path)] == IF n = 0 THEN v ELSE stepInto(upTo[n - 1], path[n], env)
  IN upTo[Len(path)]

RECURSIVE assign(_, _, _, _)
assign(v, path, env, new) ==
  IF path = <<>> THEN new
  ELSE LET inside == assign(stepInto(v, Head(path), env), Tail(path), env, new)
       IN IF Head(path) = StepI THEN Arr([v[2] EXCEPT ![env[1]] = inside])
          ELSE put(v, IF Head(path) = StepK THEN env[2] ELSE Head(path)[2], inside)

(* Whether a string is all digits: the text of a bigint, or the base64 of bytes, *)
(* here of bytes from Radix up.                                            *)
isDigits(cells) ==
  /\ isText(cells)
  /\ LET of == cells[1][2]
     IN \/ Is(of, "bigint")
        \/ Is(of, "bytes") /\ of[2] # <<>> /\ \A i \in 1..Len(of[2]) : of[2][i][1] >= Radix
isDateText(cells) == isText(cells) /\ Is(cells[1][2], "date")

(* BigInt(x), new Date(x), Buffer.from(x, "base64") of a string or a number. *)
toBigInt(x) ==
  CASE Is(x, "string") /\ isDigits(x[2]) -> IF Is(x[2][1][2], "bigint") THEN x[2][1][2] ELSE Big(Radix)
    [] Is(x, "num") /\ x[2] % 2 = 0 -> Big(trunc(x[2]))
    [] OTHER -> Stopped
toDate(x) ==
  CASE Is(x, "num") -> Date(trunc(x[2]))
    [] isDateText(x[2]) -> x[2][1][2]
    [] OTHER -> <<"invalid date">>
toBytes(x) == IF isText(x[2]) /\ Is(x[2][1][2], "bytes") THEN x[2][1][2] ELSE Bytes(<<>>)

(* A union's own statement: digits are a bigint, dates a date. *)
guess(x) ==
  IF isDigits(x[2]) THEN toBigInt(x) ELSE IF isDateText(x[2]) THEN toDate(x) ELSE x
(* if (typeof target is a string, or a number where one will do) target = ...  *)
convertAt(v, path, env, to) ==
  LET x == at(v, path, env)
      new == CASE to = "bigint" -> toBigInt(x) [] to = "date" -> toDate(x) [] to = "bytes" -> toBytes(x) [] OTHER -> guess(x)
  IN CASE x = Stopped -> Stopped
       [] x # Stopped /\ (Is(x, "string") \/ (Is(x, "num") /\ to \in {"bigint", "date"})) ->
            IF new = Stopped THEN Stopped ELSE assign(v, path, env, new)
       [] OTHER -> v

RECURSIVE decodeStatements(_, _, _, _), overItems(_, _, _, _), overKeys(_, _, _, _, _), overProps(_, _, _, _),
          overTypes(_, _, _, _)
decodeStatements(ir, path, v, env) ==
  LET x == at(v, path, env)
      nested == \E i \in 1..Len(path) : path[i] = StepK
  IN CASE v = Stopped \/ ~needsTransform(ir) -> v
       [] v # Stopped /\ (isWide(ir) \/ isPrim(ir, "date") \/ isPrim(ir, "bytes")) ->
            convertAt(v, path, env, IF isWide(ir) THEN "bigint" ELSE ir[2])
       [] v # Stopped /\ ir[1] = "object" -> overProps(transformedProps(ir), path, v, env)
       [] v # Stopped /\ ir[1] = "array" ->
            IF x = Stopped THEN Stopped
            ELSE IF Is(x, "array") THEN overItems(ir[2], path, v, <<1, env[2]>>) ELSE v
       [] v # Stopped /\ ir[1] = "record" /\ needsTransform(ir) ->
            IF x = Stopped \/ (nested /\ Is(x, "object")) THEN Stopped
            ELSE IF Is(x, "object") THEN overKeys(ir[2], path, v, env, x[2]) ELSE v
       [] v # Stopped /\ ir[1] \in {"union", "intersection"} /\ needsTransform(ir) ->
            overTypes(transformed(ir), path, convertAt(v, path, env, "any of them"), env)
       [] OTHER -> v

(* for (let _i = 0; _i < target.length; _i++): target is read with this _i. *)
overItems(element, path, v, env) ==
  LET x == at(v, path, env)
  IN CASE v = Stopped \/ x = Stopped \/ isAbsent(x) -> Stopped
       [] v # Stopped /\ Is(x, "array") /\ env[1] <= Len(x[2]) ->
            overItems(element, path, decodeStatements(element, Append(path, StepI), v, env), <<env[1] + 1, env[2]>>)
       [] OTHER -> v
(* for (const _k of Object.keys(target)), which in a loop over another record's *)
(* keys reads its own _k too early.                                        *)
overKeys(valueType, path, v, env, entries) ==
  IF entries = <<>> THEN v
  ELSE overKeys(valueType, path,
         decodeStatements(valueType, Append(path, StepK), v, <<env[1], Head(entries)[1]>>), env, Tail(entries))
overProps(props, path, v, env) ==
  LET x == at(v, path, env)
      ref == Append(path, Prop1(nameOf(Head(props))))
  IN CASE v = Stopped \/ props = <<>> -> v
       [] x = Stopped -> Stopped
       [] OTHER -> overProps(Tail(props), path,
                     IF Is(x, "object") /\ ~Is(get(x, nameOf(Head(props))), "undefined")
                     THEN decodeStatements(typeOf(Head(props)), ref, v, env) ELSE v, env)
overTypes(types, path, v, env) ==
  IF types = <<>> THEN v
  ELSE overTypes(Tail(types), path, decodeStatements(Head(types), path, v, env), env)

decodeJson(ir, text) == decodeStatements(ir, <<>>, parse(text), <<1, "">>)
====
