---- MODULE Schemas ----
(***************************************************************************)
(* Other judges of a value: the JSON Schema irToJsonSchema prints for a    *)
(* type (src/src/generators/schema.ts), what two readers of schemas make   *)
(* of it (src/src/validators/jsonSchema.ts, whose validators are built     *)
(* from it, and src/src/extractors/jsonSchema.ts), and the zod schema of   *)
(* the type (src/src/generators/zod.ts).                                   *)
(*                                                                         *)
(* A schema is <<keyword, its value, bounds>>: the keyword that tells what *)
(* it admits, and <<>> or the <<minimum, maximum>> laid over it.           *)
(***************************************************************************)
EXTENDS JsonCodec

(* A format that is a width says so; bounds no JSON number states are left out. *)
Unbounded == 4 * Two64
boundsOf(f) ==
  IF f \notin IntegerFormats THEN <<>>
  ELSE <<IF rangeOf(f)[1] >= -Safe THEN rangeOf(f)[1] ELSE -Unbounded,
         IF rangeOf(f)[2] <= Safe THEN rangeOf(f)[2] ELSE Unbounded>>
bounded(schema, f) == IF boundsOf(f) = <<>> THEN schema ELSE <<schema[1], schema[2], boundsOf(f)>>

Keyword(keyword, of) == <<keyword, of, <<>>>>
TypeIs(type) == Keyword("type", type)
literals(types) == \A i \in 1..Len(types) : types[i][1] = "literal"
present(ir) == SelectSeq(ir[2], LAMBDA t : ~(isPrim(t, "undefined") \/ isPrim(t, "void")))
(* Optional properties are required. *)
requiredOf_All(props) == {nameOf(props[i]) : i \in 1..Len(props)}
requiredOf(props) == {nameOf(props[i]) : i \in {j \in 1..Len(props) : ~optional(props[j])}}

RECURSIVE irToJsonSchema(_)
irToJsonSchema(ir) ==
  LET each(types) == [i \in 1..Len(types) |-> irToJsonSchema(types[i])]
  IN CASE ir[1] = "primitive" ->
            (CASE ir[2] \in {"string", "number", "boolean", "null"} -> TypeIs(ir[2])
               [] ir[2] \in {"bigint", "bytes", "date"} -> TypeIs("string")
               [] ir[2] \in {"undefined", "void", "never"} -> Keyword("not", {})
               [] OTHER -> Keyword("any", {}))
       [] ir[1] = "literal" -> Keyword("const", IF Is(ir[2], "bigint") THEN asText(ir[2]) ELSE ir[2])
       [] ir[1] = "enum" -> Keyword("enum", [i \in 1..Len(ir[2]) |-> ir[2][i][2]])
       [] ir[1] = "object" ->
            Keyword("properties",
              <<[i \in 1..Len(ir[3]) |->
                   <<nameOf(ir[3][i]), bounded(irToJsonSchema(typeOf(ir[3][i])), format(ir[3][i]))>>],
                requiredOf(ir[3])>>)
       [] ir[1] = "array" -> Keyword("items", irToJsonSchema(ir[2]))
       [] ir[1] = "tuple" ->
            LET maybe == {i \in 1..Len(ir[2]) : ir[2][i][2]}
            IN Keyword("prefixItems",
                 <<each([i \in 1..Len(ir[2]) |-> ir[2][i][1]]),
                   IF maybe = {} THEN 0 ELSE (CHOOSE i \in maybe : \A j \in maybe : i <= j) - 1>>)
       [] ir[1] = "union" ->
            (CASE Len(present(ir)) = 1 -> irToJsonSchema(present(ir)[1])
               [] Len(present(ir)) > 1 /\ literals(present(ir)) ->
                    Keyword("enum", [i \in 1..Len(present(ir)) |-> present(ir)[i][2]])
               [] OTHER -> Keyword(IF ir[4] # "" THEN "oneOf" ELSE "anyOf", each(present(ir))))
       [] ir[1] = "intersection" -> Keyword("allOf", each(ir[2]))
       [] ir[1] = "record" -> Keyword("additionalProperties", irToJsonSchema(ir[2]))
       [] OTHER -> Keyword("$ref", ir[2])

----
(* What draft 2020-12 says a schema admits. *)
hasType(type, doc) ==
  CASE type = "number" -> Is(doc, "num")
    [] type = "boolean" -> Is(doc, "bool")
    [] OTHER -> Is(doc, type)

RECURSIVE admits(_, _)
admits(schema, doc) ==
  LET of == schema[2]
      taken(i) == admits(of[i], doc)
      within == schema[3] # <<>> /\ Is(doc, "num") => doc[2] >= 2 * schema[3][1] /\ doc[2] <= 2 * schema[3][2]
      shape ==
        CASE schema[1] = "type" -> hasType(of, doc)
          [] schema[1] = "const" -> doc = of
          [] schema[1] = "enum" -> \E i \in 1..Len(of) : doc = of[i]
          [] schema[1] = "properties" ->
               /\ Is(doc, "object")
               /\ of[2] \subseteq keys(doc)
               /\ \A i \in 1..Len(of[1]) : of[1][i][1] \in keys(doc) => admits(of[1][i][2], get(doc, of[1][i][1]))
          [] schema[1] = "items" -> Is(doc, "array") /\ \A i \in 1..Len(doc[2]) : admits(of, doc[2][i])
          [] schema[1] = "prefixItems" ->
               /\ Is(doc, "array") /\ Len(doc[2]) \in of[2]..Len(of[1])
               /\ \A i \in 1..Len(doc[2]) : admits(of[1][i], doc[2][i])
          [] schema[1] = "anyOf" -> \E i \in 1..Len(of) : taken(i)
          [] schema[1] = "oneOf" -> Cardinality({i \in 1..Len(of) : taken(i)}) = 1
          [] schema[1] = "allOf" -> \A i \in 1..Len(of) : taken(i)
          [] schema[1] = "additionalProperties" -> Is(doc, "object") /\ \A i \in 1..Len(doc[2]) : admits(of, doc[2][i][2])
          [] OTHER -> schema[1] # "not"
  IN shape /\ within

----
(* The readers: both turn a schema back into a type, and look at "type" before  *)
(* they look at what is in it. In a schema this module prints, an array of     *)
(* prefixItems has items: false.                                           *)
Unknown == Prim("unknown")
properties(of, types) ==
  Object("", [i \in 1..Len(of[1]) |-> <<of[1][i][1], types[i], of[1][i][1] \notin of[2], None, "">>])

RECURSIVE metaSchemaToTypeIR(_), jsonSchemaToIR(_)
metaSchemaToTypeIR(schema) ==
  LET of == schema[2]
  IN CASE schema[1] = "enum" -> Union([i \in 1..Len(of) |-> Lit(of[i])])
       [] schema[1] = "const" -> Lit(of)
       [] schema[1] \in {"oneOf", "anyOf"} -> Union([i \in 1..Len(of) |-> metaSchemaToTypeIR(of[i])])
       [] schema[1] = "type" -> Prim(of)
       [] schema[1] = "items" -> ArrayOf(metaSchemaToTypeIR(of))
       [] schema[1] = "prefixItems" -> ArrayOf(Unknown)
       [] schema[1] = "properties" -> properties(of, [i \in 1..Len(of[1]) |-> metaSchemaToTypeIR(of[1][i][2])])
       [] schema[1] = "additionalProperties" -> RecordOf(metaSchemaToTypeIR(of))
       [] OTHER -> Unknown

jsonSchemaToIR(schema) ==
  LET of == schema[2]
      all(tag) == \A i \in 1..Len(of) : Is(of[i], tag)
  IN CASE schema[1] = "const" -> Lit(of)
       [] schema[1] = "enum" /\ Len(of) = 1 -> Lit(of[1])
       [] schema[1] = "enum" /\ Len(of) > 1 ->
            IF all("string") \/ all("num") THEN Enum([i \in 1..Len(of) |-> <<i, of[i]>>])
            ELSE Union([i \in 1..Len(of) |-> Lit(of[i])])
       [] schema[1] = "type" -> Prim(of)
       [] schema[1] = "items" -> ArrayOf(jsonSchemaToIR(of))
       [] schema[1] = "prefixItems" -> ArrayOf(Unknown)
       [] schema[1] = "properties" -> properties(of, [i \in 1..Len(of[1]) |-> jsonSchemaToIR(of[1][i][2])])
       [] schema[1] = "additionalProperties" -> Object("", <<>>)
       [] schema[1] \in {"oneOf", "anyOf"} -> Union([i \in 1..Len(of) |-> jsonSchemaToIR(of[i])])
       [] OTHER -> Unknown

----
(* A bigint is not held to its width. *)
formatFor_NumbersOnly(ir, f, v) ==
  f \in IntegerFormats /\ isPrim(ir, "number") =>
    v[2] % 2 = 0 /\ trunc(v[2]) >= boundsOf(f)[1] /\ trunc(v[2]) <= boundsOf(f)[2]

(* z.string().email(), zod's own definition. *)
zodEmail(v) == v = Address
(* What the zod schema of a type accepts. A property's format reaches only a     *)
(* string, a number or a bigint that stands there itself.                  *)
formatFor(ir, f, v) ==
  /\ isPrim(ir, "string") /\ f = "email" => zodEmail(v)
  /\ isPrim(ir, "string") /\ f \in DOMAIN STRING_FORMATS \ {"email"} => v \in STRING_FORMATS[f]
  /\ f \in IntegerFormats =>
    CASE isPrim(ir, "bigint") -> v[2] >= rangeOf(f)[1] /\ v[2] <= rangeOf(f)[2]
      [] isPrim(ir, "number") -> v[2] % 2 = 0 /\ trunc(v[2]) >= boundsOf(f)[1] /\ trunc(v[2]) <= boundsOf(f)[2]
      [] OTHER -> TRUE

RECURSIVE zodFor(_, _)
zodFor(ir, v) ==
  CASE ir[1] = "primitive" ->
         (CASE ir[2] = "number" -> Is(v, "num")
            [] ir[2] = "boolean" -> Is(v, "bool")
            [] ir[2] = "void" -> v = Undef
            [] ir[2] = "never" -> FALSE
            [] ir[2] \in {"unknown", "any"} -> TRUE
            [] OTHER -> Is(v, ir[2]))
    [] ir[1] = "literal" -> v = ir[2]
    [] ir[1] = "enum" -> \E i \in 1..Len(ir[2]) : v = ir[2][i][2]
    [] ir[1] = "object" ->
         /\ Is(v, "object")
         /\ \A i \in 1..Len(ir[3]) :
              LET p == ir[3][i]  x == get(v, nameOf(p))
              IN \/ optional(p) /\ x = Undef
                 \/ zodFor(typeOf(p), x) /\ formatFor(typeOf(p), format(p), x)
    [] ir[1] = "array" -> Is(v, "array") /\ \A i \in 1..Len(v[2]) : zodFor(ir[2], v[2][i])
    [] ir[1] = "tuple" -> Is(v, "array") /\ Len(v[2]) = Len(ir[2]) /\ \A i \in 1..Len(v[2]) : zodFor(ir[2][i][1], v[2][i])
    [] ir[1] = "union" -> \E i \in 1..Len(ir[2]) : zodFor(ir[2][i], v)
    [] ir[1] = "intersection" -> \A i \in 1..Len(ir[2]) : zodFor(ir[2][i], v)
    [] ir[1] = "record" -> Is(v, "object") /\ \A i \in 1..Len(v[2]) : zodFor(ir[2], v[2][i][2])
    [] OTHER -> TRUE
====
