---- MODULE OpenApi ----
(***************************************************************************)
(* The schemas of an OpenAPI document: as irToOpenApiSchema prints them    *)
(* (src/src/generators/openapi.ts), as schemaToIR reads them back          *)
(* (src/src/extractors/openapi.ts), and as the client generated from the   *)
(* document uses what was read (src/src/generators/tsClient.ts).           *)
(*                                                                         *)
(* A schema is a function from its keywords to their values; `type` is the *)
(* sequence of the names it gives. The dialects differ in null, bytes,     *)
(* literals and tuples. The pattern of a bigint and the bounds of an       *)
(* integer format are left out, which the reader derives again, as are     *)
(* prose, examples and every constraint but the format.                    *)
(***************************************************************************)
EXTENDS Schemas, TLC

Versions == {"3.0", "3.1"}
NullType == "type" :> <<"null">>
stringOf(f) == [type |-> <<"string">>, format |-> f]

-----------------------------------------------------------------------------
(* The printer. What has a name is a component: an enum has one here.      *)
componentName(t) == CASE t[1] = "enum" -> "Enum" [] t[1] = "object" -> t[2] [] OTHER -> ""
isUserNamed(t) == componentName(t) # ""
collectNamedTypes(root) ==
  LET named == {t \in nodes(root) : isUserNamed(t)}
  IN [name \in {componentName(t) : t \in named} |-> CHOOSE t \in named : componentName(t) = name]

constraintsToKeywords(f) == IF f = "" THEN <<>> ELSE "format" :> f

typeof(v) == CASE Is(v, "num") -> "number" [] Is(v, "bool") -> "boolean" [] OTHER -> v[1]
primitiveSchema(type, version) ==
  CASE type \in {"string", "number", "boolean"} -> "type" :> <<type>>
    [] type = "bigint" -> stringOf("int64")
    [] type = "bytes" ->
         IF version = "3.0" THEN stringOf("byte") ELSE [type |-> <<"string">>, contentEncoding |-> "base64"]
    [] type = "date" -> stringOf("date-time")
    [] type = "null" -> IF version = "3.0" THEN "nullable" :> TRUE ELSE NullType
    [] OTHER -> <<>>
literalSchema(v, version) ==
  CASE Is(v, "bigint") -> ("enum" :> <<asText(v)>>) @@ stringOf("int64")
    [] ~Is(v, "bigint") /\ version = "3.1" -> "const" :> v
    [] OTHER -> [type |-> <<typeof(v)>>, enum |-> <<v>>]
enumSchema(members) ==
  [type |-> <<IF Is(members[1][2], "num") THEN "number" ELSE "string">>,
   enum |-> [i \in 1..Len(members) |-> members[i][2]]]
RECURSIVE irToOpenApiSchema(_, _, _)
objectSchema(props, version) ==
  LET schemaOf(p) == constraintsToKeywords(format(p)) @@ irToOpenApiSchema(typeOf(p), version, FALSE)
  IN [type |-> <<"object">>,
      properties |-> [i \in 1..Len(props) |-> <<nameOf(props[i]), schemaOf(props[i])>>],
      required |-> requiredOf(props)]
(* An array of schemas at "items" is the 3.0 spelling of a tuple.          *)
tupleSchema(schemas, version) ==
  ("type" :> <<"array">>) @@ ((IF version = "3.1" THEN "prefixItems" ELSE "items[]") :> schemas)

(* A union of one member and absence is that member, nullable perhaps.     *)
unionSchema(ir, version) ==
  LET nonNull == SelectSeq(present(ir), LAMBDA t : ~isPrim(t, "null"))
      nullable == Len(nonNull) < Len(present(ir))
      members == [i \in 1..Len(nonNull) |-> irToOpenApiSchema(nonNull[i], version, FALSE)]
      base == members[1]
      choices == IF ir[4] # "" THEN "oneOf" ELSE "anyOf"
      tag == IF ir[4] # "" THEN "discriminator" :> ir[4] ELSE <<>>
  IN CASE nonNull = <<>> -> primitiveSchema("null", version)
       [] Len(nonNull) = 1 /\ ~nullable -> base
       [] Len(nonNull) = 1 /\ nullable /\ version = "3.0" -> ("nullable" :> TRUE) @@ base
       [] Len(nonNull) = 1 /\ nullable /\ version = "3.1" ->
            IF "type" \in DOMAIN base /\ Len(base.type) = 1 THEN [base EXCEPT !.type = Append(@, "null")]
            ELSE "anyOf" :> <<base, NullType>>
       [] OTHER ->
            (choices :> IF nullable /\ version = "3.1" THEN Append(members, NullType) ELSE members) @@ tag
            @@ (IF nullable /\ version = "3.0" THEN "nullable" :> TRUE ELSE <<>>)

irToOpenApiSchema(ir, version, isRoot) ==
  LET print(t) == irToOpenApiSchema(t, version, FALSE)
  IN CASE ~isRoot /\ isUserNamed(ir) -> "$ref" :> componentName(ir)
       [] ir[1] = "primitive" -> primitiveSchema(ir[2], version)
       [] ir[1] = "literal" -> literalSchema(ir[2], version)
       [] ir[1] = "enum" /\ isRoot -> enumSchema(ir[2])
       [] ir[1] = "object" /\ (isRoot \/ ~isUserNamed(ir)) -> objectSchema(ir[3], version)
       [] ir[1] = "array" -> [type |-> <<"array">>, items |-> print(ir[2])]
       [] ir[1] = "tuple" -> tupleSchema([i \in 1..Len(ir[2]) |-> print(ir[2][i][1])], version)
       [] ir[1] = "union" -> unionSchema(ir, version)
       [] ir[1] = "intersection" -> "allOf" :> [i \in 1..Len(ir[2]) |-> print(ir[2][i])]
       [] ir[1] = "record" -> [type |-> <<"object">>, additionalProperties |-> print(ir[2])]
       [] OTHER -> "$ref" :> ir[2]

document(types, version) == [name \in DOMAIN types |-> irToOpenApiSchema(types[name], version, TRUE)]

-----------------------------------------------------------------------------
(* The reader. A format a primitive is printed with is the primitive; any      *)
(* other constrains the node, and with it the property the node stands at. *)
PRIMITIVE_FORMATS == [f \in {"int64", "byte", "date-time"} |->
                        CASE f = "int64" -> "bigint" [] f = "byte" -> "bytes" [] OTHER -> "date"]
has(raw, keyword) == keyword \in DOMAIN raw
formatIn(raw) == IF has(raw, "format") THEN raw.format ELSE ""
typeNames(raw) == IF has(raw, "type") THEN raw.type ELSE <<>>
nonNullTypes(raw) == SelectSeq(typeNames(raw), LAMBDA name : name # "null")
consumedFormat(raw) ==
  /\ formatIn(raw) \in DOMAIN PRIMITIVE_FORMATS
  /\ \E i \in 1..Len(nonNullTypes(raw)) : nonNullTypes(raw)[i] = "string"
keywordsToConstraints(raw) == IF consumedFormat(raw) \/ has(raw, "$ref") THEN "" ELSE formatIn(raw)

stringToIR(raw) ==
  CASE formatIn(raw) \in DOMAIN PRIMITIVE_FORMATS -> Prim(PRIMITIVE_FORMATS[raw.format])
    [] formatIn(raw) \notin DOMAIN PRIMITIVE_FORMATS /\ has(raw, "contentEncoding") -> Prim("bytes")
    [] OTHER -> Prim("string")
literalToIR(raw) ==
  LET single == IF has(raw, "const") THEN raw.const ELSE raw.enum[1]
  IN IF typeNames(raw) = <<"string">> /\ formatIn(raw) = "int64" THEN Lit(parse(single[2])) ELSE Lit(single)
enumToIR(values) ==
  LET all(tag) == \A i \in 1..Len(values) : Is(values[i], tag)
  IN IF all("string") \/ all("num") THEN Enum([i \in 1..Len(values) |-> <<i, values[i]>>])
     ELSE Union([i \in 1..Len(values) |-> Lit(values[i])])
RECURSIVE schemaToIR(_, _)
arrayToIR(raw, version) ==
  LET tuple(schemas) == TupleOf([i \in 1..Len(schemas) |-> <<schemaToIR(schemas[i], version), FALSE>>])
  IN CASE has(raw, "prefixItems") -> tuple(raw.prefixItems)
       [] has(raw, "items[]") -> tuple(raw["items[]"])
       [] OTHER -> ArrayOf(schemaToIR(raw.items, version))
objectToIR(raw, version) ==
  LET property(name, schema) ==
        <<name, schemaToIR(schema, version), name \notin raw.required, None, keywordsToConstraints(schema)>>
      declared == raw.properties
  IN IF has(raw, "properties") THEN Object("", [i \in 1..Len(declared) |-> property(declared[i][1], declared[i][2])])
     ELSE RecordOf(schemaToIR(raw.additionalProperties, version))
typeToIR(raw, types, version) ==
  CASE types = <<>> -> Unknown
    [] types = <<"string">> -> stringToIR(raw)
    [] types = <<"array">> -> arrayToIR(raw, version)
    [] types = <<"object">> -> objectToIR(raw, version)
    [] OTHER -> Prim(types[1])
coreToIR(raw, types, version) ==
  LET each(members) == [i \in 1..Len(members) |-> schemaToIR(members[i], version)]
  IN CASE has(raw, "allOf") -> Intersection(each(raw.allOf))
       [] has(raw, "oneOf") -> Tagged(each(raw.oneOf), IF has(raw, "discriminator") THEN raw.discriminator ELSE "")
       [] has(raw, "anyOf") -> Union(each(raw.anyOf))
       [] has(raw, "const") \/ (has(raw, "enum") /\ Len(raw.enum) = 1) -> literalToIR(raw)
       [] has(raw, "enum") /\ Len(raw.enum) > 1 -> enumToIR(raw.enum)
       [] OTHER -> typeToIR(raw, types, version)

schemaToIR(raw, version) ==
  LET types == nonNullTypes(raw)
      nullable == (version = "3.0" /\ has(raw, "nullable")) \/ types # typeNames(raw)
  IN IF has(raw, "$ref") THEN Ref(raw["$ref"])
     ELSE IF has(raw, "type") /\ types = <<>> THEN Prim("null")
     ELSE IF nullable THEN Union(<<coreToIR(raw, types, version), Prim("null")>>)
     ELSE coreToIR(raw, types, version)

(* The types a document declares, each under its name, which they do not know. *)
declaredTypes(schemas, version) == [name \in DOMAIN schemas |-> schemaToIR(schemas[name], version)]

-----------------------------------------------------------------------------
(* The client. Its checks see through the refs, up to a cycle; its codec is    *)
(* generated from the declared type as it stands.                          *)
RECURSIVE inlineRefs(_, _, _)
inlineRefs(ir, types, seen) ==
  LET next == IF isUserNamed(ir) THEN seen \cup {componentName(ir)} ELSE seen
      inline(t) == inlineRefs(t, types, next)
  IN CASE ir[1] = "ref" ->
            IF ir[2] \in seen \/ ir[2] \notin DOMAIN types THEN ir ELSE inlineRefs(types[ir[2]], types, seen \cup {ir[2]})
       [] ir[1] = "object" -> [ir EXCEPT ![3] = [i \in 1..Len(@) |-> [@[i] EXCEPT ![2] = inline(@)]]]
       [] ir[1] \in {"array", "record"} -> [ir EXCEPT ![2] = inline(@)]
       [] ir[1] = "tuple" -> [ir EXCEPT ![2] = [i \in 1..Len(@) |-> <<inline(@[i][1]), @[i][2]>>]]
       [] ir[1] \in {"union", "intersection"} -> [ir EXCEPT ![2] = [i \in 1..Len(@) |-> inline(@[i])]]
       [] OTHER -> ir

(* A response of a named type is decoded, then checked: what was checked is what *)
(* the caller gets.                                                        *)
Refused == <<"invalid">>
responseOf(name, types, text) ==
  LET checked(result) == IF result # Stopped /\ is(inlineRefs(Ref(name), types, {}), result) THEN result ELSE Refused
  IN checked(decodeJson(types[name], text))
====
