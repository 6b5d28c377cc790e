---- MODULE Codecs ----
(***************************************************************************)
(* One value on its way through the code the generators wrote for its      *)
(* type: it is validated and pruned, or encoded, perhaps cut short on the  *)
(* way, and decoded by the same codec, by the codec of an older version of *)
(* the type, or by a reader that has nothing but the published schema.     *)
(***************************************************************************)
EXTENDS ProtoFile, Avro, Arrow, Cbor, Erlang, OpenApi

CONSTANTS Inputs   \* <<type, value of the type>>

ASSUME InputsAreValid == \A input \in Inputs : is(input[1], input[2])

VARIABLES
  root,     \* the type
  value,    \* the value of it that is sent, for arrow an array of rows
  codec,    \* the codec it was encoded by, "none" before that; checked or pruned
  wire,     \* what the encoder wrote, or the object the validator was given
  reader,   \* the type the decoder was generated from, or how else it is read
  read      \* what the decoder made of it, or the validator left of it

vars == <<root, value, codec, wire, reader, read>>

Unread == <<"unread">>
BySchema == <<"by its schema">>
FromFile(type) == <<"from its file", type>>
isFromFile(by) == by[1] = "from its file"
FromDocument(version) == <<"from its document", version>>
isFromDocument(by) == by[1] = "from its document"
Invalid == <<"invalid">>

Init ==
  /\ \E input \in Inputs : root = input[1] /\ value = input[2]
  /\ codec = "none" /\ wire = <<>>
  /\ reader = root /\ read = Unread

----
encoded(c, sent, cells) ==
  /\ codec = "none"
  /\ codec' = c /\ value' = sent /\ wire' = cells
  /\ UNCHANGED <<root, reader, read>>

EncodeProtobuf == encoded("protobuf", value, encodeProto(root, value))
EncodeAvro == encoded("avro", value, encodeAvro(root, value))
EncodeCbor == encoded("cbor", value, encodeCbor(value))
EncodeErlangText == encoded("erlang text", value, encodeErlangText(value))
EncodeErlangBinary == encoded("erlang binary", value, encodeErlangBinary(value))
EncodeJson == encoded("json", value, encodeJson(root, value))
EncodeArrow ==
  \E input \in Inputs, n \in 0..1 :
    LET rows == <<value>> \o [i \in 1..2 * n |-> IF i = 1 THEN input[2] ELSE value]
    IN input[1] = root /\ encoded("arrow", Arr(rows), encodeArrow(root, rows))

Encoders == EncodeProtobuf \/ EncodeAvro \/ EncodeCbor \/ EncodeErlangText \/ EncodeErlangBinary
            \/ EncodeJson \/ EncodeArrow

threw == IF codec = "arrow" THEN wire = <<Threw>> ELSE failed(wire)

decoded(by, result) ==
  /\ codec # "none" /\ read = Unread /\ ~threw
  /\ reader' = by /\ read' = result
  /\ UNCHANGED <<root, value, codec, wire>>

Decode ==
  /\ codec \notin {"protobuf", "cut cbor"}
  /\ decoded(root, CASE codec = "avro" -> decodeAvro(root, wire)
                     [] codec = "cbor" -> decodeCbor(wire)
                     [] codec = "erlang text" -> decodeErlangText(wire)
                     [] codec = "erlang binary" -> decodeErlangBinary(wire)
                     [] codec = "json" -> decodeJson(root, wire)
                     [] OTHER -> Arr(decodeArrow(root, wire)))

(* The types a protobuf decoder may be generated from: that of the encoder, one    *)
(* that does not have one of its properties yet, and what a client makes of    *)
(* the .proto file of the server, or of one that means the same.           *)
without(type, i) ==
  Object(type[2], [j \in 1..Len(type[3]) - 1 |-> type[3][IF j < i THEN j ELSE j + 1]])
refsResolve(type) == \A t \in nodes(type) : t[1] = "ref" => resolve(type, t) # t
olderTypes == IF root[1] # "object" \/ Len(root[3]) = 1 THEN {}
              ELSE {t \in {without(root, i) : i \in 1..Len(root[3])} : refsResolve(t)}
typesFromFile == IF protoFieldBlocker(root) \/ ~compiles(root) THEN {}
                 ELSE {carriedBy(files) : files \in Layouts(generateGrpcSchemaCode(root))}
DecodeProtobuf ==
  /\ codec = "protobuf"
  /\ \E by \in {<<root, root>>} \cup {<<t, t>> : t \in olderTypes} \cup {<<FromFile(t), t>> : t \in typesFromFile} :
       ~protobufBlocker(by[2]) /\ decoded(by[1], decodeProto(by[2], wire))

DecodeBySchema ==
  \/ codec = "protobuf" /\ ~protoFieldBlocker(root) /\ compiles(root) /\ decoded(BySchema, readMessage(root, wire, root))
  \/ codec = "avro" /\ decoded(BySchema, readBySchema(irToAvroSchema(root, "", "M", root), wire, 1, root)[1])
  \/ codec = "json" /\ \E taken \in {admits(irToJsonSchema(root), parse(wire)),
                                    is(metaSchemaToTypeIR(irToJsonSchema(root)), parse(wire)),
                                    is(jsonSchemaToIR(irToJsonSchema(root)), parse(wire))} :
       decoded(BySchema, IF taken THEN parse(wire) ELSE Invalid)

(* The client that was generated from the OpenAPI document of the server. *)
documentOf(version) == document(collectNamedTypes(root), version)
declaredBy(version) == declaredTypes(documentOf(version), version)
DecodeFromDocument ==
  /\ codec = "json" /\ isUserNamed(root)
  /\ \E version \in Versions :
       decoded(FromDocument(version), responseOf(componentName(root), declaredBy(version), wire))

(* The connection ends before the last bytes do. *)
Cut ==
  /\ codec = "cbor" /\ read = Unread
  /\ \E n \in 0..Len(wire) - 1 : wire' = SubSeq(wire, 1, n)
  /\ codec' = "cut cbor"
  /\ UNCHANGED <<root, value, reader, read>>
DecodeCut == codec = "cut cbor" /\ decoded(root, decodeCbor(wire))

(* The value with a property no type declares in each of its objects, save those *)
(* below a union, an intersection or a ref.                                *)
RECURSIVE grown(_, _)
grown(ir, v) ==
  LET in(name) == LET ps == {ir[3][i] : i \in {j \in 1..Len(ir[3]) : nameOf(ir[3][j]) = name}}
                  IN typeOf(CHOOSE p \in ps : TRUE)
      more == <<"undeclared", Bool(TRUE)>>
  IN CASE ir[1] = "object" /\ Is(v, "object") ->
            Obj(<<more>> \o [i \in 1..Len(v[2]) |-> <<v[2][i][1], grown(in(v[2][i][1]), v[2][i][2])>>])
       [] ir[1] = "array" /\ Is(v, "array") -> Arr([i \in 1..Len(v[2]) |-> grown(ir[2], v[2][i])])
       [] ir[1] = "record" /\ Is(v, "object") ->
            Obj([i \in 1..Len(v[2]) |-> <<v[2][i][1], grown(ir[2], v[2][i][2])>>])
       [] OTHER -> v

Validate ==
  /\ codec = "none"
  /\ \E prune \in BOOLEAN, given \in {value, grown(root, value)} :
       LET result == validate(root, given, prune)
       IN /\ codec' = IF prune THEN "pruned" ELSE "checked"
          /\ wire' = given
          /\ read' = IF ok(result) THEN left(result) ELSE Invalid
  /\ UNCHANGED <<root, value, reader>>

(* A value that may be no value of the type: one of its properties holds what    *)
(* another type has. The generated validator and the zod schema both judge it. *)
Strays == {Undef, Null, Bool(TRUE), Num(7), Whole(Safe + 1), Big(-1), Big(Two64 \div 2), Str(<<>>), Date(0), Bytes(<<>>),
           Arr(<<>>), Obj(<<>>), Arr(<<Bool(TRUE), Str(<<>>), Null>>), Address, MailTo}
Judge ==
  /\ codec = "none"
  /\ \E stray \in Strays, i \in 1..Len(value[2]) :
       /\ codec' = "judged"
       /\ wire' = Obj([value[2] EXCEPT ![i] = <<value[2][i][1], stray>>])
       /\ read' = <<"verdicts", is(root, wire'), zodFor(root, wire')>>
  /\ UNCHANGED <<root, value, reader>>

Next == Encoders \/ Decode \/ DecodeProtobuf \/ DecodeBySchema \/ DecodeFromDocument \/ Cut \/ DecodeCut \/ Validate \/ Judge
Spec == Init /\ [][Next]_vars

----
(* What a value tells a reader: null, undefined and a missing property are one, *)
(* as is what counts as blank, and the order of properties says nothing.   *)
RECURSIVE told(_, _)
told(v, blank) ==
  CASE Is(v, "array") -> Arr([i \in 1..Len(v[2]) |-> told(v[2][i], blank)])
    [] Is(v, "object") ->
         LET entries == {<<v[2][i][1], told(v[2][i][2], blank)>> : i \in 1..Len(v[2])}
         IN Obj({e \in entries : ~isAbsent(e[2]) /\ e[2] \notin blank})
    [] isAbsent(v) -> Null
    [] OTHER -> v
Blanks == {Arr(<<>>), Obj({})}

done(c) == codec = c /\ read # Unread

(* The value with every integer a number, whichever of these JavaScript types it *)
(* has: a reader that is not JavaScript knows neither.                     *)
RECURSIVE numbers(_, _)
numbers(v, types) ==
  CASE v[1] \in types -> Whole(v[2])
    [] Is(v, "array") -> Arr([i \in 1..Len(v[2]) |-> numbers(v[2][i], types)])
    [] Is(v, "object") -> Obj([i \in 1..Len(v[2]) |-> <<v[2][i][1], numbers(v[2][i][2], types)>>])
    [] OTHER -> v

propsOf(type) == LET p == flattenObjectProperties(type) IN {p[i] : i \in 1..Len(p)}
allProps == UNION {propsOf(t) : t \in nodes(root)}

(* A width that fits its carrier: the codecs give 64 bits back as a bigint and   *)
(* narrower ones as a number, whichever of them the property is.           *)
Wide == {"int64", "uint64", "sint64", "fixed64", "sfixed64"}
typeKept ==
  \A p \in allProps : \A t \in nodes(typeOf(p)) :
    /\ isPrim(t, "bigint") => format(p) \in Wide \cup {""}
    /\ isPrim(t, "number") => format(p) \notin Wide \ {"int64"}
sameNumbers(a, b, blank) ==
  IF typeKept THEN told(a, blank) = told(b, blank) ELSE told(numbers(a, {"bigint"}), blank) = told(numbers(b, {"bigint"}), blank)

RECURSIVE parts(_)
parts(v) ==
  {v} \cup (CASE Is(v, "array") -> UNION {parts(v[2][i]) : i \in 1..Len(v[2])}
              [] Is(v, "object") -> UNION {parts(v[2][i][2]) : i \in 1..Len(v[2])}
              [] OTHER -> {})

wire64(formats) == \E p \in allProps : format(p) \in formats /\ \E v \in parts(value) : Is(v, "bigint") /\ v[2] >= Two64 \div 2
hasNode(kinds) == \E t \in nodes(root) : t[1] \in kinds
members(t) == {t[2][i] : i \in 1..Len(t[2])}
choice(t) == t[1] = "union" /\ Len(meaningful(t)) > 1
byteString == \E p \in allProps : isPrim(typeOf(p), "string") /\ format(p) = "byte"

(* What the protobuf codec does not carry. *)
stringEnum == \E t \in nodes(root) : t[1] = "enum" /\ \E i \in 1..Len(t[2]) : ~Is(t[2][i][2], "num")
nullScalar == Null \in parts(value) /\ \E t \in nodes(root) : t[1] = "union" /\ messageTarget(t, root) = NoType
byJson(t) == messageId(t, root) = NoType /\ scalarCodecFor(wireFieldType(t), "") = "json"
wideInJson ==
  \E t \in nodes(root) :
    \/ t[1] \in {"array", "record"} /\ byJson(t[2]) /\ needsTransform(t[2])
    \/ t[1] = "tuple" /\ needsTransform(t)
(* A negative member is written in ten bytes, as int32 is, and read unsigned. *)
negativeEnum ==
  \E t \in nodes(root) : t[1] = "enum" /\ \E i \in 1..Len(t[2]) : t[2][i][2] \in parts(value) /\ toNumber(t[2][i][2]) < 0
(* A number in a float that no float holds. *)
beyondFloat ==
  (\E p \in allProps : format(p) = "float") /\ \E v \in parts(value) : Is(v, "num") /\ fround(v[2]) # v[2]
uncarried == beyondFloat \/ stringEnum \/ nullScalar \/ wire64({"uint64"}) \/ wideInJson

(* What a type that is the root or an older version of it has of a value, where  *)
(* it refers to itself too.                                                *)
RECURSIVE knownTo(_, _)
knownTo(type, v) ==
  LET kept == SelectSeq(v[2], LAMBDA e : \E p \in propsOf(type) : nameOf(p) = e[1])
      again(e) == \E p \in propsOf(type) : nameOf(p) = e[1] /\ typeOf(p) = Ref(type[2])
  IN Obj([i \in 1..Len(kept) |-> <<kept[i][1], IF again(kept[i]) THEN knownTo(type, kept[i][2]) ELSE kept[i][2]>>])
(* Whether the values of a map are messages hangs on the rest of the type. *)
mapsAlike == \A t \in nodes(reader) : t[1] = "record" => (messageId(t[2], reader) = NoType) = (messageId(t[2], root) = NoType)

(* A message of a type the generator accepts is written without throwing, and    *)
(* its decoder, or one generated before a property was added, reads every      *)
(* property it knows as it was, an absent field and its default apart. What    *)
(* does not survive: enums of strings and negative members of an enum (written *)
(* as int32 is, read unsigned), null in a nullable scalar (only undefined is   *)
(* spelt by omission), the upper half of uint64, what a float rounds, bigints, *)
(* dates and bytes in fields that travel as JSON text, and a map whose values  *)
(* become messages only when some other field embeds their type.           *)
ProtobufReadersAgree ==
  codec = "protobuf" /\ ~protobufBlocker(root) /\ ~uncarried =>
    /\ ~threw
    /\ done("protobuf") /\ reader # BySchema /\ ~isFromFile(reader) /\ mapsAlike /\ ~negativeEnum => sameNumbers(knownTo(reader, value), read, Blanks)

(* What the printed schema does not say. *)
unnamedMessage == \E t \in nodes(root) \ {root} : t[1] = "intersection" \/ (t[1] = "object" /\ t[2] = "")
mapOnlyMessage ==
  \E t \in nodes(root) : t[1] = "record" /\ messageId(t[2], root) = NoType /\ flattenObjectProperties(resolve(root, t[2])) # <<>>
numericLiteral == \E p \in allProps : typeOf(p)[1] = "literal" /\ Is(typeOf(p)[2], "num") /\ format(p) # ""
protoFileReads ==
  codec = "protobuf" /\ ~(uncarried \/ unnamedMessage \/ mapOnlyMessage \/ numericLiteral \/ hasNode({"tuple"})) =>
    told(numbers(value, {"bigint", "date"}), Blanks) = told(read, Blanks)

(* An avro value reads back as it was, bytes of the fields behind a variable    *)
(* one included, except the upper half of the unsigned words, numbers that a   *)
(* float rounds, strings that are bytes by format, and bigints, dates and bytes *)
(* in unions and tuples, which travel as JSON text.                        *)
AvroRoundTrip ==
  codec = "avro" /\ ~(\/ wire64({"uint64", "fixed64"}) \/ byteString \/ beyondFloat
                     \/ \E t \in nodes(root) : (choice(t) \/ t[1] = "tuple") /\ needsTransform(t)) =>
    ~threw /\ (done("avro") /\ reader = root => sameNumbers(value, read, {}))

twoOfAName ==
  \E t, u \in nodes(root), p, q \in allProps :
    t # u /\ nameOf(p) = nameOf(q) /\ typeOf(p) = t /\ typeOf(q) = u
      /\ isRecordType(t) /\ isRecordType(u) /\ schemaNameOf(t, nameOf(p)) = schemaNameOf(u, nameOf(q))
logicalString == \E p \in allProps : isPrim(typeOf(p), "string") /\ avroLogicalFor(typeOf(p), format(p)) # "none"
avroSchemaReads ==
  codec = "avro"
    /\ ~(\/ wire64({"uint64", "fixed64"}) \/ beyondFloat \/ byteString \/ logicalString \/ twoOfAName \/ hasNode({"tuple", "ref"})
         \/ (\E t \in nodes(root) : choice(t)) \/ \E p \in allProps : format(p) = "fixed32") =>
    told(numbers(value, {"bigint", "date"}), {}) = told(read, {})

recursive == \E t \in nodes(root) : t[1] = "object" /\ Ref(t[2]) \in nodes(t)
messageInOneof ==
  \E p \in allProps : LET union == oneofFor(typeOf(p))
                     IN union # NoType /\ \E i \in 1..Len(union[2]) : messageTarget(union[2][i], root) # NoType
fileCodecReads ==
  ~(uncarried \/ negativeEnum \/ numericLiteral \/ unnamedMessage \/ recursive \/ hasNode({"tuple"})) =>
    /\ told(numbers(value, {"bigint", "date"}), Blanks) = told(numbers(read, {"bigint"}), Blanks)
    /\ messageInOneof \/ encodeProto(reader[2], read) = wire

nestedArrays ==
  \E t \in nodes(root) : t[1] = "array" /\ \E u \in nodes(t[2]) : u[1] = "array" /\ needsTransform(u)
beyondJson ==
  \/ nestedArrays
  \/ \E t \in nodes(root) : t[1] \in {"record", "tuple"} /\ needsTransform(t)
  \/ \E t \in nodes(root) : t[1] = "union" /\ \E u \in members(t) : u = Prim("bytes") \/ (u[1] = "array" /\ needsTransform(u))

(* What a document tells otherwise than it was meant. *)
nullableRef(version) ==
  version = "3.0" /\ \E t \in nodes(root) : t[1] = "union" /\ Prim("null") \in members(t) /\ \E u \in members(t) : isUserNamed(u)
formattedString(formats) == \E p \in allProps : isPrim(typeOf(p), "string") /\ format(p) \in formats
formattedBigint == \E p \in allProps : isPrim(typeOf(p), "bigint") /\ format(p) \notin {"", "int64"}
behindRef == \E t \in nodes(root) \ {root} : isUserNamed(t) /\ needsTransform(t)
documentReads(version) ==
  LET types == declaredBy(version)
  IN /\ nullableRef(version) \/ (version = "3.1" /\ formattedString({"byte"})) \/ document(types, version) = documentOf(version)
     /\ ~(beyondJson \/ nullableRef(version) \/ formattedString(DOMAIN PRIMITIVE_FORMATS) \/ formattedBigint \/ behindRef) =>
          told(read, {}) = told(value, {}) /\ encodeJson(types[componentName(root)], read) = wire

(* Whoever has only the published schema reads the same value off the wire. From *)
(* the proto3 file: field numbers, scalar types, packing, maps, oneofs and     *)
(* embedded messages agree with the codec, except nested types without a name, *)
(* messages only a map embeds, literals with a width, and tuples. From the     *)
(* avro schema: names defined once and referred to later, nullable branches,   *)
(* blocks; except two nested types that fall back to one property's name,      *)
(* strings with a logical type, fixed32 as int, tuples, unions of several      *)
(* members (declared as such, written as text) and recursion. From the JSON    *)
(* Schema: the text encodeJson writes is admitted by the draft and by the      *)
(* types both schema readers make of it. From the .proto file of a gRPC        *)
(* service, in whatever of its layouts: the client generated from it reads     *)
(* the value and writes the same wire again, with the exceptions above, a      *)
(* recursive message, which the extractor's refs do not lead back to, and, for *)
(* writing, messages in a oneof, which are told apart by required fields. From *)
(* the OpenAPI document of a service, in either dialect: what is read of its   *)
(* schemas prints them again (src/test/openapi_extractor.test.ts:252), and the *)
(* client accepts the response, as it was, and would write the same text;      *)
(* except a nullable type that has a name, in 3.0, where a $ref admits nothing *)
(* beside it; strings with the format of another primitive and bigints without *)
(* that of their own; bigints, dates and bytes behind a $ref, which the        *)
(* client's codec leaves as text; and what JSON's own codec loses.             *)
SchemasTellTheWire ==
  /\ (read # Unread /\ isFromFile(reader)) => fileCodecReads
  /\ (read # Unread /\ isFromDocument(reader)) => documentReads(reader[2])
  /\ (read # Unread /\ reader = BySchema) =>
    protoFileReads /\ avroSchemaReads /\ (codec = "json" => read # Invalid)

(* Every row of a batch reads back as it was, wherever the rows before and       *)
(* after it put its bits and offsets, with absent values among them and with   *)
(* padding the encoder leaves as it found it. Not so: enums, which come back as *)
(* their text, numbers that a float rounds, and strings with the format byte   *)
(* or binary, whose column is of bytes and holds none of the string's.     *)
ArrowRoundTrip ==
  codec = "arrow" /\ encodable(root) /\ ~(hasNode({"enum"}) \/ beyondFloat \/ byteString) =>
    ~threw /\ (done("arrow") => sameNumbers(value, read, {}))

(* What a term becomes in a codec that knows no types. *)
RECURSIVE asTerm(_, _)
asTerm(c, v) ==
  CASE Is(v, "array") -> Arr([i \in 1..Len(v[2]) |-> asTerm(c, v[2][i])])
    [] Is(v, "object") -> Obj([i \in 1..Len(v[2]) |-> <<v[2][i][1], asTerm(c, v[2][i][2])>>])
    [] Is(v, "bigint") ->
         IF (IF c = "cbor" /\ v[2] < 0 THEN -1 - v[2] ELSE abs(v[2])) <= Safe THEN Whole(v[2]) ELSE v
    [] Is(v, "date") -> IF c = "cbor" THEN v ELSE Str(<<Text(v)>>)
    [] Is(v, "bytes") -> IF c = "erlang binary" THEN Str(v[2]) ELSE v
    [] Is(v, "num") -> IF c = "erlang text" /\ v[2] % 2 = 0 /\ abs(trunc(v[2])) > Safe THEN Big(trunc(v[2])) ELSE v
    [] c # "cbor" /\ Is(v, "string") /\ v[2] \in {<<Colon, Text(w)>> : w \in {Bool(TRUE), Bool(FALSE), Null, Undef}} ->
         v[2][2][2]
    [] OTHER -> v
slashed(v) == \E s \in parts(v) : Is(s, "string") /\ \E i \in 1..Len(s[2]) : s[2][i] = Backslash
(* The codecs that see no types give every value back, except what their terms   *)
(* have no form for: a bigint a number can hold, in Erlang a date and the      *)
(* strings ":true", ":false", ":nil", ":null" and ":undefined" (which are the  *)
(* values so called), in its binary form bytes, in its text an integer past    *)
(* Safe that was a number. A text with a string that has a backslash is no     *)
(* text of it: the escape of a backslash is a backslash (erlang.ts:35), and    *)
(* the parser drops it, and a quote behind it. A CBOR item cut anywhere is     *)
(* refused: no read past the end of the buffer gives a value that looks whole. *)
TermsRoundTrip ==
  /\ \A c \in {"cbor", "erlang text", "erlang binary"} :
       done(c) /\ ~(c = "erlang text" /\ slashed(value)) => read = asTerm(c, value)
  /\ done("cut cbor") => read = Fail

(* JSON text gives bigints, dates and bytes back, wherever in objects, arrays    *)
(* and unions they are. Excluded: an array inside an array, whose loops share  *)
(* the name _i, records of such values, bytes in a union, whose base64 may be  *)
(* all digits, and an array of them in a union, so an optional one too, which  *)
(* is written as it is.                                                    *)
JsonRoundTrip ==
  codec = "json" /\ ~beyondJson =>
    ~threw /\ (done("json") /\ reader = root => told(value, {}) = told(read, {}))

sharedValue ==
  \E t \in nodes(root) :
    t[1] = "intersection" \/ (t[1] = "union" /\ Cardinality({u \in members(t) : u[1] = "object"}) > 1)
(* Pruning takes what no part of the type declares and nothing else: a valid     *)
(* value stays valid and keeps every declared property                     *)
(* (src/docs/type-introspection.md:76).                                    *)
DeclaredSurvivesPruning == codec = "pruned" => read = value
(* Validation alone leaves the value as it was; pruning takes, on every level,   *)
(* exactly what is undeclared, unless several objects of a union or an         *)
(* intersection look at one value.                                         *)
PruneKeepsDeclared ==
  /\ codec = "checked" => read = wire
  /\ codec = "pruned" /\ ~sharedValue => read = value

judged(p) == get(wire, nameOf(p))
zodDiffers ==
  \E p \in propsOf(root) :
    \/ typeOf(p)[1] = "record" /\ judged(p)[1] \in {"date", "bytes"}
    \/ typeOf(p)[1] = "union" /\ ~optional(p) /\ judged(p) = Undef
    \/ typeOf(p)[1] = "union" /\ format(p) \in IntegerFormats \cup DOMAIN STRING_FORMATS
    \/ typeOf(p)[1] = "tuple" /\ Is(judged(p), "array") /\ Len(judged(p)[2]) > Len(typeOf(p)[2])
    \/ format(p) = "email" /\ judged(p) = MailTo
    \/ format(p) \in IntegerFormats /\ Is(judged(p), "num") /\ abs(trunc(judged(p)[2])) > Safe
(* The zod schema accepts exactly what the generated validator accepts, except a *)
(* Date or bytes as a record (which only the validator takes), a missing       *)
(* property whose type names undefined and a number past Safe (which only zod  *)
(* takes), a tuple with more elements than it declares and an address that is  *)
(* only loosely one (which only the validator takes), and the format of an     *)
(* optional or nullable property, which zod drops. Of the formats of strings   *)
(* it is of email, which zod judges by its own pattern, and of one whose       *)
(* pattern both are given; of other constraints it says nothing.           *)
ZodAgrees == codec = "judged" /\ ~zodDiffers => read[2] = read[3]
====
