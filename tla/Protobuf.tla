---- MODULE Protobuf ----
(***************************************************************************)
(* The protobuf codec generateProtobufCode writes for a type, and the      *)
(* schema protobufSchema prints for it (src/src/generators/protobuf.ts).   *)
(***************************************************************************)
EXTENDS Varint, TLC

NoType == <<"none">>

(* ---------------------------- field encodings --------------------------- *)

declared(f, default) == IF f \in IntegerFormats \cup {"float", "double"} THEN f ELSE default

(* The PROTO_NUMERICS entry a number, bigint or date travels by. *)
protoNumericFor(ir, f) ==
  CASE ir[1] # "primitive" -> "none"
    [] ir[2] = "bigint" -> declared(declaredFormat(ir, f), "int64")
    [] ir[2] = "number" -> declared(declaredFormat(ir, f), "double")
    [] ir[2] = "date" -> "int64"
    [] OTHER -> "none"

proto(numeric) ==
  CASE numeric \in {"int8", "int16"} -> "int32"
    [] numeric \in {"uint8", "uint16"} -> "uint32"
    [] numeric \in {"double-int", "sf-integer", "unixtime"} -> "int64"
    [] OTHER -> numeric
wireOf(numeric) ==
  CASE numeric \in {"fixed32", "sfixed32", "float"} -> 5
    [] numeric \in {"fixed64", "sfixed64", "double"} -> 1
    [] OTHER -> 0

readsAsBigInt(ir, f) ==
  LET own == declaredFormat(ir, f)
      wide == own \in {"int64", "uint64", "fixed64", "sfixed64", "sint64"}
  IN IF isPrim(ir, "bigint") THEN wide \/ own = "" ELSE wide /\ own # "int64"

writeNumeric(numeric, v) ==
  LET wire == proto(numeric)
  IN CASE wire \in {"int32", "uint32"} -> writeVarint(toNumber(v))
       [] wire \in {"int64", "uint64"} -> writeVarint64(toInteger(v))
       [] wire \in {"sint32", "sint64"} -> writeZigZag(toInteger(v))
       [] wire \in {"fixed32", "sfixed32"} -> fixed32(toNumber(v))
       [] wire \in {"fixed64", "sfixed64"} ->
            IF isAbsent(v) \/ (Is(v, "num") /\ v[2] % 2 = 1) THEN <<Threw>> ELSE fixed64(toInteger(v))
       [] wire = "float" -> fixed32(fround(halvesOf(v)))
       [] OTHER -> fixed64(halvesOf(v))

(* The integer read, or for float and double the number's halves. *)
readNumeric(numeric, buf, o) ==
  LET wire == proto(numeric)
  IN CASE wire = "int32" -> LET r == readVarint64(buf, o) IN <<asIntN(Two32, r[1]), r[2]>>
       [] wire = "uint32" -> readVarint(buf, o)
       [] wire \in {"int64", "uint64"} -> readVarint64(buf, o)
       [] wire \in {"sint32", "sint64"} -> readZigZag(buf, o)
       [] wire = "fixed32" -> <<byte(buf, o), o + 1>>
       [] wire \in {"sfixed32", "float"} -> <<asIntN(Two32, byte(buf, o)), o + 1>>
       [] wire = "fixed64" -> <<readFixed64(buf, o), o + 2>>
       [] OTHER -> <<asIntN(Two64, readFixed64(buf, o)), o + 2>>

(* A literal travels as its primitive. *)
primOf(ir) ==
  IF ir[1] # "literal" THEN ir
  ELSE CASE Is(ir[2], "num") -> Prim("number")
         [] Is(ir[2], "bool") -> Prim("boolean")
         [] ir[2][1] \in {"string", "bigint"} -> Prim(ir[2][1])
         [] OTHER -> ir

(* How a value that is no message travels; "json" is JSON_FALLBACK. *)
scalarCodecFor(ir, f) ==
  LET prim == primOf(ir)
  IN CASE prim[1] = "primitive" /\ prim[2] \in {"string", "bytes", "boolean", "date"} -> prim[2]
       [] prim[1] = "enum" -> "enum"
       [] protoNumericFor(prim, f) # "none" -> protoNumericFor(prim, f)
       [] OTHER -> "json"
wireType(codec) ==
  CASE codec \in {"string", "bytes", "json"} -> 2
    [] codec \in {"boolean", "date", "enum"} -> 0
    [] OTHER -> wireOf(codec)

writeScalar(codec, v) ==
  CASE codec \in {"string", "bytes", "json"} ->
         lengthDelimited(CASE codec = "string" -> (IF Is(v, "string") THEN v[2] ELSE <<Text(v)>>)
                           [] codec = "bytes" -> (IF Is(v, "bytes") THEN v[2] ELSE <<>>)
                           [] OTHER -> stringify(v))
    [] codec = "boolean" -> writeVarint(IF v = Bool(TRUE) THEN 1 ELSE 0)
    [] codec = "date" -> IF Is(v, "date") THEN writeVarint64(v[2]) ELSE <<Threw>>
    [] codec = "enum" -> writeVarint(toNumber(v))
    [] OTHER -> writeNumeric(codec, v)

readScalar(codec, asBigInt, buf, o) ==
  LET with(r) ==
        <<CASE codec = "string" -> Str(r[1])
            [] codec = "bytes" -> Bytes(r[1])
            [] codec = "json" -> parse(r[1])
            [] codec = "boolean" -> Bool(r[1] # 0)
            [] codec = "enum" -> Whole(r[1])
            [] codec = "date" -> Date(round(r[1]))
            [] codec \in {"float", "double"} -> (IF asBigInt THEN Big(trunc(r[1])) ELSE Num(r[1]))
            [] OTHER -> (IF asBigInt THEN Big(r[1]) ELSE Whole(round(r[1]))), r[2]>>
  IN with(CASE codec \in {"string", "bytes", "json"} -> readDelimited(buf, o)
            [] codec \in {"boolean", "enum"} -> readVarint(buf, o)
            [] codec = "date" -> readVarint64(buf, o)
            [] OTHER -> readNumeric(codec, buf, o))

(* --------------------------- shapes of a field -------------------------- *)

unwrapNullable(ir) ==
  IF ir[1] # "union" THEN ir
  ELSE IF Len(meaningful(ir)) = 1 THEN meaningful(ir)[1]
       ELSE <<"union", meaningful(ir), ir[3], ir[4]>>

(* The primitive a union of same-typed literals is, if it is one. *)
collapseLiteralUnion(union) ==
  LET types == union[2]
      kinds == {types[i][2][1] : i \in {j \in 1..Len(types) : types[j][1] = "literal"}}
  IN IF \E i \in 1..Len(types) : types[i][1] # "literal" THEN NoType
     ELSE CASE kinds = {"string"} -> Prim("string")
            [] kinds = {"num"} -> Prim("number")
            [] kinds = {"bigint"} -> Prim("bigint")
            [] kinds = {"bool"} -> Prim("boolean")
            [] OTHER -> NoType

wireFieldType(ir) ==
  LET as(type, collapsed) == IF type[1] = "union" /\ collapsed # NoType THEN collapsed ELSE type
      of(type) == as(type, collapseLiteralUnion(type))
  IN of(unwrapNullable(ir))

oneofFor(ir) ==
  LET of(inner) == IF inner[1] = "union" /\ collapseLiteralUnion(inner) = NoType THEN inner ELSE NoType
  IN of(unwrapNullable(ir))

messageTarget(ir, root) ==
  LET unwrapped == unwrapNullable(resolve(root, ir))
      candidate == resolve(root, IF unwrapped[1] = "array" THEN unwrapped[2] ELSE unwrapped)
  IN IF flattenObjectProperties(candidate) # <<>> THEN candidate ELSE NoType

(* The messages of a type: the root and what its fields embed, and theirs. *)
RECURSIVE planFrom(_, _, _)
planFrom(todo, seen, root) ==
  IF todo = {} THEN seen
  ELSE LET m == CHOOSE m \in todo : TRUE
           fields == flattenObjectProperties(m)
           types(ir, oneof) == IF oneof = NoType THEN {ir} ELSE {oneof[2][i] : i \in 1..Len(oneof[2])}
           reachable(p) == types(typeOf(p), oneofFor(typeOf(p)))
           targets == {messageTarget(t, root) : t \in UNION {reachable(fields[i]) : i \in 1..Len(fields)}}
       IN planFrom((todo \cup targets) \ (seen \cup {m, NoType}), seen \cup {m}, root)
planMessages(root) == planFrom({root}, {}, root)
messageId(ir, root) == LET planned(t) == IF t \in planMessages(root) THEN t ELSE NoType
                       IN planned(messageTarget(ir, root))

requiredSignature(ir) ==
  LET props == flattenObjectProperties(ir)
  IN {nameOf(props[i]) : i \in {j \in 1..Len(props) : ~optional(props[j])}}

(* The test that tells a variant of a oneof from its siblings. *)
variantCheck(variant, union, v, root) ==
  LET target == resolve(root, unwrapNullable(variant))
      props == flattenObjectProperties(target)
      tags == {i \in 1..Len(props) : nameOf(props[i]) = union[4] /\ typeOf(props[i])[1] = "literal"}
  IN IF target[1] \notin {"object", "intersection"} THEN typeCheck(target, v)
     ELSE IF tags # {} THEN Is(v, "object") /\ \E i \in tags : get(v, union[4]) = typeOf(props[i])[2]
     ELSE Is(v, "object") /\ requiredSignature(target) \subseteq keys(v)

(* ------------------------------- refusals ------------------------------- *)

nestedUnionBlocker(p) ==
  LET blocks(field) == field[1] \in {"array", "record"} /\ wireFieldType(field[2])[1] = "union"
  IN blocks(wireFieldType(typeOf(p)))

numbersOf(p) ==
  LET of(oneof) == IF oneof = NoType THEN <<fieldNumber(p)>> ELSE oneof[3] IN of(oneofFor(typeOf(p)))

(* Variants of a oneof that nothing tells apart. *)
ambiguous(oneof) ==
  LET variant(i) == unwrapNullable(oneof[2][i])
      objects == {i \in 1..Len(oneof[2]) : variant(i)[1] \in {"object", "intersection"}}
  IN oneof[4] = "" /\ \E j, k \in objects : j < k /\ requiredSignature(variant(j)) = requiredSignature(variant(k))
(* Why a type has no protobuf codec: generateProtobufCode then writes one that  *)
(* only throws.                                                            *)
protobufBlocker(root) ==
  LET refuses(p, oneof) ==
        \/ nestedUnionBlocker(p)
        \/ oneof = NoType /\ fieldNumber(p) = None
        \/ oneof # NoType /\ (oneof[3] = <<>> \/ fieldNumber(p) # None \/ ambiguous(oneof))
      clash(numbers) == \E i, j \in 1..Len(numbers) : i < j /\ numbers[i] = numbers[j]
      blocks(props) == \/ props = <<>>
                       \/ \E i \in 1..Len(props) : refuses(props[i], oneofFor(typeOf(props[i])))
                       \/ clash(concat([i \in 1..Len(props) |-> numbersOf(props[i])]))
  IN \E m \in planMessages(root) : blocks(flattenObjectProperties(m))

(* -------------------------------- encoding ------------------------------ *)

numberOf(p) == LET least(n) == CHOOSE k \in {n[i] : i \in 1..Len(n)} : \A i \in 1..Len(n) : k <= n[i]
               IN least(numbersOf(p))
fieldsOf(m) == SortSeq(flattenObjectProperties(m), LAMBDA p, q : numberOf(p) < numberOf(q))
tag(n, wire) == writeVarint(n * 8 + wire)

RECURSIVE encodeMsg(_, _, _)
nestedRecord(n, m, v, root) == tag(n, 2) \o lengthDelimited(encodeMsg(m, v, root))
scalarRecord(n, codec, v) == tag(n, wireType(codec)) \o writeScalar(codec, v)

encodeOneof(p, v, root) ==
  LET union == oneofFor(typeOf(p))
      record(i, nested) ==
        IF nested # NoType THEN nestedRecord(union[3][i], nested, v, root)
        ELSE scalarRecord(union[3][i], scalarCodecFor(union[2][i], format(p)), v)
      as(i) == record(i, messageId(union[2][i], root))
      first(matching) == IF matching = {} THEN <<>> ELSE as(CHOOSE i \in matching : \A j \in matching : i <= j)
  IN IF isAbsent(v) THEN <<>> ELSE first({i \in 1..Len(union[2]) : variantCheck(union[2][i], union, v, root)})

encodeRepeated(p, pType, v, root) ==
  LET nested == messageId(pType, root)
      codec == scalarCodecFor(pType[2], format(p))
      each(write(_)) == concat([i \in 1..Len(v[2]) |-> write(v[2][i])])
      write(item) == writeScalar(codec, item)
      record(item) == IF nested # NoType THEN nestedRecord(fieldNumber(p), nested, item, root)
                      ELSE scalarRecord(fieldNumber(p), codec, item)
  IN IF ~Is(v, "array") \/ v[2] = <<>> THEN <<>>
     ELSE IF nested = NoType /\ wireType(codec) # 2
          THEN tag(fieldNumber(p), 2) \o lengthDelimited(each(write))
          ELSE each(record)

encodeMap(p, pType, v, root) ==
  LET record(nested, item) == IF nested # NoType THEN nestedRecord(2, nested, item, root)
                              ELSE scalarRecord(2, scalarCodecFor(pType[2], format(p)), item)
      pair(e) == tag(1, 2) \o lengthDelimited(keyCells(e[1])) \o record(messageId(pType[2], root), e[2])
      entry(e) == tag(fieldNumber(p), 2) \o lengthDelimited(pair(e))
  IN IF isAbsent(v) THEN <<>> ELSE concat([i \in 1..Len(v[2]) |-> entry(v[2][i])])

encodeField(p, v, root) ==
  LET pType == wireFieldType(typeOf(p))
      single(nested) ==
        CASE nested # NoType -> IF isAbsent(v) THEN <<>> ELSE nestedRecord(fieldNumber(p), nested, v, root)
          [] OTHER -> IF v = Undef THEN <<>> ELSE scalarRecord(fieldNumber(p), scalarCodecFor(pType, format(p)), v)
  IN IF oneofFor(typeOf(p)) # NoType THEN encodeOneof(p, v, root)
     ELSE CASE pType[1] = "array" -> encodeRepeated(p, pType, v, root)
            [] pType[1] = "record" -> encodeMap(p, pType, v, root)
            [] OTHER -> single(messageId(pType, root))

encodeMsg(m, v, root) ==
  LET access(p) == IF Is(v, "object") THEN get(v, nameOf(p)) ELSE Undef
      each(fields) == concat([i \in 1..Len(fields) |-> encodeField(fields[i], access(fields[i]), root)])
  IN IF isAbsent(v) THEN <<Threw>> ELSE each(fieldsOf(m))

encodeProto(root, v) == IF protobufBlocker(root) THEN <<Threw>> ELSE encodeMsg(root, v, root)

(* -------------------------------- decoding ------------------------------ *)

(* Fields of fixed width are not skipped. *)
skipField_NotFixed(wire, buf, o) ==
  CASE wire = 0 -> readVarint(buf, o)[2]
    [] wire = 2 -> readDelimited(buf, o)[2]
    [] OTHER -> o
(* How far the next field is, when this one is unknown. *)
skipField(wire, buf, o) ==
  CASE wire = 0 -> readVarint(buf, o)[2]
    [] wire = 2 -> readDelimited(buf, o)[2]
    [] wire = 1 -> o + 2
    [] wire = 5 -> o + 1
    [] OTHER -> o

RECURSIVE decodeMsg(_, _, _, _, _, _), readPacked(_, _, _, _, _, _), readEntry(_, _, _, _, _, _, _)
readMsg(m, buf, o, root) ==
  LET len == readVarint(buf, o)
  IN <<decodeMsg(m, buf, len[2], len[2] + len[1], Obj(<<>>), root), len[2] + len[1]>>
readItem(nested, ir, f, buf, o, root) ==
  IF nested # NoType THEN readMsg(nested, buf, o, root)
  ELSE readScalar(scalarCodecFor(ir, f), readsAsBigInt(primOf(ir), f), buf, o)

readPacked(ir, f, buf, o, stop, items) ==
  LET after(item) == readPacked(ir, f, buf, item[2], stop, Append(items, item[1]))
  IN IF o >= stop THEN items
     ELSE after(readScalar(scalarCodecFor(ir, f), readsAsBigInt(primOf(ir), f), buf, o))

decodeRepeated(p, pType, wire, buf, o, obj, root) ==
  LET nested == messageId(pType, root)
      sofar == get(obj, nameOf(p))
      items == IF sofar = Undef THEN <<>> ELSE sofar[2]
      len == readVarint(buf, o)
      with(one) == <<Arr(Append(items, one[1])), one[2]>>
  IN IF /\ nested = NoType
        /\ wireType(scalarCodecFor(pType[2], format(p))) # 2
        /\ wire = 2
     THEN <<Arr(readPacked(pType[2], format(p), buf, len[2], len[2] + len[1], items)), len[2] + len[1]>>
     ELSE with(readItem(nested, pType[2], format(p), buf, o, root))

(* The key and the value of a map entry, in whichever order they come. *)
readEntry(p, pType, buf, o, stop, entry, root) ==
  LET entryTag == readVarint(buf, o)
      after(key, value, next) == readEntry(p, pType, buf, next, stop, <<key, value>>, root)
      afterKey(read) == after(keyOf(read[1]), entry[2], read[2])
      afterValue(read) == after(entry[1], read[1], read[2])
  IN IF o >= stop THEN entry
     ELSE IF entryTag[1] \div 8 = 1
          THEN afterKey(readDelimited(buf, entryTag[2]))
          ELSE afterValue(readItem(messageId(pType[2], root), pType[2], format(p), buf, entryTag[2], root))

decodeMap(p, pType, buf, o, obj, root) ==
  LET len == readVarint(buf, o)
      sofar == get(obj, nameOf(p))
      with(entry) == put(IF sofar = Undef THEN Obj(<<>>) ELSE sofar, entry[1], entry[2])
  IN <<with(readEntry(p, pType, buf, len[2], len[2] + len[1], <<"", Undef>>, root)), len[2] + len[1]>>

(* The value of field p, met as record n of this wire type. *)
decodeField(p, n, wire, buf, o, obj, root) ==
  LET pType == wireFieldType(typeOf(p))
      union == oneofFor(typeOf(p))
      variant == union[2][CHOOSE i \in 1..Len(union[3]) : union[3][i] = n]
      item(type) == readItem(messageId(type, root), type, format(p), buf, o, root)
  IN CASE union = NoType /\ pType[1] = "array" -> decodeRepeated(p, pType, wire, buf, o, obj, root)
       [] union = NoType /\ pType[1] = "record" -> decodeMap(p, pType, buf, o, obj, root)
       [] OTHER -> item(IF union # NoType THEN variant ELSE pType)

decodeMsg(m, buf, o, end, obj, root) ==
  LET next == readVarint(buf, o)
      n == next[1] \div 8
      wire == next[1] % 8
      carries(p) == \E i \in 1..Len(numbersOf(p)) : numbersOf(p)[i] = n
      after(p, read) == decodeMsg(m, buf, read[2], end, put(obj, nameOf(p), read[1]), root)
      field(p) == after(p, decodeField(p, n, wire, buf, next[2], obj, root))
      met(ps) == IF ps = <<>> THEN decodeMsg(m, buf, skipField(wire, buf, next[2]), end, obj, root)
                 ELSE field(ps[1])
  IN IF o >= end \/ next[1] = 0 THEN obj ELSE met(SelectSeq(fieldsOf(m), carries))

decodeProto(root, buf) == decodeMsg(root, buf, 1, Len(buf) + 1, Obj(<<>>), root)
====
