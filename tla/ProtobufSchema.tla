---- MODULE ProtobufSchema ----
(***************************************************************************)
(* The proto3 schema generateProtobufSchemaCode prints for a type, and a   *)
(* reader that knows nothing but that schema and the protobuf encoding:    *)
(* what another implementation makes of a wire this codec wrote.           *)
(***************************************************************************)
EXTENDS Protobuf

Scalar(type) == <<"scalar", type>>
Message(name) == <<"message", name>>

(* The type printed for a field. Literals forget the format of their carrier. *)
RECURSIVE mapIRToProtoType(_, _)
mapIRToProtoType(ir, f) ==
  CASE protoNumericFor(ir, f) # "none" -> Scalar(proto(protoNumericFor(ir, f)))
    [] ir[1] = "primitive" /\ ir[2] \in {"boolean", "bytes"} -> Scalar(ir[2])
    [] ir[1] = "literal" -> (CASE Is(ir[2], "bool") -> Scalar("boolean")
                               [] Is(ir[2], "bigint") -> Scalar("int64")
                               [] Is(ir[2], "num") -> Scalar("double")
                               [] OTHER -> Scalar("string"))
    [] ir[1] = "enum" -> ir
    [] ir[1] = "array" -> <<"repeated", mapIRToProtoType(wireFieldType(ir[2]), f)>>
    [] ir[1] = "record" -> <<"map", mapIRToProtoType(wireFieldType(ir[2]), f)>>
    [] ir[1] = "object" /\ ir[2] # "" -> Message(ir[2])
    [] ir[1] = "ref" -> Message(ir[2])
    [] ir[1] \in {"object", "intersection"} -> Scalar("bytes")
    [] OTHER -> Scalar("string")

(* The entries of a message, in the order of their numbers: <<field, type,     *)
(* number>>, the variants of a oneof under the name of the oneof.          *)
entriesOf(p) ==
  LET union == oneofFor(typeOf(p))
  IN IF union = NoType
     THEN <<<<nameOf(p), mapIRToProtoType(wireFieldType(typeOf(p)), format(p)), fieldNumber(p)>>>>
     ELSE [i \in 1..Len(union[2]) |-> <<nameOf(p), mapIRToProtoType(union[2][i], format(p)), union[3][i]>>]
protoTypeDefs(m) == LET each(fields) == concat([i \in 1..Len(fields) |-> entriesOf(fields[i])]) IN each(fieldsOf(m))

(* A named type beats the ref that stands for it. *)
collectProtoNamedTypes(name, root) == resolve(root, Ref(name))

protoFieldBlocker(root) ==
  \E t \in {t \in nodes(root) : flattenObjectProperties(t) # <<>>} :
    LET props == flattenObjectProperties(t)
    IN \E i \in 1..Len(props) :
         LET oneof == oneofFor(typeOf(props[i]))
         IN \/ nestedUnionBlocker(props[i])
            \/ oneof # NoType /\ oneof[3] = <<>>
            \/ oneof = NoType /\ fieldNumber(props[i]) = None

(* Repeated and map fields are of scalars, enums and messages: what is printed    *)
(* for an array of arrays no protobuf compiler takes.                      *)
compiles(root) ==
  \A t \in {t \in nodes(root) : flattenObjectProperties(t) # <<>>} :
    LET plain(defs) == \A i \in 1..Len(defs) : defs[i][2][1] \in {"repeated", "map"} =>
                                               defs[i][2][2][1] \notin {"repeated", "map"}
    IN plain(protoTypeDefs(t))

----
(* A reader of the schema *)

RECURSIVE records(_)
records(cells) ==
  IF cells = <<>> THEN <<>>
  ELSE LET next == readVarint(cells, 1)
           wire == next[1] % 8
           end == skipField(wire, cells, next[2])
           payload == IF wire = 2 THEN readDelimited(cells, next[2])[1] ELSE sub(cells, next[2], end)
       IN <<<<next[1] \div 8, wire, payload>>>> \o records(sub(cells, end, Len(cells) + 1))

wireOfType(type) ==
  IF type[1] = "enum" THEN 0 ELSE IF type[1] = "message" THEN 2 ELSE wireType(type[2])

(* Every number is its halves, whatever type JavaScript gives it. *)
readAs(type, cells) ==
  IF type[1] = "enum" THEN Whole(readVarint64(cells, 1)[1])
  ELSE CASE type[2] = "string" -> Str(cells)
         [] type[2] = "bytes" -> Bytes(cells)
         [] type[2] = "boolean" -> Bool(readVarint(cells, 1)[1] # 0)
         [] type[2] = "uint64" -> Whole(asUintN(Two64, readVarint64(cells, 1)[1]))
         [] type[2] \in {"float", "double"} -> Num(readNumeric(type[2], cells, 1)[1])
         [] OTHER -> Whole(readNumeric(type[2], cells, 1)[1])

RECURSIVE readMessage(_, _, _), readPackedAs(_, _), readOne(_, _, _)
readPackedAs(type, cells) ==
  IF cells = <<>> THEN <<>>
  ELSE LET end == skipField(wireOfType(type), cells, 1)
       IN <<readAs(type, sub(cells, 1, end))>> \o readPackedAs(type, sub(cells, end, Len(cells) + 1))

readOne(type, cells, root) ==
  IF type[1] = "message" THEN readMessage(collectProtoNamedTypes(type[2], root), cells, root)
  ELSE readAs(type, cells)

readField(type, payloads, root) ==
  LET last == payloads[Len(payloads)]
      each(read(_)) == concat([i \in 1..Len(payloads) |-> read(payloads[i])])
      one(r) == <<readOne(type[2], r[3], root)>>
      packed(r) == IF r[2] = 2 /\ wireOfType(type[2]) # 2 THEN readPackedAs(type[2], r[3]) ELSE one(r)
      entry(r) == LET parts == records(r[3])
                      part(n) == parts[CHOOSE i \in 1..Len(parts) : parts[i][1] = n][3]
                  IN <<<<keyOf(part(1)), readOne(type[2], part(2), root)>>>>
  IN CASE type[1] = "repeated" -> Arr(each(packed))
       [] type[1] = "map" -> Obj(each(entry))
       [] OTHER -> readOne(type, last[3], root)

readMessage(m, cells, root) ==
  LET all == records(cells)
      payloads(e) == SelectSeq(all, LAMBDA r : r[1] = e[3])
      each(present) == Obj([i \in 1..Len(present) |->
                              <<present[i][1], readField(present[i][2], payloads(present[i]), root)>>])
  IN each(SelectSeq(protoTypeDefs(m), LAMBDA e : payloads(e) # <<>>))
====
