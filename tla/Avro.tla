---- MODULE Avro ----
(***************************************************************************)
(* The avro codec generateAvroCode writes for a type, the schema           *)
(* generateAvroSchemaCode prints for it (src/src/generators/avro.ts), and  *)
(* a reader that knows nothing but the schema and the avro encoding.       *)
(***************************************************************************)
EXTENDS Varint

(* unwrapNullable: <<nullable, inner>>. *)
nullable(ir) == ir[1] = "union" /\ Len(meaningful(ir)) = 1 /\ Len(ir[2]) > 1
inner(ir) == IF nullable(ir) THEN meaningful(ir)[1] ELSE ir

narrowFormats == {"int32", "sint32", "fixed32", "sfixed32", "int8", "uint8", "int16", "uint16"}
avroFormat(f, default) ==
  CASE f \in narrowFormats -> "int"
    [] f \in IntegerFormats \ narrowFormats -> "long"
    [] f \in {"float", "double"} -> f
    [] OTHER -> default

avroPrimitiveFor(ir, f) ==
  CASE ir[1] # "primitive" -> "none"
    [] ir[2] = "string" -> IF f \in {"byte", "binary"} THEN "bytes" ELSE "string"
    [] ir[2] \in {"boolean", "bytes"} -> ir[2]
    [] ir[2] = "date" -> "long"
    [] ir[2] = "bigint" -> avroFormat(f, "long")
    [] ir[2] = "number" -> avroFormat(f, "double")
    [] ir[2] \in {"null", "undefined", "void"} -> "null"
    [] OTHER -> "none"

(* A literal travels by the kind of its value. *)
primitiveOf(ir, f) ==
  IF ir[1] # "literal" THEN avroPrimitiveFor(ir, f)
  ELSE CASE Is(ir[2], "string") -> "string"
         [] Is(ir[2], "bool") -> "boolean"
         [] Is(ir[2], "bigint") -> "long"
         [] OTHER -> "double"

(* A ref is followed unless it leads back into a type still being inlined. *)
resolveForEmit(ir, root, emitting) == IF resolve(root, ir) \in emitting THEN ir ELSE resolve(root, ir)

(* An optional property is its type, or null. *)
carried(p) == IF optional(p) THEN Union(<<Prim("undefined"), inner(typeOf(p))>>) ELSE typeOf(p)

----
writeLong(v) == groups(zigZag(toInteger(v)))
readLong(buf, o) == LET plain(r) == <<unZigZag(r[1]), r[2]>> IN plain(readVarint(buf, o))
writeIndex(n) == groups(IF n < 0 THEN -2 * n - 1 ELSE 2 * n)
writeCells(cells) == writeIndex(Len(cells)) \o cells
readCells(buf, o) == LET of(len) == <<sub(buf, len[2], len[2] + len[1]), len[2] + len[1]>> IN of(readLong(buf, o))

writePrimitive(primitive, v) ==
  CASE primitive = "null" -> <<>>
    [] primitive = "boolean" -> <<<<IF v = Bool(TRUE) THEN 1 ELSE 0>>>>
    [] primitive \in {"int", "long"} -> IF Is(v, "date") THEN groups(zigZag(v[2])) ELSE writeLong(v)
    [] primitive = "float" -> fixed32(fround(halvesOf(v)))
    [] primitive = "double" -> fixed64(halvesOf(v))
    [] primitive = "string" -> writeCells(IF Is(v, "string") THEN v[2] ELSE <<Text(v)>>)
    [] OTHER -> writeCells(IF Is(v, "bytes") THEN v[2] ELSE <<>>)

(* The JavaScript type of the field decides what an integer comes back as. *)
readPrimitive(primitive, ir, buf, o) ==
  LET n == readLong(buf, o)  cells == readCells(buf, o)
      big == isPrim(ir, "bigint") \/ ir[1] = "literal"
  IN CASE primitive = "null" -> <<Null, o>>
       [] primitive = "boolean" -> <<Bool(byte(buf, o) # 0), o + 1>>
       [] primitive \in {"int", "long"} ->
            <<IF isPrim(ir, "date") THEN Date(n[1]) ELSE IF big THEN Big(n[1]) ELSE Whole(round(n[1])), n[2]>>
       [] primitive = "float" -> <<Num(asIntN(Two32, byte(buf, o))), o + 1>>
       [] primitive = "double" -> <<Num(asIntN(Two64, readFixed64(buf, o))), o + 2>>
       [] primitive = "string" -> <<Str(cells[1]), cells[2]>>
       [] OTHER -> <<Bytes(cells[1]), cells[2]>>

RECURSIVE emitEncode(_, _, _, _, _)
(* The last block is not followed by an empty one. *)
block_NoEnd(items) == IF items = <<>> THEN writeIndex(0) ELSE writeIndex(Len(items)) \o concat(items)
(* Arrays and maps are one block of items and an empty block. *)
block(items) == IF items = <<>> THEN writeIndex(0)
                ELSE writeIndex(Len(items)) \o concat(items) \o writeIndex(0)

emitEncode(ir, v, f, root, emitting) ==
  LET resolved == resolveForEmit(ir, root, emitting)
      t == inner(resolved)
      props == flattenObjectProperties(t)
      item(x) == emitEncode(t[2], x, "", root, emitting)
      indices == {i \in 1..Len(t[2]) : t[2][i][2] = v}
  IN CASE nullable(resolved) ->
            IF isAbsent(v) THEN writeIndex(0) ELSE writeIndex(1) \o emitEncode(t, v, f, root, emitting)
       [] isPrim(resolved, "date") /\ ~Is(v, "date") -> <<Threw>>
       [] primitiveOf(resolved, f) # "none" -> writePrimitive(primitiveOf(resolved, f), v)
       [] resolved[1] = "enum" -> writeIndex(IF indices = {} THEN -1 ELSE (CHOOSE i \in indices : TRUE) - 1)
       [] resolved[1] = "array" -> block(IF Is(v, "array") THEN [i \in 1..Len(v[2]) |-> item(v[2][i])] ELSE <<>>)
       [] resolved[1] = "record" ->
            block(IF isAbsent(v) THEN <<>>
                  ELSE [i \in 1..Len(v[2]) |-> writeCells(keyCells(v[2][i][1])) \o item(v[2][i][2])])
       [] resolved[1] \in {"object", "intersection"} ->
            IF isAbsent(v) THEN <<Threw>>
            ELSE concat([i \in 1..Len(props) |->
                   emitEncode(carried(props[i]), get(v, nameOf(props[i])), format(props[i]), root, emitting \cup {t})])
       [] OTHER -> writeCells(stringify(v))

RECURSIVE emitDecode(_, _, _, _, _, _), readBlocks(_, _, _, _, _, _), readFields(_, _, _, _, _, _)
(* Blocks of items until an empty one; a negative count has a size behind it. *)
readBlocks(t, buf, o, root, emitting, items) ==
  LET count == readLong(buf, o)
      n == abs(count[1])
      start == IF count[1] < 0 THEN readLong(buf, count[2])[2] ELSE count[2]
      item(at) == emitDecode(t[2], "", buf, at, root, emitting)
      under(key, value) == <<<<key, value[1]>>, value[2]>>
      entry(key) == under(keyOf(key[1]), item(key[2]))
      append(done, read) == <<Append(done[1], read[1]), read[2]>>
      one(at) == IF t[1] = "array" THEN item(at) ELSE entry(readCells(buf, at))
      upTo[i \in 0..n] == IF i = 0 THEN <<items, start>> ELSE append(upTo[i - 1], one(upTo[i - 1][2]))
      after(read) == readBlocks(t, buf, read[2], root, emitting, read[1])
  IN IF n = 0 THEN <<items, count[2]>> ELSE after(upTo[n])

readFields(props, buf, o, root, emitting, entries) ==
  LET after(p, read) == readFields(Tail(props), buf, read[2], root, emitting, Append(entries, <<nameOf(p), read[1]>>))
      field(p) == after(p, emitDecode(carried(p), format(p), buf, o, root, emitting))
  IN IF props = <<>> THEN <<Obj(entries), o>> ELSE field(Head(props))

emitDecode(ir, f, buf, o, root, emitting) ==
  LET resolved == resolveForEmit(ir, root, emitting)
      t == inner(resolved)
      index == readLong(buf, o)
      cells == readCells(buf, o)
      whole(items) == <<IF resolved[1] = "array" THEN Arr(items[1]) ELSE Obj(items[1]), items[2]>>
  IN CASE nullable(resolved) ->
            IF index[1] = 0 THEN <<Null, index[2]>> ELSE emitDecode(t, f, buf, index[2], root, emitting)
       [] primitiveOf(resolved, f) # "none" -> readPrimitive(primitiveOf(resolved, f), resolved, buf, o)
       [] resolved[1] = "enum" ->
            <<IF index[1] + 1 \in 1..Len(resolved[2]) THEN resolved[2][index[1] + 1][2] ELSE Undef, index[2]>>
       [] resolved[1] \in {"array", "record"} -> whole(readBlocks(resolved, buf, o, root, emitting, <<>>))
       [] resolved[1] \in {"object", "intersection"} ->
            readFields(flattenObjectProperties(resolved), buf, o, root, emitting \cup {resolved}, <<>>)
       [] OTHER -> <<parse(cells[1]), cells[2]>>

encodeAvro(root, v) == emitEncode(root, v, "", root, {})
decodeAvro(root, buf) == emitDecode(root, "", buf, 1, root, {})[1]

(* -------------------------------- schema -------------------------------- *)

(* A logical type, which only the schema knows of. *)
avroLogicalFor(ir, f) ==
  CASE isPrim(ir, "date") -> "long"
    [] isPrim(ir, "string") /\ f = "date-time" -> "long"
    [] isPrim(ir, "string") /\ f \in {"date", "time"} -> "int"
    [] OTHER -> "none"

isRecordType(ir) == ir[1] \in {"object", "intersection"}
schemaNameOf(ir, fallback) == IF ir[1] = "object" /\ ir[2] # "" THEN ir[2] ELSE fallback
notNull(p) == IF optional(p) THEN inner(typeOf(p)) ELSE typeOf(p)

(* Where a record or an enum stands in a schema only its name is known here:    *)
(* what the name means is what it was first defined as.                    *)
RECURSIVE irToAvroSchema(_, _, _, _)
irToAvroSchema(ir, f, fallback, root) ==
  LET resolved == resolve(root, ir)
      t == inner(resolved)
      again(type) == irToAvroSchema(type, "", fallback, root)
  IN CASE nullable(resolved) -> <<"nullable", irToAvroSchema(t, f, fallback, root)>>
       [] ~nullable(resolved) /\ avroLogicalFor(t, f) # "none" -> <<avroLogicalFor(t, f)>>
       [] ~nullable(resolved) /\ avroLogicalFor(t, f) = "none" /\ primitiveOf(t, f) # "none" -> <<primitiveOf(t, f)>>
       [] isRecordType(t) \/ t[1] = "enum" -> <<"named", schemaNameOf(t, fallback)>>
       [] t[1] \in {"array", "record"} -> <<t[1], again(t[2])>>
       [] t[1] = "union" -> <<"branches", [i \in 1..Len(t[2]) |-> again(t[2][i])]>>
       [] OTHER -> <<"string">>

fieldSchema(p, root) ==
  LET schema == irToAvroSchema(notNull(p), format(p), nameOf(p), root)
  IN IF optional(p) THEN <<"nullable", schema>> ELSE schema

(* ctx.defined: <<name, type>> for each record and enum, in the order of their  *)
(* first definitions, in which a name is defined once.                     *)
RECURSIVE definitions(_, _, _, _)
definitions(ir, fallback, defined, root) ==
  LET t == inner(resolve(root, ir))
      name == schemaNameOf(t, fallback)
      known == \E i \in 1..Len(defined) : defined[i][1] = name
      props == flattenObjectProperties(t)
      upTo[i \in 0..Len(props)] ==
        IF i = 0 THEN Append(defined, <<name, t>>)
        ELSE definitions(notNull(props[i]), nameOf(props[i]), upTo[i - 1], root)
      branches[i \in 0..(IF t[1] = "union" THEN Len(t[2]) ELSE 0)] ==
        IF i = 0 THEN defined ELSE definitions(t[2][i], fallback, branches[i - 1], root)
  IN CASE t[1] = "enum" -> IF known THEN defined ELSE Append(defined, <<name, t>>)
       [] isRecordType(t) -> IF known THEN defined ELSE upTo[Len(props)]
       [] t[1] \in {"array", "record"} -> definitions(t[2], fallback, defined, root)
       [] t[1] = "union" -> branches[Len(t[2])]
       [] OTHER -> defined

----
(* A reader of the schema: <<value, next offset>>, every number as a number and *)
(* an enum's symbol as the member of that place.                           *)

definedAs(name, root) ==
  LET one(all) == (CHOOSE d \in {all[i] : i \in 1..Len(all)} : d[1] = name)[2]
  IN one(definitions(root, "M", <<>>, root))

RECURSIVE readBySchema(_, _, _, _), readNamed(_, _, _, _)
readNamed(type, buf, o, root) ==
  LET index == readLong(buf, o)
      props == flattenObjectProperties(type)
      with(p, done, item) == <<Append(done, <<nameOf(p), item[1]>>), item[2]>>
      whole(read) == <<Obj(read[1]), read[2]>>
      fields[i \in 0..Len(props)] ==
        IF i = 0 THEN <<<<>>, o>>
        ELSE with(props[i], fields[i - 1][1], readBySchema(fieldSchema(props[i], root), buf, fields[i - 1][2], root))
  IN IF type[1] = "enum"
     THEN <<IF index[1] + 1 \in 1..Len(type[2]) THEN type[2][index[1] + 1][2] ELSE Undef, index[2]>>
     ELSE whole(fields[Len(props)])

readBySchema(schema, buf, o, root) ==
  LET index == readLong(buf, o)
      cells == readCells(buf, o)
      size == abs(index[1])
      key(at) == IF schema[1] = "array" THEN <<<<>>, at>> ELSE readCells(buf, at)
      under(at, item) == <<IF schema[1] = "array" THEN item[1] ELSE <<keyOf(key(at)[1]), item[1]>>, item[2]>>
      one(at) == under(at, readBySchema(schema[2], buf, key(at)[2], root))
      append(done, item) == <<Append(done[1], item[1]), item[2]>>
      upTo[i \in 0..size] == IF i = 0 THEN <<<<>>, index[2]>> ELSE append(upTo[i - 1], one(upTo[i - 1][2]))
      whole(items) == IF schema[1] = "array" THEN Arr(items) ELSE Obj(items)
      end == IF size = 0 THEN index[2] ELSE readLong(buf, upTo[size][2])[2]
  IN CASE schema[1] = "nullable" ->
            IF index[1] = 0 THEN <<Null, index[2]>> ELSE readBySchema(schema[2], buf, index[2], root)
       [] schema[1] = "branches" -> readBySchema(schema[2][index[1] + 1], buf, index[2], root)
       [] schema[1] = "named" -> readNamed(definedAs(schema[2], root), buf, o, root)
       [] schema[1] \in {"array", "record"} -> <<whole(upTo[size][1]), end>>
       [] schema[1] = "int" -> <<Whole(asIntN(Two32, index[1])), index[2]>>
       [] schema[1] = "long" -> <<Whole(index[1]), index[2]>>
       [] schema[1] = "string" -> <<Str(cells[1]), cells[2]>>
       [] OTHER -> readPrimitive(schema[1], Prim("none"), buf, o)
====
