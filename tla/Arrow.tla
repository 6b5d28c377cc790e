---- MODULE Arrow ----
(***************************************************************************)
(* The arrow codec generateArrowCode writes for a type                     *)
(* (src/src/generators/arrow.ts). A value is a sequence of rows, written   *)
(* as a body of columns: the schema and the framing of the record batch    *)
(* are templates apache-arrow made, so a batch is <<row count, buffers,    *)
(* body>>, a buffer being <<offset in the body, length>>. A byte has Bits  *)
(* bits in a bitmap and buffers start at multiples of Align, for 8 and 8.  *)
(***************************************************************************)
EXTENDS Varint

Bits == 2
Align == 2
NoLeaf == <<"none">>

(* LEAVES, by the names FORMAT_TO_ARROW gives the formats. *)
arrowOf(f, default) ==
  CASE f = "int8" -> <<"int", 8>>
    [] f = "uint8" -> <<"uint", 8>>
    [] f = "int16" -> <<"int", 16>>
    [] f = "uint16" -> <<"uint", 16>>
    [] f \in {"int32", "sint32", "sfixed32"} -> <<"int", 32>>
    [] f \in {"uint32", "fixed32"} -> <<"uint", 32>>
    [] f \in {"int64", "sint64", "sfixed64", "double-int", "sf-integer", "unixtime"} -> <<"int", 64>>
    [] f \in {"uint64", "fixed64"} -> <<"uint", 64>>
    [] f = "float" -> <<"float", 32>>
    [] f = "double" -> <<"float", 64>>
    [] f \in {"byte", "binary"} -> <<"binary", 32>>
    [] OTHER -> default

unwrapped(ir) ==
  IF ir[1] = "union" /\ Len(meaningful(ir)) = 1 THEN meaningful(ir)[1]
  ELSE IF ir[1] = "union" THEN <<"union", meaningful(ir), ir[3], ir[4]>> ELSE ir
collapseLiteral(ir) ==
  LET kinds == {ir[2][i][2][1] : i \in 1..Len(ir[2])}
  IN IF ir[1] # "union" \/ \E i \in 1..Len(ir[2]) : ir[2][i][1] # "literal" THEN ir
     ELSE CASE kinds = {"string"} -> Prim("string")
            [] kinds = {"num"} -> Prim("number")
            [] kinds = {"bigint"} -> Prim("bigint")
            [] kinds = {"bool"} -> Prim("boolean")
            [] OTHER -> ir
target(ir) == collapseLiteral(unwrapped(ir))

(* <<kind, width, JavaScript type of an integer>>. *)
leafFor(ir, f) ==
  LET type == CASE ir[1] = "enum" -> "enum"
                [] ir[1] = "literal" -> (CASE Is(ir[2], "num") -> "number"
                                           [] Is(ir[2], "bool") -> "boolean"
                                           [] OTHER -> ir[2][1])
                [] ir[1] = "primitive" -> ir[2]
                [] OTHER -> "none"
  IN CASE type = "enum" -> <<"utf8", 32, "">>
       [] type = "string" -> IF arrowOf(f, NoLeaf) = <<"binary", 32>> THEN <<"binary", 32, "">> ELSE <<"utf8", 32, "">>
       [] type = "boolean" -> <<"bool", 1, "">>
       [] type = "bytes" -> <<"binary", 32, "">>
       [] type = "date" -> <<"timestamp", 64, "">>
       [] type = "bigint" -> Append(arrowOf(f, <<"int", 64>>), "bigint")
       [] type = "number" -> Append(arrowOf(f, <<"float", 64>>), "number")
       [] OTHER -> NoLeaf

RECURSIVE arrowBlocker(_, _)
arrowBlocker(ir, f) ==
  LET t == target(ir)
      props == flattenObjectProperties(t)
  IN CASE leafFor(t, f) # NoLeaf -> FALSE
       [] t[1] \in {"array", "record"} -> arrowBlocker(t[2], f)
       [] t[1] \in {"object", "intersection"} ->
            \E i \in 1..Len(props) : arrowBlocker(typeOf(props[i]), format(props[i]))
       [] OTHER -> leafFor(t, f) = NoLeaf

columnsOf(ir) == flattenObjectProperties(unwrapped(ir))
arrowTypeBlocker(ir) ==
  \/ columnsOf(ir) = <<>>
  \/ \E p \in {columnsOf(ir)[i] : i \in 1..Len(columnsOf(ir))} : arrowBlocker(typeOf(p), format(p))
leafOf(p) == leafFor(target(typeOf(p)), format(p))
(* Nested columns have a schema and no codec: there is no sample for one. *)
sampleColumn(p) == leafOf(p) # NoLeaf
encodable(ir) == ~arrowTypeBlocker(ir) /\ \A i \in 1..Len(columnsOf(ir)) : sampleColumn(columnsOf(ir)[i])

----
(* Encoding *)

align(n) == Align * ((n + Align - 1) \div Align)
bitmap(on) ==
  [b \in 1..(Len(on) + Bits - 1) \div Bits |->
     <<(IF on[Bits * b - 1] THEN 1 ELSE 0) + (IF Bits * b <= Len(on) /\ on[Bits * b] THEN 2 ELSE 0)>>]

modulusOf(width) == CASE width = 8 -> Two8 [] width = 16 -> Two16 [] OTHER -> Two32
(* One value of a fixed-width column; what is absent is zero. *)
storeFixed(leaf, v) ==
  LET kind == leaf[1]  width == leaf[2]
      wide == IF Is(v, "date") THEN v[2] ELSE toInteger(v)
  IN CASE kind = "float" -> IF width = 32 THEN fixed32(fround(halvesOf(v))) ELSE fixed64(halvesOf(v))
       [] kind # "float" /\ width = 64 -> fixed64(wide)
       [] kind # "float" /\ width = 32 -> fixed32(toNumber(v))
       [] OTHER -> <<<<asUintN(modulusOf(width), toNumber(v))>>>>
emitValues(leaf, column) ==
  IF leaf[1] = "bool" THEN bitmap([i \in 1..Len(column) |-> column[i] = Bool(TRUE)])
  ELSE concat([i \in 1..Len(column) |-> storeFixed(leaf, column[i])])

(* Of a string in a Binary column new Uint8Array makes no byte of the string. *)
cellsOf(leaf, v) ==
  CASE isAbsent(v) -> <<>>
    [] Is(v, "string") /\ leaf[1] = "utf8" -> v[2]
    [] ~isAbsent(v) /\ leaf[1] = "utf8" /\ ~Is(v, "string") -> <<Text(v)>>
    [] OTHER -> IF Is(v, "bytes") THEN v[2] ELSE <<>>

variable(leaf) == leaf[1] \in {"utf8", "binary"}

(* The buffers of a column: validity, which is empty when nothing is null,     *)
(* then offsets where the width varies, then the values.                   *)
columnBuffers(leaf, column) ==
  LET present == [i \in 1..Len(column) |-> ~isAbsent(column[i])]
      validity == IF \A i \in 1..Len(column) : present[i] THEN <<>> ELSE bitmap(present)
      parts == [i \in 1..Len(column) |-> cellsOf(leaf, column[i])]
      offset[i \in 0..Len(column)] == IF i = 0 THEN 0 ELSE offset[i - 1] + Len(parts[i])
  IN IF variable(leaf)
     THEN <<validity, [i \in 1..Len(column) + 1 |-> <<offset[i - 1]>>], concat(parts)>>
     ELSE <<validity, emitValues(leaf, column)>>

(* The padding between buffers holds what the caller's buffer held. *)
Dirty == <<1>>
pad(cells) == cells \o [i \in 1..align(Len(cells)) - Len(cells) |-> Dirty]

encodeArrow(root, rows) ==
  LET props == columnsOf(root)
      column(p) == [i \in 1..Len(rows) |-> get(rows[i], nameOf(p))]
      batch(buffers) ==
        LET start[i \in 1..Len(buffers) + 1] == IF i = 1 THEN 0 ELSE align(start[i - 1] + Len(buffers[i - 1]))
        IN <<Len(rows),
             [i \in 1..Len(buffers) |-> <<start[i], Len(buffers[i])>>],
             concat([i \in 1..Len(buffers) |-> pad(buffers[i])])>>
  IN IF ~encodable(root) THEN <<Threw>>
     ELSE batch(concat([i \in 1..Len(props) |-> columnBuffers(leafOf(props[i]), column(props[i]))]))

----
(* Decoding *)

bit(buf, at, i) == LET b == byte(buf, at + 1 + ((i - 1) \div Bits))
                   IN IF i % Bits = 1 THEN b % 2 = 1 ELSE b >= 2

(* Value i of the values at this place. An integer of 64 bits is a bigint unless *)
(* its property is a number, a narrower one is always a number.            *)
readAt(leaf, buf, at, i) ==
  LET kind == leaf[1]  width == leaf[2]
      narrow == byte(buf, at + i)
      wide == readFixed64(buf, at + 2 * i - 1)
      int(n) == IF leaf[3] = "number" THEN Whole(round(n)) ELSE Big(n)
  IN CASE kind = "bool" -> Bool(bit(buf, at, i))
       [] kind = "timestamp" -> Date(asIntN(Two64, wide))
       [] kind = "float" -> IF width = 32 THEN Num(asIntN(Two32, narrow)) ELSE Num(asIntN(Two64, wide))
       [] kind = "uint" -> IF width = 64 THEN int(wide) ELSE Whole(narrow)
       [] width = 64 /\ kind = "int" -> int(asIntN(Two64, wide))
       [] OTHER -> Whole(asIntN(modulusOf(width), narrow))

emitDecodeColumn(leaf, slot, bufs, buf, i) ==
  LET validity == bufs[slot]
      valuesAt == bufs[slot + 1][1]
      run == SubSeq(buf, bufs[slot + 2][1] + byte(buf, valuesAt + i) + 1,
                    bufs[slot + 2][1] + byte(buf, valuesAt + i + 1))
  IN IF validity[2] # 0 /\ ~bit(buf, validity[1], i) THEN Null
     ELSE CASE leaf[1] = "utf8" -> Str(run)
            [] leaf[1] = "binary" -> Bytes(run)
            [] OTHER -> readAt(leaf, buf, valuesAt, i)

(* Offsets are forgotten. *)
slotOf_NoOffsets(props) == [i \in 1..Len(props) + 1 |-> 2 * i - 1]
(* Where the buffers of each column start. *)
slotOf(props) ==
  LET slot[i \in 1..Len(props) + 1] ==
        IF i = 1 THEN 1 ELSE slot[i - 1] + (IF variable(leafOf(props[i - 1])) THEN 3 ELSE 2)
  IN slot

decodeArrow(root, batch) ==
  LET props == columnsOf(root)
      value(p, i) == emitDecodeColumn(leafOf(props[p]), slotOf(props)[p], batch[2], batch[3], i)
  IN [i \in 1..batch[1] |-> Obj([p \in 1..Len(props) |-> <<nameOf(props[p]), value(p, i)>>])]
====
