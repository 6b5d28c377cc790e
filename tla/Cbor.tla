---- MODULE Cbor ----
(***************************************************************************)
(* The CBOR codec generateCborCode writes (src/src/generators/cbor.ts),    *)
(* which looks at values and at no type. An initial byte is the cell       *)
(* <<major, additional information>>; an argument below Inline is in it,   *)
(* one below Two32 takes one cell (additional information 26), any other   *)
(* two (27).                                                               *)
(***************************************************************************)
EXTENDS Varint

Inline == 3
Fail == <<"fail">>

head(major, n) ==
  IF n < Inline THEN <<<<major, n>>>>
  ELSE IF n < Two32 THEN <<<<major, 26>>>> \o fixed32(n)
  ELSE <<<<major, 27>>>> \o fixed64(n)

RECURSIVE bigMagnitudeBytes(_), magnitude(_), encodeVal(_)
bigMagnitudeBytes(m) == IF m = 0 THEN <<>> ELSE Append(bigMagnitudeBytes(m \div (2 * Radix)), <<m % (2 * Radix)>>)
magnitude(cells) == IF cells = <<>> THEN 0
                    ELSE 2 * Radix * magnitude(SubSeq(cells, 1, Len(cells) - 1)) + byte(cells, Len(cells))

encodeText(cells) == head(3, Len(cells)) \o cells

encodeVal(v) ==
  CASE Is(v, "null") -> <<<<7, 22>>>>
    [] Is(v, "undefined") -> <<<<7, 23>>>>
    [] Is(v, "bool") -> <<<<7, IF v[2] THEN 21 ELSE 20>>>>
    [] Is(v, "num") ->
         IF v[2] % 2 = 0 /\ abs(trunc(v[2])) <= Safe
         THEN IF v[2] >= 0 THEN head(0, trunc(v[2])) ELSE head(1, -1 - trunc(v[2]))
         ELSE <<<<7, 27>>>> \o fixed64(v[2])
    [] Is(v, "bigint") ->
         LET size == IF v[2] < 0 THEN -1 - v[2] ELSE v[2]
             bytes == bigMagnitudeBytes(size)
         IN IF size < Two64 THEN head(IF v[2] < 0 THEN 1 ELSE 0, size)
            ELSE <<<<6, IF v[2] < 0 THEN 3 ELSE 2>>>> \o head(2, Len(bytes)) \o bytes
    [] Is(v, "string") -> encodeText(v[2])
    [] Is(v, "bytes") -> head(2, Len(v[2])) \o v[2]
    [] Is(v, "date") -> <<<<6, 0>>>> \o encodeText(<<Text(v)>>)
    [] Is(v, "array") -> head(4, Len(v[2])) \o concat([i \in 1..Len(v[2]) |-> encodeVal(v[2][i])])
    [] OTHER -> head(5, Len(v[2]))
                \o concat([i \in 1..Len(v[2]) |-> encodeText(keyCells(v[2][i][1])) \o encodeVal(v[2][i][2])])

encodeCbor(v) == encodeVal(v)

----
(* Decoding. Every read is behind need(): past the end of the buffer it throws. *)

(* Only the first byte of a run is looked for. *)
need_First(buf, o, n) == o <= Len(buf)
need(buf, o, n) == o + n - 1 <= Len(buf)

(* <<argument, next offset>>, or Fail for the argument. *)
readArg(ai, buf, o) ==
  CASE ai < Inline -> <<ai, o>>
    [] ai = 26 /\ need(buf, o, 1) -> <<byte(buf, o), o + 1>>
    [] ai = 27 /\ need(buf, o, 2) -> <<readFixed64(buf, o), o + 2>>
    [] OTHER -> <<-1, o>>
integer(n, arg) == IF arg <= Safe THEN Whole(n) ELSE Big(n)

simple(ai, buf, o) ==
  CASE ai = 20 -> <<Bool(FALSE), o>>
    [] ai = 21 -> <<Bool(TRUE), o>>
    [] ai = 22 -> <<Null, o>>
    [] ai = 23 -> <<Undef, o>>
    [] ai = 27 /\ need(buf, o, 2) -> <<Num(asIntN(Two64, readFixed64(buf, o))), o + 2>>
    [] OTHER -> <<Fail, o>>

tagged(tag, inner) ==
  CASE Is(inner, "fail") -> Fail
    [] tag = 0 -> IF Is(inner, "string") /\ isText(inner[2]) THEN inner[2][1][2] ELSE Date(0)
    [] tag = 2 -> Big(magnitude(inner[2]))
    [] tag = 3 -> Big(-1 - magnitude(inner[2]))
    [] OTHER -> inner

RECURSIVE decodeItem(_, _), readItems(_, _, _, _)
(* The next n items, as a sequence, or Fail. *)
readItems(buf, o, n, items) ==
  IF n = 0 THEN <<items, o>>
  ELSE LET item == decodeItem(buf, o)
       IN IF Is(item[1], "fail") THEN item ELSE readItems(buf, item[2], n - 1, Append(items, item[1]))

decodeItem(buf, o) ==
  LET major == buf[o][1]
      arg == readArg(buf[o][2], buf, o + 1)
      run == sub(buf, arg[2], arg[2] + arg[1])
      items == readItems(buf, arg[2], IF major = 5 THEN 2 * arg[1] ELSE arg[1], <<>>)
      inner == decodeItem(buf, arg[2])
  IN CASE ~need(buf, o, 1) -> <<Fail, o>>
       [] need(buf, o, 1) /\ major = 7 -> simple(buf[o][2], buf, o + 1)
       [] need(buf, o, 1) /\ major # 7 /\ arg[1] = -1 -> <<Fail, o>>
       [] OTHER ->
            CASE major = 0 -> <<integer(arg[1], arg[1]), arg[2]>>
              [] major = 1 -> <<integer(-1 - arg[1], arg[1]), arg[2]>>
              [] major \in {2, 3} ->
                   IF ~need(buf, arg[2], arg[1]) THEN <<Fail, o>>
                   ELSE <<IF major = 2 THEN Bytes(run) ELSE Str(run), arg[2] + arg[1]>>
              [] major = 4 -> IF items[1] = Fail THEN items ELSE <<Arr(items[1]), items[2]>>
              [] major = 5 ->
                   IF items[1] = Fail THEN items
                   ELSE <<Obj([i \in 1..arg[1] |-> <<keyOf(items[1][2 * i - 1][2]), items[1][2 * i]>>]), items[2]>>
              [] OTHER -> <<tagged(arg[1], inner[1]), inner[2]>>

decodeCbor(buf) == decodeItem(buf, 1)[1]
====
