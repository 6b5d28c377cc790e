---- MODULE MCCodecs ----
EXTENDS Codecs

(* ------------------------------- the types ------------------------------ *)

S(type, f) == <<Prim(type), f>>
Carriers ==
  {S("string", ""), S("string", "byte"), S("string", "date-time"), S("boolean", ""), S("bytes", ""), S("date", ""),
   S("bigint", ""), S("string", "email"), S("string", "uri")}
  \cup {S("number", f) : f \in {"", "float", "double-int"}}
  \cup {S(t, f) : t \in {"number", "bigint"},
                  f \in {"int8", "uint8", "int16", "uint16", "sf-integer", "int32", "uint32", "sint32", "fixed32", "int64", "uint64", "sint64", "fixed64"}}

Number == Prim("number")
String == Prim("string")
Colour == Enum(<<<<"Red", Whole(0)>>, <<"Blue", Whole(2)>>>>)
Signed == Enum(<<<<"None", Whole(0)>>, <<"Below", Whole(-1)>>>>)
Size == Enum(<<<<"S", Str(<<<<1>>>>)>>, <<"L", Str(<<<<6>>>>)>>>>)
Kind(n) == Lit(Str(<<<<n>>>>))
Or(t, absence) == Union(<<t, Prim(absence)>>)

Point == Object("Point", <<Formatted("x", Number, 1, "int32"), Optional("y", Prim("bigint"), 2)>>)
Named == Object("Named", <<Prop("n", String, 4)>>)
Timestamp == Object("Timestamp", <<Formatted("seconds", Prim("bigint"), 1, "int64"), Formatted("nanos", Number, 2, "int32")>>)
Unnamed == Object("", <<Prop("p", Prim("boolean"), 1)>>)
Unnamed2 == Object("", <<Prop("q", String, 1)>>)
Cat == Object("Cat", <<Prop("kind", Kind(1), 1), Prop("lives", Prim("boolean"), 2)>>)
Dog == Object("Dog", <<Prop("kind", Kind(2), 1), Prop("name", Prim("boolean"), 2)>>)

Compounds ==
  {Kind(5), Lit(Big(3)), Lit(Whole(3)), Union(<<Kind(1), Kind(2)>>), Union(<<Lit(Whole(1)), Lit(Whole(2))>>), Colour, Signed, Size,
   Or(String, "null"), Or(Number, "undefined"), Or(Prim("date"), "null"), Or(Prim("bytes"), "undefined"), Or(Point, "null"),
   ArrayOf(String), ArrayOf(Number), ArrayOf(Prim("bigint")), ArrayOf(Prim("boolean")), ArrayOf(Prim("bytes")), ArrayOf(Colour),
   ArrayOf(Prim("date")), ArrayOf(ArrayOf(Prim("boolean"))), ArrayOf(ArrayOf(Prim("date"))), ArrayOf(Point), ArrayOf(Named),
   RecordOf(String), RecordOf(Prim("boolean")), RecordOf(Prim("date")), RecordOf(Prim("bigint")), RecordOf(Named), RecordOf(Point),
   RecordOf(ArrayOf(Prim("boolean"))), Point, Named, Timestamp, Unnamed, Cat,
   TupleOf(<<<<Prim("boolean"), FALSE>>, <<String, FALSE>>>>), Union(<<String, Prim("boolean")>>), Union(<<Cat, Dog>>),
   Intersection(<<Named, Cat>>)}
Oneofs ==
  {NumberedUnion(<<String, Prim("boolean")>>, <<1, 2>>), NumberedUnion(<<Named, Point>>, <<2, 5>>),
   NumberedUnion(<<Prim("bytes"), Prim("undefined"), Prim("date")>>, <<4, 5>>),
   NumberedUnion(<<Prim("bigint"), Cat>>, <<4, 1>>), <<"union", <<Cat, Dog>>, <<1, 2>>, "kind">>}

Behind == Prop("z", Prim("boolean"), 3)
Of(p) == Object("M", <<p, Behind>>)
Roots ==
  {Of(Formatted("a", c[1], 1, c[2])) : c \in Carriers}
  \cup {Of(Formatted("a", Lit(Whole(3)), 1, "int32")), Of(Formatted("a", ArrayOf(Number), 1, "int32"))}
  \cup {Of(Prop("a", t, 1)) : t \in Compounds}
  \cup {Of(Optional("a", t, 1)) : t \in {Prim("date"), Point}}
  \cup {Of(Optional("a", Or(t, "undefined"), 1)) : t \in {String, Prim("bytes"), Prim("bigint"), Point, ArrayOf(Point)}}
  \cup {Of(<<"a", Or(Number, "undefined"), TRUE, 1, "int32">>)}
  \cup {Of(Optional("a", t, None)) : t \in Oneofs}
  \cup {Object("M", <<Prop("a", RecordOf(Named), 1), Prop("b", Named, 2)>>),
        Object("M", <<Prop("a", Named, 1), Prop("b", ArrayOf(Ref("Named")), 2), Behind>>),
        Object("M", <<Prop("a", Number, 1), Optional("next", Ref("M"), 9)>>),
        Object("M", <<Prop("a", ArrayOf(Object("Row", <<Prop("v", ArrayOf(Prim("date")), 1)>>)), 1)>>),
        Object("M", <<Prop("x", Object("X", <<Prop("v", Unnamed, 1)>>), 1), Prop("y", Object("Y", <<Prop("v", Unnamed2, 1)>>), 2)>>),
        Intersection(<<Named, Object("Q", <<Prop("q", Prim("boolean"), 2)>>)>>),
        Intersection(<<Object("P", <<Prop("n", Number, 1)>>), Object("Q", <<Prop("n", Number, 2)>>)>>)}

(* ------------------------------- the values ----------------------------- *)

Ends(f) == LET r == rangeOf(f) IN {0, 1, r[1], r[2]}
RECURSIVE valuesOf(_, _)
valuesOf(ir, f) ==
  CASE isPrim(ir, "string") /\ f \in DOMAIN STRING_FORMATS -> STRING_FORMATS[f]
    [] isPrim(ir, "string") /\ f \notin DOMAIN STRING_FORMATS -> {Str(<<>>), Str(<<<<1>>, <<6>>>>), Str(<<<<0>>, <<5>>>>), Str(<<Text(Big(20))>>)}
    [] isPrim(ir, "boolean") -> {Bool(TRUE), Bool(FALSE)}
    [] isPrim(ir, "bytes") -> {Bytes(<<>>), Bytes(<<<<1>>, <<0>>>>), Bytes(<<<<5>>>>)}
    [] isPrim(ir, "date") -> {Date(0), Date(-3), Date(9)}
    [] isPrim(ir, "number") ->
         (CASE f \in IntegerFormats -> {Whole(n) : n \in {m \in Ends(f) : abs(m) <= Safe}} \cup {Whole(2)}
            [] f = "float" -> {Num(0), Num(-4), Num(2), Num(3)}
            [] OTHER -> {Num(0), Num(7), Num(-5), Whole(Safe), Whole(Safe + 1)})
    [] isPrim(ir, "bigint") -> {Big(n) : n \in IF f = "" THEN {0, -1} \cup Ends("int64") ELSE Ends(f)}
    [] isAbsence(ir) -> {<<ir[2]>>}
    [] ir[1] = "literal" -> {ir[2]}
    [] ir[1] = "enum" -> {ir[2][i][2] : i \in 1..Len(ir[2])}
    [] ir[1] = "array" -> LET items == valuesOf(ir[2], f)
                            IN {Arr(<<>>)} \cup {Arr(<<a, CHOOSE b \in items : TRUE>>) : a \in items}
    [] ir[1] = "record" -> LET items == valuesOf(ir[2], f)
                             IN {Obj(<<>>)} \cup {Obj(<<<<"k", CHOOSE b \in items : TRUE>>, <<"l", a>>>>) : a \in items}
    [] ir[1] = "tuple" -> {Arr(<<a, b>>) : a \in valuesOf(ir[2][1][1], ""), b \in valuesOf(ir[2][2][1], "")}
    [] ir[1] = "union" -> UNION {valuesOf(ir[2][i], f) : i \in 1..Len(ir[2])}
    [] ir[1] \in {"object", "intersection"} ->
         LET props == flattenObjectProperties(ir)
             choices(p) == {<<<<nameOf(p), v>>>> : v \in valuesOf(typeOf(p), format(p))}
                           \cup (IF optional(p) THEN {<<>>} ELSE {})
             upTo[i \in 0..Len(props)] ==
               IF i = 0 THEN {<<>>} ELSE {a \o b : a \in upTo[i - 1], b \in choices(props[i])}
         IN {Obj(entries) : entries \in upTo[Len(props)]}
    [] ir = Ref("M") -> {Obj(<<<<"a", Num(7)>>, <<"next", Obj(<<<<"a", Num(0)>>>>)>>>>)}
    [] OTHER -> {Obj(<<<<"n", Str(<<<<6>>>>)>>>>)}

(* Strings an Erlang text has to escape, or takes for another value. *)
Odd == {<<Quote, Newline, Apostrophe>>, <<Backslash, LetterN, Quote>>, <<<<1>>, Backslash>>, <<Colon>>, <<Colon, Apostrophe, Newline>>,
        <<Colon, Backslash, <<1>>>>, <<Colon, Text(Bool(TRUE))>>, <<Colon, Text(Null)>>}
OddInputs ==
  {<<Of(Prop("a", ArrayOf(String), 1)), Obj(<<<<"a", Arr(<<Str(s), Str(<<>>)>>)>>, <<"z", Bool(TRUE)>>>>)>> : s \in Odd}

MCInputs == OddInputs \cup UNION {{<<t, v>> : v \in {v \in valuesOf(t, "") : is(t, v)}} : t \in Roots}
====
