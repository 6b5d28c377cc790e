----------------------------- MODULE MCTypeGraph -----------------------------
EXTENDS TypeGraph
CONSTANTS A, B, none

MCNoName == none
MCNoValue == "-"
MCNames == {A, B, none}
MCValues == {"-", "string", "undefined", "x", "y"}

Leaf(kind, value) == [kind |-> kind, name |-> none, value |-> value, members |-> <<>>]
Type(kind, name, members) == [kind |-> kind, name |-> name, value |-> "-", members |-> members]
Is(types) == [i \in DOMAIN types |-> <<i, types[i]>>]
String == Leaf("primitive", "string")
Undefined == Leaf("primitive", "undefined")

\* What TypeScript can resolve: a union within a union is part of it, so a cycle
\* of types passes one that has members of its own, and there is one `string[]`.
IsResolved(types) ==
    \A t \in DOMAIN types :
        /\ types[t].kind = "union" => \A u \in Children(types, t) : types[u].kind # "union"
        /\ \A u \in DOMAIN types :
              types[t].kind \in {"array", "tuple", "union"} /\ types[t] = types[u] => t = u

\* Two types that name each other, themselves and two primitives in any way,
\* extracted twice.
Shapes(name) ==
    {Type("object", name, <<<<1, t>>, <<2, u>>>>) : t, u \in 1..4}
    \cup {Type("tuple", none, Is(<<t, u>>)) : t, u \in 1..4}
    \cup {Type(k, none, Is(<<t>>)) : k \in {"array", "record"}, t \in 1..4}
    \cup {Type("union", none, Is(s)) : s \in {<<3, 1>>, <<3, 2>>, <<3, 4>>, <<4, 2>>}}
Graphs == {g \in {<<s, t, String, Undefined>> : s \in Shapes(A) \cup Shapes(none), t \in Shapes(B)} : IsResolved(g)}
Twice == {<<g, g>> : g \in Graphs}

\* An inline type with three properties declared in any order, each of either
\* of two inline types: any two of them, one after the other.
Orders == {o \in [1..3 -> 1..3] : \A i, j \in 1..3 : o[i] = o[j] => i = j}
Inline(o, f) == <<Type("object", none, [i \in 1..3 |-> <<o[i], f[o[i]]>>]),
                  Type("object", none, <<<<1, 4>>>>), Type("object", none, <<<<1, 5>>>>),
                  String, Undefined>>
Inlines == {Inline(o, f) : o \in Orders, f \in [1..3 -> {2, 3}]}

\* Two inline types that name each other and themselves.
Linked == {<<Type("object", none, <<<<1, t>>, <<2, u>>>>), Type("object", none, <<<<1, v>>, <<2, 3>>>>),
             String, Undefined>> : t, u, v \in 1..4}

\* A union of two objects in either order, and one of the two again.
Swapped == {<<Type("object", none, <<<<1, 2>>, <<2, t>>>>), Type("union", none, Is(s)),
              Type("object", none, <<<<1, 5>>>>), Type("object", none, <<<<1, 6>>>>),
              String, Undefined>> : s \in {<<3, 4>>, <<4, 3>>}, t \in {3, 4}}

\* A string once or twice, two objects, and one of the two again.
Doubled == {<<Type("object", none, <<<<1, 4>>, <<2, s>>, <<3, 2>>, <<4, 3>>, <<5, t>>>>),
              Type("object", none, <<<<1, 4>>>>), Type("object", none, <<<<1, 5>>>>),
              String, Undefined, String>> : s \in {4, 6}, t \in {2, 3}}

Pairs == UNION {{<<p, q>> : p, q \in S} : S \in {Inlines, Linked, Swapped, Doubled}}

\* A union of two objects with two literal properties each, and before it one
\* of the two, or a primitive.
Tagged == {<<Type("object", A, <<<<1, first>>, <<2, 2>>>>),
             Type("union", none, Is(<<3, 4>>)),
             Type("object", none, <<<<1, p>>, <<2, q>>>>), Type("object", none, <<<<1, r>>, <<2, s>>>>),
             Leaf("literal", "x"), Leaf("literal", "y"), String>> :
               first \in {3, 7}, p, q, r, s \in 5..7}
Alone == {<<g>> : g \in Tagged}

\* A property declared as a NumberedUnion of two objects with one literal
\* each, by name, optional or not, before or after another property of one of
\* the objects, of an array of the same union, or of the same declaration.
Numbers == {<<<<1, 4>>, <<2, 5>>>>, <<<<2, 4>>, <<1, 5>>>>, <<<<1, 4>>, <<2, 4>>>>}
Original(entries) == {Type("union", none, Is(<<4, 5, 9>>)), Type("numbered", none, entries)}
Beside(t) == {<<<<1, 2>>>>, <<<<1, 2>>, <<2, t>>>>, <<<<1, t>>, <<2, 2>>>>}
Declared(name, other) ==
    UNION {{<<Type("object", A, properties), Type("renumbered", none, <<<<1, 3>>>> \o entries), w,
              Type("object", name, <<<<1, 6>>>>), Type("object", none, <<<<1, 7>>>>),
              Leaf("literal", "x"), Leaf("literal", "y"), other, Undefined,
              Type("renumbered", none, <<<<1, 3>>>> \o entries)>> :
                w \in Original(entries), properties \in UNION {Beside(t) : t \in {4, 8, 10}}} : entries \in Numbers}
NumberedOnce ==
    {<<p>> : p \in UNION {Declared(name, Type("array", none, Is(<<3>>))) : name \in {B, none}}}

\* A NumberedUnion of two objects the first of which has a property declared
\* as this union, from the union, from the object or from an array of unions.
Recursive ==
    LET object == Type("object", A, <<<<1, 3>>>>)
        union(t) == Type("numbered", B, <<<<1, t>>, <<2, 4>>>>)
        again(w, t) == Type("renumbered", B, <<<<1, w>>, <<1, t>>, <<2, 4>>>>)
        second == Type("object", none, <<<<1, 6>>>>)
    IN  {<<<<union(2), object, again(1, 2), second, Undefined, String>>>>,
         <<<<object, union(1), again(2, 1), second, Undefined, String>>>>,
         <<<<Type("array", none, Is(<<2>>)), union(5), again(2, 5), second, object, String>>>>}

\* Two inline types with an optional NumberedUnion of an inline object, and of
\* a literal or not, that differ in the numbers or in what the object has, a
\* record that contains itself among others; or of two literals.
Variants ==
    {<<Type("object", none, <<<<1, 2>>>>), Type("renumbered", none, <<<<1, 3>>>> \o entries),
       Type("union", none, Is(IF Len(entries) = 1 THEN <<7, 4>> ELSE <<5, 7, 4>>)), Type("object", none, <<<<1, t>>>>), Leaf("literal", "x"),
       String, Undefined, Type("record", none, Is(<<8>>))>> :
         entries \in {<<<<1, 4>>>>, <<<<2, 4>>>>, <<<<1, 4>>, <<2, 5>>>>, <<<<2, 4>>, <<1, 5>>>>}, t \in {5, 6, 8}}
    \cup {<<Type("object", none, <<<<1, 2>>>>), Type("renumbered", none, <<<<1, 3>>, <<1, 4>>, <<2, 5>>>>), w,
            Leaf("literal", "x"), Leaf("literal", "y"), Undefined>> :
              w \in {Type("union", none, Is(<<4, 5, 6>>)), Type("numbered", none, <<<<1, 4>>, <<2, 5>>>>)}}

MCBuilds == Twice \cup Pairs \cup Alone \cup NumberedOnce \cup Recursive \cup {<<p, q>> : p, q \in Variants}
=============================================================================
