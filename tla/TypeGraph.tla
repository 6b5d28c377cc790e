------------------------------ MODULE TypeGraph ------------------------------
(***************************************************************************)
(* From IR to keys: the walk, normalizeTypeIR and collectNamedTypes        *)
(* (ir/types.ts), getTypeKey (types.ts), and the references the two schema *)
(* generators print (generators/schema.ts, generators/openapi.ts), of the  *)
(* types a build extracts one after another (Extraction).                  *)
(***************************************************************************)
EXTENDS Extraction

VARIABLE registry   \* key -> the program its module was generated for

vars == <<extraction, registry>>

-----------------------------------------------------------------------------
(* Walks of the IR. *)

\* What is below each node: by way of none of the others, then of the first n.
below(ir) ==
    LET through[n \in 0..Len(ir)] ==
            IF n = 0 THEN [i \in DOMAIN ir |-> Children(ir, i)]
            ELSE LET fewer == through[n - 1]
                 IN  [i \in DOMAIN ir |-> IF n \in fewer[i] THEN fewer[i] \cup fewer[n] ELSE fewer[i]]
    IN  through[Len(ir)]

\* A walk that does not enter records.
walkTypeIR_NotRecords(ir) ==
    {1} \cup below([i \in DOMAIN ir |-> IF ir[i].kind = "record" THEN [ir[i] EXCEPT !.members = <<>>] ELSE ir[i]])[1]

\* The nodes walkTypeIR visits, in its order: ids are minted depth first, and
\* a ref is a leaf.
walkTypeIR(ir) == {1} \cup below(ir)[1]

\* A node that is below itself: walkTypeIR stops there, the recursions of
\* normalizeTypeIR and the generators do not.
isCyclic(ir) == LET b == below(ir) IN \E i \in {1} \cup b[1] : i \in b[i]

\* The id a second extraction continues from.
firstId_ProcessWide == Cardinality(DOMAIN registry)

\* Ids are counted afresh by every extraction.
firstId == 0

\* Every ref looks the same.
refKey_Kind(n) == 0

refKey(n) == IF n.kind = "ref" THEN firstId + n.target ELSE 0

\* The projection behind the structural hash.  Properties, members of unions
\* and of intersections are sorted: each is <<name, part>> or <<times, part>>.
\* Names are left out.
normalized(ir, i, parts) ==
    LET n == ir[i]
    IN  [kind   |-> n.kind,
         value  |-> n.value,
         target |-> refKey(n),
         discriminator |-> n.discriminator,
         parts  |-> IF n.kind \in {"union", "intersection"}
                    THEN {<<Cardinality({k \in DOMAIN parts : parts[k] = parts[j]}), parts[j]>> : j \in DOMAIN parts}
                    ELSE {<<n.members[j][1], parts[j]>> : j \in DOMAIN parts}]
normalizeTypeIR(ir) ==
    LET child[i \in DOMAIN ir] ==
            normalized(ir, i, [j \in DOMAIN ir[i].members |-> child[ir[i].members[j][2]]])
    IN  child[1]

\* A type with a symbol of its own is also known by its declaration.
getTypeKey(types, ir) == [digest |-> normalizeTypeIR(ir), declaration |-> types[1].name]

\* The first node of each name that is not a ref, or the ref.
collectNamedTypes(ir) ==
    LET walked == walkTypeIR(ir)
        of(name) == {i \in walked : ir[i].name = name}
        bodies(name) == {i \in of(name) : ir[i].kind # "ref"}
        least(S) == CHOOSE i \in S : \A j \in S : i <= j
    IN  [name \in {ir[i].name : i \in walked} \ {NoName} |->
            least(IF bodies(name) # {} THEN bodies(name) ELSE of(name))]

-----------------------------------------------------------------------------
(* The references of a schema document: by name, or by the id of a node. *)

ByName(name) == <<"name", name, 0>>
ById(id) == <<"id", NoName, id>>

\* irToOpenApiSchema of a component: what is named below it is a reference, and
\* ends the schema there.
openApiRefs(ir, i) ==
    LET inlined == [j \in DOMAIN ir |->
                      IF j # i /\ ir[j].name # NoName THEN [ir[j] EXCEPT !.members = <<>>] ELSE ir[j]]
        printed == below(inlined)[i]
    IN  {ByName(ir[j].name) : j \in {j \in printed : ir[j].name # NoName}}
        \cup {ById(ir[j].target) : j \in {j \in printed : ir[j].name = NoName /\ ir[j].kind = "ref"}}

\* components.schemas: every named node, and the root by the name it is given.
components(ir) == {1} \cup {collectNamedTypes(ir)[name] : name \in DOMAIN collectNamedTypes(ir)}

-----------------------------------------------------------------------------
(* A build. *)

Init == ExtractionInit /\ registry = <<>>

\* registerType: the module of a key is generated for the first that asks.
Register ==
    /\ Finish /\ ~isCyclic(nodes)
    /\ LET key == getTypeKey(program, nodes)
       IN  registry' = [k \in DOMAIN registry \cup {key} |-> IF k \in DOMAIN registry THEN registry[k] ELSE program]

\* getTypeKey does not come back: the stack overflows, transformSource throws.
Overflow == Finish /\ isCyclic(nodes) /\ UNCHANGED registry

Next ==
    \/ (Extract \/ Enter \/ Resight \/ Close \/ Widen \/ KeepNumbers \/ Renumber) /\ UNCHANGED registry
    \/ Register \/ Overflow

Spec == Init /\ [][Next]_vars

-----------------------------------------------------------------------------
(* Properties. *)

\* Two types are the same when no path of property names and positions tells
\* them apart: a bisimulation of their declarations relates them.
alike(p, t, q, u) == p[t].kind = q[u].kind /\ p[t].value = q[u].value
agree(p, t, q, u, same) ==
    LET matches(x, y) == (x[1] = y[1] \/ p[t].kind \in {"union", "intersection"}) /\ <<x[2], y[2]>> \in same
    IN  /\ \A x \in partsByKey(p, t) : \E y \in partsByKey(q, u) : matches(x, y)
        /\ \A y \in partsByKey(q, u) : \E x \in partsByKey(p, t) : matches(x, y)
sameType(p, t, q, u) ==
    \E same \in SUBSET {s \in (DOMAIN p) \X (DOMAIN q) : alike(p, s[1], q, s[2])} :
        /\ <<t, u>> \in same
        /\ \A s \in same : agree(p, s[1], q, s[2], same)

\* A cycle of nodes, on which no key can be computed, comes only from a union,
\* an intersection or a record that contains itself: every other cycle of
\* types is broken by a ref.
reachesItself(types, t) == t \in below(types)[t]
cycleHasReason ==
    isCyclic(nodes) => \E t \in DOMAIN program : program[t].kind \in OtherKinds /\ reachesItself(program, t)

\* A type extracted again, after whatever else, has the key it had before
\* (extractor.test.ts "hashes the same however much was extracted before it");
\* and it has one unless its union, intersection or record contains itself.
OneKeyPerType ==
    /\ \A k, l \in DOMAIN registry : registry[k] = registry[l] => k = l
    /\ extracted => cycleHasReason

\* The program with renumbered types as the NumberedUnions they declare.
declaration(types) ==
    [t \in DOMAIN types |-> [types[t] EXCEPT !.kind = irKind(types[t]), !.members = declaredOf(types[t])]]

\* No type has a double or is lost with the union it was renumbered from, and
\* what a key puts in order is in order: properties by name, numbered members
\* by number, and of a union or an intersection what is no leaf comes last.
orderly(types) ==
    LET declared == declaration(types)
    IN  \A t \in DOMAIN types :
          /\ types[widened(types, t)].kind = "union" => types[t].kind = "union"
          /\ \A u \in DOMAIN types : sameType(declared, t, declared, u) => widened(types, t) = widened(types, u)
          /\ \A i, j \in DOMAIN declared[t].members : i < j =>
                LET x == declared[t].members[i]  y == declared[t].members[j]
                IN  IF declared[t].kind \in {"union", "intersection"}
                    THEN declared[x[2]].kind \in Leaves /\ declared[y[2]].kind \notin Leaves
                    ELSE x[1] < y[1]

\* Callsites share a module only if their types are the same - or a type is
\* sighted twice and one program is not orderly: the ref may then name another
\* node by the same id, or one of which nothing but the id is in the tree.
SharedModuleFits ==
    extracted /\ ~isCyclic(nodes) =>
        LET key == getTypeKey(program, nodes)
        IN  key \in DOMAIN registry =>
              \/ sameType(declaration(program), 1, declaration(registry[key]), 1)
              \/ /\ \E i \in DOMAIN nodes : nodes[i].kind = "ref"
                 /\ ~(orderly(program) /\ orderly(registry[key]))

\* A node to which a ref of the walk leads, and the walk does not.
isLost(ir, i) == i \notin walkTypeIR(ir) /\ \E j \in walkTypeIR(ir) : ir[j].kind = "ref" /\ ir[j].target = i

\* The walk meets every node but those of unions that were renumbered and what
\* is only below these, so every reference by name of an OpenAPI document leads
\* to the component of a type that has this name, unless the type is lost with
\* such a union; the others are second sightings of types without a name, for
\* which there is no component.
OpenApiNamesResolve ==
    extracted =>
        /\ \A i \in DOMAIN nodes \ walkTypeIR(nodes) : \E t \in DOMAIN program :
              LET w == cache[widened(program, t)]
              IN  program[t].kind = "renumbered" /\ cache[t] \notin {0, w} /\ i \in {w} \cup below(nodes)[w]
        /\ ~isCyclic(nodes) =>
             \A r \in UNION {openApiRefs(nodes, i) : i \in components(nodes)} :
                IF r[1] = "name"
                THEN /\ r[2] \in DOMAIN collectNamedTypes(nodes)
                     /\ LET component == nodes[collectNamedTypes(nodes)[r[2]]]
                        IN  component.kind = "ref" => isLost(nodes, component.target)
                ELSE nodes[r[3]].name = NoName /\ nodes[r[3]].kind \in RefKinds
=============================================================================
