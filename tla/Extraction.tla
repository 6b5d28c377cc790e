----------------------------- MODULE Extraction ------------------------------
(***************************************************************************)
(* From types to IR: extractTypeIR (src/extractors/typescript.ts).         *)
(*                                                                         *)
(* A program is a sequence of types that name each other by position; the  *)
(* callsite names the first.  A type is [kind, name, value, members] with  *)
(* `members` a sequence of <<key, type>>: the properties of an object by   *)
(* their (numbered) names in the order of declaration, the parts of        *)
(* another type by position.  `name` is NoName for a type isUserNamedType  *)
(* rejects, `value` the kind of a primitive or the value of a literal.     *)
(*                                                                         *)
(* A NumberedUnion is a "numbered" union, its members keyed by its field   *)
(* numbers.  TypeScript keeps the numbers with the declaration alone: of   *)
(* `shape?: NumberedUnion<...>` it knows the widened union with undefined. *)
(* The type of a property that is declared as a NumberedUnion is therefore *)
(* a "renumbered" one: its first member is the union TypeScript resolves   *)
(* it to, and the others are the entries of the declaration.               *)
(*                                                                         *)
(* A union of all members of an enum and of undefined or null, which the   *)
(* code puts back together (sharedEnumSymbol), is the union of the enum    *)
(* and these; its id is minted after the enum's, a difference that only    *)
(* unions' ids, to which no ref leads, could show.                         *)
(*                                                                         *)
(* The IR is a heap: a node's id is its position in `nodes`, minted in     *)
(* turn, and a child is a pointer.  A ref carries its target's id only.    *)
(* The recursion is its stack: the types whose calls have not returned,    *)
(* and per type the members its call has extracted so far.                 *)
(***************************************************************************)
EXTENDS Naturals, Sequences, FiniteSets

CONSTANTS
    Names,      \* the names types have
    Values,     \* the kinds of primitives and the values of literals
    NoName,     \* the name of a type that has none of its own
    NoValue,    \* the value of a type that is neither primitive nor literal
    Builds      \* what a build extracts: sequences of programs

VARIABLES
    build,      \* the programs of this build that are still to be extracted
    program,    \* the one extracted last
    nodes,      \* its IR; <<>> when no extraction is under way or done
    cache,      \* type -> its node, 0 before it is sighted
    stack,      \* the types being extracted, the innermost last
    gathered    \* type -> its members extracted so far, as <<key, node>>

extraction == <<build, program, nodes, cache, stack, gathered>>

Leaves == {"primitive", "literal", "enum"}
RefKinds == {"object", "array", "tuple"}        \* re-sighted as a ref
UnionKinds == {"union", "numbered"}
OtherKinds == UnionKinds \cup {"intersection", "record"}
Kinds == Leaves \cup RefKinds \cup OtherKinds
Children(graph, i) == {graph[i].members[j][2] : j \in DOMAIN graph[i].members}

Position == Nat \ {0}
TypeRecord == [kind : Kinds \cup {"renumbered"}, name : Names, value : Values, members : Seq(Position \X Position)]

\* What is declared of a renumbered type, and what TypeScript makes of it.
declaredOf(type) == IF type.kind = "renumbered" THEN Tail(type.members) ELSE type.members
widened(types, t) == IF types[t].kind = "renumbered" THEN types[t].members[1][2] ELSE t

\* A renumbered type is that of one property.  If TypeScript resolves it to a
\* NumberedUnion, this is the declared one.
isRenumbered(types, t) ==
    LET original == types[widened(types, t)]
    IN  /\ t # 1 /\ Len(types[t].members) > 1
        /\ \A u, v \in DOMAIN types : \A i \in DOMAIN types[u].members, j \in DOMAIN types[v].members :
              types[u].members[i][2] = t /\ types[v].members[j][2] = t => <<u, i>> = <<v, j>> /\ types[u].kind = "object"
        /\ original.kind \in UnionKinds /\ original.name = types[t].name /\ original.value = types[t].value
        /\ original.kind = "numbered" => original.members = declaredOf(types[t])

\* A program has all the types it names, and a type at least, the callsite's.
IsProgram(types) ==
    /\ types # <<>>
    /\ \A t \in DOMAIN types :
        /\ Children(types, t) \subseteq DOMAIN types
        /\ types[t].kind \in Leaves => types[t].members = <<>>
        /\ types[t].kind = "renumbered" => isRenumbered(types, t)

ASSUME NamesAssumption == NoName \in Names /\ {NoValue, "string"} \subseteq Values

ASSUME BuildsAssumption ==
    /\ Builds \subseteq Seq(Seq(TypeRecord))
    /\ \A b \in Builds : \A i \in DOMAIN b : IsProgram(b[i])

-----------------------------------------------------------------------------
(* Nodes. *)

Node(type, members) ==
    [kind |-> type.kind, name |-> type.name, value |-> type.value,
     members |-> members, target |-> 0, discriminator |-> 0]

\* A ref with the id that is minted after its target's.
Ref_Next(name, target) ==
    [kind |-> "ref", name |-> name, value |-> NoValue,
     members |-> <<>>, target |-> target + 1, discriminator |-> 0]

Ref(name, target) ==
    [kind |-> "ref", name |-> name, value |-> NoValue,
     members |-> <<>>, target |-> target, discriminator |-> 0]

isDeduplicated(kind) == kind \in RefKinds

\* A record mints its key beside itself.
Key == [kind |-> "primitive", name |-> NoName, value |-> "string",
        members |-> <<>>, target |-> 0, discriminator |-> 0]
placeholder(type) ==
    IF type.kind = "record" THEN <<Node(type, <<>>), Key>> ELSE <<Node(type, <<>>)>>
keyed(type, id) == IF type.kind = "record" THEN <<<<0, id + 1>>>> ELSE <<>>

\* The members of a node, without the key of a record.
membersOf(node) == IF node.kind = "record" THEN Tail(node.members) ELSE node.members

\* The properties of a member whose type is a literal, as <<key, value>>; a
\* node that is still being extracted has none yet.
tags(heap, i) ==
    {<<heap[i].members[j][1], heap[heap[i].members[j][2]].value>> :
        j \in {j \in DOMAIN heap[i].members : heap[heap[i].members[j][2]].kind = "literal"}}
tagsBy(heap, i, k) == {v \in tags(heap, i) : v[1] = k}

\* A key tells the parts apart when all have a literal there, no two the same.
tells_Repeated(heap, parts, k) == \A p \in DOMAIN parts : tagsBy(heap, parts[p], k) # {}

tells(heap, parts, k) ==
    /\ \A p \in DOMAIN parts : tagsBy(heap, parts[p], k) # {}
    /\ \A p, q \in DOMAIN parts : p # q => tagsBy(heap, parts[p], k) # tagsBy(heap, parts[q], k)

\* The first property of the first member that tells all members apart.
findDiscriminatorProperty(heap, parts) ==
    LET first == heap[parts[1]].members
        fit   == {j \in DOMAIN first : tells(heap, parts, first[j][1])}
    IN  IF Len(parts) < 2 \/ fit = {} \/ \E p \in DOMAIN parts : heap[parts[p]].kind # "object" THEN 0
        ELSE first[CHOOSE j \in fit : \A k \in fit : j <= k][1]

-----------------------------------------------------------------------------
(* An extraction, from the callsite of a type to the use of its IR. *)

ExtractionInit ==
    /\ build \in Builds
    /\ program = <<>> /\ nodes = <<>> /\ cache = <<>> /\ stack = <<>> /\ gathered = <<>>

\* The visitor meets a callsite: a cache and a count of ids of its own.
Extract ==
    /\ nodes = <<>> /\ build # <<>>
    /\ program' = Head(build)
    /\ build' = Tail(build)
    /\ nodes' = placeholder(program'[1])
    /\ cache' = [t \in DOMAIN program' |-> IF t = 1 THEN 1 ELSE 0]
    /\ stack' = <<1>>
    /\ gathered' = [t \in DOMAIN program' |-> <<>>]

\* The innermost call takes its members in turn.
top    == stack[Len(stack)]
member == program[top].members[Len(gathered[top]) + 1]
hasMember == stack # <<>> /\ Len(gathered[top]) < Len(program[top].members)
gather(id) == gathered' = [gathered EXCEPT ![top] = Append(@, <<member[1], id>>)]

\* A renumbered type whose union is extracted and has its numbers: it closed,
\* and was a NumberedUnion.
hasNumbers ==
    /\ stack # <<>> /\ program[top].kind = "renumbered" /\ gathered[top] # <<>>
    /\ program[widened(program, top)].kind = "numbered"
    /\ \A i \in DOMAIN stack : stack[i] # widened(program, top)

\* One not seen before: its node goes into the cache before its own members
\* are looked at.
Enter ==
    /\ hasMember /\ ~hasNumbers
    /\ cache[member[2]] = 0 /\ program[member[2]].kind # "renumbered"
    /\ nodes' = nodes \o placeholder(program[member[2]])
    /\ cache' = [cache EXCEPT ![member[2]] = Len(nodes) + 1]
    /\ stack' = Append(stack, member[2])
    /\ gather(Len(nodes) + 1)
    /\ UNCHANGED <<build, program>>

\* One seen before, perhaps still being extracted: a ref to its node, or the
\* node itself.
Resight ==
    /\ hasMember /\ ~hasNumbers
    /\ cache[member[2]] # 0
    /\ LET existing == cache[member[2]]
       IN  IF isDeduplicated(nodes[existing].kind)
           THEN nodes' = Append(nodes, Ref(nodes[existing].name, existing)) /\ gather(Len(nodes) + 1)
           ELSE UNCHANGED nodes /\ gather(existing)
    /\ UNCHANGED <<build, program, cache, stack>>

\* No member is left: the placeholder is filled in.
Close ==
    /\ stack # <<>> /\ ~hasMember /\ program[top].kind # "renumbered"
    /\ LET id    == cache[top]
           parts == [j \in DOMAIN gathered[top] |-> gathered[top][j][2]]
           tag   == IF program[top].kind \in UnionKinds THEN findDiscriminatorProperty(nodes, parts) ELSE 0
       IN  nodes' = [nodes EXCEPT ![id].members = keyed(program[top], id) \o gathered[top],
                                  ![id].discriminator = tag]
    /\ stack' = SubSeq(stack, 1, Len(stack) - 1)
    /\ UNCHANGED <<build, program, cache, gathered>>

\* A property declared as a NumberedUnion: first the union it is resolved to.
Widen ==
    /\ hasMember /\ program[member[2]].kind = "renumbered"
    /\ stack' = Append(stack, member[2])
    /\ UNCHANGED <<build, program, nodes, cache, gathered>>

\* The innermost call is of a renumbered type, for which its caller takes id.
settle(id) ==
    LET caller == stack[Len(stack) - 1]
        taken  == program[caller].members[Len(gathered[caller]) + 1]
    IN  /\ cache' = [cache EXCEPT ![top] = id]
        /\ gathered' = [gathered EXCEPT ![caller] = Append(@, <<taken[1], id>>)]
        /\ stack' = SubSeq(stack, 1, Len(stack) - 1)

\* The union has the numbers already, and is taken as it is.
KeepNumbers ==
    /\ hasNumbers
    /\ settle(cache[widened(program, top)])
    /\ UNCHANGED <<build, program, nodes>>

\* It has not: a node of its own, in no cache, of the entries alone.
Renumber ==
    /\ stack # <<>> /\ ~hasMember /\ ~hasNumbers /\ program[top].kind = "renumbered"
    /\ LET entries == Tail(gathered[top])
           parts   == [j \in DOMAIN entries |-> entries[j][2]]
           node    == Node([program[top] EXCEPT !.kind = "numbered"], entries)
       IN  nodes' = Append(nodes, [node EXCEPT !.discriminator = findDiscriminatorProperty(nodes, parts)])
    /\ settle(Len(nodes) + 1)
    /\ UNCHANGED <<build, program>>

\* The callsite has its IR and is done with it.
Finish ==
    /\ nodes # <<>> /\ stack = <<>>
    /\ nodes' = <<>>
    /\ UNCHANGED <<build, program, cache, stack, gathered>>

ExtractionNext == Extract \/ Enter \/ Resight \/ Close \/ Widen \/ KeepNumbers \/ Renumber \/ Finish

ExtractionSpec == ExtractionInit /\ [][ExtractionNext]_extraction

extracted == nodes # <<>> /\ stack = <<>>

-----------------------------------------------------------------------------
(* Properties. *)

\* The node a pointer or a ref leads to.
resolved(heap, i) == IF heap[i].kind = "ref" THEN heap[i].target ELSE i

\* The kind of a type's node.
irKind(type) == IF type.kind = "renumbered" THEN "numbered" ELSE type.kind

\* A node says what its type does: of what kind it is, how it is called, and
\* under which keys it leads to the nodes of which types. What it points to
\* and may have members in turn was minted later, or is a union, an
\* intersection or a record, so it closes no cycle that passes none of these.
describes(i, t) ==
    LET n == nodes[i]  own == membersOf(n)  declared == declaredOf(program[t])
    IN  /\ n.kind = irKind(program[t]) /\ n.name = program[t].name /\ n.value = program[t].value
        /\ Len(own) = Len(declared)
        /\ \A j \in DOMAIN declared :
             /\ own[j][1] = declared[j][1]
             /\ own[j][2] \in DOMAIN nodes /\ cache[declared[j][2]] \in DOMAIN nodes
             /\ resolved(nodes, own[j][2]) = cache[declared[j][2]]
             /\ nodes[own[j][2]].kind \in RefKinds => i < own[j][2] \/ program[t].kind = "renumbered"

\* Nothing of a type is lost or confused by the placeholders, the cache and
\* the refs: whoever follows these by id, as the protobuf and the Avro codecs
\* do, sees the types that were declared, cycles and all. A type has one node,
\* which it shares with no other, properties declared as one NumberedUnion
\* aside; and every other node is a ref to one, of its name, or the key of a
\* record.
IRDescribesType ==
    extracted =>
        /\ cache[1] = 1
        /\ \A t \in DOMAIN program : cache[t] # 0 => describes(cache[t], t)
        /\ \A t, u \in DOMAIN program : cache[t] = cache[u] /\ cache[t] # 0 =>
              t = u \/ (widened(program, t) = widened(program, u) /\ program[widened(program, t)].kind = "numbered")
        /\ \A i \in DOMAIN nodes :
              \E t \in DOMAIN program : cache[t] # 0 /\
                \/ i = cache[t]
                \/ /\ nodes[i].kind = "ref" /\ nodes[i].target = cache[t] /\ nodes[i].members = <<>>
                   /\ nodes[i].name = program[t].name /\ program[t].kind \in RefKinds
                \/ /\ program[t].kind = "record" /\ i = cache[t] + 1
                   /\ nodes[i].kind = "primitive" /\ nodes[i].members = <<>>
                   /\ nodes[cache[t]].members[1] = <<0, i>>

\* The IR with its refs followed, as a program of its own.
unfolded(ir) ==
    [i \in DOMAIN ir |->
        [kind |-> ir[i].kind, name |-> ir[i].name, value |-> ir[i].value,
         members |-> [j \in DOMAIN membersOf(ir[i]) |->
                        <<membersOf(ir[i])[j][1], resolved(ir, membersOf(ir[i])[j][2])>>]]]

\* A union is tagged by a property that tells all of its members apart; and
\* it is when there is one, unless a type was sighted twice.
partsByKey(types, t) == {<<types[t].members[i][1], types[t].members[i][2]>> : i \in DOMAIN types[t].members}
literalsAt(types, t, k) ==
    {types[x[2]].value : x \in {x \in partsByKey(types, t) : x[1] = k /\ types[x[2]].kind = "literal"}}
tellsApart(types, U, k) ==
    /\ \A t \in U : types[t].kind = "object" /\ literalsAt(types, t, k) # {}
    /\ \A t, u \in U : t # u => literalsAt(types, t, k) # literalsAt(types, u, k)
DiscriminatorsTell ==
    extracted =>
        \A i \in {i \in DOMAIN nodes : nodes[i].kind \in UnionKinds} :
            LET ir == unfolded(nodes)
                U == Children(ir, i)
            IN  IF nodes[i].discriminator # 0 THEN tellsApart(ir, U, nodes[i].discriminator)
                ELSE \/ Cardinality(U) < 2
                     \/ \E j \in DOMAIN nodes : nodes[j].kind = "ref"
                     \/ \A t \in U : \A x \in partsByKey(ir, t) : ~tellsApart(ir, U, x[1])
=============================================================================
