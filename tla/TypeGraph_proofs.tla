-------------------------- MODULE TypeGraph_proofs ---------------------------
(***************************************************************************)
(* Proofs about TypeGraph, for every build of any programs.                *)
(*                                                                         *)
(* The first half is about Extraction.  IRInv says what the heap, the      *)
(* cache and the stack of calls agree on at every step; when no call is    *)
(* left it says that the IR describes its type.  TagInv adds what makes a  *)
(* union see its members filled in when it is tagged: the calls nest, and  *)
(* a pointer to an object comes from the call that entered it.             *)
(*                                                                         *)
(* The second half is about the keys.  A normal form is the only solution  *)
(* of its equation where no node is below itself (NormalForms); an         *)
(* extraction depends on its program alone (SameRun); types with equal     *)
(* normal forms are bisimilar if refs with equal normal forms lead to such *)
(* types (Bisimilar), and two extractions of orderly programs with one     *)
(* digest take the same steps, so that they do (LockStep, TargetsAgree).   *)
(***************************************************************************)
EXTENDS TypeGraph, TLAPS, FiniteSetTheorems, SequenceTheorems, WellFoundedInduction

-----------------------------------------------------------------------------
(* No property of the programs is declared as a NumberedUnion.             *)
PlainType == [kind : Kinds, name : Names, value : Values, members : Seq(Position \X Position)]
Unnumbered == \A b \in Builds : b \in Seq(Seq(PlainType))

(* The IR under way.                                                       *)
NodeRecord ==
  [kind : Kinds \cup {"ref"}, name : Names, value : Values, members : Seq(Nat \X Position),
   target : Nat, discriminator : Nat]

(* What everything is.                                                     *)
Typed ==
  /\ build \in Seq(Seq(PlainType)) /\ \A i \in DOMAIN build : IsProgram(build[i])
  /\ program \in Seq(PlainType) /\ nodes \in Seq(NodeRecord)
  /\ cache \in [DOMAIN program -> Nat]
  /\ stack \in Seq(DOMAIN program)
  /\ gathered \in [DOMAIN program -> Seq(Position \X Position)]

isOpen(t) == \E i \in DOMAIN stack : stack[i] = t

(* A type that was sighted has a node that says what can be said of it     *)
(* before its members are known.                                           *)
Cached ==
  \A t \in DOMAIN program : cache[t] # 0 =>
    LET n == nodes[cache[t]] IN
    /\ cache[t] \in DOMAIN nodes
    /\ n.kind = program[t].kind /\ n.name = program[t].name /\ n.value = program[t].value
    /\ n.kind = "record" => cache[t] + 1 \in DOMAIN nodes /\ nodes[cache[t] + 1].kind = "primitive"

(* Two types do not share a node.                                          *)
OneNodeEach == \A t, u \in DOMAIN program : cache[t] = cache[u] /\ cache[t] # 0 => t = u

(* Why there is a node.                                                    *)
isOf(i, t) ==
  \/ i = cache[t]
  \/ /\ nodes[i].kind = "ref" /\ nodes[i].target = cache[t] /\ nodes[i].members = <<>>
     /\ nodes[i].name = program[t].name /\ program[t].kind \in RefKinds
  \/ /\ program[t].kind = "record" /\ i = cache[t] + 1
     /\ nodes[i].kind = "primitive" /\ nodes[i].members = <<>>
Accounted == \A i \in DOMAIN nodes : \E t \in DOMAIN program : cache[t] # 0 /\ isOf(i, t)

(* The calls under way are of sighted types, and of each there is one.     *)
Nested ==
  /\ \A i \in DOMAIN stack : cache[stack[i]] # 0
  /\ \A i, j \in DOMAIN stack : stack[i] = stack[j] => i = j

(* What a call has gathered are the first members of its type.             *)
leads(i, u) == i \in DOMAIN nodes /\ cache[u] \in DOMAIN nodes /\ resolved(nodes, i) = cache[u]
Gathered ==
  \A t \in DOMAIN program :
    /\ Len(gathered[t]) <= Len(program[t].members)
    /\ \A j \in DOMAIN gathered[t] :
         gathered[t][j][1] = program[t].members[j][1] /\ leads(gathered[t][j][2], program[t].members[j][2])

(* The node of a call that has returned is filled in.                      *)
Filled ==
  \A t \in DOMAIN program : cache[t] # 0 /\ ~isOpen(t) =>
    /\ Len(gathered[t]) = Len(program[t].members)
    /\ nodes[cache[t]].members = keyed(program[t], cache[t]) \o gathered[t]

(* The invariant of the heap.                                              *)
IRInv ==
  /\ Typed
  /\ nodes = <<>> => stack = <<>>
  /\ nodes # <<>> =>
       IsProgram(program) /\ cache[1] = 1 /\ Cached /\ OneNodeEach /\ Accounted /\ Nested /\ Gathered /\ Filled

(* A type that was not sighted has gathered nothing.                       *)
Unsighted == \A t \in DOMAIN program : cache[t] = 0 => gathered[t] = <<>>

(* A pointer to an object comes from the call that entered it.             *)
EntersLater ==
  \A i, q \in DOMAIN stack : \A j \in DOMAIN gathered[stack[i]] :
    gathered[stack[i]][j][2] = cache[stack[q]] /\ program[stack[q]].kind \in RefKinds => i < q

(* No call has gathered one object, array or tuple twice.                  *)
PointsOnce ==
  \A t \in DOMAIN program : \A j, k \in DOMAIN gathered[t] :
    gathered[t][j][2] = gathered[t][k][2] /\ nodes[gathered[t][j][2]].kind \in RefKinds => j = k

(* A union whose call has returned is tagged, and its objects are done.    *)
partsOf(t) == [j \in DOMAIN gathered[t] |-> gathered[t][j][2]]
Tagged ==
  \A t \in DOMAIN program : cache[t] # 0 /\ ~isOpen(t) /\ program[t].kind \in UnionKinds =>
    /\ nodes[cache[t]].discriminator = findDiscriminatorProperty(nodes, partsOf(t))
    /\ \A j \in DOMAIN gathered[t], u \in DOMAIN program :
         gathered[t][j][2] = cache[u] /\ program[u].kind = "object" => ~isOpen(u)

(* An object, array or tuple is minted after who points to it.             *)
PointsLater ==
  \A t, u \in DOMAIN program : \A j \in DOMAIN gathered[t] :
    cache[t] # 0 /\ gathered[t][j][2] = cache[u] /\ program[u].kind \in RefKinds => cache[t] < cache[u]

(* The invariant of pointers and tags.                                     *)
TagInv == IRInv /\ (nodes # <<>> => Unsighted /\ PointsLater /\ EntersLater /\ PointsOnce /\ Tagged)

-----------------------------------------------------------------------------
(* Operators.                                                              *)

(* Numbers have a least.                                                   *)
LEMMA Least ==
  ASSUME NEW T \in SUBSET Nat, T # {}
  PROVE  \E m \in T : \A k \in T : m <= k
<1> DEFINE R == StrictSubsetOrdering(Nat)
           U == {0..m : m \in T}
<1>1. IsWellFoundedOn(R, FiniteSubsetsOf(Nat))
  BY FS_StrictSubsetOrderingWellFounded
<1>2. U \subseteq FiniteSubsetsOf(Nat)
  <2> SUFFICES ASSUME NEW m \in T PROVE 0..m \in FiniteSubsetsOf(Nat)
    OBVIOUS
  <2>1. IsFiniteSet(0..m)
    BY FS_Interval
  <2> QED
    BY <2>1 DEF FiniteSubsetsOf
<1>3. U # {}
  OBVIOUS
<1>4. PICK x \in U : \A y \in U : <<y, x>> \notin R
  <2> HIDE DEF R, U
  <2> QED
    BY <1>1, <1>2, <1>3, WFMin
<1>5. PICK m \in T : x = 0..m
  BY <1>4
<1>6. ASSUME NEW k \in T, k < m PROVE FALSE
  <2>1. 0..k \in U
    OBVIOUS
  <2>2. 0..k \subseteq 0..m /\ 0..k # 0..m
    BY <1>6
  <2>3. <<0..k, 0..m>> \in R
    BY <2>2 DEF StrictSubsetOrdering
  <2> QED
    BY <2>1, <2>3, <1>4, <1>5
<1> QED
  BY <1>6

(* What findDiscriminatorProperty finds: the key of a member of the first  *)
(* part that tells all parts apart, if they are two at least and objects,  *)
(* and there is one.                                                       *)
fitting(heap, parts) ==
  {j \in DOMAIN heap[parts[1]].members : tells(heap, parts, heap[parts[1]].members[j][1])}
areTwoObjects(heap, parts) == Len(parts) >= 2 /\ \A p \in DOMAIN parts : heap[parts[p]].kind = "object"

LEMMA Discriminator ==
  ASSUME NEW heap \in Seq(NodeRecord), NEW parts \in Seq(Position),
         \A p \in DOMAIN parts : parts[p] \in DOMAIN heap,
         NEW d, d = findDiscriminatorProperty(heap, parts)
  PROVE  /\ d \in Nat
         /\ areTwoObjects(heap, parts) /\ fitting(heap, parts) # {} =>
              \E j \in fitting(heap, parts) : d = heap[parts[1]].members[j][1]
         /\ ~(areTwoObjects(heap, parts) /\ fitting(heap, parts) # {}) => d = 0
<1> DEFINE first == heap[parts[1]].members
           fit == fitting(heap, parts)
           found == CHOOSE j \in fit : \A k \in fit : j <= k
<1>1. d = IF Len(parts) < 2 \/ fit = {} \/ \E p \in DOMAIN parts : heap[parts[p]].kind # "object" THEN 0 ELSE first[found][1]
  BY DEF findDiscriminatorProperty, fitting
<1>2. Len(parts) \in Nat /\ DOMAIN parts = 1..Len(parts)
  OBVIOUS
<1>3. ~(areTwoObjects(heap, parts) /\ fit # {}) => d = 0
  BY <1>1, <1>2 DEF areTwoObjects
<1>4. ASSUME areTwoObjects(heap, parts), fit # {}
      PROVE  found \in fit /\ d = first[found][1] /\ d \in Nat
  <2>1. 1 \in DOMAIN parts
    BY <1>2, <1>4 DEF areTwoObjects
  <2>2. heap[parts[1]] \in NodeRecord
    BY <2>1
  <2>3. first \in Seq(Nat \X Position)
    BY <2>2 DEF NodeRecord
  <2>4. fit \in SUBSET Nat /\ fit \subseteq DOMAIN first
    BY <2>3 DEF fitting
  <2>5. \E j \in fit : \A k \in fit : j <= k
    <3> HIDE DEF fit
    <3> QED
      BY <1>4, <2>4, Least
  <2>6. found \in fit
    <3> HIDE DEF fit
    <3> QED
      BY <2>5
  <2>7. d = first[found][1]
    BY <1>1, <1>2, <1>4 DEF areTwoObjects
  <2>8. first[found] \in Nat \X Position
    <3> HIDE DEF fit, first, found
    <3> QED
      BY <2>3, <2>4, <2>6
  <2> QED
    BY <2>6, <2>7, <2>8
<1>5. d \in Nat
  BY <1>3, <1>4
<1> QED
  BY <1>3, <1>4, <1>5

-----------------------------------------------------------------------------
(* Steps.                                                                  *)

(* What no step takes back.                                                *)
Grows ==
  /\ program' = program /\ DOMAIN nodes \subseteq DOMAIN nodes'
  /\ \A i \in DOMAIN nodes :
       /\ nodes'[i].kind = nodes[i].kind /\ nodes'[i].name = nodes[i].name
       /\ nodes'[i].value = nodes[i].value /\ nodes'[i].target = nodes[i].target
  /\ \A t \in DOMAIN program : cache[t] # 0 => cache'[t] = cache[t]

(* The innermost call takes a member and puts node id in its place.        *)
Takes(id) ==
  /\ gathered' = [gathered EXCEPT ![top] = Append(gathered[top], <<member[1], id>>)]
  /\ id \in Position

(* The nodes a type is given.                                              *)
LEMMA Placeholders ==
  ASSUME NEW type \in PlainType
  PROVE  /\ placeholder(type) \in Seq(NodeRecord)
         /\ Len(placeholder(type)) = IF type.kind = "record" THEN 2 ELSE 1
         /\ placeholder(type)[1] = Node(type, <<>>)
         /\ type.kind = "record" => placeholder(type)[2] = Key
<1> DEFINE n == Node(type, <<>>)
<1>1. n \in NodeRecord
  <2>1. type.kind \in Kinds \cup {"ref"} /\ type.name \in Names /\ type.value \in Values
    BY DEF PlainType
  <2>2. <<>> \in Seq(Nat \X Position) /\ 0 \in Nat
    OBVIOUS
  <2>3. n = [kind |-> type.kind, name |-> type.name, value |-> type.value, members |-> <<>>, target |-> 0, discriminator |-> 0]
    BY DEF Node
  <2> HIDE DEF n
  <2> QED
    BY <2>1, <2>2, <2>3, Zenon DEF NodeRecord
<1>2. Key \in NodeRecord
  <2>1. "primitive" \in Kinds \cup {"ref"}
    BY DEF Kinds, Leaves
  <2>2. NoName \in Names /\ "string" \in Values
    BY NamesAssumption
  <2>3. <<>> \in Seq(Nat \X Position) /\ 0 \in Nat
    OBVIOUS
  <2> QED
    BY <2>1, <2>2, <2>3, Zenon DEF Key, NodeRecord
<1>3. placeholder(type) = IF type.kind = "record" THEN <<n, Key>> ELSE <<n>>
  BY DEF placeholder
<1> HIDE DEF n
<1> QED
  BY <1>1, <1>2, <1>3 DEF n

(* What there is to take.                                                  *)
LEMMA Members ==
  ASSUME IRInv, hasMember
  PROVE  /\ top \in DOMAIN program /\ cache[top] # 0 /\ isOpen(top) /\ nodes # <<>>
         /\ Len(stack) \in DOMAIN stack /\ stack[Len(stack)] = top
         /\ gathered[top] \in Seq(Position \X Position) /\ program[top].members \in Seq(Position \X Position)
         /\ Len(gathered[top]) + 1 \in DOMAIN program[top].members
         /\ member[1] \in Position /\ member[2] \in DOMAIN program
<1>0. Typed /\ stack # <<>> /\ nodes # <<>> /\ Len(gathered[top]) < Len(program[top].members)
  BY DEF IRInv, hasMember
<1>1. stack \in Seq(DOMAIN program)
  BY <1>0 DEF Typed
<1>2. Len(stack) \in DOMAIN stack /\ top \in DOMAIN program
  BY <1>0, <1>1 DEF top
<1>3. gathered[top] \in Seq(Position \X Position)
  BY <1>0, <1>2 DEF Typed
<1>4. program[top] \in PlainType
  BY <1>0, <1>2 DEF Typed
<1>5. program[top].members \in Seq(Position \X Position)
  BY <1>4 DEF PlainType
<1> DEFINE g == gathered[top]
           m == program[top].members
<1>6. Len(g) + 1 \in DOMAIN m
  <2> HIDE DEF g, m
  <2>1. g \in Seq(Position \X Position) /\ m \in Seq(Position \X Position) /\ Len(g) < Len(m)
    BY <1>0, <1>3, <1>5 DEF g, m
  <2> QED
    BY <2>1
<1>7. member \in Position \X Position
  BY <1>5, <1>6 DEF member
<1>8. IsProgram(program)
  BY <1>0 DEF IRInv
<1>9. member[2] \in Children(program, top)
  BY <1>6 DEF Children, member
<1>10. member[2] \in DOMAIN program
  BY <1>2, <1>8, <1>9 DEF IsProgram
<1>11. cache[top] # 0
  <2>1. Nested
    BY <1>0 DEF IRInv
  <2> QED
    BY <1>2, <2>1 DEF Nested, top
<1>12. isOpen(top) /\ stack[Len(stack)] = top
  BY <1>2 DEF isOpen, top
<1> QED
  BY <1>0, <1>2, <1>3, <1>5, <1>6, <1>7, <1>10, <1>11, <1>12

(* A type that is entered gets the next id.                                *)
LEMMA Entering ==
  ASSUME IRInv, Enter, NEW u, u = member[2], NEW id, id = Len(nodes) + 1
  PROVE  /\ hasMember /\ u \in DOMAIN program /\ cache[u] = 0 /\ id \in Position
         /\ nodes' \in Seq(NodeRecord) /\ id \in DOMAIN nodes' /\ id \notin DOMAIN nodes
         /\ nodes'[id] = Node(program[u], <<>>)
         /\ \A i \in DOMAIN nodes : i \in DOMAIN nodes' /\ nodes'[i] = nodes[i]
         /\ program[u].kind # "record" => DOMAIN nodes' = DOMAIN nodes \cup {id}
         /\ program[u].kind = "record" =>
              DOMAIN nodes' = DOMAIN nodes \cup {id, id + 1} /\ nodes'[id + 1] = Key
         /\ cache' = [cache EXCEPT ![u] = id] /\ stack' = Append(stack, u)
         /\ Takes(id) /\ Grows /\ build' = build
<1>1. hasMember /\ u \in DOMAIN program /\ cache[u] = 0
  BY Members DEF Enter
<1>2. nodes \in Seq(NodeRecord) /\ program[u] \in PlainType /\ cache \in [DOMAIN program -> Nat]
  BY <1>1 DEF IRInv, Typed
<1> DEFINE new == placeholder(program[u])
<1>3. /\ new \in Seq(NodeRecord) /\ Len(new) = IF program[u].kind = "record" THEN 2 ELSE 1
      /\ new[1] = Node(program[u], <<>>)
      /\ program[u].kind = "record" => new[2] = Key
  BY <1>2, Placeholders
<1>4. nodes' = nodes \o new /\ cache' = [cache EXCEPT ![u] = id] /\ stack' = Append(stack, u) /\ program' = program /\ build' = build
  BY DEF Enter
<1> HIDE DEF new
<1>a. nodes \o new \in Seq(NodeRecord)
  BY <1>2, <1>3
<1>b. Len(nodes \o new) = Len(nodes) + Len(new)
  BY <1>2, <1>3, ConcatProperties
<1>c. \A i \in 1..Len(nodes) : (nodes \o new)[i] = nodes[i]
  BY <1>2, <1>3
<1>d. \A i \in 1..Len(new) : (nodes \o new)[Len(nodes) + i] = new[i]
  <2>1. \A i \in 1..(Len(nodes) + Len(new)) :
          (nodes \o new)[i] = IF i <= Len(nodes) THEN nodes[i] ELSE new[i - Len(nodes)]
    BY <1>2, <1>3, ConcatProperties
  <2>2. Len(nodes) \in Nat /\ Len(new) \in Nat
    BY <1>2, <1>3
  <2> QED
    BY <2>1, <2>2
<1>5. /\ nodes' \in Seq(NodeRecord) /\ Len(nodes') = Len(nodes) + Len(new)
      /\ \A i \in 1..Len(nodes) : nodes'[i] = nodes[i]
  BY <1>4, <1>a, <1>b, <1>c
<1>e. nodes'[Len(nodes) + 1] = new[1]
  <2>1. 1 \in 1..Len(new)
    BY <1>3
  <2> QED
    BY <1>4, <1>d, <2>1
<1>f. program[u].kind = "record" => nodes'[Len(nodes) + 2] = new[2]
  <2>1. program[u].kind = "record" => 2 \in 1..Len(new)
    BY <1>3
  <2> QED
    BY <1>4, <1>d, <2>1
<1>6. Len(nodes) \in Nat /\ DOMAIN nodes = 1..Len(nodes) /\ DOMAIN nodes' = 1..Len(nodes')
  BY <1>2, <1>5
<1>7. id \in Position /\ id \notin DOMAIN nodes
  BY <1>6 DEF Position
<1>8. nodes'[id] = Node(program[u], <<>>)
  <2>1. nodes'[id] = new[1]
    BY <1>e
  <2> QED
    BY <1>3, <2>1
<1>9. \A i \in DOMAIN nodes : i \in DOMAIN nodes' /\ nodes'[i] = nodes[i]
  BY <1>3, <1>5, <1>6
<1>10. program[u].kind # "record" => DOMAIN nodes' = DOMAIN nodes \cup {id}
  BY <1>3, <1>5, <1>6
<1>11. program[u].kind = "record" => DOMAIN nodes' = DOMAIN nodes \cup {id, id + 1}
  BY <1>3, <1>5, <1>6
<1>12. program[u].kind = "record" => nodes'[id + 1] = Key
  <2>1. id + 1 = Len(nodes) + 2
    BY <1>6
  <2>2. program[u].kind = "record" => nodes'[id + 1] = new[2]
    BY <1>f, <2>1
  <2> QED
    BY <1>3, <2>2
<1>13. id \in DOMAIN nodes'
  BY <1>10, <1>11
<1>14. Takes(id)
  BY <1>7 DEF Takes, Enter, gather
<1>15. Grows
  BY <1>1, <1>2, <1>4, <1>9 DEF Grows
<1> QED
  BY <1>1, <1>4, <1>5, <1>7, <1>8, <1>9, <1>10, <1>11, <1>12, <1>13, <1>14, <1>15

(* A type that was sighted before is pointed to, or referred to.           *)
LEMMA Resighting ==
  ASSUME IRInv, Resight, NEW x, x = cache[member[2]]
  PROVE  /\ hasMember /\ x \in DOMAIN nodes
         /\ nodes' \in Seq(NodeRecord)
         /\ \A i \in DOMAIN nodes : i \in DOMAIN nodes' /\ nodes'[i] = nodes[i]
         /\ \/ /\ nodes[x].kind \in RefKinds /\ nodes'[Len(nodes) + 1] = Ref(nodes[x].name, x)
               /\ DOMAIN nodes' = DOMAIN nodes \cup {Len(nodes) + 1} /\ Len(nodes) + 1 \notin DOMAIN nodes
               /\ Takes(Len(nodes) + 1)
            \/ nodes[x].kind \notin RefKinds /\ nodes' = nodes /\ Takes(x)
         /\ cache' = cache /\ stack' = stack /\ Grows /\ build' = build
<1>1. hasMember /\ member[2] \in DOMAIN program /\ x # 0 /\ nodes # <<>>
  BY Members DEF Resight
<1>2. nodes \in Seq(NodeRecord) /\ cache \in [DOMAIN program -> Nat]
  BY DEF IRInv, Typed
<1>3. Cached
  BY <1>1 DEF IRInv
<1>4. x \in DOMAIN nodes
  BY <1>1, <1>3 DEF Cached
<1>5. nodes[x] \in NodeRecord
  BY <1>2, <1>4
<1>6. cache' = cache /\ stack' = stack /\ program' = program /\ build' = build
  BY DEF Resight
<1>7. CASE nodes[x].kind \in RefKinds
  <2> DEFINE r == Ref(nodes[x].name, x)
  <2>1. r \in NodeRecord
    <3>1. "ref" \in Kinds \cup {"ref"} /\ nodes[x].name \in Names /\ NoValue \in Values /\ x \in Nat /\ 0 \in Nat
      BY <1>2, <1>4, <1>5, NamesAssumption DEF NodeRecord
    <3>2. <<>> \in Seq(Nat \X Position)
      OBVIOUS
    <3> QED
      BY <3>1, <3>2, Zenon DEF Ref, NodeRecord
  <2>2. nodes' = Append(nodes, r) /\ Takes(Len(nodes) + 1)
    <3>1. Len(nodes) + 1 \in Position
      BY <1>2 DEF Position
    <3> QED
      BY <1>7, <3>1 DEF Resight, isDeduplicated, gather, Takes
  <2> HIDE DEF r
  <2>3. /\ nodes' \in Seq(NodeRecord) /\ nodes'[Len(nodes) + 1] = r /\ \A i \in DOMAIN nodes : i \in DOMAIN nodes' /\ nodes'[i] = nodes[i]
        /\ DOMAIN nodes' = DOMAIN nodes \cup {Len(nodes) + 1} /\ Len(nodes) + 1 \notin DOMAIN nodes
    BY <1>2, <2>1, <2>2
  <2>4. Grows
    BY <1>6, <2>3 DEF Grows
  <2> QED
    BY <1>1, <1>4, <1>6, <1>7, <2>2, <2>3, <2>4 DEF r
<1>8. CASE nodes[x].kind \notin RefKinds
  <2>1. nodes' = nodes
    BY <1>8 DEF Resight, isDeduplicated
  <2>2. Takes(x)
    <3>1. x \in Position
      BY <1>2, <1>4 DEF Position
    <3> QED
      BY <1>8, <3>1 DEF Resight, isDeduplicated, gather, Takes
  <2>3. Grows
    BY <1>6, <2>1 DEF Grows
  <2> QED
    BY <1>1, <1>2, <1>4, <1>6, <1>8, <2>1, <2>2, <2>3
<1> QED
  BY <1>7, <1>8

(* The node of a type that is left is filled in, and no other.             *)
LEMMA Closing ==
  ASSUME IRInv, Close, NEW id, id = cache[top]
  PROVE  /\ top \in DOMAIN program /\ id \in DOMAIN nodes /\ nodes # <<>>
         /\ isOpen(top) /\ Len(stack) \in DOMAIN stack /\ stack[Len(stack)] = top
         /\ Len(gathered[top]) = Len(program[top].members)
         /\ nodes' \in Seq(NodeRecord) /\ DOMAIN nodes' = DOMAIN nodes
         /\ nodes'[id].members = keyed(program[top], id) \o gathered[top]
         /\ nodes'[id].discriminator = IF program[top].kind \in UnionKinds THEN findDiscriminatorProperty(nodes, partsOf(top)) ELSE 0
         /\ \A i \in DOMAIN nodes \ {id} : nodes'[i] = nodes[i]
         /\ stack' = SubSeq(stack, 1, Len(stack) - 1)
         /\ cache' = cache /\ gathered' = gathered /\ Grows /\ build' = build
<1>1. /\ top \in DOMAIN program /\ Len(stack) \in DOMAIN stack /\ stack[Len(stack)] = top
      /\ stack # <<>> /\ nodes # <<>> /\ Typed
  <2>1. stack # <<>> /\ nodes # <<>> /\ Typed
    BY DEF Close, IRInv
  <2>2. stack \in Seq(DOMAIN program)
    BY <2>1 DEF Typed
  <2> QED
    BY <2>1, <2>2 DEF top
<1>2. isOpen(top) /\ cache[top] # 0 /\ Cached /\ Gathered
  BY <1>1 DEF isOpen, IRInv, Nested
<1>3. id \in DOMAIN nodes
  BY <1>1, <1>2 DEF Cached
<1>4. Len(gathered[top]) = Len(program[top].members)
  <2>1. gathered[top] \in Seq(Position \X Position) /\ program[top] \in PlainType
    BY <1>1 DEF Typed
  <2>2. program[top].members \in Seq(Position \X Position)
    BY <2>1 DEF PlainType
  <2>3. Len(gathered[top]) <= Len(program[top].members)
    BY <1>1, <1>2 DEF Gathered
  <2>4. ~(Len(gathered[top]) < Len(program[top].members))
    BY <1>1 DEF Close, hasMember
  <2> DEFINE g == gathered[top]
             m == program[top].members
  <2> HIDE DEF g, m
  <2>5. g \in Seq(Position \X Position) /\ m \in Seq(Position \X Position) /\ Len(g) <= Len(m) /\ ~(Len(g) < Len(m))
    BY <2>1, <2>2, <2>3, <2>4 DEF g, m
  <2>6. Len(g) = Len(m)
    BY <2>5
  <2> QED
    BY <2>6 DEF g, m
<1> DEFINE ms == keyed(program[top], id) \o gathered[top]
           tag == IF program[top].kind \in UnionKinds THEN findDiscriminatorProperty(nodes, partsOf(top)) ELSE 0
<1>5. nodes' = [nodes EXCEPT ![id].members = ms, ![id].discriminator = tag]
  BY DEF Close, partsOf
<1>6. stack' = SubSeq(stack, 1, Len(stack) - 1) /\ cache' = cache /\ gathered' = gathered /\ program' = program /\ build' = build
  BY DEF Close
<1>7. nodes \in Seq(NodeRecord) /\ nodes[id] \in NodeRecord
  BY <1>1, <1>3 DEF Typed
<1>g. gathered[top] \in Seq(Position \X Position) /\ Len(gathered[top]) \in Nat
      /\ DOMAIN gathered[top] = 1..Len(gathered[top])
  BY <1>1 DEF Typed
<1>8. ms \in Seq(Nat \X Position)
  <2>1. gathered[top] \in Seq(Nat \X Position)
    BY <1>g DEF Position
  <2>2. keyed(program[top], id) \in Seq(Nat \X Position)
    <3>1. id + 1 \in Position /\ 0 \in Nat
      BY <1>3, <1>7 DEF Position
    <3>2. <<0, id + 1>> \in Nat \X Position
      BY <3>1
    <3>3. CASE program[top].kind = "record"
      <4> DEFINE p == <<0, id + 1>>
      <4>1. keyed(program[top], id) = <<p>>
        BY <3>3 DEF keyed
      <4>2. p \in Nat \X Position
        BY <3>2
      <4> HIDE DEF p
      <4>3. <<p>> \in Seq(Nat \X Position)
        BY <4>2
      <4> QED
        BY <4>1, <4>3
    <3>4. CASE program[top].kind # "record"
      BY <3>4 DEF keyed
    <3> QED
      BY <3>3, <3>4
  <2> DEFINE g == gathered[top]
             k == keyed(program[top], id)
  <2> HIDE DEF g, k
  <2>3. k \o g \in Seq(Nat \X Position)
    BY <2>1, <2>2 DEF g, k
  <2> QED
    BY <2>3 DEF g, k
<1>9. tag \in Nat
  <2>1. partsOf(top) \in Seq(Position) /\ DOMAIN partsOf(top) = DOMAIN gathered[top]
    BY <1>g DEF partsOf
  <2>2. \A p \in DOMAIN partsOf(top) : partsOf(top)[p] \in DOMAIN nodes
    BY <1>1, <1>2, <2>1 DEF partsOf, Gathered, leads
  <2>3. findDiscriminatorProperty(nodes, partsOf(top)) \in Nat
    BY <1>7, <2>1, <2>2, Discriminator
  <2> QED
    BY <2>3
<1> HIDE DEF ms, tag
<1>10. nodes' \in Seq(NodeRecord) /\ DOMAIN nodes' = DOMAIN nodes
  <2> DEFINE r == [nodes[id] EXCEPT !.members = ms, !.discriminator = tag]
  <2>1. r \in NodeRecord
    BY <1>7, <1>8, <1>9 DEF NodeRecord
  <2>2. nodes' = [nodes EXCEPT ![id] = r]
    BY <1>5
  <2> HIDE DEF r
  <2> QED
    BY <1>3, <1>7, <2>1, <2>2
<1>11. nodes'[id].members = ms /\ nodes'[id].discriminator = tag
  BY <1>3, <1>5, <1>7 DEF NodeRecord
<1>12. \A i \in DOMAIN nodes \ {id} : nodes'[i] = nodes[i]
  BY <1>3, <1>5, <1>7
<1>13. nodes'[id].kind = nodes[id].kind /\ nodes'[id].name = nodes[id].name /\ nodes'[id].value = nodes[id].value /\ nodes'[id].target = nodes[id].target
  BY <1>3, <1>5, <1>7 DEF NodeRecord
<1>14. Grows
  BY <1>6, <1>10, <1>12, <1>13 DEF Grows
<1> QED
  BY <1>1, <1>2, <1>3, <1>4, <1>6, <1>10, <1>11, <1>12, <1>14 DEF ms, tag

(* The innermost call has one member more.                                 *)
LEMMA Taking ==
  ASSUME IRInv, hasMember, NEW id, Takes(id), program' = program,
         NEW n, n = Len(gathered[top]) + 1
  PROVE  /\ gathered' \in [DOMAIN program -> Seq(Position \X Position)]
         /\ n \in DOMAIN program[top].members /\ Len(gathered'[top]) = n
         /\ \A t \in DOMAIN program : t # top => gathered'[t] = gathered[t]
         /\ \A t \in DOMAIN program : \A j \in DOMAIN gathered[t] :
              j \in DOMAIN gathered'[t] /\ gathered'[t][j] = gathered[t][j]
         /\ \A t \in DOMAIN program : \A j \in DOMAIN gathered'[t] :
              \/ j \in DOMAIN gathered[t] /\ gathered'[t][j] = gathered[t][j]
              \/ t = top /\ j = n /\ j \notin DOMAIN gathered[t]
                 /\ gathered'[t][j] = <<member[1], id>> /\ gathered'[t][j][2] = id
<1>1. /\ top \in DOMAIN program /\ gathered[top] \in Seq(Position \X Position)
      /\ n \in DOMAIN program[top].members /\ member[1] \in Position
  BY Members
<1>2. gathered \in [DOMAIN program -> Seq(Position \X Position)]
  BY DEF IRInv, Typed
<1> DEFINE g == gathered[top]
           x == <<member[1], id>>
<1>3. x \in Position \X Position /\ x[2] = id
  BY <1>1 DEF Takes
<1>4. gathered' = [gathered EXCEPT ![top] = Append(g, x)]
  BY DEF Takes
<1>5. g \in Seq(Position \X Position) /\ n = Len(g) + 1
  BY <1>1
<1> HIDE DEF g, x
<1>6. /\ Append(g, x) \in Seq(Position \X Position) /\ Len(Append(g, x)) = n /\ Append(g, x)[n] = x
      /\ n \notin DOMAIN g /\ DOMAIN Append(g, x) = DOMAIN g \cup {n}
      /\ \A j \in DOMAIN g : Append(g, x)[j] = g[j]
  BY <1>3, <1>5
<1>7. gathered'[top] = Append(g, x) /\ \A t \in DOMAIN program : t # top => gathered'[t] = gathered[t]
  BY <1>1, <1>2, <1>4
<1>8. gathered' \in [DOMAIN program -> Seq(Position \X Position)]
  BY <1>1, <1>2, <1>4, <1>6
<1>9. \A t \in DOMAIN program : \A j \in DOMAIN gathered[t] :
              j \in DOMAIN gathered'[t] /\ gathered'[t][j] = gathered[t][j]
  <2> SUFFICES ASSUME NEW t \in DOMAIN program, NEW j \in DOMAIN gathered[t]
               PROVE  j \in DOMAIN gathered'[t] /\ gathered'[t][j] = gathered[t][j]
    OBVIOUS
  <2>1. CASE t = top
    BY <1>6, <1>7, <2>1 DEF g
  <2>2. CASE t # top
    BY <1>7, <2>2
  <2> QED
    BY <2>1, <2>2
<1>10. \A t \in DOMAIN program : \A j \in DOMAIN gathered'[t] :
              \/ j \in DOMAIN gathered[t] /\ gathered'[t][j] = gathered[t][j]
              \/ t = top /\ j = n /\ j \notin DOMAIN gathered[t] /\ gathered'[t][j] = x
  <2> SUFFICES ASSUME NEW t \in DOMAIN program, NEW j \in DOMAIN gathered'[t]
               PROVE  \/ j \in DOMAIN gathered[t] /\ gathered'[t][j] = gathered[t][j]
                      \/ t = top /\ j = n /\ j \notin DOMAIN gathered[t] /\ gathered'[t][j] = x
    OBVIOUS
  <2>1. CASE t = top
    BY <1>6, <1>7, <2>1 DEF g
  <2>2. CASE t # top
    BY <1>7, <2>2
  <2> QED
    BY <2>1, <2>2
<1> QED
  BY <1>1, <1>3, <1>6, <1>7, <1>8, <1>9, <1>10 DEF x

(* Who leads to a type keeps leading there.                                *)
LEMMA LeadsKept ==
  ASSUME Grows, nodes # <<>>, Typed, NEW i, NEW u \in DOMAIN program, leads(i, u)
  PROVE  leads(i, u)'
<1>1. i \in DOMAIN nodes /\ cache[u] \in DOMAIN nodes /\ resolved(nodes, i) = cache[u]
  BY DEF leads
<1>2. cache[u] # 0
  BY <1>1 DEF Typed
<1>3. cache'[u] = cache[u]
  BY <1>2 DEF Grows
<1>4. i \in DOMAIN nodes' /\ cache[u] \in DOMAIN nodes'
  BY <1>1 DEF Grows
<1>5. nodes'[i].kind = nodes[i].kind /\ nodes'[i].target = nodes[i].target
  BY <1>1 DEF Grows
<1>6. resolved(nodes', i) = resolved(nodes, i)
  BY <1>5 DEF resolved
<1> QED
  BY <1>1, <1>3, <1>4, <1>6 DEF leads

(* A member is gathered under its key, by a node that leads to its type.   *)
LEMMA GatheredKept ==
  ASSUME IRInv, hasMember, NEW id, Takes(id), Grows, NEW u, u = member[2], leads(id, u)'
  PROVE  Gathered'
<1>0. Typed /\ nodes # <<>> /\ Gathered /\ program' = program
  BY Members DEF IRInv, Grows
<1>1. u \in DOMAIN program /\ top \in DOMAIN program
  BY Members
<1> DEFINE n == Len(gathered[top]) + 1
<1>2. /\ n \in DOMAIN program[top].members /\ Len(gathered'[top]) = n
      /\ \A t \in DOMAIN program : t # top => gathered'[t] = gathered[t]
      /\ \A t \in DOMAIN program : \A j \in DOMAIN gathered'[t] :
              \/ j \in DOMAIN gathered[t] /\ gathered'[t][j] = gathered[t][j]
              \/ t = top /\ j = n /\ gathered'[t][j] = <<member[1], id>>
  BY <1>0, Taking
<1>3. member = program[top].members[n]
  BY DEF member
<1> HIDE DEF n
<1>4. ASSUME NEW t \in DOMAIN program
      PROVE  Len(gathered'[t]) <= Len(program[t].members)
  <2>1. CASE t = top
    <3>1. program[top] \in PlainType
      BY <1>0, <1>1 DEF Typed
    <3>2. program[top].members \in Seq(Position \X Position)
      BY <3>1 DEF PlainType
    <3> QED
      BY <1>2, <2>1, <3>2
  <2>2. CASE t # top
    BY <1>0, <1>2, <2>2 DEF Gathered
  <2> QED
    BY <2>1, <2>2
<1>5. ASSUME NEW t \in DOMAIN program, NEW j \in DOMAIN gathered'[t]
      PROVE  gathered'[t][j][1] = program[t].members[j][1] /\ leads(gathered[t][j][2], program[t].members[j][2])'
  <2>1. CASE j \in DOMAIN gathered[t] /\ gathered'[t][j] = gathered[t][j]
    <3> DEFINE i == gathered[t][j][2]
               v == program[t].members[j][2]
    <3>1. gathered[t][j][1] = program[t].members[j][1] /\ leads(i, v)
      BY <1>0, <2>1 DEF Gathered
    <3>2. v \in DOMAIN program
      <4>1. j \in DOMAIN program[t].members
        <5>1. gathered[t] \in Seq(Position \X Position)
          BY <1>0 DEF Typed
        <5>2. program[t] \in PlainType
          BY <1>0 DEF Typed
        <5>3. program[t].members \in Seq(Position \X Position)
          BY <5>2 DEF PlainType
        <5>4. Len(gathered[t]) <= Len(program[t].members)
          BY <1>0 DEF Gathered
        <5> QED
          BY <2>1, <5>1, <5>3, <5>4
      <4>2. v \in Children(program, t)
        BY <4>1 DEF Children
      <4>3. IsProgram(program)
        BY <1>0 DEF IRInv
      <4> QED
        BY <4>2, <4>3 DEF IsProgram
    <3> HIDE DEF i, v
    <3>3. i \in DOMAIN nodes' /\ cache'[v] \in DOMAIN nodes' /\ resolved(nodes', i) = cache'[v]
      BY <1>0, <3>1, <3>2, LeadsKept DEF leads
    <3>4. gathered'[t][j][2] = i /\ program'[t].members[j][2] = v
      BY <1>0, <2>1 DEF i, v
    <3>5. leads(gathered[t][j][2], program[t].members[j][2])'
      BY <3>3, <3>4 DEF leads
    <3> QED
      BY <2>1, <3>1, <3>5
  <2>2. CASE t = top /\ j = n /\ gathered'[t][j] = <<member[1], id>>
    <3>1. gathered'[t][j][1] = program[t].members[j][1]
      BY <1>3, <2>2
    <3>2. gathered'[t][j][2] = id /\ program'[t].members[j][2] = u
      BY <1>0, <1>3, <2>2
    <3>3. id \in DOMAIN nodes' /\ cache'[u] \in DOMAIN nodes' /\ resolved(nodes', id) = cache'[u]
      BY DEF leads
    <3>4. leads(gathered[t][j][2], program[t].members[j][2])'
      BY <3>2, <3>3 DEF leads
    <3> QED
      BY <3>1, <3>4
  <2> QED
    BY <1>2, <2>1, <2>2
<1> QED
  BY <1>0, <1>4, <1>5 DEF Gathered

(* A call is made.                                                         *)
LEMMA Opening ==
  ASSUME IRInv, nodes # <<>>, NEW u \in DOMAIN program, cache[u] = 0, stack' = Append(stack, u), program' = program
  PROVE  /\ stack' \in Seq(DOMAIN program) /\ ~isOpen(u)
         /\ \A t \in DOMAIN program : isOpen(t)' <=> isOpen(t) \/ t = u
         /\ \A i \in DOMAIN stack' : (i \in DOMAIN stack /\ stack'[i] = stack[i]) \/ (i = Len(stack) + 1 /\ stack'[i] = u)
         /\ \A i \in DOMAIN stack : i \in DOMAIN stack' /\ stack'[i] = stack[i]
         /\ \A i, j \in DOMAIN stack' : stack'[i] = stack'[j] => i = j
<1>1. stack \in Seq(DOMAIN program) /\ Nested
  BY DEF IRInv, Typed
<1>2. ~isOpen(u)
  BY <1>1 DEF isOpen, Nested
<1> DEFINE n == Len(stack) + 1
<1>3. /\ stack' \in Seq(DOMAIN program) /\ stack'[n] = u /\ n \notin DOMAIN stack /\ DOMAIN stack' = DOMAIN stack \cup {n}
      /\ \A i \in DOMAIN stack : stack'[i] = stack[i]
  BY <1>1
<1> HIDE DEF n
<1>4. \A i \in DOMAIN stack' : (i \in DOMAIN stack /\ stack'[i] = stack[i]) \/ (i = n /\ stack'[i] = u)
  BY <1>3
<1>5. \A t \in DOMAIN program : isOpen(t)' <=> isOpen(t) \/ t = u
  BY <1>3 DEF isOpen
<1>6. \A i, j \in DOMAIN stack' : stack'[i] = stack'[j] => i = j
  BY <1>1, <1>2, <1>4 DEF isOpen, Nested
<1> QED
  BY <1>2, <1>3, <1>4, <1>5, <1>6 DEF n

(* A call returns.                                                         *)
LEMMA Leaving ==
  ASSUME IRInv, stack # <<>>, nodes # <<>>, stack' = SubSeq(stack, 1, Len(stack) - 1), program' = program
  PROVE  /\ stack' \in Seq(DOMAIN program)
         /\ \A t \in DOMAIN program : isOpen(t)' <=> isOpen(t) /\ t # top
         /\ \A i \in DOMAIN stack' : i \in DOMAIN stack /\ stack'[i] = stack[i]
<1>1. stack \in Seq(DOMAIN program) /\ Nested
  BY DEF IRInv, Typed
<1> DEFINE n == Len(stack)
<1>2. n \in Nat /\ n >= 1 /\ n - 1 \in Nat /\ DOMAIN stack = 1..n /\ n \in DOMAIN stack /\ top = stack[n]
  BY <1>1 DEF top
<1>3. /\ stack' \in Seq(DOMAIN program) /\ DOMAIN stack' = 1..(n - 1)
      /\ \A i \in 1..(n - 1) : stack'[i] = stack[i]
  BY <1>1, <1>2
<1> HIDE DEF n
<1>4. \A i \in DOMAIN stack' : i \in DOMAIN stack /\ stack'[i] = stack[i] /\ i # n
  BY <1>2, <1>3
<1>5. \A i \in DOMAIN stack : i # n => i \in DOMAIN stack'
  BY <1>2, <1>3
<1>6. ASSUME NEW t \in DOMAIN program PROVE isOpen(t)' <=> isOpen(t) /\ t # top
  <2>1. ASSUME isOpen(t)' PROVE isOpen(t) /\ t # top
    <3>1. PICK i \in DOMAIN stack' : stack'[i] = t
      BY <2>1 DEF isOpen
    <3>2. i \in DOMAIN stack /\ stack[i] = t /\ i # n
      BY <1>4, <3>1
    <3> QED
      BY <1>1, <1>2, <3>2 DEF isOpen, Nested
  <2>2. ASSUME isOpen(t), t # top PROVE isOpen(t)'
    <3>1. PICK i \in DOMAIN stack : stack[i] = t
      BY <2>2 DEF isOpen
    <3>2. i # n
      BY <1>2, <2>2, <3>1
    <3>3. i \in DOMAIN stack' /\ stack'[i] = t
      BY <1>4, <1>5, <3>1, <3>2
    <3> QED
      BY <3>3 DEF isOpen
  <2> QED
    BY <2>1, <2>2
<1> QED
  BY <1>3, <1>4, <1>6

(* The nodes of the types that are done with are left alone.               *)
LEMMA FilledKept ==
  ASSUME IRInv, hasMember, NEW id, Takes(id), Grows,
         \A i \in DOMAIN nodes : i \in DOMAIN nodes' /\ nodes'[i] = nodes[i],
         \A t \in DOMAIN program : isOpen(t) \/ (cache[t] = 0 /\ cache'[t] # 0) => isOpen(t)'
  PROVE  Filled'
<1>0. Typed /\ nodes # <<>> /\ Filled /\ Cached /\ program' = program
  BY Members DEF IRInv, Grows
<1>1. top \in DOMAIN program /\ isOpen(top)
  BY Members
<1>2. \A t \in DOMAIN program : t # top => gathered'[t] = gathered[t]
  BY <1>0, Taking
<1> SUFFICES ASSUME NEW t \in DOMAIN program, cache'[t] # 0, ~isOpen(t)'
             PROVE  /\ Len(gathered'[t]) = Len(program[t].members)
                    /\ nodes'[cache'[t]].members = keyed(program[t], cache'[t]) \o gathered'[t]
  BY <1>0 DEF Filled
<1>3. ~isOpen(t) /\ cache[t] # 0 /\ t # top
  BY <1>1
<1>4. gathered'[t] = gathered[t] /\ cache'[t] = cache[t]
  BY <1>2, <1>3 DEF Grows
<1>5. cache[t] \in DOMAIN nodes
  BY <1>0, <1>3 DEF Cached
<1>6. /\ Len(gathered[t]) = Len(program[t].members)
      /\ nodes[cache[t]].members = keyed(program[t], cache[t]) \o gathered[t]
  BY <1>0, <1>3 DEF Filled
<1>7. nodes'[cache'[t]] = nodes[cache[t]]
  BY <1>4, <1>5
<1> QED
  BY <1>4, <1>6, <1>7

(* A build begins with nothing extracted.                                  *)
LEMMA InitIR == ASSUME Unnumbered, ExtractionInit PROVE IRInv
<1>1. build \in Builds /\ program = <<>> /\ nodes = <<>> /\ cache = <<>> /\ stack = <<>> /\ gathered = <<>>
  BY DEF ExtractionInit
<1>2. build \in Seq(Seq(PlainType)) /\ \A i \in DOMAIN build : IsProgram(build[i])
  BY <1>1, BuildsAssumption DEF Unnumbered
<1>3. program \in Seq(PlainType) /\ nodes \in Seq(NodeRecord) /\ DOMAIN program = {}
  BY <1>1
<1>4. stack \in Seq(DOMAIN program)
  BY <1>1
<1>5. cache \in [DOMAIN program -> Nat] /\ gathered \in [DOMAIN program -> Seq(Position \X Position)]
  BY <1>1
<1>6. Typed
  BY <1>2, <1>3, <1>4, <1>5 DEF Typed
<1> QED
  BY <1>1, <1>6 DEF IRInv

(* The type at the callsite is the first to have a node.                   *)
LEMMA ExtractIR == ASSUME IRInv, Extract PROVE IRInv'
<1>1. Typed /\ nodes = <<>> /\ stack = <<>> /\ build # <<>>
  BY DEF IRInv, Extract
<1>2. /\ program' = Head(build) /\ build' = Tail(build) /\ nodes' = placeholder(program'[1]) /\ stack' = <<1>>
      /\ cache' = [t \in DOMAIN program' |-> IF t = 1 THEN 1 ELSE 0] /\ gathered' = [t \in DOMAIN program' |-> <<>>]
  BY DEF Extract
<1>3. build \in Seq(Seq(PlainType)) /\ \A i \in DOMAIN build : IsProgram(build[i])
  BY <1>1 DEF Typed
<1>4. program' \in Seq(PlainType) /\ IsProgram(program') /\ build' \in Seq(Seq(PlainType))
  <2>1. 1 \in DOMAIN build /\ Head(build) = build[1]
    BY <1>1, <1>3
  <2> QED
    BY <1>1, <1>2, <1>3, <2>1
<1>5. \A i \in DOMAIN build' : IsProgram(build'[i])
  <2>1. \A i \in DOMAIN build' : i + 1 \in DOMAIN build /\ build'[i] = build[i + 1]
    BY <1>1, <1>2, <1>3
  <2> QED
    BY <1>3, <2>1
<1>6. 1 \in DOMAIN program' /\ program'[1] \in PlainType
  <2>1. program' # <<>>
    BY <1>4 DEF IsProgram
  <2> QED
    BY <1>4, <2>1
<1>7. PICK type \in PlainType : type = program'[1]
  BY <1>6
<1>8. /\ nodes' \in Seq(NodeRecord) /\ Len(nodes') = IF type.kind = "record" THEN 2 ELSE 1
      /\ nodes'[1] = Node(type, <<>>)
  BY <1>2, <1>7, Placeholders
<1>d. type.kind = "record" => nodes'[2] = Key
  BY <1>2, <1>7, Placeholders
<1>9. /\ 1 \in DOMAIN nodes' /\ nodes' # <<>>
      /\ \A i \in DOMAIN nodes' : i = 1 \/ (type.kind = "record" /\ i = 2)
  BY <1>8
<1>e. type.kind = "record" => 2 \in DOMAIN nodes'
  BY <1>8
<1>10. stack' \in Seq(DOMAIN program') /\ \A i \in DOMAIN stack' : i = 1 /\ stack'[i] = 1
  BY <1>2, <1>6
<1>11. cache' \in [DOMAIN program' -> Nat] /\ cache'[1] = 1 /\ \A t \in DOMAIN program' : cache'[t] # 0 => t = 1
  BY <1>2, <1>6
<1>12. /\ gathered' \in [DOMAIN program' -> Seq(Position \X Position)]
       /\ \A t \in DOMAIN program' : gathered'[t] = <<>>
  <2>1. <<>> \in Seq(Position \X Position)
    OBVIOUS
  <2> QED
    BY <1>2, <2>1
<1>13. Typed'
  BY <1>4, <1>5, <1>8, <1>10, <1>11, <1>12 DEF Typed
<1>14. nodes'[1].kind = type.kind /\ nodes'[1].name = type.name /\ nodes'[1].value = type.value
  BY <1>8 DEF Node
<1>15. Cached'
  <2> SUFFICES ASSUME NEW t \in DOMAIN program', cache'[t] # 0
               PROVE  /\ cache'[t] \in DOMAIN nodes'
                      /\ nodes'[cache'[t]].kind = program'[t].kind /\ nodes'[cache'[t]].name = program'[t].name
                      /\ nodes'[cache'[t]].value = program'[t].value
                      /\ nodes'[cache'[t]].kind = "record" =>
                           cache'[t] + 1 \in DOMAIN nodes' /\ nodes'[cache'[t] + 1].kind = "primitive"
    BY DEF Cached
  <2>1. t = 1 /\ cache'[t] = 1 /\ cache'[t] + 1 = 2
    BY <1>11
  <2>2. nodes'[1].kind = "record" => 2 \in DOMAIN nodes' /\ nodes'[2].kind = "primitive"
    BY <1>14, <1>d, <1>e DEF Key
  <2> QED
    BY <1>7, <1>9, <1>14, <2>1, <2>2
<1>16. OneNodeEach'
  BY <1>11 DEF OneNodeEach
<1>17. Accounted'
  <2> SUFFICES ASSUME NEW i \in DOMAIN nodes'
               PROVE  cache'[1] # 0 /\ isOf(i, 1)'
    BY <1>6 DEF Accounted
  <2>1. CASE i = 1
    BY <1>11, <2>1 DEF isOf
  <2>2. CASE type.kind = "record" /\ i = 2
    BY <1>7, <1>11, <1>d, <2>2 DEF isOf, Key
  <2> QED
    BY <1>9, <2>1, <2>2
<1>18. Nested'
  BY <1>10, <1>11 DEF Nested
<1>19. Gathered'
  <2> SUFFICES ASSUME NEW t \in DOMAIN program'
               PROVE  Len(gathered'[t]) <= Len(program'[t].members) /\ DOMAIN gathered'[t] = {}
    BY DEF Gathered
  <2>1. gathered'[t] = <<>>
    BY <1>12
  <2>2. program'[t] \in PlainType
    BY <1>4
  <2>3. program'[t].members \in Seq(Position \X Position)
    BY <2>2 DEF PlainType
  <2> QED
    BY <2>1, <2>3
<1>20. Filled'
  <2>1. isOpen(1)'
    BY <1>2 DEF isOpen
  <2> QED
    BY <1>11, <2>1 DEF Filled
<1> QED
  BY <1>4, <1>9, <1>11, <1>13, <1>15, <1>16, <1>17, <1>18, <1>19, <1>20 DEF IRInv

(* A type is entered.                                                      *)
LEMMA EnterIR == ASSUME IRInv, Enter PROVE IRInv'
<1>1. PICK u : u = member[2]
  OBVIOUS
<1>2. PICK id : id = Len(nodes) + 1
  OBVIOUS
<1>3. /\ hasMember /\ u \in DOMAIN program /\ cache[u] = 0 /\ id \in Position
      /\ nodes' \in Seq(NodeRecord) /\ id \in DOMAIN nodes' /\ id \notin DOMAIN nodes
      /\ nodes'[id] = Node(program[u], <<>>)
      /\ cache' = [cache EXCEPT ![u] = id] /\ stack' = Append(stack, u)
      /\ Takes(id) /\ Grows /\ build' = build
  BY <1>1, <1>2, Entering
<1>4. \A i \in DOMAIN nodes : i \in DOMAIN nodes' /\ nodes'[i] = nodes[i]
  BY <1>1, <1>2, Entering
<1>5. program[u].kind # "record" => DOMAIN nodes' = DOMAIN nodes \cup {id}
  BY <1>1, <1>2, Entering
<1>6. program[u].kind = "record" =>
         DOMAIN nodes' = DOMAIN nodes \cup {id, id + 1} /\ nodes'[id + 1] = Key
  BY <1>1, <1>2, Entering
<1>7. /\ Typed /\ nodes # <<>> /\ program' = program /\ IsProgram(program) /\ cache[1] = 1
      /\ Cached /\ OneNodeEach /\ Accounted /\ Nested
  BY <1>3, Members DEF IRInv, Grows
<1>8. 1 \in DOMAIN program
  BY <1>7 DEF IsProgram, Typed
<1>9. /\ stack' \in Seq(DOMAIN program)
      /\ \A t \in DOMAIN program : isOpen(t)' <=> isOpen(t) \/ t = u
      /\ \A i \in DOMAIN stack' : (i \in DOMAIN stack /\ stack'[i] = stack[i]) \/ stack'[i] = u
      /\ \A i, j \in DOMAIN stack' : stack'[i] = stack'[j] => i = j
  BY <1>3, <1>7, Opening
<1>10. gathered' \in [DOMAIN program -> Seq(Position \X Position)]
  BY <1>3, <1>7, Taking
<1>11. cache' \in [DOMAIN program -> Nat] /\ cache'[u] = id /\ id # 0 /\ \A t \in DOMAIN program : t # u => cache'[t] = cache[t]
  BY <1>3, <1>7 DEF Typed, Position
<1>12. Typed'
  BY <1>3, <1>7, <1>9, <1>10, <1>11 DEF Typed
<1>13. nodes'[id].kind = program[u].kind /\ nodes'[id].name = program[u].name /\ nodes'[id].value = program[u].value
  BY <1>3 DEF Node
<1>14. \A t \in DOMAIN program : t # u /\ cache'[t] # 0 => cache'[t] = cache[t] /\ cache[t] # 0 /\ cache[t] \in DOMAIN nodes
  BY <1>7, <1>11 DEF Cached
<1>15. Cached'
  <2> SUFFICES ASSUME NEW t \in DOMAIN program, cache'[t] # 0, NEW c, c = cache'[t]
               PROVE  /\ c \in DOMAIN nodes'
                      /\ nodes'[c].kind = program[t].kind /\ nodes'[c].name = program[t].name
                      /\ nodes'[c].value = program[t].value
                      /\ nodes'[c].kind = "record" => c + 1 \in DOMAIN nodes' /\ nodes'[c + 1].kind = "primitive"
    BY <1>7 DEF Cached
  <2>1. CASE t = u
    <3>1. c = id
      BY <1>11, <2>1
    <3>2. program[u].kind = "record" => id + 1 \in DOMAIN nodes' /\ nodes'[id + 1].kind = "primitive"
      BY <1>6 DEF Key
    <3> QED
      BY <1>3, <1>13, <2>1, <3>1, <3>2
  <2>2. CASE t # u
    <3>1. c = cache[t] /\ cache[t] # 0 /\ c \in DOMAIN nodes
      BY <1>14, <2>2
    <3>2. /\ nodes[c].kind = program[t].kind /\ nodes[c].name = program[t].name /\ nodes[c].value = program[t].value
      BY <1>7, <3>1 DEF Cached
    <3>3. nodes[c].kind = "record" => c + 1 \in DOMAIN nodes /\ nodes[c + 1].kind = "primitive"
      BY <1>7, <3>1 DEF Cached
    <3>4. nodes'[c] = nodes[c] /\ c \in DOMAIN nodes'
      BY <1>4, <3>1
    <3>5. nodes[c].kind = "record" => c + 1 \in DOMAIN nodes' /\ nodes'[c + 1].kind = "primitive"
      BY <1>4, <3>3
    <3> QED
      BY <3>2, <3>4, <3>5
  <2> QED
    BY <2>1, <2>2
<1>16. OneNodeEach'
  <2> SUFFICES ASSUME NEW t \in DOMAIN program, NEW v \in DOMAIN program, cache'[t] = cache'[v], cache'[t] # 0
               PROVE  t = v
    BY <1>7 DEF OneNodeEach
  <2> QED
    BY <1>3, <1>7, <1>11, <1>14 DEF OneNodeEach
<1>17. Accounted'
  <2> SUFFICES ASSUME NEW i \in DOMAIN nodes'
               PROVE  \E t \in DOMAIN program : cache'[t] # 0 /\ isOf(i, t)'
    BY <1>7 DEF Accounted
  <2>1. CASE i \in DOMAIN nodes
    <3>1. PICK t \in DOMAIN program : cache[t] # 0 /\ isOf(i, t)
      BY <1>7, <2>1 DEF Accounted
    <3>2. t # u /\ cache'[t] = cache[t] /\ nodes'[i] = nodes[i]
      BY <1>3, <1>4, <1>11, <2>1, <3>1
    <3>3. isOf(i, t)'
      BY <1>7, <3>1, <3>2 DEF isOf
    <3> QED
      BY <3>1, <3>2, <3>3
  <2>2. CASE i = id
    <3>1. isOf(i, u)'
      BY <1>11, <2>2 DEF isOf
    <3> QED
      BY <1>3, <1>11, <3>1
  <2>3. CASE program[u].kind = "record" /\ i = id + 1
    <3>1. isOf(i, u)'
      BY <1>6, <1>7, <1>11, <2>3 DEF isOf, Key
    <3> QED
      BY <1>3, <1>11, <3>1
  <2> QED
    BY <1>5, <1>6, <2>1, <2>2, <2>3
<1>18. Nested'
  <2>1. \A i \in DOMAIN stack' : cache'[stack'[i]] # 0
    <3> SUFFICES ASSUME NEW i \in DOMAIN stack' PROVE cache'[stack'[i]] # 0
      OBVIOUS
    <3>1. CASE stack'[i] = u
      BY <1>11, <3>1
    <3>2. CASE i \in DOMAIN stack /\ stack'[i] = stack[i]
      <4>1. stack[i] \in DOMAIN program /\ cache[stack[i]] # 0
        BY <1>7, <3>2 DEF Nested, Typed
      <4>2. cache'[stack[i]] = cache[stack[i]]
        BY <1>3, <1>11, <4>1
      <4> QED
        BY <3>2, <4>1, <4>2
    <3> QED
      BY <1>9, <3>1, <3>2
  <2> QED
    BY <1>9, <2>1 DEF Nested
<1>19. leads(id, u)'
  <2>1. nodes'[id].kind # "ref"
    <3>1. program[u] \in PlainType
      BY <1>3, <1>7 DEF Typed
    <3>2. program[u].kind \in Kinds
      BY <3>1 DEF PlainType
    <3> QED
      BY <1>13, <3>2 DEF Kinds, Leaves, RefKinds, OtherKinds, UnionKinds
  <2> QED
    BY <1>3, <1>11, <2>1 DEF leads, resolved
<1>20. Gathered'
  BY <1>1, <1>3, <1>19, GatheredKept
<1>21. Filled'
  <2>1. \A t \in DOMAIN program : isOpen(t) \/ (cache[t] = 0 /\ cache'[t] # 0) => isOpen(t)'
    BY <1>9, <1>11
  <2> QED
    BY <1>3, <1>4, <2>1, FilledKept
<1>22. nodes' # <<>> /\ cache'[1] = 1
  <2>1. nodes' # <<>>
    BY <1>3
  <2>2. cache'[1] = 1
    BY <1>3, <1>7, <1>8, <1>11
  <2> QED
    BY <2>1, <2>2
<1> QED
  BY <1>7, <1>12, <1>15, <1>16, <1>17, <1>18, <1>20, <1>21, <1>22 DEF IRInv

(* A type is sighted again.                                                *)
LEMMA ResightIR == ASSUME IRInv, Resight PROVE IRInv'
<1>1. PICK u : u = member[2]
  OBVIOUS
<1>2. PICK x : x = cache[u]
  OBVIOUS
<1>3. /\ hasMember /\ x \in DOMAIN nodes /\ nodes' \in Seq(NodeRecord)
      /\ cache' = cache /\ stack' = stack /\ Grows /\ build' = build
  BY <1>1, <1>2, Resighting
<1>4. \A i \in DOMAIN nodes : i \in DOMAIN nodes' /\ nodes'[i] = nodes[i]
  BY <1>1, <1>2, Resighting
<1>5. \/ /\ nodes[x].kind \in RefKinds /\ nodes'[Len(nodes) + 1] = Ref(nodes[x].name, x)
         /\ DOMAIN nodes' = DOMAIN nodes \cup {Len(nodes) + 1}
         /\ Takes(Len(nodes) + 1)
      \/ nodes' = nodes /\ nodes[x].kind \notin RefKinds /\ Takes(x)
  BY <1>1, <1>2, Resighting
<1>6. /\ Typed /\ nodes # <<>> /\ program' = program /\ IsProgram(program) /\ cache[1] = 1
      /\ Cached /\ OneNodeEach /\ Accounted /\ Nested
  BY <1>3, Members DEF IRInv, Grows
<1>7. u \in DOMAIN program /\ cache[u] # 0
  BY <1>1, <1>3, Members DEF Resight
<1>8. /\ nodes[x].kind = program[u].kind /\ nodes[x].name = program[u].name /\ x # 0
  BY <1>2, <1>6, <1>7 DEF Cached
<1>9. PICK id : Takes(id) /\ leads(id, u)'
  <2>1. CASE /\ nodes[x].kind \in RefKinds /\ nodes'[Len(nodes) + 1] = Ref(nodes[x].name, x)
             /\ DOMAIN nodes' = DOMAIN nodes \cup {Len(nodes) + 1}
             /\ Takes(Len(nodes) + 1)
    <3>1. PICK id : id = Len(nodes) + 1
      OBVIOUS
    <3>2. nodes'[id].kind = "ref" /\ nodes'[id].target = x
      BY <2>1, <3>1 DEF Ref
    <3>3. leads(id, u)'
      BY <1>2, <1>3, <1>4, <2>1, <3>1, <3>2 DEF leads, resolved
    <3> QED
      BY <2>1, <3>1, <3>3
  <2>2. CASE nodes' = nodes /\ nodes[x].kind \notin RefKinds /\ Takes(x)
    <3>1. nodes'[x].kind # "ref"
      <4>1. program[u] \in PlainType
        BY <1>6, <1>7 DEF Typed
      <4>2. program[u].kind \in Kinds
        BY <4>1 DEF PlainType
      <4> QED
        BY <1>8, <2>2, <4>2 DEF Kinds, Leaves, RefKinds, OtherKinds, UnionKinds
    <3>2. leads(x, u)'
      BY <1>2, <1>3, <1>4, <3>1 DEF leads, resolved
    <3> QED
      BY <2>2, <3>2
  <2> QED
    BY <1>5, <2>1, <2>2
<1>10. gathered' \in [DOMAIN program -> Seq(Position \X Position)]
  BY <1>3, <1>6, <1>9, Taking
<1>11. Typed'
  BY <1>3, <1>6, <1>10 DEF Typed
<1>12. Cached'
  <2> SUFFICES ASSUME NEW t \in DOMAIN program, cache[t] # 0, NEW c, c = cache[t]
               PROVE  /\ c \in DOMAIN nodes'
                      /\ nodes'[c].kind = program[t].kind /\ nodes'[c].name = program[t].name
                      /\ nodes'[c].value = program[t].value
                      /\ nodes'[c].kind = "record" => c + 1 \in DOMAIN nodes' /\ nodes'[c + 1].kind = "primitive"
    BY <1>3, <1>6 DEF Cached
  <2>1. /\ c \in DOMAIN nodes /\ nodes[c].kind = program[t].kind /\ nodes[c].name = program[t].name
        /\ nodes[c].value = program[t].value
    BY <1>6 DEF Cached
  <2>2. nodes[c].kind = "record" => c + 1 \in DOMAIN nodes /\ nodes[c + 1].kind = "primitive"
    BY <1>6 DEF Cached
  <2>3. nodes'[c] = nodes[c] /\ c \in DOMAIN nodes'
    BY <1>4, <2>1
  <2>4. nodes[c].kind = "record" => c + 1 \in DOMAIN nodes' /\ nodes'[c + 1].kind = "primitive"
    BY <1>4, <2>2
  <2> QED
    BY <2>1, <2>3, <2>4
<1>13. OneNodeEach'
  BY <1>3, <1>6 DEF OneNodeEach
<1>14. Accounted'
  <2> SUFFICES ASSUME NEW i \in DOMAIN nodes'
               PROVE  \E t \in DOMAIN program : cache[t] # 0 /\ isOf(i, t)'
    BY <1>3, <1>6 DEF Accounted
  <2>1. CASE i \in DOMAIN nodes
    <3>1. PICK t \in DOMAIN program : cache[t] # 0 /\ isOf(i, t)
      BY <1>6, <2>1 DEF Accounted
    <3>2. nodes'[i] = nodes[i]
      BY <1>4, <2>1
    <3>3. isOf(i, t)'
      BY <1>3, <1>6, <3>1, <3>2 DEF isOf
    <3> QED
      BY <3>1, <3>3
  <2>2. CASE i \notin DOMAIN nodes
    <3>1. nodes[x].kind \in RefKinds /\ nodes'[i] = Ref(nodes[x].name, x)
      BY <1>5, <2>2
    <3>2. /\ nodes'[i].kind = "ref" /\ nodes'[i].target = x /\ nodes'[i].members = <<>>
          /\ nodes'[i].name = program[u].name /\ program[u].kind \in RefKinds
      BY <1>8, <3>1 DEF Ref
    <3>3. isOf(i, u)'
      BY <1>2, <1>3, <1>6, <3>2 DEF isOf
    <3> QED
      BY <1>7, <3>3
  <2> QED
    BY <2>1, <2>2
<1>15. Nested'
  BY <1>3, <1>6 DEF Nested
<1>16. Gathered'
  BY <1>1, <1>3, <1>9, GatheredKept
<1>17. Filled'
  <2>1. \A t \in DOMAIN program : isOpen(t) \/ (cache[t] = 0 /\ cache'[t] # 0) => isOpen(t)'
    BY <1>3 DEF isOpen
  <2> QED
    BY <1>3, <1>4, <1>9, <2>1, FilledKept
<1>18. nodes' # <<>>
  BY <1>3, <1>4
<1> QED
  BY <1>3, <1>6, <1>11, <1>12, <1>13, <1>14, <1>15, <1>16, <1>17, <1>18 DEF IRInv

(* A type is left.                                                         *)
LEMMA CloseIR == ASSUME IRInv, Close PROVE IRInv'
<1>1. PICK id : id = cache[top]
  OBVIOUS
<1>2. /\ top \in DOMAIN program /\ id \in DOMAIN nodes /\ nodes # <<>> /\ isOpen(top)
      /\ Len(gathered[top]) = Len(program[top].members)
      /\ nodes' \in Seq(NodeRecord) /\ DOMAIN nodes' = DOMAIN nodes
      /\ nodes'[id].members = keyed(program[top], id) \o gathered[top]
      /\ stack' = SubSeq(stack, 1, Len(stack) - 1)
      /\ cache' = cache /\ gathered' = gathered /\ Grows /\ build' = build
  BY <1>1, Closing
<1>3. \A i \in DOMAIN nodes \ {id} : nodes'[i] = nodes[i]
  BY <1>1, Closing
<1>4. \A i \in DOMAIN nodes :
        /\ nodes'[i].kind = nodes[i].kind /\ nodes'[i].name = nodes[i].name
        /\ nodes'[i].value = nodes[i].value /\ nodes'[i].target = nodes[i].target
  BY <1>2 DEF Grows
<1>5. /\ Typed /\ stack # <<>> /\ program' = program /\ IsProgram(program) /\ cache[1] = 1
      /\ Cached /\ OneNodeEach /\ Accounted /\ Nested /\ Gathered /\ Filled
  BY <1>2 DEF IRInv, Grows, Close
<1>6. /\ stack' \in Seq(DOMAIN program)
      /\ \A t \in DOMAIN program : isOpen(t)' <=> isOpen(t) /\ t # top
      /\ \A i \in DOMAIN stack' : i \in DOMAIN stack /\ stack'[i] = stack[i]
  BY <1>2, <1>5, Leaving
<1>7. Typed'
  BY <1>2, <1>5, <1>6 DEF Typed
<1>8. Cached'
  <2> SUFFICES ASSUME NEW t \in DOMAIN program, cache[t] # 0, NEW c, c = cache[t]
               PROVE  /\ c \in DOMAIN nodes
                      /\ nodes'[c].kind = program[t].kind /\ nodes'[c].name = program[t].name
                      /\ nodes'[c].value = program[t].value
                      /\ nodes'[c].kind = "record" => c + 1 \in DOMAIN nodes /\ nodes'[c + 1].kind = "primitive"
    BY <1>2, <1>5 DEF Cached
  <2>1. /\ c \in DOMAIN nodes /\ nodes[c].kind = program[t].kind /\ nodes[c].name = program[t].name
        /\ nodes[c].value = program[t].value
    BY <1>5 DEF Cached
  <2>2. nodes[c].kind = "record" => c + 1 \in DOMAIN nodes /\ nodes[c + 1].kind = "primitive"
    BY <1>5 DEF Cached
  <2>3. nodes'[c].kind = nodes[c].kind /\ nodes'[c].name = nodes[c].name /\ nodes'[c].value = nodes[c].value
    BY <1>4, <2>1
  <2>4. nodes[c].kind = "record" => c + 1 \in DOMAIN nodes /\ nodes'[c + 1].kind = "primitive"
    BY <1>4, <2>2
  <2> QED
    BY <2>1, <2>3, <2>4
<1>9. OneNodeEach'
  BY <1>2, <1>5 DEF OneNodeEach
<1>10. Accounted'
  <2> SUFFICES ASSUME NEW i \in DOMAIN nodes
               PROVE  \E t \in DOMAIN program : cache[t] # 0 /\ isOf(i, t)'
    BY <1>2, <1>5 DEF Accounted
  <2>1. CASE i = id
    <3>1. PICK t \in DOMAIN program : t = top
      BY <1>2
    <3>2. cache[t] # 0 /\ cache'[t] = i
      BY <1>1, <1>2, <1>5, <2>1, <3>1 DEF Nested, isOpen
    <3>3. isOf(i, t)'
      BY <3>2 DEF isOf
    <3> QED
      BY <3>2, <3>3
  <2>2. CASE i # id
    <3>1. PICK t \in DOMAIN program : cache[t] # 0 /\ isOf(i, t)
      BY <1>5 DEF Accounted
    <3>2. nodes'[i] = nodes[i]
      BY <1>3, <2>2
    <3>3. isOf(i, t)'
      BY <1>2, <1>5, <3>1, <3>2 DEF isOf
    <3> QED
      BY <3>1, <3>3
  <2> QED
    BY <2>1, <2>2
<1>11. Nested'
  BY <1>2, <1>5, <1>6 DEF Nested
<1>12. Gathered'
  <2> SUFFICES ASSUME NEW t \in DOMAIN program
               PROVE  /\ Len(gathered[t]) <= Len(program[t].members)
                      /\ \A j \in DOMAIN gathered[t] : gathered[t][j][1] = program[t].members[j][1]
                      /\ \A j \in DOMAIN gathered[t] : leads(gathered[t][j][2], program[t].members[j][2])'
    BY <1>2, <1>5 DEF Gathered
  <2>1. /\ Len(gathered[t]) <= Len(program[t].members)
        /\ \A j \in DOMAIN gathered[t] : gathered[t][j][1] = program[t].members[j][1]
    BY <1>5 DEF Gathered
  <2>2. ASSUME NEW j \in DOMAIN gathered[t] PROVE leads(gathered[t][j][2], program[t].members[j][2])'
    <3>1. PICK i : i = gathered[t][j][2]
      OBVIOUS
    <3>2. PICK v : v = program[t].members[j][2]
      OBVIOUS
    <3>3. i \in DOMAIN nodes /\ cache[v] \in DOMAIN nodes /\ resolved(nodes, i) = cache[v]
      BY <1>5, <3>1, <3>2 DEF Gathered, leads
    <3>4. resolved(nodes', i) = resolved(nodes, i)
      BY <1>4, <3>3 DEF resolved
    <3>5. leads(i, v)'
      BY <1>2, <3>3, <3>4 DEF leads
    <3>6. gathered'[t][j][2] = i /\ program'[t].members[j][2] = v
      BY <1>2, <1>5, <3>1, <3>2
    <3> QED
      BY <3>5, <3>6 DEF leads
  <2> QED
    BY <2>1, <2>2
<1>13. Filled'
  <2> SUFFICES ASSUME NEW t \in DOMAIN program, cache[t] # 0, ~isOpen(t)'
               PROVE  /\ Len(gathered[t]) = Len(program[t].members)
                      /\ nodes'[cache[t]].members = keyed(program[t], cache[t]) \o gathered[t]
    BY <1>2, <1>5 DEF Filled
  <2>1. CASE t = top
    BY <1>1, <1>2, <2>1
  <2>2. CASE t # top
    <3>1. ~isOpen(t)
      BY <1>6, <2>2
    <3>2. cache[t] \in DOMAIN nodes \ {id}
      BY <1>1, <1>2, <1>5, <2>2 DEF Cached, OneNodeEach
    <3>3. nodes'[cache[t]] = nodes[cache[t]]
      BY <1>3, <3>2
    <3> QED
      BY <1>5, <3>1, <3>3 DEF Filled
  <2> QED
    BY <2>1, <2>2
<1>14. nodes' # <<>>
  BY <1>2
<1> QED
  BY <1>2, <1>5, <1>7, <1>8, <1>9, <1>10, <1>11, <1>12, <1>13, <1>14 DEF IRInv

(* An IR is done with.                                                     *)
LEMMA FinishIR == ASSUME IRInv, Finish PROVE IRInv'
<1>1. nodes' = <<>> /\ stack = <<>> /\ UNCHANGED <<build, program, cache, stack, gathered>>
  BY DEF Finish
<1>2. Typed
  BY DEF IRInv
<1>3. nodes' \in Seq(NodeRecord)
  BY <1>1
<1>4. Typed'
  BY <1>1, <1>2, <1>3 DEF Typed
<1> QED
  BY <1>1, <1>4 DEF IRInv

(* Nothing happens.                                                        *)
LEMMA StutterIR == ASSUME IRInv, UNCHANGED extraction PROVE IRInv'
<1>1. build' = build /\ program' = program /\ nodes' = nodes /\ cache' = cache /\ stack' = stack /\ gathered' = gathered
  BY DEF extraction
<1>2. Typed' = Typed
  BY <1>1 DEF Typed
<1>3. Cached' = Cached
  BY <1>1 DEF Cached
<1>4. OneNodeEach' = OneNodeEach
  BY <1>1 DEF OneNodeEach
<1>5. Accounted' = Accounted
  BY <1>1 DEF Accounted, isOf
<1>6. Nested' = Nested
  BY <1>1 DEF Nested
<1>7. Gathered' = Gathered
  BY <1>1 DEF Gathered, leads
<1>8. Filled' = Filled
  BY <1>1 DEF Filled, isOpen
<1> QED
  BY <1>1, <1>2, <1>3, <1>4, <1>5, <1>6, <1>7, <1>8 DEF IRInv

(* No step renumbers a union.                                              *)
LEMMA NoneRenumbered == ASSUME IRInv PROVE ~Widen /\ ~KeepNumbers /\ ~Renumber
<1>1. \A t \in DOMAIN program : program[t].kind # "renumbered"
  <2> SUFFICES ASSUME NEW t \in DOMAIN program PROVE program[t].kind # "renumbered"
    OBVIOUS
  <2>1. program[t] \in PlainType
    BY DEF IRInv, Typed
  <2>2. program[t].kind \in Kinds
    BY <2>1 DEF PlainType
  <2> QED
    BY <2>2 DEF Kinds, Leaves, RefKinds, OtherKinds, UnionKinds
<1>2. stack # <<>> => top \in DOMAIN program
  BY DEF IRInv, Typed, top
<1>3. hasMember => member[2] \in DOMAIN program
  BY Members
<1> QED
  BY <1>1, <1>2, <1>3 DEF Widen, KeepNumbers, hasNumbers, Renumber

(* What the extraction knows of its heap at every step: the placeholders,  *)
(* the cache and the refs.                                                 *)
THEOREM HeapIsConsistent == ASSUME Unnumbered PROVE ExtractionSpec => []IRInv
<1>1. ExtractionInit => IRInv
  BY InitIR
<1>2. IRInv /\ [ExtractionNext]_extraction => IRInv'
  BY NoneRenumbered, ExtractIR, EnterIR, ResightIR, CloseIR, FinishIR, StutterIR DEF ExtractionNext
<1> QED
  BY <1>1, <1>2, PTL DEF ExtractionSpec

-----------------------------------------------------------------------------
(* Nodes that are filled in.                                               *)

(* The key that a record minted stands before its members.                 *)
LEMMA KeyIsFirst ==
  ASSUME NEW S, NEW p \in S, NEW g \in Seq(S)
  PROVE  Tail(<<p>> \o g) = g /\ (<<p>> \o g)[1] = p
<1> DEFINE s == <<p>> \o g
<1>1. <<p>> \in Seq(S) /\ Len(<<p>>) = 1 /\ <<p>>[1] = p
  OBVIOUS
<1>2. /\ s \in Seq(S) /\ Len(s) = 1 + Len(g)
      /\ \A i \in 1..(1 + Len(g)) : s[i] = IF i <= 1 THEN <<p>>[i] ELSE g[i - 1]
  BY <1>1, ConcatProperties
<1> HIDE DEF s
<1>3. Len(g) \in Nat
  OBVIOUS
<1>4. s # <<>> /\ s[1] = p
  BY <1>1, <1>2, <1>3
<1>5. Tail(s) \in Seq(S) /\ Len(Tail(s)) = Len(g) /\ \A i \in 1..Len(Tail(s)) : Tail(s)[i] = s[i + 1]
  BY <1>2, <1>3, <1>4, HeadTailProperties
<1>6. \A i \in 1..Len(Tail(s)) : Tail(s)[i] = g[i]
  BY <1>2, <1>3, <1>5
<1>7. Tail(s) = g
  BY <1>5, <1>6, SeqEqual
<1> QED
  BY <1>4, <1>7 DEF s

(* The members of a node are what the call of its type has gathered.       *)
LEMMA MembersAreGathered ==
  ASSUME IRInv, nodes # <<>>, NEW t \in DOMAIN program, cache[t] # 0, ~isOpen(t)
  PROVE  /\ cache[t] \in DOMAIN nodes /\ nodes[cache[t]].kind = program[t].kind
         /\ membersOf(nodes[cache[t]]) = gathered[t]
         /\ program[t].kind # "record" => nodes[cache[t]].members = gathered[t]
         /\ program[t].kind = "record" => nodes[cache[t]].members[1] = <<0, cache[t] + 1>>
<1>1. Typed /\ Cached /\ Filled
  BY DEF IRInv
<1>2. cache[t] \in DOMAIN nodes /\ nodes[cache[t]].kind = program[t].kind
  BY <1>1 DEF Cached
<1>3. gathered[t] \in Seq(Nat \X Position) /\ cache[t] \in Nat
  <2>1. gathered[t] \in Seq(Position \X Position) /\ cache[t] \in Nat
    BY <1>1 DEF Typed
  <2> QED
    BY <2>1 DEF Position
<1>4. nodes[cache[t]].members = keyed(program[t], cache[t]) \o gathered[t]
  BY <1>1 DEF Filled
<1>5. CASE program[t].kind = "record"
  <2> DEFINE p == <<0, cache[t] + 1>>
             g == gathered[t]
  <2>1. p \in Nat \X Position
    BY <1>3 DEF Position
  <2>2. nodes[cache[t]].members = <<p>> \o g
    BY <1>4, <1>5 DEF keyed
  <2>3. g \in Seq(Nat \X Position)
    BY <1>3
  <2> HIDE DEF p, g
  <2>4. Tail(<<p>> \o g) = g /\ (<<p>> \o g)[1] = p
    BY <2>1, <2>3, KeyIsFirst
  <2> QED
    BY <1>2, <1>5, <2>2, <2>4 DEF membersOf, p, g
<1>6. CASE program[t].kind # "record"
  <2> DEFINE g == gathered[t]
  <2>1. g \in Seq(Nat \X Position)
    BY <1>3
  <2>2. nodes[cache[t]].members = <<>> \o g
    BY <1>4, <1>6 DEF keyed
  <2> HIDE DEF g
  <2>3. <<>> \o g = g
    BY <2>1, ConcatEmptySeq
  <2> QED
    BY <1>2, <1>6, <2>2, <2>3 DEF membersOf, g
<1> QED
  BY <1>2, <1>5, <1>6

-----------------------------------------------------------------------------
(* What unions know of their members.                                      *)

(* What findDiscriminatorProperty reads of a heap: the kinds of the parts, *)
(* and of objects the members, and the literals these are.                 *)
LEMMA SameDiscriminator ==
  ASSUME NEW before, NEW after, NEW parts \in Seq(Position),
         \A p \in DOMAIN parts : after[parts[p]].kind = before[parts[p]].kind,
         \A p \in DOMAIN parts : before[parts[p]].kind = "object" =>
           /\ after[parts[p]].members = before[parts[p]].members
           /\ \A j \in DOMAIN before[parts[p]].members :
                /\ after[before[parts[p]].members[j][2]].kind = before[before[parts[p]].members[j][2]].kind
                /\ after[before[parts[p]].members[j][2]].value = before[before[parts[p]].members[j][2]].value
  PROVE  findDiscriminatorProperty(after, parts) = findDiscriminatorProperty(before, parts)
<1>1. CASE areTwoObjects(before, parts)
  <2>1. \A p \in DOMAIN parts : before[parts[p]].kind = "object" /\ after[parts[p]].kind = "object"
    BY <1>1 DEF areTwoObjects
  <2>2. ASSUME NEW p \in DOMAIN parts PROVE tags(after, parts[p]) = tags(before, parts[p])
    <3> DEFINE ms == before[parts[p]].members
    <3>1. after[parts[p]].members = ms
      BY <2>1
    <3>2. \A j \in DOMAIN ms : after[ms[j][2]].kind = before[ms[j][2]].kind /\ after[ms[j][2]].value = before[ms[j][2]].value
      BY <2>1
    <3>3. tags(after, parts[p]) = {<<ms[j][1], after[ms[j][2]].value>> : j \in {j \in DOMAIN ms : after[ms[j][2]].kind = "literal"}}
      BY <3>1 DEF tags
    <3>4. tags(before, parts[p]) = {<<ms[j][1], before[ms[j][2]].value>> : j \in {j \in DOMAIN ms : before[ms[j][2]].kind = "literal"}}
      BY DEF tags
    <3> HIDE DEF ms
    <3>5. {j \in DOMAIN ms : after[ms[j][2]].kind = "literal"} = {j \in DOMAIN ms : before[ms[j][2]].kind = "literal"}
      BY <3>2
    <3> QED
      BY <3>2, <3>3, <3>4, <3>5
  <2>3. \A p \in DOMAIN parts : \A k : tagsBy(after, parts[p], k) = tagsBy(before, parts[p], k)
    BY <2>2 DEF tagsBy
  <2>4. \A k : tells(after, parts, k) <=> tells(before, parts, k)
    BY <2>3 DEF tells
  <2>5. 1 \in DOMAIN parts
    BY <1>1 DEF areTwoObjects
  <2>6. after[parts[1]].members = before[parts[1]].members
    BY <2>1, <2>5
  <2>7. ~\E p \in DOMAIN parts : after[parts[p]].kind # "object"
    BY <2>1
  <2>8. ~\E p \in DOMAIN parts : before[parts[p]].kind # "object"
    BY <2>1
  <2> DEFINE F == {j \in DOMAIN after[parts[1]].members : tells(after, parts, after[parts[1]].members[j][1])}
             G == {j \in DOMAIN before[parts[1]].members : tells(before, parts, before[parts[1]].members[j][1])}
  <2>9. F = G
    BY <2>4, <2>6
  <2>10. findDiscriminatorProperty(after, parts) =
           IF Len(parts) < 2 \/ F = {} \/ \E p \in DOMAIN parts : after[parts[p]].kind # "object" THEN 0
           ELSE after[parts[1]].members[CHOOSE j \in F : \A k \in F : j <= k][1]
    BY DEF findDiscriminatorProperty
  <2>11. findDiscriminatorProperty(before, parts) =
           IF Len(parts) < 2 \/ G = {} \/ \E p \in DOMAIN parts : before[parts[p]].kind # "object" THEN 0
           ELSE before[parts[1]].members[CHOOSE j \in G : \A k \in G : j <= k][1]
    BY DEF findDiscriminatorProperty
  <2> HIDE DEF F, G
  <2>12. (CHOOSE j \in F : \A k \in F : j <= k) = (CHOOSE j \in G : \A k \in G : j <= k)
    BY <2>9
  <2> QED
    BY <2>6, <2>7, <2>8, <2>9, <2>10, <2>11, <2>12
<1>2. CASE ~areTwoObjects(before, parts)
  <2>1. Len(parts) \in Nat
    OBVIOUS
  <2>2. Len(parts) < 2 \/ \E p \in DOMAIN parts : before[parts[p]].kind # "object"
    BY <1>2, <2>1 DEF areTwoObjects
  <2>3. Len(parts) < 2 \/ \E p \in DOMAIN parts : after[parts[p]].kind # "object"
    BY <2>2
  <2> QED
    BY <2>2, <2>3 DEF findDiscriminatorProperty
<1> QED
  BY <1>1, <1>2

(* The parts of a union are nodes.                                         *)
LEMMA PartsAreNodes ==
  ASSUME IRInv, nodes # <<>>, NEW t \in DOMAIN program
  PROVE  /\ partsOf(t) \in Seq(Position) /\ DOMAIN partsOf(t) = DOMAIN gathered[t]
         /\ \A p \in DOMAIN partsOf(t) : partsOf(t)[p] = gathered[t][p][2] /\ partsOf(t)[p] \in DOMAIN nodes
<1>1. Typed /\ Gathered
  BY DEF IRInv
<1>2. gathered[t] \in Seq(Position \X Position)
  BY <1>1 DEF Typed
<1>3. partsOf(t) \in Seq(Position) /\ DOMAIN partsOf(t) = DOMAIN gathered[t]
  BY <1>2 DEF partsOf
<1>4. \A p \in DOMAIN partsOf(t) : partsOf(t)[p] = gathered[t][p][2]
  BY DEF partsOf
<1>5. \A p \in DOMAIN gathered[t] : gathered[t][p][2] \in DOMAIN nodes
  BY <1>1 DEF Gathered, leads
<1> QED
  BY <1>3, <1>4, <1>5

(* A node of a kind that is re-sighted as a ref is the node of a type.     *)
LEMMA NodeOfType ==
  ASSUME IRInv, NEW i \in DOMAIN nodes, nodes[i].kind \in RefKinds \cup OtherKinds
  PROVE  \E u \in DOMAIN program : i = cache[u] /\ cache[u] # 0 /\ program[u].kind = nodes[i].kind
<1>1. Accounted /\ Cached
  <2>1. nodes # <<>>
    BY DEF IRInv, Typed
  <2> QED
    BY <2>1 DEF IRInv
<1>2. PICK u \in DOMAIN program : cache[u] # 0 /\ isOf(i, u)
  BY <1>1 DEF Accounted
<1>3. nodes[i].kind # "ref" /\ nodes[i].kind # "primitive"
  BY DEF RefKinds, OtherKinds, UnionKinds
<1>4. i = cache[u]
  BY <1>2, <1>3 DEF isOf
<1>5. program[u].kind = nodes[i].kind
  BY <1>1, <1>2, <1>4 DEF Cached
<1> QED
  BY <1>2, <1>4, <1>5

(* A union whose object members are done with is tagged as it would be     *)
(* later on.                                                               *)
LEMMA TagLasts ==
  ASSUME IRInv, nodes # <<>>, Grows, NEW t \in DOMAIN program,
         \A j \in DOMAIN gathered[t], u \in DOMAIN program :
           gathered[t][j][2] = cache[u] /\ program[u].kind = "object" =>
             ~isOpen(u) /\ nodes'[cache[u]].members = nodes[cache[u]].members
  PROVE  findDiscriminatorProperty(nodes', partsOf(t)) = findDiscriminatorProperty(nodes, partsOf(t))
<1>1. PICK parts : parts = partsOf(t)
  OBVIOUS
<1>2. /\ parts \in Seq(Position) /\ DOMAIN parts = DOMAIN gathered[t]
      /\ \A p \in DOMAIN parts : parts[p] = gathered[t][p][2] /\ parts[p] \in DOMAIN nodes
  BY <1>1, PartsAreNodes
<1>3. \A i \in DOMAIN nodes : nodes'[i].kind = nodes[i].kind /\ nodes'[i].value = nodes[i].value
  BY DEF Grows
<1>4. \A p \in DOMAIN parts : nodes'[parts[p]].kind = nodes[parts[p]].kind
  BY <1>2, <1>3
<1>5. ASSUME NEW p \in DOMAIN parts, nodes[parts[p]].kind = "object"
      PROVE  /\ nodes'[parts[p]].members = nodes[parts[p]].members
             /\ \A j \in DOMAIN nodes[parts[p]].members : nodes[parts[p]].members[j][2] \in DOMAIN nodes
  <2>1. PICK u \in DOMAIN program : parts[p] = cache[u] /\ cache[u] # 0 /\ program[u].kind = "object"
    <3>1. nodes[parts[p]].kind \in RefKinds \cup OtherKinds
      BY <1>5 DEF RefKinds
    <3> QED
      BY <1>2, <1>5, <3>1, NodeOfType
  <2>2. ~isOpen(u) /\ nodes'[cache[u]].members = nodes[cache[u]].members
    BY <1>2, <2>1
  <2>3. nodes[cache[u]].members = gathered[u]
    <3>1. program[u].kind # "record"
      BY <2>1
    <3> QED
      BY <2>1, <2>2, <3>1, MembersAreGathered
  <2>4. Gathered
    BY DEF IRInv
  <2>5. \A j \in DOMAIN gathered[u] : gathered[u][j][2] \in DOMAIN nodes
    BY <2>4 DEF Gathered, leads
  <2> QED
    BY <2>1, <2>2, <2>3, <2>5
<1>6. \A p \in DOMAIN parts : nodes[parts[p]].kind = "object" =>
           /\ nodes'[parts[p]].members = nodes[parts[p]].members
           /\ \A j \in DOMAIN nodes[parts[p]].members :
                /\ nodes'[nodes[parts[p]].members[j][2]].kind = nodes[nodes[parts[p]].members[j][2]].kind
                /\ nodes'[nodes[parts[p]].members[j][2]].value = nodes[nodes[parts[p]].members[j][2]].value
  BY <1>3, <1>5
<1>7. findDiscriminatorProperty(nodes', parts) = findDiscriminatorProperty(nodes, parts)
  BY <1>2, <1>4, <1>6, SameDiscriminator
<1> QED
  BY <1>1, <1>7

(* Of the types that are sighted again, and of those that are entered,     *)
(* nothing was tagged before.                                              *)
LEMMA TagsKept ==
  ASSUME TagInv, hasMember, NEW id, Takes(id), Grows,
         \A i \in DOMAIN nodes : i \in DOMAIN nodes' /\ nodes'[i] = nodes[i],
         \A t \in DOMAIN program : isOpen(t)' => isOpen(t) \/ cache[t] = 0,
         \A t \in DOMAIN program : isOpen(t) \/ (cache[t] = 0 /\ cache'[t] # 0) => isOpen(t)',
         \A t \in DOMAIN program : cache[t] = 0 => cache'[t] \notin DOMAIN nodes
  PROVE  Tagged'
<1>0. /\ IRInv /\ nodes # <<>> /\ Tagged /\ Cached /\ Gathered /\ program' = program /\ Typed
      /\ top \in DOMAIN program /\ isOpen(top)
  BY Members DEF TagInv, IRInv, Grows
<1>1. \A t \in DOMAIN program : t # top => gathered'[t] = gathered[t]
  BY <1>0, Taking
<1> SUFFICES ASSUME NEW t \in DOMAIN program, cache'[t] # 0, ~isOpen(t)', program[t].kind \in UnionKinds
             PROVE  /\ nodes'[cache'[t]].discriminator = findDiscriminatorProperty(nodes', partsOf(t)')
                    /\ \A j \in DOMAIN gathered'[t], u \in DOMAIN program :
                         gathered'[t][j][2] = cache'[u] /\ program[u].kind = "object" => ~isOpen(u)'
  BY <1>0 DEF Tagged
<1>2. ~isOpen(t) /\ cache[t] # 0 /\ t # top
  BY <1>0
<1>3. gathered'[t] = gathered[t] /\ cache'[t] = cache[t]
  BY <1>1, <1>2 DEF Grows
<1>4. partsOf(t)' = partsOf(t)
  BY <1>3 DEF partsOf
<1>5. nodes[cache[t]].discriminator = findDiscriminatorProperty(nodes, partsOf(t))
  BY <1>0, <1>2 DEF Tagged
<1>6. \A j \in DOMAIN gathered[t], u \in DOMAIN program :
         gathered[t][j][2] = cache[u] /\ program[u].kind = "object" => ~isOpen(u)
  BY <1>0, <1>2 DEF Tagged
<1>7. \A j \in DOMAIN gathered[t] : gathered[t][j][2] \in DOMAIN nodes
  BY <1>0 DEF Gathered, leads
<1>8. findDiscriminatorProperty(nodes', partsOf(t)) = findDiscriminatorProperty(nodes, partsOf(t))
  <2>1. \A j \in DOMAIN gathered[t], u \in DOMAIN program :
           gathered[t][j][2] = cache[u] /\ program[u].kind = "object" =>
             ~isOpen(u) /\ nodes'[cache[u]].members = nodes[cache[u]].members
    BY <1>6, <1>7
  <2> QED
    BY <1>0, <2>1, TagLasts
<1>9. nodes'[cache'[t]].discriminator = nodes[cache[t]].discriminator
  BY <1>0, <1>2, <1>3 DEF Cached
<1>10. ASSUME NEW j \in DOMAIN gathered[t], NEW u \in DOMAIN program, gathered[t][j][2] = cache'[u], program[u].kind = "object"
       PROVE  ~isOpen(u)'
  <2>1. cache[u] # 0
    BY <1>7, <1>10
  <2>2. cache'[u] = cache[u]
    BY <2>1 DEF Grows
  <2>3. ~isOpen(u)
    BY <1>6, <1>10, <2>2
  <2> QED
    BY <2>1, <2>3
<1> QED
  BY <1>3, <1>4, <1>5, <1>8, <1>9, <1>10

(* Nothing is tagged at first.                                             *)
LEMMA InitTags == ASSUME Unnumbered, ExtractionInit PROVE TagInv
BY InitIR DEF ExtractionInit, TagInv

(* An extraction begins with one call that has gathered nothing.           *)
LEMMA ExtractTags == ASSUME TagInv, Extract PROVE TagInv'
<1>1. IRInv'
  BY ExtractIR DEF TagInv
<1>2. /\ stack' = <<1>> /\ cache' = [t \in DOMAIN program' |-> IF t = 1 THEN 1 ELSE 0]
      /\ gathered' = [t \in DOMAIN program' |-> <<>>]
  BY DEF Extract
<1>3. \A t \in DOMAIN program' : gathered'[t] = <<>> /\ DOMAIN gathered'[t] = {}
  BY <1>2
<1>4. Unsighted'
  BY <1>3 DEF Unsighted
<1>5. EntersLater'
  <2> SUFFICES ASSUME NEW i \in DOMAIN stack', NEW q \in DOMAIN stack', NEW j \in DOMAIN gathered'[stack'[i]] PROVE FALSE
    BY DEF EntersLater
  <2>1. stack' \in Seq(DOMAIN program')
    BY <1>1 DEF IRInv, Typed
  <2> QED
    BY <1>3, <2>1
<1>6. PointsOnce'
  BY <1>3 DEF PointsOnce
<1>7. Tagged'
  <2>1. isOpen(1)'
    BY <1>2 DEF isOpen
  <2> QED
    BY <1>2, <2>1 DEF Tagged
<1>8. PointsLater'
  BY <1>3 DEF PointsLater
<1> QED
  BY <1>1, <1>4, <1>5, <1>6, <1>7, <1>8 DEF TagInv

(* A pointer to a type that is entered is the only one, and from outside   *)
(* its call.                                                               *)
LEMMA EnterTags == ASSUME TagInv, Enter PROVE TagInv'
<1>1. PICK u : u = member[2]
  OBVIOUS
<1>2. PICK id : id = Len(nodes) + 1
  OBVIOUS
<1>3. IRInv /\ IRInv'
  BY EnterIR DEF TagInv
<1>4. /\ hasMember /\ u \in DOMAIN program /\ cache[u] = 0
      /\ id \in DOMAIN nodes' /\ id \notin DOMAIN nodes
      /\ cache' = [cache EXCEPT ![u] = id] /\ stack' = Append(stack, u)
      /\ Takes(id) /\ Grows
  BY <1>1, <1>2, <1>3, Entering
<1>5. \A i \in DOMAIN nodes : i \in DOMAIN nodes' /\ nodes'[i] = nodes[i]
  BY <1>1, <1>2, <1>3, Entering
<1>6. /\ nodes # <<>> /\ program' = program /\ Typed /\ Cached /\ Gathered /\ Nested
      /\ Unsighted /\ PointsLater /\ EntersLater /\ PointsOnce /\ Tagged
      /\ top \in DOMAIN program /\ cache[top] # 0 /\ stack[Len(stack)] = top /\ Len(stack) \in DOMAIN stack
  BY <1>3, <1>4, Members DEF TagInv, IRInv, Grows
<1>7. u # top
  BY <1>4, <1>6
<1>8. PICK n : n = Len(gathered[top]) + 1
  OBVIOUS
<1>9. /\ \A t \in DOMAIN program : t # top => gathered'[t] = gathered[t]
      /\ \A t \in DOMAIN program : \A j \in DOMAIN gathered'[t] :
              \/ j \in DOMAIN gathered[t] /\ gathered'[t][j] = gathered[t][j]
              \/ t = top /\ j = n /\ gathered'[t][j][2] = id
  BY <1>3, <1>4, <1>6, <1>8, Taking
<1>10. \A t \in DOMAIN program : \A j \in DOMAIN gathered[t] : gathered[t][j][2] \in DOMAIN nodes
  BY <1>6 DEF Gathered, leads
<1>11. /\ cache'[u] = id /\ \A t \in DOMAIN program : t # u => cache'[t] = cache[t]
  BY <1>4, <1>6 DEF Typed
<1>12. Unsighted'
  <2> SUFFICES ASSUME NEW t \in DOMAIN program, cache'[t] = 0 PROVE gathered'[t] = <<>>
    BY <1>6 DEF Unsighted
  <2>1. id # 0
    BY <1>4 DEF Takes, Position
  <2>2. t # u /\ cache[t] = 0
    BY <1>11, <2>1
  <2> QED
    BY <1>6, <1>9, <2>2 DEF Unsighted
<1>13. /\ \A t \in DOMAIN program : isOpen(t)' <=> isOpen(t) \/ t = u
       /\ \A i \in DOMAIN stack' : (i \in DOMAIN stack /\ stack'[i] = stack[i]) \/ (i = Len(stack) + 1 /\ stack'[i] = u)
  BY <1>3, <1>4, <1>6, Opening
<1>14. \A i \in DOMAIN stack : i \in Nat /\ i < Len(stack) + 1 /\ stack[i] \in DOMAIN program /\ cache[stack[i]] \in DOMAIN nodes
  <2>1. stack \in Seq(DOMAIN program)
    BY <1>6 DEF Typed
  <2>2. \A i \in DOMAIN stack : i \in Nat /\ i < Len(stack) + 1 /\ stack[i] \in DOMAIN program
    BY <2>1
  <2> QED
    BY <1>6, <2>2 DEF Nested, Cached
<1>15. EntersLater'
  <2> SUFFICES ASSUME NEW i \in DOMAIN stack', NEW q \in DOMAIN stack', NEW j \in DOMAIN gathered'[stack'[i]],
                      gathered'[stack'[i]][j][2] = cache'[stack'[q]], program[stack'[q]].kind \in RefKinds
               PROVE  i < q
    BY <1>6 DEF EntersLater
  <2>1. CASE i = Len(stack) + 1 /\ stack'[i] = u
    <3>1. gathered'[u] = <<>>
      BY <1>4, <1>6, <1>7, <1>9 DEF Unsighted
    <3> QED
      BY <2>1, <3>1
  <2>2. CASE i \in DOMAIN stack /\ stack'[i] = stack[i] /\ q = Len(stack) + 1
    BY <1>14, <2>2
  <2>3. CASE i \in DOMAIN stack /\ stack'[i] = stack[i] /\ q \in DOMAIN stack /\ stack'[q] = stack[q]
    <3>1. cache'[stack[q]] = cache[stack[q]] /\ cache[stack[q]] \in DOMAIN nodes
      <4>1. stack[q] # u
        BY <1>4, <1>6, <2>3 DEF Nested
      <4> QED
        BY <1>11, <1>14, <2>3, <4>1
    <3>2. j \in DOMAIN gathered[stack[i]] /\ gathered'[stack[i]][j] = gathered[stack[i]][j]
      <4>1. gathered'[stack[i]][j][2] # id
        BY <1>4, <2>3, <3>1
      <4> QED
        BY <1>9, <1>14, <2>3, <4>1
    <3> QED
      BY <1>6, <2>3, <3>1, <3>2 DEF EntersLater
  <2> QED
    BY <1>13, <2>1, <2>2, <2>3
<1>16. PointsOnce'
  <2> SUFFICES ASSUME NEW t \in DOMAIN program, NEW j \in DOMAIN gathered'[t], NEW k \in DOMAIN gathered'[t],
                      gathered'[t][j][2] = gathered'[t][k][2], nodes'[gathered'[t][j][2]].kind \in RefKinds
               PROVE  j = k
    BY <1>6 DEF PointsOnce
  <2>1. CASE gathered'[t][j][2] = id
    <3>1. j = n
      BY <1>4, <1>9, <1>10, <2>1
    <3>2. k = n
      <4>1. gathered'[t][k][2] = id
        BY <2>1
      <4>2. k \in DOMAIN gathered[t] => gathered[t][k][2] # id
        BY <1>4, <1>10
      <4> QED
        BY <1>9, <4>1, <4>2
    <3> QED
      BY <3>1, <3>2
  <2>2. CASE gathered'[t][j][2] # id
    <3>1. j \in DOMAIN gathered[t] /\ gathered'[t][j] = gathered[t][j] /\ k \in DOMAIN gathered[t] /\ gathered'[t][k] = gathered[t][k]
      BY <1>9, <2>2
    <3>2. nodes[gathered[t][j][2]].kind \in RefKinds
      BY <1>5, <1>10, <3>1
    <3> QED
      BY <1>6, <3>1, <3>2 DEF PointsOnce
  <2> QED
    BY <2>1, <2>2
<1>17. Tagged'
  <2>1. \A t \in DOMAIN program : isOpen(t)' => isOpen(t) \/ cache[t] = 0
    BY <1>4, <1>13
  <2>2. \A t \in DOMAIN program : isOpen(t) \/ (cache[t] = 0 /\ cache'[t] # 0) => isOpen(t)'
    BY <1>11, <1>13
  <2>3. \A t \in DOMAIN program : cache[t] = 0 => cache'[t] \notin DOMAIN nodes
    <3>1. 0 \notin DOMAIN nodes
      BY <1>6 DEF Typed
    <3> QED
      BY <1>4, <1>11, <3>1
  <2> QED
    BY <1>4, <1>5, <2>1, <2>2, <2>3, TagsKept
<1>18. PointsLater'
  <2> SUFFICES ASSUME NEW t \in DOMAIN program, NEW v \in DOMAIN program, NEW j \in DOMAIN gathered'[t],
                      cache'[t] # 0, gathered'[t][j][2] = cache'[v], program[v].kind \in RefKinds
               PROVE  cache'[t] < cache'[v]
    BY <1>6 DEF PointsLater
  <2>1. t # u
    <3>1. gathered'[u] = <<>>
      BY <1>4, <1>6, <1>7, <1>9 DEF Unsighted
    <3> QED
      BY <3>1
  <2>2. cache'[t] = cache[t] /\ cache[t] # 0 /\ cache[t] \in DOMAIN nodes
    BY <1>6, <1>11, <2>1 DEF Cached
  <2>3. CASE v = u
    <3>1. nodes \in Seq(NodeRecord)
      BY <1>6 DEF Typed
    <3>2. cache[t] < Len(nodes) + 1
      BY <2>2, <3>1
    <3> QED
      BY <1>2, <1>11, <2>2, <2>3, <3>2
  <2>4. CASE v # u
    <3>1. cache'[v] = cache[v]
      BY <1>11, <2>4
    <3>2. cache[v] # id
      <4>1. cache[v] = 0 \/ cache[v] \in DOMAIN nodes
        BY <1>6 DEF Cached
      <4> QED
        BY <1>4, <4>1 DEF Takes, Position
    <3>3. j \in DOMAIN gathered[t] /\ gathered'[t][j] = gathered[t][j]
      BY <1>9, <3>1, <3>2
    <3>4. gathered[t][j][2] = cache[v]
      BY <3>1, <3>3
    <3>5. cache[t] < cache[v]
      BY <1>6, <2>2, <3>3, <3>4 DEF PointsLater
    <3> QED
      BY <2>2, <3>1, <3>5
  <2> QED
    BY <2>3, <2>4
<1> QED
  BY <1>3, <1>12, <1>15, <1>16, <1>17, <1>18 DEF TagInv

(* Re-sighting one makes a ref, or points to what is no object.            *)
LEMMA ResightTags == ASSUME TagInv, Resight PROVE TagInv'
<1>1. PICK u : u = member[2]
  OBVIOUS
<1>2. PICK x : x = cache[u]
  OBVIOUS
<1>3. IRInv /\ IRInv'
  BY ResightIR DEF TagInv
<1>4. /\ hasMember /\ x \in DOMAIN nodes /\ cache' = cache /\ stack' = stack /\ Grows
  BY <1>1, <1>2, <1>3, Resighting
<1>5. \A i \in DOMAIN nodes : i \in DOMAIN nodes' /\ nodes'[i] = nodes[i]
  BY <1>1, <1>2, <1>3, Resighting
<1>6. PICK id : Takes(id) /\ (id \notin DOMAIN nodes \/ (id = x /\ nodes[x].kind \notin RefKinds))
  BY <1>1, <1>2, <1>3, Resighting
<1>7. /\ nodes # <<>> /\ program' = program /\ Typed /\ Cached /\ Gathered /\ Nested
      /\ Unsighted /\ PointsLater /\ EntersLater /\ PointsOnce /\ Tagged /\ top \in DOMAIN program /\ cache[top] # 0
  BY <1>3, <1>4, Members DEF TagInv, IRInv, Grows
<1>8. PICK n : n = Len(gathered[top]) + 1
  OBVIOUS
<1>9. /\ \A t \in DOMAIN program : t # top => gathered'[t] = gathered[t]
      /\ \A t \in DOMAIN program : \A j \in DOMAIN gathered'[t] :
              \/ j \in DOMAIN gathered[t] /\ gathered'[t][j] = gathered[t][j]
              \/ t = top /\ j = n /\ gathered'[t][j][2] = id
  BY <1>3, <1>4, <1>6, <1>7, <1>8, Taking
<1>10. \A t \in DOMAIN program : \A j \in DOMAIN gathered[t] : gathered[t][j][2] \in DOMAIN nodes
  BY <1>7 DEF Gathered, leads
<1>11. Unsighted'
  BY <1>4, <1>7, <1>9 DEF Unsighted
<1>12. EntersLater'
  <2> SUFFICES ASSUME NEW i \in DOMAIN stack, NEW q \in DOMAIN stack, NEW j \in DOMAIN gathered'[stack[i]],
                      gathered'[stack[i]][j][2] = cache[stack[q]], program[stack[q]].kind \in RefKinds
               PROVE  i < q
    BY <1>4, <1>7 DEF EntersLater
  <2>1. stack[i] \in DOMAIN program /\ stack[q] \in DOMAIN program /\ cache[stack[q]] \in DOMAIN nodes
        /\ nodes[cache[stack[q]]].kind = program[stack[q]].kind
    BY <1>7 DEF Typed, Nested, Cached
  <2>2. gathered'[stack[i]][j][2] # id
    BY <1>6, <2>1
  <2>3. j \in DOMAIN gathered[stack[i]] /\ gathered'[stack[i]][j] = gathered[stack[i]][j]
    BY <1>9, <2>1, <2>2
  <2> QED
    BY <1>7, <2>3 DEF EntersLater
<1>13. PointsOnce'
  <2> SUFFICES ASSUME NEW t \in DOMAIN program, NEW j \in DOMAIN gathered'[t], NEW k \in DOMAIN gathered'[t],
                      gathered'[t][j][2] = gathered'[t][k][2], nodes'[gathered'[t][j][2]].kind \in RefKinds
               PROVE  j = k
    BY <1>7 DEF PointsOnce
  <2>1. CASE gathered'[t][j][2] = id
    <3>1. id \notin DOMAIN nodes
      BY <1>4, <1>5, <1>6, <2>1
    <3>2. j = n
      BY <1>9, <1>10, <2>1, <3>1
    <3>3. k = n
      <4>1. gathered'[t][k][2] = id
        BY <2>1
      <4>2. k \in DOMAIN gathered[t] => gathered[t][k][2] # id
        BY <1>10, <3>1
      <4> QED
        BY <1>9, <4>1, <4>2
    <3> QED
      BY <3>2, <3>3
  <2>2. CASE gathered'[t][j][2] # id
    <3>1. j \in DOMAIN gathered[t] /\ gathered'[t][j] = gathered[t][j] /\ k \in DOMAIN gathered[t] /\ gathered'[t][k] = gathered[t][k]
      BY <1>9, <2>2
    <3>2. nodes[gathered[t][j][2]].kind \in RefKinds
      BY <1>5, <1>10, <3>1
    <3> QED
      BY <1>7, <3>1, <3>2 DEF PointsOnce
  <2> QED
    BY <2>1, <2>2
<1>14. Tagged'
  <2>1. \A t \in DOMAIN program : isOpen(t)' <=> isOpen(t)
    BY <1>4 DEF isOpen
  <2>2. \A t \in DOMAIN program : cache[t] = 0 => cache'[t] \notin DOMAIN nodes
    BY <1>4, <1>7 DEF Typed
  <2>3. \A t \in DOMAIN program : isOpen(t) \/ (cache[t] = 0 /\ cache'[t] # 0) => isOpen(t)'
    BY <1>4, <2>1
  <2> QED
    BY <1>4, <1>5, <1>6, <2>1, <2>2, <2>3, TagsKept
<1>15. PointsLater'
  <2> SUFFICES ASSUME NEW t \in DOMAIN program, NEW v \in DOMAIN program, NEW j \in DOMAIN gathered'[t],
                      cache[t] # 0, gathered'[t][j][2] = cache[v], program[v].kind \in RefKinds
               PROVE  cache[t] < cache[v]
    BY <1>4, <1>7 DEF PointsLater
  <2>1. cache[v] # id
    <3>1. CASE cache[v] = 0
      BY <1>6, <3>1 DEF Takes, Position
    <3>2. CASE cache[v] # 0
      <4>1. cache[v] \in DOMAIN nodes /\ nodes[cache[v]].kind = program[v].kind
        BY <1>7, <3>2 DEF Cached
      <4> QED
        BY <1>6, <4>1
    <3> QED
      BY <3>1, <3>2
  <2>2. j \in DOMAIN gathered[t] /\ gathered'[t][j] = gathered[t][j]
    BY <1>9, <2>1
  <2>3. gathered[t][j][2] = cache[v]
    BY <2>2
  <2> QED
    BY <1>7, <2>2, <2>3 DEF PointsLater
<1> QED
  BY <1>3, <1>11, <1>12, <1>13, <1>14, <1>15 DEF TagInv

(* A union is left when the calls of the objects it has entered have       *)
(* returned, so it is tagged by what they have filled in.                  *)
LEMMA CloseTags == ASSUME TagInv, Close PROVE TagInv'
<1>1. PICK id : id = cache[top]
  OBVIOUS
<1>2. IRInv /\ IRInv'
  BY CloseIR DEF TagInv
<1>3. /\ top \in DOMAIN program /\ id \in DOMAIN nodes /\ nodes # <<>> /\ isOpen(top)
      /\ Len(stack) \in DOMAIN stack /\ stack[Len(stack)] = top
      /\ stack' = SubSeq(stack, 1, Len(stack) - 1) /\ cache' = cache /\ gathered' = gathered /\ Grows
  BY <1>1, <1>2, Closing
<1>4. nodes'[id].discriminator = IF program[top].kind \in UnionKinds THEN findDiscriminatorProperty(nodes, partsOf(top)) ELSE 0
  BY <1>1, <1>2, Closing
<1>5. \A i \in DOMAIN nodes \ {id} : nodes'[i] = nodes[i]
  BY <1>1, <1>2, Closing
<1>6. /\ program' = program /\ Typed /\ stack # <<>> /\ Cached /\ OneNodeEach /\ Gathered /\ Nested
      /\ Unsighted /\ PointsLater /\ EntersLater /\ PointsOnce /\ Tagged
  BY <1>2, <1>3 DEF TagInv, IRInv, Grows, Close
<1>7. /\ \A t \in DOMAIN program : isOpen(t)' <=> isOpen(t) /\ t # top
      /\ \A i \in DOMAIN stack' : i \in DOMAIN stack /\ stack'[i] = stack[i]
  BY <1>2, <1>3, <1>6, Leaving
<1>8. Unsighted'
  BY <1>3, <1>6 DEF Unsighted
<1>9. EntersLater'
  <2> SUFFICES ASSUME NEW i \in DOMAIN stack', NEW q \in DOMAIN stack', NEW j \in DOMAIN gathered[stack'[i]],
                      gathered[stack'[i]][j][2] = cache[stack'[q]], program[stack'[q]].kind \in RefKinds
               PROVE  i < q
    BY <1>3, <1>6 DEF EntersLater
  <2>1. i \in DOMAIN stack /\ stack'[i] = stack[i] /\ q \in DOMAIN stack /\ stack'[q] = stack[q]
    BY <1>7
  <2> QED
    BY <1>6, <2>1 DEF EntersLater
<1>10. PointsOnce'
  <2> SUFFICES ASSUME NEW t \in DOMAIN program, NEW j \in DOMAIN gathered[t], NEW k \in DOMAIN gathered[t],
                      gathered[t][j][2] = gathered[t][k][2], nodes'[gathered[t][j][2]].kind \in RefKinds
               PROVE  j = k
    BY <1>3, <1>6 DEF PointsOnce
  <2>1. gathered[t][j][2] \in DOMAIN nodes
    BY <1>6 DEF Gathered, leads
  <2>2. nodes[gathered[t][j][2]].kind \in RefKinds
    BY <1>3, <2>1 DEF Grows
  <2> QED
    BY <1>6, <2>2 DEF PointsOnce
<1>11. ASSUME NEW t \in DOMAIN program, cache[t] # 0, ~isOpen(t)', program[t].kind \in UnionKinds
       PROVE  /\ nodes'[cache[t]].discriminator = findDiscriminatorProperty(nodes', partsOf(t))
              /\ \A j \in DOMAIN gathered[t], u \in DOMAIN program :
                   gathered[t][j][2] = cache[u] /\ program[u].kind = "object" => ~isOpen(u)'
  <2>1. ASSUME NEW j \in DOMAIN gathered[t], NEW u \in DOMAIN program,
               gathered[t][j][2] = cache[u], program[u].kind = "object"
        PROVE  ~isOpen(u) /\ nodes'[cache[u]].members = nodes[cache[u]].members
    <3>1. ~isOpen(u)
      <4>1. CASE t = top
        <5> SUFFICES ASSUME isOpen(u) PROVE FALSE
          OBVIOUS
        <5>1. PICK q \in DOMAIN stack : stack[q] = u
          BY DEF isOpen
        <5>2. program[stack[q]].kind \in RefKinds
          BY <2>1, <5>1 DEF RefKinds
        <5>3. j \in DOMAIN gathered[stack[Len(stack)]] /\ gathered[stack[Len(stack)]][j][2] = cache[stack[q]]
          BY <1>3, <2>1, <4>1, <5>1
        <5>4. Len(stack) < q
          BY <1>3, <1>6, <5>2, <5>3 DEF EntersLater
        <5>5. stack \in Seq(DOMAIN program)
          BY <1>6 DEF Typed
        <5>6. q \in 1..Len(stack) /\ Len(stack) \in Nat
          BY <5>1, <5>5
        <5> QED
          BY <5>4, <5>6
      <4>2. CASE t # top
        BY <1>6, <1>7, <1>11, <2>1, <4>2 DEF Tagged
      <4> QED
        BY <4>1, <4>2
    <3>2. cache[u] \in DOMAIN nodes \ {id}
      <4>1. cache[u] \in DOMAIN nodes
        BY <1>6, <2>1 DEF Gathered, leads
      <4>2. cache[top] # 0
        BY <1>1, <1>3, <1>6 DEF Typed
      <4>3. u # top
        BY <1>3, <3>1
      <4> QED
        BY <1>1, <1>3, <1>6, <4>1, <4>2, <4>3 DEF OneNodeEach
    <3> QED
      BY <1>5, <3>1, <3>2
  <2>2. findDiscriminatorProperty(nodes', partsOf(t)) = findDiscriminatorProperty(nodes, partsOf(t))
    BY <1>2, <1>3, <2>1, TagLasts
  <2>3. nodes'[cache[t]].discriminator = findDiscriminatorProperty(nodes, partsOf(t))
    <3>1. CASE t = top
      BY <1>1, <1>4, <1>11, <3>1
    <3>2. CASE t # top
      <4>1. cache[t] \in DOMAIN nodes \ {id}
        BY <1>1, <1>3, <1>6, <1>11, <3>2 DEF Cached, OneNodeEach
      <4>2. ~isOpen(t)
        BY <1>7, <1>11, <3>2
      <4>3. nodes[cache[t]].discriminator = findDiscriminatorProperty(nodes, partsOf(t))
        BY <1>6, <1>11, <4>2 DEF Tagged
      <4> QED
        BY <1>5, <4>1, <4>3
    <3> QED
      BY <3>1, <3>2
  <2> QED
    BY <1>7, <2>1, <2>2, <2>3
<1>12. Tagged'
  <2>1. \A t \in DOMAIN program : partsOf(t)' = partsOf(t)
    BY <1>3 DEF partsOf
  <2> QED
    BY <1>3, <1>6, <1>11, <2>1 DEF Tagged
<1>13. PointsLater'
  BY <1>3, <1>6 DEF PointsLater
<1> QED
  BY <1>2, <1>8, <1>9, <1>10, <1>12, <1>13 DEF TagInv

(* What is done with has no tags.                                          *)
LEMMA FinishTags == ASSUME TagInv, Finish PROVE TagInv'
BY FinishIR DEF TagInv, Finish

(* Nothing happens to the tags.                                            *)
LEMMA StutterTags == ASSUME TagInv, UNCHANGED extraction PROVE TagInv'
<1>1. program' = program /\ nodes' = nodes /\ cache' = cache /\ stack' = stack /\ gathered' = gathered
  BY DEF extraction
<1>2. IRInv'
  BY StutterIR DEF TagInv
<1>3. Unsighted' = Unsighted
  BY <1>1 DEF Unsighted
<1>4. EntersLater' = EntersLater
  BY <1>1 DEF EntersLater
<1>5. PointsOnce' = PointsOnce
  BY <1>1 DEF PointsOnce
<1>6. Tagged' = Tagged
  BY <1>1 DEF Tagged, isOpen, partsOf
<1>7. PointsLater' = PointsLater
  BY <1>1 DEF PointsLater
<1> QED
  BY <1>1, <1>2, <1>3, <1>4, <1>5, <1>6, <1>7 DEF TagInv

(* A union is tagged by its members as they have been extracted.           *)
THEOREM UnionsAreTagged == ASSUME Unnumbered PROVE ExtractionSpec => []TagInv
<1>1. ExtractionInit => TagInv
  BY InitTags
<1>2. TagInv /\ [ExtractionNext]_extraction => TagInv'
  BY NoneRenumbered, ExtractTags, EnterTags, ResightTags, CloseTags, FinishTags, StutterTags DEF ExtractionNext, TagInv
<1> QED
  BY <1>1, <1>2, PTL DEF ExtractionSpec

-----------------------------------------------------------------------------
(* What an IR says.                                                        *)

(* A heap whose calls have all returned describes the types.               *)
LEMMA DescribesType == TagInv => IRDescribesType
<1> SUFFICES ASSUME TagInv, extracted
             PROVE  /\ cache[1] = 1
                    /\ \A t \in DOMAIN program : cache[t] # 0 => describes(cache[t], t)
                    /\ \A t, u \in DOMAIN program : cache[t] = cache[u] /\ cache[t] # 0 => t = u
                    /\ \A i \in DOMAIN nodes :
                          \E t \in DOMAIN program : cache[t] # 0 /\
                            \/ i = cache[t]
                            \/ /\ nodes[i].kind = "ref" /\ nodes[i].target = cache[t] /\ nodes[i].members = <<>>
                               /\ nodes[i].name = program[t].name /\ program[t].kind \in RefKinds
                            \/ /\ program[t].kind = "record" /\ i = cache[t] + 1
                               /\ nodes[i].kind = "primitive" /\ nodes[i].members = <<>>
                               /\ nodes[cache[t]].members[1] = <<0, i>>
  BY DEF IRDescribesType
<1>1. /\ nodes # <<>> /\ stack = <<>> /\ IRInv /\ Typed /\ cache[1] = 1 /\ PointsLater
      /\ Cached /\ OneNodeEach /\ Accounted /\ Gathered /\ Filled
  BY DEF extracted, TagInv, IRInv
<1>2. \A t \in DOMAIN program : ~isOpen(t)
  BY <1>1 DEF isOpen
<1>3. ASSUME NEW t \in DOMAIN program, cache[t] # 0 PROVE describes(cache[t], t)
  <2>1. /\ nodes[cache[t]].kind = program[t].kind /\ nodes[cache[t]].name = program[t].name
        /\ nodes[cache[t]].value = program[t].value
    BY <1>1, <1>3 DEF Cached
  <2>2. membersOf(nodes[cache[t]]) = gathered[t]
    BY <1>1, <1>2, <1>3, MembersAreGathered
  <2>3. Len(gathered[t]) = Len(program[t].members)
    BY <1>1, <1>2, <1>3 DEF Filled
  <2>4. DOMAIN program[t].members = DOMAIN gathered[t]
    <3>1. gathered[t] \in Seq(Position \X Position) /\ program[t] \in PlainType
      BY <1>1 DEF Typed
    <3>2. program[t].members \in Seq(Position \X Position)
      BY <3>1 DEF PlainType
    <3>3. DOMAIN program[t].members = 1..Len(program[t].members)
      BY <3>2, LenProperties
    <3>4. DOMAIN gathered[t] = 1..Len(gathered[t])
      BY <3>1, LenProperties
    <3> QED
      BY <2>3, <3>3, <3>4
  <2>5. \A j \in DOMAIN gathered[t] :
          /\ gathered[t][j][1] = program[t].members[j][1] /\ gathered[t][j][2] \in DOMAIN nodes
          /\ cache[program[t].members[j][2]] \in DOMAIN nodes
          /\ resolved(nodes, gathered[t][j][2]) = cache[program[t].members[j][2]]
    BY <1>1 DEF Gathered, leads
  <2>6. ASSUME NEW j \in DOMAIN gathered[t], nodes[gathered[t][j][2]].kind \in RefKinds
        PROVE  cache[t] < gathered[t][j][2]
    <3>1. gathered[t][j][2] \in DOMAIN nodes /\ nodes[gathered[t][j][2]].kind \in RefKinds \cup OtherKinds
      BY <2>5, <2>6
    <3>2. PICK u \in DOMAIN program : gathered[t][j][2] = cache[u] /\ cache[u] # 0 /\ program[u].kind = nodes[gathered[t][j][2]].kind
      BY <1>1, <3>1, NodeOfType
    <3> QED
      BY <1>1, <1>3, <2>6, <3>2 DEF PointsLater
  <2> QED
    <3>1. program[t].kind # "renumbered"
      <4>1. program[t] \in PlainType
        BY <1>1 DEF Typed
      <4>2. program[t].kind \in Kinds
        BY <4>1 DEF PlainType
      <4> QED
        BY <4>2 DEF Kinds, Leaves, RefKinds, OtherKinds, UnionKinds
    <3>2. irKind(program[t]) = program[t].kind /\ declaredOf(program[t]) = program[t].members
      BY <3>1 DEF irKind, declaredOf
    <3> QED
      BY <2>1, <2>2, <2>3, <2>4, <2>5, <2>6, <3>2 DEF describes
<1>4. ASSUME NEW i \in DOMAIN nodes
      PROVE  \E t \in DOMAIN program : cache[t] # 0 /\
                            \/ i = cache[t]
                            \/ /\ nodes[i].kind = "ref" /\ nodes[i].target = cache[t] /\ nodes[i].members = <<>>
                               /\ nodes[i].name = program[t].name /\ program[t].kind \in RefKinds
                            \/ /\ program[t].kind = "record" /\ i = cache[t] + 1
                               /\ nodes[i].kind = "primitive" /\ nodes[i].members = <<>>
                               /\ nodes[cache[t]].members[1] = <<0, i>>
  <2>1. PICK t \in DOMAIN program : cache[t] # 0 /\ isOf(i, t)
    BY <1>1 DEF Accounted
  <2>2. program[t].kind = "record" => nodes[cache[t]].members[1] = <<0, cache[t] + 1>>
    BY <1>1, <1>2, <2>1, MembersAreGathered
  <2> QED
    BY <2>1, <2>2 DEF isOf
<1> QED
  BY <1>1, <1>3, <1>4 DEF OneNodeEach

(* Nothing of a type is lost or confused by the placeholders, the cache and*)
(* the refs of extractTypeIR.                                              *)
THEOREM IRDescribesItsType == ASSUME Unnumbered PROVE ExtractionSpec => []IRDescribesType
BY UnionsAreTagged, DescribesType, PTL

(* Where every node has a pointer to another, some node points back.       *)
LEMMA NoEndlessRise ==
  ASSUME NEW n \in Nat, NEW C \in SUBSET (1..n), C # {}
  PROVE  \E i \in C : \A c \in C : ~(i < c)
<1> DEFINE T == {n - i : i \in C}
<1>1. T \in SUBSET Nat /\ T # {}
  <2>1. \A i \in C : n - i \in Nat
    OBVIOUS
  <2>2. T # {}
    OBVIOUS
  <2> QED
    BY <2>1, <2>2
<1>2. PICK m \in T : \A k \in T : m <= k
  <2> HIDE DEF T
  <2> QED
    BY <1>1, Least
<1>3. PICK i \in C : m = n - i
  BY <1>2
<1>4. ASSUME NEW c \in C PROVE ~(i < c)
  <2>1. n - i <= n - c
    BY <1>2, <1>3
  <2>2. i \in Nat /\ c \in Nat
    OBVIOUS
  <2> QED
    BY <2>1, <2>2
<1> QED
  BY <1>4

(* A cycle of pointers passes a union, an intersection or a record.        *)
LEMMA CyclesPass ==
  ASSUME TagInv, extracted, NEW C \in SUBSET DOMAIN nodes, C # {},
         \A i \in C : Children(nodes, i) \cap C # {}
  PROVE  \E i \in C : nodes[i].kind \in OtherKinds
<1> SUFFICES ASSUME \A i \in C : nodes[i].kind \notin OtherKinds PROVE FALSE
  OBVIOUS
<1>1. /\ nodes # <<>> /\ IRInv /\ Typed /\ Accounted /\ IsProgram(program) /\ PointsLater
      /\ \A t \in DOMAIN program : ~isOpen(t)
  BY DEF extracted, TagInv, IRInv, isOpen
<1>2. ASSUME NEW i \in C
      PROVE  \E t \in DOMAIN program : /\ i = cache[t] /\ cache[t] # 0 /\ program[t].kind \in RefKinds
                                      /\ nodes[i].kind = program[t].kind /\ nodes[i].members = gathered[t]
  <2>1. PICK t \in DOMAIN program : cache[t] # 0 /\ isOf(i, t)
    BY <1>1 DEF Accounted
  <2>2. nodes[i].members # <<>>
    <3>1. PICK c : c \in Children(nodes, i)
      BY <1>2
    <3>2. DOMAIN nodes[i].members # {}
      BY <3>1 DEF Children
    <3> QED
      BY <3>2
  <2>3. i = cache[t]
    BY <2>1, <2>2 DEF isOf
  <2>4. /\ nodes[i].kind = program[t].kind
        /\ program[t].kind # "record" => nodes[i].members = gathered[t]
    BY <1>1, <2>1, <2>3, MembersAreGathered
  <2>5. program[t].kind \notin OtherKinds
    BY <1>2, <2>4
  <2>6. nodes[i].members = gathered[t]
    BY <2>4, <2>5 DEF OtherKinds, UnionKinds
  <2>7. program[t].kind \notin Leaves
    <3>1. Len(gathered[t]) = Len(program[t].members)
      BY <1>1, <2>1 DEF IRInv, Filled
    <3>2. program[t].kind \in Leaves => program[t].members = <<>>
      BY <1>1 DEF IsProgram
    <3>3. gathered[t] \in Seq(Position \X Position)
      BY <1>1 DEF Typed
    <3>4. program[t].members = <<>> => Len(gathered[t]) = 0
      BY <3>1
    <3>5. gathered[t] # <<>>
      BY <2>2, <2>6
    <3>6. Len(gathered[t]) # 0
      BY <3>3, <3>5
    <3> QED
      BY <3>2, <3>4, <3>6
  <2>8. program[t].kind \in Kinds
    <3>1. program[t] \in PlainType
      BY <1>1 DEF Typed
    <3> QED
      BY <3>1 DEF PlainType
  <2>9. program[t].kind \in RefKinds
    BY <2>5, <2>7, <2>8 DEF Kinds
  <2> QED
    BY <2>1, <2>3, <2>4, <2>6, <2>9
<1>3. ASSUME NEW i \in C PROVE \E c \in C : i < c
  <2>1. PICK t \in DOMAIN program : /\ i = cache[t] /\ cache[t] # 0 /\ nodes[i].members = gathered[t]
    BY <1>2
  <2>2. PICK c \in C : c \in Children(nodes, i)
    BY <1>3
  <2>3. PICK j \in DOMAIN gathered[t] : c = gathered[t][j][2]
    BY <2>1, <2>2 DEF Children
  <2>4. PICK u \in DOMAIN program : c = cache[u] /\ program[u].kind \in RefKinds
    BY <1>2
  <2>5. cache[t] < cache[u]
    BY <1>1, <2>1, <2>3, <2>4 DEF PointsLater
  <2> QED
    BY <2>1, <2>4, <2>5
<1>4. Len(nodes) \in Nat /\ C \in SUBSET (1..Len(nodes))
  <2>1. nodes \in Seq(NodeRecord)
    BY <1>1 DEF Typed
  <2>2. Len(nodes) \in Nat /\ DOMAIN nodes = 1..Len(nodes)
    BY <2>1
  <2> QED
    BY <2>2
<1>5. PICK i \in C : \A c \in C : ~(i < c)
  BY <1>4, NoEndlessRise
<1> QED
  BY <1>3, <1>5

(* The recursions of normalizeTypeIR and of the generators, which follow   *)
(* pointers and stop at refs, end for every type below which no union,     *)
(* intersection or record contains itself.                                 *)
THEOREM CyclesHaveReason ==
  ASSUME Unnumbered
  PROVE  ExtractionSpec =>
    [](extracted => \A C \in SUBSET DOMAIN nodes :
         C # {} /\ (\A i \in C : Children(nodes, i) \cap C # {}) =>
           \E i \in C : nodes[i].kind \in OtherKinds)
<1>1. TagInv =>
        (extracted => \A C \in SUBSET DOMAIN nodes :
           C # {} /\ (\A i \in C : Children(nodes, i) \cap C # {}) =>
             \E i \in C : nodes[i].kind \in OtherKinds)
  BY CyclesPass
<1> QED
  BY <1>1, UnionsAreTagged, PTL

(* A ref leads to an object, an array or a tuple, and no ref is a literal. *)
LEMMA RefsLeadToTypes ==
  ASSUME IRInv, NEW i \in DOMAIN nodes, nodes[i].kind = "ref"
  PROVE  resolved(nodes, i) \in DOMAIN nodes /\ nodes[resolved(nodes, i)].kind \in RefKinds
<1>1. Accounted /\ Cached
  <2>1. nodes # <<>>
    BY DEF IRInv, Typed
  <2> QED
    BY <2>1 DEF IRInv
<1>2. PICK u \in DOMAIN program : cache[u] # 0 /\ isOf(i, u)
  BY <1>1 DEF Accounted
<1>3. nodes[cache[u]].kind = program[u].kind /\ cache[u] \in DOMAIN nodes
  BY <1>1, <1>2 DEF Cached
<1>4. program[u].kind # "ref"
  <2>1. program[u] \in PlainType
    BY DEF IRInv, Typed
  <2>2. program[u].kind \in Kinds
    BY <2>1 DEF PlainType
  <2> QED
    BY <2>2 DEF Kinds, Leaves, RefKinds, OtherKinds, UnionKinds
<1>5. i # cache[u]
  BY <1>3, <1>4
<1>6. nodes[i].target = cache[u] /\ program[u].kind \in RefKinds
  BY <1>2, <1>5 DEF isOf
<1> QED
  BY <1>3, <1>6 DEF resolved

(* The tags of an object are the literals of its members, refs followed.   *)
LEMMA TagsAreLiterals ==
  ASSUME IRInv, extracted, NEW v \in DOMAIN nodes, nodes[v].kind = "object", NEW k
  PROVE  tagsBy(nodes, v, k) = {<<k, y>> : y \in literalsAt(unfolded(nodes), v, k)}
<1>0. nodes # <<>> /\ \A t \in DOMAIN program : ~isOpen(t)
  BY DEF extracted, isOpen
<1>1. PICK ir : ir = unfolded(nodes)
  OBVIOUS
<1>2. PICK u \in DOMAIN program : v = cache[u] /\ cache[u] # 0 /\ program[u].kind = "object"
  <2>1. nodes[v].kind \in RefKinds \cup OtherKinds
    BY DEF RefKinds
  <2> QED
    BY <2>1, NodeOfType
<1>3. PICK ms : ms = gathered[u]
  OBVIOUS
<1>4. membersOf(nodes[v]) = ms /\ nodes[v].members = ms
  BY <1>0, <1>2, <1>3, MembersAreGathered
<1>5. \A j \in DOMAIN ms : ms[j][2] \in DOMAIN nodes
  <2>1. Gathered
    BY <1>0 DEF IRInv
  <2> QED
    BY <1>2, <1>3, <2>1 DEF Gathered, leads
<1>6. ir[v].members = [j \in DOMAIN ms |-> <<ms[j][1], resolved(nodes, ms[j][2])>>]
  BY <1>1, <1>4 DEF unfolded
<1>7. \A i \in DOMAIN nodes : ir[i].kind = nodes[i].kind /\ ir[i].value = nodes[i].value
  BY <1>1 DEF unfolded
<1> DEFINE r(j) == resolved(nodes, ms[j][2])
<1>8. ASSUME NEW j \in DOMAIN ms
      PROVE  /\ ir[r(j)].kind = "literal" <=> nodes[ms[j][2]].kind = "literal"
             /\ nodes[ms[j][2]].kind = "literal" => ir[r(j)].value = nodes[ms[j][2]].value
  <2>1. ms[j][2] \in DOMAIN nodes
    BY <1>5, <1>8
  <2>2. CASE nodes[ms[j][2]].kind = "ref"
    <3>1. r(j) \in DOMAIN nodes /\ nodes[r(j)].kind \in RefKinds
      BY <2>1, <2>2, RefsLeadToTypes
    <3>2. ir[r(j)].kind # "literal"
      BY <1>7, <3>1 DEF RefKinds
    <3> QED
      BY <2>2, <3>2
  <2>3. CASE nodes[ms[j][2]].kind # "ref"
    <3>1. r(j) = ms[j][2]
      BY <2>3 DEF resolved
    <3> QED
      BY <1>7, <2>1, <3>1
  <2> QED
    BY <2>2, <2>3
<1>9. partsByKey(ir, v) = {<<ms[j][1], r(j)>> : j \in DOMAIN ms}
  <2>1. DOMAIN ir[v].members = DOMAIN ms
    BY <1>6
  <2>2. \A j \in DOMAIN ms : ir[v].members[j][1] = ms[j][1] /\ ir[v].members[j][2] = r(j)
    BY <1>6
  <2>3. partsByKey(ir, v) = {<<ir[v].members[j][1], ir[v].members[j][2]>> : j \in DOMAIN ms}
    BY <2>1 DEF partsByKey
  <2> HIDE DEF r
  <2> QED
    BY <2>2, <2>3
<1> HIDE DEF r
<1>10. ASSUME NEW y
       PROVE  y \in literalsAt(ir, v, k) <=> \E j \in DOMAIN ms : ms[j][1] = k /\ nodes[ms[j][2]].kind = "literal" /\ y = nodes[ms[j][2]].value
  <2>1. literalsAt(ir, v, k) = {ir[x[2]].value : x \in {x \in partsByKey(ir, v) : x[1] = k /\ ir[x[2]].kind = "literal"}}
    BY DEF literalsAt
  <2>2. y \in literalsAt(ir, v, k) <=> \E x \in partsByKey(ir, v) : x[1] = k /\ ir[x[2]].kind = "literal" /\ y = ir[x[2]].value
    BY <2>1
  <2>3. y \in literalsAt(ir, v, k) <=> \E j \in DOMAIN ms : ms[j][1] = k /\ ir[r(j)].kind = "literal" /\ y = ir[r(j)].value
    <3>1. ASSUME NEW j \in DOMAIN ms
          PROVE  <<ms[j][1], r(j)>> \in partsByKey(ir, v) /\ <<ms[j][1], r(j)>>[1] = ms[j][1] /\ <<ms[j][1], r(j)>>[2] = r(j)
      BY <1>9
    <3>2. ASSUME NEW x \in partsByKey(ir, v)
          PROVE  \E j \in DOMAIN ms : x[1] = ms[j][1] /\ x[2] = r(j)
      BY <1>9
    <3> QED
      BY <2>2, <3>1, <3>2
  <2> QED
    BY <1>8, <2>3
<1>11. ASSUME NEW w
       PROVE  w \in tagsBy(nodes, v, k) <=> \E j \in DOMAIN ms : ms[j][1] = k /\ nodes[ms[j][2]].kind = "literal" /\ w = <<k, nodes[ms[j][2]].value>>
  <2>1. tags(nodes, v) = {<<ms[j][1], nodes[ms[j][2]].value>> : j \in {j \in DOMAIN ms : nodes[ms[j][2]].kind = "literal"}}
    BY <1>4 DEF tags
  <2>2. w \in tags(nodes, v) <=> \E j \in DOMAIN ms : nodes[ms[j][2]].kind = "literal" /\ w = <<ms[j][1], nodes[ms[j][2]].value>>
    BY <2>1
  <2>3. w \in tagsBy(nodes, v, k) <=> w \in tags(nodes, v) /\ w[1] = k
    BY DEF tagsBy
  <2> QED
    BY <2>2, <2>3
<1>12. tagsBy(nodes, v, k) = {<<k, y>> : y \in literalsAt(ir, v, k)}
  BY <1>10, <1>11
<1> QED
  BY <1>1, <1>12

(* Two objects have the same tags when they have the same literals.        *)
LEMMA TellingIsTelling ==
  ASSUME IRInv, extracted, NEW v \in DOMAIN nodes, nodes[v].kind = "object",
         NEW w \in DOMAIN nodes, nodes[w].kind = "object", NEW k
  PROVE  /\ tagsBy(nodes, v, k) # {} <=> literalsAt(unfolded(nodes), v, k) # {}
         /\ tagsBy(nodes, v, k) = tagsBy(nodes, w, k)
              <=> literalsAt(unfolded(nodes), v, k) = literalsAt(unfolded(nodes), w, k)
<1> DEFINE L(x) == literalsAt(unfolded(nodes), x, k)
<1>1. tagsBy(nodes, v, k) = {<<k, y>> : y \in L(v)} /\ tagsBy(nodes, w, k) = {<<k, y>> : y \in L(w)}
  BY TagsAreLiterals
<1> HIDE DEF L
<1>2. tagsBy(nodes, v, k) # {} <=> L(v) # {}
  <2>1. \A y \in L(v) : <<k, y>> \in tagsBy(nodes, v, k)
    BY <1>1
  <2>2. \A z \in tagsBy(nodes, v, k) : \E y \in L(v) : z = <<k, y>>
    BY <1>1
  <2> QED
    BY <2>1, <2>2
<1>3. tagsBy(nodes, v, k) = tagsBy(nodes, w, k) <=> L(v) = L(w)
  <2>1. ASSUME tagsBy(nodes, v, k) = tagsBy(nodes, w, k), NEW y PROVE y \in L(v) <=> y \in L(w)
    <3>1. y \in L(v) <=> <<k, y>> \in tagsBy(nodes, v, k)
      BY <1>1
    <3>2. y \in L(w) <=> <<k, y>> \in tagsBy(nodes, w, k)
      BY <1>1
    <3> QED
      BY <2>1, <3>1, <3>2
  <2>2. tagsBy(nodes, v, k) = tagsBy(nodes, w, k) => L(v) = L(w)
    <3>1. (\A y : y \in L(v) <=> y \in L(w)) => L(v) = L(w)
      <4>1. L(v) = literalsAt(unfolded(nodes), v, k) /\ L(w) = literalsAt(unfolded(nodes), w, k)
        BY DEF L
      <4> QED
        BY <4>1 DEF literalsAt
    <3> QED
      BY <2>1, <3>1
  <2> QED
    BY <1>1, <2>2
<1> QED
  BY <1>2, <1>3 DEF L

(* A union is tagged by what tells its members apart, and when something   *)
(* does that.                                                              *)
LEMMA TagsTell == TagInv => DiscriminatorsTell
<1> SUFFICES ASSUME TagInv, extracted, NEW i \in DOMAIN nodes, nodes[i].kind \in UnionKinds,
                    NEW ir, ir = unfolded(nodes), NEW U, U = Children(ir, i)
             PROVE  IF nodes[i].discriminator # 0 THEN tellsApart(ir, U, nodes[i].discriminator)
                    ELSE \/ Cardinality(U) < 2
                         \/ \E j \in DOMAIN nodes : nodes[j].kind = "ref"
                         \/ \A t \in U : \A x \in partsByKey(ir, t) : ~tellsApart(ir, U, x[1])
  BY DEF DiscriminatorsTell
<1>1. /\ nodes # <<>> /\ IRInv /\ Typed /\ Gathered /\ PointsOnce /\ Tagged
      /\ \A t \in DOMAIN program : ~isOpen(t)
  BY DEF extracted, TagInv, IRInv, isOpen
<1>2. PICK t \in DOMAIN program : i = cache[t] /\ cache[t] # 0 /\ program[t].kind \in UnionKinds
  <2>1. nodes[i].kind \in RefKinds \cup OtherKinds
    BY DEF OtherKinds, UnionKinds
  <2> QED
    BY <1>1, <2>1, NodeOfType
<1>3. PICK P : P = partsOf(t)
  OBVIOUS
<1>4. PICK d : d = nodes[i].discriminator
  OBVIOUS
<1>5. d = findDiscriminatorProperty(nodes, P)
  BY <1>1, <1>2, <1>3, <1>4 DEF Tagged
<1>6. /\ P \in Seq(Position) /\ DOMAIN P = DOMAIN gathered[t]
      /\ \A p \in DOMAIN P : P[p] = gathered[t][p][2] /\ P[p] \in DOMAIN nodes
  BY <1>1, <1>3, PartsAreNodes
<1>7. U = {resolved(nodes, P[p]) : p \in DOMAIN P}
  <2>1. membersOf(nodes[i]) = gathered[t]
    BY <1>1, <1>2, MembersAreGathered
  <2>2. ir[i].members = [j \in DOMAIN gathered[t] |-> <<gathered[t][j][1], resolved(nodes, gathered[t][j][2])>>]
    BY <2>1 DEF unfolded
  <2>3. DOMAIN ir[i].members = DOMAIN P
    BY <1>6, <2>2
  <2>4. \A p \in DOMAIN P : ir[i].members[p][2] = resolved(nodes, P[p])
    BY <1>6, <2>2
  <2>5. U = {ir[i].members[p][2] : p \in DOMAIN P}
    BY <2>3 DEF Children
  <2> QED
    BY <2>4, <2>5
<1>8. /\ areTwoObjects(nodes, P) /\ fitting(nodes, P) # {} =>
              \E j \in fitting(nodes, P) : d = nodes[P[1]].members[j][1]
      /\ ~(areTwoObjects(nodes, P) /\ fitting(nodes, P) # {}) => d = 0
  <2>1. nodes \in Seq(NodeRecord) /\ \A p \in DOMAIN P : P[p] \in DOMAIN nodes
    BY <1>1, <1>6 DEF Typed
  <2>2. areTwoObjects(nodes, P) /\ fitting(nodes, P) # {} =>
              \E j \in fitting(nodes, P) : d = nodes[P[1]].members[j][1]
    BY <1>5, <1>6, <2>1, Discriminator, SMTT(30)
  <2>3. ~(areTwoObjects(nodes, P) /\ fitting(nodes, P) # {}) => d = 0
    BY <1>5, <1>6, <2>1, Discriminator, SMTT(30)
  <2> QED
    BY <2>2, <2>3
<1>9. \A v \in DOMAIN nodes : ir[v].kind = nodes[v].kind
  BY DEF unfolded
<1>10. ASSUME NEW p \in DOMAIN P, nodes[P[p]].kind # "ref" PROVE resolved(nodes, P[p]) = P[p]
  BY <1>10 DEF resolved
<1>11. ASSUME d # 0 PROVE tellsApart(ir, U, d)
  <2>1. areTwoObjects(nodes, P) /\ fitting(nodes, P) # {}
    BY <1>8, <1>11
  <2>2. PICK j \in fitting(nodes, P) : d = nodes[P[1]].members[j][1]
    BY <1>8, <2>1
  <2>3. tells(nodes, P, d)
    BY <2>2 DEF fitting
  <2>4. \A p \in DOMAIN P : nodes[P[p]].kind = "object" /\ resolved(nodes, P[p]) = P[p]
    BY <1>10, <2>1 DEF areTwoObjects
  <2>5. \A v \in U : \E p \in DOMAIN P : v = P[p] /\ v \in DOMAIN nodes /\ nodes[v].kind = "object"
    BY <1>6, <1>7, <2>4
  <2>6. ASSUME NEW v \in U PROVE ir[v].kind = "object" /\ literalsAt(ir, v, d) # {}
    <3>1. PICK p \in DOMAIN P : v = P[p] /\ v \in DOMAIN nodes /\ nodes[v].kind = "object"
      BY <2>5
    <3>2. tagsBy(nodes, v, d) # {}
      BY <2>3, <3>1 DEF tells
    <3> QED
      BY <1>1, <1>9, <3>1, <3>2, TellingIsTelling
  <2>7. ASSUME NEW v \in U, NEW w \in U, v # w PROVE literalsAt(ir, v, d) # literalsAt(ir, w, d)
    <3>1. PICK p \in DOMAIN P : v = P[p] /\ v \in DOMAIN nodes /\ nodes[v].kind = "object"
      BY <2>5
    <3>2. PICK q \in DOMAIN P : w = P[q] /\ w \in DOMAIN nodes /\ nodes[w].kind = "object"
      BY <2>5
    <3>3. tagsBy(nodes, v, d) # tagsBy(nodes, w, d)
      BY <2>3, <2>7, <3>1, <3>2 DEF tells
    <3> QED
      BY <1>1, <3>1, <3>2, <3>3, TellingIsTelling
  <2> QED
    BY <2>6, <2>7 DEF tellsApart
<1>12. ASSUME d = 0, ~(Cardinality(U) < 2), ~\E j \in DOMAIN nodes : nodes[j].kind = "ref",
              NEW v \in U, NEW x \in partsByKey(ir, v), tellsApart(ir, U, x[1])
       PROVE  FALSE
  <2>1. PICK k : k = x[1]
    OBVIOUS
  <2>2. \A p \in DOMAIN P : resolved(nodes, P[p]) = P[p] /\ P[p] \in U
    BY <1>6, <1>7, <1>10, <1>12
  <2>3. \A p \in DOMAIN P : nodes[P[p]].kind = "object" /\ literalsAt(ir, P[p], k) # {}
    <3>1. \A p \in DOMAIN P : ir[P[p]].kind = "object" /\ literalsAt(ir, P[p], k) # {}
      BY <1>12, <2>1, <2>2 DEF tellsApart
    <3> QED
      BY <1>6, <1>9, <3>1
  <2>4. Len(P) >= 2
    <3>1. Len(P) \in Nat /\ DOMAIN P = 1..Len(P)
      BY <1>6
    <3>2. CASE Len(P) = 0
      <4>1. U = {}
        BY <1>7, <3>1, <3>2
      <4>2. Cardinality(U) = 0
        BY <4>1, FS_EmptySet
      <4> QED
        BY <1>12, <4>2
    <3>3. CASE Len(P) = 1
      <4>1. DOMAIN P = {1}
        BY <3>1, <3>3
      <4>2. U = {P[1]}
        BY <1>7, <2>2, <4>1
      <4>3. Cardinality(U) = 1
        BY <4>2, FS_Singleton
      <4> QED
        BY <1>12, <4>3
    <3> QED
      BY <3>1, <3>2, <3>3
  <2>5. areTwoObjects(nodes, P)
    BY <2>3, <2>4 DEF areTwoObjects
  <2>6. tells(nodes, P, k)
    <3>1. ASSUME NEW p \in DOMAIN P PROVE tagsBy(nodes, P[p], k) # {}
      BY <1>1, <1>6, <2>3, TellingIsTelling
    <3>2. ASSUME NEW p \in DOMAIN P, NEW q \in DOMAIN P, p # q PROVE tagsBy(nodes, P[p], k) # tagsBy(nodes, P[q], k)
      <4>1. P[p] # P[q]
        <5>1. nodes[P[p]].kind \in RefKinds
          BY <2>3 DEF RefKinds
        <5> QED
          BY <1>1, <1>6, <3>2, <5>1 DEF PointsOnce
      <4>2. literalsAt(ir, P[p], k) # literalsAt(ir, P[q], k)
        BY <1>12, <2>1, <2>2, <4>1 DEF tellsApart
      <4> QED
        BY <1>1, <1>6, <2>3, <4>2, TellingIsTelling
    <3> QED
      BY <3>1, <3>2 DEF tells
  <2>7. 1 \in DOMAIN P
    BY <1>6, <2>4
  <2>8. tagsBy(nodes, P[1], k) # {}
    BY <2>6, <2>7 DEF tells
  <2>9. \E j \in DOMAIN nodes[P[1]].members : nodes[P[1]].members[j][1] = k
    <3>1. PICK z \in tags(nodes, P[1]) : z[1] = k
      BY <2>8 DEF tagsBy
    <3>2. PICK j \in DOMAIN nodes[P[1]].members : z = <<nodes[P[1]].members[j][1], nodes[nodes[P[1]].members[j][2]].value>>
      BY <3>1 DEF tags
    <3>3. z[1] = nodes[P[1]].members[j][1]
      BY <3>2
    <3> QED
      BY <3>1, <3>3
  <2>10. fitting(nodes, P) # {}
    BY <2>6, <2>9 DEF fitting
  <2>11. PICK j \in fitting(nodes, P) : d = nodes[P[1]].members[j][1]
    BY <1>8, <2>5, <2>10
  <2>12. PICK w \in DOMAIN program : P[1] = cache[w] /\ cache[w] # 0 /\ program[w].kind = "object"
    <3>1. nodes[P[1]].kind \in RefKinds \cup OtherKinds
      BY <2>3, <2>7 DEF RefKinds
    <3> QED
      BY <1>1, <1>6, <2>3, <2>7, <3>1, NodeOfType
  <2>13. nodes[P[1]].members = gathered[w]
    <3>1. program[w].kind # "record"
      BY <2>12
    <3> QED
      BY <1>1, <2>12, <3>1, MembersAreGathered
  <2>14. gathered[w] \in Seq(Position \X Position) /\ j \in DOMAIN gathered[w]
    BY <1>1, <2>11, <2>13 DEF Typed, fitting
  <2>15. gathered[w][j] \in Position \X Position
    <3> DEFINE g == gathered[w]
    <3>1. g \in Seq(Position \X Position) /\ j \in DOMAIN g
      BY <2>14
    <3> HIDE DEF g
    <3>2. g[j] \in Position \X Position
      BY <3>1
    <3> QED
      BY <3>2 DEF g
  <2>16. d \in Position
    BY <2>11, <2>13, <2>15
  <2> QED
    BY <1>12, <2>16 DEF Position
<1> QED
  BY <1>4, <1>11, <1>12

(* A discriminator tells all members of its union apart, and a union of    *)
(* types that are sighted once has one when it can.                        *)
THEOREM DiscriminatorsTellApart == ASSUME Unnumbered PROVE ExtractionSpec => []DiscriminatorsTell
BY UnionsAreTagged, TagsTell, PTL

-----------------------------------------------------------------------------
(* What is below a node.                                                   *)
isGraph(ir) == Len(ir) \in Nat /\ DOMAIN ir = 1..Len(ir) /\ \A i \in DOMAIN ir : Children(ir, i) \subseteq DOMAIN ir
direct(ir) == [i \in DOMAIN ir |-> Children(ir, i)]
wider(ir, fewer, n) == [i \in DOMAIN ir |-> IF n \in fewer[i] THEN fewer[i] \cup fewer[n] ELSE fewer[i]]
isThrough(ir, f, k) == f = [n \in 0..k |-> IF n = 0 THEN direct(ir) ELSE wider(ir, f[n - 1], n)]

(* The recursion of below has a solution.                                  *)
LEMMA ThroughExists ==
  ASSUME NEW ir, NEW N \in Nat
  PROVE  \E f : isThrough(ir, f, N)
<1> DEFINE T == {k \in 0..N : ~\E f : isThrough(ir, f, k)}
<1> SUFFICES ASSUME T # {} PROVE FALSE
  OBVIOUS
<1>1. PICK m \in T : \A k \in T : m <= k
  <2>1. T \in SUBSET Nat
    OBVIOUS
  <2> HIDE DEF T
  <2> QED
    BY <2>1, Least
<1>2. m \in 0..N /\ ~\E f : isThrough(ir, f, m)
  OBVIOUS
<1>3. CASE m = 0
  <2> DEFINE f == [n \in 0..0 |-> direct(ir)]
  <2>1. f = [n \in 0..0 |-> IF n = 0 THEN direct(ir) ELSE wider(ir, f[n - 1], n)]
    OBVIOUS
  <2> QED
    BY <1>2, <1>3, <2>1 DEF isThrough
<1>4. CASE m # 0
  <2>1. m - 1 \in 0..N /\ m - 1 \notin T
    BY <1>1, <1>2, <1>4
  <2>2. PICK g : isThrough(ir, g, m - 1)
    BY <2>1
  <2> DEFINE f == [n \in 0..m |-> IF n = m THEN wider(ir, g[m - 1], m) ELSE g[n]]
  <2>3. ASSUME NEW n \in 0..m PROVE f[n] = IF n = 0 THEN direct(ir) ELSE wider(ir, f[n - 1], n)
    <3>1. CASE n = m
      <4>1. f[n] = wider(ir, g[m - 1], m)
        BY <3>1
      <4>2. f[m - 1] = g[m - 1]
        BY <1>2, <1>4
      <4> HIDE DEF f
      <4> QED
        BY <3>1, <4>1, <4>2, <1>4
    <3>2. CASE n # m
      <4>1. n \in 0..(m - 1) /\ f[n] = g[n]
        BY <1>2, <3>2
      <4>2. g[n] = IF n = 0 THEN direct(ir) ELSE wider(ir, g[n - 1], n)
        BY <2>2, <4>1 DEF isThrough
      <4>3. n # 0 => f[n - 1] = g[n - 1]
        BY <1>2, <4>1
      <4> HIDE DEF f
      <4> QED
        BY <4>1, <4>2, <4>3
    <3> QED
      BY <3>1, <3>2
  <2>4. f = [n \in 0..m |-> IF n = 0 THEN direct(ir) ELSE wider(ir, f[n - 1], n)]
    <3>1. f = [n \in 0..m |-> f[n]]
      OBVIOUS
    <3> HIDE DEF f
    <3> QED
      BY <2>3, <3>1
  <2> QED
    BY <1>2, <2>4 DEF isThrough
<1> QED
  BY <1>3, <1>4

LEMMA Through ==
  ASSUME NEW ir, Len(ir) \in Nat
  PROVE  \E f : isThrough(ir, f, Len(ir)) /\ below(ir) = f[Len(ir)]
<1> DEFINE f == CHOOSE f : f = [n \in 0..Len(ir) |-> IF n = 0 THEN direct(ir) ELSE wider(ir, f[n - 1], n)]
<1>1. isThrough(ir, f, Len(ir))
  BY ThroughExists DEF isThrough
<1>2. below(ir) = f[Len(ir)]
  BY DEF below, direct, wider
<1> QED
  BY <1>1, <1>2

(* Induction, over a set that is given.                                    *)
LEMMA Induction ==
  ASSUME NEW N \in Nat, NEW T, 0 \in T, \A n \in 1..N : n - 1 \in T => n \in T
  PROVE  \A n \in 0..N : n \in T
<1> DEFINE U == {n \in 0..N : n \notin T}
<1> SUFFICES ASSUME U # {} PROVE FALSE
  OBVIOUS
<1>1. PICK m \in U : \A k \in U : m <= k
  <2>1. U \in SUBSET Nat
    OBVIOUS
  <2> HIDE DEF U
  <2> QED
    BY <2>1, Least
<1>2. m \in 1..N /\ m - 1 \in 0..N /\ ~(m <= m - 1)
  OBVIOUS
<1>3. m - 1 \in T
  BY <1>1, <1>2
<1> QED
  BY <1>2, <1>3

(* What below is: closed under taking children, transitive, and the least  *)
(* that is.                                                                *)
isClosed(ir, S) == \A i \in S : Children(ir, i) \subseteq S
isThroughTo(ir, b, n) ==
  /\ b \in [DOMAIN ir -> SUBSET DOMAIN ir]
  /\ \A i \in DOMAIN ir : Children(ir, i) \subseteq b[i]
  /\ \A i, k, j \in DOMAIN ir : k <= n /\ k \in b[i] /\ j \in b[k] => j \in b[i]
  /\ \A S \in SUBSET DOMAIN ir, i \in DOMAIN ir : isClosed(ir, S) /\ Children(ir, i) \subseteq S => b[i] \subseteq S

LEMMA Widening ==
  ASSUME NEW ir, isGraph(ir), NEW n \in DOMAIN ir, NEW a, isThroughTo(ir, a, n - 1)
  PROVE  isThroughTo(ir, wider(ir, a, n), n)
<1> DEFINE D == DOMAIN ir
           b == wider(ir, a, n)
<1>1. \A i \in D : b[i] = IF n \in a[i] THEN a[i] \cup a[n] ELSE a[i]
  BY DEF wider
<1>2. a \in [D -> SUBSET D] /\ \A i \in D : a[i] \subseteq D
  BY DEF isThroughTo
<1>3. b \in [D -> SUBSET D]
  <2>1. \A i \in D : (IF n \in a[i] THEN a[i] \cup a[n] ELSE a[i]) \in SUBSET D
    BY <1>2
  <2> QED
    BY <2>1 DEF wider
<1> HIDE DEF b
<1>4. \A i \in D : Children(ir, i) \subseteq b[i]
  <2>1. \A i \in D : Children(ir, i) \subseteq a[i]
    BY DEF isThroughTo
  <2> QED
    BY <1>1, <2>1
<1>5. ASSUME NEW i \in D, NEW k \in D, NEW j \in D, k <= n, k \in b[i], j \in b[k]
      PROVE  j \in b[i]
  <2>1. \A x, y, z \in D : y <= n - 1 /\ y \in a[x] /\ z \in a[y] => z \in a[x]
    BY DEF isThroughTo
  <2>2. b[i] = (IF n \in a[i] THEN a[i] \cup a[n] ELSE a[i]) /\ b[k] = (IF n \in a[k] THEN a[k] \cup a[n] ELSE a[k])
    BY <1>1
  <2>3. n \in Int /\ k \in Int
    BY DEF isGraph
  <2>4. CASE k = n
    <3>1. n \in a[i] /\ j \in a[n]
      BY <1>5, <2>2, <2>4
    <3> QED
      BY <2>2, <3>1
  <2>5. CASE k # n
    <3>1. k <= n - 1
      BY <1>5, <2>3, <2>5
    <3>2. CASE k \in a[i]
      <4>1. CASE j \in a[k]
        <5>1. j \in a[i]
          BY <2>1, <3>1, <3>2, <4>1
        <5> QED
          BY <2>2, <5>1
      <4>2. CASE n \in a[k] /\ j \in a[n]
        <5>1. n \in a[i]
          BY <2>1, <3>1, <3>2, <4>2
        <5> QED
          BY <2>2, <4>2, <5>1
      <4> QED
        BY <1>5, <2>2, <4>1, <4>2
    <3>3. CASE n \in a[i] /\ k \in a[n]
      <4>1. CASE j \in a[k]
        <5>1. j \in a[n]
          BY <2>1, <3>1, <3>3, <4>1
        <5> QED
          BY <2>2, <3>3, <5>1
      <4>2. CASE n \in a[k] /\ j \in a[n]
        BY <2>2, <3>3, <4>2
      <4> QED
        BY <1>5, <2>2, <4>1, <4>2
    <3> QED
      BY <1>5, <2>2, <3>2, <3>3
  <2> QED
    BY <2>4, <2>5
<1>6. ASSUME NEW S \in SUBSET D, NEW i \in D, isClosed(ir, S), Children(ir, i) \subseteq S
      PROVE  b[i] \subseteq S
  <2>1. \A x \in D : Children(ir, x) \subseteq S => a[x] \subseteq S
    BY <1>6 DEF isThroughTo
  <2>2. a[i] \subseteq S
    BY <1>6, <2>1
  <2>3. n \in a[i] => a[n] \subseteq S
    BY <1>6, <2>1, <2>2 DEF isClosed
  <2> QED
    BY <1>1, <2>2, <2>3
<1> QED
  BY <1>3, <1>4, <1>5, <1>6 DEF isThroughTo, b

LEMMA Below ==
  ASSUME NEW ir, isGraph(ir)
  PROVE  /\ below(ir) \in [DOMAIN ir -> SUBSET DOMAIN ir]
         /\ \A i \in DOMAIN ir : Children(ir, i) \subseteq below(ir)[i]
         /\ \A i, k, j \in DOMAIN ir : k \in below(ir)[i] /\ j \in below(ir)[k] => j \in below(ir)[i]
         /\ \A S \in SUBSET DOMAIN ir, i \in DOMAIN ir :
              isClosed(ir, S) /\ Children(ir, i) \subseteq S => below(ir)[i] \subseteq S
<1>1. Len(ir) \in Nat /\ DOMAIN ir = 1..Len(ir) /\ \A i \in DOMAIN ir : Children(ir, i) \subseteq DOMAIN ir
  BY DEF isGraph
<1>2. PICK f : isThrough(ir, f, Len(ir)) /\ below(ir) = f[Len(ir)]
  BY <1>1, Through
<1> DEFINE T == {n \in 0..Len(ir) : isThroughTo(ir, f[n], n)}
<1>3. \A n \in 0..Len(ir) : f[n] = IF n = 0 THEN direct(ir) ELSE wider(ir, f[n - 1], n)
  BY <1>2 DEF isThrough
<1>4. 0 \in T
  <2>1. f[0] = direct(ir)
    BY <1>1, <1>3
  <2>2. direct(ir) \in [DOMAIN ir -> SUBSET DOMAIN ir] /\ \A i \in DOMAIN ir : direct(ir)[i] = Children(ir, i)
    BY <1>1 DEF direct
  <2>3. \A k \in DOMAIN ir : ~(k <= 0)
    BY <1>1
  <2>4. isThroughTo(ir, direct(ir), 0)
    BY <2>2, <2>3 DEF isThroughTo
  <2> QED
    BY <1>1, <2>1, <2>4
<1>5. ASSUME NEW n \in 1..Len(ir), n - 1 \in T PROVE n \in T
  <2>1. n \in 0..Len(ir) /\ n # 0
    BY <1>1
  <2>2. f[n] = wider(ir, f[n - 1], n) /\ isThroughTo(ir, f[n - 1], n - 1)
    BY <1>3, <1>5, <2>1
  <2>3. isThroughTo(ir, f[n], n)
    BY <1>1, <2>2, Widening
  <2> QED
    BY <2>1, <2>3
<1>6. Len(ir) \in T
  <2>1. \A n \in 0..Len(ir) : n \in T
    <3> HIDE DEF T
    <3> QED
      BY <1>1, <1>4, <1>5, Induction
  <2> QED
    BY <1>1, <2>1
<1>7. isThroughTo(ir, below(ir), Len(ir))
  BY <1>2, <1>6
<1>8. \A k \in DOMAIN ir : k <= Len(ir)
  BY <1>1
<1> QED
  BY <1>7, <1>8 DEF isThroughTo

(* A node is below itself, whether the walk meets it or not.               *)
hasCycle(ir) == \E i \in DOMAIN ir : i \in below(ir)[i]
LEMMA CyclesOfWalk ==
  ASSUME NEW ir, isGraph(ir), 1 \in DOMAIN ir
  PROVE  /\ isCyclic(ir) => hasCycle(ir)
         /\ walkTypeIR(ir) = DOMAIN ir => (isCyclic(ir) <=> hasCycle(ir))
<1>1. below(ir)[1] \subseteq DOMAIN ir
  BY Below
<1> QED
  BY <1>1 DEF isCyclic, hasCycle, walkTypeIR


(* Without cycles, some node of a set is above no other.                   *)
LEMMA Deepest ==
  ASSUME NEW ir, isGraph(ir), ~hasCycle(ir), NEW B \in SUBSET DOMAIN ir, B # {}
  PROVE  \E k \in B : \A m \in B : m \notin below(ir)[k]
<1> DEFINE R == StrictSubsetOrdering(Nat)
           U == {below(ir)[k] : k \in B}
<1>1. IsWellFoundedOn(R, FiniteSubsetsOf(Nat))
  BY FS_StrictSubsetOrderingWellFounded
<1>2. \A k \in B : below(ir)[k] \in SUBSET DOMAIN ir
  BY Below
<1>3. \A S \in SUBSET DOMAIN ir : S \in FiniteSubsetsOf(Nat) /\ S \in SUBSET Nat
  <2>1. DOMAIN ir \in SUBSET Nat /\ IsFiniteSet(DOMAIN ir)
    <3>1. Len(ir) \in Nat /\ DOMAIN ir = 1..Len(ir)
      BY DEF isGraph
    <3>2. IsFiniteSet(1..Len(ir))
      BY <3>1, FS_Interval
    <3> QED
      BY <3>1, <3>2
  <2>2. \A S \in SUBSET DOMAIN ir : IsFiniteSet(S)
    BY <2>1, FS_Subset
  <2> QED
    BY <2>1, <2>2 DEF FiniteSubsetsOf
<1>4. U \subseteq FiniteSubsetsOf(Nat) /\ U # {}
  BY <1>2, <1>3
<1>5. PICK x \in U : \A y \in U : <<y, x>> \notin R
  <2> HIDE DEF R, U
  <2> QED
    BY <1>1, <1>4, WFMin
<1>6. PICK k \in B : x = below(ir)[k]
  BY <1>5
<1>7. ASSUME NEW m \in B, m \in below(ir)[k] PROVE FALSE
  <2>1. below(ir)[m] \in U
    OBVIOUS
  <2>2. below(ir)[m] \in SUBSET Nat /\ below(ir)[k] \in SUBSET Nat
    BY <1>2, <1>3
  <2>3. \A j \in below(ir)[m] : j \in below(ir)[k]
    <3>1. \A j \in below(ir)[m] : j \in DOMAIN ir
      BY <1>2
    <3> QED
      BY <1>7, <3>1, Below
  <2>4. m \notin below(ir)[m]
    BY DEF hasCycle
  <2>5. <<below(ir)[m], below(ir)[k]>> \in R
    BY <1>7, <2>2, <2>3, <2>4 DEF StrictSubsetOrdering
  <2> QED
    BY <1>5, <1>6, <2>1, <2>5
<1> QED
  BY <1>7

-----------------------------------------------------------------------------
(* Normal forms.                                                           *)
body(ir, g, i) == normalized(ir, i, [j \in DOMAIN ir[i].members |-> g[ir[i].members[j][2]]])
under(ir, i) == {i} \cup below(ir)[i]
isSolution(ir, g, K) == g = [k \in K |-> body(ir, g, k)]
solutions(ir) == [k \in DOMAIN ir |-> (CHOOSE g : isSolution(ir, g, under(ir, k)))[k]]
isSolved(ir, k) ==
  /\ \E g : isSolution(ir, g, under(ir, k))
  /\ \A g : isSolution(ir, g, under(ir, k)) => \A m \in under(ir, k) : g[m] = solutions(ir)[m]

(* The recursion of a node reads only its children.                        *)
LEMMA SameBody ==
  ASSUME NEW ir, NEW i \in DOMAIN ir, NEW g, NEW h, \A c \in Children(ir, i) : g[c] = h[c]
  PROVE  body(ir, g, i) = body(ir, h, i)
<1>1. \A j \in DOMAIN ir[i].members : g[ir[i].members[j][2]] = h[ir[i].members[j][2]]
  BY DEF Children
<1>2. [j \in DOMAIN ir[i].members |-> g[ir[i].members[j][2]]] = [j \in DOMAIN ir[i].members |-> h[ir[i].members[j][2]]]
  BY <1>1
<1> QED
  BY <1>2 DEF body

(* What solves the recursion for a node solves it for the nodes below.     *)
LEMMA SolvedBelow ==
  ASSUME NEW ir, isGraph(ir), NEW k \in DOMAIN ir, NEW m \in below(ir)[k], NEW g, isSolution(ir, g, under(ir, k))
  PROVE  \E h : isSolution(ir, h, under(ir, m)) /\ \A j \in under(ir, m) : h[j] = g[j]
<1>1. below(ir)[k] \subseteq DOMAIN ir /\ m \in DOMAIN ir
  BY Below
<1>2. under(ir, m) \subseteq under(ir, k)
  BY <1>1, Below DEF under
<1> DEFINE h == [j \in under(ir, m) |-> g[j]]
<1>3. ASSUME NEW j \in under(ir, m) PROVE h[j] = body(ir, h, j)
  <2>1. j \in DOMAIN ir /\ Children(ir, j) \subseteq under(ir, m)
    <3>1. j \in DOMAIN ir
      BY <1>1, Below DEF under
    <3>2. Children(ir, j) \subseteq below(ir)[j] /\ Children(ir, j) \subseteq DOMAIN ir
      BY <3>1, Below DEF isGraph
    <3>3. \A c \in below(ir)[j] : c \in DOMAIN ir => c \in below(ir)[m]
      BY <1>1, <3>1, Below DEF under
    <3> QED
      BY <3>1, <3>2, <3>3 DEF under
  <2>2. \A c \in Children(ir, j) : h[c] = g[c]
    BY <2>1
  <2>3. body(ir, h, j) = body(ir, g, j)
    <3> HIDE DEF h
    <3> QED
      BY <2>1, <2>2, SameBody
  <2>4. g[j] = body(ir, g, j)
    BY <1>2 DEF isSolution
  <2>5. h[j] = g[j]
    OBVIOUS
  <2> HIDE DEF h
  <2> QED
    BY <2>3, <2>4, <2>5
<1>4. h = [j \in under(ir, m) |-> body(ir, h, j)]
  <2>1. h = [j \in under(ir, m) |-> h[j]]
    OBVIOUS
  <2> HIDE DEF h
  <2> QED
    BY <1>3, <2>1
<1> QED
  BY <1>4 DEF isSolution

(* Without cycles, the recursion has one solution at every node.           *)
LEMMA BodyOfSolution ==
  ASSUME NEW ir, isGraph(ir), NEW j \in DOMAIN ir, isSolved(ir, j)
  PROVE  solutions(ir)[j] = body(ir, solutions(ir), j)
<1>1. PICK h : isSolution(ir, h, under(ir, j))
  BY DEF isSolved
<1>2. \A m \in under(ir, j) : h[m] = solutions(ir)[m]
  BY <1>1 DEF isSolved
<1>3. j \in under(ir, j) /\ Children(ir, j) \subseteq under(ir, j)
  BY Below DEF under
<1>4. h[j] = body(ir, h, j)
  BY <1>1, <1>3 DEF isSolution
<1>5. body(ir, h, j) = body(ir, solutions(ir), j)
  BY <1>2, <1>3, SameBody
<1> QED
  BY <1>2, <1>3, <1>4, <1>5

LEMMA OneSolution ==
  ASSUME NEW ir, isGraph(ir), ~hasCycle(ir)
  PROVE  \A k \in DOMAIN ir : isSolved(ir, k)
<1> DEFINE B == {k \in DOMAIN ir : ~isSolved(ir, k)}
           V == solutions(ir)
<1> SUFFICES ASSUME B # {} PROVE FALSE
  OBVIOUS
<1>1. PICK k \in B : \A m \in B : m \notin below(ir)[k]
  <2>1. B \in SUBSET DOMAIN ir
    OBVIOUS
  <2> HIDE DEF B
  <2> QED
    BY <2>1, Deepest
<1>2. k \in DOMAIN ir /\ ~isSolved(ir, k)
  OBVIOUS
<1>3. below(ir)[k] \subseteq DOMAIN ir /\ k \notin below(ir)[k] /\ Children(ir, k) \subseteq below(ir)[k]
  BY <1>2, Below DEF hasCycle
<1>4. \A m \in below(ir)[k] : isSolved(ir, m)
  BY <1>1, <1>3
<1>5. \A m \in below(ir)[k] : Children(ir, m) \subseteq below(ir)[k]
  <2> SUFFICES ASSUME NEW m \in below(ir)[k], NEW c \in Children(ir, m) PROVE c \in below(ir)[k]
    OBVIOUS
  <2>1. m \in DOMAIN ir /\ c \in below(ir)[m] /\ c \in DOMAIN ir
    BY <1>3, Below DEF isGraph
  <2> QED
    BY <1>2, <2>1, Below
<1> HIDE DEF B
<1>6. \E g : isSolution(ir, g, under(ir, k))
  <2> DEFINE g == [j \in under(ir, k) |-> IF j = k THEN body(ir, V, k) ELSE V[j]]
  <2>1. \A c \in below(ir)[k] : g[c] = V[c]
    BY <1>3 DEF under
  <2>2. g[k] = body(ir, V, k)
    BY DEF under
  <2>3. ASSUME NEW j \in under(ir, k) PROVE g[j] = body(ir, g, j)
    <3>1. CASE j = k
      <4>1. body(ir, V, k) = body(ir, g, k)
        <5> HIDE DEF g
        <5> QED
          BY <1>2, <1>3, <2>1, SameBody
      <4> HIDE DEF g
      <4> QED
        BY <2>2, <3>1, <4>1
    <3>2. CASE j \in below(ir)[k]
      <4>1. j \in DOMAIN ir /\ V[j] = body(ir, V, j)
        BY <1>3, <1>4, <3>2, BodyOfSolution
      <4>2. body(ir, V, j) = body(ir, g, j)
        <5>1. \A c \in Children(ir, j) : V[c] = g[c]
          <6> HIDE DEF g
          <6> QED
            BY <1>5, <2>1, <3>2
        <5> HIDE DEF g
        <5> QED
          BY <4>1, <5>1, SameBody
      <4>3. g[j] = V[j]
        <5> HIDE DEF g
        <5> QED
          BY <2>1, <3>2
      <4> HIDE DEF g
      <4> QED
        BY <4>1, <4>2, <4>3
    <3> QED
      BY <3>1, <3>2 DEF under
  <2>4. g = [j \in under(ir, k) |-> body(ir, g, j)]
    <3>1. g = [j \in under(ir, k) |-> g[j]]
      OBVIOUS
    <3> HIDE DEF g
    <3> QED
      BY <2>3, <3>1
  <2> QED
    BY <2>4 DEF isSolution
<1>7. ASSUME NEW g, isSolution(ir, g, under(ir, k)), NEW m \in below(ir)[k]
      PROVE  g[m] = V[m]
  <2>1. PICK h : isSolution(ir, h, under(ir, m)) /\ \A j \in under(ir, m) : h[j] = g[j]
    BY <1>2, <1>7, SolvedBelow
  <2>2. m \in under(ir, m)
    BY DEF under
  <2>3. h[m] = V[m]
    BY <1>4, <2>1, <2>2 DEF isSolved
  <2> QED
    BY <2>1, <2>2, <2>3
<1>8. ASSUME NEW g, isSolution(ir, g, under(ir, k))
      PROVE  g[k] = V[k]
  <2> DEFINE G == CHOOSE h : isSolution(ir, h, under(ir, k))
  <2>1. isSolution(ir, G, under(ir, k))
    BY <1>6
  <2>2. V[k] = G[k]
    BY <1>2 DEF solutions
  <2> HIDE DEF G
  <2>3. \A c \in Children(ir, k) : g[c] = G[c]
    BY <1>3, <1>7, <1>8, <2>1
  <2>4. k \in under(ir, k)
    BY DEF under
  <2>5. g[k] = body(ir, g, k) /\ G[k] = body(ir, G, k)
    BY <1>8, <2>1, <2>4 DEF isSolution
  <2>6. body(ir, g, k) = body(ir, G, k)
    BY <1>2, <2>3, SameBody
  <2> QED
    BY <2>2, <2>5, <2>6
<1>9. isSolved(ir, k)
  BY <1>6, <1>7, <1>8 DEF isSolved, under
<1> QED
  BY <1>2, <1>9

(* The normal forms of an IR are those of its nodes.                       *)
areNormal(ir, N) == N = [i \in DOMAIN ir |-> body(ir, N, i)]
LEMMA NormalForms ==
  ASSUME NEW ir, isGraph(ir), ~hasCycle(ir)
  PROVE  \E N : areNormal(ir, N) /\ normalizeTypeIR(ir) = N[1]
<1> DEFINE V == solutions(ir)
           N == CHOOSE child : child = [i \in DOMAIN ir |-> normalized(ir, i, [j \in DOMAIN ir[i].members |-> child[ir[i].members[j][2]]])]
<1>1. \A j \in DOMAIN ir : V[j] = body(ir, V, j)
  BY OneSolution, BodyOfSolution
<1>2. V = [i \in DOMAIN ir |-> V[i]]
  BY DEF solutions
<1>3. V = [i \in DOMAIN ir |-> body(ir, V, i)]
  <2> HIDE DEF V
  <2> QED
    BY <1>1, <1>2
<1>4. areNormal(ir, N)
  <2> HIDE DEF V
  <2> QED
    BY <1>3 DEF areNormal, body
<1>5. normalizeTypeIR(ir) = N[1]
  BY DEF normalizeTypeIR
<1> QED
  BY <1>4, <1>5

-----------------------------------------------------------------------------
(* An IR and its program: what an extraction leaves.                       *)
haveNodes(p, ir, c, g) ==
  \A t \in DOMAIN p : c[t] # 0 =>
    /\ c[t] \in DOMAIN ir /\ ir[c[t]].members = keyed(p[t], c[t]) \o g[t]
    /\ ir[c[t]].kind = p[t].kind /\ ir[c[t]].name = p[t].name /\ ir[c[t]].value = p[t].value
    /\ p[t].kind = "record" => c[t] + 1 \in DOMAIN ir /\ ir[c[t] + 1].kind = "primitive"
ownNodes(p, c) == \A t, u \in DOMAIN p : c[t] = c[u] /\ c[t] # 0 => t = u
haveMembers(p, ir, c, g) ==
  \A t \in DOMAIN p : c[t] # 0 =>
    /\ g[t] \in Seq(Position \X Position) /\ DOMAIN g[t] = DOMAIN p[t].members
    /\ \A j \in DOMAIN p[t].members :
         /\ g[t][j][1] = p[t].members[j][1] /\ g[t][j][2] \in DOMAIN ir /\ c[p[t].members[j][2]] \in DOMAIN ir
         /\ resolved(ir, g[t][j][2]) = c[p[t].members[j][2]]
haveReasons(p, ir, c) ==
  \A i \in DOMAIN ir : \E t \in DOMAIN p : c[t] # 0 /\
    \/ i = c[t]
    \/ /\ ir[i].kind = "ref" /\ ir[i].target = c[t] /\ ir[i].members = <<>>
       /\ ir[i].name = p[t].name /\ p[t].kind \in RefKinds
    \/ /\ p[t].kind = "record" /\ i = c[t] + 1
       /\ ir[i].kind = "primitive" /\ ir[i].members = <<>>
isIR(p, ir, c, g) ==
  /\ p \in Seq(PlainType) /\ IsProgram(p) /\ ir \in Seq(NodeRecord) /\ c \in [DOMAIN p -> Nat]
  /\ haveNodes(p, ir, c, g) /\ ownNodes(p, c) /\ haveMembers(p, ir, c, g) /\ haveReasons(p, ir, c)

LEMMA IsIR ==
  ASSUME IRInv, extracted
  PROVE  isIR(program, nodes, cache, gathered) /\ cache[1] = 1 /\ 1 \in DOMAIN program /\ 1 \in DOMAIN nodes
<1>1. /\ nodes # <<>> /\ Typed /\ cache[1] = 1 /\ IsProgram(program)
      /\ Cached /\ OneNodeEach /\ Accounted /\ Gathered /\ Filled /\ \A t \in DOMAIN program : ~isOpen(t)
  BY DEF extracted, IRInv, isOpen
<1>2. haveNodes(program, nodes, cache, gathered)
  BY <1>1 DEF Cached, Filled, haveNodes
<1>3. ASSUME NEW t \in DOMAIN program, cache[t] # 0
      PROVE  gathered[t] \in Seq(Position \X Position) /\ DOMAIN gathered[t] = DOMAIN program[t].members
  <2>1. gathered[t] \in Seq(Position \X Position) /\ program[t] \in PlainType
    BY <1>1 DEF Typed
  <2>2. program[t].members \in Seq(Position \X Position)
    BY <2>1 DEF PlainType
  <2>3. Len(gathered[t]) = Len(program[t].members)
    BY <1>1, <1>3 DEF Filled
  <2>4. DOMAIN program[t].members = 1..Len(program[t].members)
    BY <2>2, LenProperties
  <2>5. DOMAIN gathered[t] = 1..Len(gathered[t])
    BY <2>1, LenProperties
  <2> QED
    BY <2>1, <2>3, <2>4, <2>5
<1>4. ASSUME NEW t \in DOMAIN program, cache[t] # 0, NEW j \in DOMAIN program[t].members
      PROVE  /\ gathered[t][j][1] = program[t].members[j][1] /\ gathered[t][j][2] \in DOMAIN nodes
             /\ cache[program[t].members[j][2]] \in DOMAIN nodes
             /\ resolved(nodes, gathered[t][j][2]) = cache[program[t].members[j][2]]
  <2>1. j \in DOMAIN gathered[t]
    BY <1>3, <1>4
  <2> QED
    BY <1>1, <2>1 DEF Gathered, leads
<1>5. program \in Seq(PlainType) /\ nodes \in Seq(NodeRecord) /\ cache \in [DOMAIN program -> Nat]
  BY <1>1 DEF Typed
<1>6. 1 \in DOMAIN program
  BY <1>1, <1>5 DEF IsProgram
<1>7. 1 \in DOMAIN nodes
  BY <1>1, <1>5
<1>8. ownNodes(program, cache)
  BY <1>1 DEF OneNodeEach, ownNodes
<1>9. haveReasons(program, nodes, cache)
  BY <1>1 DEF Accounted, isOf, haveReasons
<1>10. haveMembers(program, nodes, cache, gathered)
  BY <1>3, <1>4 DEF haveMembers
<1> QED
  BY <1>1, <1>2, <1>5, <1>6, <1>7, <1>8, <1>9, <1>10 DEF isIR

(* Every type that a program names is one of its types.                    *)
LEMMA Declares ==
  ASSUME NEW p \in Seq(PlainType), IsProgram(p)
  PROVE  /\ isGraph(p)
         /\ \A t \in DOMAIN p : /\ p[t].kind \in Kinds /\ p[t].members \in Seq(Position \X Position)
                                /\ DOMAIN p[t].members = 1..Len(p[t].members) /\ Len(p[t].members) \in Nat
                                /\ \A j \in DOMAIN p[t].members : p[t].members[j][2] \in DOMAIN p
<1>1. Len(p) \in Nat /\ DOMAIN p = 1..Len(p)
  BY LenProperties
<1>2. isGraph(p)
  BY <1>1 DEF isGraph, IsProgram
<1>3. ASSUME NEW t \in DOMAIN p
      PROVE  p[t].kind \in Kinds /\ p[t].members \in Seq(Position \X Position)
  <2>1. p[t] \in PlainType
    OBVIOUS
  <2> QED
    BY <2>1 DEF PlainType
<1>4. \A t \in DOMAIN p : DOMAIN p[t].members = 1..Len(p[t].members) /\ Len(p[t].members) \in Nat
  BY <1>3, LenProperties
<1>5. \A t \in DOMAIN p : \A j \in DOMAIN p[t].members : p[t].members[j][2] \in DOMAIN p
  <2> SUFFICES ASSUME NEW t \in DOMAIN p, NEW j \in DOMAIN p[t].members PROVE p[t].members[j][2] \in DOMAIN p
    OBVIOUS
  <2>1. p[t].members[j][2] \in Children(p, t)
    BY DEF Children
  <2> QED
    BY <2>1 DEF IsProgram
<1> QED
  BY <1>2, <1>3, <1>4, <1>5

(* The members of a node: those its type was given, and a record's key.    *)
isKey(p, c, t, z) == p[t].kind = "record" /\ z = <<0, c[t] + 1>>
LEMMA MembersOfIR ==
  ASSUME NEW p, NEW ir, NEW c, NEW g, isIR(p, ir, c, g), NEW t \in DOMAIN p, c[t] # 0
  PROVE  /\ \A j \in DOMAIN ir[c[t]].members :
              \/ isKey(p, c, t, ir[c[t]].members[j])
              \/ \E k \in DOMAIN p[t].members : ir[c[t]].members[j] = g[t][k]
         /\ \A k \in DOMAIN p[t].members : \E j \in DOMAIN ir[c[t]].members : ir[c[t]].members[j] = g[t][k]
         /\ \A z : isKey(p, c, t, z) => \E j \in DOMAIN ir[c[t]].members : ir[c[t]].members[j] = z
         /\ p[t].kind # "record" => ir[c[t]].members = g[t]
<1> DEFINE ms == ir[c[t]].members
           h == g[t]
           key == <<0, c[t] + 1>>
<1>1. ms = keyed(p[t], c[t]) \o h /\ DOMAIN h = DOMAIN p[t].members
  BY DEF isIR, haveNodes, haveMembers
<1>2. h \in Seq(Nat \X Position) /\ c[t] \in Nat
  <2>1. h \in Seq(Position \X Position) /\ c[t] \in Nat
    BY DEF isIR, haveMembers
  <2> QED
    BY <2>1 DEF Position
<1>3. key \in Nat \X Position
  BY <1>2 DEF Position
<1> HIDE DEF ms, h
<1>4. CASE p[t].kind = "record"
  <2>1. ms = <<key>> \o h
    BY <1>1, <1>4 DEF keyed
  <2> HIDE DEF key
  <2>2. <<key>> \in Seq(Nat \X Position) /\ Len(<<key>>) = 1 /\ <<key>>[1] = key
    BY <1>3
  <2>3. /\ ms \in Seq(Nat \X Position) /\ Len(ms) = 1 + Len(h)
        /\ \A i \in 1..(1 + Len(h)) : ms[i] = IF i <= 1 THEN <<key>>[i] ELSE h[i - 1]
    BY <1>2, <2>1, <2>2, ConcatProperties
  <2>4. Len(h) \in Nat /\ DOMAIN h = 1..Len(h) /\ DOMAIN ms = 1..(1 + Len(h))
    BY <1>2, <2>3, LenProperties
  <2>5. 1 \in DOMAIN ms /\ ms[1] = key
    BY <2>2, <2>3, <2>4
  <2>6. ASSUME NEW j \in DOMAIN ms PROVE ms[j] = key \/ \E k \in DOMAIN h : ms[j] = h[k]
    <3>1. CASE j = 1
      BY <2>5, <3>1
    <3>2. CASE j # 1
      <4>1. j - 1 \in DOMAIN h /\ ms[j] = h[j - 1]
        BY <2>3, <2>4, <3>2
      <4> QED
        BY <4>1
    <3> QED
      BY <3>1, <3>2
  <2>7. ASSUME NEW k \in DOMAIN h PROVE \E j \in DOMAIN ms : ms[j] = h[k]
    <3>1. k + 1 \in DOMAIN ms /\ k \in Nat /\ ~(k + 1 <= 1) /\ (k + 1) - 1 = k
      BY <2>4
    <3>2. ms[k + 1] = h[k]
      BY <2>3, <2>4, <3>1
    <3> QED
      BY <3>1, <3>2
  <2> QED
    BY <1>1, <1>4, <2>5, <2>6, <2>7 DEF isKey, ms, h, key
<1>5. CASE p[t].kind # "record"
  <2>1. ms = <<>> \o h
    BY <1>1, <1>5 DEF keyed
  <2>2. ms = h
    BY <1>2, <2>1, ConcatEmptySeq
  <2> QED
    BY <1>1, <1>5, <2>2 DEF isKey, ms, h
<1> QED
  BY <1>4, <1>5

(* A node points to nodes, and a primitive or a ref to none.               *)
LEMMA GraphOfIR ==
  ASSUME NEW p, NEW ir, NEW c, NEW g, isIR(p, ir, c, g)
  PROVE  isGraph(ir) /\ \A i \in DOMAIN ir : ir[i].kind \in {"primitive", "ref"} => Children(ir, i) = {}
<1>1. ASSUME NEW i \in DOMAIN ir
      PROVE  Children(ir, i) \subseteq DOMAIN ir /\ (ir[i].kind \in {"primitive", "ref"} => Children(ir, i) = {})
  <2>1. PICK t \in DOMAIN p : c[t] # 0 /\ (i = c[t] \/ ir[i].members = <<>>)
    BY DEF isIR, haveReasons
  <2>2. CASE ir[i].members = <<>>
    BY <2>2 DEF Children
  <2>3. CASE i = c[t]
    <3>1. ASSUME NEW j \in DOMAIN ir[i].members PROVE ir[i].members[j][2] \in DOMAIN ir
      <4>1. CASE isKey(p, c, t, ir[i].members[j])
        <5>1. ir[i].members[j][2] = c[t] + 1
          BY <4>1 DEF isKey
        <5> QED
          BY <2>1, <4>1, <5>1 DEF isIR, haveNodes, isKey
      <4>2. CASE \E k \in DOMAIN p[t].members : ir[i].members[j] = g[t][k]
        BY <2>1, <4>2 DEF isIR, haveMembers
      <4> QED
        BY <2>1, <2>3, <4>1, <4>2, MembersOfIR
    <3>2. ASSUME ir[i].kind \in {"primitive", "ref"} PROVE Children(ir, i) = {}
      <4>1. p[t].kind \in {"primitive", "ref"} /\ p[t].kind \in Kinds /\ IsProgram(p)
        <5>1. p \in Seq(PlainType) /\ IsProgram(p)
          BY DEF isIR
        <5>2. p[t].kind \in Kinds
          BY <5>1, Declares
        <5>3. ir[i].kind = p[t].kind
          BY <2>1, <2>3 DEF isIR, haveNodes
        <5> QED
          BY <3>2, <5>1, <5>2, <5>3
      <4>2. p[t].kind = "primitive"
        BY <4>1 DEF Kinds, Leaves, RefKinds, OtherKinds, UnionKinds
      <4>3. p[t].members = <<>> /\ p[t].kind # "record"
        <5>1. \A u \in DOMAIN p : p[u].kind \in Leaves => p[u].members = <<>>
          BY <4>1 DEF IsProgram
        <5>2. p[t].kind \in Leaves
          BY <4>2 DEF Leaves
        <5> QED
          BY <4>2, <5>1, <5>2
      <4>4. ir[i].members = g[t] /\ DOMAIN g[t] = DOMAIN p[t].members
        <5>1. ir[c[t]].members = g[t]
          BY <2>1, <4>3, MembersOfIR
        <5>2. DOMAIN g[t] = DOMAIN p[t].members
          BY <2>1 DEF isIR, haveMembers
        <5> QED
          BY <2>3, <5>1, <5>2
      <4>5. DOMAIN ir[i].members = {}
        BY <4>3, <4>4
      <4> QED
        BY <4>5 DEF Children
    <3> QED
      BY <3>1, <3>2 DEF Children
  <2> QED
    BY <2>1, <2>2, <2>3
<1>2. Len(ir) \in Nat /\ DOMAIN ir = 1..Len(ir)
  <2>1. ir \in Seq(NodeRecord)
    BY DEF isIR
  <2> QED
    BY <2>1, LenProperties
<1> QED
  BY <1>1, <1>2 DEF isGraph

(* An extraction goes on below a registry as it does by itself.            *)
LEMMA BuildExtracts == ASSUME [Next]_vars PROVE [ExtractionNext]_extraction
BY DEF Next, ExtractionNext, Register, Overflow, vars, extraction

-----------------------------------------------------------------------------
(* Cycles.                                                                 *)

(* What is below a node is a child or below one.                           *)
LEMMA BelowByChild ==
  ASSUME NEW ir, isGraph(ir), NEW i \in DOMAIN ir, NEW j \in below(ir)[i]
  PROVE  j \in Children(ir, i) \/ \E m \in Children(ir, i) : j \in below(ir)[m]
<1> DEFINE S == Children(ir, i) \cup UNION {below(ir)[m] : m \in Children(ir, i)}
<1>1. Children(ir, i) \subseteq DOMAIN ir
  BY DEF isGraph
<1>2. \A m \in Children(ir, i) : below(ir)[m] \subseteq DOMAIN ir /\ Children(ir, m) \subseteq below(ir)[m]
  BY <1>1, Below
<1>3. S \in SUBSET DOMAIN ir /\ Children(ir, i) \subseteq S
  BY <1>1, <1>2
<1>4. ASSUME NEW k \in S, NEW x \in Children(ir, k) PROVE x \in S
  <2>1. CASE k \in Children(ir, i)
    BY <1>2, <2>1
  <2>2. CASE \E m \in Children(ir, i) : k \in below(ir)[m]
    <3>1. PICK m \in Children(ir, i) : k \in below(ir)[m]
      BY <2>2
    <3>2. k \in DOMAIN ir /\ m \in DOMAIN ir /\ x \in DOMAIN ir /\ x \in below(ir)[k]
      BY <1>1, <1>2, <3>1, Below DEF isGraph
    <3>3. x \in below(ir)[m]
      BY <3>1, <3>2, Below
    <3> QED
      BY <3>3
  <2> QED
    BY <2>1, <2>2
<1>5. isClosed(ir, S)
  <2> HIDE DEF S
  <2> QED
    BY <1>4 DEF isClosed
<1>6. below(ir)[i] \subseteq S
  <2> HIDE DEF S
  <2> QED
    BY <1>3, <1>5, Below
<1> QED
  BY <1>6

(* A type whose node is below the node of another is below that type.      *)
LEMMA BelowTypes ==
  ASSUME NEW p, NEW ir, NEW c, NEW g, isIR(p, ir, c, g), NEW t \in DOMAIN p, c[t] # 0,
         NEW u \in DOMAIN p, c[u] \in below(ir)[c[t]], p[u].kind # "primitive"
  PROVE  u \in below(p)[t]
<1> DEFINE S == {k \in DOMAIN ir : ir[k].kind = "primitive" \/ \A v \in DOMAIN p : k = c[v] => v \in below(p)[t]}
<1>0. /\ haveNodes(p, ir, c, g) /\ ownNodes(p, c) /\ haveMembers(p, ir, c, g) /\ haveReasons(p, ir, c)
      /\ p \in Seq(PlainType) /\ IsProgram(p) /\ isGraph(p) /\ isGraph(ir)
  BY Declares, GraphOfIR DEF isIR
<1>1. ASSUME NEW v \in DOMAIN p, c[v] # 0, v = t \/ v \in below(p)[t], NEW x \in Children(ir, c[v])
      PROVE  x \in S
  <2>1. c[v] \in DOMAIN ir /\ x \in DOMAIN ir
    BY <1>0, <1>1 DEF haveNodes, isGraph
  <2>2. PICK j \in DOMAIN ir[c[v]].members : x = ir[c[v]].members[j][2]
    BY DEF Children
  <2>3. CASE isKey(p, c, v, ir[c[v]].members[j])
    <3>1. x = c[v] + 1 /\ p[v].kind = "record"
      BY <2>2, <2>3 DEF isKey
    <3> QED
      BY <1>0, <1>1, <2>1, <3>1 DEF haveNodes
  <2>4. CASE \E k \in DOMAIN p[v].members : ir[c[v]].members[j] = g[v][k]
    <3>1. PICK k \in DOMAIN p[v].members : x = g[v][k][2]
      BY <2>2, <2>4
    <3>2. PICK w : w = p[v].members[k][2]
      OBVIOUS
    <3>3. w \in DOMAIN p /\ w \in Children(p, v) /\ resolved(ir, x) = c[w]
      <4>1. w \in Children(p, v)
        BY <3>2 DEF Children
      <4> QED
        BY <1>0, <1>1, <3>1, <3>2, <4>1 DEF haveMembers, IsProgram
    <3>4. w \in below(p)[t]
      <4>1. w \in below(p)[v]
        BY <1>0, <3>3, Below
      <4> QED
        BY <1>0, <1>1, <3>3, <4>1, Below
    <3>5. ASSUME NEW y \in DOMAIN p, x = c[y] PROVE y \in below(p)[t]
      <4>1. c[y] # 0
        BY <2>1, <3>5, <1>0 DEF isGraph
      <4>2. ir[x].kind = p[y].kind /\ p[y].kind \in Kinds
        BY <1>0, <3>5, <4>1, Declares DEF haveNodes
      <4>3. ir[x].kind # "ref"
        BY <4>2 DEF Kinds, Leaves, RefKinds, OtherKinds, UnionKinds
      <4>4. x = c[w]
        BY <3>3, <4>3 DEF resolved
      <4>5. y = w
        BY <1>0, <3>3, <3>5, <4>1, <4>4 DEF ownNodes
      <4> QED
        BY <3>4, <4>5
    <3> QED
      BY <2>1, <3>5
  <2>5. isKey(p, c, v, ir[c[v]].members[j]) \/ \E k \in DOMAIN p[v].members : ir[c[v]].members[j] = g[v][k]
    BY <1>1, MembersOfIR
  <2> QED
    BY <2>3, <2>4, <2>5
<1>2. ASSUME NEW k \in S, NEW x \in Children(ir, k) PROVE x \in S
  <2>1. k \in DOMAIN ir /\ ir[k].kind # "primitive" /\ ir[k].kind # "ref"
    BY <1>2, GraphOfIR
  <2>2. PICK v \in DOMAIN p : c[v] # 0 /\ k = c[v]
    BY <1>0, <2>1 DEF haveReasons
  <2>3. v \in below(p)[t]
    BY <2>1, <2>2
  <2> HIDE DEF S
  <2> QED
    BY <1>1, <1>2, <2>2, <2>3
<1>3. c[t] \in DOMAIN ir /\ S \in SUBSET DOMAIN ir /\ Children(ir, c[t]) \subseteq S /\ isClosed(ir, S)
  <2>1. S \in SUBSET DOMAIN ir /\ c[t] \in DOMAIN ir
    BY <1>0 DEF haveNodes
  <2> HIDE DEF S
  <2> QED
    BY <1>1, <1>2, <2>1 DEF isClosed
<1>4. c[u] \in S
  <2> HIDE DEF S
  <2> QED
    BY <1>0, <1>3, Below
<1>5. c[u] # 0 /\ ir[c[u]].kind = p[u].kind
  <2>1. c[u] # 0
    BY <1>0, <1>4 DEF isGraph
  <2> QED
    BY <1>0, <2>1 DEF haveNodes
<1> QED
  BY <1>4, <1>5

(* The recursion of normalizeTypeIR does not end only for a union, an      *)
(* intersection or a record that contains itself.                          *)
LEMMA CyclesOfTypes == ASSUME TagInv, extracted PROVE cycleHasReason
<1> SUFFICES ASSUME isCyclic(nodes)
             PROVE  \E t \in DOMAIN program : program[t].kind \in OtherKinds /\ reachesItself(program, t)
  BY DEF cycleHasReason
<1>1. IRInv /\ isIR(program, nodes, cache, gathered)
  BY IsIR DEF TagInv
<1>2. PICK ir : ir = nodes
  OBVIOUS
<1>3. isGraph(ir)
  BY <1>1, <1>2, GraphOfIR
<1>4. PICK i \in DOMAIN ir : i \in below(ir)[i]
  <2>1. 1 \in DOMAIN ir
    BY <1>1, <1>2, IsIR
  <2> QED
    BY <1>2, <1>3, <2>1, CyclesOfWalk DEF hasCycle
<1> DEFINE C == {k \in DOMAIN ir : k \in below(ir)[i] /\ i \in below(ir)[k]}
<1>5. i \in C
  BY <1>4
<1>6. ASSUME NEW k \in C PROVE Children(ir, k) \cap C # {}
  <2>1. Children(ir, k) \subseteq DOMAIN ir /\ Children(ir, k) \subseteq below(ir)[k]
    BY <1>3, Below DEF isGraph
  <2>2. \A m \in Children(ir, k) : m \in below(ir)[i]
    BY <1>3, <1>6, <2>1, Below
  <2>3. i \in Children(ir, k) \/ \E m \in Children(ir, k) : i \in below(ir)[m]
    BY <1>3, <1>6, BelowByChild
  <2> QED
    BY <1>5, <2>1, <2>2, <2>3
<1>7. \E j \in C : nodes[j].kind \in OtherKinds
  <2>1. C \in SUBSET DOMAIN nodes /\ C # {}
    BY <1>2, <1>5
  <2>2. \A k \in C : Children(nodes, k) \cap C # {}
    BY <1>2, <1>6
  <2> HIDE DEF C
  <2> QED
    BY <2>1, <2>2, CyclesPass
<1>8. PICK j \in C : nodes[j].kind \in OtherKinds
  BY <1>7
<1>9. j \in DOMAIN nodes /\ j \in below(nodes)[j]
  BY <1>2, <1>3, <1>4, <1>8, Below
<1>10. PICK t \in DOMAIN program : j = cache[t] /\ cache[t] # 0 /\ program[t].kind = nodes[j].kind
  BY <1>1, <1>8, <1>9, NodeOfType
<1>11. program[t].kind # "primitive"
  BY <1>8, <1>10 DEF OtherKinds, UnionKinds
<1>12. t \in below(program)[t]
  BY <1>1, <1>9, <1>10, <1>11, BelowTypes
<1> QED
  BY <1>8, <1>10, <1>12 DEF reachesItself

-----------------------------------------------------------------------------
(* References.                                                             *)

(* Every node but the first is a member of one that was minted earlier.    *)
isMemberOf(i, t) ==
  /\ cache[t] # 0 /\ cache[t] < i
  /\ \/ \E j \in DOMAIN gathered[t] : gathered[t][j][2] = i
     \/ program[t].kind = "record" /\ i = cache[t] + 1
Parented == \A i \in DOMAIN nodes : i # 1 => \E t \in DOMAIN program : isMemberOf(i, t)

LEMMA InitParents == ExtractionInit => Parented
BY DEF ExtractionInit, Parented

LEMMA ExtractParents == ASSUME IRInv, Extract PROVE Parented'
<1>1. build \in Seq(Seq(PlainType)) /\ (\A i \in DOMAIN build : IsProgram(build[i])) /\ build # <<>>
  BY DEF IRInv, Typed, Extract
<1>2. PICK p : p = Head(build)
  OBVIOUS
<1>3. p \in Seq(PlainType) /\ p # <<>>
  <2>1. 1 \in DOMAIN build /\ p = build[1]
    BY <1>1, <1>2
  <2> QED
    BY <1>1, <2>1 DEF IsProgram
<1>4. 1 \in DOMAIN p /\ p[1] \in PlainType
  BY <1>3
<1>5. program' = p /\ nodes' = placeholder(p[1]) /\ cache'[1] = 1
  BY <1>2, <1>4 DEF Extract
<1>6. nodes' \in Seq(NodeRecord) /\ Len(nodes') = IF p[1].kind = "record" THEN 2 ELSE 1
  BY <1>4, <1>5, Placeholders
<1>7. ASSUME NEW i \in DOMAIN nodes', i # 1 PROVE i = 2 /\ p[1].kind = "record"
  BY <1>6, <1>7
<1>8. ASSUME NEW i \in DOMAIN nodes', i # 1 PROVE isMemberOf(i, 1)'
  BY <1>5, <1>7, <1>8 DEF isMemberOf
<1> QED
  BY <1>4, <1>5, <1>8 DEF Parented

(* A member stays one, and what the innermost call takes becomes one.      *)
LEMMA MemberStays ==
  ASSUME IRInv, Grows, NEW i, NEW t \in DOMAIN program, isMemberOf(i, t),
         \A j \in DOMAIN gathered[t] : j \in DOMAIN gathered'[t] /\ gathered'[t][j] = gathered[t][j]
  PROVE  isMemberOf(i, t)'
<1>1. cache'[t] = cache[t] /\ program' = program
  BY DEF Grows, isMemberOf
<1>2. (\E j \in DOMAIN gathered[t] : gathered[t][j][2] = i) => \E j \in DOMAIN gathered'[t] : gathered'[t][j][2] = i
  OBVIOUS
<1> QED
  BY <1>1, <1>2 DEF isMemberOf

LEMMA MemberTaken ==
  ASSUME IRInv, hasMember, NEW id, Takes(id), Grows, id = Len(nodes) + 1
  PROVE  \E t \in DOMAIN program : isMemberOf(id, t)'
<1>1. PICK t \in DOMAIN program : t = top
  BY Members
<1>2. cache[t] # 0 /\ program' = program /\ nodes # <<>>
  BY <1>1, Members DEF Grows
<1>3. cache'[t] = cache[t] /\ cache[t] < id
  <2>1. Cached /\ nodes \in Seq(NodeRecord) /\ cache[t] \in Nat
    BY <1>2 DEF IRInv, Typed
  <2>2. cache[t] \in DOMAIN nodes
    BY <1>2, <2>1 DEF Cached
  <2> QED
    BY <1>2, <2>1, <2>2 DEF Grows
<1>4. \E j \in DOMAIN gathered'[t] : gathered'[t][j][2] = id
  <2> DEFINE n == Len(gathered[t]) + 1
  <2>1. gathered' = [gathered EXCEPT ![t] = Append(gathered[t], <<member[1], id>>)]
    BY <1>1 DEF Takes
  <2>2. gathered \in [DOMAIN program -> Seq(Position \X Position)] /\ member[1] \in Position /\ id \in Position
    BY Members DEF IRInv, Typed, Takes
  <2>3. gathered'[t] = Append(gathered[t], <<member[1], id>>) /\ gathered[t] \in Seq(Position \X Position)
    BY <2>1, <2>2
  <2>4. PICK x : x = <<member[1], id>>
    OBVIOUS
  <2>5. x \in Position \X Position /\ x[2] = id
    BY <2>2, <2>4
  <2>6. n \in DOMAIN gathered'[t] /\ gathered'[t][n] = x
    BY <2>3, <2>4, <2>5
  <2> QED
    BY <2>5, <2>6
<1> QED
  BY <1>2, <1>3, <1>4 DEF isMemberOf

LEMMA EnterParents == ASSUME IRInv, Parented, Enter PROVE Parented'
<1>1. PICK u, id : u = member[2] /\ id = Len(nodes) + 1
  OBVIOUS
<1>2. /\ hasMember /\ u \in DOMAIN program /\ Takes(id) /\ Grows /\ nodes # <<>> /\ Typed
      /\ cache[u] = 0 /\ nodes' = nodes \o placeholder(program[u]) /\ cache'[u] = id
  <2>1. /\ hasMember /\ u \in DOMAIN program /\ cache[u] = 0 /\ id \in Position /\ Grows
    BY <1>1, Entering
  <2>2. Takes(id)
    BY <1>1, <2>1 DEF Enter, gather, Takes
  <2>3. nodes # <<>> /\ Typed
    BY <2>1, Members DEF IRInv
  <2> QED
    BY <1>1, <2>1, <2>2, <2>3 DEF Enter, Typed
<1>3. \A i \in DOMAIN nodes : i # 1 => \E t \in DOMAIN program : isMemberOf(i, t)'
  <2>1. \A t \in DOMAIN program : \A j \in DOMAIN gathered[t] : j \in DOMAIN gathered'[t] /\ gathered'[t][j] = gathered[t][j]
    BY <1>2, Taking DEF Grows
  <2> QED
    BY <1>2, <2>1, MemberStays DEF Parented
<1>4. \E t \in DOMAIN program : isMemberOf(id, t)'
  BY <1>1, <1>2, MemberTaken
<1>5. ASSUME NEW i \in DOMAIN nodes', i \notin DOMAIN nodes, i # id
      PROVE  isMemberOf(i, u)'
  <2>1. program[u] \in PlainType /\ nodes \in Seq(NodeRecord)
    BY <1>2 DEF Typed
  <2>2. placeholder(program[u]) \in Seq(NodeRecord) /\ Len(placeholder(program[u])) = IF program[u].kind = "record" THEN 2 ELSE 1
    BY <2>1, Placeholders
  <2>3. Len(nodes') = Len(nodes) + Len(placeholder(program[u])) /\ nodes' \in Seq(NodeRecord)
    BY <1>2, <2>1, <2>2, ConcatProperties
  <2>4. DOMAIN nodes' = 1..Len(nodes') /\ DOMAIN nodes = 1..Len(nodes) /\ Len(nodes) \in Nat
    BY <2>1, <2>3, LenProperties
  <2>5. program[u].kind = "record" /\ i = id + 1 /\ id \in Nat
    BY <1>1, <1>5, <2>2, <2>3, <2>4
  <2>6. cache'[u] # 0 /\ cache'[u] < i /\ i = cache'[u] + 1
    BY <1>1, <1>2, <2>4, <2>5
  <2> QED
    BY <1>2, <2>5, <2>6 DEF isMemberOf, Grows
<1> QED
  BY <1>2, <1>3, <1>4, <1>5 DEF Parented, Grows

LEMMA ResightParents == ASSUME IRInv, Parented, Resight PROVE Parented'
<1>1. PICK x : x = cache[member[2]]
  OBVIOUS
<1>2. hasMember /\ Grows
  BY <1>1, Resighting
<1>3. \/ DOMAIN nodes' = DOMAIN nodes \cup {Len(nodes) + 1} /\ Takes(Len(nodes) + 1)
      \/ nodes' = nodes /\ Takes(x)
  BY <1>1, Resighting
<1>4. \A t \in DOMAIN program : \A j \in DOMAIN gathered[t] : j \in DOMAIN gathered'[t] /\ gathered'[t][j] = gathered[t][j]
  BY <1>2, <1>3, Taking DEF Grows
<1>5. \A i \in DOMAIN nodes : i # 1 => \E t \in DOMAIN program : isMemberOf(i, t)'
  BY <1>2, <1>4, MemberStays DEF Parented
<1>6. CASE DOMAIN nodes' = DOMAIN nodes \cup {Len(nodes) + 1} /\ Takes(Len(nodes) + 1)
  <2>1. PICK id : id = Len(nodes) + 1
    OBVIOUS
  <2>2. \E t \in DOMAIN program : isMemberOf(id, t)'
    BY <1>2, <1>6, <2>1, MemberTaken
  <2>3. DOMAIN nodes' = DOMAIN nodes \cup {id}
    BY <1>6, <2>1
  <2> QED
    BY <1>2, <1>5, <2>2, <2>3 DEF Parented, Grows
<1>7. CASE nodes' = nodes
  BY <1>2, <1>5, <1>7 DEF Parented, Grows
<1> QED
  BY <1>3, <1>6, <1>7

LEMMA CloseParents == ASSUME IRInv, Parented, Close PROVE Parented'
<1>1. PICK id : id = cache[top]
  OBVIOUS
<1>2. DOMAIN nodes' = DOMAIN nodes /\ gathered' = gathered /\ cache' = cache /\ Grows
  BY <1>1, Closing
<1>3. program' = program
  BY <1>2 DEF Grows
<1> QED
  BY <1>2, <1>3 DEF Parented, isMemberOf

(* The walk of an IR meets all of its nodes.                               *)
LEMMA WalkMeetsAll ==
  ASSUME IRInv, Parented, extracted
  PROVE  walkTypeIR(nodes) = DOMAIN nodes
<1>1. isIR(program, nodes, cache, gathered) /\ 1 \in DOMAIN nodes
  BY IsIR
<1>2. PICK ir, c, p, g : ir = nodes /\ c = cache /\ p = program /\ g = gathered
  OBVIOUS
<1>3. isIR(p, ir, c, g) /\ isGraph(ir) /\ 1 \in DOMAIN ir
  BY <1>1, <1>2, GraphOfIR
<1>4. below(ir)[1] \subseteq DOMAIN ir /\ DOMAIN ir \subseteq Nat
  BY <1>3, Below DEF isGraph
<1> DEFINE T == {i \in DOMAIN ir : i # 1 /\ i \notin below(ir)[1]}
<1>5. T = {}
  <2> SUFFICES ASSUME T # {} PROVE FALSE
    OBVIOUS
  <2>1. PICK m \in T : \A k \in T : m <= k
    <3>1. T \in SUBSET Nat
      BY <1>4
    <3> HIDE DEF T
    <3> QED
      BY <3>1, Least
  <2>2. PICK t \in DOMAIN p : isMemberOf(m, t)
    BY <1>2 DEF Parented
  <2>3. /\ c[t] # 0 /\ c[t] < m
        /\ (\E j \in DOMAIN g[t] : g[t][j][2] = m) \/ (p[t].kind = "record" /\ m = c[t] + 1)
    BY <1>2, <2>2 DEF isMemberOf
  <2>4. c[t] \in DOMAIN ir /\ DOMAIN g[t] = DOMAIN p[t].members
    BY <1>3, <2>3 DEF isIR, haveNodes, haveMembers
  <2>5. m \in Children(ir, c[t])
    <3>1. CASE \E j \in DOMAIN g[t] : g[t][j][2] = m
      <4>1. \E j \in DOMAIN ir[c[t]].members : ir[c[t]].members[j][2] = m
        BY <1>3, <2>3, <2>4, <3>1, MembersOfIR
      <4> QED
        BY <4>1 DEF Children
    <3>2. CASE p[t].kind = "record" /\ m = c[t] + 1
      <4>1. t \in DOMAIN p /\ c[t] # 0 /\ isIR(p, ir, c, g)
        BY <1>3, <2>3
      <4>2. PICK z : isKey(p, c, t, z) /\ z[2] = m
        <5>1. isKey(p, c, t, <<0, c[t] + 1>>) /\ <<0, c[t] + 1>>[2] = m
          BY <3>2 DEF isKey
        <5> QED
          BY <5>1
      <4>3. PICK j \in DOMAIN ir[c[t]].members : ir[c[t]].members[j] = z
        BY <4>1, <4>2, MembersOfIR
      <4>4. ir[c[t]].members[j][2] = m
        BY <4>2, <4>3
      <4> QED
        BY <4>4 DEF Children
    <3> QED
      BY <2>3, <3>1, <3>2
  <2>6. c[t] \notin T
    BY <1>4, <2>1, <2>3, <2>4
  <2>7. c[t] = 1 \/ c[t] \in below(ir)[1]
    BY <2>4, <2>6
  <2>8. m \in below(ir)[1]
    <3>1. m \in below(ir)[c[t]] /\ m \in DOMAIN ir
      BY <1>3, <2>4, <2>5, Below DEF isGraph
    <3> QED
      BY <1>3, <2>4, <2>7, <3>1, Below
  <2> QED
    BY <2>8
<1> QED
  BY <1>2, <1>3, <1>4, <1>5 DEF walkTypeIR

(* The component of a name is a node of this name, and no ref when some    *)
(* node of the name is none.                                               *)
LEMMA Named ==
  ASSUME NEW ir, DOMAIN ir \subseteq Nat, walkTypeIR(ir) = DOMAIN ir,
         NEW i \in DOMAIN ir, ir[i].kind # "ref", ir[i].name # NoName
  PROVE  /\ ir[i].name \in DOMAIN collectNamedTypes(ir)
         /\ ir[collectNamedTypes(ir)[ir[i].name]].kind # "ref"
<1> DEFINE S == {j \in {k \in DOMAIN ir : ir[k].name = ir[i].name} : ir[j].kind # "ref"}
<1>1. i \in S /\ S \in SUBSET Nat
  OBVIOUS
<1>2. \E m \in S : \A k \in S : m <= k
  <2> HIDE DEF S
  <2> QED
    BY <1>1, Least
<1> DEFINE m == CHOOSE j \in S : \A k \in S : j <= k
<1>3. m \in S
  <2> HIDE DEF S
  <2> QED
    BY <1>2
<1>4. ir[i].name \in ({ir[j].name : j \in walkTypeIR(ir)} \ {NoName})
  OBVIOUS
<1>5. collectNamedTypes(ir)[ir[i].name] = m
  BY <1>1, <1>4 DEF collectNamedTypes
<1>6. ir[m].kind # "ref"
  BY <1>3
<1>7. ir[i].name \in DOMAIN collectNamedTypes(ir)
  BY <1>4 DEF collectNamedTypes
<1> HIDE DEF m
<1> QED
  BY <1>5, <1>6, <1>7

(* A schema refers to nodes that are named, or refs.                       *)
LEMMA RefersTo ==
  ASSUME NEW ir \in Seq(NodeRecord), isGraph(ir), NEW i \in DOMAIN ir, NEW r \in openApiRefs(ir, i)
  PROVE  \E j \in DOMAIN ir :
           \/ r = ByName(ir[j].name) /\ ir[j].name # NoName
           \/ r = ById(ir[j].target) /\ ir[j].name = NoName /\ ir[j].kind = "ref"
<1> DEFINE inlined == [j \in DOMAIN ir |->
                        IF j # i /\ ir[j].name # NoName THEN [ir[j] EXCEPT !.members = <<>>] ELSE ir[j]]
<1>1. DOMAIN inlined = DOMAIN ir /\ Len(ir) \in Nat /\ DOMAIN ir = 1..Len(ir)
  BY LenProperties
<1>2. ASSUME NEW j \in DOMAIN inlined PROVE inlined[j] \in NodeRecord /\ Children(inlined, j) \subseteq DOMAIN ir
  <2>1. ir[j] \in NodeRecord /\ Children(ir, j) \subseteq DOMAIN ir
    BY <1>1 DEF isGraph
  <2>2. CASE j # i /\ ir[j].name # NoName
    <3>1. inlined[j] = [ir[j] EXCEPT !.members = <<>>]
      BY <1>1, <2>2
    <3> HIDE DEF inlined
    <3>2. <<>> \in Seq(Nat \X Position)
      OBVIOUS
    <3>3. inlined[j].members = <<>> /\ inlined[j] \in NodeRecord
      BY <2>1, <3>1, <3>2 DEF NodeRecord
    <3> QED
      BY <3>3 DEF Children
  <2>3. CASE ~(j # i /\ ir[j].name # NoName)
    <3>1. inlined[j] = ir[j]
      BY <1>1, <2>3
    <3> HIDE DEF inlined
    <3> QED
      BY <2>1, <3>1 DEF Children
  <2> QED
    BY <2>2, <2>3
<1>3. inlined \in Seq(NodeRecord) /\ Len(inlined) = Len(ir)
  <2>1. inlined = [j \in 1..Len(ir) |-> inlined[j]]
    BY <1>1
  <2> HIDE DEF inlined
  <2> QED
    BY <1>1, <1>2, <2>1
<1> DEFINE b == below(inlined)
<1> HIDE DEF inlined
<1>4. isGraph(inlined)
  BY <1>1, <1>2, <1>3 DEF isGraph
<1>5. b[i] \subseteq DOMAIN ir
  BY <1>1, <1>4, Below
<1>6. openApiRefs(ir, i) = {ByName(ir[j].name) : j \in {j \in b[i] : ir[j].name # NoName}}
                            \cup {ById(ir[j].target) : j \in {j \in b[i] : ir[j].name = NoName /\ ir[j].kind = "ref"}}
  BY DEF openApiRefs, inlined
<1> HIDE DEF b
<1> QED
  BY <1>5, <1>6

(* Components are nodes.                                                   *)
LEMMA ComponentsAreNodes ==
  ASSUME NEW ir, DOMAIN ir \subseteq Nat, walkTypeIR(ir) = DOMAIN ir, 1 \in DOMAIN ir, NEW i \in components(ir)
  PROVE  i \in DOMAIN ir
<1> SUFFICES ASSUME NEW name \in DOMAIN collectNamedTypes(ir), i = collectNamedTypes(ir)[name]
             PROVE  i \in DOMAIN ir
  BY DEF components
<1> DEFINE S == {j \in DOMAIN ir : ir[j].name = name}
           B == {j \in S : ir[j].kind # "ref"}
           T == IF B # {} THEN B ELSE S
<1>1. name \in {ir[j].name : j \in DOMAIN ir} \ {NoName}
  BY DEF collectNamedTypes
<1>2. S # {} /\ T # {} /\ T \in SUBSET Nat /\ T \subseteq DOMAIN ir
  BY <1>1
<1>3. \E m \in T : \A k \in T : m <= k
  <2> HIDE DEF T
  <2> QED
    BY <1>2, Least
<1>4. i = CHOOSE m \in T : \A k \in T : m <= k
  BY <1>1 DEF collectNamedTypes
<1> HIDE DEF T
<1> QED
  BY <1>2, <1>3, <1>4

LEMMA NamesOfRefs == ASSUME IRInv, Parented PROVE OpenApiNamesResolve
<1> SUFFICES ASSUME extracted, ~isCyclic(nodes), NEW i \in components(nodes), NEW r \in openApiRefs(nodes, i)
             PROVE  IF r[1] = "name"
                    THEN r[2] \in DOMAIN collectNamedTypes(nodes) /\ nodes[collectNamedTypes(nodes)[r[2]]].kind # "ref"
                    ELSE nodes[r[3]].name = NoName /\ nodes[r[3]].kind \in RefKinds
  BY WalkMeetsAll DEF OpenApiNamesResolve
<1>1. isIR(program, nodes, cache, gathered) /\ 1 \in DOMAIN nodes /\ walkTypeIR(nodes) = DOMAIN nodes
  BY IsIR, WalkMeetsAll
<1>2. PICK ir, c, p, g : ir = nodes /\ c = cache /\ p = program /\ g = gathered
  OBVIOUS
<1>3. /\ ir \in Seq(NodeRecord) /\ isGraph(ir) /\ DOMAIN ir \subseteq Nat /\ walkTypeIR(ir) = DOMAIN ir
      /\ 1 \in DOMAIN ir /\ haveNodes(p, ir, c, g) /\ haveReasons(p, ir, c) /\ isIR(p, ir, c, g)
  BY <1>1, <1>2, GraphOfIR DEF isIR, isGraph
<1>4. i \in DOMAIN ir
  BY <1>2, <1>3, ComponentsAreNodes
<1>5. PICK j \in DOMAIN ir :
        \/ r = ByName(ir[j].name) /\ ir[j].name # NoName
        \/ r = ById(ir[j].target) /\ ir[j].name = NoName /\ ir[j].kind = "ref"
  BY <1>2, <1>3, <1>4, RefersTo
<1>6. ASSUME ir[j].kind = "ref"
      PROVE  \E t \in DOMAIN p : /\ c[t] # 0 /\ ir[j].target = c[t] /\ ir[j].name = p[t].name /\ p[t].kind \in RefKinds
                                 /\ c[t] \in DOMAIN ir /\ ir[c[t]].name = p[t].name /\ ir[c[t]].kind = p[t].kind
  <2>1. PICK t \in DOMAIN p : c[t] # 0 /\
              \/ j = c[t]
              \/ /\ ir[j].kind = "ref" /\ ir[j].target = c[t] /\ ir[j].members = <<>>
                 /\ ir[j].name = p[t].name /\ p[t].kind \in RefKinds
              \/ /\ p[t].kind = "record" /\ j = c[t] + 1
                 /\ ir[j].kind = "primitive" /\ ir[j].members = <<>>
    BY <1>3 DEF haveReasons
  <2>2. c[t] \in DOMAIN ir /\ ir[c[t]].name = p[t].name /\ ir[c[t]].kind = p[t].kind
    BY <1>3, <2>1 DEF haveNodes
  <2>3. p[t].kind \in Kinds
    BY <1>3, Declares DEF isIR
  <2>4. p[t].kind # "ref"
    BY <2>3 DEF Kinds, Leaves, RefKinds, OtherKinds, UnionKinds
  <2> QED
    BY <1>6, <2>1, <2>2, <2>4
<1>7. CASE r = ByName(ir[j].name) /\ ir[j].name # NoName
  <2>1. r[1] = "name" /\ r[2] = ir[j].name
    BY <1>7 DEF ByName
  <2>2. \E k \in DOMAIN ir : ir[k].kind # "ref" /\ ir[k].name = ir[j].name
    <3>1. CASE ir[j].kind = "ref"
      <4>1. PICK t \in DOMAIN p : /\ ir[j].name = p[t].name /\ p[t].kind \in RefKinds
                                 /\ c[t] \in DOMAIN ir /\ ir[c[t]].name = p[t].name /\ ir[c[t]].kind = p[t].kind
        BY <1>6, <3>1
      <4>2. p[t].kind # "ref"
        BY <4>1 DEF RefKinds
      <4> QED
        BY <4>1, <4>2
    <3> QED
      BY <3>1
  <2>3. PICK k \in DOMAIN ir : ir[k].kind # "ref" /\ ir[k].name = ir[j].name
    BY <2>2
  <2>4. r[2] \in DOMAIN collectNamedTypes(ir) /\ ir[collectNamedTypes(ir)[r[2]]].kind # "ref"
    BY <1>3, <1>7, <2>1, <2>3, Named
  <2> QED
    BY <1>2, <2>1, <2>4
<1>8. CASE r = ById(ir[j].target) /\ ir[j].name = NoName /\ ir[j].kind = "ref"
  <2>1. r[1] # "name" /\ r[3] = ir[j].target
    BY <1>8 DEF ById
  <2>2. ir[r[3]].name = NoName /\ ir[r[3]].kind \in RefKinds
    BY <1>6, <1>8, <2>1
  <2> QED
    BY <1>2, <2>1, <2>2
<1> QED
  BY <1>5, <1>7, <1>8

-----------------------------------------------------------------------------
(* The run of an extraction: its states, from the first on.                *)
now == [nodes |-> nodes, cache |-> cache, stack |-> stack, gathered |-> gathered]

started(p) ==
  [nodes |-> placeholder(p[1]), cache |-> [t \in DOMAIN p |-> IF t = 1 THEN 1 ELSE 0],
   stack |-> <<1>>, gathered |-> [t \in DOMAIN p |-> <<>>]]

last(x) == x.stack[Len(x.stack)]
remains(p, x) == Len(x.gathered[last(x)]) < Len(p[last(x)].members)
following(p, x) == p[last(x)].members[Len(x.gathered[last(x)]) + 1]
taking(p, x, id) == [x.gathered EXCEPT ![last(x)] = Append(x.gathered[last(x)], <<following(p, x)[1], id>>)]
filling(p, x) ==
  LET id    == x.cache[last(x)]
      parts == [j \in DOMAIN x.gathered[last(x)] |-> x.gathered[last(x)][j][2]]
      tag   == IF p[last(x)].kind \in UnionKinds THEN findDiscriminatorProperty(x.nodes, parts) ELSE 0
  IN  [x.nodes EXCEPT ![id].members = keyed(p[last(x)], id) \o x.gathered[last(x)], ![id].discriminator = tag]
entering(p, x) ==
  [nodes |-> x.nodes \o placeholder(p[following(p, x)[2]]),
   cache |-> [x.cache EXCEPT ![following(p, x)[2]] = Len(x.nodes) + 1],
   stack |-> Append(x.stack, following(p, x)[2]), gathered |-> taking(p, x, Len(x.nodes) + 1)]
referring(p, x) ==
  LET e == x.cache[following(p, x)[2]]
  IN  [nodes |-> Append(x.nodes, Ref(x.nodes[e].name, e)), cache |-> x.cache,
       stack |-> x.stack, gathered |-> taking(p, x, Len(x.nodes) + 1)]
pointing(p, x) ==
  [nodes |-> x.nodes, cache |-> x.cache,
   stack |-> x.stack, gathered |-> taking(p, x, x.cache[following(p, x)[2]])]
closing(p, x) ==
  [nodes |-> filling(p, x), cache |-> x.cache,
   stack |-> SubSeq(x.stack, 1, Len(x.stack) - 1), gathered |-> x.gathered]

step(p, x) ==
  IF ~remains(p, x) THEN closing(p, x)
  ELSE IF x.cache[following(p, x)[2]] = 0 THEN entering(p, x)
  ELSE IF x.nodes[x.cache[following(p, x)[2]]].kind \in RefKinds THEN referring(p, x)
  ELSE pointing(p, x)

(* What holds of each state of a run, and what lasts to its end.           *)
isSound(p, x) ==
  /\ x.nodes \in Seq(NodeRecord) /\ x.cache \in [DOMAIN p -> Nat]
  /\ x.stack \in Seq(DOMAIN p) /\ x.gathered \in [DOMAIN p -> Seq(Position \X Position)]
  /\ \A t \in DOMAIN p : x.cache[t] # 0 => x.cache[t] \in DOMAIN x.nodes /\ x.nodes[x.cache[t]].kind = p[t].kind
  /\ \A t \in DOMAIN p : x.cache[t] = 0 => x.gathered[t] = <<>>
  /\ \A t, u \in DOMAIN p : x.cache[t] = x.cache[u] /\ x.cache[t] # 0 => t = u
  /\ \A i \in DOMAIN x.stack : x.cache[x.stack[i]] # 0
  /\ \A t \in DOMAIN p : Len(x.gathered[t]) <= Len(p[t].members)
lasts(p, x, y) ==
  /\ \A i \in DOMAIN x.nodes : i \in DOMAIN y.nodes /\ y.nodes[i].kind = x.nodes[i].kind
  /\ \A t \in DOMAIN p : x.cache[t] # 0 => y.cache[t] = x.cache[t]
  /\ \A t \in DOMAIN p : \A j \in DOMAIN x.gathered[t] : j \in DOMAIN y.gathered[t] /\ y.gathered[t][j] = x.gathered[t][j]

isRun(p, s, n) ==
  /\ s[0] = started(p)
  /\ \A k \in 1..n : s[k - 1].stack # <<>> /\ s[k] = step(p, s[k - 1])
  /\ \A k \in 0..n : isSound(p, s[k]) /\ lasts(p, s[k], s[n])

(* A call under way has one thing to do.                                   *)
LEMMA OneStep ==
  ASSUME TagInv, Enter \/ Resight \/ Close
  PROVE  stack # <<>> /\ now' = step(program, now) /\ program' = program
<1>1. stack # <<>>
  BY DEF Enter, Resight, Close, hasMember
<1>2. PICK x : x = now
  OBVIOUS
<1>3. x.nodes = nodes /\ x.cache = cache /\ x.stack = stack /\ x.gathered = gathered
  BY <1>2 DEF now
<1>4. last(x) = top /\ following(program, x) = member /\ (remains(program, x) <=> hasMember)
  BY <1>1, <1>3 DEF last, following, remains, top, member, hasMember
<1>5. \A id : gather(id) => gathered' = taking(program, x, id)
  BY <1>3, <1>4 DEF gather, taking
<1>6. CASE Enter
  <2>1. now' = entering(program, x)
    BY <1>3, <1>4, <1>5, <1>6 DEF Enter, entering, now
  <2>2. remains(program, x) /\ x.cache[following(program, x)[2]] = 0
    BY <1>3, <1>4, <1>6 DEF Enter
  <2> QED
    BY <1>1, <1>2, <1>6, <2>1, <2>2 DEF step, Enter
<1>7. CASE Resight
  <2>1. remains(program, x) /\ x.cache[following(program, x)[2]] # 0
    BY <1>3, <1>4, <1>7 DEF Resight
  <2>2. CASE x.nodes[x.cache[following(program, x)[2]]].kind \in RefKinds
    <3>1. now' = referring(program, x)
      BY <1>3, <1>4, <1>5, <1>7, <2>2 DEF Resight, referring, now, isDeduplicated
    <3> QED
      BY <1>1, <1>2, <1>7, <2>1, <2>2, <3>1 DEF step, Resight
  <2>3. CASE x.nodes[x.cache[following(program, x)[2]]].kind \notin RefKinds
    <3>1. now' = pointing(program, x)
      BY <1>3, <1>4, <1>5, <1>7, <2>3 DEF Resight, pointing, now, isDeduplicated
    <3> QED
      BY <1>1, <1>2, <1>7, <2>1, <2>3, <3>1 DEF step, Resight
  <2> QED
    BY <2>2, <2>3
<1>8. CASE Close
  <2>1. nodes' = filling(program, x)
    BY <1>3, <1>4, <1>8 DEF Close, filling
  <2>2. now' = closing(program, x)
    BY <1>3, <1>8, <2>1 DEF Close, closing, now
  <2>3. ~remains(program, x)
    BY <1>4, <1>8 DEF Close
  <2> QED
    BY <1>1, <1>2, <1>8, <2>2, <2>3 DEF step, Close
<1> QED
  BY <1>6, <1>7, <1>8

LEMMA SoundNext ==
  ASSUME TagInv', nodes' # <<>>
  PROVE  isSound(program', now')
<1>1. (Typed /\ Cached /\ OneNodeEach /\ Nested /\ Gathered /\ Unsighted)'
  BY DEF TagInv, IRInv
<1>2. PICK x : x = now'
  OBVIOUS
<1>3. x.nodes = nodes' /\ x.cache = cache' /\ x.stack = stack' /\ x.gathered = gathered'
  BY <1>2 DEF now
<1>4. isSound(program', x)
  BY <1>1, <1>3 DEF Typed, Cached, OneNodeEach, Nested, Gathered, Unsighted, isSound
<1> QED
  BY <1>2, <1>4

LEMMA LastsNow ==
  ASSUME TagInv, Enter \/ Resight \/ Close
  PROVE  lasts(program, now, now')
<1>1. IRInv
  BY DEF TagInv
<1>2. Grows /\ \A t \in DOMAIN program : \A j \in DOMAIN gathered[t] : j \in DOMAIN gathered'[t] /\ gathered'[t][j] = gathered[t][j]
  <2>1. CASE Enter
    <3>1. PICK u, id : u = member[2] /\ id = Len(nodes) + 1
      OBVIOUS
    <3>2. hasMember /\ id \in Position /\ Grows
      BY <1>1, <2>1, <3>1, Entering
    <3>3. Takes(id)
      BY <2>1, <3>1, <3>2 DEF Enter, gather, Takes
    <3> QED
      BY <1>1, <3>2, <3>3, Taking DEF Grows
  <2>2. CASE Resight
    <3>1. PICK x : x = cache[member[2]]
      OBVIOUS
    <3>2. hasMember /\ Grows /\ (Takes(x) \/ Takes(Len(nodes) + 1))
      BY <1>1, <2>2, <3>1, Resighting
    <3> QED
      BY <1>1, <3>2, Taking DEF Grows
  <2>3. CASE Close
    <3>1. PICK id : id = cache[top]
      OBVIOUS
    <3>2. Grows /\ gathered' = gathered
      BY <1>1, <2>3, <3>1, Closing
    <3> QED
      BY <3>2
  <2> QED
    BY <2>1, <2>2, <2>3
<1>3. PICK x, y : x = now /\ y = now'
  OBVIOUS
<1>4. x.nodes = nodes /\ x.cache = cache /\ x.gathered = gathered /\ y.nodes = nodes' /\ y.cache = cache' /\ y.gathered = gathered'
  BY <1>3 DEF now
<1>5. \A i \in DOMAIN x.nodes : i \in DOMAIN y.nodes /\ y.nodes[i].kind = x.nodes[i].kind
  BY <1>2, <1>4 DEF Grows
<1>6. \A t \in DOMAIN program : x.cache[t] # 0 => y.cache[t] = x.cache[t]
  BY <1>2, <1>4 DEF Grows
<1>7. lasts(program, x, y)
  BY <1>2, <1>4, <1>5, <1>6 DEF lasts
<1> QED
  BY <1>3, <1>7

(* An IR under way has a run.                                              *)
hasRun(p, x) == \E n, s : n \in Nat /\ isRun(p, s, n) /\ s[n] = x
RunInv == nodes # <<>> => hasRun(program, now)

LEMMA Lasting ==
  ASSUME NEW p, NEW x, NEW y, NEW z, lasts(p, x, y), lasts(p, y, z), isSound(p, x)
  PROVE  lasts(p, x, z)
<1>1. \A i \in DOMAIN x.nodes : i \in DOMAIN z.nodes /\ z.nodes[i].kind = x.nodes[i].kind
  BY DEF lasts
<1>2. \A t \in DOMAIN p : x.cache[t] # 0 => z.cache[t] = x.cache[t]
  BY DEF lasts
<1>3. \A t \in DOMAIN p : \A j \in DOMAIN x.gathered[t] : j \in DOMAIN z.gathered[t] /\ z.gathered[t][j] = x.gathered[t][j]
  BY DEF lasts
<1> QED
  BY <1>1, <1>2, <1>3 DEF lasts

LEMMA RunGoesOn ==
  ASSUME NEW p, NEW x, NEW y, hasRun(p, x), x.stack # <<>>, y = step(p, x), isSound(p, y), lasts(p, x, y)
  PROVE  hasRun(p, y)
<1>0. PICK n \in Nat : \E s : isRun(p, s, n) /\ s[n] = x
  BY DEF hasRun
<1>1. PICK s : isRun(p, s, n) /\ s[n] = x
  BY <1>0
<1> DEFINE r == [k \in 0..(n + 1) |-> IF k = n + 1 THEN y ELSE s[k]]
<1>2. r[n + 1] = y /\ \A k \in 0..n : r[k] = s[k] /\ k \in 0..(n + 1)
  OBVIOUS
<1> HIDE DEF r
<1>3. r[0] = started(p)
  BY <1>1, <1>2 DEF isRun
<1>4. ASSUME NEW k \in 1..(n + 1) PROVE r[k - 1].stack # <<>> /\ r[k] = step(p, r[k - 1])
  <2>1. k - 1 \in 0..n /\ r[k - 1] = s[k - 1]
    BY <1>2
  <2>2. CASE k = n + 1
    <3>1. r[k - 1] = x
      BY <1>1, <2>1, <2>2
    <3> QED
      BY <1>2, <2>2, <3>1
  <2>3. CASE k # n + 1
    <3>1. k \in 1..n /\ k \in 0..n
      BY <2>3
    <3> QED
      BY <1>1, <1>2, <2>1, <3>1 DEF isRun
  <2> QED
    BY <2>2, <2>3
<1>5. ASSUME NEW k \in 0..(n + 1) PROVE isSound(p, r[k]) /\ lasts(p, r[k], r[n + 1])
  <2>1. CASE k = n + 1
    <3>1. lasts(p, y, y)
      BY DEF lasts
    <3> QED
      BY <1>2, <2>1, <3>1
  <2>2. CASE k # n + 1
    <3>1. k \in 0..n
      BY <2>2
    <3>2. isSound(p, s[k]) /\ lasts(p, s[k], x)
      BY <1>1, <3>1 DEF isRun
    <3>3. lasts(p, s[k], y)
      BY <3>2, Lasting
    <3> QED
      BY <1>2, <3>1, <3>2, <3>3
  <2> QED
    BY <2>1, <2>2
<1>6. isRun(p, r, n + 1) /\ n + 1 \in Nat
  BY <1>3, <1>4, <1>5 DEF isRun
<1> QED
  BY <1>2, <1>6 DEF hasRun

LEMMA RunStarts ==
  ASSUME NEW p, NEW x, x = started(p), isSound(p, x)
  PROVE  hasRun(p, x)
<1> DEFINE s == [k \in 0..0 |-> x]
<1>1. s[0] = x
  OBVIOUS
<1>2. lasts(p, x, x)
  BY DEF lasts
<1> HIDE DEF s
<1>3. isRun(p, s, 0)
  BY <1>1, <1>2 DEF isRun
<1> QED
  BY <1>1, <1>3 DEF hasRun

LEMMA ExtractRun == ASSUME TagInv, Extract PROVE RunInv'
<1>1. TagInv'
  BY ExtractTags
<1>2. SUFFICES ASSUME nodes' # <<>> PROVE hasRun(program', now')
  BY DEF RunInv
<1>3. isSound(program', now')
  BY <1>1, <1>2, SoundNext
<1>4. PICK x, p : x = now' /\ p = program'
  OBVIOUS
<1>5. x = started(p)
  BY <1>4 DEF Extract, started, now
<1>6. isSound(p, x)
  BY <1>3, <1>4 DEF now
<1> QED
  BY <1>4, <1>5, <1>6, RunStarts

LEMMA StepRun == ASSUME TagInv, RunInv, Enter \/ Resight \/ Close PROVE RunInv'
<1>1. TagInv' /\ IRInv
  BY EnterTags, ResightTags, CloseTags DEF TagInv
<1>2. SUFFICES ASSUME nodes' # <<>> PROVE hasRun(program', now')
  BY DEF RunInv
<1>3. stack # <<>> /\ now' = step(program, now) /\ program' = program
  BY OneStep
<1>4. nodes # <<>>
  BY <1>1, <1>3 DEF IRInv
<1>5. isSound(program', now')
  BY <1>1, <1>2, SoundNext
<1>6. PICK x, y, p : x = now /\ y = now' /\ p = program
  OBVIOUS
<1>7. isSound(p, y)
  BY <1>3, <1>5, <1>6 DEF now
<1>8. lasts(p, x, y)
  BY <1>6, LastsNow
<1>9. hasRun(p, x) /\ x.stack # <<>>
  BY <1>3, <1>4, <1>6 DEF RunInv, now
<1> QED
  BY <1>3, <1>6, <1>7, <1>8, <1>9, RunGoesOn

(* A run that is over, and the IR it leaves.                               *)
isDone(p, s, n) ==
  /\ n \in Nat /\ isRun(p, s, n) /\ s[n].stack = <<>>
  /\ isIR(p, s[n].nodes, s[n].cache, s[n].gathered)
  /\ s[n].cache[1] = 1 /\ 1 \in DOMAIN p /\ 1 \in DOMAIN s[n].nodes

LEMMA DoneNow ==
  ASSUME TagInv, RunInv, extracted
  PROVE  \E n, s : isDone(program, s, n) /\ s[n] = now
<1>1. hasRun(program, now)
  BY DEF extracted, RunInv
<1>2. PICK n, s : n \in Nat /\ isRun(program, s, n) /\ s[n] = now
  BY <1>1 DEF hasRun
<1>3. s[n].nodes = nodes /\ s[n].cache = cache /\ s[n].stack = <<>> /\ s[n].gathered = gathered
  BY <1>2 DEF now, extracted
<1>4. isIR(program, nodes, cache, gathered) /\ cache[1] = 1 /\ 1 \in DOMAIN program /\ 1 \in DOMAIN nodes
  BY IsIR DEF TagInv
<1>5. isDone(program, s, n)
  BY <1>2, <1>3, <1>4 DEF isDone
<1> QED
  BY <1>2, <1>5

(* A program has one run.                                                  *)
LEMMA OneRun ==
  ASSUME NEW p, NEW s, NEW n, NEW r, NEW m, isDone(p, s, n), isDone(p, r, m), n <= m
  PROVE  s[n] = r[m]
<1>1. n \in Nat /\ m \in Nat /\ isRun(p, s, n) /\ isRun(p, r, m) /\ s[n].stack = <<>>
  BY DEF isDone
<1> DEFINE T == {k \in 0..n : s[k] = r[k]}
<1>2. 0 \in T
  BY <1>1 DEF isRun
<1>3. ASSUME NEW k \in 1..n, k - 1 \in T PROVE k \in T
  <2>1. k \in 1..m /\ k \in 0..n /\ s[k - 1] = r[k - 1]
    BY <1>1, <1>3
  <2>2. s[k] = step(p, s[k - 1]) /\ r[k] = step(p, r[k - 1])
    BY <1>1, <2>1 DEF isRun
  <2> QED
    BY <2>1, <2>2
<1>4. n \in T
  <2>1. n \in 0..n
    BY <1>1
  <2> HIDE DEF T
  <2> QED
    BY <1>1, <1>2, <1>3, <2>1, Induction
<1>5. n = m
  <2> SUFFICES ASSUME n # m PROVE FALSE
    OBVIOUS
  <2>1. n + 1 \in 1..m /\ (n + 1) - 1 = n
    BY <1>1
  <2>2. r[n].stack # <<>>
    BY <1>1, <2>1 DEF isRun
  <2> QED
    BY <1>1, <1>4, <2>2
<1> QED
  BY <1>4, <1>5

LEMMA SameRun ==
  ASSUME NEW p, NEW s, NEW n, NEW r, NEW m, isDone(p, s, n), isDone(p, r, m)
  PROVE  s[n] = r[m]
<1>1. n \in Nat /\ m \in Nat
  BY DEF isDone
<1>2. n <= m \/ m <= n
  BY <1>1
<1> QED
  BY <1>2, OneRun

-----------------------------------------------------------------------------
(* The registry.                                                           *)
isRegistered(k, p) == \E n, s : isDone(p, s, n) /\ ~hasCycle(s[n].nodes) /\ k = getTypeKey(p, s[n].nodes)
RegistryInv == \A k \in DOMAIN registry : isRegistered(k, registry[k])
BuildInv == TagInv /\ Parented /\ RunInv /\ RegistryInv

(* The walk of an IR meets every cycle.                                    *)
LEMMA NoCycle ==
  ASSUME TagInv, Parented, extracted, ~isCyclic(nodes)
  PROVE  ~hasCycle(nodes)
<1>1. walkTypeIR(nodes) = DOMAIN nodes /\ isIR(program, nodes, cache, gathered) /\ 1 \in DOMAIN nodes
  BY WalkMeetsAll, IsIR DEF TagInv
<1>2. PICK ir : ir = nodes
  OBVIOUS
<1>3. isGraph(ir)
  BY <1>1, <1>2, GraphOfIR
<1> QED
  BY <1>1, <1>2, <1>3, CyclesOfWalk

LEMMA RegisterKeys == ASSUME TagInv, Parented, RunInv, RegistryInv, Register PROVE RegistryInv'
<1>1. PICK p, ir, key : p = program /\ ir = nodes /\ key = getTypeKey(program, nodes)
  OBVIOUS
<1>2. extracted /\ ~hasCycle(ir)
  <2>1. extracted /\ ~isCyclic(ir)
    BY <1>1 DEF Register, Finish, extracted
  <2> QED
    BY <1>1, <2>1, NoCycle
<1>3. isRegistered(key, p)
  <2>1. PICK n, s : isDone(program, s, n) /\ s[n] = now
    BY <1>2, DoneNow
  <2>2. s[n].nodes = ir
    BY <1>1, <2>1 DEF now
  <2> QED
    BY <1>1, <1>2, <2>1, <2>2 DEF isRegistered
<1>4. registry' = [k \in DOMAIN registry \cup {key} |-> IF k \in DOMAIN registry THEN registry[k] ELSE p]
  BY <1>1 DEF Register
<1>5. \A k \in DOMAIN registry' : (k \in DOMAIN registry /\ registry'[k] = registry[k]) \/ (k = key /\ registry'[k] = p)
  BY <1>4
<1> QED
  BY <1>3, <1>5 DEF RegistryInv

LEMMA BuildStepTags == ASSUME TagInv, [Next]_vars PROVE TagInv'
BY NoneRenumbered, BuildExtracts, ExtractTags, EnterTags, ResightTags, CloseTags, FinishTags, StutterTags
   DEF ExtractionNext, TagInv

LEMMA BuildStepParents == ASSUME TagInv, Parented, [Next]_vars PROVE Parented'
<1>1. IRInv
  BY DEF TagInv
<1>2. CASE Finish
  BY <1>2 DEF Finish, Parented
<1>3. CASE UNCHANGED extraction
  BY <1>3 DEF extraction, Parented, isMemberOf
<1> QED
  BY <1>1, <1>2, <1>3, NoneRenumbered, BuildExtracts, ExtractParents, EnterParents, ResightParents, CloseParents DEF ExtractionNext

LEMMA BuildStepRuns == ASSUME TagInv, Parented, RunInv, RegistryInv, [Next]_vars PROVE RunInv' /\ RegistryInv'
<1>1. CASE Extract /\ UNCHANGED registry
  BY <1>1, ExtractRun DEF RegistryInv
<1>2. CASE (Enter \/ Resight \/ Close) /\ UNCHANGED registry
  BY <1>2, StepRun DEF RegistryInv
<1>3. CASE Register
  <2>1. nodes' = <<>>
    BY <1>3 DEF Register, Finish
  <2> QED
    BY <1>3, <2>1, RegisterKeys DEF RunInv
<1>4. CASE Overflow
  BY <1>4 DEF Overflow, Finish, RunInv, RegistryInv
<1>5. CASE UNCHANGED vars
  BY <1>5 DEF vars, extraction, RunInv, RegistryInv, now
<1>6. ~Widen /\ ~KeepNumbers /\ ~Renumber
  BY NoneRenumbered DEF TagInv
<1> QED
  BY <1>1, <1>2, <1>3, <1>4, <1>5, <1>6 DEF Next

THEOREM BuildIsConsistent == ASSUME Unnumbered PROVE Spec => []BuildInv
<1>1. Init => BuildInv
  <2> SUFFICES ASSUME Init PROVE TagInv /\ Parented /\ RunInv /\ RegistryInv
    BY DEF BuildInv
  <2>1. nodes = <<>> /\ registry = <<>>
    BY DEF Init, ExtractionInit
  <2>2. DOMAIN registry = {}
    BY <2>1
  <2> QED
    BY <2>1, <2>2, InitTags, InitParents DEF Init, RunInv, RegistryInv
<1>2. BuildInv /\ [Next]_vars => BuildInv'
  <2> SUFFICES ASSUME TagInv, Parented, RunInv, RegistryInv, [Next]_vars
               PROVE  TagInv' /\ Parented' /\ RunInv' /\ RegistryInv'
    BY DEF BuildInv
  <2> QED
    BY BuildStepTags, BuildStepParents, BuildStepRuns
<1> QED
  BY <1>1, <1>2, PTL DEF Spec

(* In a build too, every IR describes its type and its discriminators tell *)
(* the members of their unions apart.                                      *)
THEOREM BuildsDescribeTypes == ASSUME Unnumbered PROVE Spec => [](IRDescribesType /\ DiscriminatorsTell)
<1>1. BuildInv => IRDescribesType /\ DiscriminatorsTell
  BY DescribesType, TagsTell DEF BuildInv
<1> QED
  BY <1>1, BuildIsConsistent, PTL

(* A type extracted again has the key it had before.                       *)
LEMMA KeysOfTypes == BuildInv => OneKeyPerType
<1> SUFFICES ASSUME BuildInv PROVE OneKeyPerType
  OBVIOUS
<1>1. ASSUME NEW k \in DOMAIN registry, NEW l \in DOMAIN registry, registry[k] = registry[l]
      PROVE  k = l
  <2>1. PICK p : p = registry[k]
    OBVIOUS
  <2>2. isRegistered(k, p) /\ isRegistered(l, p)
    BY <1>1, <2>1 DEF BuildInv, RegistryInv
  <2>3. PICK n, s : isDone(p, s, n) /\ k = getTypeKey(p, s[n].nodes)
    BY <2>2 DEF isRegistered
  <2>4. PICK m, r : isDone(p, r, m) /\ l = getTypeKey(p, r[m].nodes)
    BY <2>2 DEF isRegistered
  <2>5. s[n] = r[m]
    BY <2>3, <2>4, SameRun
  <2> QED
    BY <2>3, <2>4, <2>5
<1>2. extracted => cycleHasReason
  BY CyclesOfTypes DEF BuildInv
<1> QED
  BY <1>1, <1>2 DEF OneKeyPerType

(* The module of a type is found again by its key, whatever was extracted  *)
(* in between, and a key fails to be computed only for a union, an         *)
(* intersection or a record that contains itself.                          *)
THEOREM KeysAreTypes == ASSUME Unnumbered PROVE Spec => []OneKeyPerType
BY BuildIsConsistent, KeysOfTypes, PTL

(* The walk of an IR meets every node, and every reference of an OpenAPI   *)
(* document by name leads to the component of a type of this name.         *)
THEOREM ReferencesResolve == ASSUME Unnumbered PROVE Spec => []OpenApiNamesResolve
<1>1. BuildInv => OpenApiNamesResolve
  BY NamesOfRefs DEF BuildInv, TagInv
<1> QED
  BY <1>1, BuildIsConsistent, PTL

-----------------------------------------------------------------------------
(* What equal normal forms say of types.                                   *)
isPlaced(kind) == kind \in {"union", "intersection"}    \* parts are known by what they are, not by a key

LEMMA NormalFields ==
  ASSUME NEW ir \in Seq(NodeRecord), NEW N, areNormal(ir, N), NEW i \in DOMAIN ir
  PROVE  /\ N[i].kind = ir[i].kind /\ N[i].value = ir[i].value
         /\ ir[i].kind = "ref" => N[i].target = ir[i].target
         /\ isPlaced(ir[i].kind) =>
              /\ \A x \in N[i].parts : \E j \in DOMAIN ir[i].members : x[2] = N[ir[i].members[j][2]]
              /\ \A j \in DOMAIN ir[i].members : \E x \in N[i].parts : x[2] = N[ir[i].members[j][2]]
         /\ ~isPlaced(ir[i].kind) =>
              /\ \A x \in N[i].parts : \E j \in DOMAIN ir[i].members : x[1] = ir[i].members[j][1] /\ x[2] = N[ir[i].members[j][2]]
              /\ \A j \in DOMAIN ir[i].members : \E x \in N[i].parts : x[1] = ir[i].members[j][1] /\ x[2] = N[ir[i].members[j][2]]
<1>1. N[i] = body(ir, N, i)
  BY DEF areNormal
<1> DEFINE P == [j \in DOMAIN ir[i].members |-> N[ir[i].members[j][2]]]
<1>2. DOMAIN P = DOMAIN ir[i].members /\ \A j \in DOMAIN P : P[j] = N[ir[i].members[j][2]]
  OBVIOUS
<1>3. N[i] = normalized(ir, i, P)
  BY <1>1 DEF body
<1> HIDE DEF P
<1>4. /\ N[i].kind = ir[i].kind /\ N[i].value = ir[i].value /\ N[i].target = refKey(ir[i])
      /\ N[i].parts = IF ir[i].kind \in {"union", "intersection"}
                     THEN {<<Cardinality({k \in DOMAIN P : P[k] = P[j]}), P[j]>> : j \in DOMAIN P}
                     ELSE {<<ir[i].members[j][1], P[j]>> : j \in DOMAIN P}
  BY <1>3 DEF normalized
<1>5. ir[i].kind = "ref" => N[i].target = ir[i].target
  <2>1. ir[i] \in NodeRecord
    OBVIOUS
  <2>2. ir[i].target \in Nat
    BY <2>1 DEF NodeRecord
  <2> QED
    BY <1>4, <2>2 DEF refKey, firstId
<1>6. ASSUME isPlaced(ir[i].kind)
      PROVE  /\ \A x \in N[i].parts : \E j \in DOMAIN ir[i].members : x[2] = N[ir[i].members[j][2]]
             /\ \A j \in DOMAIN ir[i].members : \E x \in N[i].parts : x[2] = N[ir[i].members[j][2]]
  <2> DEFINE times(j) == Cardinality({k \in DOMAIN P : P[k] = P[j]})
  <2>1. N[i].parts = {<<times(j), P[j]>> : j \in DOMAIN P}
    BY <1>4, <1>6 DEF isPlaced
  <2> HIDE DEF times
  <2>2. \A x \in N[i].parts : \E j \in DOMAIN P : x[2] = P[j]
    BY <2>1
  <2>3. \A j \in DOMAIN P : \E x \in N[i].parts : x[2] = P[j]
    <3> SUFFICES ASSUME NEW j \in DOMAIN P PROVE \E x \in N[i].parts : x[2] = P[j]
      OBVIOUS
    <3>1. <<times(j), P[j]>> \in N[i].parts /\ <<times(j), P[j]>>[2] = P[j]
      BY <2>1
    <3> QED
      BY <3>1
  <2> QED
    BY <1>2, <2>2, <2>3
<1>7. ASSUME ~isPlaced(ir[i].kind)
      PROVE  /\ \A x \in N[i].parts : \E j \in DOMAIN ir[i].members : x[1] = ir[i].members[j][1] /\ x[2] = N[ir[i].members[j][2]]
             /\ \A j \in DOMAIN ir[i].members : \E x \in N[i].parts : x[1] = ir[i].members[j][1] /\ x[2] = N[ir[i].members[j][2]]
  <2>1. N[i].parts = {<<ir[i].members[j][1], P[j]>> : j \in DOMAIN P}
    BY <1>4, <1>7 DEF isPlaced
  <2>2. \A x \in N[i].parts : \E j \in DOMAIN P : x[1] = ir[i].members[j][1] /\ x[2] = P[j]
    BY <2>1
  <2>3. \A j \in DOMAIN P : \E x \in N[i].parts : x[1] = ir[i].members[j][1] /\ x[2] = P[j]
    <3> SUFFICES ASSUME NEW j \in DOMAIN P PROVE \E x \in N[i].parts : x[1] = ir[i].members[j][1] /\ x[2] = P[j]
      OBVIOUS
    <3>1. PICK x : x = <<ir[i].members[j][1], P[j]>>
      OBVIOUS
    <3>2. x \in N[i].parts /\ x[1] = ir[i].members[j][1] /\ x[2] = P[j]
      BY <2>1, <3>1
    <3> QED
      BY <3>2
  <2> QED
    BY <1>2, <2>2, <2>3
<1> QED
  BY <1>4, <1>5, <1>6, <1>7

(* Of types with equal normal forms, each has the members of the other.    *)
LEMMA SameMembers ==
  ASSUME NEW p, NEW ir, NEW c, NEW g, isIR(p, ir, c, g), NEW N, areNormal(ir, N),
         NEW q, NEW jr, NEW d, NEW h, isIR(q, jr, d, h), NEW M, areNormal(jr, M),
         NEW t \in DOMAIN p, NEW u \in DOMAIN q, c[t] # 0, d[u] # 0, N[c[t]] = M[d[u]]
  PROVE  /\ p[t].kind = q[u].kind /\ p[t].value = q[u].value
         /\ \A j \in DOMAIN p[t].members : \E k \in DOMAIN q[u].members :
              /\ p[t].members[j][1] = q[u].members[k][1] \/ isPlaced(p[t].kind)
              /\ N[g[t][j][2]] = M[h[u][k][2]]
<1>1. /\ ir \in Seq(NodeRecord) /\ haveNodes(p, ir, c, g) /\ haveMembers(p, ir, c, g)
      /\ jr \in Seq(NodeRecord) /\ haveNodes(q, jr, d, h) /\ haveMembers(q, jr, d, h)
  BY DEF isIR
<1>2. c[t] \in DOMAIN ir /\ ir[c[t]].kind = p[t].kind /\ ir[c[t]].value = p[t].value
  BY <1>1 DEF haveNodes
<1>3. d[u] \in DOMAIN jr /\ jr[d[u]].kind = q[u].kind /\ jr[d[u]].value = q[u].value
  BY <1>1 DEF haveNodes
<1>4. p[t].kind = q[u].kind /\ p[t].value = q[u].value
  <2>1. N[c[t]].kind = ir[c[t]].kind /\ N[c[t]].value = ir[c[t]].value
    BY <1>1, <1>2, NormalFields
  <2>2. M[d[u]].kind = jr[d[u]].kind /\ M[d[u]].value = jr[d[u]].value
    BY <1>1, <1>3, NormalFields
  <2> QED
    BY <1>2, <1>3, <2>1, <2>2
<1>5. PICK e \in DOMAIN jr : e = d[u]
  BY <1>3
<1>6. /\ isPlaced(jr[e].kind) => \A x \in M[e].parts : \E b \in DOMAIN jr[e].members : x[2] = M[jr[e].members[b][2]]
      /\ ~isPlaced(jr[e].kind) =>
           \A x \in M[e].parts : \E b \in DOMAIN jr[e].members : x[1] = jr[e].members[b][1] /\ x[2] = M[jr[e].members[b][2]]
  BY <1>1, NormalFields
<1>7. \A b \in DOMAIN jr[e].members : isKey(q, d, u, jr[e].members[b]) \/ \E k \in DOMAIN q[u].members : jr[e].members[b] = h[u][k]
  BY <1>5, MembersOfIR
<1>8. PICK i \in DOMAIN ir : i = c[t]
  BY <1>2
<1>9. /\ isPlaced(ir[i].kind) => \A a \in DOMAIN ir[i].members : \E x \in N[i].parts : x[2] = N[ir[i].members[a][2]]
      /\ ~isPlaced(ir[i].kind) =>
           \A a \in DOMAIN ir[i].members : \E x \in N[i].parts : x[1] = ir[i].members[a][1] /\ x[2] = N[ir[i].members[a][2]]
  BY <1>1, NormalFields
<1>10. ASSUME NEW j \in DOMAIN p[t].members
      PROVE  \E k \in DOMAIN q[u].members :
               /\ p[t].members[j][1] = q[u].members[k][1] \/ isPlaced(p[t].kind)
               /\ N[g[t][j][2]] = M[h[u][k][2]]
  <2>1. PICK a \in DOMAIN ir[c[t]].members : ir[c[t]].members[a] = g[t][j]
    BY MembersOfIR
  <2>2. g[t][j][1] = p[t].members[j][1] /\ g[t][j][1] \in Position
    BY <1>1 DEF haveMembers
  <2>3. CASE isPlaced(p[t].kind)
    <3>1. PICK x \in N[c[t]].parts : x[2] = N[g[t][j][2]]
      BY <1>2, <1>8, <1>9, <2>1, <2>3
    <3>2. PICK b \in DOMAIN jr[d[u]].members : x[2] = M[jr[d[u]].members[b][2]]
      <4>1. x \in M[d[u]].parts /\ isPlaced(jr[d[u]].kind)
        BY <1>3, <1>4, <2>3, <3>1
      <4> QED
        BY <1>5, <1>6, <4>1
    <3>3. q[u].kind # "record"
      BY <1>4, <2>3 DEF isPlaced
    <3>4. jr[d[u]].members = h[u] /\ DOMAIN h[u] = DOMAIN q[u].members
      BY <1>1, <3>3, MembersOfIR DEF haveMembers
    <3> QED
      BY <2>3, <3>1, <3>2, <3>4
  <2>4. CASE ~isPlaced(p[t].kind)
    <3>1. PICK x \in N[c[t]].parts : x[1] = g[t][j][1] /\ x[2] = N[g[t][j][2]]
      <4>1. ~isPlaced(ir[c[t]].kind)
        BY <1>2, <2>4
      <4>2. \E x \in N[c[t]].parts : x[1] = ir[c[t]].members[a][1] /\ x[2] = N[ir[c[t]].members[a][2]]
        BY <1>8, <1>9, <4>1
      <4> QED
        BY <2>1, <4>2
    <3>2. x \in M[d[u]].parts /\ ~isPlaced(jr[d[u]].kind)
      BY <1>3, <1>4, <2>4
    <3>3. PICK b \in DOMAIN jr[d[u]].members : g[t][j][1] = jr[d[u]].members[b][1] /\ N[g[t][j][2]] = M[jr[d[u]].members[b][2]]
      <4>1. \E b \in DOMAIN jr[d[u]].members : x[1] = jr[d[u]].members[b][1] /\ x[2] = M[jr[d[u]].members[b][2]]
        BY <1>5, <1>6, <3>2
      <4> QED
        BY <3>1, <4>1
    <3>4. ~isKey(q, d, u, jr[d[u]].members[b])
      BY <2>2, <3>3 DEF isKey, Position
    <3>5. PICK k \in DOMAIN q[u].members : jr[d[u]].members[b] = h[u][k]
      BY <1>5, <1>7, <3>4
    <3>6. h[u][k][1] = q[u].members[k][1]
      BY <1>1 DEF haveMembers
    <3> QED
      BY <2>2, <3>3, <3>5, <3>6
  <2> QED
    BY <2>3, <2>4
<1> QED
  BY <1>4, <1>10

-----------------------------------------------------------------------------
(* A member's node is that of its type, or a ref to it.                    *)
LEMMA MemberNode ==
  ASSUME NEW p, NEW ir, NEW c, NEW g, isIR(p, ir, c, g), NEW t \in DOMAIN p, c[t] # 0,
         NEW j \in DOMAIN p[t].members, NEW w, w = p[t].members[j][2], NEW i, i = g[t][j][2]
  PROVE  /\ w \in DOMAIN p /\ i \in DOMAIN ir /\ c[w] \in DOMAIN ir /\ c[w] # 0
         /\ \/ ir[i].kind = "ref" /\ ir[i].target = c[w] /\ p[w].kind \in RefKinds
            \/ ir[i].kind # "ref" /\ i = c[w] /\ ir[i].kind = p[w].kind
<1>1. /\ p \in Seq(PlainType) /\ IsProgram(p) /\ ir \in Seq(NodeRecord)
      /\ haveNodes(p, ir, c, g) /\ ownNodes(p, c) /\ haveMembers(p, ir, c, g) /\ haveReasons(p, ir, c)
  BY DEF isIR
<1>2. w \in DOMAIN p /\ \A v \in DOMAIN p : p[v].kind # "ref"
  <2>1. \A v \in DOMAIN p : p[v].kind \in Kinds
    BY <1>1, Declares
  <2> QED
    BY <1>1, <2>1, Declares DEF Kinds, Leaves, RefKinds, OtherKinds, UnionKinds
<1>3. i \in DOMAIN ir /\ c[w] \in DOMAIN ir /\ resolved(ir, i) = c[w]
  BY <1>1 DEF haveMembers
<1>4. c[w] # 0
  BY <1>1, <1>3
<1>5. ir[c[w]].kind = p[w].kind
  BY <1>1, <1>2, <1>4 DEF haveNodes
<1>6. CASE ir[i].kind = "ref"
  <2>1. ir[i].target = c[w]
    BY <1>3, <1>6 DEF resolved
  <2>2. PICK v \in DOMAIN p : /\ c[v] # 0
                              /\ i = c[v] \/ (ir[i].target = c[v] /\ p[v].kind \in RefKinds) \/ ir[i].kind = "primitive"
    BY <1>1, <1>3 DEF haveReasons
  <2>3. i # c[v]
    <3>1. ir[c[v]].kind = p[v].kind
      BY <1>1, <2>2 DEF haveNodes
    <3> QED
      BY <1>2, <1>6, <3>1
  <2>4. c[v] = c[w] /\ p[v].kind \in RefKinds
    BY <1>6, <2>1, <2>2, <2>3
  <2>5. v = w
    BY <1>1, <1>2, <2>2, <2>4 DEF ownNodes
  <2> QED
    BY <1>2, <1>3, <1>4, <1>6, <2>1, <2>4, <2>5
<1>7. CASE ir[i].kind # "ref"
  <2>1. i = c[w]
    BY <1>3, <1>7 DEF resolved
  <2> QED
    BY <1>2, <1>3, <1>4, <1>5, <1>7, <2>1
<1> QED
  BY <1>6, <1>7

(* Types are the same when their normal forms are, if refs with the same   *)
(* normal form lead to nodes with the same.                                *)
refsAgree(ir, N, jr, M) ==
  \A i \in DOMAIN ir, k \in DOMAIN jr :
    ir[i].kind = "ref" /\ jr[k].kind = "ref" /\ N[i] = M[k] => N[ir[i].target] = M[jr[k].target]

LEMMA Bisimilar ==
  ASSUME NEW p, NEW ir, NEW c, NEW g, isIR(p, ir, c, g), NEW N, areNormal(ir, N),
         NEW q, NEW jr, NEW d, NEW h, isIR(q, jr, d, h), NEW M, areNormal(jr, M),
         refsAgree(ir, N, jr, M),
         NEW t0 \in DOMAIN p, NEW u0 \in DOMAIN q, c[t0] # 0, d[u0] # 0, N[c[t0]] = M[d[u0]]
  PROVE  sameType(p, t0, q, u0)
<1> DEFINE same == {s \in (DOMAIN p) \X (DOMAIN q) : c[s[1]] # 0 /\ d[s[2]] # 0 /\ N[c[s[1]]] = M[d[s[2]]]}
<1>0. ir \in Seq(NodeRecord) /\ jr \in Seq(NodeRecord)
  BY DEF isIR
<1>1. \A t, u : <<t, u>> \in same <=> t \in DOMAIN p /\ u \in DOMAIN q /\ c[t] # 0 /\ d[u] # 0 /\ N[c[t]] = M[d[u]]
  OBVIOUS
<1>2. \A s \in same : s = <<s[1], s[2]>> /\ s[1] \in DOMAIN p /\ s[2] \in DOMAIN q
  OBVIOUS
<1>3. same \subseteq (DOMAIN p) \X (DOMAIN q)
  OBVIOUS
<1> HIDE DEF same
<1>4. ASSUME NEW t \in DOMAIN p, NEW j \in DOMAIN p[t].members, NEW u \in DOMAIN q, NEW k \in DOMAIN q[u].members,
             c[t] # 0, d[u] # 0, N[g[t][j][2]] = M[h[u][k][2]]
      PROVE  <<p[t].members[j][2], q[u].members[k][2]>> \in same
  <2>1. PICK v, w, a, b : v = p[t].members[j][2] /\ w = q[u].members[k][2] /\ a = g[t][j][2] /\ b = h[u][k][2]
    OBVIOUS
  <2>2. /\ v \in DOMAIN p /\ a \in DOMAIN ir /\ c[v] \in DOMAIN ir /\ c[v] # 0
        /\ \/ ir[a].kind = "ref" /\ ir[a].target = c[v]
           \/ ir[a].kind # "ref" /\ a = c[v]
    BY <1>4, <2>1, MemberNode
  <2>3. /\ w \in DOMAIN q /\ b \in DOMAIN jr /\ d[w] \in DOMAIN jr /\ d[w] # 0
        /\ \/ jr[b].kind = "ref" /\ jr[b].target = d[w]
           \/ jr[b].kind # "ref" /\ b = d[w]
    BY <1>4, <2>1, MemberNode
  <2>4. ir[a].kind = jr[b].kind
    <3>1. N[a].kind = ir[a].kind
      BY <1>0, <2>2, NormalFields
    <3>2. M[b].kind = jr[b].kind
      BY <1>0, <2>3, NormalFields
    <3> QED
      BY <1>4, <2>1, <3>1, <3>2
  <2>5. N[c[v]] = M[d[w]]
    BY <1>4, <2>1, <2>2, <2>3, <2>4 DEF refsAgree
  <2> QED
    BY <1>1, <2>1, <2>2, <2>3, <2>5
<1>5. ASSUME NEW t, NEW u, <<t, u>> \in same
      PROVE  alike(p, t, q, u) /\ agree(p, t, q, u, same)
  <2>1. t \in DOMAIN p /\ u \in DOMAIN q /\ c[t] # 0 /\ d[u] # 0 /\ N[c[t]] = M[d[u]]
    BY <1>1, <1>5
  <2>2. /\ p[t].kind = q[u].kind /\ p[t].value = q[u].value
        /\ \A j \in DOMAIN p[t].members : \E k \in DOMAIN q[u].members :
             /\ p[t].members[j][1] = q[u].members[k][1] \/ isPlaced(p[t].kind)
             /\ N[g[t][j][2]] = M[h[u][k][2]]
    BY <2>1, SameMembers
  <2>3. \A k \in DOMAIN q[u].members : \E j \in DOMAIN p[t].members :
             /\ q[u].members[k][1] = p[t].members[j][1] \/ isPlaced(q[u].kind)
             /\ M[h[u][k][2]] = N[g[t][j][2]]
    BY <2>1, SameMembers
  <2>4. ASSUME NEW x \in partsByKey(p, t)
        PROVE  \E y \in partsByKey(q, u) : (x[1] = y[1] \/ isPlaced(p[t].kind)) /\ <<x[2], y[2]>> \in same
    <3>1. PICK j \in DOMAIN p[t].members : x[1] = p[t].members[j][1] /\ x[2] = p[t].members[j][2]
      BY DEF partsByKey
    <3>2. PICK k \in DOMAIN q[u].members :
             /\ p[t].members[j][1] = q[u].members[k][1] \/ isPlaced(p[t].kind)
             /\ N[g[t][j][2]] = M[h[u][k][2]]
      BY <2>2
    <3>3. PICK y : y = <<q[u].members[k][1], q[u].members[k][2]>>
      OBVIOUS
    <3>4. y \in partsByKey(q, u) /\ y[1] = q[u].members[k][1] /\ y[2] = q[u].members[k][2]
      BY <3>3 DEF partsByKey
    <3>5. <<p[t].members[j][2], q[u].members[k][2]>> \in same
      BY <1>4, <2>1, <3>2
    <3>6. <<x[2], y[2]>> \in same /\ (x[1] = y[1] \/ isPlaced(p[t].kind))
      BY <3>1, <3>2, <3>4, <3>5
    <3> QED
      BY <3>4, <3>6
  <2>5. ASSUME NEW y \in partsByKey(q, u)
        PROVE  \E x \in partsByKey(p, t) : (x[1] = y[1] \/ isPlaced(p[t].kind)) /\ <<x[2], y[2]>> \in same
    <3>1. PICK k \in DOMAIN q[u].members : y[1] = q[u].members[k][1] /\ y[2] = q[u].members[k][2]
      BY DEF partsByKey
    <3>2. PICK j \in DOMAIN p[t].members :
             /\ q[u].members[k][1] = p[t].members[j][1] \/ isPlaced(q[u].kind)
             /\ M[h[u][k][2]] = N[g[t][j][2]]
      BY <2>3
    <3>3. PICK x : x = <<p[t].members[j][1], p[t].members[j][2]>>
      OBVIOUS
    <3>4. x \in partsByKey(p, t) /\ x[1] = p[t].members[j][1] /\ x[2] = p[t].members[j][2]
      BY <3>3 DEF partsByKey
    <3>5. <<p[t].members[j][2], q[u].members[k][2]>> \in same
      BY <1>4, <2>1, <3>2
    <3>6. <<x[2], y[2]>> \in same /\ (x[1] = y[1] \/ isPlaced(p[t].kind))
      BY <2>2, <3>1, <3>2, <3>4, <3>5
    <3> QED
      BY <3>4, <3>6
  <2> QED
    BY <2>2, <2>4, <2>5 DEF alike, agree, isPlaced
<1>6. <<t0, u0>> \in same
  BY <1>1
<1>7. \A s \in same : alike(p, s[1], q, s[2]) /\ agree(p, s[1], q, s[2], same)
  BY <1>2, <1>5
<1>8. same \in SUBSET {s \in (DOMAIN p) \X (DOMAIN q) : alike(p, s[1], q, s[2])}
  BY <1>3, <1>7
<1> QED
  BY <1>6, <1>7, <1>8 DEF sameType

(* What is declared of a program without NumberedUnions is the program, and*)
(* what is in order.                                                       *)
LEMMA InOrder ==
  ASSUME NEW p \in Seq(PlainType)
  PROVE  /\ declaration(p) = p
         /\ orderly(p) => \A t \in DOMAIN p :
              /\ \A u \in DOMAIN p : sameType(p, t, p, u) => t = u
              /\ \A i, j \in DOMAIN p[t].members : i < j =>
                   IF p[t].kind \in {"union", "intersection"}
                   THEN p[p[t].members[i][2]].kind \in Leaves /\ p[p[t].members[j][2]].kind \notin Leaves
                   ELSE p[t].members[i][1] < p[t].members[j][1]
<1>1. ASSUME NEW t \in DOMAIN p PROVE p[t].kind # "renumbered" /\ p[t] \in PlainType
  <2>1. p[t] \in PlainType
    OBVIOUS
  <2>2. p[t].kind \in Kinds
    BY <2>1 DEF PlainType
  <2> QED
    BY <2>1, <2>2 DEF Kinds, Leaves, RefKinds, OtherKinds, UnionKinds
<1>2. declaration(p) = p
  <2>1. ASSUME NEW t \in DOMAIN p
        PROVE  [p[t] EXCEPT !.kind = irKind(p[t]), !.members = declaredOf(p[t])] = p[t]
    <3>1. irKind(p[t]) = p[t].kind /\ declaredOf(p[t]) = p[t].members
      BY <1>1 DEF irKind, declaredOf
    <3>2. p[t] \in PlainType
      BY <1>1
    <3> QED
      BY <3>1, <3>2 DEF PlainType
  <2>2. p = [t \in DOMAIN p |-> p[t]]
    OBVIOUS
  <2> QED
    BY <2>1, <2>2, Zenon DEF declaration
<1>3. \A t \in DOMAIN p : widened(p, t) = t
  BY <1>1 DEF widened
<1> QED
  BY <1>2, <1>3 DEF orderly

(* In a program without doubles, types with one normal form are one.       *)
LEMMA NoDoubles ==
  ASSUME NEW p, NEW ir, NEW c, NEW g, isIR(p, ir, c, g), NEW N, areNormal(ir, N), orderly(p),
         NEW t \in DOMAIN p, NEW u \in DOMAIN p, c[t] # 0, c[u] # 0, N[c[t]] = N[c[u]]
  PROVE  t = u
<1>1. ir \in Seq(NodeRecord)
  BY DEF isIR
<1>2. ASSUME NEW i \in DOMAIN ir, NEW k \in DOMAIN ir, ir[i].kind = "ref", ir[k].kind = "ref", N[i] = N[k]
      PROVE  ir[i].target = ir[k].target
  <2>1. N[i].target = ir[i].target
    BY <1>1, <1>2, NormalFields
  <2>2. N[k].target = ir[k].target
    BY <1>1, <1>2, NormalFields
  <2> QED
    BY <1>2, <2>1, <2>2
<1>3. refsAgree(ir, N, ir, N)
  BY <1>2 DEF refsAgree
<1>4. sameType(p, t, p, u)
  BY <1>3, Bisimilar
<1>5. p \in Seq(PlainType)
  BY DEF isIR
<1> QED
  BY <1>4, <1>5, InOrder

(* Two ascending sequences of the same keys are the same.                  *)
ascends(K, n) == (\A i \in 1..n : K[i] \in Nat) /\ \A i, j \in 1..n : i < j => K[i] < K[j]
covers(L, m, K, n) == \A i \in 1..n : \E j \in 1..m : K[i] = L[j]
LEMMA SameKeys ==
  ASSUME NEW n \in Nat, NEW m \in Nat, NEW K, NEW L, ascends(K, n), ascends(L, m),
         covers(L, m, K, n), covers(K, n, L, m)
  PROVE  \A i \in 1..n : i \in 1..m /\ K[i] = L[i]
<1> DEFINE T == {i \in 1..n : ~(i \in 1..m /\ K[i] = L[i])}
<1> SUFFICES ASSUME T # {} PROVE FALSE
  OBVIOUS
<1>1. PICK i \in T : \A k \in T : i <= k
  <2>1. T \in SUBSET Nat
    OBVIOUS
  <2> HIDE DEF T
  <2> QED
    BY <2>1, Least
<1>2. i \in 1..n /\ ~(i \in 1..m /\ K[i] = L[i])
  OBVIOUS
<1>3. \A k \in 1..n : k < i => k \in 1..m /\ K[k] = L[k]
  <2> SUFFICES ASSUME NEW k \in 1..n, k < i PROVE k \in 1..m /\ K[k] = L[k]
    OBVIOUS
  <2>1. k \notin T
    BY <1>1, <1>2
  <2> QED
    BY <2>1
<1> HIDE DEF T
<1>4. PICK k \in 1..m : K[i] = L[k]
  BY <1>2 DEF covers
<1>5. ~(k < i)
  <2> SUFFICES ASSUME k < i PROVE FALSE
    OBVIOUS
  <2>1. k \in 1..n
    BY <1>2
  <2>2. K[k] = L[k] /\ K[k] < K[i] /\ K[i] \in Nat
    BY <1>2, <1>3, <2>1 DEF ascends
  <2> QED
    BY <1>4, <2>2
<1>6. i \in 1..m
  BY <1>2, <1>5
<1>7. PICK l \in 1..n : L[i] = K[l]
  BY <1>6 DEF covers
<1>8. ~(l < i)
  <2> SUFFICES ASSUME l < i PROVE FALSE
    OBVIOUS
  <2>1. l \in 1..m /\ K[l] = L[l]
    BY <1>3
  <2>2. L[l] < L[i] /\ L[i] \in Nat
    BY <1>6, <2>1 DEF ascends
  <2> QED
    BY <1>7, <2>1, <2>2
<1>9. K[i] <= K[l] /\ L[i] <= L[k]
  <2>1. K[i] \in Nat /\ L[i] \in Nat
    BY <1>2, <1>6 DEF ascends
  <2>2. i = l \/ K[i] < K[l]
    BY <1>2, <1>8 DEF ascends
  <2>3. i = k \/ L[i] < L[k]
    BY <1>5, <1>6 DEF ascends
  <2>4. K[l] \in Nat /\ L[k] \in Nat
    BY DEF ascends
  <2> QED
    BY <2>1, <2>2, <2>3, <2>4
<1>10. K[i] \in Nat /\ L[i] \in Nat
  BY <1>2, <1>6 DEF ascends
<1>11. K[i] <= L[i] /\ L[i] <= K[i]
  BY <1>4, <1>7, <1>9
<1>12. K[i] = L[i]
  BY <1>10, <1>11
<1> QED
  BY <1>2, <1>6, <1>12

coversAll(L, W, m, K, V, n) == \A i \in 1..n : \E j \in 1..m : K[i] = L[j] /\ V[i] = W[j]
LEMMA SameOrder ==
  ASSUME NEW n \in Nat, NEW m \in Nat, NEW K, NEW L, NEW V, NEW W, ascends(K, n), ascends(L, m),
         coversAll(L, W, m, K, V, n), coversAll(K, V, n, L, W, m)
  PROVE  n = m /\ \A i \in 1..n : V[i] = W[i]
<1>0. covers(L, m, K, n) /\ covers(K, n, L, m)
  BY DEF covers, coversAll
<1>1. \A i \in 1..n : i \in 1..m /\ K[i] = L[i]
  BY <1>0, SameKeys
<1>2. \A j \in 1..m : j \in 1..n /\ L[j] = K[j]
  BY <1>0, SameKeys
<1>3. n = m
  <2>1. CASE n = 0
    <3>1. ~(m \in 1..m)
      BY <1>2, <2>1
    <3> QED
      BY <2>1, <3>1
  <2>2. CASE n # 0
    <3>1. n \in 1..n
      BY <2>2
    <3>2. n \in 1..m
      BY <1>1, <3>1
    <3>3. m \in 1..n
      BY <1>2, <3>2
    <3> QED
      BY <3>2, <3>3
  <2> QED
    BY <2>1, <2>2
<1>4. ASSUME NEW i \in 1..n PROVE V[i] = W[i]
  <2>1. PICK j \in 1..m : K[i] = L[j] /\ V[i] = W[j]
    BY DEF coversAll
  <2>2. i \in 1..m /\ L[i] = L[j] /\ L[i] \in Nat
    BY <1>1, <2>1 DEF ascends
  <2>3. ~(i < j) /\ ~(j < i)
    BY <2>2 DEF ascends
  <2>4. i \in Nat /\ j \in Nat
    OBVIOUS
  <2>5. i = j
    BY <2>3, <2>4
  <2> QED
    BY <2>1, <2>5
<1> QED
  BY <1>3, <1>4

(* In orderly programs, types with one normal form have the same members   *)
(* in the same order.                                                      *)
rank(p, t, j) ==
  IF isPlaced(p[t].kind) THEN (IF p[p[t].members[j][2]].kind \in Leaves THEN 1 ELSE 2)
  ELSE p[t].members[j][1]

LEMMA Ascending ==
  ASSUME NEW p \in Seq(PlainType), IsProgram(p), orderly(p), NEW t \in DOMAIN p
  PROVE  Len(p[t].members) \in Nat /\ ascends([j \in DOMAIN p[t].members |-> rank(p, t, j)], Len(p[t].members))
<1>1. p[t].members \in Seq(Position \X Position) /\ DOMAIN p[t].members = 1..Len(p[t].members) /\ Len(p[t].members) \in Nat
  BY Declares
<1>2. \A j \in DOMAIN p[t].members : p[t].members[j][1] \in Nat
  BY <1>1 DEF Position
<1>3. \A j \in DOMAIN p[t].members : rank(p, t, j) \in Nat
  BY <1>2 DEF rank
<1>4. ASSUME NEW i \in DOMAIN p[t].members, NEW j \in DOMAIN p[t].members, i < j
      PROVE  rank(p, t, i) < rank(p, t, j)
  <2>1. IF p[t].kind \in {"union", "intersection"}
        THEN p[p[t].members[i][2]].kind \in Leaves /\ p[p[t].members[j][2]].kind \notin Leaves
        ELSE p[t].members[i][1] < p[t].members[j][1]
    BY <1>4, InOrder
  <2> QED
    BY <2>1 DEF rank, isPlaced
<1> QED
  BY <1>1, <1>3, <1>4 DEF ascends

LEMMA OrderedMembers ==
  ASSUME NEW p, NEW ir, NEW c, NEW g, isIR(p, ir, c, g), NEW N, areNormal(ir, N), orderly(p),
         NEW q, NEW jr, NEW d, NEW h, isIR(q, jr, d, h), NEW M, areNormal(jr, M), orderly(q),
         NEW t \in DOMAIN p, NEW u \in DOMAIN q, c[t] # 0, d[u] # 0, N[c[t]] = M[d[u]]
  PROVE  /\ Len(p[t].members) = Len(q[u].members)
         /\ \A j \in DOMAIN p[t].members : N[g[t][j][2]] = M[h[u][j][2]]
<1>1. /\ p \in Seq(PlainType) /\ IsProgram(p) /\ ir \in Seq(NodeRecord)
      /\ q \in Seq(PlainType) /\ IsProgram(q) /\ jr \in Seq(NodeRecord)
  BY DEF isIR
<1> DEFINE n == Len(p[t].members)
           m == Len(q[u].members)
           K == [j \in DOMAIN p[t].members |-> rank(p, t, j)]
           L == [j \in DOMAIN q[u].members |-> rank(q, u, j)]
           V == [j \in DOMAIN p[t].members |-> N[g[t][j][2]]]
           W == [j \in DOMAIN q[u].members |-> M[h[u][j][2]]]
<1>2. n \in Nat /\ ascends(K, n) /\ DOMAIN p[t].members = 1..n
  BY <1>1, Ascending, Declares
<1>3. m \in Nat /\ ascends(L, m) /\ DOMAIN q[u].members = 1..m
  BY <1>1, Ascending, Declares
<1>4. p[t].kind = q[u].kind
  BY SameMembers
<1>5. ASSUME NEW j \in DOMAIN p[t].members, NEW k \in DOMAIN q[u].members, N[g[t][j][2]] = M[h[u][k][2]],
             p[t].members[j][1] = q[u].members[k][1] \/ isPlaced(p[t].kind)
      PROVE  rank(p, t, j) = rank(q, u, k)
  <2>1. CASE ~isPlaced(p[t].kind)
    BY <1>4, <1>5, <2>1 DEF rank
  <2>2. CASE isPlaced(p[t].kind)
    <3>1. PICK v, w, a, b : v = p[t].members[j][2] /\ w = q[u].members[k][2] /\ a = g[t][j][2] /\ b = h[u][k][2]
      OBVIOUS
    <3>2. /\ a \in DOMAIN ir
          /\ (ir[a].kind = "ref" /\ p[v].kind \in RefKinds) \/ ir[a].kind = p[v].kind
      BY <3>1, MemberNode
    <3>3. /\ b \in DOMAIN jr
          /\ (jr[b].kind = "ref" /\ q[w].kind \in RefKinds) \/ jr[b].kind = q[w].kind
      BY <3>1, MemberNode
    <3>4. N[a].kind = ir[a].kind
      BY <1>1, <3>2, NormalFields
    <3>5. M[b].kind = jr[b].kind
      BY <1>1, <3>3, NormalFields
    <3>6. ir[a].kind = jr[b].kind
      BY <1>5, <3>1, <3>4, <3>5
    <3>7. p[v].kind \in Leaves <=> q[w].kind \in Leaves
      BY <3>2, <3>3, <3>6 DEF Leaves, RefKinds
    <3> QED
      BY <1>4, <2>2, <3>1, <3>7 DEF rank
  <2> QED
    BY <2>1, <2>2
<1>6. ASSUME NEW j \in 1..n PROVE \E k \in 1..m : K[j] = L[k] /\ V[j] = W[k]
  <2>1. \A i \in DOMAIN p[t].members : \E k \in DOMAIN q[u].members :
              /\ p[t].members[i][1] = q[u].members[k][1] \/ isPlaced(p[t].kind)
              /\ N[g[t][i][2]] = M[h[u][k][2]]
    BY SameMembers
  <2>2. PICK k \in DOMAIN q[u].members :
              /\ p[t].members[j][1] = q[u].members[k][1] \/ isPlaced(p[t].kind)
              /\ N[g[t][j][2]] = M[h[u][k][2]]
    BY <1>2, <2>1
  <2>3. rank(p, t, j) = rank(q, u, k)
    BY <1>2, <1>5, <2>2
  <2>4. K[j] = rank(p, t, j) /\ V[j] = N[g[t][j][2]] /\ L[k] = rank(q, u, k) /\ W[k] = M[h[u][k][2]] /\ k \in 1..m
    BY <1>2, <1>3
  <2> HIDE DEF K, L, V, W
  <2> QED
    BY <2>2, <2>3, <2>4
<1>7. ASSUME NEW k \in 1..m PROVE \E j \in 1..n : L[k] = K[j] /\ W[k] = V[j]
  <2>1. \A i \in DOMAIN q[u].members : \E j \in DOMAIN p[t].members :
              /\ q[u].members[i][1] = p[t].members[j][1] \/ isPlaced(q[u].kind)
              /\ M[h[u][i][2]] = N[g[t][j][2]]
    BY SameMembers
  <2>2. PICK j \in DOMAIN p[t].members :
              /\ q[u].members[k][1] = p[t].members[j][1] \/ isPlaced(q[u].kind)
              /\ M[h[u][k][2]] = N[g[t][j][2]]
    BY <1>3, <2>1
  <2>3. rank(p, t, j) = rank(q, u, k)
    BY <1>3, <1>4, <1>5, <2>2
  <2>4. K[j] = rank(p, t, j) /\ V[j] = N[g[t][j][2]] /\ L[k] = rank(q, u, k) /\ W[k] = M[h[u][k][2]] /\ j \in 1..n
    BY <1>2, <1>3
  <2> HIDE DEF K, L, V, W
  <2> QED
    BY <2>2, <2>3, <2>4
<1>8. n = m /\ \A j \in 1..n : V[j] = W[j]
  <2> HIDE DEF n, m, K, L, V, W
  <2>1. coversAll(L, W, m, K, V, n) /\ coversAll(K, V, n, L, W, m)
    BY <1>6, <1>7 DEF coversAll
  <2> QED
    BY <1>2, <1>3, <2>1, SameOrder
<1> QED
  BY <1>2, <1>3, <1>8

-----------------------------------------------------------------------------
(* Two runs side by side.                                                  *)

(* A state of a run and its end.                                           *)
isFinal(p, a, N) == isIR(p, a.nodes, a.cache, a.gathered) /\ areNormal(a.nodes, N) /\ orderly(p)
isWithin(p, x, a) == isSound(p, x) /\ lasts(p, x, a)

LEMMA Innermost ==
  ASSUME NEW p, NEW a, NEW N, isFinal(p, a, N), NEW x, isWithin(p, x, a), x.stack # <<>>, NEW t, t = last(x)
  PROVE  /\ Len(x.stack) \in Nat /\ Len(x.stack) \in DOMAIN x.stack /\ x.stack[Len(x.stack)] = t
         /\ x.stack \in Seq(DOMAIN p) /\ x.nodes \in Seq(NodeRecord)
         /\ t \in DOMAIN p /\ x.cache[t] # 0 /\ a.cache[t] = x.cache[t]
         /\ x.gathered[t] \in Seq(Position \X Position)
         /\ p[t].members \in Seq(Position \X Position)
<1>1. isSound(p, x) /\ lasts(p, x, a) /\ p \in Seq(PlainType) /\ IsProgram(p)
  BY DEF isWithin, isFinal, isIR
<1>2. x.stack \in Seq(DOMAIN p) /\ x.nodes \in Seq(NodeRecord)
  BY <1>1 DEF isSound
<1>3. Len(x.stack) \in Nat /\ Len(x.stack) \in DOMAIN x.stack /\ x.stack[Len(x.stack)] = t /\ t \in DOMAIN p
  BY <1>2 DEF last
<1>4. x.cache[t] # 0 /\ x.gathered[t] \in Seq(Position \X Position)
  BY <1>1, <1>3 DEF isSound
<1>5. a.cache[t] = x.cache[t]
  BY <1>1, <1>3, <1>4 DEF lasts
<1>6. p[t].members \in Seq(Position \X Position)
  BY <1>1, <1>3, Declares
<1> QED
  BY <1>2, <1>3, <1>4, <1>5, <1>6

opens(p, x, a, z, w, i) ==
  /\ x.cache[w] = 0 /\ i = Len(x.nodes) + 1 /\ z.cache[w] = i
  /\ \A v \in DOMAIN p : v # w => z.cache[v] = x.cache[v]
  /\ a.nodes[i].kind = p[w].kind /\ p[w].kind # "ref"
  /\ Len(z.nodes) = Len(x.nodes) + (IF p[w].kind = "record" THEN 2 ELSE 1)
  /\ z.stack = Append(x.stack, w)
refers(p, x, a, z, w, i) ==
  /\ a.nodes[i].kind = "ref" /\ Len(z.nodes) = Len(x.nodes) + 1
  /\ z.cache = x.cache /\ z.stack = x.stack
points(p, x, a, z, w, i) ==
  /\ x.cache[w] # 0 /\ i = x.cache[w] /\ a.nodes[i].kind = p[w].kind /\ p[w].kind # "ref"
  /\ Len(z.nodes) = Len(x.nodes) /\ z.cache = x.cache /\ z.stack = x.stack

(* What the steps leave.                                                   *)
hasEntered(p, x, w, z) ==
  /\ z.nodes = x.nodes \o placeholder(p[w]) /\ z.cache = [x.cache EXCEPT ![w] = Len(x.nodes) + 1]
  /\ z.stack = Append(x.stack, w) /\ z.gathered = taking(p, x, Len(x.nodes) + 1)
LEMMA Entered ==
  ASSUME NEW p, NEW x, NEW z, z = entering(p, x), NEW w, following(p, x)[2] = w
  PROVE  hasEntered(p, x, w, z)
<1>1. z = [nodes |-> x.nodes \o placeholder(p[w]), cache |-> [x.cache EXCEPT ![w] = Len(x.nodes) + 1],
           stack |-> Append(x.stack, w), gathered |-> taking(p, x, Len(x.nodes) + 1)]
  BY Zenon DEF entering
<1>2. PICK a, b, c, d : /\ a = x.nodes \o placeholder(p[w]) /\ b = [x.cache EXCEPT ![w] = Len(x.nodes) + 1]
                        /\ c = Append(x.stack, w) /\ d = taking(p, x, Len(x.nodes) + 1)
  OBVIOUS
<1>3. z = [nodes |-> a, cache |-> b, stack |-> c, gathered |-> d]
  BY <1>1, <1>2, Zenon
<1>4. z.nodes = a /\ z.cache = b /\ z.stack = c /\ z.gathered = d
  BY <1>3
<1> QED
  BY <1>2, <1>4, Zenon DEF hasEntered

hasReferred(p, x, w, z) ==
  /\ z.nodes = Append(x.nodes, Ref(x.nodes[x.cache[w]].name, x.cache[w])) /\ z.cache = x.cache
  /\ z.stack = x.stack /\ z.gathered = taking(p, x, Len(x.nodes) + 1)
LEMMA Referred ==
  ASSUME NEW p, NEW x, NEW z, z = referring(p, x), NEW w, following(p, x)[2] = w
  PROVE  hasReferred(p, x, w, z)
<1>1. z = [nodes |-> Append(x.nodes, Ref(x.nodes[x.cache[w]].name, x.cache[w])), cache |-> x.cache,
           stack |-> x.stack, gathered |-> taking(p, x, Len(x.nodes) + 1)]
  BY Zenon DEF referring
<1>2. PICK a, b, c, d : /\ a = Append(x.nodes, Ref(x.nodes[x.cache[w]].name, x.cache[w])) /\ b = x.cache
                        /\ c = x.stack /\ d = taking(p, x, Len(x.nodes) + 1)
  OBVIOUS
<1>3. z = [nodes |-> a, cache |-> b, stack |-> c, gathered |-> d]
  BY <1>1, <1>2, Zenon
<1>4. z.nodes = a /\ z.cache = b /\ z.stack = c /\ z.gathered = d
  BY <1>3
<1> QED
  BY <1>2, <1>4, Zenon DEF hasReferred

LEMMA Pointed ==
  ASSUME NEW p, NEW x, NEW z, z = pointing(p, x), NEW w, following(p, x)[2] = w
  PROVE  /\ z.nodes = x.nodes /\ z.cache = x.cache
         /\ z.stack = x.stack /\ z.gathered = taking(p, x, x.cache[w])
<1>1. z = [nodes |-> x.nodes, cache |-> x.cache, stack |-> x.stack, gathered |-> taking(p, x, x.cache[w])]
  BY Zenon DEF pointing
<1>2. PICK a, b, c, d : /\ a = x.nodes /\ b = x.cache
                        /\ c = x.stack /\ d = taking(p, x, x.cache[w])
  OBVIOUS
<1>3. z = [nodes |-> a, cache |-> b, stack |-> c, gathered |-> d]
  BY <1>1, <1>2, Zenon
<1>4. z.nodes = a /\ z.cache = b /\ z.stack = c /\ z.gathered = d
  BY <1>3
<1> QED
  BY <1>2, <1>4, Zenon

gathersOne(p, x, z, t, j) == Len(z.gathered[t]) = j /\ \A v \in DOMAIN p : v # t => z.gathered[v] = x.gathered[v]
takes(p, x, a, z, t, j, w, i) ==
  /\ j \in DOMAIN p[t].members /\ w \in DOMAIN p /\ gathersOne(p, x, z, t, j)
  /\ opens(p, x, a, z, w, i) \/ refers(p, x, a, z, w, i) \/ points(p, x, a, z, w, i)

LEMMA StepTakes ==
  ASSUME NEW p, NEW a, NEW N, isFinal(p, a, N), NEW x, isWithin(p, x, a), x.stack # <<>>, NEW t, t = last(x),
         remains(p, x), NEW z, z = step(p, x), isWithin(p, z, a),
         NEW j, j = Len(x.gathered[t]) + 1, NEW w, w = p[t].members[j][2], NEW i, i = a.gathered[t][j][2]
  PROVE  takes(p, x, a, z, t, j, w, i)
<1> SUFFICES /\ j \in DOMAIN p[t].members /\ w \in DOMAIN p /\ gathersOne(p, x, z, t, j)
             /\ opens(p, x, a, z, w, i) \/ refers(p, x, a, z, w, i) \/ points(p, x, a, z, w, i)
  BY DEF takes
<1>1. /\ t \in DOMAIN p /\ x.nodes \in Seq(NodeRecord)
      /\ x.gathered[t] \in Seq(Position \X Position) /\ p[t].members \in Seq(Position \X Position)
  BY Innermost
<1>2. /\ p \in Seq(PlainType) /\ IsProgram(p) /\ haveNodes(p, a.nodes, a.cache, a.gathered)
      /\ isSound(p, x) /\ isSound(p, z) /\ lasts(p, z, a) /\ lasts(p, x, a)
  BY DEF isFinal, isIR, isWithin
<1>3. j \in DOMAIN p[t].members /\ j \in Nat
  <2>1. Len(x.gathered[t]) < Len(p[t].members)
    BY DEF remains
  <2> QED
    BY <1>1, <2>1
<1>4. w \in DOMAIN p /\ p[w] \in PlainType /\ p[w].kind # "ref"
  <2>1. w \in DOMAIN p /\ p[w].kind \in Kinds
    BY <1>1, <1>2, <1>3, Declares
  <2>2. p[w] \in PlainType
    BY <1>2, <2>1
  <2>3. p[w].kind # "ref"
    BY <2>1 DEF Kinds, Leaves, RefKinds, OtherKinds, UnionKinds
  <2> QED
    BY <2>1, <2>2, <2>3
<1>5. following(p, x)[2] = w
  BY DEF following
<1>6. ASSUME NEW id, z.gathered = taking(p, x, id)
      PROVE  gathersOne(p, x, z, t, j) /\ i = id
  <2>1. PICK e : e = <<following(p, x)[1], id>>
    OBVIOUS
  <2>2. PICK G : G = x.gathered[t]
    OBVIOUS
  <2>3. z.gathered = [x.gathered EXCEPT ![t] = Append(G, e)]
    BY <1>6, <2>1, <2>2 DEF taking
  <2>4. x.gathered \in [DOMAIN p -> Seq(Position \X Position)] /\ z.gathered \in [DOMAIN p -> Seq(Position \X Position)]
    BY <1>2 DEF isSound
  <2>5. z.gathered[t] = Append(G, e) /\ \A v \in DOMAIN p : v # t => z.gathered[v] = x.gathered[v]
    BY <1>1, <2>3, <2>4
  <2>6. G \in Seq(Position \X Position) /\ Len(G) \in Nat /\ j = Len(G) + 1
    BY <1>1, <2>2
  <2>7. Len(Append(G, e)) = j /\ Append(G, e)[j] = e
    BY <2>6
  <2>8. z.gathered[t] \in Seq(Position \X Position)
    BY <1>1, <2>4
  <2>9. j \in DOMAIN z.gathered[t]
    BY <1>3, <2>5, <2>6, <2>7, <2>8
  <2>10. a.gathered[t][j] = e
    BY <1>1, <1>2, <2>5, <2>7, <2>9 DEF lasts
  <2>11. i = id
    BY <2>1, <2>10
  <2> QED
    BY <2>5, <2>7, <2>11 DEF gathersOne
<1>7. \A v \in DOMAIN p : x.cache[v] \in Nat /\ (x.cache[v] # 0 => a.cache[v] = x.cache[v])
  BY <1>2 DEF isSound, lasts
<1>8. \A v \in DOMAIN p : z.cache[v] # 0 => a.cache[v] = z.cache[v]
  BY <1>2 DEF lasts
<1>9. \A v \in DOMAIN p : a.cache[v] # 0 => a.nodes[a.cache[v]].kind = p[v].kind
  BY <1>2 DEF haveNodes
<1>10. CASE x.cache[w] = 0
  <2>1. z = entering(p, x)
    BY <1>5, <1>10 DEF step
  <2>2. /\ z.nodes = x.nodes \o placeholder(p[w]) /\ z.cache = [x.cache EXCEPT ![w] = Len(x.nodes) + 1]
        /\ z.stack = Append(x.stack, w) /\ z.gathered = taking(p, x, Len(x.nodes) + 1)
    <3>1. hasEntered(p, x, w, z)
      BY <1>5, <2>1, Entered, Zenon
    <3> QED
      BY <3>1, Zenon DEF hasEntered
  <2>3. x.cache \in [DOMAIN p -> Nat]
    BY <1>2 DEF isSound
  <2>4. i = Len(x.nodes) + 1
    BY <1>6, <2>2
  <2>5. z.cache[w] = i /\ \A v \in DOMAIN p : v # w => z.cache[v] = x.cache[v]
    BY <1>4, <2>2, <2>3, <2>4
  <2>6. a.nodes[i].kind = p[w].kind
    <3>1. Len(x.nodes) \in Nat
      BY <1>1
    <3>2. i # 0
      BY <2>4, <3>1
    <3>3. a.cache[w] = i
      BY <1>4, <1>8, <2>5, <3>2
    <3> QED
      BY <1>4, <1>9, <3>2, <3>3
  <2>7. Len(z.nodes) = Len(x.nodes) + (IF p[w].kind = "record" THEN 2 ELSE 1)
    <3>1. placeholder(p[w]) \in Seq(NodeRecord) /\ Len(placeholder(p[w])) = IF p[w].kind = "record" THEN 2 ELSE 1
      BY <1>4, Placeholders
    <3>2. Len(z.nodes) = Len(x.nodes) + Len(placeholder(p[w]))
      <4>1. PICK u, v : u = x.nodes /\ v = placeholder(p[w])
        OBVIOUS
      <4>2. u \in Seq(NodeRecord) /\ v \in Seq(NodeRecord) /\ z.nodes = u \o v
        BY <1>1, <2>2, <3>1, <4>1
      <4>3. Len(u \o v) = Len(u) + Len(v)
        BY <4>2
      <4> QED
        BY <4>1, <4>2, <4>3
    <3> QED
      BY <3>1, <3>2
  <2>8. opens(p, x, a, z, w, i)
    BY <1>4, <1>10, <2>2, <2>4, <2>5, <2>6, <2>7 DEF opens
  <2> QED
    BY <1>3, <1>4, <1>6, <2>2, <2>8
<1>11. CASE x.cache[w] # 0 /\ x.nodes[x.cache[w]].kind \in RefKinds
  <2>1. z = referring(p, x)
    BY <1>5, <1>11 DEF step
  <2>2. PICK r : r = Ref(x.nodes[x.cache[w]].name, x.cache[w])
    OBVIOUS
  <2>3. /\ z.nodes = Append(x.nodes, r) /\ z.cache = x.cache
        /\ z.stack = x.stack /\ z.gathered = taking(p, x, Len(x.nodes) + 1)
    <3>1. hasReferred(p, x, w, z)
      BY <1>5, <2>1, Referred, Zenon
    <3> QED
      BY <2>2, <3>1, Zenon DEF hasReferred
  <2>4. i = Len(x.nodes) + 1
    BY <1>6, <2>3
  <2>5. Len(z.nodes) = Len(x.nodes) + 1 /\ i \in DOMAIN z.nodes /\ z.nodes[i] = r
    BY <1>1, <2>3, <2>4
  <2>6. a.nodes[i].kind = "ref"
    <3>1. r.kind = "ref"
      BY <2>2 DEF Ref
    <3>2. a.nodes[i].kind = z.nodes[i].kind
      BY <1>2, <2>5 DEF lasts
    <3> QED
      BY <2>5, <3>1, <3>2
  <2>7. refers(p, x, a, z, w, i)
    BY <2>3, <2>5, <2>6 DEF refers
  <2> QED
    BY <1>3, <1>4, <1>6, <2>3, <2>7
<1>12. CASE x.cache[w] # 0 /\ x.nodes[x.cache[w]].kind \notin RefKinds
  <2>1. z = pointing(p, x)
    BY <1>5, <1>12 DEF step
  <2>2. /\ z.nodes = x.nodes /\ z.cache = x.cache
        /\ z.stack = x.stack /\ z.gathered = taking(p, x, x.cache[w])
    BY <1>5, <2>1, Pointed
  <2>3. i = x.cache[w]
    BY <1>6, <2>2
  <2>4. a.nodes[i].kind = p[w].kind
    <3>1. a.cache[w] = i /\ i # 0
      BY <1>4, <1>7, <1>12, <2>3
    <3> QED
      BY <1>4, <1>9, <3>1
  <2>5. points(p, x, a, z, w, i)
    BY <1>4, <1>12, <2>2, <2>3, <2>4 DEF points
  <2> QED
    BY <1>3, <1>4, <1>6, <2>2, <2>5
<1> QED
  BY <1>10, <1>11, <1>12

LEMMA StepCloses ==
  ASSUME NEW p, NEW a, NEW N, isFinal(p, a, N), NEW x, isWithin(p, x, a), x.stack # <<>>,
         ~remains(p, x), NEW z, z = step(p, x), isWithin(p, z, a)
  PROVE  /\ Len(z.nodes) = Len(x.nodes) /\ z.cache = x.cache /\ z.gathered = x.gathered
         /\ Len(z.stack) = Len(x.stack) - 1 /\ \A i \in DOMAIN z.stack : i \in DOMAIN x.stack /\ z.stack[i] = x.stack[i]
<1>1. x.stack \in Seq(DOMAIN p) /\ x.nodes \in Seq(NodeRecord) /\ z.nodes \in Seq(NodeRecord) /\ z.stack \in Seq(DOMAIN p)
  BY DEF isWithin, isSound
<1>2. z = closing(p, x)
  BY DEF step
<1>3. z.nodes = filling(p, x) /\ z.cache = x.cache /\ z.gathered = x.gathered /\ z.stack = SubSeq(x.stack, 1, Len(x.stack) - 1)
  BY <1>2 DEF closing
<1>4. Len(z.nodes) = Len(x.nodes)
  <2>1. DOMAIN z.nodes = DOMAIN x.nodes
    BY <1>3 DEF filling
  <2>2. PICK l, m : l = Len(z.nodes) /\ m = Len(x.nodes)
    OBVIOUS
  <2>3. DOMAIN z.nodes = 1..l /\ DOMAIN x.nodes = 1..m /\ l \in Nat /\ m \in Nat
    BY <1>1, <2>2
  <2>4. 1..l = 1..m
    BY <2>1, <2>3
  <2>5. l = m
    BY <2>3, <2>4
  <2> QED
    BY <2>2, <2>5
<1>5. Len(x.stack) - 1 \in Nat /\ Len(x.stack) \in Nat
  BY <1>1
<1>6. Len(z.stack) = Len(x.stack) - 1 /\ \A i \in DOMAIN z.stack : i \in DOMAIN x.stack /\ z.stack[i] = x.stack[i]
  BY <1>1, <1>3, <1>5
<1> QED
  BY <1>3, <1>4, <1>6

(* Two states alike: the types sighted so far correspond by their ids.     *)
sameSightings(p, x, q, y) ==
  /\ \A t \in DOMAIN p : x.cache[t] # 0 => \E u \in DOMAIN q : y.cache[u] = x.cache[t]
  /\ \A u \in DOMAIN q : y.cache[u] # 0 => \E t \in DOMAIN p : x.cache[t] = y.cache[u]
sameStacks(x, y) ==
  Len(x.stack) = Len(y.stack) /\ \A i \in DOMAIN x.stack : x.cache[x.stack[i]] = y.cache[y.stack[i]]
sameForms(p, x, q, y, N, M) ==
  \A t \in DOMAIN p, u \in DOMAIN q : x.cache[t] = y.cache[u] /\ x.cache[t] # 0 => N[x.cache[t]] = M[x.cache[t]]
sameCounts(p, x, q, y) ==
  \A t \in DOMAIN p, u \in DOMAIN q : x.cache[t] = y.cache[u] /\ x.cache[t] # 0 => Len(x.gathered[t]) = Len(y.gathered[u])
alongside(p, x, q, y, N, M) ==
  /\ Len(x.nodes) = Len(y.nodes) /\ sameStacks(x, y)
  /\ sameSightings(p, x, q, y) /\ sameForms(p, x, q, y, N, M) /\ sameCounts(p, x, q, y)

(* A type is not entered on one side and pointed at on the other.          *)
LEMMA OpensOrPoints ==
  ASSUME NEW p, NEW a, NEW N, isFinal(p, a, N), NEW q, NEW b, NEW M, isFinal(q, b, M),
         NEW x, isWithin(p, x, a), NEW z, isWithin(p, z, a), NEW y,
         sameSightings(p, x, q, y), sameForms(p, x, q, y, N, M),
         NEW w \in DOMAIN p, NEW i \in Nat, opens(p, x, a, z, w, i),
         NEW v \in DOMAIN q, NEW k, NEW e, points(q, y, b, e, v, k), N[i] = M[k]
  PROVE  FALSE
<1>1. y.cache[v] = k /\ k # 0 /\ x.cache[w] = 0 /\ z.cache[w] = i /\ i # 0
  <2>1. Len(x.nodes) \in Nat
    BY DEF isWithin, isSound
  <2> QED
    BY <2>1 DEF opens, points
<1>2. PICK t \in DOMAIN p : x.cache[t] = k
  BY <1>1 DEF sameSightings
<1>3. N[k] = M[k]
  BY <1>1, <1>2 DEF sameForms
<1>4. a.cache[t] = k /\ a.cache[w] = i
  <2>1. lasts(p, x, a) /\ lasts(p, z, a)
    BY DEF isWithin
  <2> QED
    BY <1>1, <1>2, <2>1 DEF lasts
<1>5. t = w
  <2>1. isIR(p, a.nodes, a.cache, a.gathered) /\ areNormal(a.nodes, N) /\ orderly(p)
    BY DEF isFinal
  <2>2. N[a.cache[t]] = N[a.cache[w]] /\ a.cache[t] # 0 /\ a.cache[w] # 0
    BY <1>1, <1>3, <1>4
  <2> QED
    BY <2>1, <2>2, NoDoubles
<1> QED
  BY <1>1, <1>2, <1>5

(* Gathering one more on both sides.                                       *)
stayEqual(p, x, q, y, z, e) ==
  \A v \in DOMAIN p, w \in DOMAIN q : x.cache[v] = y.cache[w] /\ x.cache[v] # 0 => Len(z.gathered[v]) = Len(e.gathered[w])
LEMMA CountsGrow ==
  ASSUME NEW p, NEW q, NEW x, isSound(p, x), NEW y, isSound(q, y), NEW t \in DOMAIN p, NEW u \in DOMAIN q,
         x.cache[t] = y.cache[u], x.cache[t] # 0, sameCounts(p, x, q, y), NEW j, NEW z, NEW e,
         gathersOne(p, x, z, t, j), gathersOne(q, y, e, u, j)
  PROVE  stayEqual(p, x, q, y, z, e)
<1>0. SUFFICES ASSUME NEW v \in DOMAIN p, NEW w \in DOMAIN q, x.cache[v] = y.cache[w], x.cache[v] # 0
              PROVE  Len(z.gathered[v]) = Len(e.gathered[w])
  BY DEF stayEqual
<1>1. \A c, d \in DOMAIN p : x.cache[c] = x.cache[d] /\ x.cache[c] # 0 => c = d
  BY DEF isSound
<1>2. \A c, d \in DOMAIN q : y.cache[c] = y.cache[d] /\ y.cache[c] # 0 => c = d
  BY DEF isSound
<1>3. v = t <=> w = u
  BY <1>0, <1>1, <1>2
<1>4. CASE v = t
  BY <1>3, <1>4 DEF gathersOne
<1>5. CASE v # t
  <2>1. z.gathered[v] = x.gathered[v] /\ e.gathered[w] = y.gathered[w]
    BY <1>3, <1>5 DEF gathersOne
  <2>2. Len(x.gathered[v]) = Len(y.gathered[w])
    BY <1>0 DEF sameCounts
  <2> QED
    BY <2>1, <2>2
<1> QED
  BY <1>4, <1>5

(* Nothing is entered on either side.                                      *)
LEMMA StayAlongside ==
  ASSUME NEW p, NEW q, NEW N, NEW M, NEW x, NEW y, alongside(p, x, q, y, N, M), NEW z, NEW e,
         isSound(p, x), isSound(q, y), NEW t \in DOMAIN p, NEW u \in DOMAIN q,
         x.cache[t] = y.cache[u], x.cache[t] # 0, NEW j,
         gathersOne(p, x, z, t, j), gathersOne(q, y, e, u, j),
         z.cache = x.cache, z.stack = x.stack, e.cache = y.cache, e.stack = y.stack, Len(z.nodes) = Len(e.nodes)
  PROVE  alongside(p, z, q, e, N, M)
<1>1. sameStacks(z, e)
  BY DEF alongside, sameStacks
<1>2. sameSightings(p, z, q, e)
  BY DEF alongside, sameSightings
<1>3. sameForms(p, z, q, e, N, M)
  BY DEF alongside, sameForms
<1>4. sameCounts(p, z, q, e)
  <2>1. sameCounts(p, x, q, y)
    BY DEF alongside
  <2>2. stayEqual(p, x, q, y, z, e)
    BY <2>1, CountsGrow
  <2> QED
    BY <2>2 DEF stayEqual, sameCounts
<1> QED
  BY <1>1, <1>2, <1>3, <1>4 DEF alongside

(* The same is entered on both sides.                                      *)
LEMMA OpenAlongside ==
  ASSUME NEW p, NEW a, NEW q, NEW b, NEW N, NEW M, NEW x, NEW y, alongside(p, x, q, y, N, M), NEW z, NEW e,
         isSound(p, x), isSound(q, y), NEW t \in DOMAIN p, NEW u \in DOMAIN q,
         x.cache[t] = y.cache[u], x.cache[t] # 0, NEW j, gathersOne(p, x, z, t, j), gathersOne(q, y, e, u, j),
         NEW w \in DOMAIN p, NEW v \in DOMAIN q, NEW i, NEW k, opens(p, x, a, z, w, i), opens(q, y, b, e, v, k),
         N[i] = M[k], p[w].kind = q[v].kind
  PROVE  alongside(p, z, q, e, N, M)
<1>1. /\ Len(x.nodes) = Len(y.nodes) /\ sameStacks(x, y) /\ sameSightings(p, x, q, y)
      /\ sameForms(p, x, q, y, N, M) /\ sameCounts(p, x, q, y)
  BY DEF alongside
<1>2. /\ x.cache[w] = 0 /\ y.cache[v] = 0 /\ z.cache[w] = i /\ e.cache[v] = i /\ i = k
      /\ i = Len(x.nodes) + 1 /\ Len(x.nodes) \in Nat /\ i # 0
  <2>1. Len(x.nodes) \in Nat
    BY DEF isSound
  <2> QED
    BY <1>1, <2>1 DEF opens
<1>3. /\ \A c \in DOMAIN p : c # w => z.cache[c] = x.cache[c]
      /\ \A c \in DOMAIN q : c # v => e.cache[c] = y.cache[c]
  BY DEF opens
<1>4. /\ \A c \in DOMAIN p : x.cache[c] # i
      /\ \A c \in DOMAIN q : y.cache[c] # i
  <2>1. DOMAIN x.nodes = 1..Len(x.nodes) /\ DOMAIN y.nodes = 1..Len(y.nodes)
    BY DEF isSound
  <2>2. \A c \in DOMAIN p : x.cache[c] # 0 => x.cache[c] \in DOMAIN x.nodes
    BY DEF isSound
  <2>3. \A c \in DOMAIN q : y.cache[c] # 0 => y.cache[c] \in DOMAIN y.nodes
    BY DEF isSound
  <2>4. ~(i \in DOMAIN x.nodes) /\ ~(i \in DOMAIN y.nodes) /\ i # 0
    BY <1>1, <1>2, <2>1
  <2> QED
    BY <2>2, <2>3, <2>4
<1>5. Len(z.nodes) = Len(e.nodes)
  BY <1>1 DEF opens
<1>6. sameStacks(z, e)
  <2>1. /\ x.stack \in Seq(DOMAIN p) /\ y.stack \in Seq(DOMAIN q) /\ Len(x.stack) \in Nat
        /\ Len(x.stack) = Len(y.stack)
    BY <1>1 DEF isSound, sameStacks
  <2>2. z.stack = Append(x.stack, w) /\ e.stack = Append(y.stack, v)
    BY DEF opens
  <2>3. /\ Len(z.stack) = Len(x.stack) + 1 /\ Len(e.stack) = Len(z.stack)
        /\ z.stack[Len(x.stack) + 1] = w /\ e.stack[Len(x.stack) + 1] = v
        /\ DOMAIN z.stack = 1..(Len(x.stack) + 1)
    BY <2>1, <2>2
  <2>4. ASSUME NEW n \in DOMAIN z.stack PROVE z.cache[z.stack[n]] = e.cache[e.stack[n]]
    <3>1. CASE n = Len(x.stack) + 1
      BY <1>2, <2>3, <3>1
    <3>2. CASE n # Len(x.stack) + 1
      <4>1. n \in DOMAIN x.stack /\ n \in DOMAIN y.stack
        BY <2>1, <2>3, <3>2
      <4>2. z.stack[n] = x.stack[n] /\ e.stack[n] = y.stack[n]
        BY <2>1, <2>2, <4>1
      <4>3. x.stack[n] \in DOMAIN p /\ y.stack[n] \in DOMAIN q /\ x.cache[x.stack[n]] # 0 /\ y.cache[y.stack[n]] # 0
        <5>1. x.stack[n] \in DOMAIN p /\ y.stack[n] \in DOMAIN q
          BY <2>1, <4>1
        <5>2. x.cache[x.stack[n]] # 0
          BY <4>1 DEF isSound
        <5>3. y.cache[y.stack[n]] # 0
          BY <4>1 DEF isSound
        <5> QED
          BY <5>1, <5>2, <5>3
      <4>4. z.cache[x.stack[n]] = x.cache[x.stack[n]] /\ e.cache[y.stack[n]] = y.cache[y.stack[n]]
        BY <1>2, <1>3, <4>3
      <4>5. x.cache[x.stack[n]] = y.cache[y.stack[n]]
        BY <1>1, <4>1 DEF sameStacks
      <4> QED
        BY <4>2, <4>4, <4>5
    <3> QED
      BY <3>1, <3>2
  <2> QED
    BY <2>3, <2>4 DEF sameStacks
<1>7. sameSightings(p, z, q, e)
  <2>1. ASSUME NEW c \in DOMAIN p, z.cache[c] # 0 PROVE \E d \in DOMAIN q : e.cache[d] = z.cache[c]
    <3>1. CASE c = w
      BY <1>2, <3>1
    <3>2. CASE c # w
      <4>1. PICK d \in DOMAIN q : y.cache[d] = x.cache[c] /\ x.cache[c] # 0
        BY <1>1, <1>3, <2>1, <3>2 DEF sameSightings
      <4>2. d # v
        BY <1>2, <4>1
      <4> QED
        BY <1>3, <3>2, <4>1, <4>2
    <3> QED
      BY <3>1, <3>2
  <2>2. ASSUME NEW d \in DOMAIN q, e.cache[d] # 0 PROVE \E c \in DOMAIN p : z.cache[c] = e.cache[d]
    <3>1. CASE d = v
      BY <1>2, <3>1
    <3>2. CASE d # v
      <4>1. PICK c \in DOMAIN p : x.cache[c] = y.cache[d] /\ x.cache[c] # 0
        BY <1>1, <1>3, <2>2, <3>2 DEF sameSightings
      <4>2. c # w
        BY <1>2, <4>1
      <4> QED
        BY <1>3, <3>2, <4>1, <4>2
    <3> QED
      BY <3>1, <3>2
  <2> QED
    BY <2>1, <2>2 DEF sameSightings
<1>8. ASSUME NEW c \in DOMAIN p, NEW d \in DOMAIN q, z.cache[c] = e.cache[d], z.cache[c] # 0
      PROVE  (c = w /\ d = v) \/ (z.cache[c] = x.cache[c] /\ x.cache[c] = y.cache[d] /\ x.cache[c] # 0)
  <2>1. CASE c = w
    BY <1>2, <1>3, <1>4, <1>8, <2>1
  <2>2. CASE c # w
    <3>1. z.cache[c] = x.cache[c] /\ x.cache[c] # i
      BY <1>3, <1>4, <2>2
    <3>2. d # v
      BY <1>2, <1>8, <3>1
    <3> QED
      BY <1>3, <1>8, <3>1, <3>2
  <2> QED
    BY <2>1, <2>2
<1>9. sameForms(p, z, q, e, N, M)
  <2>1. N[i] = M[i]
    BY <1>2
  <2> QED
    BY <1>1, <1>2, <1>8, <2>1 DEF sameForms
<1>10. sameCounts(p, z, q, e)
  <2>1. stayEqual(p, x, q, y, z, e)
    BY <1>1, CountsGrow
  <2>2. w # t /\ v # u
    BY <1>2
  <2>3. z.gathered[w] = x.gathered[w] /\ e.gathered[v] = y.gathered[v]
    BY <2>2 DEF gathersOne
  <2>4. x.gathered[w] = <<>> /\ y.gathered[v] = <<>>
    BY <1>2 DEF isSound
  <2>5. Len(z.gathered[w]) = Len(e.gathered[v])
    BY <2>3, <2>4
  <2> QED
    BY <1>8, <2>1, <2>5 DEF stayEqual, sameCounts
<1> QED
  BY <1>5, <1>6, <1>7, <1>9, <1>10 DEF alongside

pops(x, z) ==
  Len(z.stack) = Len(x.stack) - 1 /\ \A i \in DOMAIN z.stack : i \in DOMAIN x.stack /\ z.stack[i] = x.stack[i]
LEMMA CloseAlongside ==
  ASSUME NEW p, NEW q, NEW N, NEW M, NEW x, NEW y, alongside(p, x, q, y, N, M), NEW z, NEW e,
         Len(z.nodes) = Len(x.nodes), z.cache = x.cache, z.gathered = x.gathered,
         Len(e.nodes) = Len(y.nodes), e.cache = y.cache, e.gathered = y.gathered,
         pops(x, z), pops(y, e), NEW S, z.stack \in Seq(S), NEW T, e.stack \in Seq(T)
  PROVE  alongside(p, z, q, e, N, M)
<1>1. sameStacks(z, e)
  <2>1. sameStacks(x, y)
    BY DEF alongside
  <2>2. Len(z.stack) = Len(e.stack)
    BY <2>1 DEF sameStacks, pops
  <2>3. DOMAIN z.stack = 1..Len(z.stack) /\ DOMAIN e.stack = 1..Len(e.stack)
    OBVIOUS
  <2>4. ASSUME NEW i \in DOMAIN z.stack PROVE z.cache[z.stack[i]] = e.cache[e.stack[i]]
    <3>1. i \in DOMAIN x.stack /\ z.stack[i] = x.stack[i] /\ e.stack[i] = y.stack[i]
      BY <2>2, <2>3 DEF pops
    <3> QED
      BY <2>1, <3>1 DEF sameStacks
  <2> QED
    BY <2>2, <2>4 DEF sameStacks
<1>2. sameSightings(p, z, q, e)
  BY DEF alongside, sameSightings
<1>3. sameForms(p, z, q, e, N, M)
  BY DEF alongside, sameForms
<1>4. sameCounts(p, z, q, e)
  BY DEF alongside, sameCounts
<1> QED
  BY <1>1, <1>2, <1>3, <1>4 DEF alongside

Mirrored ==
  \A p, x, q, y, N, M : alongside(p, x, q, y, N, M) => sameSightings(q, y, p, x) /\ sameForms(q, y, p, x, M, N)
LEMMA Mirrors == Mirrored
<1>1. ASSUME NEW p, NEW x, NEW q, NEW y, NEW N, NEW M, alongside(p, x, q, y, N, M)
      PROVE  sameSightings(q, y, p, x) /\ sameForms(q, y, p, x, M, N)
  <2>1. sameSightings(p, x, q, y) /\ sameForms(p, x, q, y, N, M)
    BY <1>1 DEF alongside
  <2>2. sameSightings(q, y, p, x)
    BY <2>1 DEF sameSightings
  <2>3. ASSUME NEW u \in DOMAIN q, NEW t \in DOMAIN p, y.cache[u] = x.cache[t], y.cache[u] # 0
        PROVE  M[y.cache[u]] = N[y.cache[u]]
    BY <2>1, <2>3 DEF sameForms
  <2>4. sameForms(q, y, p, x, M, N)
    BY <2>3 DEF sameForms
  <2> QED
    BY <2>2, <2>4
<1> QED
  BY <1>1 DEF Mirrored

(* Both sides are under way or over, and their innermost types are alike.  *)
sameTop(p, a, N, q, b, M, x, y, t, u) ==
  /\ y.stack # <<>> /\ t \in DOMAIN p /\ u \in DOMAIN q /\ x.cache[t] = y.cache[u] /\ x.cache[t] # 0
  /\ Len(x.gathered[t]) = Len(y.gathered[u]) /\ Len(x.gathered[t]) \in Nat
  /\ Len(p[t].members) = Len(q[u].members)
  /\ \A j \in DOMAIN p[t].members : N[a.gathered[t][j][2]] = M[b.gathered[u][j][2]]
LEMMA SameInnermost ==
  ASSUME NEW p, NEW a, NEW N, isFinal(p, a, N), NEW q, NEW b, NEW M, isFinal(q, b, M),
         NEW x, isWithin(p, x, a), NEW y, isWithin(q, y, b), alongside(p, x, q, y, N, M), x.stack # <<>>,
         NEW t, t = last(x), NEW u, u = last(y)
  PROVE  sameTop(p, a, N, q, b, M, x, y, t, u)
<1>1. /\ Len(x.stack) \in Nat /\ Len(x.stack) \in DOMAIN x.stack /\ x.stack[Len(x.stack)] = t
      /\ t \in DOMAIN p /\ x.cache[t] # 0 /\ a.cache[t] = x.cache[t] /\ x.gathered[t] \in Seq(Position \X Position)
      /\ x.stack \in Seq(DOMAIN p)
  BY Innermost
<1>2. Len(y.stack) = Len(x.stack) /\ y.stack # <<>>
  <2>1. Len(y.stack) = Len(x.stack)
    BY DEF alongside, sameStacks
  <2>2. Len(x.stack) # 0
    BY <1>1
  <2> QED
    BY <2>1, <2>2
<1>3. /\ y.stack[Len(y.stack)] = u
      /\ u \in DOMAIN q /\ y.cache[u] # 0 /\ b.cache[u] = y.cache[u]
  BY <1>2, Innermost
<1>4. x.cache[t] = y.cache[u]
  <2>1. \A i \in DOMAIN x.stack : x.cache[x.stack[i]] = y.cache[y.stack[i]]
    BY DEF alongside, sameStacks
  <2>2. x.cache[x.stack[Len(x.stack)]] = y.cache[y.stack[Len(x.stack)]]
    BY <1>1, <2>1
  <2> QED
    BY <1>1, <1>2, <1>3, <2>2
<1>5. Len(x.gathered[t]) = Len(y.gathered[u])
  BY <1>1, <1>3, <1>4 DEF alongside, sameCounts
<1>6. N[x.cache[t]] = M[x.cache[t]]
  BY <1>1, <1>3, <1>4 DEF alongside, sameForms
<1>7. /\ Len(p[t].members) = Len(q[u].members)
      /\ \A j \in DOMAIN p[t].members : N[a.gathered[t][j][2]] = M[b.gathered[u][j][2]]
  <2>1. /\ isIR(p, a.nodes, a.cache, a.gathered) /\ areNormal(a.nodes, N) /\ orderly(p)
        /\ isIR(q, b.nodes, b.cache, b.gathered) /\ areNormal(b.nodes, M) /\ orderly(q)
    BY DEF isFinal
  <2>2. a.cache[t] # 0 /\ b.cache[u] # 0 /\ N[a.cache[t]] = M[b.cache[u]]
    BY <1>1, <1>3, <1>4, <1>6
  <2>3. PICK ir, c, g, jr, d, h : /\ ir = a.nodes /\ c = a.cache /\ g = a.gathered
                                  /\ jr = b.nodes /\ d = b.cache /\ h = b.gathered
    OBVIOUS
  <2>4. /\ isIR(p, ir, c, g) /\ areNormal(ir, N) /\ orderly(p) /\ isIR(q, jr, d, h) /\ areNormal(jr, M) /\ orderly(q)
        /\ c[t] # 0 /\ d[u] # 0 /\ N[c[t]] = M[d[u]] /\ t \in DOMAIN p /\ u \in DOMAIN q
    BY <1>1, <1>3, <2>1, <2>2, <2>3
  <2>5. /\ Len(p[t].members) = Len(q[u].members)
        /\ \A j \in DOMAIN p[t].members : N[g[t][j][2]] = M[h[u][j][2]]
    BY <2>4, OrderedMembers
  <2> QED
    BY <2>3, <2>5
<1>8. Len(x.gathered[t]) \in Nat
  BY <1>1
<1> QED
  BY <1>1, <1>2, <1>3, <1>4, <1>5, <1>7, <1>8 DEF sameTop

LEMMA LockStep ==
  ASSUME NEW p, NEW a, NEW N, isFinal(p, a, N), NEW q, NEW b, NEW M, isFinal(q, b, M),
         NEW x, isWithin(p, x, a), NEW y, isWithin(q, y, b), alongside(p, x, q, y, N, M), x.stack # <<>>,
         NEW z, z = step(p, x), isWithin(p, z, a), NEW e, e = step(q, y), isWithin(q, e, b)
  PROVE  alongside(p, z, q, e, N, M)
<1>1. PICK t, u : t = last(x) /\ u = last(y)
  OBVIOUS
<1>2. /\ y.stack # <<>> /\ t \in DOMAIN p /\ u \in DOMAIN q /\ x.cache[t] = y.cache[u] /\ x.cache[t] # 0
      /\ Len(x.gathered[t]) = Len(y.gathered[u]) /\ Len(x.gathered[t]) \in Nat
      /\ Len(p[t].members) = Len(q[u].members)
      /\ \A j \in DOMAIN p[t].members : N[a.gathered[t][j][2]] = M[b.gathered[u][j][2]]
  <2>1. sameTop(p, a, N, q, b, M, x, y, t, u)
    BY <1>1, SameInnermost
  <2> QED
    BY <2>1 DEF sameTop
<1>3. remains(p, x) <=> remains(q, y)
  BY <1>1, <1>2 DEF remains
<1>4. isSound(p, x) /\ isSound(q, y) /\ Len(x.nodes) = Len(y.nodes) /\ Len(x.nodes) \in Nat
  <2>1. isSound(p, x) /\ isSound(q, y)
    BY DEF isWithin
  <2>2. Len(x.nodes) \in Nat
    BY <2>1 DEF isSound
  <2> QED
    BY <2>1, <2>2 DEF alongside
<1>5. CASE ~remains(p, x)
  <2>1. /\ Len(z.nodes) = Len(x.nodes) /\ z.cache = x.cache /\ z.gathered = x.gathered
        /\ Len(z.stack) = Len(x.stack) - 1 /\ \A i \in DOMAIN z.stack : i \in DOMAIN x.stack /\ z.stack[i] = x.stack[i]
    BY <1>5, StepCloses
  <2>2. /\ Len(e.nodes) = Len(y.nodes) /\ e.cache = y.cache /\ e.gathered = y.gathered
        /\ Len(e.stack) = Len(y.stack) - 1 /\ \A i \in DOMAIN e.stack : i \in DOMAIN y.stack /\ e.stack[i] = y.stack[i]
    BY <1>2, <1>3, <1>5, StepCloses
  <2>3. z.stack \in Seq(DOMAIN p) /\ e.stack \in Seq(DOMAIN q)
    BY DEF isWithin, isSound
  <2>4. pops(x, z) /\ pops(y, e)
    BY <2>1, <2>2 DEF pops
  <2> QED
    BY <2>1, <2>2, <2>3, <2>4, CloseAlongside
<1>6. CASE remains(p, x)
  <2>1. PICK j, w, v, i, k : /\ j = Len(x.gathered[t]) + 1 /\ w = p[t].members[j][2] /\ v = q[u].members[j][2]
                             /\ i = a.gathered[t][j][2] /\ k = b.gathered[u][j][2]
    OBVIOUS
  <2>2. takes(p, x, a, z, t, j, w, i)
    BY <1>1, <1>6, <2>1, StepTakes
  <2>3. takes(q, y, b, e, u, j, v, k)
    <3>1. remains(q, y) /\ y.stack # <<>> /\ j = Len(y.gathered[u]) + 1
      BY <1>2, <1>3, <1>6, <2>1
    <3> QED
      BY <1>1, <2>1, <3>1, StepTakes
  <2>4. /\ gathersOne(p, x, z, t, j) /\ gathersOne(q, y, e, u, j) /\ w \in DOMAIN p /\ v \in DOMAIN q
        /\ j \in DOMAIN p[t].members /\ j \in DOMAIN q[u].members
    BY <2>2, <2>3 DEF takes
  <2>5. N[i] = M[k]
    BY <1>2, <2>1, <2>4
  <2>6. a.nodes[i].kind = b.nodes[k].kind /\ i \in DOMAIN a.nodes /\ k \in DOMAIN b.nodes
    <3>1. /\ isIR(p, a.nodes, a.cache, a.gathered) /\ areNormal(a.nodes, N) /\ a.nodes \in Seq(NodeRecord)
          /\ isIR(q, b.nodes, b.cache, b.gathered) /\ areNormal(b.nodes, M) /\ b.nodes \in Seq(NodeRecord)
      BY DEF isFinal, isIR
    <3>2. a.cache[t] # 0 /\ b.cache[u] # 0
      <4>1. lasts(p, x, a) /\ lasts(q, y, b)
        BY DEF isWithin
      <4>2. a.cache[t] = x.cache[t]
        BY <1>2, <4>1 DEF lasts
      <4>3. b.cache[u] = y.cache[u]
        BY <1>2, <4>1 DEF lasts
      <4> QED
        BY <1>2, <4>2, <4>3
    <3>3. i \in DOMAIN a.nodes
      <4>1. PICK ir, c, g : ir = a.nodes /\ c = a.cache /\ g = a.gathered
        OBVIOUS
      <4>2. isIR(p, ir, c, g) /\ c[t] # 0 /\ i = g[t][j][2]
        BY <2>1, <3>1, <3>2, <4>1
      <4>3. t \in DOMAIN p /\ j \in DOMAIN p[t].members
        BY <1>2, <2>4
      <4>4. i \in DOMAIN ir
        BY <4>2, <4>3, MemberNode
      <4> QED
        BY <4>1, <4>4
    <3>4. k \in DOMAIN b.nodes
      <4>1. PICK ir, c, g : ir = b.nodes /\ c = b.cache /\ g = b.gathered
        OBVIOUS
      <4>2. isIR(q, ir, c, g) /\ c[u] # 0 /\ k = g[u][j][2]
        BY <2>1, <3>1, <3>2, <4>1
      <4>3. u \in DOMAIN q /\ j \in DOMAIN q[u].members
        BY <1>2, <2>4
      <4>4. k \in DOMAIN ir
        BY <4>2, <4>3, MemberNode
      <4> QED
        BY <4>1, <4>4
    <3>5. N[i].kind = a.nodes[i].kind
      BY <3>1, <3>3, NormalFields
    <3>6. M[k].kind = b.nodes[k].kind
      BY <3>1, <3>4, NormalFields
    <3> QED
      BY <2>5, <3>3, <3>4, <3>5, <3>6
  <2>7. /\ a.nodes \in Seq(NodeRecord) /\ b.nodes \in Seq(NodeRecord)
        /\ sameSightings(p, x, q, y) /\ sameForms(p, x, q, y, N, M)
        /\ sameSightings(q, y, p, x) /\ sameForms(q, y, p, x, M, N)
    <3>1. a.nodes \in Seq(NodeRecord) /\ b.nodes \in Seq(NodeRecord)
      BY DEF isFinal, isIR
    <3>2. sameSightings(p, x, q, y) /\ sameForms(p, x, q, y, N, M)
      BY DEF alongside
    <3>3. sameSightings(q, y, p, x) /\ sameForms(q, y, p, x, M, N)
      BY Mirrors DEF Mirrored
    <3> QED
      BY <3>1, <3>2, <3>3
  <2>8. i \in Nat /\ k \in Nat
    BY <2>6, <2>7
  <2>9. CASE opens(p, x, a, z, w, i)
    <3>1. ~refers(q, y, b, e, v, k)
      BY <2>6, <2>9 DEF opens, refers
    <3>2. ~points(q, y, b, e, v, k)
      BY <2>4, <2>5, <2>7, <2>8, <2>9, OpensOrPoints
    <3>3. opens(q, y, b, e, v, k)
      BY <2>3, <3>1, <3>2 DEF takes
    <3>4. p[w].kind = q[v].kind
      BY <2>6, <2>9, <3>3 DEF opens
    <3> QED
      BY <1>2, <1>4, <2>4, <2>5, <2>9, <3>3, <3>4, OpenAlongside
  <2>10. CASE refers(p, x, a, z, w, i)
    <3>1. refers(q, y, b, e, v, k)
      BY <2>3, <2>6, <2>10 DEF takes, opens, refers, points
    <3>2. Len(z.nodes) = Len(e.nodes)
      BY <1>4, <2>10, <3>1 DEF refers
    <3>3. z.cache = x.cache /\ z.stack = x.stack /\ e.cache = y.cache /\ e.stack = y.stack
      BY <2>10, <3>1 DEF refers
    <3> QED
      BY <1>2, <1>4, <2>4, <3>2, <3>3, StayAlongside
  <2>11. CASE points(p, x, a, z, w, i)
    <3>1. ~refers(q, y, b, e, v, k)
      BY <2>6, <2>11 DEF points, refers
    <3>2. ~opens(q, y, b, e, v, k)
      <4>1. M[k] = N[i]
        BY <2>5
      <4> QED
        BY <2>4, <2>7, <2>8, <2>11, <4>1, OpensOrPoints
    <3>3. points(q, y, b, e, v, k)
      BY <2>3, <3>1, <3>2 DEF takes
    <3>4. Len(z.nodes) = Len(e.nodes)
      BY <1>4, <2>11, <3>3 DEF points
    <3>5. z.cache = x.cache /\ z.stack = x.stack /\ e.cache = y.cache /\ e.stack = y.stack
      BY <2>11, <3>3 DEF points
    <3> QED
      BY <1>2, <1>4, <2>4, <3>4, <3>5, StayAlongside
  <2> QED
    BY <2>2, <2>9, <2>10, <2>11 DEF takes
<1> QED
  BY <1>5, <1>6

LEMMA StartAlongside ==
  ASSUME NEW p, NEW a, NEW N, isFinal(p, a, N), NEW q, NEW b, NEW M, isFinal(q, b, M),
         a.cache[1] = 1, b.cache[1] = 1, 1 \in DOMAIN p, 1 \in DOMAIN q, N[1] = M[1],
         NEW x, x = started(p), NEW y, y = started(q)
  PROVE  alongside(p, x, q, y, N, M)
<1>1. /\ x.nodes = placeholder(p[1]) /\ x.cache = [t \in DOMAIN p |-> IF t = 1 THEN 1 ELSE 0]
      /\ x.stack = <<1>> /\ x.gathered = [t \in DOMAIN p |-> <<>>]
  BY DEF started
<1>2. /\ y.nodes = placeholder(q[1]) /\ y.cache = [t \in DOMAIN q |-> IF t = 1 THEN 1 ELSE 0]
      /\ y.stack = <<1>> /\ y.gathered = [t \in DOMAIN q |-> <<>>]
  BY DEF started
<1>3. p[1].kind = q[1].kind /\ p[1] \in PlainType /\ q[1] \in PlainType
  <2>1. /\ p \in Seq(PlainType) /\ areNormal(a.nodes, N) /\ a.nodes \in Seq(NodeRecord)
        /\ haveNodes(p, a.nodes, a.cache, a.gathered)
    BY DEF isFinal, isIR
  <2>2. /\ q \in Seq(PlainType) /\ areNormal(b.nodes, M) /\ b.nodes \in Seq(NodeRecord)
        /\ haveNodes(q, b.nodes, b.cache, b.gathered)
    BY DEF isFinal, isIR
  <2>3. 1 \in DOMAIN a.nodes /\ a.nodes[1].kind = p[1].kind
    <3>1. PICK ir, c, g : ir = a.nodes /\ c = a.cache /\ g = a.gathered
      OBVIOUS
    <3>2. PICK t \in DOMAIN p : t = 1
      OBVIOUS
    <3>3. haveNodes(p, ir, c, g) /\ c[t] # 0
      BY <2>1, <3>1, <3>2
    <3>4. c[t] \in DOMAIN ir /\ ir[c[t]].kind = p[t].kind
      BY <3>3 DEF haveNodes
    <3> QED
      BY <3>1, <3>2, <3>4
  <2>4. 1 \in DOMAIN b.nodes /\ b.nodes[1].kind = q[1].kind
    <3>1. PICK ir, c, g : ir = b.nodes /\ c = b.cache /\ g = b.gathered
      OBVIOUS
    <3>2. PICK t \in DOMAIN q : t = 1
      OBVIOUS
    <3>3. haveNodes(q, ir, c, g) /\ c[t] # 0
      BY <2>2, <3>1, <3>2
    <3>4. c[t] \in DOMAIN ir /\ ir[c[t]].kind = q[t].kind
      BY <3>3 DEF haveNodes
    <3> QED
      BY <3>1, <3>2, <3>4
  <2>5. N[1].kind = a.nodes[1].kind
    BY <2>1, <2>3, NormalFields
  <2>6. M[1].kind = b.nodes[1].kind
    BY <2>2, <2>4, NormalFields
  <2> QED
    BY <2>1, <2>2, <2>3, <2>4, <2>5, <2>6
<1>4. Len(x.nodes) = Len(y.nodes)
  BY <1>1, <1>2, <1>3, Placeholders
<1>5. x.cache[1] = 1 /\ y.cache[1] = 1
  BY <1>1, <1>2
<1>6. sameStacks(x, y)
  <2>1. Len(x.stack) = Len(y.stack) /\ DOMAIN x.stack = {1} /\ x.stack[1] = 1 /\ y.stack[1] = 1
    BY <1>1, <1>2
  <2> QED
    BY <1>5, <2>1 DEF sameStacks
<1>7. /\ \A t \in DOMAIN p : x.cache[t] # 0 => t = 1
      /\ \A t \in DOMAIN q : y.cache[t] # 0 => t = 1
  BY <1>1, <1>2
<1>8. sameSightings(p, x, q, y)
  BY <1>5, <1>7 DEF sameSightings
<1>9. sameForms(p, x, q, y, N, M)
  BY <1>5, <1>7 DEF sameForms
<1>10. sameCounts(p, x, q, y)
  BY <1>1, <1>2 DEF sameCounts
<1> QED
  BY <1>4, <1>6, <1>8, <1>9, <1>10 DEF alongside

(* At the end, refs with one normal form lead to nodes with one.           *)
LEMMA TargetsAgree ==
  ASSUME NEW p, NEW a, NEW N, isFinal(p, a, N), NEW q, NEW b, NEW M, isFinal(q, b, M),
         alongside(p, a, q, b, N, M)
  PROVE  refsAgree(a.nodes, N, b.nodes, M)
<1>1. PICK ir, c, jr, d : ir = a.nodes /\ c = a.cache /\ jr = b.nodes /\ d = b.cache
  OBVIOUS
<1>2. /\ ir \in Seq(NodeRecord) /\ areNormal(ir, N) /\ haveReasons(p, ir, c) /\ haveNodes(p, ir, c, a.gathered)
      /\ p \in Seq(PlainType) /\ IsProgram(p)
  BY <1>1 DEF isFinal, isIR
<1>3. jr \in Seq(NodeRecord) /\ areNormal(jr, M)
  BY <1>1 DEF isFinal, isIR
<1>4. ASSUME NEW i \in DOMAIN ir, NEW k \in DOMAIN jr, ir[i].kind = "ref", jr[k].kind = "ref", N[i] = M[k]
      PROVE  N[ir[i].target] = M[jr[k].target]
  <2>1. N[i].target = ir[i].target
    BY <1>2, <1>4, NormalFields
  <2>2. M[k].target = jr[k].target
    BY <1>3, <1>4, NormalFields
  <2>3. ir[i].target = jr[k].target
    BY <1>4, <2>1, <2>2
  <2>4. PICK t \in DOMAIN p : /\ c[t] # 0
                              /\ i = c[t] \/ ir[i].target = c[t] \/ ir[i].kind = "primitive"
    BY <1>2 DEF haveReasons
  <2>5. i # c[t]
    <3>1. p[t].kind \in Kinds
      BY <1>2, Declares
    <3>2. ir[c[t]].kind = p[t].kind
      BY <1>2, <2>4 DEF haveNodes
    <3> QED
      BY <1>4, <3>1, <3>2 DEF Kinds, Leaves, RefKinds, OtherKinds, UnionKinds
  <2>6. ir[i].target = c[t]
    BY <1>4, <2>4, <2>5
  <2>7. PICK u \in DOMAIN q : d[u] = c[t]
    BY <1>1, <2>4 DEF alongside, sameSightings
  <2>8. N[c[t]] = M[c[t]]
    BY <1>1, <2>4, <2>7 DEF alongside, sameForms
  <2> QED
    BY <2>3, <2>6, <2>8
<1> QED
  BY <1>1, <1>4 DEF refsAgree

LEMMA RunsAlongside ==
  ASSUME NEW p, NEW s, NEW n, isDone(p, s, n), NEW N, areNormal(s[n].nodes, N), orderly(p),
         NEW q, NEW r, NEW m, isDone(q, r, m), NEW M, areNormal(r[m].nodes, M), orderly(q),
         N[1] = M[1], n <= m
  PROVE  refsAgree(s[n].nodes, N, r[m].nodes, M)
<1>1. PICK a, b : a = s[n] /\ b = r[m]
  OBVIOUS
<1>2. /\ n \in Nat /\ m \in Nat /\ isRun(p, s, n) /\ isRun(q, r, m) /\ a.stack = <<>>
      /\ 1 \in DOMAIN p /\ 1 \in DOMAIN q /\ a.cache[1] = 1 /\ b.cache[1] = 1
  BY <1>1 DEF isDone
<1>3. isFinal(p, a, N) /\ isFinal(q, b, M)
  BY <1>1 DEF isFinal, isDone
<1>4. ASSUME NEW k \in 0..n PROVE isWithin(p, s[k], a)
  BY <1>1, <1>2 DEF isRun, isWithin
<1>5. ASSUME NEW k \in 0..m PROVE isWithin(q, r[k], b)
  BY <1>1, <1>2 DEF isRun, isWithin
<1> DEFINE T == {k \in 0..n : alongside(p, s[k], q, r[k], N, M)}
<1>6. 0 \in T
  <2>1. s[0] = started(p) /\ r[0] = started(q) /\ 0 \in 0..n
    BY <1>2 DEF isRun
  <2>2. alongside(p, s[0], q, r[0], N, M)
    BY <1>2, <1>3, <2>1, StartAlongside
  <2> QED
    BY <2>1, <2>2
<1>7. ASSUME NEW k \in 1..n, k - 1 \in T PROVE k \in T
  <2>1. k \in 1..m /\ k \in 0..n /\ k \in 0..m /\ k - 1 \in 0..n /\ k - 1 \in 0..m
    BY <1>2
  <2>2. PICK x, y, z, e : x = s[k - 1] /\ y = r[k - 1] /\ z = s[k] /\ e = r[k]
    OBVIOUS
  <2>3. alongside(p, x, q, y, N, M)
    BY <1>7, <2>2
  <2>4. x.stack # <<>> /\ z = step(p, x)
    BY <1>2, <2>2 DEF isRun
  <2>5. e = step(q, y)
    BY <1>2, <2>1, <2>2 DEF isRun
  <2>6. isWithin(p, x, a) /\ isWithin(p, z, a)
    BY <1>4, <2>1, <2>2
  <2>7. isWithin(q, y, b) /\ isWithin(q, e, b)
    BY <1>5, <2>1, <2>2
  <2>8. alongside(p, z, q, e, N, M)
    BY <1>3, <2>3, <2>4, <2>5, <2>6, <2>7, LockStep
  <2> QED
    BY <2>1, <2>2, <2>8
<1>8. alongside(p, a, q, r[n], N, M)
  <2>1. n \in 0..n
    BY <1>2
  <2>2. n \in T
    <3> HIDE DEF T
    <3> QED
      BY <1>2, <1>6, <1>7, <2>1, Induction
  <2> QED
    BY <1>1, <2>2
<1>9. n = m
  <2> SUFFICES ASSUME n # m PROVE FALSE
    OBVIOUS
  <2>1. n + 1 \in 1..m /\ (n + 1) - 1 = n /\ n \in 0..m
    BY <1>2
  <2>2. r[n].stack # <<>>
    BY <1>2, <2>1 DEF isRun
  <2>3. Len(r[n].stack) = 0
    BY <1>2, <1>8 DEF alongside, sameStacks
  <2>4. r[n].stack \in Seq(DOMAIN q)
    BY <1>5, <2>1 DEF isWithin, isSound
  <2> QED
    BY <2>2, <2>3, <2>4
<1> QED
  BY <1>1, <1>3, <1>8, <1>9, TargetsAgree

(* Complete runs with one digest, of orderly programs or without a ref.    *)
LEMMA SameDigest ==
  ASSUME NEW p, NEW s, NEW n, isDone(p, s, n), ~hasCycle(s[n].nodes),
         NEW q, NEW r, NEW m, isDone(q, r, m), ~hasCycle(r[m].nodes),
         normalizeTypeIR(s[n].nodes) = normalizeTypeIR(r[m].nodes),
         (\A i \in DOMAIN s[n].nodes : s[n].nodes[i].kind # "ref") \/ (orderly(p) /\ orderly(q))
  PROVE  sameType(p, 1, q, 1)
<1>1. PICK ir, c, g, jr, d, h : /\ ir = s[n].nodes /\ c = s[n].cache /\ g = s[n].gathered
                                /\ jr = r[m].nodes /\ d = r[m].cache /\ h = r[m].gathered
  OBVIOUS
<1>2. /\ isIR(p, ir, c, g) /\ isIR(q, jr, d, h) /\ c[1] = 1 /\ d[1] = 1 /\ 1 \in DOMAIN p /\ 1 \in DOMAIN q
      /\ n \in Nat /\ m \in Nat
  BY <1>1 DEF isDone
<1>3. PICK N : areNormal(ir, N) /\ normalizeTypeIR(ir) = N[1]
  BY <1>1, <1>2, GraphOfIR, NormalForms
<1>4. PICK M : areNormal(jr, M) /\ normalizeTypeIR(jr) = M[1]
  BY <1>1, <1>2, GraphOfIR, NormalForms
<1>5. N[1] = M[1]
  BY <1>1, <1>3, <1>4
<1>6. refsAgree(ir, N, jr, M)
  <2>1. CASE \A i \in DOMAIN ir : ir[i].kind # "ref"
    BY <2>1 DEF refsAgree
  <2>2. CASE orderly(p) /\ orderly(q)
    <3>1. CASE n <= m
      BY <1>1, <1>3, <1>4, <1>5, <2>2, <3>1, RunsAlongside
    <3>2. CASE m <= n
      <4>1. refsAgree(jr, M, ir, N)
        BY <1>1, <1>3, <1>4, <1>5, <2>2, <3>2, RunsAlongside
      <4>2. ASSUME NEW i \in DOMAIN ir, NEW k \in DOMAIN jr, ir[i].kind = "ref", jr[k].kind = "ref", N[i] = M[k]
            PROVE  N[ir[i].target] = M[jr[k].target]
        BY <4>1, <4>2 DEF refsAgree
      <4> QED
        BY <4>2 DEF refsAgree
    <3> QED
      BY <1>2, <3>1, <3>2
  <2> QED
    BY <1>1, <2>1, <2>2
<1>7. c[1] # 0 /\ d[1] # 0 /\ N[c[1]] = M[d[1]]
  BY <1>2, <1>5
<1> QED
  BY <1>2, <1>3, <1>4, <1>6, <1>7, Bisimilar

LEMMA ModulesFit == BuildInv => SharedModuleFits
<1> SUFFICES ASSUME BuildInv PROVE SharedModuleFits
  OBVIOUS
<1>1. PICK key : key = getTypeKey(program, nodes)
  OBVIOUS
<1>2. SUFFICES ASSUME extracted, ~isCyclic(nodes), key \in DOMAIN registry,
                      ~((\E i \in DOMAIN nodes : nodes[i].kind = "ref") /\ ~(orderly(program) /\ orderly(registry[key])))
               PROVE  sameType(declaration(program), 1, declaration(registry[key]), 1)
  BY <1>1 DEF SharedModuleFits
<1>3. PICK n, s : isDone(program, s, n) /\ s[n] = now
  BY <1>2, DoneNow DEF BuildInv
<1>4. s[n].nodes = nodes
  BY <1>3 DEF now
<1>5. PICK q : q = registry[key]
  OBVIOUS
<1>6. PICK m, r : isDone(q, r, m) /\ ~hasCycle(r[m].nodes) /\ key = getTypeKey(q, r[m].nodes)
  BY <1>2, <1>5 DEF BuildInv, RegistryInv, isRegistered
<1>7. normalizeTypeIR(s[n].nodes) = normalizeTypeIR(r[m].nodes)
  <2>1. getTypeKey(program, nodes).digest = normalizeTypeIR(nodes)
    BY DEF getTypeKey
  <2>2. getTypeKey(q, r[m].nodes).digest = normalizeTypeIR(r[m].nodes)
    BY DEF getTypeKey
  <2> QED
    BY <1>1, <1>4, <1>6, <2>1, <2>2
<1>8. (\A i \in DOMAIN s[n].nodes : s[n].nodes[i].kind # "ref") \/ (orderly(program) /\ orderly(q))
  BY <1>2, <1>4, <1>5
<1>9. ~hasCycle(s[n].nodes)
  BY <1>2, <1>4, NoCycle DEF BuildInv
<1>10. sameType(program, 1, q, 1)
  BY <1>3, <1>6, <1>7, <1>8, <1>9, SameDigest
<1>11. program \in Seq(PlainType) /\ q \in Seq(PlainType)
  BY <1>3, <1>6 DEF isDone, isIR
<1>12. declaration(program) = program /\ declaration(q) = q
  BY <1>11, InOrder
<1> QED
  BY <1>5, <1>10, <1>12

(* Callsites whose types get one key get one module, generated for the     *)
(* first: it fits them all, unless a type is sighted twice and one of the  *)
(* programs is not orderly.                                                *)
THEOREM SharedModulesFit == ASSUME Unnumbered PROVE Spec => []SharedModuleFits
BY BuildIsConsistent, ModulesFit, PTL
=============================================================================
