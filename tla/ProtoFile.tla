---- MODULE ProtoFile ----
(***************************************************************************)
(* A .proto file: as generateGrpcSchemaCode prints it for a type that an   *)
(* rpc carries (src/src/generators/protobuf.ts), as a person would lay out *)
(* the same messages, and as extractProtoIRFromFile reads it back into     *)
(* types (src/src/extractors/proto.ts), from which a client's codec is     *)
(* generated.                                                              *)
(*                                                                         *)
(* A file is the sequence of its statements, each tagged by its keyword; a *)
(* name in it is <<"name", its parts, is it absolute>>. Comments, options  *)
(* and diagnostics are left out.                                           *)
(***************************************************************************)
EXTENDS ProtobufSchema
Seqs == INSTANCE SequencesExt
Sets == INSTANCE FiniteSetsExt

Relative(part) == <<"name", <<part>>, FALSE>>
Field(label, type, name, number) == <<"field", label, type, name, number>>

-----------------------------------------------------------------------------
Package == <<"package">>
Service == <<"service">>
Google == <<"google.protobuf">>

(* The printer. A type as a field states it: its label, and its name or a map. *)
written(type) ==
  CASE type[1] = "repeated" -> <<"repeated", Relative(type[2])>>
    [] type[1] = "map"      -> <<"", <<"map", Relative(type[2])>>>>
    [] OTHER                -> <<"", Relative(type)>>
printed(entry) == Field(written(entry[2])[1], written(entry[2])[2], entry[1], entry[3])

nameFor(t) == IF t[1] = "enum" THEN t ELSE Message(IF t[1] = "object" THEN t[2] ELSE "M")
messageBody(m) ==
  LET statement(p, entries) ==
        IF oneofFor(typeOf(p)) = NoType THEN printed(entries[1])
        ELSE <<"oneof", nameOf(p), [i \in 1..Len(entries) |-> printed(entries[i])]>>
      each(fields) == [i \in 1..Len(fields) |-> statement(fields[i], entriesOf(fields[i]))]
  IN each(fieldsOf(m))
statementFor(t) == IF t[1] = "enum" THEN <<"enum", nameFor(t), t[2]>> ELSE <<"message", nameFor(t), messageBody(t)>>

(* The named types below the root. *)
namedIn(root) == {t \in nodes(root) \ {root} : t[1] = "enum" \/ (t[1] = "object" /\ t[2] # "")}
serviceOf(root) == <<"service", Service, <<<<"rpc", Relative(nameFor(root))>>>>>>
generateGrpcSchemaCode(root) ==
  LET types == <<root>> \o Seqs!SetToSeq(namedIn(root))
  IN <<<<"package", Package>>>> \o [i \in 1..Len(types) |-> statementFor(types[i])] \o <<serviceOf(root)>>

-----------------------------------------------------------------------------
(* Files that mean the same as a printed one: all in one, as it is; the types the *)
(* root needs declared inside of it, next to others of their names that it     *)
(* does not mean; in a file that imports the first one back and declares its   *)
(* root a second time, empty; or with google's Timestamp for the one declared. *)
decoy(t) == <<"message", t[2], <<Field("", Relative(Scalar("boolean")), "decoy", 1), <<"reserved">>>>>>
googles(body) ==
  [i \in 1..Len(body) |->
     IF body[i][1] = "field" /\ body[i][3] = Relative(Message("Timestamp"))
     THEN [body[i] EXCEPT ![3] = <<"name", <<Google, Message("Timestamp")>>, TRUE>>] ELSE body[i]]

Layouts(file) ==
  LET top == file[2]
      named == SubSeq(file, 3, Len(file) - 1)
      service == file[Len(file)]
      with(body) == <<"message", top[2], body>>
  IN {[entry |-> file],
      [entry |-> <<<<"package", Package>>, service>> \o [i \in 1..Len(named) |-> decoy(named[i])]
                 \o <<with(<<<<"option">>>> \o top[3] \o named)>>],
      [entry |-> <<<<"import", "other">>, <<"package", Package>>, top, service>>,
       other |-> <<<<"package", Package>>, <<"import", "entry">>, <<"import", "google/protobuf">>, <<"import", "missing">>>>
                 \o named \o <<with(<<>>)>>],
      [entry |-> <<<<"import", "google/protobuf">>, service, with(googles(top[3]))>>
                 \o SelectSeq(named, LAMBDA t : t[2] # Message("Timestamp"))]}

-----------------------------------------------------------------------------
(* The parser. *)
keywords(body, kinds) == SelectSeq(body, LAMBDA s : s[1] \in kinds)
package(file) == LET ps == keywords(file, {"package"}) IN IF ps = <<>> THEN <<>> ELSE <<ps[Len(ps)][2]>>
fieldsAndOneofs(body) == keywords(body, {"field", "oneof"})
declarations(body) == keywords(body, {"message"}) \o keywords(body, {"enum"})

(* The files in the order of a depth-first walk, each once. Google's are not  *)
(* read, and a file that is missing is passed over.                        *)
RECURSIVE loadUnit(_, _, _)
loadUnit(files, units, path) ==
  IF path \in Seqs!ToSet(units) \/ path \notin DOMAIN files THEN units
  ELSE Seqs!FoldLeft(LAMBDA done, import : loadUnit(files, done, import[2]),
                Append(units, path), keywords(files[path], {"import"}))

-----------------------------------------------------------------------------
(* Declarations as <<full name, statement>>, outer before inner; the first one *)
(* of a name wins.                                                         *)
fqns(known) == {known[i][1] : i \in 1..Len(known)}
declarationOf(known, fqn) == known[CHOOSE i \in 1..Len(known) : known[i][1] = fqn][2]

RECURSIVE registerDeclarations(_, _, _)
registerDeclarations(known, scope, body) ==
  Seqs!FoldLeft(LAMBDA sofar, s :
             LET fqn == Append(scope, s[2])
                 more == Append(sofar, <<fqn, s>>)
             IN CASE fqn \in fqns(sofar) -> sofar
                  [] fqn \notin fqns(sofar) /\ s[1] = "message" -> registerDeclarations(more, fqn, s[3])
                  [] OTHER -> more,
           known, declarations(body))

(* The declaration a name means where it is written: the innermost; <<>> if    *)
(* there is none.                                                          *)
resolveDeclaration(known, name, scope) ==
  LET at(k) == SubSeq(scope, 1, k) \o name[2]
      hits == {k \in 0..(IF name[3] THEN 0 ELSE Len(scope)) : at(k) \in fqns(known)}
  IN IF hits = {} THEN <<>> ELSE at(Sets!Max(hits))

(* A double is what a number is; the other numbers say their width. *)
scalarIR(type) ==
  CASE type \in {"boolean", "string", "bytes"} -> Prim(type)
    [] type = "double" -> Prim("number")
    [] type \in {"int64", "uint64", "sint64", "fixed64", "sfixed64"} -> FormattedPrim("bigint", type)
    [] OTHER -> FormattedPrim("number", type)

(* The messages google.protobuf declares, by the types of their fields.    *)
wrapped(type) == <<<<"value", "", type>>>>
Moment == <<<<"seconds", "", "int64">>, <<"nanos", "", "int32">>>>
WELL_KNOWN_SOURCES ==
  [Timestamp |-> Moment, Duration |-> Moment, Empty |-> <<>>, FieldMask |-> <<<<"paths", "repeated", "string">>>>,
   DoubleValue |-> wrapped("double"), FloatValue |-> wrapped("float"), Int64Value |-> wrapped("int64"),
   UInt64Value |-> wrapped("uint64"), Int32Value |-> wrapped("int32"), UInt32Value |-> wrapped("uint32"),
   BoolValue |-> wrapped("boolean"), StringValue |-> wrapped("string"), BytesValue |-> wrapped("bytes")]
isWellKnown(path) == Len(path) = 2 /\ path[1] = Google /\ path[2][2] \in DOMAIN WELL_KNOWN_SOURCES
wellKnownDeclaration(known, path) ==
  LET of == WELL_KNOWN_SOURCES[path[2][2]]
      body == [i \in 1..Len(of) |-> Field(of[i][2], Relative(Scalar(of[i][3])), of[i][1], i)]
  IN IF path \in fqns(known) THEN known ELSE registerDeclarations(known, <<Google>>, <<<<"message", path[2], body>>>>)

(* Types are built once each, from what is declared: of <<type, context>>, the *)
(* context goes on to the next. A type met again while it is built is a ref to *)
(* its name, which is no node's id.                                        *)
RECURSIVE declarationIR(_, _, _), messageIR(_, _, _, _)
declarationIR(ctx, building, fqn) ==
  LET d == declarationOf(ctx.known, fqn)
      kept(built) == <<built[1], [built[2] EXCEPT !.types = @ @@ (fqn :> built[1])]>>
  IN CASE fqn \in DOMAIN ctx.types -> <<ctx.types[fqn], ctx>>
       [] fqn \in building \ DOMAIN ctx.types -> <<Ref(Append(fqn, <<"targetId">>)), ctx>>
       [] OTHER -> kept(IF d[1] = "enum" THEN <<Enum(d[3]), ctx>> ELSE messageIR(ctx, building \cup {fqn}, fqn, d[3]))

(* What is declared comes before what is well known, and that before unknown. *)
singularIR(ctx, building, name, scope) ==
  LET fqn == resolveDeclaration(ctx.known, name, scope)
  IN CASE name[2][1][1] = "scalar" -> <<scalarIR(name[2][1][2]), ctx>>
       [] name[2][1][1] # "scalar" /\ fqn # <<>> -> declarationIR(ctx, building, fqn)
       [] fqn = <<>> /\ isWellKnown(name[2]) ->
            declarationIR([ctx EXCEPT !.known = wellKnownDeclaration(@, name[2])], building, name[2])
       [] OTHER -> <<Prim("unknown"), ctx>>

fieldTypeIR(ctx, building, field, scope) ==
  LET type == field[3]
      of(one) == CASE type[1] = "map" -> <<RecordOf(one[1]), one[2]>>
                   [] field[2] = "repeated" -> <<ArrayOf(one[1]), one[2]>>
                   [] OTHER -> one
  IN of(singularIR(ctx, building, IF type[1] = "map" THEN type[2] ELSE type, scope))

(* A oneof is one optional property, its numbers those of its variants.    *)
messageIR(ctx, building, fqn, body) ==
  LET append(done, t) == <<Append(done[1], t[1]), t[2]>>
      each(fields, before) ==
        Seqs!FoldLeft(LAMBDA done, f : append(done, fieldTypeIR(done[2], building, f, fqn)), <<<<>>, before>>, fields)
      typed(m, types) ==
        IF m[1] = "field" THEN <<m[4], types[1], m[2] = "optional", m[5], "">>
        ELSE Optional(m[2], NumberedUnion(types, [i \in 1..Len(m[3]) |-> m[3][i][5]]), None)
      with(done, m, t) == <<Append(done, typed(m, t[1])), t[2]>>
      property(done, m) == with(done[1], m, each(IF m[1] = "field" THEN <<m>> ELSE m[3], done[2]))
      object(all) == <<Object(fqn, all[1]), all[2]>>
  IN object(Seqs!FoldLeft(property, <<<<>>, ctx>>, fieldsAndOneofs(body)))

-----------------------------------------------------------------------------
(* Everything declared is built before an rpc looks for what it carries.   *)
buildApi(files) ==
  LET units == loadUnit(files, <<>>, "entry")
      known == Seqs!FoldLeft(LAMBDA sofar, u : registerDeclarations(sofar, package(files[u]), files[u]), <<>>, units)
  IN Seqs!FoldLeft(LAMBDA ctx, d : declarationIR(ctx, {}, d[1])[2], [known |-> known, types |-> <<>>], known)

(* A message, and no well-known one that no field has named before.        *)
payloadIR(ctx, name, scope) ==
  LET fqn == resolveDeclaration(ctx.known, name, scope)
  IN IF fqn # <<>> /\ declarationOf(ctx.known, fqn)[1] = "message" THEN ctx.types[fqn] ELSE Prim("unknown")

(* What the first rpc of the entry file carries.                           *)
carriedBy(files) ==
  LET service == keywords(files.entry, {"service"})[1]
  IN payloadIR(buildApi(files), service[3][1][2], Append(package(files.entry), service[2]))
====
