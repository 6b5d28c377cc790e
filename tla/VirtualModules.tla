--------------------------- MODULE VirtualModules ---------------------------
(***************************************************************************)
(* What identifies a generated module and what it contains: getTypeKey     *)
(* (types.ts), payloadKey (registry.ts), the payload each macro of the     *)
(* visitor builds (plugin.ts), and the sections of                         *)
(* generateVirtualModuleCode (virtualGenerator.ts).                        *)
(*                                                                         *)
(* A type is [shape, order, name]: `shape` is all that both projections of *)
(* normalizeTypeIR keep, `order` the order in which it declares its        *)
(* properties and members, which both sort away, and `name` the names of   *)
(* its nodes, which only the second keeps.  Digests stand for what they    *)
(* are computed from: fnv1a is taken to be injective.                      *)
(*                                                                         *)
(* A callsite f<T>() or f<[A, B]>() is                                     *)
(*   [macro, tuple, types, version, methods]                               *)
(* with `types` the sequence of [decl, ir] it names and `methods` what the *)
(* harvester of its protocol finds in them.                                *)
(***************************************************************************)
EXTENDS Naturals, Sequences

Anonymous == "anonymous"

-----------------------------------------------------------------------------
(* The macros, by what the visitor does for them. *)

\* Macros bound to an export of the bare type's module, by wantExport.
BareExport ==
    [keysOf |-> "keys", requiredKeysOf |-> "requiredKeys", optionalKeysOf |-> "optionalKeys",
     deepKeysOf |-> "deepKeys", jsonSchema |-> "jsonSchema_draft2020",
     schema |-> "jsonSchema_draft2020", validate |-> "validate",
     parseQuery |-> "parseQuery", is |-> "is", assert |-> "assert",
     encodeProto |-> "encodeProto", decodeProto |-> "decodeProto",
     encodeAvro |-> "encodeAvro", decodeAvro |-> "decodeAvro",
     encodeJson |-> "encodeJson", decodeJson |-> "decodeJson",
     encodeErlangText |-> "encodeErlangText", decodeErlangText |-> "decodeErlangText",
     encodeErlangBinary |-> "encodeErlangBinary", decodeErlangBinary |-> "decodeErlangBinary",
     encodeCbor |-> "encodeCbor", decodeCbor |-> "decodeCbor"]

\* Macros that register a module of their own, by registerPayload: the option
\* each fills in.
PayloadField ==
    [openapiSchema |-> "openApiTypes", openRPCSchema |-> "openRpcTypes",
     asyncapiSchema |-> "asyncApiTypes", mcpSchema |-> "mcpTypes", grpcSchema |-> "grpcTypes",
     protobufSchema |-> "protobufSchemaTypes", avroSchema |-> "avroSchemaTypes",
     arrowSchema |-> "arrowSchemaTypes", jsonSchemas |-> "jsonSchemasTypes",
     zodSchema |-> "zod", encodeArrow |-> "arrow", decodeArrow |-> "arrow"]

DocumentMacros == {"openapiSchema", "openRPCSchema", "asyncapiSchema", "mcpSchema", "grpcSchema"}
FlagFields == {"zod", "arrow"}

\* The name a rewritten callsite imports.
isDraft07(c) == c.version = "draft-07"
exportOf(c) ==
    IF c.macro \in {"jsonSchema", "schema"} /\ isDraft07(c) THEN "jsonSchema_draft07"
    ELSE IF c.macro = "jsonSchemas"
         THEN (IF isDraft07(c) THEN "jsonSchemas_draft07" ELSE "jsonSchemas_draft2020")
    ELSE IF c.macro \in DOMAIN BareExport THEN BareExport[c.macro] ELSE c.macro

\* The options a payload macro registers with; an absent service is <<>>.
payloadOf(c) ==
    [field   |-> PayloadField[c.macro],
     types   |-> IF PayloadField[c.macro] \in FlagFields THEN <<>>
                 ELSE [i \in DOMAIN c.types |-> c.types[i].ir],
     version |-> IF c.macro = "openapiSchema" THEN c.version ELSE "none",
     service |-> IF c.macro \in DocumentMacros THEN <<c.methods>> ELSE <<>>]

NoOptions == [field |-> "none", types |-> <<>>, version |-> "none", service |-> <<>>]
optionsOf(c) == IF c.macro \in DOMAIN PayloadField THEN payloadOf(c) ELSE NoOptions

-----------------------------------------------------------------------------
(* Identity. *)

normalizeTypeIR(ir, withNames) ==
    [shape |-> ir.shape, name |-> IF withNames THEN ir.name ELSE "none"]

\* The structural digest, and the declaration a named type is known by.  A
\* tuple has no symbol.
getTypeKey(c) ==
    [digest |-> <<c.tuple, [i \in DOMAIN c.types |-> normalizeTypeIR(c.types[i].ir, FALSE)]>>,
     decl   |-> IF c.tuple THEN Anonymous ELSE c.types[1].decl]

\* Payload types keyed without the names they publish.
namedTypesKey_Unnamed(types) == [i \in DOMAIN types |-> normalizeTypeIR(types[i], FALSE)]

namedTypesKey(types) == [i \in DOMAIN types |-> normalizeTypeIR(types[i], TRUE)]

\* The options payloadKey looks at; the other three fall through it.
KeyedFields == {"openApiTypes", "protobufSchemaTypes", "avroSchemaTypes", "arrowSchemaTypes",
                "grpcTypes", "jsonSchemasTypes", "arrow", "zod"}

payloadKey(o) ==
    [field   |-> IF o.field \in KeyedFields THEN o.field ELSE "none",
     types   |-> IF o.field \in KeyedFields THEN namedTypesKey(o.types) ELSE <<>>,
     version |-> o.version,
     service |-> o.service]

\* The key of the bare type for every module, as before payloads were keyed.
keyOf_TypeOnly(c) == [type |-> getTypeKey(c), payload |-> <<>>]

\* registerType's key: the bare type's, or that and the payload's.
keyOf(c) ==
    [type    |-> getTypeKey(c),
     payload |-> IF c.macro \in DOMAIN PayloadField THEN <<payloadKey(payloadOf(c))>> ELSE <<>>]

-----------------------------------------------------------------------------
(* Content. *)

\* The sections that read nothing but the type, and the names they export.
BareExports ==
    {"keys", "requiredKeys", "optionalKeys", "deepKeys", "jsonSchema_draft2020",
     "jsonSchema_draft07", "validate", "is", "assert", "parseQuery", "encodeProto", "decodeProto",
     "encodeAvro", "decodeAvro", "encodeJson", "decodeJson", "encodeErlangText",
     "decodeErlangText", "encodeErlangBinary", "decodeErlangBinary", "encodeCbor", "decodeCbor"}

\* Each optional section: the option it reads, and the names it exports.
SectionField ==
    [openapiSchema |-> "openApiTypes", openRPCSchema |-> "openRpcTypes",
     asyncapiSchema |-> "asyncApiTypes", mcpSchema |-> "mcpTypes", grpcSchema |-> "grpcTypes",
     protobufSchema |-> "protobufSchemaTypes", avroSchema |-> "avroSchemaTypes",
     arrowSchema |-> "arrowSchemaTypes", jsonSchemas_draft2020 |-> "jsonSchemasTypes",
     jsonSchemas_draft07 |-> "jsonSchemasTypes",
     zodSchema |-> "zod", encodeArrow |-> "arrow", decodeArrow |-> "arrow"]

\* A document section is emitted for any service; of the methods only
\* grpcSchema's are gRPC methods.  A schema-text section needs a type.
isEmitted(e, o) ==
    \/ o.field = SectionField[e] /\ (e \in DocumentMacros \/ o.field \in FlagFields \/ o.types # <<>>)
    \/ e \in DocumentMacros \ {"grpcSchema"} /\ o.service # <<>>

exportsOf(o) == BareExports \cup {e \in DOMAIN SectionField : isEmitted(e, o)}

\* A bare section is structural, it publishes no name - but for the $defs of
\* a JSON Schema, which are the named types within the type.
PublishesDefs == {"jsonSchema_draft2020", "jsonSchema_draft07"}
publishedIR(e, ir) ==
    [shape |-> ir.shape, order |-> ir.order, name |-> IF e \in PublishesDefs THEN ir.name ELSE "none"]

\* What the code of one export was generated from.
contentOf(e, c, o) ==
    IF e \in BareExports \/ SectionField[e] \in FlagFields
    THEN [types |-> [i \in DOMAIN c.types |-> publishedIR(e, c.types[i].ir)], version |-> "none", service |-> <<>>]
    ELSE [types   |-> IF o.field = SectionField[e] THEN o.types ELSE <<>>,
          version |-> IF e = "openapiSchema" THEN (IF o.field = "openApiTypes" THEN o.version ELSE "3.1")
                      ELSE "none",
          service |-> o.service]

generateVirtualModuleCode(c) ==
    LET o == optionsOf(c) IN [e \in exportsOf(o) |-> contentOf(e, c, o)]
=============================================================================
