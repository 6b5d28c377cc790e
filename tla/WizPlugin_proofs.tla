--------------------------- MODULE WizPlugin_proofs ---------------------------
(***************************************************************************)
(* Theorems about the build: for every program, however its files are      *)
(* loaded, transformed and edited.                                         *)
(***************************************************************************)
EXTENDS WizPlugin, TLAPS

-----------------------------------------------------------------------------
(* What a key decides. *)

(* A callsite as registerType sees it: its types are resolved. *)
IsResolved(c) ==
    /\ c.macro \in DOMAIN BareExport \cup DOMAIN PayloadField
    /\ c.tuple = TRUE \/ 1 \in DOMAIN c.types

(* A macro that is bound to the bare type's module asks for an export that *)
(* every module has.                                                       *)
LEMMA BareNames ==
    ASSUME NEW c, c.macro \in DOMAIN BareExport
    PROVE  exportOf(c) \in BareExports
BY DEF BareExport, exportOf, BareExports, isDraft07

(* A macro with a payload asks for an export of the section that reads it. *)
LEMMA PayloadNames ==
    ASSUME NEW c, c.macro \in DOMAIN PayloadField
    PROVE  /\ exportOf(c) \in DOMAIN SectionField
           /\ SectionField[exportOf(c)] = PayloadField[c.macro]
           /\ exportOf(c) \notin BareExports
           /\ c.macro \in DocumentMacros <=> exportOf(c) \in DocumentMacros
           /\ c.macro \notin DOMAIN BareExport
BY DEF PayloadField, BareExport, exportOf, SectionField, BareExports, isDraft07, DocumentMacros

(* Callsites with one key have one payload key, or neither has a payload.  *)
LEMMA OnePayload ==
    ASSUME NEW c, NEW d, IsResolved(c), IsResolved(d), keyOf(c) = keyOf(d),
           c.macro \in DOMAIN PayloadField
    PROVE  d.macro \in DOMAIN PayloadField /\ payloadKey(payloadOf(c)) = payloadKey(payloadOf(d))
<1>1. keyOf(c).payload = keyOf(d).payload
  OBVIOUS
<1>2. keyOf(c).payload = <<payloadKey(payloadOf(c))>>
  BY DEF keyOf
<1>3. d.macro \in DOMAIN PayloadField
  BY <1>1, <1>2 DEF keyOf
<1>4. keyOf(d).payload = <<payloadKey(payloadOf(d))>>
  BY <1>3 DEF keyOf
<1>5. QED
  BY <1>1, <1>2, <1>3, <1>4

(* The three options that payloadKey drops. *)
LEMMA Unkeyed ==
    ASSUME NEW c, c.macro \in DOMAIN PayloadField, PayloadField[c.macro] \notin KeyedFields
    PROVE  c.macro \in DocumentMacros \ {"grpcSchema"}
           /\ exportOf(c) \in {"openRPCSchema", "asyncapiSchema", "mcpSchema"}
BY DEF PayloadField, KeyedFields, DocumentMacros, exportOf, BareExport

(* A callsite without a type is one of an empty tuple. *)
LEMMA NoTypesNoTuple ==
    ASSUME NEW c, IsResolved(c), DOMAIN c.types = {}
    PROVE  getTypeKey(c) = EmptyTuple
<1> DEFINE shapes == [i \in DOMAIN c.types |-> normalizeTypeIR(c.types[i].ir, FALSE)]
<1>1. shapes = <<>>
  OBVIOUS
<1>2. c.tuple = TRUE
  BY DEF IsResolved
<1>3. getTypeKey(c) = [digest |-> <<c.tuple, shapes>>, decl |-> IF c.tuple THEN Anonymous ELSE c.types[1].decl]
  BY DEF getTypeKey
<1>4. QED
  BY <1>1, <1>2, <1>3 DEF EmptyTuple

(* The module registered under a key exports whatever any callsite with    *)
(* that key imports, though it was generated for another one; only the     *)
(* schema text of an empty tuple is in no module.                          *)
LEMMA KeyHasExport ==
    ASSUME NEW c, NEW d, IsResolved(c), IsResolved(d), keyOf(c) = keyOf(d)
    PROVE  \/ exportOf(c) \in DOMAIN generateVirtualModuleCode(d)
           \/ keyOf(c).type = EmptyTuple /\ exportOf(c) \in SchemaTexts
<1>1. DOMAIN generateVirtualModuleCode(d) = exportsOf(optionsOf(d))
  BY DEF generateVirtualModuleCode
<1>2. CASE c.macro \in DOMAIN BareExport
  BY <1>1, <1>2, BareNames DEF exportsOf
<1>3. CASE c.macro \in DOMAIN PayloadField
  <2> DEFINE e == exportOf(c)
  <2>1. /\ e \in DOMAIN SectionField /\ SectionField[e] = PayloadField[c.macro]
        /\ c.macro \in DocumentMacros <=> e \in DocumentMacros
    BY <1>3, PayloadNames
  <2>2. d.macro \in DOMAIN PayloadField /\ payloadKey(payloadOf(c)) = payloadKey(payloadOf(d))
    BY <1>3, OnePayload
  <2>3. optionsOf(d) = payloadOf(d)
    BY <2>2 DEF optionsOf
  <2>4. CASE PayloadField[c.macro] \in KeyedFields
    <3>1. payloadOf(c).field = PayloadField[c.macro] /\ payloadOf(d).field = PayloadField[d.macro]
      BY DEF payloadOf
    <3>2. "none" \notin KeyedFields
      BY DEF KeyedFields
    <3>3. payloadKey(payloadOf(c)).field = PayloadField[c.macro]
      BY <2>4, <3>1 DEF payloadKey
    <3>4. payloadOf(d).field = SectionField[e]
      BY <2>1, <2>2, <2>4, <3>1, <3>2, <3>3 DEF payloadKey
    <3>5. CASE SectionField[e] \in FlagFields \/ e \in DocumentMacros \/ payloadOf(d).types # <<>>
      <4>1. isEmitted(e, payloadOf(d))
        BY <3>4, <3>5 DEF isEmitted
      <4>2. QED
        BY <1>1, <2>1, <2>3, <4>1 DEF exportsOf
    <3>6. CASE SectionField[e] \notin FlagFields /\ e \notin DocumentMacros /\ payloadOf(d).types = <<>>
      <4>1. payloadOf(d).types = [i \in DOMAIN d.types |-> d.types[i].ir]
        BY <2>1, <3>1, <3>4, <3>6 DEF payloadOf
      <4>2. DOMAIN d.types = {}
        BY <3>6, <4>1
      <4>3. keyOf(c).type = EmptyTuple
        BY <4>2, NoTypesNoTuple DEF keyOf
      <4>4. e \in SchemaTexts
        BY <2>1, <3>6 DEF SectionField, FlagFields, DocumentMacros, SchemaTexts
      <4>5. QED
        BY <4>3, <4>4
    <3>7. QED
      BY <3>5, <3>6
  <2>5. CASE PayloadField[c.macro] \notin KeyedFields
    <3>1. c.macro \in DocumentMacros \ {"grpcSchema"} /\ e \in DocumentMacros \ {"grpcSchema"}
      BY <1>3, <2>5, <2>1, Unkeyed
    <3>2. payloadOf(c).service = <<c.methods>>
      BY <3>1 DEF payloadOf
    <3>3. payloadOf(d).service = <<c.methods>>
      BY <2>2, <3>2 DEF payloadKey
    <3>4. isEmitted(e, payloadOf(d))
      BY <3>1, <3>3 DEF isEmitted
    <3>5. QED
      BY <1>1, <2>1, <2>3, <3>4 DEF exportsOf
  <2>6. QED
    BY <2>4, <2>5
<1>4. QED
  BY <1>2, <1>3 DEF IsResolved
(* Callsites with one key have types of the same shapes. *)
LEMMA OneDigest ==
    ASSUME NEW c, NEW d, keyOf(c) = keyOf(d)
    PROVE  /\ DOMAIN c.types = DOMAIN d.types
           /\ \A i \in DOMAIN c.types : c.types[i].ir.shape = d.types[i].ir.shape
<1> DEFINE shapes(x) == [i \in DOMAIN x.types |-> normalizeTypeIR(x.types[i].ir, FALSE)]
<1>1. getTypeKey(c).digest = getTypeKey(d).digest
  BY DEF keyOf
<1>2. shapes(c) = shapes(d)
  BY <1>1 DEF getTypeKey
<1>3. DOMAIN shapes(c) = DOMAIN c.types /\ DOMAIN shapes(d) = DOMAIN d.types
  OBVIOUS
<1>4. \A i \in DOMAIN c.types : shapes(c)[i].shape = c.types[i].ir.shape
  BY DEF normalizeTypeIR
<1>5. \A i \in DOMAIN d.types : shapes(d)[i].shape = d.types[i].ir.shape
  BY DEF normalizeTypeIR
<1>6. QED
  BY <1>2, <1>3, <1>4, <1>5

(* What PublishedFits compares. *)
LEMMA SamePublished ==
    ASSUME NEW x, NEW y, namesAndShapes(x.types) = namesAndShapes(y.types),
           x.version = y.version, x.service = y.service
    PROVE  unordered(x) = unordered(y)
BY DEF unordered

(* The types of a section that is named after nothing, projected.          *)
LEMMA StructuralSection ==
    ASSUME NEW c, IsResolved(c), NEW e, e \notin PublishesDefs, NEW o,
           e \in BareExports \/ SectionField[e] \in FlagFields
    PROVE  /\ namesAndShapes(contentOf(e, c, o).types)
                = [i \in DOMAIN c.types |-> [shape |-> c.types[i].ir.shape, name |-> "none"]]
           /\ contentOf(e, c, o).version = "none" /\ contentOf(e, c, o).service = <<>>
<1> DEFINE published == [i \in DOMAIN c.types |-> publishedIR(e, c.types[i].ir)]
<1>1. contentOf(e, c, o) = [types |-> published, version |-> "none", service |-> <<>>]
  BY DEF contentOf
<1>2. \A i \in DOMAIN c.types :
        normalizeTypeIR(publishedIR(e, c.types[i].ir), TRUE) = [shape |-> c.types[i].ir.shape, name |-> "none"]
  BY DEF normalizeTypeIR, publishedIR
<1>3. namesAndShapes(published) = [i \in DOMAIN c.types |-> [shape |-> c.types[i].ir.shape, name |-> "none"]]
  BY <1>2 DEF namesAndShapes
<1> HIDE DEF published
<1>4. QED
  BY <1>1, <1>3

(* What payloadKey does not look at: the exports PublishedFits excepts.    *)
Excepted == {"openRPCSchema", "asyncapiSchema", "mcpSchema"} \cup PublishesDefs

(* The module registered under a key publishes what any callsite with that *)
(* key asks for, though it was generated for another one.                  *)
LEMMA KeyPublishes ==
    ASSUME NEW c, NEW d, IsResolved(c), IsResolved(d), keyOf(c) = keyOf(d),
           exportOf(c) \notin Excepted,
           exportOf(c) \in DOMAIN generateVirtualModuleCode(c),
           exportOf(c) \in DOMAIN generateVirtualModuleCode(d)
    PROVE  unordered(generateVirtualModuleCode(d)[exportOf(c)])
             = unordered(generateVirtualModuleCode(c)[exportOf(c)])
<1> DEFINE e == exportOf(c)
<1>1. e \in DOMAIN generateVirtualModuleCode(c) /\ e \in DOMAIN generateVirtualModuleCode(d)
  OBVIOUS
<1>2. /\ generateVirtualModuleCode(c)[e] = contentOf(e, c, optionsOf(c))
      /\ generateVirtualModuleCode(d)[e] = contentOf(e, d, optionsOf(d))
  BY <1>1 DEF generateVirtualModuleCode
<1>3. CASE e \in BareExports \/ SectionField[e] \in FlagFields
  <2>1. e \notin PublishesDefs
    BY DEF Excepted
  <2> DEFINE structural(x) == [i \in DOMAIN x.types |-> [shape |-> x.types[i].ir.shape, name |-> "none"]]
  <2>2. structural(c) = structural(d)
    BY OneDigest
  <2>3. ASSUME NEW x, IsResolved(x)
        PROVE  /\ namesAndShapes(contentOf(e, x, optionsOf(x)).types) = structural(x)
               /\ contentOf(e, x, optionsOf(x)).version = "none"
               /\ contentOf(e, x, optionsOf(x)).service = <<>>
    <3> HIDE DEF e
    <3>1. QED
      BY <1>3, <2>1, <2>3, StructuralSection
  <2> HIDE DEF structural, e
  <2>4. namesAndShapes(contentOf(e, c, optionsOf(c)).types) = namesAndShapes(contentOf(e, d, optionsOf(d)).types)
    BY <2>2, <2>3
  <2>5. /\ contentOf(e, c, optionsOf(c)).version = contentOf(e, d, optionsOf(d)).version
        /\ contentOf(e, c, optionsOf(c)).service = contentOf(e, d, optionsOf(d)).service
    BY <2>3
  <2>6. unordered(contentOf(e, c, optionsOf(c))) = unordered(contentOf(e, d, optionsOf(d)))
    BY <2>4, <2>5, SamePublished
  <2>7. QED
    BY <1>2, <2>6 DEF e
<1>4. CASE ~(e \in BareExports \/ SectionField[e] \in FlagFields)
  <2>1. c.macro \in DOMAIN PayloadField
    BY <1>4, BareNames DEF IsResolved
  <2>2. e \in DOMAIN SectionField /\ SectionField[e] = PayloadField[c.macro]
    BY <2>1, PayloadNames
  <2>3. PayloadField[c.macro] \in KeyedFields
    BY <2>1, Unkeyed DEF Excepted
  <2>4. d.macro \in DOMAIN PayloadField /\ payloadKey(payloadOf(c)) = payloadKey(payloadOf(d))
    BY <2>1, OnePayload
  <2>5. optionsOf(c) = payloadOf(c) /\ optionsOf(d) = payloadOf(d)
    BY <2>1, <2>4 DEF optionsOf
  <2> DEFINE p == payloadOf(c)
             q == payloadOf(d)
  <2>6. p.field = SectionField[e]
    BY <2>2 DEF payloadOf
  <2>7. q.field = p.field
    BY <2>2, <2>3, <2>4, <2>6 DEF payloadKey, KeyedFields
  <2>8. namedTypesKey(p.types) = namedTypesKey(q.types) /\ p.version = q.version /\ p.service = q.service
    BY <2>2, <2>3, <2>4, <2>6, <2>7 DEF payloadKey
  <2>9. /\ contentOf(e, c, p).types = p.types /\ contentOf(e, d, q).types = q.types
        /\ contentOf(e, c, p) = [types |-> p.types, version |-> contentOf(e, c, p).version, service |-> p.service]
        /\ contentOf(e, d, q) = [types |-> q.types, version |-> contentOf(e, d, q).version, service |-> q.service]
        /\ contentOf(e, c, p).version = contentOf(e, d, q).version
    BY <1>4, <2>6, <2>7, <2>8 DEF contentOf
  <2>10. namesAndShapes(p.types) = namesAndShapes(q.types)
    BY <2>8 DEF namesAndShapes, namedTypesKey
  <2>11. unordered(contentOf(e, c, p)) = unordered(contentOf(e, d, q))
    BY <2>8, <2>9, <2>10, SamePublished
  <2>12. QED
    BY <1>2, <2>5, <2>11
<1>5. QED
  BY <1>3, <1>4

-----------------------------------------------------------------------------
(* Types. *)

(* A program of a transform, and the records that steps change in part. *)
TransformTyped ==
    /\ transform = [file |-> transform.file, seen |-> transform.seen, next |-> transform.next,
                    imports |-> transform.imports, docs |-> transform.docs]
    /\ transform # Idle =>
         /\ transform.file \in SourceFiles
         /\ DOMAIN transform.seen = Files
         /\ \A g \in Files : transform.seen[g] \in SourcesOf(g)
         /\ transform.next \in Nat /\ transform.next >= 1

(* No version is newer than the file, and no file than its edits. *)
VersionsTyped ==
    /\ \A f \in Files : disk[f].version <= edits + 1
    /\ \A l \in loading : l[2].version <= disk[l[1]].version
    /\ \A f \in DeclarationFiles : declarationFileCache[f].version <= disk[f].version
    /\ transform # Idle => \A g \in Files : transform.seen[g].version <= disk[g].version

Typed == TypeOK /\ TransformTyped /\ VersionsTyped

(* reachable stays within the program. *)
LEMMA ReachableFiles == \A f, sources : reachable(f, sources) \subseteq Files
BY DEF reachable

(* The callsite a transform has come to, resolved. *)
LEMMA CallsResolve ==
    ASSUME Typed, atCall, thisCall.macro # "openapiDocument"
    PROVE  IsResolved(resolved(thisCall, transform.seen))
<1> DEFINE text == transform.seen[transform.file].text
<1>1. text \in Texts[transform.file] /\ transform.file \in Files
  BY DEF Typed, TransformTyped, atCall, SourceFiles, SourcesOf
<1>2. text.calls \in Seq({text.calls[i] : i \in DOMAIN text.calls})
  BY <1>1, TextsAssumption
<1>3. transform.next \in DOMAIN text.calls
  BY <1>2 DEF Typed, TransformTyped, atCall
<1>4. IsCall(thisCall)
  <2>1. \A i \in DOMAIN text.calls : text.calls[i] = [macro |-> "openapiDocument"] \/ IsCall(text.calls[i])
    BY <1>1, TextsAssumption
  <2>2. thisCall = text.calls[transform.next]
    BY DEF thisCall
  <2> HIDE DEF text
  <2>3. thisCall = [macro |-> "openapiDocument"] \/ IsCall(thisCall)
    BY <1>3, <2>1, <2>2
  <2>4. QED
    BY <2>3
<1>5. thisCall.tuple = TRUE \/ 1 \in DOMAIN thisCall.types
  BY <1>4 DEF IsCall
<1> DEFINE c == thisCall
           types == [i \in DOMAIN c.types |-> [decl |-> c.types[i], ir |-> transform.seen[c.types[i]].text.ir]]
<1>6. resolved(c, transform.seen) = [c EXCEPT !.types = types]
  BY DEF resolved
<1>7. /\ [c EXCEPT !.types = types].macro = c.macro /\ [c EXCEPT !.types = types].types = types
      /\ [c EXCEPT !.types = types].tuple = c.tuple
  <2>1. c = [macro |-> c.macro, tuple |-> c.tuple, types |-> c.types,
             version |-> c.version, methods |-> c.methods]
    BY <1>4 DEF IsCall
  <2> HIDE DEF types, c
  <2>2. QED
    BY <2>1
<1>8. QED
  BY <1>4, <1>5, <1>6, <1>7 DEF IsResolved, IsCall

(* Nothing is read before a build. *)
LEMMA InitTyped == Init => Typed
<1> SUFFICES ASSUME Init PROVE Typed
  OBVIOUS
<1>1. \A f \in Files : disk[f] \in SourcesOf(f) /\ disk[f].version = 1
  <2> TAKE f \in Files
  <2>1. disk[f] \in UNION {{[version |-> 1, text |-> t] : t \in Texts[g]} : g \in Files}
    BY DEF Init
  <2>2. PICK g \in Files : \E t \in Texts[g] : disk[f] = [version |-> 1, text |-> t]
    BY <2>1
  <2>3. disk[f].text \in Texts[f]
    BY DEF Init
  <2>4. QED
    BY <2>2, <2>3, FilesAssumption DEF SourcesOf
<1>2. NoFile \notin Files
  BY FilesAssumption
<1>3. TypeOK
  <2>1. DiskTyped /\ LoadingTyped
    BY <1>1, FilesAssumption DEF Init, DiskTyped, LoadingTyped
  <2>2. CacheTyped /\ HarvestTyped
    BY DEF Init, CacheTyped, HarvestTyped
  <2>3. FileTyped /\ OutputTyped
    BY FilesAssumption DEF Init, FileTyped, OutputTyped, NoOutput, Idle
  <2>4. QED
    BY <2>1, <2>2, <2>3 DEF TypeOK
<1>4. TransformTyped
  BY DEF Init, TransformTyped, Idle
<1>5. VersionsTyped
  BY <1>1, FilesAssumption DEF Init, VersionsTyped, NotRead
<1>6. QED
  BY <1>3, <1>4, <1>5 DEF Typed

(* A part whose variables a step leaves alone keeps its type. *)
LEMMA Kept ==
    /\ DiskTyped /\ UNCHANGED <<disk, edits>> => DiskTyped'
    /\ LoadingTyped /\ UNCHANGED loading => LoadingTyped'
    /\ CacheTyped /\ UNCHANGED declarationFileCache => CacheTyped'
    /\ HarvestTyped /\ UNCHANGED harvestCache => HarvestTyped'
    /\ FileTyped /\ UNCHANGED transform => FileTyped'
    /\ OutputTyped /\ UNCHANGED output => OutputTyped'
    /\ TransformTyped /\ UNCHANGED transform => TransformTyped'
    /\ VersionsTyped /\ UNCHANGED <<disk, edits, loading, declarationFileCache, transform>> => VersionsTyped'
<1>1. DiskTyped /\ UNCHANGED <<disk, edits>> => DiskTyped'
  BY DEF DiskTyped
<1>2. LoadingTyped /\ UNCHANGED loading => LoadingTyped'
  BY DEF LoadingTyped
<1>3. CacheTyped /\ UNCHANGED declarationFileCache => CacheTyped'
  BY DEF CacheTyped
<1>4. HarvestTyped /\ UNCHANGED harvestCache => HarvestTyped'
  BY DEF HarvestTyped
<1>5. FileTyped /\ UNCHANGED transform => FileTyped'
  BY DEF FileTyped
<1>6. OutputTyped /\ UNCHANGED output => OutputTyped'
  BY DEF OutputTyped
<1>7. TransformTyped /\ UNCHANGED transform => TransformTyped'
  BY DEF TransformTyped
<1>8. VersionsTyped /\ UNCHANGED <<disk, edits, loading, declarationFileCache, transform>> => VersionsTyped'
  BY DEF VersionsTyped
<1>9. QED
  BY <1>1, <1>2, <1>3, <1>4, <1>5, <1>6, <1>7, <1>8

(* Somebody edits a file: only its version grows. *)
LEMMA EditTyped ==
    ASSUME Typed, NEW f \in Files, NEW t \in Texts[f], Edit(f, t)
    PROVE  /\ Typed'
           /\ \A g \in Files : disk[g].version <= disk'[g].version
<1>1. /\ DiskTyped /\ edits \in 0..MaxEdits /\ edits < MaxEdits /\ MaxEdits \in Nat
      /\ disk[f].version \in Nat /\ disk[f].version <= edits + 1
  BY FilesAssumption DEF TypeOK, Typed, VersionsTyped, DiskTyped, Edit, SourcesOf
<1>2. \A g \in Files : disk'[g] = IF g = f THEN [version |-> disk[f].version + 1, text |-> t] ELSE disk[g]
  BY <1>1 DEF Edit, DiskTyped
<1>3. edits' = edits + 1
  BY DEF Edit
<1>4. DiskTyped'
  <2>1. disk' \in [Files -> {disk'[g] : g \in Files}]
    BY <1>1 DEF Edit, DiskTyped
  <2>2. \A g \in Files : disk'[g] \in SourcesOf(g)
    <3> TAKE g \in Files
    <3>1. CASE g = f
      <4>1. disk[f].version + 1 \in 1..MaxEdits + 1
        BY <1>1
      <4>2. QED
        BY <1>2, <3>1, <4>1 DEF SourcesOf
    <3>2. CASE g # f
      BY <1>1, <1>2, <3>2 DEF DiskTyped
    <3>3. QED
      BY <3>1, <3>2
  <2>3. edits' \in 0..MaxEdits
    BY <1>1, <1>3
  <2>4. QED
    BY <2>1, <2>2, <2>3 DEF DiskTyped
<1>5. \A g \in Files : disk[g].version \in Nat /\ disk'[g].version \in Nat
                         /\ disk[g].version <= disk'[g].version /\ disk'[g].version <= edits' + 1
  <2> TAKE g \in Files
  <2>1. disk[g].version \in Nat /\ disk[g].version <= edits + 1
    BY <1>1 DEF DiskTyped, SourcesOf, Typed, VersionsTyped
  <2>2. CASE g = f
    BY <1>1, <1>2, <1>3, <2>1, <2>2
  <2>3. CASE g # f
    BY <1>1, <1>2, <1>3, <2>1, <2>3
  <2>4. QED
    BY <2>2, <2>3
<1>6. TypeOK'
  BY <1>4, Kept DEF Typed, TypeOK, Edit
<1>7. VersionsTyped'
  <2>1. \A l \in loading' : l[2].version <= disk'[l[1]].version
    <3> TAKE l \in loading'
    <3>1. l \in loading /\ l[1] \in Files /\ l[2].version \in Nat /\ l[2].version <= disk[l[1]].version
      BY DEF TypeOK, Edit, Typed, LoadingTyped, VersionsTyped, SourceFiles, SourcesOf
    <3>2. QED
      BY <1>5, <3>1
  <2>2. \A g \in DeclarationFiles : declarationFileCache'[g].version <= disk'[g].version
    <3> TAKE g \in DeclarationFiles
    <3>1. g \in Files /\ declarationFileCache[g].version <= disk[g].version
      BY FilesAssumption DEF Typed, VersionsTyped
    <3>2. declarationFileCache[g].version \in Nat
      BY DEF TypeOK, Typed, CacheTyped, NotRead, SourcesOf
    <3>3. QED
      BY <1>5, <3>1, <3>2 DEF Edit
  <2>3. transform' # Idle => \A g \in Files : transform'.seen[g].version <= disk'[g].version
    <3> SUFFICES ASSUME transform # Idle, NEW g \in Files PROVE transform.seen[g].version <= disk'[g].version
      BY DEF Edit
    <3>1. transform.seen[g].version \in Nat /\ transform.seen[g].version <= disk[g].version
      BY DEF Typed, TransformTyped, VersionsTyped, SourcesOf
    <3>2. QED
      BY <1>5, <3>1
  <2>4. QED
    BY <1>5, <2>1, <2>2, <2>3 DEF VersionsTyped
<1>8. TransformTyped'
  BY Kept DEF Typed, Edit
<1>9. QED
  BY <1>5, <1>6, <1>7, <1>8 DEF Typed

(* Bun reads a file. *)
LEMMA ReadTyped ==
    ASSUME Typed, NEW f \in SourceFiles, Read(f)
    PROVE  Typed'
<1>1. f \in Files /\ disk[f] \in SourcesOf(f) /\ disk[f].version \in Nat
  BY DEF Typed, TypeOK, DiskTyped, SourceFiles, SourcesOf
<1>2. LoadingTyped'
  BY <1>1 DEF Read, Typed, TypeOK, LoadingTyped
<1>3. VersionsTyped'
  BY <1>1 DEF Read, Typed, VersionsTyped
<1>4. QED
  BY <1>2, <1>3, Kept DEF Typed, TypeOK, Read

(* A text that is passed through. *)
LEMMA PassThroughTyped ==
    ASSUME Typed, NEW l \in loading, PassThrough(l[1], l[2])
    PROVE  Typed'
<1>1. l[1] \in SourceFiles /\ l[2] \in SourcesOf(l[1])
  BY DEF Typed, TypeOK, LoadingTyped
<1>2. LoadingTyped'
  BY DEF PassThrough, Typed, TypeOK, LoadingTyped
<1>3. HarvestTyped'
  BY DEF PassThrough, invalidateHarvest, Typed, TypeOK, HarvestTyped
<1>4. OutputTyped'
  <2>1. l[2].version \in 0..MaxEdits + 1
    BY <1>1, FilesAssumption DEF SourcesOf
  <2>2. [NoOutput EXCEPT !.version = l[2].version].version = l[2].version
    BY DEF NoOutput
  <2>3. output' = [output EXCEPT ![l[1]] = [NoOutput EXCEPT !.version = l[2].version]]
    BY DEF PassThrough
  <2>4. QED
    BY <1>1, <2>1, <2>2, <2>3 DEF Typed, TypeOK, OutputTyped
<1>5. VersionsTyped'
  BY DEF PassThrough, Typed, VersionsTyped
<1>6. QED
  BY <1>2, <1>3, <1>4, <1>5, Kept DEF Typed, TypeOK, PassThrough

(* What programSources gives a transform, file by file. *)
LEMMA SourcesSeen ==
    ASSUME Typed, NEW f \in SourceFiles, NEW contents \in SourcesOf(f), contents.version <= disk[f].version,
           NEW g \in Files
    PROVE  /\ programSources(f, contents)[g] \in SourcesOf(g)
           /\ programSources(f, contents)[g].version <= disk[g].version
<1>1. disk[g] \in SourcesOf(g) /\ disk[g].version \in Nat
  BY DEF Typed, TypeOK, DiskTyped, SourcesOf
<1>2. g \in DeclarationFiles =>
        declarationFileCache[g].version <= disk[g].version /\
        (declarationFileCache[g] = NotRead \/ declarationFileCache[g] \in SourcesOf(g))
  BY DEF Typed, TypeOK, CacheTyped, VersionsTyped
<1>3. QED
  BY <1>1, <1>2 DEF programSources

(* A transform begins. *)
LEMMA BeginTyped ==
    ASSUME Typed, NEW l \in loading, Begin(l[1], l[2])
    PROVE  Typed'
<1> DEFINE f == l[1]
           contents == l[2]
           seen == programSources(f, contents)
<1>1. /\ f \in SourceFiles /\ contents \in SourcesOf(f) /\ contents.version <= disk[f].version
      /\ f \in Files /\ f # NoFile
  BY FilesAssumption DEF Typed, TypeOK, LoadingTyped, VersionsTyped, SourceFiles
<1>2. \A g \in Files : seen[g] \in SourcesOf(g) /\ seen[g].version <= disk[g].version
  BY <1>1, SourcesSeen
<1>3. DOMAIN seen = Files
  BY DEF programSources
<1> HIDE DEF f, contents, seen
<1>4. transform' = [file |-> f, seen |-> seen, next |-> 1, imports |-> {}, docs |-> {}]
  BY DEF Begin, Idle, f, contents, seen
<1>5. \A g \in DeclarationFiles :
        declarationFileCache'[g] = seen[g] \/ declarationFileCache'[g] = declarationFileCache[g]
  BY DEF Begin, f, contents, seen
<1>6. LoadingTyped'
  BY DEF Begin, Typed, TypeOK, LoadingTyped
<1>7. HarvestTyped'
  BY DEF Begin, invalidateHarvest, Typed, TypeOK, HarvestTyped
<1>8. CacheTyped'
  <2>1. \A g \in DeclarationFiles :
          declarationFileCache'[g] = NotRead \/ declarationFileCache'[g] \in SourcesOf(g)
    BY <1>2, <1>5, FilesAssumption DEF Typed, TypeOK, CacheTyped
  <2>2. declarationFileCache' \in [DeclarationFiles -> {declarationFileCache'[g] : g \in DeclarationFiles}]
    BY DEF Begin
  <2>3. QED
    BY <2>1, <2>2 DEF CacheTyped
<1>9. FileTyped'
  BY <1>1, <1>4 DEF FileTyped
<1>10. TransformTyped'
  BY <1>1, <1>2, <1>3, <1>4 DEF TransformTyped
<1>11. VersionsTyped'
  <2>1. UNCHANGED <<disk, edits>> /\ loading' \subseteq loading
    BY DEF Begin
  <2>2. \A g \in DeclarationFiles : declarationFileCache'[g].version <= disk[g].version
    BY <1>2, <1>5, FilesAssumption DEF Typed, VersionsTyped
  <2>3. \A g \in Files : transform'.seen[g].version <= disk[g].version
    BY <1>2, <1>4
  <2>4. QED
    BY <2>1, <2>2, <2>3 DEF Typed, VersionsTyped
<1>12. DiskTyped' /\ OutputTyped'
  BY Kept DEF Begin, Typed, TypeOK
<1>13. QED
  BY <1>6, <1>7, <1>8, <1>9, <1>10, <1>11, <1>12 DEF Typed, TypeOK

(* A step of a transform that goes on: the program and the file stay.      *)
GoesOn(imports, docs) ==
    transform' = [file |-> transform.file, seen |-> transform.seen, next |-> transform.next + 1,
                  imports |-> imports, docs |-> docs]

LEMMA GoesOnTyped ==
    ASSUME Typed, transform # Idle, NEW imports, NEW docs, GoesOn(imports, docs),
           UNCHANGED <<disk, edits, loading, declarationFileCache, output>>, HarvestTyped'
    PROVE  Typed' /\ transform' # Idle
<1>1. transform.file \in SourceFiles /\ transform.file # NoFile
  BY DEF Typed, TypeOK, FileTyped
<1>2. FileTyped' /\ transform' # Idle
  BY <1>1 DEF GoesOn, FileTyped, Idle
<1>3. TransformTyped'
  BY <1>1, <1>2 DEF GoesOn, Typed, TransformTyped
<1>4. VersionsTyped'
  BY DEF GoesOn, Typed, VersionsTyped
<1>5. QED
  BY <1>2, <1>3, <1>4, Kept DEF Typed, TypeOK

(* A callsite is rewritten. *)
LEMMA VisitCallGoesOn ==
    ASSUME Typed, VisitCall
    PROVE  GoesOn(transform.imports \cup {importOf(resolved(thisCall, transform.seen))}, transform.docs)
<1> DEFINE i == importOf(resolved(thisCall, transform.seen))
<1>1. transform' = [transform EXCEPT !.next = @ + 1, !.imports = @ \cup {i}]
  BY DEF VisitCall
<1>2. transform = [file |-> transform.file, seen |-> transform.seen, next |-> transform.next,
                   imports |-> transform.imports, docs |-> transform.docs]
  BY DEF Typed, TransformTyped
<1> HIDE DEF i
<1>3. QED
  BY <1>1, <1>2 DEF GoesOn, i

LEMMA VisitDocumentGoesOn ==
    ASSUME Typed, VisitDocument
    PROVE  GoesOn(transform.imports, transform.docs \cup {harvestDocument(transform.file)})
<1> DEFINE d == harvestDocument(transform.file)
<1>1. transform' = [transform EXCEPT !.next = @ + 1, !.docs = @ \cup {d}]
  BY DEF VisitDocument
<1>2. transform = [file |-> transform.file, seen |-> transform.seen, next |-> transform.next,
                   imports |-> transform.imports, docs |-> transform.docs]
  BY DEF Typed, TransformTyped
<1> HIDE DEF d
<1>3. QED
  BY <1>1, <1>2 DEF GoesOn, d

(* A transform ends, and its file has another output. *)
LEMMA EndTyped ==
    ASSUME Typed, transform # Idle, transform' = Idle, NEW o, o.version \in 0..MaxEdits + 1,
           output' = [output EXCEPT ![transform.file] = o],
           UNCHANGED <<disk, edits, loading, declarationFileCache, harvestCache>>
    PROVE  Typed'
<1>1. OutputTyped'
  BY DEF Typed, TypeOK, OutputTyped
<1>2. FileTyped' /\ TransformTyped'
  BY DEF FileTyped, TransformTyped, Idle
<1>3. VersionsTyped'
  BY DEF Typed, VersionsTyped
<1>4. QED
  BY <1>1, <1>2, <1>3, Kept DEF Typed, TypeOK

(* What Finish leaves behind for the file. *)
Finished ==
    [version |-> transform.seen[transform.file].version,
     imports |-> transform.imports,
     docs    |-> transform.docs,
     seen    |-> [g \in reachable(transform.file, transform.seen) |-> transform.seen[g].version]]

(* Every step keeps the types. *)
LEMMA NextTyped == Typed /\ [Next]_vars => Typed'
<1> SUFFICES ASSUME Typed, [Next]_vars PROVE Typed'
  OBVIOUS
<1>1. CASE \E f \in Files : \E t \in Texts[f] : Edit(f, t)
  BY <1>1, EditTyped
<1>2. CASE \E f \in SourceFiles : Read(f)
  BY <1>2, ReadTyped
<1>3. CASE \E l \in loading : PassThrough(l[1], l[2]) \/ Begin(l[1], l[2])
  BY <1>3, PassThroughTyped, BeginTyped
<1>4. CASE VisitCall
  <2>1. transform # Idle
    BY <1>4 DEF VisitCall, atCall
  <2>2. HarvestTyped' /\ UNCHANGED <<disk, edits, loading, declarationFileCache, output>>
    BY <1>4, Kept DEF VisitCall, Typed, TypeOK
  <2>3. QED
    BY <1>4, <2>1, <2>2, VisitCallGoesOn, GoesOnTyped
<1>5. CASE VisitDocument
  <2>1. transform # Idle
    BY <1>5 DEF VisitDocument, atCall
  <2>2. HarvestTyped' /\ UNCHANGED <<disk, edits, loading, declarationFileCache, output>>
    BY <1>5 DEF VisitDocument, Typed, TypeOK, HarvestTyped
  <2>3. QED
    BY <1>5, <2>1, <2>2, VisitDocumentGoesOn, GoesOnTyped
<1>6. CASE Throw
  <2>1. transform # Idle /\ NoOutput.version \in 0..MaxEdits + 1
    BY <1>6, FilesAssumption DEF Throw, atCall, NoOutput
  <2>2. QED
    BY <1>6, <2>1, EndTyped DEF Throw
<1>7. CASE Finish
  <2>1. transform # Idle
    BY <1>7 DEF Finish
  <2>2. transform.seen[transform.file] \in SourcesOf(transform.file)
    BY <2>1 DEF Typed, TransformTyped, SourceFiles
  <2>3. Finished.version \in 0..MaxEdits + 1
    BY <2>2, FilesAssumption DEF SourcesOf, Finished
  <2>4. output' = [output EXCEPT ![transform.file] = Finished]
    BY <1>7 DEF Finish, Finished
  <2>5. QED
    BY <1>7, <2>1, <2>3, <2>4, EndTyped DEF Finish
<1>8. CASE \E f \in SourceFiles : \E i \in output[f].imports : LoadVirtual(f, i)
  BY <1>8, Kept DEF LoadVirtual, Typed, TypeOK
<1>9. CASE UNCHANGED vars
  BY <1>9, Kept DEF vars, Typed, TypeOK
<1>10. QED
  BY <1>1, <1>2, <1>3, <1>4, <1>5, <1>6, <1>7, <1>8, <1>9 DEF Next

-----------------------------------------------------------------------------
(* Imports and modules. *)

(* Each module of the registry was generated for a callsite with its key.  *)
RegistryFilled ==
    \A k \in DOMAIN TypeRegistry : \E c :
        IsResolved(c) /\ keyOf(c) = k /\ TypeRegistry[k] = generateVirtualModuleCode(c)

(* An import that is bound to the module it was written for, up to what    *)
(* PublishedFits excepts.                                                  *)
Bound(i, registry) ==
    /\ i.key \in DOMAIN registry
    /\ i.export \in DOMAIN registry[i.key] \/ isDangling(i)
    /\ i.export \notin Excepted /\ ~isDangling(i) =>
          unordered(registry[i.key][i.export]) = unordered(i.asked)

ImportsBound ==
    /\ \A i \in transform.imports : Bound(i, TypeRegistry)
    /\ \A f \in SourceFiles : \A i \in output[f].imports : Bound(i, TypeRegistry)
LoadedKept == \A l \in loaded : l[1] \in DOMAIN TypeRegistry /\ l[2] = TypeRegistry[l[1]]

ModulesInv == RegistryFilled /\ ImportsBound /\ LoadedKept

(* The registry is written once: what is in it stays. *)
LEMMA RegistryGrows ==
    ASSUME NEW c
    PROVE  /\ keyOf(c) \in DOMAIN registerType(c)
           /\ \A k \in DOMAIN TypeRegistry : k \in DOMAIN registerType(c) /\ registerType(c)[k] = TypeRegistry[k]
           /\ \A k \in DOMAIN registerType(c) :
                k \in DOMAIN TypeRegistry \/ (k = keyOf(c) /\ registerType(c)[k] = generateVirtualModuleCode(c))
BY DEF registerType

(* The import a callsite is rewritten to is bound. *)
LEMMA VisitedIsBound ==
    ASSUME Typed, RegistryFilled, VisitCall
    PROVE  RegistryFilled' /\ Bound(importOf(resolved(thisCall, transform.seen)), TypeRegistry')
<1> DEFINE c == resolved(thisCall, transform.seen)
<1>1. IsResolved(c)
  BY CallsResolve DEF VisitCall
<1>2. TypeRegistry' = registerType(c)
  BY DEF VisitCall
<1> HIDE DEF c
<1>3. RegistryFilled'
  BY <1>1, <1>2, RegistryGrows DEF RegistryFilled
<1>4. PICK d : IsResolved(d) /\ keyOf(d) = keyOf(c) /\ TypeRegistry'[keyOf(c)] = generateVirtualModuleCode(d)
  BY <1>2, <1>3, RegistryGrows DEF RegistryFilled
<1> DEFINE i == importOf(c)
<1>5. /\ i.key = keyOf(c) /\ i.export = exportOf(c)
      /\ exportOf(c) \in DOMAIN generateVirtualModuleCode(c) =>
            i.asked = generateVirtualModuleCode(c)[exportOf(c)]
  BY DEF importOf
<1>6. i.key \in DOMAIN TypeRegistry' /\ (i.export \in DOMAIN TypeRegistry'[i.key] \/ isDangling(i))
  BY <1>1, <1>2, <1>4, <1>5, RegistryGrows, KeyHasExport DEF isDangling
<1>a. ~isDangling(i) => /\ exportOf(c) \in DOMAIN generateVirtualModuleCode(c)
                        /\ exportOf(c) \in DOMAIN generateVirtualModuleCode(d)
  BY <1>1, <1>4, <1>5, KeyHasExport DEF isDangling
<1>7. i.export \notin Excepted /\ ~isDangling(i) =>
        unordered(TypeRegistry'[i.key][i.export]) = unordered(i.asked)
  BY <1>1, <1>4, <1>5, <1>a, KeyPublishes
<1>8. Bound(i, TypeRegistry')
  BY <1>6, <1>7 DEF Bound
<1>9. QED
  BY <1>3, <1>8 DEF c

LEMMA InitModules == Init => ModulesInv
BY DEF Init, ModulesInv, RegistryFilled, ImportsBound, LoadedKept, Idle, NoOutput

(* A step that leaves the registry alone and writes no import. *)
LEMMA NoNewImport ==
    ASSUME ModulesInv, UNCHANGED <<TypeRegistry, loaded>>,
           transform'.imports \subseteq transform.imports,
           \A f \in SourceFiles : \A i \in output'[f].imports :
              i \in output[f].imports \/ i \in transform.imports
    PROVE  ModulesInv'
BY DEF ModulesInv, RegistryFilled, ImportsBound, LoadedKept, Bound

(* Every step keeps imports bound and loaded modules in the registry. *)
LEMMA NextModules == Typed /\ ModulesInv /\ [Next]_vars => ModulesInv'
<1> SUFFICES ASSUME Typed, ModulesInv, [Next]_vars PROVE ModulesInv'
  OBVIOUS
<1>1. CASE \E f \in Files : \E t \in Texts[f] : Edit(f, t)
  BY <1>1, NoNewImport DEF Edit
<1>2. CASE \E f \in SourceFiles : Read(f)
  BY <1>2, NoNewImport DEF Read
<1>3. ASSUME NEW l \in loading, PassThrough(l[1], l[2]) PROVE ModulesInv'
  <2>1. l[1] \in SourceFiles /\ output \in [SourceFiles -> {output[f] : f \in SourceFiles}]
    BY DEF Typed, TypeOK, LoadingTyped, OutputTyped
  <2>2. [NoOutput EXCEPT !.version = l[2].version].imports = {}
    BY DEF NoOutput
  <2>3. output' = [output EXCEPT ![l[1]] = [NoOutput EXCEPT !.version = l[2].version]]
    BY <1>3 DEF PassThrough
  <2>4. \A f \in SourceFiles : \A i \in output'[f].imports : i \in output[f].imports
    BY <2>1, <2>2, <2>3
  <2>5. QED
    BY <1>3, <2>4, NoNewImport DEF PassThrough
<1>4. ASSUME NEW l \in loading, Begin(l[1], l[2]) PROVE ModulesInv'
  <2>1. transform'.imports = {}
    BY <1>4 DEF Begin, Idle
  <2>2. QED
    BY <1>4, <2>1, NoNewImport DEF Begin
<1>5. CASE VisitCall
  <2> DEFINE i == importOf(resolved(thisCall, transform.seen))
  <2>1. RegistryFilled' /\ Bound(i, TypeRegistry')
    BY <1>5, VisitedIsBound DEF ModulesInv
  <2>2. transform'.imports = transform.imports \cup {i}
    BY <1>5, VisitCallGoesOn DEF GoesOn
  <2> HIDE DEF i
  <2>3. \A k \in DOMAIN TypeRegistry : k \in DOMAIN TypeRegistry' /\ TypeRegistry'[k] = TypeRegistry[k]
    BY <1>5, RegistryGrows DEF VisitCall
  <2>4. \A j : Bound(j, TypeRegistry) => Bound(j, TypeRegistry')
    BY <2>3 DEF Bound
  <2>5. ImportsBound'
    BY <1>5, <2>1, <2>2, <2>4 DEF VisitCall, ModulesInv, ImportsBound
  <2>6. LoadedKept'
    BY <1>5, <2>3 DEF VisitCall, ModulesInv, LoadedKept
  <2>7. QED
    BY <2>1, <2>5, <2>6 DEF ModulesInv
<1>6. CASE VisitDocument
  <2>1. transform'.imports = transform.imports
    BY <1>6, VisitDocumentGoesOn DEF GoesOn
  <2>2. QED
    BY <1>6, <2>1, NoNewImport DEF VisitDocument
<1>7. CASE Throw
  <2>1. transform'.imports = {} /\ NoOutput.imports = {}
    BY <1>7 DEF Throw, Idle, NoOutput
  <2>2. \A f \in SourceFiles : \A i \in output'[f].imports : i \in output[f].imports
    BY <1>7, <2>1 DEF Throw, Typed, TypeOK, OutputTyped
  <2>3. QED
    BY <1>7, <2>1, <2>2, NoNewImport DEF Throw
<1>8. CASE Finish
  <2>1. transform'.imports = {} /\ Finished.imports = transform.imports
    BY <1>8 DEF Finish, Idle, Finished
  <2>2. output' = [output EXCEPT ![transform.file] = Finished]
    BY <1>8 DEF Finish, Finished
  <2>3. \A f \in SourceFiles : \A i \in output'[f].imports : i \in output[f].imports \/ i \in transform.imports
    BY <2>1, <2>2 DEF Typed, TypeOK, OutputTyped
  <2>4. QED
    BY <1>8, <2>1, <2>3, NoNewImport DEF Finish
<1>9. CASE \E f \in SourceFiles : \E i \in output[f].imports : LoadVirtual(f, i)
  BY <1>9 DEF LoadVirtual, ModulesInv, RegistryFilled, ImportsBound, LoadedKept, Bound
<1>10. CASE UNCHANGED vars
  BY <1>10 DEF vars, ModulesInv, RegistryFilled, ImportsBound, LoadedKept, Bound
<1>11. QED
  BY <1>1, <1>2, <1>3, <1>4, <1>5, <1>6, <1>7, <1>8, <1>9, <1>10 DEF Next

-----------------------------------------------------------------------------
(* Documents and declaration files. *)

(* A document is no older than what a program has of its files. *)
NoOlder(doc, seen) == \A g \in DOMAIN doc \cap Files : doc[g] >= seen[g].version

DocumentsInv ==
    /\ transform # Idle => /\ NoOlder(harvestCache[transform.file], transform.seen)
                           /\ \A d \in transform.docs : NoOlder(d, transform.seen)
    /\ \A f \in SourceFiles : DOMAIN output[f].seen \subseteq Files
    /\ DocumentIsFresh

(* The declaration files a program sees are in the cache. *)
DeclarationsInv ==
    /\ transform # Idle =>
         \A d \in DeclarationFiles \cap reachable(transform.file, transform.seen) :
            declarationFileCache[d] # NotRead /\ transform.seen[d] = declarationFileCache[d]
    /\ \A f \in SourceFiles : \A d \in DeclarationFiles \cap DOMAIN output[f].seen :
         declarationFileCache[d] # NotRead /\ output[f].seen[d] = declarationFileCache[d].version

LEMMA InitDocuments == Init => DocumentsInv /\ DeclarationsInv
BY DEF Init, DocumentsInv, DeclarationsInv, DocumentIsFresh, NoOutput, Idle

(* What openapiDocument() folds in is as new as the program. *)
LEMMA HarvestIsFresh ==
    ASSUME Typed, DocumentsInv, transform # Idle
    PROVE  NoOlder(harvestDocument(transform.file), transform.seen)
<1> DEFINE f == transform.file
           fresh == [g \in reachable(f, disk) \ DeclarationFiles |-> disk[g].version]
<1>1. NoOlder(fresh, transform.seen)
  <2> SUFFICES ASSUME NEW g \in Files, g \in DOMAIN fresh PROVE fresh[g] >= transform.seen[g].version
    BY DEF NoOlder
  <2>1. fresh[g] = disk[g].version
    OBVIOUS
  <2>2. transform.seen[g].version <= disk[g].version
    BY DEF Typed, VersionsTyped
  <2>3. transform.seen[g].version \in Nat /\ disk[g].version \in Nat
    BY DEF Typed, TypeOK, TransformTyped, DiskTyped, SourcesOf
  <2> HIDE DEF fresh
  <2>4. QED
    BY <2>1, <2>2, <2>3
<1>2. harvestDocument(f) = harvestCache[f] \/ harvestDocument(f) = fresh
  BY DEF harvestDocument
<1> HIDE DEF fresh
<1>3. QED
  BY <1>1, <1>2 DEF DocumentsInv

(* A step that leaves the running transform and every output alone. *)
LEMMA DocumentsKept ==
    ASSUME DocumentsInv, UNCHANGED <<transform, output, harvestCache>>
    PROVE  DocumentsInv'
BY DEF DocumentsInv, DocumentIsFresh, NoOlder

LEMMA DeclarationsKept ==
    ASSUME DeclarationsInv, UNCHANGED <<declarationFileCache, transform, output>>
    PROVE  DeclarationsInv'
BY DEF DeclarationsInv

(* A transform ends with an output that is as fresh as its program. *)
LEMMA DocumentsEnd ==
    ASSUME Typed, DocumentsInv, transform' = Idle, NEW f \in SourceFiles, NEW o,
           output' = [output EXCEPT ![f] = o], DOMAIN o.seen \subseteq Files,
           \A d \in o.docs : \A g \in DOMAIN d \cap DOMAIN o.seen : d[g] >= o.seen[g]
    PROVE  DocumentsInv'
<1>1. \A g \in SourceFiles : output'[g] = IF g = f THEN o ELSE output[g]
  BY DEF Typed, TypeOK, OutputTyped
<1>2. QED
  BY <1>1 DEF DocumentsInv, DocumentIsFresh

(* A transform ends; what its output saw of declarations is in the cache.  *)
LEMMA DeclarationsEnd ==
    ASSUME Typed, DeclarationsInv, transform' = Idle, NEW f \in SourceFiles, NEW o,
           output' = [output EXCEPT ![f] = o], UNCHANGED declarationFileCache,
           \A d \in DeclarationFiles \cap DOMAIN o.seen :
              declarationFileCache[d] # NotRead /\ o.seen[d] = declarationFileCache[d].version
    PROVE  DeclarationsInv'
<1>1. \A g \in SourceFiles : output'[g] = IF g = f THEN o ELSE output[g]
  BY DEF Typed, TypeOK, OutputTyped
<1>2. QED
  BY <1>1 DEF DeclarationsInv

(* Every step keeps documents fresh. *)
LEMMA NextDocuments == Typed /\ DocumentsInv /\ [Next]_vars => DocumentsInv'
<1> SUFFICES ASSUME Typed, DocumentsInv, [Next]_vars PROVE DocumentsInv'
  OBVIOUS
<1>1. CASE \E f \in Files : \E t \in Texts[f] : Edit(f, t)
  BY <1>1, DocumentsKept DEF Edit
<1>2. CASE \E f \in SourceFiles : Read(f)
  BY <1>2, DocumentsKept DEF Read
<1>3. ASSUME NEW l \in loading, PassThrough(l[1], l[2]) PROVE DocumentsInv'
  <2>1. l[1] \in SourceFiles
    BY DEF Typed, TypeOK, LoadingTyped
  <2> DEFINE o == [NoOutput EXCEPT !.version = l[2].version]
  <2>2. o.docs = {} /\ DOMAIN o.seen = {}
    BY DEF NoOutput
  <2>3. output' = [output EXCEPT ![l[1]] = o] /\ transform' = Idle
    BY <1>3 DEF PassThrough
  <2> HIDE DEF o
  <2>4. QED
    BY <2>1, <2>2, <2>3, DocumentsEnd
<1>4. ASSUME NEW l \in loading, Begin(l[1], l[2]) PROVE DocumentsInv'
  <2>1. l[1] \in SourceFiles
    BY DEF Typed, TypeOK, LoadingTyped
  <2>2. transform'.file = l[1] /\ transform'.docs = {}
    BY <1>4 DEF Begin, Idle
  <2>3. harvestCache'[l[1]] = NotHarvested
    BY <1>4, <2>1 DEF Begin, invalidateHarvest, Typed, TypeOK, HarvestTyped
  <2>4. NoOlder(NotHarvested, transform'.seen)
    BY DEF NoOlder, NotHarvested
  <2>5. UNCHANGED output
    BY <1>4 DEF Begin
  <2>6. QED
    BY <2>2, <2>3, <2>4, <2>5 DEF DocumentsInv, DocumentIsFresh
<1>5. CASE VisitCall
  <2>1. /\ transform # Idle /\ UNCHANGED <<harvestCache, output>>
        /\ transform'.file = transform.file /\ transform'.seen = transform.seen
        /\ transform'.docs = transform.docs
    BY <1>5, VisitCallGoesOn DEF GoesOn, VisitCall, atCall
  <2>2. QED
    BY <2>1 DEF DocumentsInv, DocumentIsFresh
<1>6. CASE VisitDocument
  <2> DEFINE d == harvestDocument(transform.file)
  <2>1. /\ transform # Idle /\ UNCHANGED output
        /\ transform'.file = transform.file /\ transform'.seen = transform.seen
        /\ transform'.docs = transform.docs \cup {d}
    BY <1>6, VisitDocumentGoesOn DEF GoesOn, VisitDocument, atCall
  <2>2. NoOlder(d, transform.seen)
    BY <2>1, HarvestIsFresh
  <2>3. transform.file \in SourceFiles
    BY <2>1 DEF Typed, TransformTyped
  <2> HIDE DEF d
  <2>4. harvestCache'[transform.file] = d
    BY <1>6, <2>3 DEF VisitDocument, Typed, TypeOK, HarvestTyped, d
  <2>5. QED
    BY <2>1, <2>2, <2>4 DEF DocumentsInv, DocumentIsFresh
<1>7. CASE Throw
  <2>1. transform.file \in SourceFiles
    BY <1>7 DEF Throw, atCall, Typed, TransformTyped
  <2>2. NoOutput.docs = {} /\ DOMAIN NoOutput.seen = {}
    BY DEF NoOutput
  <2>3. QED
    BY <1>7, <2>1, <2>2, DocumentsEnd DEF Throw
<1>8. CASE Finish
  <2>1. transform # Idle /\ transform.file \in SourceFiles
    BY <1>8 DEF Finish, Typed, TransformTyped
  <2>2. Finished.docs = transform.docs /\ DOMAIN Finished.seen \subseteq Files
    BY ReachableFiles DEF Finished
  <2>3. \A g \in DOMAIN Finished.seen : Finished.seen[g] = transform.seen[g].version
    BY DEF Finished
  <2>4. output' = [output EXCEPT ![transform.file] = Finished] /\ transform' = Idle
    BY <1>8 DEF Finish, Finished
  <2>5. \A d \in Finished.docs : \A g \in DOMAIN d \cap DOMAIN Finished.seen : d[g] >= Finished.seen[g]
    BY <2>1, <2>2, <2>3 DEF DocumentsInv, NoOlder
  <2>6. QED
    BY <2>1, <2>2, <2>4, <2>5, DocumentsEnd
<1>9. CASE \E f \in SourceFiles : \E i \in output[f].imports : LoadVirtual(f, i)
  BY <1>9, DocumentsKept DEF LoadVirtual
<1>10. CASE UNCHANGED vars
  BY <1>10, DocumentsKept DEF vars
<1>11. QED
  BY <1>1, <1>2, <1>3, <1>4, <1>5, <1>6, <1>7, <1>8, <1>9, <1>10 DEF Next

(* Every step keeps the declaration files of programs in the cache. *)
LEMMA NextDeclarations == Typed /\ DeclarationsInv /\ [Next]_vars => DeclarationsInv'
<1> SUFFICES ASSUME Typed, DeclarationsInv, [Next]_vars PROVE DeclarationsInv'
  OBVIOUS
<1>1. CASE \E f \in Files : \E t \in Texts[f] : Edit(f, t)
  BY <1>1, DeclarationsKept DEF Edit
<1>2. CASE \E f \in SourceFiles : Read(f)
  BY <1>2, DeclarationsKept DEF Read
<1>3. ASSUME NEW l \in loading, PassThrough(l[1], l[2]) PROVE DeclarationsInv'
  <2>1. l[1] \in SourceFiles
    BY DEF Typed, TypeOK, LoadingTyped
  <2> DEFINE o == [NoOutput EXCEPT !.version = l[2].version]
  <2>2. DOMAIN o.seen = {}
    BY DEF NoOutput
  <2>3. output' = [output EXCEPT ![l[1]] = o] /\ transform' = Idle /\ UNCHANGED declarationFileCache
    BY <1>3 DEF PassThrough
  <2> HIDE DEF o
  <2>4. QED
    BY <2>1, <2>2, <2>3, DeclarationsEnd
<1>4. ASSUME NEW l \in loading, Begin(l[1], l[2]) PROVE DeclarationsInv'
  <2> DEFINE f == l[1]
             seen == programSources(f, l[2])
  <2>1. f \in SourceFiles /\ l[2] \in SourcesOf(f) /\ l[2].version <= disk[f].version
    BY DEF Typed, TypeOK, LoadingTyped, VersionsTyped
  <2>2. \A d \in DeclarationFiles : seen[d] \in SourcesOf(d)
    BY <2>1, SourcesSeen, FilesAssumption
  <2>3. \A d \in DeclarationFiles : declarationFileCache[d] # NotRead => seen[d] = declarationFileCache[d]
    BY <2>1, FilesAssumption DEF programSources, SourceFiles
  <2> HIDE DEF seen
  <2>4. \A d \in DeclarationFiles : seen[d] # NotRead
    <3>1. \A d \in DeclarationFiles : seen[d].version \in 1..MaxEdits + 1
      BY <2>2 DEF SourcesOf
    <3>2. NotRead.version = 0
      BY DEF NotRead
    <3>3. QED
      BY <3>1, <3>2, FilesAssumption
  <2>5. transform'.file = f /\ transform'.seen = seen /\ UNCHANGED output
    BY <1>4 DEF Begin, Idle, seen
  <2>6. \A d \in DeclarationFiles : declarationFileCache'[d]
          = IF d \in reachable(f, seen) THEN seen[d] ELSE declarationFileCache[d]
    BY <1>4 DEF Begin, seen
  <2> HIDE DEF f
  <2>7. QED
    BY <2>3, <2>4, <2>5, <2>6 DEF DeclarationsInv
<1>5. CASE VisitCall
  <2>1. /\ transform # Idle /\ UNCHANGED <<declarationFileCache, output>>
        /\ transform'.file = transform.file /\ transform'.seen = transform.seen
    BY <1>5, VisitCallGoesOn DEF GoesOn, VisitCall, atCall
  <2>2. QED
    BY <2>1 DEF DeclarationsInv
<1>6. CASE VisitDocument
  <2>1. /\ transform # Idle /\ UNCHANGED <<declarationFileCache, output>>
        /\ transform'.file = transform.file /\ transform'.seen = transform.seen
    BY <1>6, VisitDocumentGoesOn DEF GoesOn, VisitDocument, atCall
  <2>2. QED
    BY <2>1 DEF DeclarationsInv
<1>7. CASE Throw
  <2>1. transform.file \in SourceFiles
    BY <1>7 DEF Throw, atCall, Typed, TransformTyped
  <2>2. DOMAIN NoOutput.seen = {}
    BY DEF NoOutput
  <2>3. QED
    BY <1>7, <2>1, <2>2, DeclarationsEnd DEF Throw
<1>8. CASE Finish
  <2>1. transform # Idle /\ transform.file \in SourceFiles
    BY <1>8 DEF Finish, Typed, TransformTyped
  <2>2. /\ DOMAIN Finished.seen = reachable(transform.file, transform.seen)
        /\ \A g \in DOMAIN Finished.seen : Finished.seen[g] = transform.seen[g].version
    BY DEF Finished
  <2>3. output' = [output EXCEPT ![transform.file] = Finished] /\ transform' = Idle
        /\ UNCHANGED declarationFileCache
    BY <1>8 DEF Finish, Finished
  <2>4. \A d \in DeclarationFiles \cap DOMAIN Finished.seen :
          declarationFileCache[d] # NotRead /\ Finished.seen[d] = declarationFileCache[d].version
    BY <2>1, <2>2 DEF DeclarationsInv
  <2>5. QED
    BY <2>1, <2>3, <2>4, DeclarationsEnd, ZenonT(30)
<1>9. CASE \E f \in SourceFiles : \E i \in output[f].imports : LoadVirtual(f, i)
  BY <1>9, DeclarationsKept DEF LoadVirtual
<1>10. CASE UNCHANGED vars
  BY <1>10, DeclarationsKept DEF vars
<1>11. QED
  BY <1>1, <1>2, <1>3, <1>4, <1>5, <1>6, <1>7, <1>8, <1>9, <1>10 DEF Next

-----------------------------------------------------------------------------
(* The theorems. *)

IInv == Typed /\ ModulesInv /\ DocumentsInv /\ DeclarationsInv

LEMMA Invariant == Spec => []IInv
<1>1. Init => IInv
  BY InitTyped, InitModules, InitDocuments DEF IInv
<1>2. IInv /\ [Next]_vars => IInv'
  BY NextTyped, NextModules, NextDocuments, NextDeclarations DEF IInv
<1>3. QED
  BY <1>1, <1>2, PTL DEF Spec

(* Every variable of the build keeps its shape. *)
THEOREM BuildTypeCorrect == Spec => []TypeOK
<1>1. IInv => TypeOK
  BY DEF IInv, Typed
<1>2. QED
  BY <1>1, Invariant, PTL

(* An import of emitted code finds its module and its export, whichever    *)
(* callsite the module was generated for (virtualPlugin.ts onLoad).        *)
THEOREM EveryImportResolves == Spec => []ImportsResolve
<1>1. IInv => ImportsResolve
  BY DEF IInv, ModulesInv, ImportsBound, Bound, ImportsResolve
<1>2. QED
  BY <1>1, Invariant, PTL

(* A specifier stands for one module for the life of the process           *)
(* (registry.ts registerType).                                             *)
THEOREM ModulesAreWrittenOnce == Spec => []OneModulePerKey
<1>1. IInv => OneModulePerKey
  BY DEF IInv, ModulesInv, LoadedKept, OneModulePerKey
<1>2. QED
  BY <1>1, Invariant, PTL

(* Callsites that share a key want the same published content: what        *)
(* payloadKey and getTypeKey drop is only what PublishedFits excepts.      *)
THEOREM SharedModulesPublishWhatWasAsked == Spec => []PublishedFits
<1>1. IInv => PublishedFits
  BY DEF IInv, ModulesInv, ImportsBound, Bound, PublishedFits, Excepted
<1>2. QED
  BY <1>1, Invariant, PTL

(* No document describes older source than the code it is folded into      *)
(* (plugin.ts, harvest.ts invalidateHarvest).                              *)
THEOREM DocumentsAreFresh == Spec => []DocumentIsFresh
<1>1. IInv => DocumentIsFresh
  BY DEF IInv, DocumentsInv
<1>2. QED
  BY <1>1, Invariant, PTL

(* All files of a process see one version of a declaration file            *)
(* (plugin.ts declarationFileCache).                                       *)
THEOREM DeclarationsAreShared == Spec => []DeclarationsAgree
<1>1. IInv => DeclarationsAgree
  BY DEF IInv, DeclarationsInv, DeclarationsAgree
<1>2. QED
  BY <1>1, Invariant, PTL
=============================================================================
