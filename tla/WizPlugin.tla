----------------------------- MODULE WizPlugin -----------------------------
(***************************************************************************)
(* The Bun plugin: the load hooks of virtualPlugin.ts, transformSource     *)
(* (plugin.ts), the type registry (registry.ts), the harvest behind        *)
(* openapiDocument() and its cache (harvest.ts), over a disk that somebody *)
(* edits while one process builds again and again.                         *)
(*                                                                         *)
(* Bun reads several files at once, and awaits each; a transform runs to   *)
(* its end on the one JavaScript thread, but it goes back to the disk as   *)
(* it runs, so an edit may fall between any two of its steps.              *)
(*                                                                         *)
(* A source is [version, text]; a text is                                  *)
(*   [ignored, imports, ir, calls]                                         *)
(* with `ir` the type the file declares (one per file) and `calls` its     *)
(* callsites in the order of the visitor: "openapiDocument", or            *)
(*   [macro, tuple, types, version, methods] with `types` naming files.    *)
(***************************************************************************)
EXTENDS VirtualModules, FiniteSets
LOCAL INSTANCE Relation

CONSTANTS
    Files,              \* every file of the program
    DeclarationFiles,   \* those that end in .d.ts
    Texts,              \* the texts each file may hold
    Inexpressible,      \* the shapes Arrow has no type for
    MaxEdits,           \* bound: edits of all files together
    NoFile

ASSUME FilesAssumption ==
    /\ IsFiniteSet(Files)
    /\ DeclarationFiles \subseteq Files
    /\ NoFile \notin Files
    /\ MaxEdits \in Nat

\* Each of the macros needs a type argument: one type, or a tuple, which may
\* be empty.
IsCall(c) ==
    /\ c = [macro |-> c.macro, tuple |-> c.tuple, types |-> c.types,
            version |-> c.version, methods |-> c.methods]
    /\ c.macro \in DOMAIN BareExport \cup DOMAIN PayloadField
    /\ c.tuple \in BOOLEAN /\ c.types \in Seq(Files)
    /\ c.tuple \/ Len(c.types) = 1

ASSUME TextsAssumption ==
    \A f \in Files : \A t \in Texts[f] :
        /\ t.calls \in Seq({t.calls[i] : i \in DOMAIN t.calls})
        /\ \A i \in DOMAIN t.calls :
               t.calls[i] = [macro |-> "openapiDocument"] \/ IsCall(t.calls[i])

VARIABLES
    disk,           \* the source each file holds
    edits,          \* how often somebody has edited one
    loading,        \* <<file, source>> read, and waiting to be transformed
    declarationFileCache,
    harvestCache,
    TypeRegistry,   \* key -> the module's exports and what they were made from
    transform,      \* the transform that is running
    output,         \* what the last transform of each file gave the bundler
    loaded          \* <<key, module>> the bundler has taken from the registry

vars == <<disk, edits, loading, declarationFileCache, harvestCache, TypeRegistry, transform, output, loaded>>

SourceFiles == Files \ DeclarationFiles
NotRead == [version |-> 0]
NotHarvested == <<>>
Idle == [file |-> NoFile, seen |-> <<>>, next |-> 0, imports |-> {}, docs |-> {}]
NoOutput == [version |-> 0, imports |-> {}, docs |-> {}, seen |-> <<>>]

Init ==
    /\ disk \in [Files -> UNION {{[version |-> 1, text |-> t] : t \in Texts[f]} : f \in Files}]
    /\ \A f \in Files : disk[f].text \in Texts[f]
    /\ edits = 0
    /\ loading = {}
    /\ declarationFileCache = [f \in DeclarationFiles |-> NotRead]
    /\ harvestCache = [f \in SourceFiles |-> NotHarvested]
    /\ TypeRegistry = <<>>
    /\ transform = Idle
    /\ output = [f \in SourceFiles |-> NoOutput]
    /\ loaded = {}

-----------------------------------------------------------------------------
(* What a TypeScript program sees. *)

\* The files reachable by imports from one of them.
importsOf(sources) == ReflexiveTransitiveClosure([x, y \in Files |-> y \in sources[x].text.imports], Files)
reachable(f, sources) ==
    LET reaches == importsOf(sources) IN {g \in Files : reaches[<<f, g>>]}

\* Declaration files are parsed afresh for every program.
programSources_Uncached(f, contents) == [disk EXCEPT ![f] = contents]

\* The sources of the program a transform builds: its own contents, the
\* cached parse of a declaration file, and the disk for the rest.
programSources(f, contents) ==
    [g \in Files |->
        IF g = f THEN contents
        ELSE IF g \in DeclarationFiles /\ declarationFileCache[g] # NotRead THEN declarationFileCache[g]
        ELSE disk[g]]

\* A callsite with the types its program gives it.
resolved(c, seen) ==
    [c EXCEPT !.types = [i \in DOMAIN c.types |-> [decl |-> c.types[i], ir |-> seen[c.types[i]].text.ir]]]

-----------------------------------------------------------------------------
(* The world around a build: somebody edits a file; Bun starts a load.     *)

Edit(f, t) ==
    /\ edits < MaxEdits
    /\ edits' = edits + 1
    /\ t # disk[f].text
    /\ disk' = [disk EXCEPT ![f] = [version |-> @.version + 1, text |-> t]]
    /\ UNCHANGED <<loading, declarationFileCache, harvestCache, TypeRegistry, transform, output, loaded>>

\* onLoad awaits the text of the file.
Read(f) ==
    /\ \A l \in loading : l[1] # f
    /\ loading' = loading \cup {<<f, disk[f]>>}
    /\ UNCHANGED <<disk, edits, declarationFileCache, harvestCache, TypeRegistry, transform, output, loaded>>

-----------------------------------------------------------------------------
(* transformSource. *)

\* The entry's document outlives the transform it was harvested for.
invalidateHarvest_Not(f) == harvestCache

\* The entry's last document is forgotten before anything can read it.
invalidateHarvest(f) == [harvestCache EXCEPT ![f] = NotHarvested]

\* Nothing for wiz to do: the contents go through as they are.
PassThrough(f, contents) ==
    /\ transform = Idle
    /\ <<f, contents>> \in loading
    /\ contents.text.ignored \/ contents.text.calls = <<>>
    /\ loading' = loading \ {<<f, contents>>}
    /\ harvestCache' = invalidateHarvest(f)
    /\ output' = [output EXCEPT ![f] = [NoOutput EXCEPT !.version = contents.version]]
    /\ UNCHANGED <<disk, edits, declarationFileCache, TypeRegistry, transform, loaded>>

Begin(f, contents) ==
    LET seen == programSources(f, contents)
    IN  /\ transform = Idle
        /\ <<f, contents>> \in loading
        /\ ~contents.text.ignored /\ contents.text.calls # <<>>
        /\ loading' = loading \ {<<f, contents>>}
        /\ harvestCache' = invalidateHarvest(f)
        /\ declarationFileCache' =
               [g \in DeclarationFiles |->
                   IF g \in reachable(f, seen) THEN seen[g] ELSE declarationFileCache[g]]
        /\ transform' = [Idle EXCEPT !.file = f, !.seen = seen, !.next = 1]
        /\ UNCHANGED <<disk, edits, TypeRegistry, output, loaded>>

atCall == transform # Idle /\ transform.next <= Len(transform.seen[transform.file].text.calls)
thisCall == transform.seen[transform.file].text.calls[transform.next]

\* generateArrowSchemaCode throws for a type it cannot express.
throws(c) == c.macro = "arrowSchema" /\ \E i \in DOMAIN c.types : c.types[i].ir.shape \in Inexpressible

\* A later registration of a key replaces the module.
registerType_Overwrite(c) ==
    [k \in DOMAIN TypeRegistry \cup {keyOf(c)} |->
        IF k = keyOf(c) THEN generateVirtualModuleCode(c) ELSE TypeRegistry[k]]

\* registerType: the first registration of a key is the one that stays.
registerType(c) ==
    IF keyOf(c) \in DOMAIN TypeRegistry THEN TypeRegistry
    ELSE [k \in DOMAIN TypeRegistry \cup {keyOf(c)} |->
             IF k = keyOf(c) THEN generateVirtualModuleCode(c) ELSE TypeRegistry[k]]

\* What the rewritten callsite imports, whether or not the module has it;
\* `asked` is what it was written for.
Nothing == [types |-> <<>>, version |-> "none", service |-> <<>>]
importOf(c) ==
    LET module == generateVirtualModuleCode(c)
    IN  [key |-> keyOf(c), export |-> exportOf(c),
         asked |-> IF exportOf(c) \in DOMAIN module THEN module[exportOf(c)] ELSE Nothing]

VisitCall ==
    /\ atCall
    /\ thisCall.macro # "openapiDocument"
    /\ LET c == resolved(thisCall, transform.seen)
       IN  /\ keyOf(c) \in DOMAIN TypeRegistry \/ ~throws(c)
           /\ TypeRegistry' = registerType(c)
           /\ transform' = [transform EXCEPT !.next = @ + 1, !.imports = @ \cup {importOf(c)}]
    /\ UNCHANGED <<disk, edits, loading, declarationFileCache, harvestCache, output, loaded>>

\* The error leaves transformSource and the load hook; no output is made.
Throw ==
    /\ atCall
    /\ thisCall.macro # "openapiDocument"
    /\ LET c == resolved(thisCall, transform.seen)
       IN  keyOf(c) \notin DOMAIN TypeRegistry /\ throws(c)
    /\ transform' = Idle
    /\ output' = [output EXCEPT ![transform.file] = NoOutput]
    /\ UNCHANGED <<disk, edits, loading, declarationFileCache, harvestCache, TypeRegistry, loaded>>

\* harvestDocument: the cached document of the entry, or one made from what
\* the disk holds now.  A document is known by the versions it describes.
harvestDocument(f) ==
    IF harvestCache[f] # NotHarvested THEN harvestCache[f]
    ELSE [g \in reachable(f, disk) \ DeclarationFiles |-> disk[g].version]

VisitDocument ==
    /\ atCall
    /\ thisCall.macro = "openapiDocument"
    /\ LET f == transform.file
       IN  /\ harvestCache' = [harvestCache EXCEPT ![f] = harvestDocument(f)]
           /\ transform' = [transform EXCEPT !.next = @ + 1, !.docs = @ \cup {harvestDocument(f)}]
    /\ UNCHANGED <<disk, edits, loading, declarationFileCache, TypeRegistry, output, loaded>>

\* The imports are printed before the rewritten source, and the hook returns.
Finish ==
    LET f == transform.file
        read == reachable(f, transform.seen)
    IN  /\ transform # Idle /\ ~atCall
        /\ output' = [output EXCEPT ![f] =
               [version |-> transform.seen[f].version,
                imports |-> transform.imports,
                docs    |-> transform.docs,
                seen    |-> [g \in read |-> transform.seen[g].version]]]
        /\ transform' = Idle
        /\ UNCHANGED <<disk, edits, loading, declarationFileCache, harvestCache, TypeRegistry, loaded>>

\* onLoad of the wiz-virtual namespace, on the same thread; a key it does not
\* know throws.
LoadVirtual(f, i) ==
    /\ transform = Idle
    /\ i \in output[f].imports
    /\ i.key \in DOMAIN TypeRegistry
    /\ loaded' = loaded \cup {<<i.key, TypeRegistry[i.key]>>}
    /\ UNCHANGED <<disk, edits, loading, declarationFileCache, harvestCache, TypeRegistry, transform, output>>

Next ==
    \/ \E f \in Files : \E t \in Texts[f] : Edit(f, t)
    \/ \E f \in SourceFiles : Read(f)
    \/ \E l \in loading : PassThrough(l[1], l[2]) \/ Begin(l[1], l[2])
    \/ VisitCall \/ Throw \/ VisitDocument \/ Finish
    \/ \E f \in SourceFiles : \E i \in output[f].imports : LoadVirtual(f, i)

Spec == Init /\ [][Next]_vars

-----------------------------------------------------------------------------
(* Properties. *)

SourcesOf(f) == [version : 1..MaxEdits + 1, text : Texts[f]]

DiskTyped ==
    /\ disk \in [Files -> {disk[f] : f \in Files}]
    /\ \A f \in Files : disk[f] \in SourcesOf(f)
    /\ edits \in 0..MaxEdits
LoadingTyped ==
    \A l \in loading : l = <<l[1], l[2]>> /\ l[1] \in SourceFiles /\ l[2] \in SourcesOf(l[1])
CacheTyped ==
    /\ declarationFileCache \in [DeclarationFiles -> {declarationFileCache[f] : f \in DeclarationFiles}]
    /\ \A f \in DeclarationFiles :
         declarationFileCache[f] = NotRead \/ declarationFileCache[f] \in SourcesOf(f)
HarvestTyped == harvestCache \in [SourceFiles -> {harvestCache[f] : f \in SourceFiles}]
FileTyped ==
    /\ transform.file \in SourceFiles \cup {NoFile}
    /\ transform.file = NoFile => transform = Idle
OutputTyped ==
    /\ output \in [SourceFiles -> {output[f] : f \in SourceFiles}]
    /\ \A f \in SourceFiles : output[f].version \in 0..MaxEdits + 1

\* Every variable keeps its shape (type invariant).
TypeOK == DiskTyped /\ LoadingTyped /\ CacheTyped /\ HarvestTyped /\ FileTyped /\ OutputTyped

\* Whatever was built, edited or thrown before, an import of emitted code
\* names a module the virtual load hook finds and an export that module has
\* (virtualPlugin.ts onLoad, plugin.ts registerPayload) - but for the schema
\* text of an empty tuple, avroSchema<[]>() or the like, which no module has
\* though the visitor asks for it (virtualGenerator.ts, the `?.length`).
EmptyTuple == [digest |-> <<TRUE, <<>>>>, decl |-> Anonymous]
SchemaTexts ==
    {"protobufSchema", "avroSchema", "arrowSchema", "jsonSchemas_draft2020", "jsonSchemas_draft07"}
isDangling(i) == i.key.type = EmptyTuple /\ i.export \in SchemaTexts

ImportsResolve ==
    \A f \in SourceFiles : \A i \in output[f].imports :
        i.key \in DOMAIN TypeRegistry /\ (i.export \in DOMAIN TypeRegistry[i.key] \/ isDangling(i))

\* The bundler is never given two modules under one specifier, however many
\* files and builds ask for it (registry.ts: an entry is written once).
OneModulePerKey ==
    \A l, m \in loaded : l[1] = m[1] => l[2] = m[2]

\* The module a callsite is bound to publishes the types, names, version and
\* methods that callsite asked for, whoever registered it first - up to the
\* order of a type's properties, but for the options payloadKey drops and the
\* names in the $defs of a JSON Schema (registry.ts payloadKey, types.ts
\* getTypeKey).
namesAndShapes(types) == [i \in DOMAIN types |-> normalizeTypeIR(types[i], TRUE)]
unordered(content) ==
    [types |-> namesAndShapes(content.types), version |-> content.version, service |-> content.service]

PublishedFits ==
    \A f \in SourceFiles : \A i \in output[f].imports :
        i.export \notin {"openRPCSchema", "asyncapiSchema", "mcpSchema"} \cup PublishesDefs /\ ~isDangling(i) =>
            unordered(TypeRegistry[i.key][i.export]) = unordered(i.asked)

\* The module a callsite is bound to is the one its types and payload would
\* generate: anything that would change the code is in the key (registry.ts,
\* the comment of registerType).
ContentFits ==
    \A f \in SourceFiles : \A i \in output[f].imports :
        ~isDangling(i) => TypeRegistry[i.key][i.export] = i.asked

\* A document folded into a file never describes source older than the source
\* that file was compiled against (plugin.ts: "the document harvested for it
\* last time describes source that may already be gone").
DocumentIsFresh ==
    \A f \in SourceFiles : \A d \in output[f].docs :
        \A g \in DOMAIN d \cap DOMAIN output[f].seen : d[g] >= output[f].seen[g]

\* No two files of the program are compiled against different versions of one
\* declaration file (plugin.ts declarationFileCache).
DeclarationsAgree ==
    \A f, g \in SourceFiles : \A d \in DeclarationFiles \cap DOMAIN output[f].seen \cap DOMAIN output[g].seen :
        output[f].seen[d] = output[g].seen[d]
=============================================================================
