---------------------------- MODULE MCWizPlugin ----------------------------
(* A program of an entry, a module it imports and a declaration file.      *)
EXTENDS WizPlugin

Call(macro, tuple, types) ==
    [types |-> types, macro |-> macro, tuple |-> tuple, version |-> "3.1", methods |-> <<>>]
Document == [macro |-> "openapiDocument"]
Text(imports, ir, calls) == [imports |-> imports, ir |-> ir, calls |-> calls, ignored |-> FALSE]

EntryIR == [shape |-> "entry", order |-> "ab", name |-> "Entry"]
MCTexts ==
    [app |-> {Text({"lib", "types"}, EntryIR, <<Document, Call("encodeAvro", FALSE, <<"lib">>), Document>>),
              Text({"lib", "types"}, EntryIR,
                   <<Call("avroSchema", TRUE, <<"lib">>), Call("arrowSchema", TRUE, <<"types">>)>>)},
     lib |-> {[Text({}, [shape |-> "pair", order |-> "ab", name |-> "User"], <<Call("is", FALSE, <<"lib">>)>>)
                  EXCEPT !.ignored = TRUE],
              Text({"types"}, [shape |-> "pair", order |-> "ba", name |-> "Admin"],
                   <<Call("openRPCSchema", TRUE, <<"lib">>), Call("avroSchema", TRUE, <<>>)>>)},
     types |-> {Text({}, [shape |-> "plain", order |-> "ab", name |-> "Decl"], <<>>),
                Text({}, [shape |-> "nested", order |-> "ab", name |-> "Decl"], <<>>)}]
=============================================================================
