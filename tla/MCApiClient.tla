----------------------------- MODULE MCApiClient -----------------------------
(***************************************************************************)
(* Small programs for ApiClient: two sends that share a token provider, or *)
(* one stream of each kind.                                                *)
(***************************************************************************)
EXTENDS ApiClient

CONSTANTS prompt, plain

CallSet == {prompt, plain}
ProgramSet == {[c \in CallSet |-> "send"]} \cup
              {[c \in CallSet |-> IF c = prompt THEN k ELSE "no call"] : k \in {"lines", "events", "web"}}
ItemSet == [lines  |-> {<<"data", "data", "data">>},
            events |-> {<<"data", "note", "data", "done", "data">>, <<"data", "done">>},
            web    |-> {<<"data", "empty", "data", "trailer ok">>, <<"data", "trailer failed">>}]
=============================================================================
