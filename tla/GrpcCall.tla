------------------------------- MODULE GrpcCall -------------------------------
(***************************************************************************)
(* What a GrpcTransport call promises the code that iterates `messages`,   *)
(* whatever transport is underneath (interface GrpcTransportResponse in    *)
(* src/generators/tsClient.ts): the server's messages in the order they    *)
(* arrived, each at most once, and then exactly one verdict; the verdict   *)
(* is success only when the status in hand is OK and nothing that arrived  *)
(* is still undelivered.                                                   *)
(***************************************************************************)
EXTENDS Naturals

CONSTANT Ids            \* positions a message can have in the response

VARIABLES sent,         \* positions of the messages that have arrived
          seen,         \* positions of the messages handed to the consumer
          accepted,     \* the status in hand is OK
          verdict       \* "open" until the iteration is over

callVars == <<sent, seen, accepted, verdict>>

Verdicts == {"open", "ok", "failed", "abandoned"}

CallTypeOK ==
  /\ sent \subseteq Ids
  /\ seen \subseteq sent
  /\ accepted \in BOOLEAN
  /\ verdict \in Verdicts

CallInit ==
  /\ sent = {}
  /\ seen = {}
  /\ accepted = FALSE
  /\ verdict = "open"

(* A message arrives behind every earlier one. *)
Arrive ==
  /\ \E i \in Ids : /\ \A j \in sent : j < i
                    /\ sent' = sent \cup {i}
  /\ UNCHANGED <<seen, accepted, verdict>>

(* The status in hand changes: the server sent one, or the call gave up. *)
StatusChanges ==
  /\ accepted' \in BOOLEAN
  /\ UNCHANGED <<sent, seen, verdict>>

(* The consumer gets the oldest message it has not had. *)
Deliver ==
  /\ verdict = "open"
  /\ \E i \in sent \ seen : /\ \A j \in sent \ seen : i <= j
                            /\ seen' = seen \cup {i}
  /\ UNCHANGED <<sent, accepted, verdict>>

Succeed ==
  /\ verdict = "open"
  /\ accepted
  /\ seen = sent
  /\ verdict' = "ok"
  /\ UNCHANGED <<sent, seen, accepted>>

(* The iteration throws, or the consumer walks away from it. *)
GiveUp ==
  /\ verdict = "open"
  /\ verdict' \in {"failed", "abandoned"}
  /\ UNCHANGED <<sent, seen, accepted>>

CallNext == Arrive \/ StatusChanges \/ Deliver \/ Succeed \/ GiveUp

CallSpec == CallInit /\ [][CallNext]_callVars
=============================================================================
