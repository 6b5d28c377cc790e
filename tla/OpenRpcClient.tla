----------------------------- MODULE OpenRpcClient -----------------------------
(***************************************************************************)
(* What the message-based OpenRPC transports share (openRpcClient and the  *)
(* `pending` maps in src/transports/openrpc.ts): clients that number their *)
(* calls, and a transport that settles a call with the first reply that    *)
(* carries its id.  A call is known here by the order it was made in, a    *)
(* reply by the call it answers, or by NoId when its id is null.           *)
(***************************************************************************)
EXTENDS Naturals, Sequences

CONSTANTS Clients,      \* openRpcClient instances on one transport
          Timed,        \* those created with a timeoutMs
          MaxCalls      \* bound: calls made

ASSUME TimedAssumption == Timed \subseteq Clients
ASSUME MaxCallsAssumption == MaxCalls \in Nat

VARIABLES
  reqId,      \* the id each client used last
  client,     \* of every call, the client that made it
  id,         \* of every call, its JSON-RPC id
  at,         \* of every call, where transport.call() is suspended
  outcome,    \* of every call, what executeCall told its caller
  answer,     \* history: the call whose method produced that outcome, or 0
  pending     \* the Map: the call registered under each id, 0 for none

clientVars == <<reqId, client, id, at, outcome, answer, pending>>

made   == Len(client)
Calls  == 1..MaxCalls
NoId   == 0
Stages == {"opening", "ready", "waiting", "settled"}
Outcomes == {"none", "answered", "failed", "timeout"}

ClientTypeOK ==
  /\ reqId \in [Clients -> 0..MaxCalls]
  /\ client \in Seq(Clients) /\ made <= MaxCalls
  /\ id \in [1..made -> Calls]
  /\ at \in [1..made -> Stages]
  /\ outcome \in [1..made -> Outcomes]
  /\ answer \in [1..made -> 0..made]
  /\ pending \in [Calls -> 0..made]

noPending == [i \in Calls |-> 0]

ClientInit ==
  /\ reqId = [c \in Clients |-> 0]
  /\ client = <<>> /\ id = <<>> /\ at = <<>>
  /\ outcome = <<>> /\ answer = <<>>
  /\ pending = noPending

freshId_Reused(c) == IF reqId[c] = 0 THEN 1 ELSE reqId[c]

(* ++reqId *)
freshId(c) == reqId[c] + 1

(* executeCall enters transport.call(), which runs to its first await. *)
Make(c, stage) ==
  /\ made < MaxCalls
  /\ reqId' = [reqId EXCEPT ![c] = freshId(c)]
  /\ client' = Append(client, c)
  /\ id' = Append(id, freshId(c))
  /\ at' = Append(at, stage)
  /\ outcome' = Append(outcome, "none")
  /\ answer' = Append(answer, 0)
  /\ UNCHANGED pending

(* The promises of getSocket() or getConn() that these calls wait for.     *)
Connected(calls) ==
  /\ at' = [n \in 1..made |-> IF n \in calls THEN "ready" ELSE at[n]]
  /\ UNCHANGED <<reqId, client, id, outcome, answer, pending>>

Refused(calls) ==
  /\ at' = [n \in 1..made |-> IF n \in calls THEN "settled" ELSE at[n]]
  /\ outcome' = [n \in 1..made |->
        IF n \in calls /\ outcome[n] = "none" THEN "failed" ELSE outcome[n]]
  /\ UNCHANGED <<reqId, client, id, answer, pending>>

Register_Not(n) ==
  /\ at[n] = "ready"
  /\ at' = [at EXCEPT ![n] = "waiting"]
  /\ UNCHANGED <<reqId, client, id, outcome, answer, pending>>

(* pending.set(): the entry of an earlier call with this id is lost.       *)
Register(n) ==
  /\ at[n] = "ready"
  /\ at' = [at EXCEPT ![n] = "waiting"]
  /\ pending' = [pending EXCEPT ![id[n]] = n]
  /\ UNCHANGED <<reqId, client, id, outcome, answer>>

(* A reply settles the call registered under its id, if there is one.      *)
(* executeCall passes on the answer, the method's result or its error,     *)
(* unless its timer was faster.                                            *)
SettleWith(reply, n) ==
  /\ pending' = [pending EXCEPT ![id[n]] = 0]
  /\ at' = [at EXCEPT ![n] = "settled"]
  /\ IF outcome[n] = "none"
     THEN /\ outcome' = [outcome EXCEPT ![n] = "answered"]
          /\ answer' = [answer EXCEPT ![n] = reply]
     ELSE UNCHANGED <<outcome, answer>>
  /\ UNCHANGED <<reqId, client, id>>

Settle(reply) ==
  IF reply # NoId /\ pending[id[reply]] # 0
  THEN SettleWith(reply, pending[id[reply]])
  ELSE UNCHANGED clientVars

TimeOut_OnceSent(n) ==
  /\ client[n] \in Timed /\ outcome[n] = "none" /\ at[n] = "waiting"
  /\ outcome' = [outcome EXCEPT ![n] = "timeout"]
  /\ UNCHANGED <<reqId, client, id, at, answer, pending>>

(* The timer wins the race; transport.call() itself goes on. *)
TimeOut(n) ==
  /\ client[n] \in Timed /\ outcome[n] = "none"
  /\ outcome' = [outcome EXCEPT ![n] = "timeout"]
  /\ UNCHANGED <<reqId, client, id, at, answer, pending>>

(* pending.clear(): nobody is told. *)
Forget ==
  /\ pending' = noPending
  /\ UNCHANGED <<reqId, client, id, at, outcome, answer>>

-----------------------------------------------------------------------------
(* Properties *)

(* However calls, replies, timeouts and new connections interleave, a call *)
(* is settled with the answer to its own request; only another client of   *)
(* the same transport, whose ids also count from 1, can take its place.    *)
sameId(n, m) == id[n] = id[m] /\ client[n] # client[m]
AnswersOwnCall ==
  \A n \in 1..made : outcome[n] = "answered" =>
     answer[n] = n \/ (answer[n] # 0 /\ sameId(n, answer[n]))

(* A call that was sent stays registered until it is settled: only close() *)
(* and a call of another client under the same id make the transport       *)
(* forget it; neither a timeout nor a lost connection does.                *)
forgotten == {n \in 1..made : at[n] = "waiting" /\ pending[id[n]] # n}
ForgottenOnlyByClose ==
  [][\A n \in forgotten' \ forgotten :
        Forget \/ (pending'[id[n]] # 0 /\ sameId(n, pending'[id[n]]))]_clientVars
=============================================================================
