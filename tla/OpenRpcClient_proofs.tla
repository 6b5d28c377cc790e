------------------------- MODULE OpenRpcClient_proofs -------------------------
(***************************************************************************)
(* What holds of OpenRPC clients over any message transport: for any       *)
(* clients, any number of calls and any order of their replies.  The two   *)
(* transports' proofs rest on the lemma StepsKeepClient.                   *)
(***************************************************************************)
EXTENDS OpenRpcClient, SequenceTheorems, TLAPS

(* Ids of one client are the numbers up to its last, each used once.       *)
IdsAreFresh ==
  /\ \A c \in Clients : reqId[c] <= made
  /\ \A n \in 1..made : id[n] <= reqId[client[n]]
  /\ \A n, m \in 1..made : n # m /\ id[n] = id[m] => client[n] # client[m]

PendingUnderItsId == \A i \in Calls : pending[i] # 0 => id[pending[i]] = i

ClientInv == ClientTypeOK /\ IdsAreFresh /\ PendingUnderItsId /\ AnswersOwnCall

(* What a transport may do to the clients' state.                          *)
ClientStep ==
  \/ \E c \in Clients, stage \in {"opening", "ready"} : Make(c, stage)
  \/ \E calls \in SUBSET (1..made) : Connected(calls) \/ Refused(calls)
  \/ \E n \in 1..made : Register(n) \/ TimeOut(n)
  \/ \E reply \in 0..made : Settle(reply)
  \/ Forget
  \/ UNCHANGED clientVars

ForgetsOnlyByClose ==
  \A n \in forgotten' \ forgotten :
     Forget \/ (pending'[id[n]] # 0 /\ sameId(n, pending'[id[n]]))

-----------------------------------------------------------------------------
(* A function on 1..n is a sequence of length n.                           *)
LEMMA FunctionIsSeq ==
  ASSUME NEW S, NEW n \in Nat, NEW f \in [1..n -> S]
  PROVE  f \in Seq(S) /\ Len(f) = n
OBVIOUS

LEMMA MadeIsNat == ClientTypeOK => made \in Nat
BY DEF ClientTypeOK, made

LEMMA ClientAtFirst == ClientInit => ClientInv
<1> SUFFICES ASSUME ClientInit PROVE ClientInv
  OBVIOUS
<1>1. made = 0 /\ 1..made = {}
  BY DEF ClientInit, made
<1>2. /\ client \in Seq(Clients) /\ id \in [1..made -> Calls] /\ at \in [1..made -> Stages]
      /\ outcome \in [1..made -> Outcomes] /\ answer \in [1..made -> 0..made]
  BY <1>1 DEF ClientInit
<1>3. pending \in [Calls -> 0..made] /\ \A i \in Calls : pending[i] = 0
  BY <1>1 DEF ClientInit, noPending
<1>4. reqId \in [Clients -> 0..MaxCalls] /\ \A c \in Clients : reqId[c] = 0
  BY MaxCallsAssumption DEF ClientInit
<1>5. ClientTypeOK
  BY <1>1, <1>2, <1>3, <1>4, MaxCallsAssumption DEF ClientTypeOK
<1>6. IdsAreFresh
  BY <1>1, <1>4 DEF IdsAreFresh
<1>7. PendingUnderItsId
  BY <1>3 DEF PendingUnderItsId
<1>8. AnswersOwnCall
  BY <1>1 DEF AnswersOwnCall
<1> QED
  BY <1>5, <1>6, <1>7, <1>8 DEF ClientInv

(* A new call has an id that its client has not used.                      *)
LEMMA MakeKeeps ==
  ASSUME ClientInv, NEW c \in Clients, NEW stage \in {"opening", "ready"}, Make(c, stage)
  PROVE  ClientInv' /\ ForgetsOnlyByClose /\ made' = made + 1
<1> USE DEF ClientInv
<1>0. made \in Nat /\ client \in Seq(Clients) /\ made = Len(client)
  BY MadeIsNat DEF ClientTypeOK, made
<1>1. made' = made + 1 /\ made < MaxCalls /\ made + 1 \in Calls
  BY <1>0, MaxCallsAssumption DEF Make, made, Calls
<1>2. client' \in Seq(Clients) /\ client'[made + 1] = c /\ \A n \in 1..made : client'[n] = client[n]
  BY <1>0 DEF Make
<1>3. reqId[c] \in Nat /\ freshId(c) = reqId[c] + 1 /\ freshId(c) \in Calls
  BY <1>0, <1>1, MaxCallsAssumption DEF ClientTypeOK, IdsAreFresh, freshId, Calls
<1>4. /\ id' \in [1..(made + 1) -> Calls]
      /\ id'[made + 1] = freshId(c) /\ \A n \in 1..made : id'[n] = id[n]
  <2>0. id \in [1..made -> Calls] /\ made \in Nat
    BY <1>0 DEF ClientTypeOK
  <2>1. id \in Seq(Calls) /\ Len(id) = made
    BY <2>0
  <2>2. /\ id' \in Seq(Calls) /\ Len(id') = made + 1
        /\ id'[made + 1] = freshId(c)
        /\ \A n \in 1..made : id'[n] = id[n]
    BY <1>0, <1>3, <2>1 DEF Make
  <2> QED
    BY <2>2, LenProperties
<1>5. /\ at' \in [1..(made + 1) -> Stages]
      /\ at'[made + 1] = stage /\ \A n \in 1..made : at'[n] = at[n]
  <2>0. at \in [1..made -> Stages] /\ made \in Nat
    BY <1>0 DEF ClientTypeOK
  <2>1. at \in Seq(Stages) /\ Len(at) = made
    BY <2>0
  <2>2. /\ at' \in Seq(Stages) /\ Len(at') = made + 1
        /\ at'[made + 1] = stage
        /\ \A n \in 1..made : at'[n] = at[n]
    BY <1>0, <2>1 DEF Make, Stages
  <2> QED
    BY <2>2, LenProperties
<1>6. /\ outcome' \in [1..(made + 1) -> Outcomes]
      /\ outcome'[made + 1] = "none" /\ \A n \in 1..made : outcome'[n] = outcome[n]
  <2>0. outcome \in [1..made -> Outcomes] /\ made \in Nat
    BY <1>0 DEF ClientTypeOK
  <2>1. outcome \in Seq(Outcomes) /\ Len(outcome) = made
    BY <2>0
  <2>2. /\ outcome' \in Seq(Outcomes) /\ Len(outcome') = made + 1
        /\ outcome'[made + 1] = "none"
        /\ \A n \in 1..made : outcome'[n] = outcome[n]
    BY <1>0, <2>1 DEF Make, Outcomes
  <2> QED
    BY <2>2, LenProperties
<1>7. /\ answer' \in [1..(made + 1) -> 0..(made + 1)]
      /\ \A n \in 1..made : answer'[n] = answer[n]
  <2>0. answer \in [1..made -> 0..(made + 1)] /\ made \in Nat
    BY <1>0 DEF ClientTypeOK
  <2>1. answer \in Seq(0..(made + 1)) /\ Len(answer) = made
    BY <2>0
  <2>2. /\ answer' \in Seq(0..(made + 1)) /\ Len(answer') = made + 1
        /\ \A n \in 1..made : answer'[n] = answer[n]
    BY <1>0, <2>1 DEF Make
  <2> QED
    BY <2>2, LenProperties
<1>8. pending' = pending /\ pending \in [Calls -> 0..(made + 1)]
  BY <1>0 DEF ClientTypeOK, Make
<1>9. /\ reqId' \in [Clients -> 0..MaxCalls] /\ reqId'[c] = freshId(c)
      /\ \A d \in Clients \ {c} : reqId'[d] = reqId[d]
  BY <1>3, MaxCallsAssumption DEF ClientTypeOK, Make, Calls
<1>10. ClientTypeOK'
  BY <1>0, <1>1, <1>2, <1>4, <1>5, <1>6, <1>7, <1>8, <1>9, MaxCallsAssumption, SMTT(20) DEF ClientTypeOK, Calls
<1>11. IdsAreFresh'
  <2>1. \A d \in Clients : reqId'[d] <= made'
    <3>1. TAKE d \in Clients
    <3>2. reqId[d] \in Nat /\ reqId[d] <= made
      BY MaxCallsAssumption DEF IdsAreFresh, ClientTypeOK
    <3>3. reqId[c] <= made
      BY DEF IdsAreFresh
    <3> QED
      BY <1>0, <1>1, <1>3, <1>9, <3>1, <3>2, <3>3
  <2>2. \A n \in 1..made : client[n] \in Clients /\ id[n] \in Nat /\ reqId[client[n]] \in Nat /\ id[n] <= reqId[client[n]]
    BY <1>0, MaxCallsAssumption DEF ClientTypeOK, IdsAreFresh, Calls
  <2>3. \A n \in 1..made' : id'[n] <= reqId'[client'[n]]
    <3>1. TAKE n \in 1..made'
    <3>2. CASE n = made + 1
      BY <1>2, <1>3, <1>4, <1>9, <3>2
    <3>3. CASE n \in 1..made
      <4>1. id'[n] = id[n] /\ client'[n] = client[n] /\ client[n] \in Clients
        BY <1>2, <1>4, <2>2, <3>3
      <4>2. reqId[client[n]] <= reqId'[client[n]]
        BY <1>3, <1>9, <2>2, <3>3, <4>1
      <4>3. reqId'[client[n]] \in Nat
        BY <1>9, <4>1, MaxCallsAssumption
      <4> QED
        BY <2>2, <3>3, <4>1, <4>2, <4>3
    <3> QED
      BY <1>0, <1>1, <3>1, <3>2, <3>3
  <2>4. \A n \in 1..made : client[n] = c => id[n] # freshId(c)
    BY <1>3, <2>2
  <2>5. \A n, m \in 1..made' : n # m /\ id'[n] = id'[m] => client'[n] # client'[m]
    <3>1. TAKE n, m \in 1..made'
    <3>2. n \in 1..made \/ n = made + 1
      BY <1>0, <1>1, <3>1
    <3>3. m \in 1..made \/ m = made + 1
      BY <1>0, <1>1, <3>1
    <3> QED
      BY <1>2, <1>4, <2>4, <3>2, <3>3 DEF IdsAreFresh
  <2> QED
    BY <2>1, <2>3, <2>5 DEF IdsAreFresh
<1>12. PendingUnderItsId'
  <2>1. \A i \in Calls : pending[i] # 0 => pending[i] \in 1..made
    BY <1>0 DEF ClientTypeOK
  <2> QED
    BY <1>4, <1>8, <2>1 DEF PendingUnderItsId, Calls
<1>13. AnswersOwnCall'
  <2>1. \A n \in 1..made : answer[n] \in 0..made
    BY DEF ClientTypeOK
  <2>2. ASSUME NEW n \in 1..made', outcome'[n] = "answered"
        PROVE  \/ answer'[n] = n
               \/ answer'[n] # 0 /\ id'[n] = id'[answer'[n]] /\ client'[n] # client'[answer'[n]]
    <3>1. n \in 1..made
      BY <1>0, <1>1, <1>6, <2>2
    <3>2. answer[n] = n \/ (answer[n] \in 1..made /\ sameId(n, answer[n]))
      BY <1>0, <1>6, <2>1, <2>2, <3>1 DEF AnswersOwnCall
    <3>3. answer'[n] = answer[n]
      BY <1>7, <3>1
    <3>4. CASE answer[n] = n
      BY <3>3, <3>4
    <3>5. CASE answer[n] \in 1..made /\ sameId(n, answer[n])
      <4>1. id'[n] = id'[answer[n]] /\ client'[n] # client'[answer[n]]
        BY <1>2, <1>4, <3>1, <3>5 DEF sameId
      <4>2. answer[n] # 0
        BY <1>0, <3>5
      <4> QED
        BY <3>3, <4>1, <4>2
    <3> QED
      BY <3>2, <3>4, <3>5
  <2> QED
    BY <2>2 DEF AnswersOwnCall, sameId
<1>14. ForgetsOnlyByClose
  <2>1. ASSUME NEW n \in forgotten' PROVE n \in forgotten
    <3>1. n \in 1..made' /\ at'[n] = "waiting" /\ pending'[id'[n]] # n
      BY DEF forgotten
    <3>2. n \in 1..made
      BY <1>0, <1>1, <1>5, <3>1
    <3> QED
      BY <1>4, <1>5, <1>8, <3>1, <3>2 DEF forgotten
  <2> QED
    BY <2>1 DEF ForgetsOnlyByClose
<1> QED
  BY <1>1, <1>10, <1>11, <1>12, <1>13, <1>14

(* Every other step leaves the calls that were made and their ids.         *)
LEMMA IdsStay ==
  ASSUME ClientInv, UNCHANGED <<reqId, client, id>>
  PROVE  IdsAreFresh' /\ made' = made
BY DEF ClientInv, IdsAreFresh, made

LEMMA EventsKeep ==
  ASSUME ClientInv, NEW calls \in SUBSET (1..made), Connected(calls) \/ Refused(calls)
  PROVE  ClientInv' /\ ForgetsOnlyByClose
<1> USE DEF ClientInv
<1>1. UNCHANGED <<reqId, client, id, answer, pending>> /\ made' = made /\ IdsAreFresh'
  BY IdsStay DEF Connected, Refused
<1>2. /\ at' \in [1..made -> Stages]
      /\ \A n \in 1..made : at'[n] = "waiting" => at[n] = "waiting"
  BY DEF Connected, Refused, ClientTypeOK, Stages
<1>3. /\ outcome' \in [1..made -> Outcomes]
      /\ \A n \in 1..made : outcome'[n] = "answered" => outcome[n] = "answered"
  BY DEF Connected, Refused, ClientTypeOK, Outcomes
<1>4. ClientTypeOK'
  BY <1>1, <1>2, <1>3 DEF ClientTypeOK
<1>5. PendingUnderItsId' /\ AnswersOwnCall'
  BY <1>1, <1>3 DEF PendingUnderItsId, AnswersOwnCall, sameId
<1>6. ForgetsOnlyByClose
  BY <1>1, <1>2 DEF ForgetsOnlyByClose, forgotten
<1> QED
  BY <1>1, <1>4, <1>5, <1>6

(* An entry that is overwritten was another client's.                      *)
LEMMA RegisterKeeps ==
  ASSUME ClientInv, NEW n \in 1..made, Register(n)
  PROVE  ClientInv' /\ ForgetsOnlyByClose
<1> USE DEF ClientInv
<1>1. UNCHANGED <<reqId, client, id, outcome, answer>> /\ made' = made /\ IdsAreFresh'
  BY IdsStay DEF Register
<1>2. made \in Nat /\ n \in 0..made /\ id[n] \in Calls
  <2>1. made \in Nat
    BY MadeIsNat
  <2> QED
    BY <2>1 DEF ClientTypeOK
<1>3. /\ pending' \in [Calls -> 0..made] /\ pending'[id[n]] = n
      /\ \A i \in Calls : i # id[n] => pending'[i] = pending[i]
  BY <1>2 DEF Register, ClientTypeOK
<1>4. at' \in [1..made -> Stages] /\ \A m \in 1..made : m # n => at'[m] = at[m]
  BY DEF Register, ClientTypeOK, Stages
<1>5. ClientTypeOK'
  BY <1>1, <1>3, <1>4 DEF ClientTypeOK
<1>6. PendingUnderItsId' /\ AnswersOwnCall'
  BY <1>1, <1>3 DEF PendingUnderItsId, AnswersOwnCall, sameId
<1>7. ASSUME NEW m \in forgotten' \ forgotten
      PROVE  pending'[id[m]] # 0 /\ sameId(m, pending'[id[m]])
  <2>1. m \in 1..made /\ at'[m] = "waiting" /\ pending'[id[m]] # m
    BY <1>1, <1>7 DEF forgotten
  <2>2. m # n
    BY <1>3, <2>1
  <2>3. at[m] = "waiting" /\ pending[id[m]] = m
    BY <1>4, <1>7, <2>1, <2>2 DEF forgotten
  <2>4. id[m] = id[n] /\ id[m] \in Calls
    BY <1>3, <2>1, <2>3 DEF ClientTypeOK
  <2>5. client[m] # client[n]
    BY <2>1, <2>2, <2>4 DEF IdsAreFresh
  <2> QED
    BY <1>2, <1>3, <2>4, <2>5 DEF sameId
<1> QED
  BY <1>1, <1>5, <1>6, <1>7 DEF ForgetsOnlyByClose

LEMMA TimeOutKeeps ==
  ASSUME ClientInv, NEW n \in 1..made, TimeOut(n)
  PROVE  ClientInv' /\ ForgetsOnlyByClose
<1> USE DEF ClientInv
<1>1. UNCHANGED <<reqId, client, id, at, answer, pending>> /\ made' = made /\ IdsAreFresh'
  BY IdsStay DEF TimeOut
<1>2. /\ outcome' \in [1..made -> Outcomes]
      /\ \A m \in 1..made : outcome'[m] = "answered" => outcome[m] = "answered"
  BY DEF TimeOut, ClientTypeOK, Outcomes
<1>3. ClientTypeOK'
  BY <1>1, <1>2 DEF ClientTypeOK
<1>4. PendingUnderItsId' /\ AnswersOwnCall'
  BY <1>1, <1>2 DEF PendingUnderItsId, AnswersOwnCall, sameId
<1>5. ForgetsOnlyByClose
  BY <1>1 DEF ForgetsOnlyByClose, forgotten
<1> QED
  BY <1>1, <1>3, <1>4, <1>5

(* The call a reply settles has the id of the call the reply answers.      *)
LEMMA SettleKeeps ==
  ASSUME ClientInv, NEW reply \in 0..made, Settle(reply)
  PROVE  ClientInv' /\ ForgetsOnlyByClose
<1> USE DEF ClientInv
<1>1. CASE UNCHANGED clientVars
  BY <1>1 DEF clientVars, ClientTypeOK, IdsAreFresh, PendingUnderItsId, AnswersOwnCall, sameId,
              ForgetsOnlyByClose, forgotten, made
<1>2. CASE reply # NoId /\ pending[id[reply]] # 0 /\ SettleWith(reply, pending[id[reply]])
  <2> DEFINE n == pending[id[reply]]
  <2>0. made \in Nat
    BY MadeIsNat
  <2>1. made \in Nat /\ reply \in 1..made /\ id[reply] \in Calls
    BY <1>2, <2>0 DEF ClientTypeOK, NoId
  <2>2. n \in 1..made /\ id[n] = id[reply]
    BY <1>2, <2>1 DEF ClientTypeOK, PendingUnderItsId
  <2>3. UNCHANGED <<reqId, client, id>> /\ made' = made /\ IdsAreFresh'
    BY <1>2, IdsStay DEF SettleWith
  <2>4. /\ pending' \in [Calls -> 0..made] /\ pending'[id[n]] = 0
        /\ \A i \in Calls : i # id[n] => pending'[i] = pending[i]
    BY <1>2, <2>1, <2>2 DEF SettleWith, ClientTypeOK
  <2>5. /\ at' \in [1..made -> Stages] /\ at'[n] = "settled"
        /\ \A m \in 1..made : m # n => at'[m] = at[m]
    BY <1>2, <2>2 DEF SettleWith, ClientTypeOK, Stages
  <2>6. /\ outcome' \in [1..made -> Outcomes] /\ answer' \in [1..made -> 0..made]
        /\ \A m \in 1..made : m # n => outcome'[m] = outcome[m] /\ answer'[m] = answer[m]
        /\ \/ outcome'[n] = outcome[n] /\ answer'[n] = answer[n]
           \/ answer'[n] = reply
    BY <1>2, <2>1, <2>2 DEF SettleWith, ClientTypeOK, Outcomes
  <2>7. ClientTypeOK'
    BY <2>3, <2>4, <2>5, <2>6 DEF ClientTypeOK
  <2>8. PendingUnderItsId'
    BY <2>3, <2>4 DEF PendingUnderItsId
  <2>9. reply = n \/ sameId(n, reply)
    BY <2>1, <2>2 DEF IdsAreFresh, sameId
  <2>10. AnswersOwnCall'
    BY <2>1, <2>2, <2>3, <2>6, <2>9 DEF AnswersOwnCall, sameId
  <2>11. ASSUME NEW m \in forgotten' PROVE m \in forgotten
    <3>1. m \in 1..made /\ at'[m] = "waiting" /\ pending'[id[m]] # m
      BY <2>3, <2>11 DEF forgotten
    <3>2. m # n /\ at[m] = "waiting"
      BY <2>5, <3>1
    <3>3. id[m] \in Calls /\ pending[id[m]] # m
      BY <2>2, <2>4, <3>1, <3>2 DEF ClientTypeOK
    <3> QED
      BY <3>1, <3>2, <3>3 DEF forgotten
  <2> QED
    BY <2>3, <2>7, <2>8, <2>10, <2>11 DEF ForgetsOnlyByClose
<1> QED
  BY <1>1, <1>2 DEF Settle

LEMMA ForgetKeeps ==
  ASSUME ClientInv, Forget
  PROVE  ClientInv' /\ ForgetsOnlyByClose
<1> USE DEF ClientInv
<1>1. UNCHANGED <<reqId, client, id, at, outcome, answer>> /\ made' = made /\ IdsAreFresh'
  BY IdsStay DEF Forget
<1>2. pending' \in [Calls -> 0..made] /\ \A i \in Calls : pending'[i] = 0
  BY MadeIsNat DEF Forget, noPending
<1>3. ClientTypeOK'
  BY <1>1, <1>2 DEF ClientTypeOK
<1>4. PendingUnderItsId' /\ AnswersOwnCall'
  BY <1>1, <1>2 DEF PendingUnderItsId, AnswersOwnCall, sameId
<1> QED
  BY <1>1, <1>3, <1>4 DEF ForgetsOnlyByClose

(* No step of a transport disturbs the clients: calls keep their types and *)
(* ids, an answer goes to the call that asked or to one with its id, and   *)
(* only close() or another client's call makes the transport forget one.   *)
LEMMA StepsKeepClient ==
  ASSUME ClientInv, ClientStep
  PROVE  ClientInv' /\ ForgetsOnlyByClose
<1>1. CASE UNCHANGED clientVars
  BY <1>1 DEF clientVars, ClientInv, ClientTypeOK, IdsAreFresh, PendingUnderItsId, AnswersOwnCall, sameId,
              ForgetsOnlyByClose, forgotten, made
<1> QED
  BY <1>1, MakeKeeps, EventsKeep, RegisterKeeps, TimeOutKeeps, SettleKeeps, ForgetKeeps DEF ClientStep
=============================================================================
