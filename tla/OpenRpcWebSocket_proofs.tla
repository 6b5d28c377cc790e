------------------------ MODULE OpenRpcWebSocket_proofs ------------------------
(***************************************************************************)
(* What holds of OpenRPC clients on a WebSocket transport, for any clients *)
(* and any number of calls and sockets.                                    *)
(***************************************************************************)
EXTENDS OpenRpcWebSocket, OpenRpcClient_proofs

Inv == ClientInv /\ SocketsTypeOK

(* Messages of the calls made so far stay messages of calls.               *)
LEMMA WiresGrow ==
  ASSUME SocketsTypeOK, made \in Nat, made' = made + 1,
         UNCHANGED wireVars
  PROVE  /\ toServer' \in [1..MaxSockets -> Seq(1..made')]
         /\ toClient' \in [1..MaxSockets -> Seq(0..made')]
         /\ serving' \subseteq 1..made'
<1>1. (1..made) \subseteq (1..made') /\ (0..made) \subseteq (0..made')
  OBVIOUS
<1>2. \A s \in 1..MaxSockets : toServer[s] \in Seq(1..made) /\ toClient[s] \in Seq(0..made)
  BY DEF SocketsTypeOK
<1>3. \A s \in 1..MaxSockets : toServer[s] \in Seq(1..made') /\ toClient[s] \in Seq(0..made')
  BY <1>1, <1>2, SeqMonotonic
<1> QED
  BY <1>1, <1>3 DEF SocketsTypeOK, wireVars

LEMMA AtFirst == Init => Inv
<1> SUFFICES ASSUME Init PROVE Inv
  OBVIOUS
<1>1. ClientInv /\ made = 0
  BY ClientAtFirst DEF Init, ClientInit, made
<1>2. socketOf \in [1..made -> 1..MaxSockets]
  BY <1>1 DEF Init
<1>3. sockets \in Seq(States) /\ Len(sockets) <= MaxSockets /\ evented \in BOOLEAN
  <2>1. sockets \in {<<>>, <<"connecting">>, <<"open">>} /\ evented \in BOOLEAN
    BY DEF Init
  <2>2. CASE sockets = <<>>
    BY <2>1, <2>2, MaxSocketsAssumption
  <2>3. CASE sockets = <<"connecting">>
    BY <2>1, <2>3, MaxSocketsAssumption DEF States
  <2>4. CASE sockets = <<"open">>
    BY <2>1, <2>4, MaxSocketsAssumption DEF States
  <2> QED
    BY <2>1, <2>2, <2>3, <2>4
<1>4. /\ hearing \subseteq 1..made /\ serving \subseteq 1..made
      /\ toServer \in [1..MaxSockets -> Seq(1..made)]
      /\ toClient \in [1..MaxSockets -> Seq(0..made)]
  <2>1. <<>> \in Seq(1..made) /\ <<>> \in Seq(0..made)
    OBVIOUS
  <2> QED
    BY <2>1 DEF Init
<1> QED
  BY <1>1, <1>2, <1>3, <1>4 DEF Inv, SocketsTypeOK

-----------------------------------------------------------------------------
(* A call is made on a socket there is.                                    *)
LEMMA CallsKeep ==
  ASSUME Inv, NEW c \in Clients, CallOnOpen(c) \/ CallOnConnecting(c) \/ CallOpening(c)
  PROVE  Inv' /\ ForgetsOnlyByClose
<1>0. ClientInv /\ SocketsTypeOK /\ current \in Nat /\ current <= MaxSockets
  BY DEF Inv, SocketsTypeOK, current
<1>1. Make(c, "ready") \/ Make(c, "opening")
  BY DEF CallOnOpen, CallOnConnecting, CallOpening
<1>2. ClientInv' /\ ForgetsOnlyByClose /\ made' = made + 1
  BY <1>0, <1>1, MakeKeeps
<1>3. made \in Nat
  BY <1>0, MadeIsNat DEF ClientInv
<1>4. UNCHANGED wireVars
  BY DEF CallOnOpen, CallOnConnecting, CallOpening
<1>5. PICK s \in 1..MaxSockets : socketOf' = Append(socketOf, s)
  <2>1. CASE CallOnOpen(c) \/ CallOnConnecting(c)
    <3>1. current > 0 /\ socketOf' = Append(socketOf, current)
      BY <2>1 DEF CallOnOpen, CallOnConnecting, currentIs
    <3> QED
      BY <1>0, <3>1, MaxSocketsAssumption
  <2>2. CASE CallOpening(c)
    BY <1>0, <2>2, MaxSocketsAssumption DEF CallOpening
  <2> QED
    BY <2>1, <2>2
<1>6. socketOf' \in [1..made' -> 1..MaxSockets]
  <2>1. socketOf \in [1..made -> 1..MaxSockets]
    BY <1>0 DEF SocketsTypeOK
  <2>2. socketOf \in Seq(1..MaxSockets) /\ Len(socketOf) = made
    BY <1>3, <2>1, FunctionIsSeq
  <2>3. socketOf' \in Seq(1..MaxSockets) /\ Len(socketOf') = made + 1
    BY <1>5, <2>2
  <2> QED
    BY <1>2, <2>3, LenProperties
<1>7. hearing' \subseteq 1..made'
  <2>1. hearing \subseteq 1..made'
    BY <1>0, <1>2, <1>3 DEF SocketsTypeOK
  <2>2. made + 1 \in 1..made'
    BY <1>2, <1>3
  <2> QED
    BY <2>1, <2>2 DEF CallOnOpen, CallOnConnecting, CallOpening, socketVars
<1>8. sockets' \in Seq(States) /\ Len(sockets') <= MaxSockets /\ evented' \in BOOLEAN
  <2>1. sockets \in Seq(States) /\ Len(sockets) <= MaxSockets /\ evented \in BOOLEAN
    BY <1>0 DEF SocketsTypeOK
  <2>2. CASE CallOnOpen(c) \/ CallOnConnecting(c)
    BY <2>1, <2>2 DEF CallOnOpen, CallOnConnecting, socketVars
  <2>3. CASE CallOpening(c)
    BY <2>1, <2>3, MaxSocketsAssumption DEF CallOpening, States, current
  <2> QED
    BY <2>2, <2>3
<1> QED
  BY <1>0, <1>2, <1>3, <1>4, <1>6, <1>7, <1>8, WiresGrow DEF Inv, SocketsTypeOK

LEMMA SendKeeps ==
  ASSUME Inv, NEW n \in 1..made, Send(n)
  PROVE  Inv' /\ ForgetsOnlyByClose
<1>1. ClientInv' /\ ForgetsOnlyByClose /\ made' = made
  BY RegisterKeeps DEF Inv, Send, Register, made
<1>2. toServer' \in [1..MaxSockets -> Seq(1..made)]
  <2>1. socketOf[n] \in 1..MaxSockets /\ toServer \in [1..MaxSockets -> Seq(1..made)]
    BY DEF Inv, SocketsTypeOK
  <2>2. Append(toServer[socketOf[n]], n) \in Seq(1..made)
    BY <2>1
  <2> QED
    BY <2>1, <2>2 DEF Send
<1> QED
  BY <1>1, <1>2 DEF Inv, SocketsTypeOK, Send, socketVars

LEMMA ReceiveKeeps ==
  ASSUME Inv, NEW s \in 1..current, Receive(s)
  PROVE  Inv' /\ ForgetsOnlyByClose
<1>1. s \in 1..MaxSockets
  BY MaxSocketsAssumption DEF Inv, SocketsTypeOK, current
<1>2. toClient[s] \in Seq(0..made) /\ toClient[s] # <<>>
  BY <1>1 DEF Inv, SocketsTypeOK, Receive
<1>3. Head(toClient[s]) \in 0..made /\ Tail(toClient[s]) \in Seq(0..made)
  BY <1>2, HeadTailProperties
<1>4. ClientInv' /\ ForgetsOnlyByClose
  BY <1>3, SettleKeeps DEF Inv, Receive
<1>5. made' = made
  BY DEF Receive, Settle, SettleWith, clientVars, made
<1> QED
  BY <1>1, <1>3, <1>4, <1>5 DEF Inv, SocketsTypeOK, Receive, socketVars

(* The two events of a socket that is opening.                             *)
LEMMA SocketEventsKeep ==
  ASSUME Inv, NEW s \in 1..current, Opens(s) \/ FailsToOpen(s)
  PROVE  Inv' /\ ForgetsOnlyByClose
<1>1. waitingFor(s) \in SUBSET (1..made)
  BY DEF Inv, SocketsTypeOK, waitingFor
<1>2. Connected(waitingFor(s)) \/ Refused(waitingFor(s))
  BY DEF Opens, FailsToOpen
<1>3. ClientInv' /\ ForgetsOnlyByClose
  BY <1>1, <1>2, EventsKeep DEF Inv
<1>4. made' = made
  BY DEF Opens, FailsToOpen, Connected, Refused, made
<1>5. sockets' \in Seq(States) /\ Len(sockets') = Len(sockets)
  <2>1. sockets \in Seq(States) /\ s \in 1..Len(sockets)
    BY DEF Inv, SocketsTypeOK, current
  <2> QED
    BY <2>1 DEF Opens, FailsToOpen, States
<1> QED
  BY <1>3, <1>4, <1>5 DEF Inv, SocketsTypeOK, Opens, FailsToOpen, wireVars

LEMMA CloseKeeps ==
  ASSUME Inv, close
  PROVE  Inv' /\ ForgetsOnlyByClose
<1>1. ClientInv' /\ ForgetsOnlyByClose /\ made' = made
  BY ForgetKeeps DEF Inv, close, Forget, made
<1>2. sockets' \in Seq(States) /\ Len(sockets') = Len(sockets)
  <2>1. sockets \in Seq(States)
    BY DEF Inv, SocketsTypeOK
  <2>2. CASE currentIs({"connecting", "open"})
    <3>1. current \in 1..Len(sockets) /\ sockets' = [sockets EXCEPT ![current] = "closing"]
      BY <2>1, <2>2 DEF close, currentIs, current
    <3> QED
      BY <2>1, <3>1 DEF States
  <2>3. CASE ~currentIs({"connecting", "open"})
    BY <2>1, <2>3 DEF close
  <2> QED
    BY <2>2, <2>3
<1> QED
  BY <1>1, <1>2 DEF Inv, SocketsTypeOK, close, wireVars

(* What happens to the socket and on the server leaves the clients alone.  *)
LEMMA OutsideKeeps ==
  ASSUME Inv, \/ \E s \in 1..current : Drops(s) \/ Serve(s)
              \/ \E n \in 1..made : Reply(n)
  PROVE  Inv' /\ ForgetsOnlyByClose
<1>0. ASSUME UNCHANGED clientVars PROVE ClientInv' /\ ForgetsOnlyByClose /\ made' = made
  BY <1>0, StepsKeepClient DEF Inv, ClientStep, clientVars, made
<1>1. ASSUME NEW s \in 1..current, Drops(s)
      PROVE  Inv' /\ ForgetsOnlyByClose
  <2>1. sockets \in Seq(States) /\ s \in 1..Len(sockets)
    BY DEF Inv, SocketsTypeOK, current
  <2>2. sockets' \in Seq(States) /\ Len(sockets') = Len(sockets)
    BY <1>1, <2>1 DEF Drops, States
  <2> QED
    BY <1>0, <1>1, <2>2 DEF Inv, SocketsTypeOK, Drops, wireVars
<1>2. ASSUME NEW s \in 1..current, Serve(s)
      PROVE  Inv' /\ ForgetsOnlyByClose
  <2>1. s \in 1..MaxSockets
    BY MaxSocketsAssumption DEF Inv, SocketsTypeOK, current
  <2>2. toServer[s] \in Seq(1..made) /\ toServer[s] # <<>>
    BY <1>2, <2>1 DEF Inv, SocketsTypeOK, Serve
  <2>3. Head(toServer[s]) \in 1..made /\ Tail(toServer[s]) \in Seq(1..made)
    BY <2>2, HeadTailProperties
  <2> QED
    BY <1>0, <1>2, <2>1, <2>3 DEF Inv, SocketsTypeOK, Serve, socketVars
<1>3. ASSUME NEW n \in 1..made, Reply(n)
      PROVE  Inv' /\ ForgetsOnlyByClose
  <2>1. PICK reply \in {n, NoId} :
          toClient' = [toClient EXCEPT ![socketOf[n]] = Append(@, reply)]
    BY <1>3 DEF Reply
  <2>2. reply \in 0..made /\ socketOf[n] \in 1..MaxSockets /\ toClient \in [1..MaxSockets -> Seq(0..made)]
    <3>1. made \in Nat
      BY MadeIsNat DEF Inv, ClientInv
    <3> QED
      BY <3>1 DEF NoId, Inv, SocketsTypeOK
  <2>3. Append(toClient[socketOf[n]], reply) \in Seq(0..made)
    BY <2>2
  <2>4. toClient' \in [1..MaxSockets -> Seq(0..made)]
    BY <2>1, <2>2, <2>3
  <2> QED
    BY <1>0, <1>3, <2>4 DEF Inv, SocketsTypeOK, Reply, socketVars
<1> QED
  BY <1>1, <1>2, <1>3

LEMMA StepsKeep ==
  ASSUME Inv, [Next]_vars
  PROVE  Inv' /\ ForgetsOnlyByClose
<1>1. CASE UNCHANGED vars
  <2>1. ClientInv' /\ ForgetsOnlyByClose
    BY <1>1, StepsKeepClient DEF Inv, ClientStep, vars
  <2> QED
    BY <1>1, <2>1 DEF Inv, SocketsTypeOK, vars, clientVars, socketVars, wireVars, made
<1>2. ASSUME NEW n \in 1..made, TimesOut(n)
      PROVE  Inv' /\ ForgetsOnlyByClose
  <2>1. ClientInv' /\ ForgetsOnlyByClose
    BY <1>2, TimeOutKeeps DEF Inv, TimesOut
  <2> QED
    BY <1>2, <2>1 DEF Inv, SocketsTypeOK, TimesOut, TimeOut, socketVars, wireVars, made
<1> QED
  BY <1>1, <1>2, CallsKeep, SendKeeps, ReceiveKeeps, SocketEventsKeep, CloseKeeps, OutsideKeeps DEF Next

-----------------------------------------------------------------------------
(* Every reachable state of clients, sockets and server is well typed.     *)
THEOREM WebSocketTypeCorrect == Spec => []TypeOK
<1>1. Inv /\ [Next]_vars => Inv'
  BY StepsKeep
<1>2. Inv => TypeOK
  BY DEF Inv, ClientInv, TypeOK
<1> QED
  BY AtFirst, <1>1, <1>2, PTL DEF Spec

(* However calls, replies, timeouts and sockets interleave, a call is      *)
(* settled by the answer to its own request or to another client's request *)
(* of the same id.                                                         *)
THEOREM WebSocketAnswersOwnCall == Spec => []AnswersOwnCall
<1>1. Inv /\ [Next]_vars => Inv'
  BY StepsKeep
<1>2. Inv => AnswersOwnCall
  BY DEF Inv, ClientInv
<1> QED
  BY AtFirst, <1>1, <1>2, PTL DEF Spec

(* Only close() and another client's call of the same id make the          *)
(* transport forget a call that waits for its reply.                       *)
THEOREM WebSocketForgetsOnlyByClose == Spec => ForgottenOnlyByClose
<1>1. Inv /\ [Next]_vars => Inv'
  BY StepsKeep
<1>2. Inv /\ [Next]_vars =>
        [\A n \in forgotten' \ forgotten :
           Forget \/ (pending'[id[n]] # 0 /\ sameId(n, pending'[id[n]]))]_clientVars
  BY StepsKeep DEF ForgetsOnlyByClose
<1> QED
  BY AtFirst, <1>1, <1>2, PTL DEF Spec, ForgottenOnlyByClose
=============================================================================
