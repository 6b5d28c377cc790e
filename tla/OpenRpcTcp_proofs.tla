--------------------------- MODULE OpenRpcTcp_proofs ---------------------------
(***************************************************************************)
(* What holds of OpenRPC clients on a TCP transport, for any clients and   *)
(* any number of calls, connections and data events.                       *)
(***************************************************************************)
EXTENDS OpenRpcTcp, OpenRpcClient_proofs

Inv == ClientInv /\ WireTypeOK

Events(numbers) == [from : 1..MaxConns, pieces : Seq(PiecesOf(numbers))]

LEMMA MadeIsNumber == Inv => made \in Nat
BY MadeIsNat DEF Inv, ClientInv

LEMMA PiecesGrow ==
  ASSUME NEW N, NEW M, N \subseteq M
  PROVE  /\ \A q \in Seq(PiecesOf(N)) : q \in Seq(PiecesOf(M))
         /\ \A q \in Seq(TextOf(N)) : q \in Seq(TextOf(M))
         /\ \A q \in Seq(Events(N)) : q \in Seq(Events(M))
<1>1. PiecesOf(N) \subseteq PiecesOf(M)
  BY DEF PiecesOf
<1>2. \A q \in Seq(PiecesOf(N)) : q \in Seq(PiecesOf(M))
  BY <1>1, SeqMonotonic
<1>3. Events(N) \subseteq Events(M)
  BY <1>2 DEF Events
<1>4. TextOf(N) \subseteq TextOf(M)
  BY DEF TextOf
<1>5. \A q \in Seq(TextOf(N)) : q \in Seq(TextOf(M))
  BY <1>4, SeqMonotonic
<1>6. \A q \in Seq(Events(N)) : q \in Seq(Events(M))
  BY <1>3, SeqMonotonic
<1> QED
  BY <1>2, <1>5, <1>6

(* What a socket takes of a line is its pieces.                            *)
LEMMA TakenArePieces ==
  ASSUME NEW N, NEW n \in N, NEW way \in taken(n)
  PROVE  /\ way \in Seq(PiecesOf(N))
         /\ way = line(n) => Len(way) = 2 /\ way[1] = Start(n) /\ way[2] = End(n)
<1>1. Start(n) \in PiecesOf(N) /\ End(n) \in PiecesOf(N)
  BY DEF Start, End, PiecesOf
<1>2. line(n) = <<Start(n), End(n)>>
  BY DEF line
<1>3. way = line(n) \/ way = <<Start(n)>>
  BY DEF taken
<1>4. CASE way = <<Start(n), End(n)>>
  BY <1>1, <1>4
<1>5. CASE way = <<Start(n)>> /\ way # line(n)
  BY <1>1, <1>5
<1> QED
  BY <1>2, <1>3, <1>4, <1>5

LEMMA AtFirst == Init => Inv
<1> SUFFICES ASSUME Init PROVE Inv
  OBVIOUS
<1>1. ClientInv /\ made = 0
  BY ClientAtFirst DEF Init, ClientInit, made
<1>2. connOf \in [1..made -> 1..MaxConns]
  BY <1>1 DEF Init
<1>3. conns \in Seq(ConnStates) /\ Len(conns) <= MaxConns /\ conn \in 0..Len(conns)
  <2>1. CASE conns = <<>> /\ conn = 0
    BY <2>1, BoundsAssumption
  <2>2. CASE conns = <<"open">> /\ conn = 1
    BY <2>2, BoundsAssumption DEF ConnStates
  <2> QED
    BY <2>1, <2>2 DEF Init
<1>4. /\ buffer \in Seq(TextOf(0..made))
      /\ toServer \in [1..MaxConns -> Seq(PiecesOf(1..made))]
      /\ toClient \in [1..MaxConns -> Seq(PiecesOf(0..made))]
      /\ events \in Seq(Events(1..made))
  <2>1. /\ <<>> \in Seq(PiecesOf(0..made)) /\ <<>> \in Seq(PiecesOf(1..made))
        /\ <<>> \in Seq(TextOf(0..made)) /\ <<>> \in Seq(Events(1..made))
    OBVIOUS
  <2> QED
    BY <2>1 DEF Init
<1>5. /\ Len(events) <= MaxEvents /\ short \in BOOLEAN
      /\ lost \subseteq 0..made /\ cut \subseteq 0..made
      /\ split \subseteq 1..made /\ unread \subseteq 1..made
  <2>1. events = <<>> /\ short = FALSE /\ lost = {} /\ cut = {} /\ split = {} /\ unread = {}
    BY DEF Init
  <2>2. Len(events) = 0
    BY <2>1
  <2>3. Len(events) <= MaxEvents
    BY <2>2, BoundsAssumption
  <2> QED
    BY <2>1, <2>3
<1> QED
  BY <1>1, <1>2, <1>3, <1>4, <1>5 DEF Inv, WireTypeOK, Events

-----------------------------------------------------------------------------
(* The steps of the transport keep the types.                              *)
LEMMA CallsKeep ==
  ASSUME Inv, NEW c \in Clients, CallOnConn(c) \/ CallConnecting(c)
  PROVE  Inv'
<1>0. ClientInv /\ WireTypeOK /\ made \in Nat
  BY MadeIsNumber DEF Inv
<1>1. ClientInv' /\ made' = made + 1
  BY <1>0, MakeKeeps DEF CallOnConn, CallConnecting
<1>2. (0..made) \subseteq (0..made') /\ (1..made) \subseteq (1..made')
  BY <1>0, <1>1
<1>3. UNCHANGED <<buffer, toServer, toClient, events, split, unread, lost, cut, short>>
  BY DEF CallOnConn, CallConnecting, wireVars, eventVars
<1>4. /\ buffer \in Seq(TextOf(0..made'))
      /\ \A k \in 1..MaxConns : /\ toServer[k] \in Seq(PiecesOf(1..made'))
                                /\ toClient[k] \in Seq(PiecesOf(0..made'))
      /\ events \in Seq(Events(1..made'))
  BY <1>0, <1>2, PiecesGrow DEF WireTypeOK, Events
<1>5. /\ conns' \in Seq(ConnStates) /\ Len(conns') <= MaxConns /\ conn' \in 0..Len(conns')
  <2>1. conns \in Seq(ConnStates) /\ Len(conns) <= MaxConns /\ conn \in 0..Len(conns)
    BY <1>0 DEF WireTypeOK
  <2>2. CASE CallOnConn(c)
    BY <2>1, <2>2 DEF CallOnConn, connVars
  <2>3. CASE CallConnecting(c)
    BY <2>1, <2>3, BoundsAssumption DEF CallConnecting, ConnStates
  <2> QED
    BY <2>2, <2>3
<1>6. PICK k \in 1..MaxConns : connOf' = Append(connOf, k)
  <2>1. conns \in Seq(ConnStates) /\ Len(conns) <= MaxConns /\ conn \in 0..Len(conns)
    BY <1>0 DEF WireTypeOK
  <2>2. CASE CallOnConn(c)
    BY <2>1, <2>2, BoundsAssumption DEF CallOnConn
  <2>3. CASE CallConnecting(c)
    BY <2>1, <2>3, BoundsAssumption DEF CallConnecting
  <2> QED
    BY <2>2, <2>3
<1>7. connOf' \in [1..made' -> 1..MaxConns]
  <2>1. connOf \in [1..made -> 1..MaxConns]
    BY <1>0 DEF WireTypeOK
  <2>2. connOf \in Seq(1..MaxConns) /\ Len(connOf) = made
    BY <1>0, <2>1, FunctionIsSeq
  <2>3. connOf' \in Seq(1..MaxConns) /\ Len(connOf') = made + 1
    BY <1>6, <2>2
  <2> QED
    BY <1>1, <2>3, LenProperties
<1>8. /\ toServer \in [1..MaxConns -> Seq(PiecesOf(1..made'))]
      /\ toClient \in [1..MaxConns -> Seq(PiecesOf(0..made'))]
  BY <1>0, <1>4 DEF WireTypeOK
<1>9. /\ Len(events) <= MaxEvents /\ short \in BOOLEAN
      /\ lost \subseteq 0..made' /\ cut \subseteq 0..made' /\ split \subseteq 1..made' /\ unread \subseteq 1..made'
  BY <1>0, <1>2 DEF WireTypeOK
<1> QED
  BY <1>1, <1>3, <1>4, <1>5, <1>7, <1>8, <1>9 DEF Inv, WireTypeOK, Events

(* A connection comes up, fails, is lost, or is closed by the client.      *)
LEMMA ConnsKeep ==
  ASSUME Inv, (\E k \in 1..Len(conns) : Connects(k) \/ FailsToConnect(k) \/ Drops(k)) \/ close
  PROVE  Inv'
<1>0. ClientInv /\ WireTypeOK /\ made \in Nat
  BY MadeIsNumber DEF Inv
<1>1. conns \in Seq(ConnStates) /\ Len(conns) <= MaxConns /\ conn \in 0..Len(conns)
  BY <1>0 DEF WireTypeOK
<1>2. ASSUME NEW k \in 1..Len(conns), Connects(k) \/ FailsToConnect(k) \/ Drops(k)
      PROVE  ClientInv' /\ made' = made /\ conns' \in Seq(ConnStates) /\ Len(conns') = Len(conns) /\ conn' \in 0..Len(conns)
  <2>1. waitingFor(k) \in SUBSET (1..made)
    BY DEF waitingFor
  <2>2. ClientStep /\ made' = made
    BY <1>2, <2>1 DEF ClientStep, Connects, FailsToConnect, Drops, Connected, Refused, clientVars, made
  <2>3. ClientInv'
    BY <1>0, <2>2, StepsKeepClient
  <2>4. conns' \in Seq(ConnStates) /\ Len(conns') = Len(conns) /\ conn' \in 0..Len(conns)
    BY <1>1, <1>2 DEF Connects, FailsToConnect, Drops, ConnStates
  <2> QED
    BY <2>2, <2>3, <2>4
<1>3. ASSUME close
      PROVE  ClientInv' /\ made' = made /\ conns' \in Seq(ConnStates) /\ Len(conns') = Len(conns) /\ conn' \in 0..Len(conns)
  <2>1. ClientInv' /\ made' = made
    BY <1>0, <1>3, ForgetKeeps DEF close, Forget, made
  <2> QED
    BY <1>1, <1>3, <2>1 DEF close, ConnStates
<1>4. UNCHANGED <<connOf, buffer, wireVars, eventVars, lost, cut, short>>
  BY DEF Connects, FailsToConnect, Drops, close
<1> QED
  BY <1>0, <1>1, <1>2, <1>3, <1>4 DEF Inv, WireTypeOK, wireVars, eventVars

LEMMA SendKeeps ==
  ASSUME Inv, NEW n \in 1..made, Send(n)
  PROVE  Inv'
<1>0. ClientInv /\ WireTypeOK
  BY DEF Inv
<1>1. ClientInv' /\ made' = made
  BY <1>0, RegisterKeeps DEF Send, Register, made
<1>2. toServer' \in [1..MaxConns -> Seq(PiecesOf(1..made))] /\ short' \in BOOLEAN
  <2>1. connOf[n] \in 1..MaxConns /\ toServer[connOf[n]] \in Seq(PiecesOf(1..made))
    BY <1>0 DEF WireTypeOK
  <2>2. CASE conns[connOf[n]] = "open"
    <3>1. PICK way \in taken(n) : /\ toServer' = [toServer EXCEPT ![connOf[n]] = @ \o way]
                                  /\ short' = (short \/ way # line(n))
      BY <2>2 DEF Send
    <3>2. toServer[connOf[n]] \o way \in Seq(PiecesOf(1..made))
      BY <2>1, TakenArePieces, ConcatProperties
    <3>3. toServer' \in [1..MaxConns -> Seq(PiecesOf(1..made))]
      BY <1>0, <2>1, <3>1, <3>2 DEF WireTypeOK
    <3> QED
      BY <3>1, <3>3
  <2>3. CASE conns[connOf[n]] # "open"
    BY <1>0, <2>3 DEF WireTypeOK, Send
  <2> QED
    BY <2>2, <2>3
<1> QED
  BY <1>0, <1>1, <1>2 DEF Inv, WireTypeOK, Send, connVars, eventVars

(* A piece that is read is kept, or ends a line.                           *)
LEMMA ReceiveKeeps ==
  ASSUME Inv, NEW k \in 1..Len(conns), Receive(k)
  PROVE  Inv'
<1>0. ClientInv /\ WireTypeOK
  BY DEF Inv
<1>1. k \in 1..MaxConns /\ toClient[k] \in Seq(PiecesOf(0..made)) /\ toClient[k] # <<>>
  BY <1>0, BoundsAssumption, SMTT(20) DEF WireTypeOK, Receive
<1>2. Head(toClient[k]) \in PiecesOf(0..made) /\ Tail(toClient[k]) \in Seq(PiecesOf(0..made))
  BY <1>1, HeadTailProperties
<1>a. PICK piece \in decoded(Head(toClient[k])) : ReadPiece(k, piece, Append(buffer, piece))
  BY DEF Receive
<1>3. piece \in TextOf(0..made) /\ piece[1] \in 0..made
  BY <1>2 DEF PiecesOf, TextOf, decoded, Cut
<1>4. ClientStep /\ made' = made
  BY <1>3, <1>a DEF ReadPiece, ClientStep, Settle, SettleWith, clientVars, made
<1>5. ClientInv'
  BY <1>0, <1>4, StepsKeepClient
<1>6. buffer' \in Seq(TextOf(0..made)) /\ lost' \subseteq 0..made /\ cut' \subseteq 0..made
  <2>1. buffer \in Seq(TextOf(0..made)) /\ lost \subseteq 0..made /\ cut \subseteq 0..made
    BY <1>0 DEF WireTypeOK
  <2>2. Append(buffer, piece) \in Seq(TextOf(0..made)) /\ <<>> \in Seq(TextOf(0..made))
    BY <1>3, <2>1, AppendProperties
  <2> QED
    BY <1>3, <1>a, <2>1, <2>2 DEF ReadPiece
<1>7. toClient' \in [1..MaxConns -> Seq(PiecesOf(0..made))]
  BY <1>0, <1>1, <1>2, <1>a DEF WireTypeOK, ReadPiece
<1> QED
  BY <1>0, <1>4, <1>5, <1>6, <1>7, <1>a DEF Inv, WireTypeOK, ReadPiece, connVars, eventVars
-----------------------------------------------------------------------------
(* The steps of the server keep the types.                                 *)
LEMMA DataKeeps ==
  ASSUME Inv, NEW k \in 1..Len(conns), Data(k)
  PROVE  Inv'
<1>0. ClientInv /\ WireTypeOK
  BY DEF Inv
<1>1. k \in 1..MaxConns /\ toServer[k] \in Seq(PiecesOf(1..made))
  BY <1>0, BoundsAssumption DEF WireTypeOK
<1>2. PICK j \in 1..Len(toServer[k]) :
        LET pieces == SubSeq(toServer[k], 1, j)
            rest   == SubSeq(toServer[k], j + 1, Len(toServer[k]))
        IN /\ toServer' = [toServer EXCEPT ![k] = rest]
           /\ events' = Append(events, [from |-> k, pieces |-> pieces])
           /\ unread' = unread \cup (callsOf(pieces) \ read(pieces))
           /\ split' = split \cup {n \in callsOf(pieces) :
                           pieces[j] = Start(n) /\ rest # <<>> /\ Head(rest) = End(n)}
  BY DEF Data
<1> DEFINE pieces == SubSeq(toServer[k], 1, j)
           rest   == SubSeq(toServer[k], j + 1, Len(toServer[k]))
<1>3. pieces \in Seq(PiecesOf(1..made)) /\ rest \in Seq(PiecesOf(1..made))
  <2>1. Len(toServer[k]) \in Nat /\ \A i \in 1..Len(toServer[k]) : toServer[k][i] \in PiecesOf(1..made)
    BY <1>1
  <2> QED
    BY <1>2, <2>1, SubSeqProperties
<1>4. callsOf(pieces) \subseteq 1..made
  <2>1. \A i \in DOMAIN pieces : pieces[i] \in PiecesOf(1..made)
    BY <1>3
  <2> QED
    BY <2>1 DEF callsOf, PiecesOf
<1>5. toServer' \in [1..MaxConns -> Seq(PiecesOf(1..made))]
  BY <1>0, <1>1, <1>2, <1>3 DEF WireTypeOK
<1>6. events' \in Seq(Events(1..made)) /\ Len(events') <= MaxEvents
  <2>1. [from |-> k, pieces |-> pieces] \in Events(1..made)
    BY <1>1, <1>3 DEF Events
  <2>2. events \in Seq(Events(1..made)) /\ Len(events) < MaxEvents
    BY <1>0 DEF WireTypeOK, Events, Data
  <2>3. Append(events, [from |-> k, pieces |-> pieces]) \in Seq(Events(1..made))
        /\ Len(Append(events, [from |-> k, pieces |-> pieces])) = Len(events) + 1
    BY <2>1, <2>2, AppendProperties
  <2> QED
    BY <1>2, <2>2, <2>3, BoundsAssumption
<1>7. split' \subseteq 1..made /\ unread' \subseteq 1..made
  BY <1>0, <1>2, <1>4 DEF WireTypeOK
<1>8. ClientInv' /\ made' = made
  BY <1>0, StepsKeepClient DEF Data, ClientStep, clientVars, made
<1> QED
  BY <1>0, <1>5, <1>6, <1>7, <1>8 DEF Inv, WireTypeOK, Data, connVars, Events

LEMMA AnswerKeeps ==
  ASSUME Inv, NEW e \in DOMAIN events, Answer(e)
  PROVE  Inv'
<1>0. ClientInv /\ WireTypeOK /\ made \in Nat
  BY MadeIsNumber DEF Inv
<1> DEFINE pieces == events[e].pieces
           from   == events[e].from
<1>1. /\ events \in Seq(Events(1..made)) /\ e \in 1..Len(events)
      /\ pieces \in Seq(PiecesOf(1..made)) /\ from \in 1..MaxConns
  <2>1. events \in Seq(Events(1..made))
    BY <1>0 DEF WireTypeOK, Events
  <2>2. events[e] \in Events(1..made) /\ e \in 1..Len(events)
    BY <2>1
  <2> QED
    BY <2>1, <2>2 DEF Events
<1>2. PICK i \in ends(pieces) :
       /\ \E reply \in {lineAt(pieces, i), NoId} : \E way \in taken(reply) :
            /\ toClient' = [toClient EXCEPT ![from] = @ \o way]
            /\ short' = (short \/ way # line(reply))
       /\ events' = [events EXCEPT ![e].pieces = SubSeq(pieces, i + 1, Len(pieces))]
  BY DEF Answer
<1>3. PICK reply \in {lineAt(pieces, i), NoId} : \E way \in taken(reply) :
            /\ toClient' = [toClient EXCEPT ![from] = @ \o way]
            /\ short' = (short \/ way # line(reply))
  BY <1>2
<1>4. PICK way \in taken(reply) :
            /\ toClient' = [toClient EXCEPT ![from] = @ \o way]
            /\ short' = (short \/ way # line(reply))
  BY <1>3
<1>5. i \in 1..Len(pieces) /\ Len(pieces) \in Nat /\ \A j \in 1..Len(pieces) : pieces[j] \in PiecesOf(1..made)
  BY <1>1 DEF ends
<1>6. reply \in 0..made
  <2>1. pieces[i][1] \in 1..made
    BY <1>5 DEF PiecesOf
  <2>2. lineAt(pieces, i) \in {pieces[i][1], 0}
    BY DEF lineAt
  <2> QED
    BY <1>0, <2>1, <2>2 DEF NoId
<1>7. toClient' \in [1..MaxConns -> Seq(PiecesOf(0..made))]
  <2>1. toClient \in [1..MaxConns -> Seq(PiecesOf(0..made))]
    BY <1>0 DEF WireTypeOK
  <2>2. way \in Seq(PiecesOf(0..made))
    BY <1>6, TakenArePieces
  <2>3. toClient[from] \o way \in Seq(PiecesOf(0..made))
    BY <1>1, <2>1, <2>2, ConcatProperties
  <2> QED
    BY <1>1, <1>4, <2>1, <2>3
<1>8. events' \in Seq(Events(1..made)) /\ Len(events') = Len(events)
  <2>1. SubSeq(pieces, i + 1, Len(pieces)) \in Seq(PiecesOf(1..made))
    BY <1>5, SubSeqProperties
  <2>2. [events[e] EXCEPT !.pieces = SubSeq(pieces, i + 1, Len(pieces))] \in Events(1..made)
    <3>1. events[e] \in Events(1..made)
      BY <1>1
    <3>2. events[e] \in [from : 1..MaxConns, pieces : Seq(PiecesOf(1..made))]
      BY <3>1 DEF Events
    <3> QED
      BY <2>1, <3>2 DEF Events
  <2>3. events' = [events EXCEPT ![e] = [events[e] EXCEPT !.pieces = SubSeq(pieces, i + 1, Len(pieces))]]
    BY <1>2
  <2> QED
    BY <1>1, <2>2, <2>3, ExceptSeq
<1>9. ClientInv' /\ made' = made
  BY <1>0, StepsKeepClient DEF Answer, ClientStep, clientVars, made
<1> QED
  BY <1>0, <1>4, <1>7, <1>8, <1>9 DEF Inv, WireTypeOK, Answer, connVars, Events

LEMMA StepsKeep ==
  ASSUME Inv, [Next]_vars
  PROVE  Inv'
<1>1. CASE UNCHANGED vars
  <2>1. ClientInv'
    BY <1>1, StepsKeepClient DEF Inv, ClientStep, vars
  <2> QED
    BY <1>1, <2>1 DEF Inv, WireTypeOK, vars, clientVars, connVars, wireVars, eventVars, made
<1>2. ASSUME NEW n \in 1..made, TimesOut(n)
      PROVE  Inv'
  <2>1. ClientInv'
    BY <1>2, TimeOutKeeps DEF Inv, TimesOut
  <2> QED
    BY <1>2, <2>1 DEF Inv, WireTypeOK, TimesOut, TimeOut, connVars, wireVars, eventVars, made
<1> QED
  BY <1>1, <1>2, CallsKeep, ConnsKeep, SendKeeps, ReceiveKeeps, DataKeeps, AnswerKeeps DEF Next

(* Every reachable state of clients, connections and server is well typed. *)
THEOREM TcpTypeCorrect == Spec => []TypeOK
<1>1. Inv /\ [Next]_vars => Inv'
  BY StepsKeep
<1>2. Inv => TypeOK
  BY DEF Inv, ClientInv, TypeOK
<1> QED
  BY AtFirst, <1>1, <1>2, PTL DEF Spec

(* However lines are cut and connections lost, a call is settled by the    *)
(* answer to its own request or to another client's of the same id.        *)
THEOREM TcpAnswersOwnCall == Spec => []AnswersOwnCall
<1>1. Inv /\ [Next]_vars => Inv'
  BY StepsKeep
<1>2. Inv => AnswersOwnCall
  BY DEF Inv, ClientInv
<1> QED
  BY AtFirst, <1>1, <1>2, PTL DEF Spec
-----------------------------------------------------------------------------
(* Lines that were taken whole stay paired: a start is followed by its end *)
(* and an end comes after its start, or is the first on the wire with the  *)
(* start already read.                                                     *)
StartsGoOn(q) ==
  \A i \in DOMAIN q : q[i][2] = "start" => i + 1 \in DOMAIN q /\ q[i + 1] = End(q[i][1])
EndsFollow(q) ==
  \A i \in DOMAIN q : q[i][2] = "end" /\ i > 1 => q[i - 1] = Start(q[i][1])

(* A line that joins a wire leaves it paired.                              *)
LEMMA LineJoins ==
  ASSUME NEW N, NEW q \in Seq(PiecesOf(N)), NEW n \in N, StartsGoOn(q), EndsFollow(q)
  PROVE  /\ StartsGoOn(q \o line(n)) /\ EndsFollow(q \o line(n))
         /\ Len(q \o line(n)) = Len(q) + 2
         /\ \A i \in 1..Len(q) : (q \o line(n))[i] = q[i]
         /\ q = <<>> => (q \o line(n))[1] = Start(n)
<1>1. line(n) \in Seq(PiecesOf(N)) /\ Len(line(n)) = 2 /\ line(n)[1] = Start(n) /\ line(n)[2] = End(n)
  BY TakenArePieces DEF taken
<1> DEFINE all == q \o line(n)
<1>2. /\ all \in Seq(PiecesOf(N)) /\ Len(all) = Len(q) + 2 /\ Len(q) \in Nat
      /\ \A i \in 1..Len(q) : all[i] = q[i]
      /\ all[Len(q) + 1] = Start(n) /\ all[Len(q) + 2] = End(n)
  <2>1. Len(q) \in Nat
    OBVIOUS
  <2>a. /\ all \in Seq(PiecesOf(N)) /\ Len(all) = Len(q) + Len(line(n))
        /\ \A i \in 1..(Len(q) + Len(line(n))) :
              all[i] = IF i <= Len(q) THEN q[i] ELSE line(n)[i - Len(q)]
    BY <1>1, ConcatProperties
  <2>2. /\ all \in Seq(PiecesOf(N)) /\ Len(all) = Len(q) + 2
        /\ \A i \in 1..(Len(q) + 2) : all[i] = IF i <= Len(q) THEN q[i] ELSE line(n)[i - Len(q)]
    BY <1>1, <2>a
  <2> QED
    BY <1>1, <2>1, <2>2
<1>3. \A i \in 1..Len(q) : q[i] \in PiecesOf(N)
  OBVIOUS
<1>4. StartsGoOn(all)
  <2>1. SUFFICES ASSUME NEW i \in 1..(Len(q) + 2), all[i][2] = "start"
                 PROVE  i + 1 \in 1..(Len(q) + 2) /\ all[i + 1] = End(all[i][1])
    BY <1>2 DEF StartsGoOn
  <2>2. CASE i \in 1..Len(q)
    <3>1. i + 1 \in 1..Len(q) /\ q[i + 1] = End(q[i][1])
      BY <1>2, <2>1, <2>2 DEF StartsGoOn
    <3> QED
      BY <1>2, <2>2, <3>1
  <2>3. CASE i = Len(q) + 1
    BY <1>2, <2>3 DEF Start
  <2>4. CASE i = Len(q) + 2
    BY <1>2, <2>1, <2>4 DEF End
  <2> QED
    BY <1>2, <2>2, <2>3, <2>4
<1>5. EndsFollow(all)
  <2>1. SUFFICES ASSUME NEW i \in 1..(Len(q) + 2), all[i][2] = "end", i > 1
                 PROVE  all[i - 1] = Start(all[i][1])
    BY <1>2, SMTT(20) DEF EndsFollow
  <2>2. CASE i \in 1..Len(q)
    <3>1. q[i - 1] = Start(q[i][1]) /\ i - 1 \in 1..Len(q)
      BY <1>2, <2>1, <2>2 DEF EndsFollow
    <3> QED
      BY <1>2, <2>2, <3>1
  <2>3. CASE i = Len(q) + 1
    BY <1>2, <2>1, <2>3 DEF Start
  <2>4. CASE i = Len(q) + 2
    <3>1. i - 1 = Len(q) + 1
      BY <1>2, <2>4
    <3> QED
      BY <1>2, <2>4, <3>1 DEF End
  <2>5. i \in 1..Len(q) \/ i = Len(q) + 1 \/ i = Len(q) + 2
    BY <1>2, <2>1
  <2> QED
    BY <2>2, <2>3, <2>4, <2>5
<1> QED
  BY <1>2, <1>4, <1>5

(* What is left of a wire when its first pieces have been taken.           *)
LEMMA RestStaysPaired ==
  ASSUME NEW N, NEW q \in Seq(PiecesOf(N)), NEW j \in 1..Len(q), NEW rest \in Seq(PiecesOf(N)),
         Len(rest) = Len(q) - j, \A i \in 1..Len(rest) : rest[i] = q[i + j],
         StartsGoOn(q), EndsFollow(q)
  PROVE  StartsGoOn(rest) /\ EndsFollow(rest)
<1>1. Len(q) \in Nat /\ Len(rest) \in Nat /\ DOMAIN q = 1..Len(q) /\ DOMAIN rest = 1..Len(rest)
  OBVIOUS
<1>2. ASSUME NEW i \in 1..Len(rest), rest[i][2] = "start"
      PROVE  i + 1 \in 1..Len(rest) /\ rest[i + 1] = End(rest[i][1])
  <2>1. (i + j) + 1 \in 1..Len(q) /\ q[(i + j) + 1] = End(q[i + j][1])
    BY <1>1, <1>2 DEF StartsGoOn
  <2>2. i + 1 \in 1..Len(rest) /\ (i + 1) + j = (i + j) + 1
    BY <1>1, <2>1
  <2> QED
    BY <2>1, <2>2
<1>3. ASSUME NEW i \in 1..Len(rest), rest[i][2] = "end", i > 1
      PROVE  rest[i - 1] = Start(rest[i][1])
  <2>0. i + j \in 1..Len(q) /\ i + j > 1 /\ q[i + j][2] = "end"
    BY <1>1, <1>3
  <2>1. q[(i + j) - 1] = Start(q[i + j][1])
    BY <1>1, <2>0 DEF EndsFollow
  <2>2. i - 1 \in 1..Len(rest) /\ (i - 1) + j = (i + j) - 1
    BY <1>1, <1>3
  <2> QED
    BY <2>1, <2>2
<1>4. StartsGoOn(rest)
  BY <1>1, <1>2 DEF StartsGoOn
<1>5. EndsFollow(rest)
  BY <1>1, <1>3 DEF EndsFollow
<1> QED
  BY <1>4, <1>5
-----------------------------------------------------------------------------
(* On one connection whose writes are taken whole, the buffer holds a      *)
(* start exactly while its end is the next piece on the wire; a start that *)
(* lost its last character is one of a reply that was cut.                 *)
StartIsRead(n) == buffer = <<Start(n)>> \/ (buffer = <<Cut(n)>> /\ n \in cut)

RepliesInv ==
  ~short /\ Len(conns) <= 1 =>
    LET q == toClient[1] IN
    /\ lost \subseteq cut /\ StartsGoOn(q) /\ EndsFollow(q)
    /\ q # <<>> /\ q[1][2] = "end" => StartIsRead(q[1][1])
    /\ buffer # <<>> => q # <<>> /\ q[1][2] = "end"

LEMMA RepliesAtFirst == Init => RepliesInv
<1> SUFFICES ASSUME Init PROVE RepliesInv
  OBVIOUS
<1>1. toClient[1] = <<>> /\ lost = {} /\ cut = {} /\ buffer = <<>>
  BY BoundsAssumption DEF Init
<1>2. StartsGoOn(<<>>) /\ EndsFollow(<<>>)
  BY DEF StartsGoOn, EndsFollow
<1> QED
  BY <1>1, <1>2 DEF RepliesInv

LEMMA OthersKeepReplies ==
  ASSUME RepliesInv, UNCHANGED <<lost, cut, buffer, toClient>>, short => short',
         Len(conns) \in Nat, Len(conns') \in Nat, Len(conns) <= Len(conns')
  PROVE  RepliesInv'
BY DEF RepliesInv, StartIsRead

LEMMA Appended == \A a, b : Append(<<>>, a) = <<a>> /\ Append(<<a>>, b) = <<a, b>>
<1>1. TAKE a, b
<1> DEFINE S == {a, b}
<1>2. <<>> \in Seq(S) /\ <<a>> \in Seq(S) /\ <<a, b>> \in Seq(S)
  OBVIOUS
<1>3. Append(<<>>, a) \in Seq(S) /\ Len(Append(<<>>, a)) = 1 /\ Append(<<>>, a)[1] = a
  BY <1>2
<1>4. /\ Append(<<a>>, b) \in Seq(S) /\ Len(Append(<<a>>, b)) = 2
      /\ Append(<<a>>, b)[1] = a /\ Append(<<a>>, b)[2] = b
  BY <1>2
<1>5. Append(<<>>, a) = <<a>>
  BY <1>2, <1>3, SeqEqual
<1>6. Append(<<a>>, b) = <<a, b>>
  <2>1. Len(<<a, b>>) = 2 /\ <<a, b>>[1] = a /\ <<a, b>>[2] = b
    OBVIOUS
  <2>2. \A i \in 1..2 : i = 1 \/ i = 2
    OBVIOUS
  <2>3. \A i \in 1..2 : Append(<<a>>, b)[i] = <<a, b>>[i]
    BY <1>4, <2>1, <2>2
  <2> QED
    BY <1>2, <1>4, <2>1, <2>3, SeqEqual
<1> QED
  BY <1>5, <1>6

LEMMA ReceiveKeepsReplies ==
  ASSUME Inv, RepliesInv, NEW k \in 1..Len(conns), Receive(k)
  PROVE  RepliesInv'
<1>a. PICK piece \in decoded(Head(toClient[k])) : ReadPiece(k, piece, Append(buffer, piece))
  BY DEF Receive
<1>0. UNCHANGED <<short, conns>> /\ toClient' = [toClient EXCEPT ![k] = Tail(@)] /\ toClient[k] # <<>>
  BY <1>a DEF Receive, ReadPiece, connVars
<1> SUFFICES ASSUME ~short, Len(conns) <= 1 PROVE RepliesInv'
  BY <1>0 DEF RepliesInv
<1> DEFINE q == toClient[1]
           n == q[1][1]
<1>1. k = 1 /\ 1 \in 1..MaxConns
  <2>1. Len(conns) \in Nat
    BY DEF Inv, WireTypeOK
  <2> QED
    BY <2>1, BoundsAssumption
<1>2. q \in Seq(PiecesOf(0..made)) /\ q # <<>>
  BY <1>0, <1>1 DEF Inv, WireTypeOK
<1>3. /\ toClient'[1] = Tail(q) /\ Tail(q) \in Seq(PiecesOf(0..made)) /\ Len(Tail(q)) = Len(q) - 1
      /\ \A i \in 1..Len(Tail(q)) : Tail(q)[i] = q[i + 1]
  BY <1>0, <1>1, <1>2, HeadTailProperties DEF Inv, WireTypeOK
<1>4. /\ lost \subseteq cut /\ StartsGoOn(q) /\ EndsFollow(q)
      /\ q[1][2] = "end" => StartIsRead(n)
      /\ buffer # <<>> => q[1][2] = "end"
  BY <1>2 DEF RepliesInv
<1>5. 1 \in 1..Len(q) /\ Head(q) = q[1] /\ q[1] \in PiecesOf(0..made)
  BY <1>2
<1>6. StartsGoOn(Tail(q)) /\ EndsFollow(Tail(q))
  BY <1>2, <1>3, <1>4, <1>5, RestStaysPaired
<1>7. CASE q[1][2] = "start"
  <2>1. piece \in {Start(n), Cut(n)}
    BY <1>1, <1>5, <1>7, <1>a DEF decoded, PiecesOf, Start
  <2>2. piece # End(piece[1]) /\ piece[1] = n
    BY <2>1 DEF Start, Cut, End
  <2>3. /\ buffer' = Append(buffer, piece) /\ lost' = lost
        /\ cut' = IF piece = Cut(piece[1]) THEN cut \cup {piece[1]} ELSE cut
    BY <1>a, <2>2 DEF ReadPiece
  <2>4. buffer' = <<piece>>
    <3>1. buffer = <<>>
      BY <1>4, <1>7
    <3> QED
      BY <2>3, <3>1, Appended
  <2>5. cut \subseteq cut' /\ (piece = Cut(n) => n \in cut')
    BY <2>2, <2>3
  <2>6. RepliesInv'
    <3>1. buffer' = <<Start(n)>> \/ (buffer' = <<Cut(n)>> /\ n \in cut')
      BY <2>1, <2>4, <2>5
    <3>2. 2 \in 1..Len(q) /\ q[2] = End(n)
      BY <1>2, <1>4, <1>5, <1>7 DEF StartsGoOn
    <3>3. Tail(q)[1] = End(n) /\ Tail(q) # <<>>
      BY <1>2, <1>3, <3>2
    <3>4. toClient'[1][1][1] = n /\ toClient'[1] # <<>> /\ toClient'[1][1][2] = "end"
      BY <1>3, <3>3 DEF End
    <3>5. /\ toClient'[1] # <<>> /\ toClient'[1][1][2] = "end"
          /\ \/ buffer' = <<Start(toClient'[1][1][1])>>
             \/ buffer' = <<Cut(toClient'[1][1][1])>> /\ toClient'[1][1][1] \in cut'
      BY <3>1, <3>4
    <3>6. lost' \subseteq cut' /\ StartsGoOn(toClient'[1]) /\ EndsFollow(toClient'[1])
      BY <1>3, <1>4, <1>6, <2>3, <2>5
    <3> QED
      BY <3>5, <3>6 DEF RepliesInv, StartIsRead
  <2> QED
    BY <2>6
<1>8. CASE q[1][2] = "end"
  <2>1. piece = q[1] /\ piece = End(n) /\ piece[1] = n
    BY <1>1, <1>5, <1>8, <1>a DEF decoded, PiecesOf, End
  <2>2. /\ buffer' = <<>> /\ cut' = cut
        /\ lost' = IF buffer = <<Start(n)>> THEN lost ELSE lost \cup {n}
    BY <1>a, <2>1 DEF ReadPiece
  <2>3. StartIsRead(n)
    BY <1>4, <1>8
  <2>4. lost' \subseteq cut'
    BY <1>4, <2>2, <2>3 DEF StartIsRead
  <2>5. ASSUME Tail(q) # <<>> PROVE Tail(q)[1][2] # "end"
    <3>1. 2 \in 1..Len(q) /\ Tail(q)[1] = q[2]
      BY <1>2, <1>3, <2>5
    <3>2. q[2][2] # "end"
      <4>1. SUFFICES ASSUME q[2][2] = "end" PROVE FALSE
        OBVIOUS
      <4>2. q[1] = Start(q[2][1])
        BY <1>2, <1>4, <3>1, <4>1 DEF EndsFollow
      <4> QED
        BY <1>8, <4>2 DEF Start
    <3> QED
      BY <3>1, <3>2
  <2> QED
    BY <1>3, <1>6, <2>2, <2>4, <2>5 DEF RepliesInv
<1>9. q[1][2] \in {"start", "end"}
  BY <1>5 DEF PiecesOf
<1> QED
  BY <1>7, <1>8, <1>9

LEMMA AnswerKeepsReplies ==
  ASSUME Inv, RepliesInv, NEW e \in DOMAIN events, Answer(e)
  PROVE  RepliesInv'
<1> DEFINE pieces == events[e].pieces
           from   == events[e].from
           q      == toClient[1]
<1>1. UNCHANGED <<conns, lost, cut, buffer>>
  BY DEF Answer, connVars
<1>a. PICK i \in ends(pieces) : \E reply \in {lineAt(pieces, i), NoId} : \E way \in taken(reply) :
        /\ toClient' = [toClient EXCEPT ![from] = @ \o way]
        /\ short' = (short \/ way # line(reply))
  BY DEF Answer
<1>b. PICK reply \in {lineAt(pieces, i), NoId} : \E way \in taken(reply) :
        /\ toClient' = [toClient EXCEPT ![from] = @ \o way]
        /\ short' = (short \/ way # line(reply))
  BY <1>a
<1>2. PICK way \in taken(reply) :
        /\ toClient' = [toClient EXCEPT ![from] = @ \o way]
        /\ short' = (short \/ way # line(reply))
  BY <1>b
<1> SUFFICES ASSUME ~short', Len(conns) <= 1 PROVE RepliesInv'
  BY <1>1 DEF RepliesInv
<1>3. ~short /\ way = line(reply)
  BY <1>2 DEF Inv, WireTypeOK
<1>4. /\ lost \subseteq cut /\ StartsGoOn(q) /\ EndsFollow(q)
      /\ q # <<>> /\ q[1][2] = "end" => StartIsRead(q[1][1])
      /\ buffer # <<>> => q # <<>> /\ q[1][2] = "end"
  BY <1>3 DEF RepliesInv
<1>5. 1 \in 1..MaxConns /\ toClient \in [1..MaxConns -> Seq(PiecesOf(0..made))] /\ q \in Seq(PiecesOf(0..made))
  BY BoundsAssumption DEF Inv, WireTypeOK
<1>6. CASE from # 1
  <2>1. toClient'[1] = q
    BY <1>2, <1>5, <1>6
  <2> QED
    BY <1>1, <1>4, <2>1 DEF RepliesInv, StartIsRead
<1>7. CASE from = 1
  <2>1. toClient'[1] = q \o line(reply)
    BY <1>2, <1>3, <1>5, <1>7
  <2>2. reply \in 0..made
    <3>0. made \in Nat
      BY MadeIsNumber
    <3>a. events \in Seq(Events(1..made))
      BY DEF Inv, WireTypeOK, Events
    <3>b. events[e] \in Events(1..made)
      BY <3>a
    <3>1. events[e] \in [from : 1..MaxConns, pieces : Seq(PiecesOf(1..made))]
      BY <3>b DEF Events
    <3>2. i \in 1..Len(pieces) /\ pieces \in Seq(PiecesOf(1..made))
      BY <3>1 DEF ends
    <3>3. pieces[i] \in PiecesOf(1..made)
      BY <3>2
    <3>4. pieces[i][1] \in 1..made
      BY <3>3 DEF PiecesOf
    <3>5. lineAt(pieces, i) \in {pieces[i][1], 0}
      BY DEF lineAt
    <3> QED
      BY <3>0, <3>4, <3>5 DEF NoId
  <2>3. /\ StartsGoOn(q \o line(reply)) /\ EndsFollow(q \o line(reply))
        /\ Len(q \o line(reply)) = Len(q) + 2
        /\ \A j \in 1..Len(q) : (q \o line(reply))[j] = q[j]
        /\ q = <<>> => (q \o line(reply))[1] = Start(reply)
    BY <1>4, <1>5, <2>2, LineJoins
  <2>4. CASE q = <<>>
    <3>1. (q \o line(reply))[1][2] = "start" /\ buffer = <<>>
      BY <1>4, <2>3, <2>4 DEF Start
    <3> QED
      BY <1>1, <1>4, <2>1, <2>3, <3>1 DEF RepliesInv, StartIsRead
  <2>5. CASE q # <<>>
    <3>1. (q \o line(reply))[1] = q[1] /\ q \o line(reply) # <<>>
      <4>1. Len(q) \in Nat /\ 1 \in 1..Len(q)
        BY <1>5, <2>5
      <4> QED
        BY <2>3, <4>1
    <3> QED
      BY <1>1, <1>4, <2>1, <2>3, <2>5, <3>1 DEF RepliesInv, StartIsRead
  <2> QED
    BY <2>4, <2>5
<1> QED
  BY <1>6, <1>7

LEMMA StepsKeepReplies ==
  ASSUME Inv, Inv', RepliesInv, [Next]_vars
  PROVE  RepliesInv'
<1>1. Len(conns) \in Nat /\ Len(conns') \in Nat /\ short \in BOOLEAN
  BY DEF Inv, WireTypeOK
<1>2. CASE UNCHANGED vars
  BY <1>1, <1>2, OthersKeepReplies DEF vars, connVars, wireVars
<1>3. ASSUME NEW c \in Clients, CallOnConn(c) \/ CallConnecting(c)
      PROVE  RepliesInv'
  <2>1. Len(conns) <= Len(conns')
    <3>1. conns \in Seq(ConnStates)
      BY DEF Inv, WireTypeOK
    <3> QED
      BY <1>1, <1>3, <3>1 DEF CallOnConn, CallConnecting, connVars
  <2> QED
    BY <1>1, <1>3, <2>1, OthersKeepReplies DEF CallOnConn, CallConnecting, wireVars
<1>4. ASSUME NEW n \in 1..made, Send(n) \/ TimesOut(n)
      PROVE  RepliesInv'
  BY <1>1, <1>4, OthersKeepReplies DEF Send, TimesOut, connVars, wireVars
<1>5. ASSUME NEW k \in 1..Len(conns), Connects(k) \/ FailsToConnect(k) \/ Drops(k) \/ Data(k)
      PROVE  RepliesInv'
  <2>1. conns \in Seq(ConnStates)
    BY DEF Inv, WireTypeOK
  <2>2. Len(conns') = Len(conns)
    BY <1>5, <2>1 DEF Connects, FailsToConnect, Drops, Data, connVars
  <2> QED
    BY <1>1, <1>5, <2>2, OthersKeepReplies DEF Connects, FailsToConnect, Drops, Data, wireVars
<1>6. CASE close
  <2>1. conns \in Seq(ConnStates)
    BY DEF Inv, WireTypeOK
  <2>2. Len(conns') = Len(conns)
    BY <1>6, <2>1 DEF close
  <2> QED
    BY <1>1, <1>6, <2>2, OthersKeepReplies DEF close, wireVars
<1> QED
  BY <1>2, <1>3, <1>4, <1>5, <1>6, ReceiveKeepsReplies, AnswerKeepsReplies DEF Next

(* Wherever a connection cuts the replies, the client reads every one as it *)
(* was written, unless a data event ended inside a character of it; only a  *)
(* second connection or a write that was cut short can spoil a reply        *)
(* otherwise.                                                               *)
THEOREM TcpRepliesAreReassembled == Spec => []RepliesAreReassembled
<1>1. Inv /\ RepliesInv /\ [Next]_vars => Inv' /\ RepliesInv'
  BY StepsKeep, StepsKeepReplies
<1>2. Inv /\ RepliesInv => RepliesAreReassembled
  <2>1. Inv => Len(conns) \in Nat
    BY DEF Inv, WireTypeOK
  <2> QED
    BY <2>1 DEF RepliesInv, RepliesAreReassembled
<1> QED
  BY AtFirst, RepliesAtFirst, <1>1, <1>2, PTL DEF Spec
-----------------------------------------------------------------------------
(* Of writes taken whole, the server has the start of a line and not its   *)
(* end only if the line came in two events.                                *)
WireIsPaired(q) ==
  /\ StartsGoOn(q) /\ EndsFollow(q)
  /\ q # <<>> /\ q[1][2] = "end" => q[1][1] \in split
RequestsInv ==
  ~short => unread \subseteq split /\ \A k \in 1..MaxConns : WireIsPaired(toServer[k])

LEMMA RequestsAtFirst == Init => RequestsInv
<1> SUFFICES ASSUME Init PROVE RequestsInv
  OBVIOUS
<1>1. unread = {} /\ \A k \in 1..MaxConns : toServer[k] = <<>>
  BY DEF Init
<1>2. StartsGoOn(<<>>) /\ EndsFollow(<<>>)
  BY DEF StartsGoOn, EndsFollow
<1> QED
  BY <1>1, <1>2 DEF RequestsInv, WireIsPaired

LEMMA SendKeepsRequests ==
  ASSUME Inv, RequestsInv, NEW n \in 1..made, Send(n)
  PROVE  RequestsInv'
<1> DEFINE k == connOf[n]
           q == toServer[k]
<1>1. UNCHANGED <<unread, split>>
  BY DEF Send, eventVars
<1>2. /\ k \in 1..MaxConns /\ toServer \in [1..MaxConns -> Seq(PiecesOf(1..made))]
      /\ q \in Seq(PiecesOf(1..made)) /\ short \in BOOLEAN
  BY DEF Inv, WireTypeOK
<1>3. CASE conns[k] # "open"
  BY <1>1, <1>3 DEF Send, RequestsInv, WireIsPaired
<1>4. CASE conns[k] = "open"
  <2>1. PICK way \in taken(n) : /\ toServer' = [toServer EXCEPT ![k] = @ \o way]
                                /\ short' = (short \/ way # line(n))
    BY <1>4 DEF Send
  <2> SUFFICES ASSUME ~short' PROVE RequestsInv'
    BY DEF RequestsInv
  <2>2. ~short /\ toServer' = [toServer EXCEPT ![k] = q \o line(n)]
    BY <1>2, <2>1
  <2>3. unread \subseteq split /\ \A m \in 1..MaxConns : WireIsPaired(toServer[m])
    BY <2>2 DEF RequestsInv
  <2>4. WireIsPaired(q)
    BY <1>2, <2>3
  <2>5. /\ StartsGoOn(q \o line(n)) /\ EndsFollow(q \o line(n))
        /\ Len(q \o line(n)) = Len(q) + 2
        /\ \A j \in 1..Len(q) : (q \o line(n))[j] = q[j]
        /\ q = <<>> => (q \o line(n))[1] = Start(n)
    BY <1>2, <2>4, LineJoins DEF WireIsPaired
  <2>6. ASSUME (q \o line(n))[1][2] = "end" PROVE (q \o line(n))[1][1] \in split
    <3>1. q # <<>>
      BY <2>5, <2>6 DEF Start
    <3>2. 1 \in 1..Len(q)
      BY <1>2, <3>1
    <3> QED
      BY <2>4, <2>5, <2>6, <3>1, <3>2 DEF WireIsPaired
  <2>7. WireIsPaired(q \o line(n))
    BY <2>5, <2>6 DEF WireIsPaired
  <2>8. \A m \in 1..MaxConns : WireIsPaired(toServer'[m])
    BY <1>2, <2>2, <2>3, <2>7
  <2> QED
    BY <1>1, <2>3, <2>8 DEF RequestsInv, WireIsPaired
<1> QED
  BY <1>3, <1>4

(* A line both of whose pieces are in an event is read.                    *)
LEMMA WholeLinesAreRead ==
  ASSUME NEW N, NEW q \in Seq(PiecesOf(N)), StartsGoOn(q), NEW j \in 1..Len(q),
         NEW pieces \in Seq(PiecesOf(N)), Len(pieces) = j, \A i \in 1..j : pieces[i] = q[i],
         NEW i \in 1..j, i < j, pieces[i][2] = "start"
  PROVE  pieces[i][1] \in read(pieces)
<1> DEFINE n == pieces[i][1]
<1>1. Len(q) \in Nat /\ DOMAIN q = 1..Len(q) /\ DOMAIN pieces = 1..j
  OBVIOUS
<1>2. i + 1 \in 1..j /\ (i + 1) - 1 = i
  BY <1>1
<1>3. pieces[i] \in PiecesOf(N) /\ pieces[i] = q[i] /\ i \in 1..Len(q)
  BY <1>1
<1>4. pieces[i] = Start(n)
  BY <1>3 DEF PiecesOf, Start
<1>5. pieces[i + 1] = End(n)
  BY <1>1, <1>2, <1>3 DEF StartsGoOn
<1>6. pieces[i + 1][1] = n /\ pieces[i + 1][2] = "end"
  BY <1>5 DEF End
<1>7. i + 1 = 2 \/ pieces[(i + 1) - 2][2] = "end"
  <2>1. SUFFICES ASSUME i + 1 # 2 PROVE pieces[i - 1][2] = "end"
    BY <1>1, <1>2
  <2>2. i - 1 \in 1..j /\ i - 1 \in 1..Len(q) /\ (i - 1) + 1 = i
    BY <1>1, <1>2, <2>1
  <2>3. pieces[i - 1] \in PiecesOf(N) /\ pieces[i - 1] = q[i - 1]
    BY <2>2
  <2>4. pieces[i - 1][2] \in {"start", "end"}
    BY <2>3 DEF PiecesOf
  <2>5. ASSUME pieces[i - 1][2] = "start" PROVE FALSE
    <3>1. q[i] = End(q[i - 1][1])
      BY <1>1, <2>2, <2>3, <2>5 DEF StartsGoOn
    <3> QED
      BY <1>3, <3>1 DEF End
  <2> QED
    BY <2>4, <2>5
<1>8. lineAt(pieces, i + 1) = n
  BY <1>2, <1>4, <1>5, <1>6, <1>7 DEF lineAt
<1>9. i + 1 \in ends(pieces)
  BY <1>1, <1>2, <1>6 DEF ends
<1> QED
  BY <1>8, <1>9 DEF read

LEMMA RestOfSeq ==
  ASSUME NEW S, NEW q \in Seq(S), NEW j \in 1..Len(q)
  PROVE  /\ SubSeq(q, j + 1, Len(q)) \in Seq(S)
         /\ Len(SubSeq(q, j + 1, Len(q))) = Len(q) - j
         /\ \A i \in 1..Len(SubSeq(q, j + 1, Len(q))) : SubSeq(q, j + 1, Len(q))[i] = q[i + j]
<1> DEFINE m == j + 1
           n == Len(q)
           rest == SubSeq(q, m, n)
<1>1. n \in Nat /\ m \in Int /\ n \in Int /\ \A i \in m..n : q[i] \in S
  OBVIOUS
<1>2. /\ rest \in Seq(S) /\ Len(rest) = IF m <= n THEN n - m + 1 ELSE 0
      /\ \A i \in 1..(n - m + 1) : rest[i] = q[m + i - 1]
  <2> HIDE DEF m, n
  <2> QED
    BY <1>1, SubSeqProperties
<1>3. Len(rest) = n - j
  BY <1>1, <1>2
<1>4. ASSUME NEW i \in 1..Len(rest) PROVE rest[i] = q[i + j]
  <2>1. i \in 1..(n - m + 1) /\ m + i - 1 = i + j
    BY <1>1, <1>3
  <2> QED
    BY <1>2, <2>1
<1> QED
  BY <1>2, <1>3, <1>4

LEMMA DataKeepsRequests ==
  ASSUME Inv, RequestsInv, NEW k \in 1..Len(conns), Data(k)
  PROVE  RequestsInv'
<1> DEFINE q == toServer[k]
<1>1. /\ k \in 1..MaxConns /\ toServer \in [1..MaxConns -> Seq(PiecesOf(1..made))]
      /\ q \in Seq(PiecesOf(1..made)) /\ Len(q) \in Nat /\ DOMAIN q = 1..Len(q)
  <2>1. k \in 1..MaxConns /\ toServer \in [1..MaxConns -> Seq(PiecesOf(1..made))]
    BY BoundsAssumption DEF Inv, WireTypeOK
  <2> QED
    BY <2>1
<1>2. PICK j \in 1..Len(q) :
        LET pieces == SubSeq(q, 1, j)
            rest   == SubSeq(q, j + 1, Len(q))
        IN /\ toServer' = [toServer EXCEPT ![k] = rest]
           /\ unread' = unread \cup (callsOf(pieces) \ read(pieces))
           /\ split' = split \cup {n \in callsOf(pieces) :
                           pieces[j] = Start(n) /\ rest # <<>> /\ Head(rest) = End(n)}
  BY DEF Data
<1> DEFINE pieces == SubSeq(q, 1, j)
           rest   == SubSeq(q, j + 1, Len(q))
<1>3. /\ pieces \in Seq(PiecesOf(1..made)) /\ Len(pieces) = j /\ \A i \in 1..j : pieces[i] = q[i]
      /\ rest \in Seq(PiecesOf(1..made)) /\ Len(rest) = Len(q) - j
      /\ \A i \in 1..Len(rest) : rest[i] = q[i + j]
  <2>1. \A i \in 1..Len(q) : q[i] \in PiecesOf(1..made)
    BY <1>1
  <2>2. pieces \in Seq(PiecesOf(1..made)) /\ Len(pieces) = j /\ \A i \in 1..j : pieces[i] = q[i]
    BY <1>1, <2>1, SubSeqProperties
  <2>3. /\ rest \in Seq(PiecesOf(1..made)) /\ Len(rest) = Len(q) - j
        /\ \A i \in 1..Len(rest) : rest[i] = q[i + j]
    BY <1>1, RestOfSeq
  <2> QED
    BY <2>2, <2>3
<1> HIDE DEF pieces, rest
<1>4. short' = short
  BY DEF Data
<1> SUFFICES ASSUME ~short PROVE RequestsInv'
  BY <1>4 DEF RequestsInv
<1>5. unread \subseteq split /\ \A m \in 1..MaxConns : WireIsPaired(toServer[m])
  BY DEF RequestsInv
<1>6. StartsGoOn(q) /\ EndsFollow(q) /\ (q[1][2] = "end" => q[1][1] \in split)
  BY <1>1, <1>5 DEF WireIsPaired
<1>7. split \subseteq split' /\ unread' = unread \cup (callsOf(pieces) \ read(pieces))
  BY <1>2 DEF pieces, rest
(* The line that the event ends in. *)
<1>8. ASSUME pieces[j][2] = "start" PROVE pieces[j][1] \in split'
  <2>1. j + 1 \in 1..Len(q) /\ q[j + 1] = End(q[j][1]) /\ q[j] = pieces[j]
    BY <1>1, <1>3, <1>6, <1>8 DEF StartsGoOn
  <2>2. pieces[j] = Start(pieces[j][1])
    <3>1. pieces[j] \in PiecesOf(1..made)
      BY <1>3
    <3> QED
      BY <1>8, <3>1 DEF PiecesOf, Start
  <2>3. 1 \in 1..Len(rest) /\ rest[1] = q[j + 1]
    BY <1>1, <1>3, <2>1
  <2>4. rest # <<>> /\ Head(rest) = End(pieces[j][1])
    BY <1>3, <2>1, <2>3
  <2>5. pieces[j][1] \in callsOf(pieces)
    <3>1. j \in DOMAIN pieces
      BY <1>3
    <3> HIDE DEF pieces
    <3> QED
      BY <3>1 DEF callsOf
  <2> QED
    BY <1>2, <2>2, <2>4, <2>5 DEF pieces, rest
(* The lines of the event. *)
<1>9. ASSUME NEW i \in 1..j, pieces[i][2] = "start"
      PROVE  pieces[i][1] \in split' \cup read(pieces)
  <2>1. CASE i = j
    BY <1>8, <1>9, <2>1
  <2>2. CASE i # j
    <3>1. i < j
      BY <1>1, <2>2
    <3>2. pieces[i][1] \in read(pieces)
      BY <1>1, <1>3, <1>6, <1>9, <3>1, WholeLinesAreRead
    <3> QED
      BY <3>2
  <2> QED
    BY <2>1, <2>2
<1>10. ASSUME NEW i \in 1..j
       PROVE  pieces[i][1] \in split' \cup read(pieces)
  <2>1. pieces[i] \in PiecesOf(1..made) /\ pieces[i] = q[i] /\ i \in 1..Len(q)
    BY <1>1, <1>3
  <2>2. pieces[i][2] \in {"start", "end"}
    BY <2>1 DEF PiecesOf
  <2>3. CASE pieces[i][2] = "start"
    BY <1>9, <2>3
  <2>4. CASE pieces[i][2] = "end" /\ i = 1
    BY <1>6, <1>7, <2>1, <2>4
  <2>5. CASE pieces[i][2] = "end" /\ i # 1
    <3>1. i - 1 \in 1..j /\ q[i - 1] = Start(q[i][1])
      BY <1>1, <1>6, <2>1, <2>5 DEF EndsFollow
    <3>2. pieces[i - 1] = Start(pieces[i][1])
      BY <1>3, <2>1, <3>1
    <3>3. pieces[i - 1][2] = "start" /\ pieces[i - 1][1] = pieces[i][1]
      BY <3>2 DEF Start
    <3> QED
      BY <1>9, <3>1, <3>3
  <2> QED
    BY <2>2, <2>3, <2>4, <2>5
<1>11. unread' \subseteq split'
  <2>1. callsOf(pieces) \subseteq split' \cup read(pieces)
    BY <1>3, <1>10 DEF callsOf
  <2> QED
    BY <1>5, <1>7, <2>1
(* What stays on the wire. *)
<1>12. StartsGoOn(rest) /\ EndsFollow(rest)
  BY <1>1, <1>3, <1>6, RestStaysPaired
<1>13. ASSUME rest # <<>>, rest[1][2] = "end" PROVE rest[1][1] \in split'
  <2>1. 1 \in 1..Len(rest) /\ rest[1] = q[j + 1] /\ j + 1 \in 1..Len(q)
    BY <1>1, <1>3, <1>13
  <2>2. q[j] = Start(rest[1][1])
    BY <1>1, <1>6, <1>13, <2>1 DEF EndsFollow
  <2>3. pieces[j] = q[j]
    BY <1>3
  <2> QED
    BY <1>8, <2>2, <2>3 DEF Start
<1>14. ASSUME NEW m \in 1..MaxConns
       PROVE  /\ StartsGoOn(toServer'[m]) /\ EndsFollow(toServer'[m])
              /\ toServer'[m] # <<>> /\ toServer'[m][1][2] = "end" => toServer'[m][1][1] \in split'
  <2>1. CASE m = k
    <3>1. toServer'[m] = rest
      BY <1>1, <1>2, <2>1 DEF rest
    <3> QED
      BY <1>12, <1>13, <3>1
  <2>2. CASE m # k
    <3>1. toServer'[m] = toServer[m]
      BY <1>1, <1>2, <2>2
    <3> QED
      BY <1>5, <1>7, <3>1 DEF WireIsPaired
  <2> QED
    BY <2>1, <2>2
<1> QED
  BY <1>11, <1>14 DEF RequestsInv, WireIsPaired

LEMMA StepsKeepRequests ==
  ASSUME Inv, RequestsInv, [Next]_vars
  PROVE  RequestsInv'
<1>0. short \in BOOLEAN
  BY DEF Inv, WireTypeOK
<1>1. ASSUME UNCHANGED <<unread, split, toServer>>, short => short'
      PROVE  RequestsInv'
  BY <1>1 DEF RequestsInv, WireIsPaired
<1>2. CASE UNCHANGED vars
  BY <1>1, <1>2 DEF vars, wireVars, eventVars
<1>3. ASSUME NEW c \in Clients, CallOnConn(c) \/ CallConnecting(c)
      PROVE  RequestsInv'
  BY <1>1, <1>3 DEF CallOnConn, CallConnecting, wireVars, eventVars
<1>4. ASSUME NEW n \in 1..made, TimesOut(n)
      PROVE  RequestsInv'
  BY <1>1, <1>4 DEF TimesOut, wireVars, eventVars
<1>5. ASSUME NEW k \in 1..Len(conns), Connects(k) \/ FailsToConnect(k) \/ Drops(k) \/ Receive(k)
      PROVE  RequestsInv'
  BY <1>1, <1>5 DEF Connects, FailsToConnect, Drops, Receive, ReadPiece, wireVars, eventVars
<1>6. ASSUME NEW e \in DOMAIN events, Answer(e)
      PROVE  RequestsInv'
  BY <1>0, <1>1, <1>6 DEF Answer
<1>7. CASE close
  BY <1>1, <1>7 DEF close, wireVars, eventVars
<1> QED
  BY <1>2, <1>3, <1>4, <1>5, <1>6, <1>7, SendKeepsRequests, DataKeepsRequests DEF Next

(* A request the server cannot read came in two data events, or a write    *)
(* was cut short.                                                          *)
THEOREM TcpOnlyCutRequestsAreUnread == Spec => []OnlyCutRequestsAreUnread
<1>1. Inv /\ RequestsInv /\ [Next]_vars => Inv' /\ RequestsInv'
  BY StepsKeep, StepsKeepRequests
<1>2. RequestsInv => OnlyCutRequestsAreUnread
  BY DEF RequestsInv, OnlyCutRequestsAreUnread
<1> QED
  BY AtFirst, RequestsAtFirst, <1>1, <1>2, PTL DEF Spec
=============================================================================
