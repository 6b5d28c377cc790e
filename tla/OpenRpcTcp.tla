------------------------------ MODULE OpenRpcTcp ------------------------------
(***************************************************************************)
(* OpenRPC clients that share one tcpTransport, talking to the `socket`    *)
(* side of an openRPCHandler (src/transports/openrpc.ts,                   *)
(* src/server/openrpc.ts).                                                 *)
(*                                                                         *)
(* A message is a line.  TCP keeps the bytes in order but not the lines    *)
(* together, so a line travels as its start and its end, which carries the *)
(* newline; a data event brings any number of these pieces, and may end    *)
(* inside a character, which is then lost.  The client keeps what follows  *)
(* the last newline in one buffer for all connections; the server reads    *)
(* every data event as if it held whole lines.  A full socket takes a part *)
(* of what is written, which nobody looks at.                              *)
(***************************************************************************)
EXTENDS OpenRpcClient

CONSTANTS MaxConns,     \* bound: connections opened, one passed in included
          MaxEvents     \* bound: data events the server receives

ASSUME BoundsAssumption == MaxConns \in Nat \ {0} /\ MaxEvents \in Nat

VARIABLES
  connOf,     \* of every call, the connection it waits for or was sent on
  conns,      \* every connection, in the order they were asked for
  conn,       \* the one the transport reuses, 0 for none
  buffer,     \* pieces the client has read since the last newline
  toServer, toClient,  \* pieces under way on each connection
  events,     \* data events of the server: what each has still to read
  lost,       \* history: replies the client did not read as they were written
  cut,        \* history: replies in one of whose characters a data event ended
  short,      \* history: a write was cut short
  split,      \* history: calls whose line the server got in two events
  unread      \* history: calls whose line the server could not parse

connVars  == <<conns, conn>>
wireVars  == <<toServer, toClient>>
eventVars == <<events, split, unread>>
vars == <<clientVars, connOf, connVars, buffer, wireVars, eventVars, lost, cut, short>>

Start(n) == <<n, "start">>
End(n)   == <<n, "end">>
line(n)  == <<Start(n), End(n)>>
PiecesOf(numbers) == numbers \X {"start", "end"}

(* A start whose last character was cut, and the text of pieces that were  *)
(* decoded.                                                                *)
Cut(n) == <<n, "cut">>
TextOf(numbers) == numbers \X {"start", "cut", "end"}
ConnStates == {"connecting", "open", "closed"}

WireTypeOK ==
  /\ connOf \in [1..made -> 1..MaxConns]
  /\ conns \in Seq(ConnStates) /\ Len(conns) <= MaxConns
  /\ conn \in 0..Len(conns)
  /\ buffer \in Seq(TextOf(0..made))
  /\ toServer \in [1..MaxConns -> Seq(PiecesOf(1..made))]
  /\ toClient \in [1..MaxConns -> Seq(PiecesOf(0..made))]
  /\ events \in Seq([from : 1..MaxConns, pieces : Seq(PiecesOf(1..made))])
  /\ Len(events) <= MaxEvents
  /\ short \in BOOLEAN
  /\ lost \subseteq 0..made /\ cut \subseteq 0..made
  /\ split \subseteq 1..made /\ unread \subseteq 1..made

TypeOK == ClientTypeOK /\ WireTypeOK

(* No connection yet, or one the caller passed in. *)
Init ==
  /\ ClientInit
  /\ connOf = <<>>
  /\ \/ conns = <<>> /\ conn = 0
     \/ conns = <<"open">> /\ conn = 1
  /\ buffer = <<>>
  /\ toServer = [k \in 1..MaxConns |-> <<>>]
  /\ toClient = [k \in 1..MaxConns |-> <<>>]
  /\ events = <<>>
  /\ lost = {} /\ cut = {} /\ short = FALSE /\ split = {} /\ unread = {}

(* What a socket takes of a line: all of it, or its start when it is full. *)
taken(n) == {line(n), <<Start(n)>>}

-----------------------------------------------------------------------------
(* The transport. *)

CallOnConn(c) ==
  /\ conn # 0
  /\ Make(c, "ready")
  /\ connOf' = Append(connOf, conn)
  /\ UNCHANGED <<connVars, buffer, wireVars, eventVars, lost, cut, short>>

(* Until the first connection is there, every call asks for its own. *)
CallConnecting(c) ==
  /\ conn = 0 /\ Len(conns) < MaxConns
  /\ Make(c, "opening")
  /\ conns' = Append(conns, "connecting")
  /\ connOf' = Append(connOf, Len(conns) + 1)
  /\ UNCHANGED <<conn, buffer, wireVars, eventVars, lost, cut, short>>

waitingFor(k) == {n \in 1..made : at[n] = "opening" /\ connOf[n] = k}

Connects(k) ==
  /\ conns[k] = "connecting"
  /\ conns' = [conns EXCEPT ![k] = "open"]
  /\ conn' = k
  /\ Connected(waitingFor(k))
  /\ UNCHANGED <<connOf, buffer, wireVars, eventVars, lost, cut, short>>

FailsToConnect(k) ==
  /\ conns[k] = "connecting"
  /\ conns' = [conns EXCEPT ![k] = "closed"]
  /\ Refused(waitingFor(k))
  /\ UNCHANGED <<connOf, conn, buffer, wireVars, eventVars, lost, cut, short>>

(* A connection that is closed takes nothing. *)
Send(n) ==
  /\ Register(n)
  /\ LET k == connOf[n] IN
       IF conns[k] = "open"
       THEN \E way \in taken(n) :
              /\ toServer' = [toServer EXCEPT ![k] = @ \o way]
              /\ short' = (short \/ way # line(n))
       ELSE UNCHANGED <<toServer, short>>
  /\ UNCHANGED <<connOf, connVars, buffer, toClient, eventVars, lost, cut>>

TimesOut(n) ==
  TimeOut(n) /\ UNCHANGED <<connOf, connVars, buffer, wireVars, eventVars, lost, cut, short>>

(* new TextDecoder().decode(data): every event is decoded on its own, so   *)
(* one that ends inside a character of a line leaves a replacement         *)
(* character at the end of its start, and another before its end.          *)
decoded(piece) == IF piece[2] = "start" THEN {piece, Cut(piece[1])} ELSE {piece}

(* The data listener, one piece at a time: an end completes the line that  *)
(* the buffer holds, which is a reply if it is one start and its end: its  *)
(* strings may have replacement characters, its id and its form do not     *)
(* change. A start leaves the buffer as `started`.                         *)
ReadPiece(k, piece, started) ==
  /\ LET reply == piece[1] IN
     \/ /\ piece # End(reply)
        /\ buffer' = started
        /\ cut' = IF piece = Cut(reply) THEN cut \cup {reply} ELSE cut
        /\ UNCHANGED <<clientVars, lost>>
     \/ /\ piece = End(reply)
        /\ buffer' = <<>>
        /\ IF buffer \in {<<Start(reply)>>, <<Cut(reply)>>} THEN Settle(reply) ELSE UNCHANGED clientVars
        /\ lost' = IF buffer = <<Start(reply)>> THEN lost ELSE lost \cup {reply}
        /\ UNCHANGED cut
  /\ toClient' = [toClient EXCEPT ![k] = Tail(@)]
  /\ UNCHANGED <<connOf, connVars, toServer, eventVars, short>>

Receive_Unbuffered(k) ==
  /\ conns[k] = "open" /\ toClient[k] # <<>>
  /\ \E piece \in decoded(Head(toClient[k])) : ReadPiece(k, piece, <<>>)

Receive(k) ==
  /\ conns[k] = "open" /\ toClient[k] # <<>>
  /\ \E piece \in decoded(Head(toClient[k])) : ReadPiece(k, piece, Append(buffer, piece))

(* conn is ended but kept: later calls are written to it all the same.     *)
close ==
  /\ Forget
  /\ conns' = IF conn = 0 THEN conns ELSE [conns EXCEPT ![conn] = "closed"]
  /\ UNCHANGED <<connOf, conn, buffer, wireVars, eventVars, lost, cut, short>>

(* The peer or the network ends a connection; nothing listens for it. *)
Drops(k) ==
  /\ conns[k] = "open"
  /\ conns' = [conns EXCEPT ![k] = "closed"]
  /\ UNCHANGED <<clientVars, connOf, conn, buffer, wireVars, eventVars, lost, cut, short>>

-----------------------------------------------------------------------------
(* The server: socket.data and the handleRequest it awaits line by line.   *)

(* Where the lines of a data event end: at a newline, or with the event.   *)
(* The line that ends at i is a request if nothing else is on it; 0 stands *)
(* for one that does not parse.                                            *)
ends_Last(pieces) == {Len(pieces)} \ {0}

ends(pieces) == {i \in DOMAIN pieces : pieces[i][2] = "end" \/ i = Len(pieces)}
lineAt(pieces, i) ==
  LET n == pieces[i][1] IN
    IF /\ i > 1 /\ pieces[i - 1] = Start(n) /\ pieces[i] = End(n)
       /\ i = 2 \/ pieces[i - 2][2] = "end"
    THEN n ELSE 0

callsOf(pieces) == {pieces[i][1] : i \in DOMAIN pieces}
read(pieces) == {lineAt(pieces, i) : i \in ends(pieces)}

Data(k) ==
  /\ toServer[k] # <<>> /\ Len(events) < MaxEvents
  /\ \E j \in 1..Len(toServer[k]) :
       LET pieces == SubSeq(toServer[k], 1, j)
           rest   == SubSeq(toServer[k], j + 1, Len(toServer[k]))
       IN /\ toServer' = [toServer EXCEPT ![k] = rest]
          /\ events' = Append(events, [from |-> k, pieces |-> pieces])
          /\ unread' = unread \cup (callsOf(pieces) \ read(pieces))
          /\ split' = split \cup {n \in callsOf(pieces) :
                          pieces[j] = Start(n) /\ rest # <<>> /\ Head(rest) = End(n)}
  /\ UNCHANGED <<clientVars, connOf, connVars, buffer, toClient, lost, cut, short>>

(* The first line of an event is answered once its method settles; one     *)
(* that does not parse, or whose result does not serialise, has an answer  *)
(* with a null id.  Then the next is read.                                 *)
Answer(e) ==
  LET pieces == events[e].pieces IN
  /\ \E i \in ends(pieces) :
       /\ \A j \in ends(pieces) : i <= j
       /\ \E reply \in {lineAt(pieces, i), NoId} : \E way \in taken(reply) :
            /\ toClient' = [toClient EXCEPT ![events[e].from] = @ \o way]
            /\ short' = (short \/ way # line(reply))
       /\ events' = [events EXCEPT ![e].pieces = SubSeq(pieces, i + 1, Len(pieces))]
  /\ UNCHANGED <<clientVars, connOf, connVars, buffer, toServer, lost, cut, split, unread>>

Next ==
  \/ \E c \in Clients : CallOnConn(c) \/ CallConnecting(c)
  \/ \E n \in 1..made : Send(n) \/ TimesOut(n)
  \/ \E k \in 1..Len(conns) :
       Connects(k) \/ FailsToConnect(k) \/ Receive(k) \/ Drops(k) \/ Data(k)
  \/ \E e \in DOMAIN events : Answer(e)
  \/ close

Spec == Init /\ [][Next]_vars

-----------------------------------------------------------------------------
(* Properties; AnswersOwnCall and ForgottenOnlyByClose are OpenRpcClient's *)

(* Wherever the connection cuts the lines of replies, the client puts them *)
(* together again and reads every one, and reads what was written unless a *)
(* data event ended inside a character of it, whose bytes are lost then;   *)
(* only pieces of two connections in its one buffer, or a write that was   *)
(* cut short, can spoil a reply otherwise.                                 *)
RepliesAreReassembled ==
  lost \subseteq cut \/ short \/ Len(conns) > 1

(* A request that the server cannot read is one whose line came in two     *)
(* data events, or was cut short by a full socket: the requests before and *)
(* after it in the same events are read.                                   *)
OnlyCutRequestsAreUnread ==
  unread \subseteq split \/ short
=============================================================================
