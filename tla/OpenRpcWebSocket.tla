--------------------------- MODULE OpenRpcWebSocket ---------------------------
(***************************************************************************)
(* OpenRPC clients that share one webSocketTransport, talking to an        *)
(* openRPCHandler (src/transports/openrpc.ts, src/server/openrpc.ts).      *)
(*                                                                         *)
(* The server runs the methods of a socket side by side and answers in any *)
(* order; the socket keeps each direction in order until it is closed or   *)
(* lost, which the transport does not listen for.                          *)
(***************************************************************************)
EXTENDS OpenRpcClient

CONSTANT MaxSockets     \* bound: sockets opened, one passed in included

ASSUME MaxSocketsAssumption == MaxSockets \in Nat \ {0}

VARIABLES
  socketOf,   \* of every call, the socket it waits for or was sent on
  sockets,    \* the readyState of every socket, in the order of creation
  evented,    \* the first socket has addEventListener
  hearing,    \* calls that an `open` or `error` event will reach
  toServer, toClient,  \* messages under way on each socket
  serving     \* calls whose method is running on the server

socketVars == <<sockets, evented, hearing>>
wireVars   == <<toServer, toClient, serving>>
vars == <<clientVars, socketOf, socketVars, wireVars>>

States == {"connecting", "open", "closing", "closed"}

SocketsTypeOK ==
  /\ socketOf \in [1..made -> 1..MaxSockets]
  /\ sockets \in Seq(States) /\ Len(sockets) <= MaxSockets
  /\ evented \in BOOLEAN
  /\ hearing \subseteq 1..made
  /\ toServer \in [1..MaxSockets -> Seq(1..made)]
  /\ toClient \in [1..MaxSockets -> Seq(0..made)]
  /\ serving \subseteq 1..made

TypeOK == ClientTypeOK /\ SocketsTypeOK

(* No socket yet, or one the caller passed in. *)
Init ==
  /\ ClientInit
  /\ socketOf = <<>>
  /\ \/ sockets = <<>> /\ evented = TRUE
     \/ sockets \in {<<"connecting">>, <<"open">>} /\ evented \in BOOLEAN
  /\ hearing = {}
  /\ toServer = [s \in 1..MaxSockets |-> <<>>]
  /\ toClient = [s \in 1..MaxSockets |-> <<>>]
  /\ serving = {}

current == Len(sockets)
currentIs(states) == current > 0 /\ sockets[current] \in states

-----------------------------------------------------------------------------
(* The transport.  getSocket() looks at the readyState of the last socket. *)

CallOnOpen(c) ==
  /\ currentIs({"open"})
  /\ Make(c, "ready")
  /\ socketOf' = Append(socketOf, current)
  /\ UNCHANGED <<socketVars, wireVars>>

(* Without addEventListener the handlers are properties of the socket, and *)
(* those of an earlier call are overwritten.                               *)
CallOnConnecting(c) ==
  /\ currentIs({"connecting"})
  /\ Make(c, "opening")
  /\ socketOf' = Append(socketOf, current)
  /\ hearing' = IF current = 1 /\ ~evented
                THEN {made + 1} ELSE hearing \cup {made + 1}
  /\ UNCHANGED <<sockets, evented, wireVars>>

CallOpening(c) ==
  /\ ~currentIs({"connecting", "open"}) /\ current < MaxSockets
  /\ Make(c, "opening")
  /\ socketOf' = Append(socketOf, current + 1)
  /\ sockets' = Append(sockets, "connecting")
  /\ hearing' = hearing \cup {made + 1}
  /\ UNCHANGED <<evented, wireVars>>

(* getSocket() has resolved.  A socket that is no longer open drops what   *)
(* is sent on it.                                                          *)
Send(n) ==
  /\ Register(n)
  /\ toServer' = IF sockets[socketOf[n]] = "open"
                 THEN [toServer EXCEPT ![socketOf[n]] = Append(@, n)]
                 ELSE toServer
  /\ UNCHANGED <<socketOf, socketVars, toClient, serving>>

(* handleMessage *)
Receive(s) ==
  /\ sockets[s] = "open" /\ toClient[s] # <<>>
  /\ Settle(Head(toClient[s]))
  /\ toClient' = [toClient EXCEPT ![s] = Tail(@)]
  /\ UNCHANGED <<socketOf, socketVars, toServer, serving>>

TimesOut(n) == TimeOut(n) /\ UNCHANGED <<socketOf, socketVars, wireVars>>

close ==
  /\ Forget
  /\ sockets' = IF currentIs({"connecting", "open"})
                THEN [sockets EXCEPT ![current] = "closing"] ELSE sockets
  /\ UNCHANGED <<socketOf, evented, hearing, wireVars>>

-----------------------------------------------------------------------------
(* The socket.  Only the two events of getSocket() reach the transport.    *)

waitingFor(s) == {n \in hearing : socketOf[n] = s}

Opens(s) ==
  /\ sockets[s] = "connecting"
  /\ sockets' = [sockets EXCEPT ![s] = "open"]
  /\ Connected(waitingFor(s))
  /\ hearing' = hearing \ waitingFor(s)
  /\ UNCHANGED <<socketOf, evented, wireVars>>

(* The connection is refused, or was closed before it opened: `error`.     *)
FailsToOpen(s) ==
  /\ sockets[s] \in {"connecting", "closing"}
  /\ sockets' = [sockets EXCEPT ![s] = "closed"]
  /\ Refused(waitingFor(s))
  /\ hearing' = hearing \ waitingFor(s)
  /\ UNCHANGED <<socketOf, evented, wireVars>>

(* The peer or the network ends an open socket. *)
Drops(s) ==
  /\ sockets[s] = "open"
  /\ sockets' = [sockets EXCEPT ![s] = "closed"]
  /\ UNCHANGED <<clientVars, socketOf, evented, hearing, wireVars>>

-----------------------------------------------------------------------------
(* The server: websocket.message and the handleRequest it calls.           *)

Serve(s) ==
  /\ toServer[s] # <<>>
  /\ serving' = serving \cup {Head(toServer[s])}
  /\ toServer' = [toServer EXCEPT ![s] = Tail(@)]
  /\ UNCHANGED <<clientVars, socketOf, socketVars, toClient>>

(* The method settles; a result that cannot be serialised is answered as a *)
(* parse error, with a null id.                                            *)
Reply(n) ==
  /\ n \in serving
  /\ serving' = serving \ {n}
  /\ \E reply \in {n, NoId} :
       toClient' = [toClient EXCEPT ![socketOf[n]] = Append(@, reply)]
  /\ UNCHANGED <<clientVars, socketOf, socketVars, toServer>>

Next ==
  \/ \E c \in Clients : CallOnOpen(c) \/ CallOnConnecting(c) \/ CallOpening(c)
  \/ \E n \in 1..made : Send(n) \/ TimesOut(n) \/ Reply(n)
  \/ \E s \in 1..current : Opens(s) \/ FailsToOpen(s) \/ Drops(s) \/ Serve(s) \/ Receive(s)
  \/ close

Spec == Init /\ [][Next]_vars

(* Microtasks and messages are run, timers fire, methods settle.  A socket *)
(* owes nothing but, once asked to close, to close.                        *)
Fairness ==
  /\ \A n \in Calls : WF_vars(n <= made /\ (Send(n) \/ Reply(n)))
  /\ \A n \in Calls : WF_vars(n <= made /\ TimesOut(n))
  /\ \A s \in 1..MaxSockets : WF_vars(s <= current /\ (Serve(s) \/ Receive(s)))
  /\ \A s \in 1..MaxSockets :
       WF_vars(s <= current /\ sockets[s] = "closing" /\ FailsToOpen(s))

FairSpec == Spec /\ Fairness

-----------------------------------------------------------------------------
(* Properties; AnswersOwnCall and ForgottenOnlyByClose are OpenRpcClient's *)

(* A reply on its way over an open socket settles its call, whatever other *)
(* replies are ahead of it, unless another client has used its id too.     *)
onItsWay(n) == \E i \in DOMAIN toClient[socketOf[n]] : toClient[socketOf[n]][i] = n
ReplySettles ==
  \A n \in Calls :
     (n <= made /\ onItsWay(n)) ~>
        (n <= made /\ (\/ at[n] = "settled"
                       \/ sockets[socketOf[n]] # "open"
                       \/ \E m \in 1..made : sameId(n, m)))

(* timeoutMs bounds the whole call, the wait for the socket included: no   *)
(* lost socket, closed transport or overwritten handler leaves the caller  *)
(* of a client with a timeout without an outcome.                          *)
TimedCallSettles ==
  \A n \in Calls : (n <= made /\ client[n] \in Timed) ~> (n <= made /\ outcome[n] # "none")
=============================================================================
