---------------------------- MODULE GrpcHttp2Call ----------------------------
(***************************************************************************)
(* One call of the HTTP/2 transport emitted for gRPC clients               *)
(* (HTTP2_TRANSPORT in src/generators/tsClient.ts, createHttp2Transport).  *)
(*                                                                         *)
(* Five parties act on the call between two turns of the event loop: the   *)
(* http2 stream, which emits response, data, trailers, end, error, close   *)
(* and drain; the deadline timer and the caller's abort signal, which      *)
(* cancel; the `writing` task, which sends the request messages; and the   *)
(* consumer, which pulls the `messages` generator.  An action is the code  *)
(* that runs between two awaits of one of them.  A chunk of the body is    *)
(* what grpcFrames makes of it: one message, plain or packed (compressed), *)
(* part of one, or a trailer frame.                                        *)
(***************************************************************************)
EXTENDS Naturals, Sequences

CONSTANTS Requests,     \* request messages the caller's iterable yields
          MaxChunks     \* bound: chunks the server sends

ASSUME RequestsAssumption == Requests \in Nat
ASSUME MaxChunksAssumption == MaxChunks \in Nat

VARIABLES
  stream,     \* "open", "closing" once close() was called, "closed"
  responded,  \* `response` was emitted
  ended,      \* `end` was emitted
  halfClosed, \* stream.end() was called
  written,    \* request messages the stream accepted
  encoding,   \* responseEncoding: what the response headers named
  reading,    \* the encoding grpcFrames was given, "unset" before
  arrived,    \* history: the kind of every chunk the stream emitted
  queue,      \* the chunks not yet read, as positions in `arrived`
  finished, failure, wake,
  status,     \* code of `status`, "none" when undefined
  trailing,   \* where the trailing metadata came from
  headers, trailers,  \* the two promises of the result
  deadline,   \* "unset", "armed", "fired", "cleared"
  listening, aborted, \* the abort listener and the signal
  writer,     \* where the writing task is suspended
  left,       \* request messages the iterable has not yielded yet
  reader,     \* where the messages generator is suspended
  delivered,  \* history: chunks handed to the consumer
  outcome     \* how the iteration ended

streamVars == <<stream, responded, ended, encoding, arrived>>
writeVars  == <<halfClosed, written, writer, left>>
timerVars  == <<deadline, listening, aborted>>
resultVars == <<headers, trailers, outcome>>
readVars   == <<reader, reading, delivered>>
vars == <<streamVars, writeVars, timerVars, resultVars, readVars,
          queue, finished, failure, wake, status, trailing>>

Kinds == {"message", "packed", "part", "trailer"}
MessageKinds == {"message", "packed"}
Codes == {"ok", "cancelled", "unknown", "deadline", "unimplemented", "server"}
ServerCodes == {"ok", "server"}
Errors == (Codes \ {"ok"}) \cup {"stream", "request", "corrupt"}
Encodings == {"identity", "gzip"}
StreamStates == {"open", "closing", "closed"}
WriterStates == {"pull", "frame", "drain", "done", "failed"}
ReaderStates == {"idle", "run", "parked", "yielded", "join", "over", "dropped"}

StreamTypeOK ==
  /\ stream \in StreamStates
  /\ responded \in BOOLEAN /\ ended \in BOOLEAN
  /\ encoding \in Encodings
  /\ arrived \in Seq(Kinds) /\ Len(arrived) <= MaxChunks
BodyTypeOK ==
  /\ queue \in Seq(1..MaxChunks)
  /\ delivered \in Seq(1..MaxChunks)
SharedTypeOK ==
  /\ finished \in BOOLEAN /\ failure \in BOOLEAN /\ wake \in BOOLEAN
  /\ status \in Codes \cup {"none"}
  /\ trailing \in {"none", "response", "trailers"}
WriterTypeOK ==
  /\ writer \in WriterStates
  /\ written \in 0..Requests /\ left \in 0..Requests
  /\ halfClosed \in BOOLEAN
TimerTypeOK ==
  /\ deadline \in {"unset", "armed", "fired", "cleared"}
  /\ listening \in BOOLEAN /\ aborted \in BOOLEAN
ReaderTypeOK ==
  /\ reader \in ReaderStates
  /\ reading \in Encodings \cup {"unset"}
  /\ headers \in {"pending", "resolved", "rejected"}
  /\ trailers \in {"pending", "none", "response", "trailers"}
  /\ outcome \in {"open", "ok", "abandoned"} \cup Errors
TypeOK == /\ StreamTypeOK /\ BodyTypeOK /\ SharedTypeOK
          /\ WriterTypeOK /\ TimerTypeOK /\ ReaderTypeOK

-----------------------------------------------------------------------------
(* What call() leaves behind when it returns: the listeners attached, the  *)
(* timer armed, the writing task at its first await and the generator not  *)
(* started.  A signal that was already aborted has cancelled the call.     *)
Init ==
  /\ responded = FALSE /\ ended = FALSE
  /\ encoding = "identity" /\ reading = "unset"
  /\ arrived = <<>> /\ queue = <<>> /\ delivered = <<>>
  /\ halfClosed = FALSE /\ written = 0
  /\ writer = "pull" /\ left = Requests
  /\ failure = FALSE /\ wake = FALSE /\ trailing = "none"
  /\ headers = "pending" /\ trailers = "pending"
  /\ reader = "idle" /\ outcome = "open"
  /\ deadline \in {"unset", "armed"}
  /\ listening \in BOOLEAN
  /\ \/ /\ aborted = FALSE /\ finished = FALSE
        /\ status = "none" /\ stream = "open"
     \/ /\ listening
        /\ aborted = TRUE /\ finished = TRUE
        /\ status = "cancelled" /\ stream = "closing"

(* nudge() resolves the promise a parked reader waits on, once. *)
nudge == wake' = FALSE

finish_NoNudge == finished' = TRUE /\ UNCHANGED wake

finish == finished' = TRUE /\ nudge

cancel_KeepsStatus(code) ==
  /\ status' = IF status = "none" THEN code ELSE status
  /\ finish
  /\ stream' = IF stream = "open" THEN "closing" ELSE stream

cancel(code) ==
  /\ status' = code
  /\ finish
  /\ stream' = IF stream = "open" THEN "closing" ELSE stream

-----------------------------------------------------------------------------
(* The http2 stream.  A stream that close() was called on emits no more    *)
(* than its error and its close.                                           *)

onResponse ==
  /\ stream = "open" /\ ~responded
  /\ responded' = TRUE
  /\ encoding' \in Encodings
  /\ \/ UNCHANGED <<status, trailing>>
     \/ status' \in ServerCodes /\ trailing' = "response"
  /\ headers' = IF headers = "pending" THEN "resolved" ELSE headers
  /\ UNCHANGED <<stream, ended, arrived, writeVars, timerVars, readVars,
                 queue, finished, failure, wake, trailers, outcome>>

onTrailers ==
  /\ stream = "open" /\ responded /\ ~ended
  /\ trailing # "trailers"
  /\ trailing' = "trailers"
  /\ status' \in ServerCodes \cup {status}
  /\ UNCHANGED <<streamVars, writeVars, timerVars, resultVars, readVars,
                 queue, finished, failure, wake>>

chunkEvent(order(_, _), wakes) ==
  /\ stream = "open" /\ responded /\ ~ended
  /\ Len(arrived) < MaxChunks
  /\ \E kind \in Kinds : arrived' = Append(arrived, kind)
  /\ queue' = order(queue, arrived')
  /\ IF wakes THEN nudge ELSE UNCHANGED wake
  /\ UNCHANGED <<stream, responded, ended, encoding, writeVars, timerVars,
                 resultVars, readVars, finished, failure, status, trailing>>

onData_OffByOne == chunkEvent(LAMBDA q, a : Append(q, Len(a) - 1), TRUE)
onData_Front == chunkEvent(LAMBDA q, a : <<Len(a)>> \o q, TRUE)
onData_NoNudge == chunkEvent(LAMBDA q, a : Append(q, Len(a)), FALSE)

onData ==
  /\ stream = "open" /\ responded /\ ~ended
  /\ Len(arrived) < MaxChunks
  /\ \E kind \in Kinds : arrived' = Append(arrived, kind)
  /\ queue' = Append(queue, Len(arrived'))
  /\ nudge
  /\ UNCHANGED <<stream, responded, ended, encoding, writeVars, timerVars,
                 resultVars, readVars, finished, failure, status, trailing>>

onEnd ==
  /\ stream = "open" /\ responded /\ ~ended
  /\ ended' = TRUE
  /\ finish
  /\ UNCHANGED <<stream, responded, encoding, arrived, writeVars, timerVars,
                 resultVars, readVars, queue, failure, status, trailing>>

(* A destroyed stream emits its error and then its close, which finds the  *)
(* call finished and changes nothing more.                                 *)
onError ==
  /\ stream # "closed"
  /\ stream' = "closed"
  /\ failure' = (failure \/ status = "none")
  /\ finish
  /\ UNCHANGED <<responded, ended, encoding, arrived, writeVars, timerVars,
                 resultVars, readVars, queue, status, trailing>>

onClose ==
  /\ stream # "closed"
  /\ stream' = "closed"
  /\ finish
  /\ UNCHANGED <<responded, ended, encoding, arrived, writeVars, timerVars,
                 resultVars, readVars, queue, failure, status, trailing>>

(* The peer read what was buffered; a stream that is closed never drains. *)
onDrain ==
  /\ stream = "open" /\ writer = "drain"
  /\ writer' = "pull"
  /\ UNCHANGED <<streamVars, halfClosed, written, left, timerVars, resultVars,
                 readVars, queue, finished, failure, wake, status, trailing>>

-----------------------------------------------------------------------------
(* The deadline timer and the abort listener. *)

DeadlineFires ==
  /\ deadline = "armed"
  /\ deadline' = "fired"
  /\ cancel("deadline")
  /\ UNCHANGED <<responded, ended, encoding, arrived, writeVars, listening,
                 aborted, resultVars, readVars, queue, failure, trailing>>

onAbort ==
  /\ listening /\ ~aborted
  /\ aborted' = TRUE
  /\ cancel("cancelled")
  /\ UNCHANGED <<responded, ended, encoding, arrived, writeVars, deadline,
                 listening, resultVars, readVars, queue, failure, trailing>>

-----------------------------------------------------------------------------
(* The writing task. *)

(* The loop is over: stream.end(), unless the stream was closed. *)
EndWriting_Always ==
  /\ writer' = "done"
  /\ halfClosed' = TRUE

EndWriting ==
  /\ writer' = "done"
  /\ halfClosed' = (stream = "open")

(* The iterable yields: framed next, or dropped by the break. *)
NextRequest ==
  /\ writer = "pull" /\ left > 0
  /\ left' = left - 1
  /\ IF finished THEN EndWriting ELSE writer' = "frame" /\ UNCHANGED halfClosed
  /\ UNCHANGED <<streamVars, written, timerVars, resultVars, readVars, queue,
                 finished, failure, wake, status, trailing>>

LastRequest ==
  /\ writer = "pull" /\ left = 0
  /\ EndWriting
  /\ UNCHANGED <<streamVars, written, left, timerVars, resultVars, readVars,
                 queue, finished, failure, wake, status, trailing>>

(* write() returns true, or false with the message buffered; on a stream   *)
(* that has been closed it takes nothing and returns false.                *)
WriteFrame ==
  /\ writer = "frame"
  /\ \/ stream = "open" /\ writer' \in {"pull", "drain"}
     \/ stream # "open" /\ writer' = "drain"
  /\ written' = IF stream = "open" THEN written + 1 ELSE written
  /\ UNCHANGED <<streamVars, halfClosed, left, timerVars, resultVars, readVars,
                 queue, finished, failure, wake, status, trailing>>

(* The iterable, or the compression of a message, throws. *)
WritingFails ==
  /\ writer \in {"pull", "frame"}
  /\ writer' = "failed"
  /\ cancel("unknown")
  /\ UNCHANGED <<responded, ended, encoding, arrived, halfClosed, written, left,
                 timerVars, resultVars, readVars, queue, failure, trailing>>

-----------------------------------------------------------------------------
(* The messages generator and the consumer that pulls it. *)

(* The finally block: the trailers settle, the timer and listener go.      *)
release ==
  /\ trailers' = trailing
  /\ deadline' = IF deadline = "armed" THEN "cleared" ELSE deadline
  /\ listening' = FALSE
  /\ reader' = "over"
  /\ UNCHANGED aborted

(* The catch block, then the finally block.                                *)
throw_HeadersForgotten(error) ==
  /\ outcome' = error
  /\ UNCHANGED headers
  /\ release

throw(error) ==
  /\ outcome' = error
  /\ headers' = IF headers = "pending" THEN "rejected" ELSE headers
  /\ release

return(how) ==
  /\ outcome' = how
  /\ release
  /\ UNCHANGED headers

(* The first pull runs the generator to its first await, and grpcFrames is  *)
(* given the encoding known by then.                                       *)
Pull ==
  /\ reader \in {"idle", "yielded"}
  /\ reader' = "run"
  /\ reading' = IF reader = "idle" THEN encoding ELSE reading
  /\ UNCHANGED <<streamVars, writeVars, timerVars, resultVars, delivered,
                 queue, finished, failure, wake, status, trailing>>

(* The consumer stops iterating.  A generator that never started has no    *)
(* finally block to run.                                                   *)
Leave ==
  /\ \/ reader = "yielded" /\ return("abandoned")
     \/ /\ reader = "idle" /\ reader' = "dropped"
        /\ outcome' = "abandoned"
        /\ UNCHANGED <<headers, trailers, timerVars>>
  /\ UNCHANGED <<streamVars, writeVars, reading, delivered, queue, finished, failure,
                 wake, status, trailing>>

ReadMessage ==
  /\ reader = "run" /\ queue # <<>>
  /\ \/ arrived[Head(queue)] = "message"
     \/ arrived[Head(queue)] = "packed" /\ reading = "gzip"
  /\ queue' = Tail(queue)
  /\ delivered' = Append(delivered, Head(queue))
  /\ reader' = "yielded"
  /\ UNCHANGED <<streamVars, writeVars, timerVars, resultVars, reading,
                 finished, failure, wake, status, trailing>>

(* decompressMessage refuses an encoding it cannot read; the bytes of one  *)
(* it can may still be broken.                                             *)
ReadBroken ==
  /\ reader = "run" /\ queue # <<>> /\ arrived[Head(queue)] = "packed"
  /\ queue' = Tail(queue)
  /\ throw(IF reading = "gzip" THEN "corrupt" ELSE "unimplemented")
  /\ UNCHANGED <<streamVars, writeVars, reading, delivered, finished, failure,
                 wake, status, trailing>>

(* grpcFrames keeps the bytes and asks for more. *)
ReadPart ==
  /\ reader = "run" /\ queue # <<>> /\ arrived[Head(queue)] = "part"
  /\ queue' = Tail(queue)
  /\ UNCHANGED <<streamVars, writeVars, timerVars, resultVars, readVars,
                 finished, failure, wake, status, trailing>>

ReadTrailerFrame ==
  /\ reader = "run" /\ queue # <<>> /\ arrived[Head(queue)] = "trailer"
  /\ queue' = Tail(queue)
  /\ status' \in ServerCodes
  /\ UNCHANGED <<streamVars, writeVars, timerVars, resultVars, readVars,
                 finished, failure, wake, trailing>>

(* chunks has nothing to yield: it waits to be woken, or it is done.       *)
Park ==
  /\ reader = "run" /\ queue = <<>> /\ ~finished
  /\ reader' = "parked" /\ wake' = TRUE
  /\ UNCHANGED <<streamVars, writeVars, timerVars, resultVars, reading,
                 delivered, queue, finished, failure, status, trailing>>

Wake ==
  /\ reader = "parked" /\ ~wake
  /\ reader' = "run"
  /\ UNCHANGED <<streamVars, writeVars, timerVars, resultVars, reading,
                 delivered, queue, finished, failure, wake, status, trailing>>

Drained_Early ==
  /\ reader = "run" /\ finished
  /\ \/ failure /\ throw("stream")
     \/ /\ ~failure /\ reader' = "join"
        /\ UNCHANGED <<resultVars, timerVars>>
  /\ UNCHANGED <<streamVars, writeVars, reading, delivered, queue, finished,
                 failure, wake, status, trailing>>

Drained ==
  /\ reader = "run" /\ queue = <<>> /\ finished
  /\ \/ failure /\ throw("stream")
     \/ /\ ~failure /\ reader' = "join"
        /\ UNCHANGED <<resultVars, timerVars>>
  /\ UNCHANGED <<streamVars, writeVars, reading, delivered, queue, finished, failure,
                 wake, status, trailing>>

(* `await writing` has settled, and the status decides.                    *)
Conclude ==
  /\ reader = "join"
  /\ \/ writer = "failed" /\ throw("request")
     \/ writer = "done" /\ status = "none" /\ throw("unknown")
     \/ writer = "done" /\ status \in Codes \ {"ok"} /\ throw(status)
     \/ writer = "done" /\ status = "ok" /\ return("ok")
  /\ UNCHANGED <<streamVars, writeVars, reading, delivered, queue, finished, failure,
                 wake, status, trailing>>

-----------------------------------------------------------------------------
Stream == \/ onResponse \/ onTrailers \/ onData \/ onEnd \/ onError
          \/ onClose \/ onDrain
Writing == NextRequest \/ LastRequest \/ WriteFrame \/ WritingFails
Reading == \/ ReadMessage \/ ReadPart \/ ReadTrailerFrame \/ ReadBroken
           \/ Park \/ Wake \/ Drained \/ Conclude
Next == Stream \/ DeadlineFires \/ onAbort \/ Writing \/ Pull \/ Leave \/ Reading

Spec == Init /\ [][Next]_vars

(* The event loop runs what is ready: microtasks, an expired timer, the    *)
(* close of a stream that was reset.  A consumer keeps iterating and its   *)
(* iterable keeps yielding; the server owes nothing.                       *)
Fairness == /\ WF_vars(Reading) /\ WF_vars(Writing) /\ WF_vars(Pull)
            /\ WF_vars(DeadlineFires)
            /\ WF_vars(stream # "open" /\ onClose)

FairSpec == Spec /\ Fairness

-----------------------------------------------------------------------------
(* Properties *)

(* The promise `wake` is never missed: while the generator waits to be     *)
(* woken there is nothing it could do, no chunk to read and no end of the  *)
(* stream to report, whichever of the listeners, the timer or the abort    *)
(* ran between its check of the queue and its await.                       *)
NoLostWakeup ==
  /\ wake => reader = "parked"
  /\ wake => queue = <<>> /\ ~finished

(* The chunks not yet read are the last that arrived, in order; the        *)
(* messages handed to the consumer are, in order and once each, the        *)
(* messages among those that were read.  Only a message that could not be  *)
(* decompressed is missing, and it ended the call.                         *)
read == Len(arrived) - Len(queue)
messages == {n \in 1..Len(arrived) : arrived[n] \in MessageKinds}
handedOver == {delivered[i] : i \in DOMAIN delivered}
InOrderOnce ==
  /\ \A i \in DOMAIN queue : queue[i] = read + i
  /\ \A i, j \in DOMAIN delivered : i < j => delivered[i] < delivered[j]
  /\ \A n \in handedOver : n <= read /\ n \in messages
  /\ \A n \in messages : n <= read =>
        \/ n \in handedOver
        \/ n = read /\ outcome \in {"unimplemented", "corrupt"}

(* A call whose deadline expired or whose signal fired before it was over  *)
(* does not report success, even if the server's OK had already arrived;   *)
(* only a trailer frame still in the queue can put an OK back.             *)
NoSilentSuccess ==
  outcome = "ok" /\ (deadline = "fired" \/ aborted) =>
     \E n \in 1..Len(arrived) : arrived[n] = "trailer"

(* Nothing outlives the iteration: however it ended, whoever awaits the    *)
(* headers or the trailers has an answer, the timer is not running and the *)
(* signal holds no listener.                                               *)
NoWaiterLeft ==
  reader = "over" =>
    /\ headers # "pending" /\ trailers # "pending"
    /\ deadline # "armed" /\ ~listening

(* The server never takes a cut request stream for a complete one:         *)
(* stream.end() after fewer messages than the caller has is sent only to a *)
(* server that had already finished its answer.                            *)
CutStreamIsNotEnded ==
  halfClosed /\ written < Requests => ended

(* The call as its consumer sees it is the one GrpcCall describes. *)
callVerdict == IF outcome \in Errors THEN "failed" ELSE outcome
Call == INSTANCE GrpcCall WITH
  Ids <- 1..MaxChunks,
  sent <- messages,
  seen <- handedOver,
  accepted <- (status = "ok"),
  verdict <- callVerdict
ImplementsCall == Call!CallSpec

(* Once the stream has ended or the call was cancelled, a consumer that    *)
(* keeps reading reaches the end of the iteration, provided the writing    *)
(* task settles: it is the only thing the reader can be left waiting for.  *)
FinishedCallEnds ==
  (finished /\ writer \in {"done", "failed"}) ~> (reader \in {"over", "dropped"})

(* Whatever arrives is read while the consumer keeps pulling, without      *)
(* waiting for a later event of the stream.                                *)
EveryChunkIsRead ==
  queue # <<>> ~> (queue = <<>> \/ reader \in {"over", "dropped"})

(* Comment in createHttp2Transport: a deadline is "kept locally too: a     *)
(* server that ignores it must not hang the caller".                       *)
DeadlineEndsCall ==
  deadline = "fired" ~> reader \in {"over", "dropped"}
=============================================================================
