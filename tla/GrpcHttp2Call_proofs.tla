------------------------- MODULE GrpcHttp2Call_proofs -------------------------
(***************************************************************************)
(* Theorems about one HTTP/2 call, for every number of request messages    *)
(* and every bound on the chunks of the response.                          *)
(***************************************************************************)
EXTENDS GrpcHttp2Call, TLAPS

(* A request message is yielded once and written at most once. *)
WriterTyped ==
  /\ WriterTypeOK
  /\ written + left + (IF writer = "frame" THEN 1 ELSE 0) <= Requests

Typed == /\ StreamTypeOK /\ BodyTypeOK /\ SharedTypeOK
         /\ WriterTyped /\ TimerTypeOK /\ ReaderTypeOK

(* The initial states have the right types. *)
LEMMA InitTyped == Init => Typed
<1> SUFFICES ASSUME Init PROVE Typed
  OBVIOUS
<1>1. StreamTypeOK
  <2>1. /\ stream \in {"open", "closing"} /\ encoding = "identity"
        /\ responded \in BOOLEAN /\ ended \in BOOLEAN
    BY Zenon DEF Init
  <2>2. arrived \in Seq(Kinds) /\ Len(arrived) = 0
    BY DEF Init
  <2>3. QED
    BY <2>1, <2>2, MaxChunksAssumption DEF StreamTypeOK, StreamStates, Encodings
<1>2. BodyTypeOK BY DEF Init, BodyTypeOK
<1>3. SharedTypeOK BY DEF Init, SharedTypeOK, Codes
<1>4. WriterTyped
  <2>1. /\ writer = "pull" /\ left = Requests /\ written = 0
        /\ halfClosed \in BOOLEAN
    BY Zenon DEF Init
  <2>2. QED
    BY <2>1, RequestsAssumption DEF WriterTyped, WriterTypeOK, WriterStates
<1>5. TimerTypeOK BY DEF Init, TimerTypeOK
<1>6. ReaderTypeOK BY DEF Init, ReaderTypeOK, ReaderStates, Encodings
<1>7. QED BY <1>1, <1>2, <1>3, <1>4, <1>5, <1>6 DEF Typed

(* A part of the state that a step leaves alone keeps its type. *)
LEMMA Kept ==
  /\ StreamTypeOK /\ UNCHANGED streamVars => StreamTypeOK'
  /\ BodyTypeOK /\ UNCHANGED <<queue, delivered>> => BodyTypeOK'
  /\ SharedTypeOK /\ UNCHANGED <<finished, failure, wake, status, trailing>>
       => SharedTypeOK'
  /\ WriterTyped /\ UNCHANGED writeVars => WriterTyped'
  /\ TimerTypeOK /\ UNCHANGED timerVars => TimerTypeOK'
  /\ ReaderTypeOK /\ UNCHANGED <<reader, reading, resultVars>> => ReaderTypeOK'
BY DEF StreamTypeOK, BodyTypeOK, SharedTypeOK, WriterTyped, WriterTypeOK,
       TimerTypeOK, ReaderTypeOK, streamVars, writeVars, timerVars, resultVars

(* Every action keeps the types and the count of request messages. *)
LEMMA NextTyped == Typed /\ [Next]_vars => Typed'
<1> SUFFICES ASSUME Typed, [Next]_vars PROVE Typed'
  OBVIOUS
<1> USE RequestsAssumption, MaxChunksAssumption
    DEF Typed, streamVars, writeVars, timerVars, resultVars, readVars
<1>1. CASE onResponse
  <2>1. StreamTypeOK'
    BY <1>1 DEF onResponse, StreamTypeOK, StreamStates, Kinds, Encodings
  <2>2. SharedTypeOK'
    BY <1>1 DEF onResponse, SharedTypeOK, Codes, ServerCodes
  <2>3. ReaderTypeOK'
    BY <1>1 DEF onResponse, ReaderTypeOK, StreamTypeOK, SharedTypeOK,
       ReaderStates, Errors, Codes, Encodings
  <2>4. QED
    BY <1>1, <2>1, <2>2, <2>3, Kept DEF onResponse
<1>2. CASE onTrailers
  <2>1. SharedTypeOK'
    BY <1>2 DEF onTrailers, SharedTypeOK, Codes, ServerCodes
  <2>2. QED
    BY <1>2, <2>1, Kept DEF onTrailers
<1>3. CASE onData
  <2>1. StreamTypeOK'
    BY <1>3 DEF onData, nudge, StreamTypeOK, StreamStates, Kinds, Encodings
  <2>2. BodyTypeOK'
    BY <1>3 DEF onData, nudge, BodyTypeOK, StreamTypeOK
  <2>3. SharedTypeOK'
    BY <1>3 DEF onData, nudge, SharedTypeOK, Codes, ServerCodes
  <2>4. QED
    BY <1>3, <2>1, <2>2, <2>3, Kept DEF onData, nudge
<1>4. CASE onEnd
  <2>1. StreamTypeOK'
    BY <1>4 DEF onEnd, finish, nudge, StreamTypeOK, StreamStates, Kinds,
       Encodings
  <2>2. SharedTypeOK'
    BY <1>4 DEF onEnd, finish, nudge, SharedTypeOK, Codes, ServerCodes
  <2>3. QED
    BY <1>4, <2>1, <2>2, Kept DEF onEnd, finish, nudge
<1>5. CASE onError
  <2>1. StreamTypeOK'
    BY <1>5 DEF onError, finish, nudge, StreamTypeOK, StreamStates, Kinds,
       Encodings
  <2>2. SharedTypeOK'
    BY <1>5 DEF onError, finish, nudge, SharedTypeOK, Codes, ServerCodes
  <2>3. QED
    BY <1>5, <2>1, <2>2, Kept DEF onError, finish, nudge
<1>6. CASE onClose
  <2>1. StreamTypeOK'
    BY <1>6 DEF onClose, finish, nudge, StreamTypeOK, StreamStates, Kinds,
       Encodings
  <2>2. SharedTypeOK'
    BY <1>6 DEF onClose, finish, nudge, SharedTypeOK, Codes, ServerCodes
  <2>3. QED
    BY <1>6, <2>1, <2>2, Kept DEF onClose, finish, nudge
<1>7. CASE onDrain
  <2>1. WriterTyped'
    BY <1>7 DEF onDrain, WriterTyped, WriterTypeOK, WriterStates
  <2>2. QED
    BY <1>7, <2>1, Kept DEF onDrain
<1>8. CASE DeadlineFires
  <2>1. StreamTypeOK'
    BY <1>8 DEF DeadlineFires, cancel, finish, nudge, StreamTypeOK,
       StreamStates, Kinds, Encodings
  <2>2. SharedTypeOK'
    BY <1>8 DEF DeadlineFires, cancel, finish, nudge, SharedTypeOK, Codes,
       ServerCodes
  <2>3. TimerTypeOK'
    BY <1>8 DEF DeadlineFires, cancel, finish, nudge, TimerTypeOK
  <2>4. QED
    BY <1>8, <2>1, <2>2, <2>3, Kept DEF DeadlineFires, cancel, finish, nudge
<1>9. CASE onAbort
  <2>1. StreamTypeOK'
    BY <1>9 DEF onAbort, cancel, finish, nudge, StreamTypeOK, StreamStates,
       Kinds, Encodings
  <2>2. SharedTypeOK'
    BY <1>9 DEF onAbort, cancel, finish, nudge, SharedTypeOK, Codes,
       ServerCodes
  <2>3. TimerTypeOK'
    BY <1>9 DEF onAbort, cancel, finish, nudge, TimerTypeOK
  <2>4. QED
    BY <1>9, <2>1, <2>2, <2>3, Kept DEF onAbort, cancel, finish, nudge
<1>10. CASE NextRequest
  <2>1. WriterTyped'
    <3>1. halfClosed' \in BOOLEAN
      BY <1>10, Zenon DEF NextRequest, EndWriting, WriterTyped, WriterTypeOK
    <3>2. /\ left > 0 /\ left' = left - 1 /\ written' = written
          /\ writer = "pull" /\ writer' \in {"done", "frame"}
      BY <1>10 DEF NextRequest, EndWriting
    <3>3. QED
      BY <3>1, <3>2 DEF WriterTyped, WriterTypeOK, WriterStates
  <2>2. QED
    BY <1>10, <2>1, Kept DEF NextRequest, EndWriting
<1>11. CASE LastRequest
  <2>1. WriterTyped'
    BY <1>11 DEF LastRequest, EndWriting, WriterTyped, WriterTypeOK,
       WriterStates
  <2>2. QED
    BY <1>11, <2>1, Kept DEF LastRequest, EndWriting
<1>12. CASE WriteFrame
  <2>1. WriterTyped'
    BY <1>12 DEF WriteFrame, WriterTyped, WriterTypeOK, WriterStates
  <2>2. QED
    BY <1>12, <2>1, Kept DEF WriteFrame
<1>13. CASE WritingFails
  <2>1. StreamTypeOK'
    BY <1>13 DEF WritingFails, cancel, finish, nudge, StreamTypeOK,
       StreamStates, Kinds, Encodings
  <2>2. SharedTypeOK'
    BY <1>13 DEF WritingFails, cancel, finish, nudge, SharedTypeOK, Codes,
       ServerCodes
  <2>3. WriterTyped'
    BY <1>13 DEF WritingFails, cancel, finish, nudge, WriterTyped,
       WriterTypeOK, WriterStates
  <2>4. QED
    BY <1>13, <2>1, <2>2, <2>3, Kept DEF WritingFails, cancel, finish, nudge
<1>14. CASE Pull
  <2>1. ReaderTypeOK'
    BY <1>14 DEF Pull, ReaderTypeOK, StreamTypeOK, SharedTypeOK, ReaderStates,
       Errors, Codes, Encodings
  <2>2. QED
    BY <1>14, <2>1, Kept DEF Pull
<1>15. CASE Leave
  <2>1. TimerTypeOK'
    BY <1>15 DEF Leave, return, release, TimerTypeOK
  <2>2. ReaderTypeOK'
    BY <1>15 DEF Leave, return, release, ReaderTypeOK, StreamTypeOK,
       SharedTypeOK, ReaderStates, Errors, Codes, Encodings
  <2>3. QED
    BY <1>15, <2>1, <2>2, Kept DEF Leave, return, release
<1>16. CASE ReadMessage
  <2>1. BodyTypeOK'
    BY <1>16 DEF ReadMessage, BodyTypeOK, StreamTypeOK
  <2>2. ReaderTypeOK'
    BY <1>16 DEF ReadMessage, ReaderTypeOK, StreamTypeOK, SharedTypeOK,
       ReaderStates, Errors, Codes, Encodings
  <2>3. QED
    BY <1>16, <2>1, <2>2, Kept DEF ReadMessage
<1>17. CASE ReadBroken
  <2>1. BodyTypeOK'
    BY <1>17 DEF ReadBroken, throw, release, BodyTypeOK, StreamTypeOK
  <2>2. TimerTypeOK'
    BY <1>17 DEF ReadBroken, throw, release, TimerTypeOK
  <2>3. ReaderTypeOK'
    BY <1>17 DEF ReadBroken, throw, release, ReaderTypeOK, StreamTypeOK,
       SharedTypeOK, ReaderStates, Errors, Codes, Encodings
  <2>4. QED
    BY <1>17, <2>1, <2>2, <2>3, Kept DEF ReadBroken, throw, release
<1>18. CASE ReadPart
  <2>1. BodyTypeOK'
    BY <1>18 DEF ReadPart, BodyTypeOK, StreamTypeOK
  <2>2. QED
    BY <1>18, <2>1, Kept DEF ReadPart
<1>19. CASE ReadTrailerFrame
  <2>1. BodyTypeOK'
    BY <1>19 DEF ReadTrailerFrame, BodyTypeOK, StreamTypeOK
  <2>2. SharedTypeOK'
    BY <1>19 DEF ReadTrailerFrame, SharedTypeOK, Codes, ServerCodes
  <2>3. QED
    BY <1>19, <2>1, <2>2, Kept DEF ReadTrailerFrame
<1>20. CASE Park
  <2>1. SharedTypeOK'
    BY <1>20 DEF Park, SharedTypeOK, Codes, ServerCodes
  <2>2. ReaderTypeOK'
    BY <1>20 DEF Park, ReaderTypeOK, StreamTypeOK, SharedTypeOK, ReaderStates,
       Errors, Codes, Encodings
  <2>3. QED
    BY <1>20, <2>1, <2>2, Kept DEF Park
<1>21. CASE Wake
  <2>1. ReaderTypeOK'
    BY <1>21 DEF Wake, ReaderTypeOK, StreamTypeOK, SharedTypeOK, ReaderStates,
       Errors, Codes, Encodings
  <2>2. QED
    BY <1>21, <2>1, Kept DEF Wake
<1>22. CASE Drained
  <2>1. TimerTypeOK'
    BY <1>22 DEF Drained, throw, release, TimerTypeOK
  <2>2. ReaderTypeOK'
    BY <1>22 DEF Drained, throw, release, ReaderTypeOK, StreamTypeOK,
       SharedTypeOK, ReaderStates, Errors, Codes, Encodings
  <2>3. QED
    BY <1>22, <2>1, <2>2, Kept DEF Drained, throw, release
<1>23. CASE Conclude
  <2>1. TimerTypeOK'
    BY <1>23 DEF Conclude, throw, return, release, TimerTypeOK
  <2>2. ReaderTypeOK'
    BY <1>23 DEF Conclude, throw, return, release, ReaderTypeOK, StreamTypeOK,
       SharedTypeOK, ReaderStates, Errors, Codes, Encodings
  <2>3. QED
    BY <1>23, <2>1, <2>2, Kept DEF Conclude, throw, return, release
<1>24. CASE UNCHANGED vars
  BY <1>24, Kept DEF vars
<1>25. QED
  BY <1>1, <1>2, <1>3, <1>4, <1>5, <1>6, <1>7, <1>8, <1>9, <1>10, <1>11,
     <1>12, <1>13, <1>14, <1>15, <1>16, <1>17, <1>18, <1>19, <1>20, <1>21,
     <1>22, <1>23, <1>24 DEF Next, Stream, Writing, Reading

(* Every state the call reaches is of the types TypeOK declares. *)
THEOREM TypeCorrect == Spec => []TypeOK
<1>1. Typed => TypeOK BY DEF Typed, TypeOK, WriterTyped
<1>2. QED BY <1>1, InitTyped, NextTyped, PTL DEF Spec

-----------------------------------------------------------------------------
(* What the safety theorems below rest on. *)

(* The reader parks only with nothing to do, and every listener wakes it.  *)
LEMMA NextWakeup ==
  ASSUME Typed, NoLostWakeup, [Next]_vars PROVE NoLostWakeup'
<1> USE DEF Typed, NoLostWakeup, streamVars, writeVars, timerVars, resultVars,
        readVars
<1>1. CASE onResponse \/ onTrailers BY <1>1 DEF onResponse, onTrailers
<1>2. CASE onData BY <1>2 DEF onData, nudge
<1>3. CASE onEnd \/ onError \/ onClose
  BY <1>3 DEF onEnd, onError, onClose, finish, nudge
<1>4. CASE DeadlineFires \/ onAbort
  BY <1>4 DEF DeadlineFires, onAbort, cancel, finish, nudge
<1>5. CASE onDrain \/ NextRequest \/ LastRequest \/ WriteFrame
  BY <1>5 DEF onDrain, NextRequest, LastRequest, WriteFrame
<1>6. CASE WritingFails BY <1>6 DEF WritingFails, cancel, finish, nudge
<1>7. CASE Pull \/ Leave \/ Wake
  BY <1>7 DEF Pull, Leave, Wake, return, release
<1>8. CASE ReadMessage \/ ReadBroken \/ ReadPart \/ ReadTrailerFrame
  BY <1>8 DEF ReadMessage, ReadBroken, ReadPart, ReadTrailerFrame, throw, release
<1>9. CASE Park BY <1>9 DEF Park
<1>10. CASE Drained \/ Conclude
  BY <1>10 DEF Drained, Conclude, throw, return, release
<1>11. CASE UNCHANGED vars BY <1>11 DEF vars
<1>12. QED
  BY <1>1, <1>2, <1>3, <1>4, <1>5, <1>6, <1>7, <1>8, <1>9, <1>10, <1>11
  DEF Next, Stream, Writing, Reading

(* Whatever the interleaving of listeners, timer, abort and consumer, the  *)
(* messages generator is never left waiting for a wake-up already given.   *)
THEOREM WakeupNeverLost == Spec => []NoLostWakeup
<1>1. Init => NoLostWakeup BY DEF Init, NoLostWakeup
<1>2. QED BY <1>1, InitTyped, NextTyped, NextWakeup, PTL DEF Spec

(* Headers are pending only before the first byte of the answer.           *)
ReleaseInv ==
  /\ queue # <<>> \/ reader = "yielded" \/ status = "ok" => responded
  /\ responded => headers # "pending"
  /\ outcome = "ok" => reader = "over"
  /\ NoWaiterLeft

(* Every action keeps the promises, the timer and the listener accounted for. *)
LEMMA NextRelease ==
  ASSUME Typed, ReleaseInv, [Next]_vars PROVE ReleaseInv'
<1> USE DEF Typed, ReleaseInv, NoWaiterLeft, streamVars, writeVars, timerVars,
        resultVars, readVars
<1>1. CASE onResponse BY <1>1 DEF onResponse
<1>2. CASE onTrailers BY <1>2 DEF onTrailers
<1>3. CASE onData BY <1>3 DEF onData, nudge
<1>4. CASE onEnd \/ onError \/ onClose
  BY <1>4 DEF onEnd, onError, onClose, finish, nudge
<1>5. CASE DeadlineFires \/ onAbort
  BY <1>5 DEF DeadlineFires, onAbort, cancel, finish, nudge
<1>6. CASE onDrain \/ NextRequest \/ LastRequest \/ WriteFrame
  BY <1>6 DEF onDrain, NextRequest, LastRequest, WriteFrame
<1>7. CASE WritingFails BY <1>7 DEF WritingFails, cancel, finish, nudge
<1>8. CASE Pull \/ Wake BY <1>8 DEF Pull, Wake
<1>9. CASE Leave BY <1>9 DEF Leave, return, release, SharedTypeOK
<1>10. CASE ReadMessage BY <1>10 DEF ReadMessage
<1>11. CASE ReadBroken BY <1>11 DEF ReadBroken, throw, release, SharedTypeOK
<1>12. CASE ReadPart \/ ReadTrailerFrame
  BY <1>12 DEF ReadPart, ReadTrailerFrame
<1>13. CASE Park BY <1>13 DEF Park
<1>14. CASE Drained BY <1>14 DEF Drained, throw, release, SharedTypeOK
<1>15. CASE Conclude
  BY <1>15 DEF Conclude, throw, return, release, SharedTypeOK, Codes
<1>16. CASE UNCHANGED vars BY <1>16 DEF vars
<1>17. QED
  BY <1>1, <1>2, <1>3, <1>4, <1>5, <1>6, <1>7, <1>8, <1>9, <1>10, <1>11,
     <1>12, <1>13, <1>14, <1>15, <1>16 DEF Next, Stream, Writing, Reading

(* However the iteration ends, both promises settle, the timer stops and   *)
(* the signal is let go.                                                   *)
THEOREM NothingOutlivesTheCall == Spec => []NoWaiterLeft
<1>1. Init => ReleaseInv BY DEF Init, ReleaseInv, NoWaiterLeft
<1>2. ReleaseInv => NoWaiterLeft BY DEF ReleaseInv
<1>3. QED BY <1>1, <1>2, InitTyped, NextTyped, NextRelease, PTL DEF Spec

(* While the stream is open no request message has been lost, and the call *)
(* is finished only because the server's answer is.                        *)
SendInv ==
  /\ finished => ended \/ stream # "open"
  /\ writer = "failed" => stream # "open"
  /\ stream = "open" /\ writer # "done" =>
       written + left + (IF writer = "frame" THEN 1 ELSE 0) = Requests
  /\ CutStreamIsNotEnded

(* Every action keeps the count of request messages and what `halfClosed` means. *)
LEMMA NextSend ==
  ASSUME Typed, SendInv, [Next]_vars PROVE SendInv'
<1> USE RequestsAssumption
    DEF Typed, SendInv, CutStreamIsNotEnded, WriterTyped, WriterTypeOK,
        streamVars, writeVars, timerVars, resultVars, readVars
<1>1. CASE onResponse \/ onTrailers BY <1>1 DEF onResponse, onTrailers
<1>2. CASE onData BY <1>2 DEF onData, nudge
<1>3. CASE onEnd BY <1>3 DEF onEnd, finish, nudge
<1>4. CASE onError \/ onClose BY <1>4 DEF onError, onClose, finish, nudge
<1>5. CASE DeadlineFires \/ onAbort
  BY <1>5 DEF DeadlineFires, onAbort, cancel, finish, nudge
<1>6. CASE onDrain BY <1>6 DEF onDrain
<1>7. CASE NextRequest
  <2>1. CASE finished
    BY <1>7, <2>1 DEF NextRequest, EndWriting, SharedTypeOK, StreamTypeOK
  <2>2. CASE ~finished
    BY <1>7, <2>2 DEF NextRequest
  <2>3. QED BY <2>1, <2>2
<1>8. CASE LastRequest BY <1>8 DEF LastRequest, EndWriting
<1>9. CASE WriteFrame BY <1>9 DEF WriteFrame
<1>10. CASE WritingFails BY <1>10 DEF WritingFails, cancel, finish, nudge
<1>11. CASE Pull \/ Leave \/ Wake
  BY <1>11 DEF Pull, Leave, Wake, return, release
<1>12. CASE ReadMessage \/ ReadBroken \/ ReadPart \/ ReadTrailerFrame
  BY <1>12 DEF ReadMessage, ReadBroken, ReadPart, ReadTrailerFrame, throw, release
<1>13. CASE Park \/ Drained \/ Conclude
  BY <1>13 DEF Park, Drained, Conclude, throw, return, release
<1>14. CASE UNCHANGED vars BY <1>14 DEF vars
<1>15. QED
  BY <1>1, <1>2, <1>3, <1>4, <1>5, <1>6, <1>7, <1>8, <1>9, <1>10, <1>11,
     <1>12, <1>13, <1>14 DEF Next, Stream, Writing, Reading

(* A request stream cut short by a cancel, an error or a closed stream is  *)
(* never presented to the server as a complete one.                        *)
THEOREM CutStreamNeverEnded == Spec => []CutStreamIsNotEnded
<1>1. Init => SendInv
  <2>1. ASSUME Init
        PROVE /\ writer = "pull" /\ left = Requests /\ written = 0 /\ ~halfClosed
              /\ finished => stream = "closing"
    BY <2>1, Zenon DEF Init
  <2>2. QED BY <2>1, RequestsAssumption DEF SendInv, CutStreamIsNotEnded
<1>2. SendInv => CutStreamIsNotEnded BY DEF SendInv
<1>3. QED BY <1>1, <1>2, InitTyped, NextTyped, NextSend, PTL DEF Spec

(* A cancelled stream emits nothing more, so only a trailer frame that was *)
(* already in the queue can replace the code the call was cancelled with.  *)
trailerArrived == \E n \in 1..Len(arrived) : arrived[n] = "trailer"
CancelInv ==
  /\ \A i \in DOMAIN queue : queue[i] \in 1..Len(arrived)
  /\ deadline = "fired" \/ aborted =>
       stream # "open" /\ (status = "ok" => trailerArrived)
  /\ outcome = "ok" /\ (deadline = "fired" \/ aborted) => trailerArrived

(* Every action keeps an expired deadline or an abort from being forgotten. *)
LEMMA NextCancel ==
  ASSUME Typed, ReleaseInv, CancelInv, [Next]_vars PROVE CancelInv'
<1> USE MaxChunksAssumption
    DEF Typed, CancelInv, trailerArrived, streamVars, writeVars, timerVars,
        resultVars, readVars, StreamTypeOK, BodyTypeOK
<1>1. CASE onResponse \/ onTrailers BY <1>1 DEF onResponse, onTrailers
<1>2. CASE onData BY <1>2 DEF onData, nudge
<1>3. CASE onEnd \/ onError \/ onClose
  BY <1>3 DEF onEnd, onError, onClose, finish, nudge
<1>4. CASE DeadlineFires \/ onAbort
  BY <1>4 DEF DeadlineFires, onAbort, cancel, finish, nudge, ReleaseInv,
              NoWaiterLeft
<1>5. CASE onDrain \/ NextRequest \/ LastRequest \/ WriteFrame
  BY <1>5 DEF onDrain, NextRequest, LastRequest, WriteFrame
<1>6. CASE WritingFails BY <1>6 DEF WritingFails, cancel, finish, nudge
<1>7. CASE Pull \/ Wake \/ Park BY <1>7 DEF Pull, Wake, Park
<1>8. CASE Leave BY <1>8 DEF Leave, return, release
<1>9. CASE ReadMessage \/ ReadPart
  <2>1. CASE ReadMessage BY <2>1, SMTT(20) DEF ReadMessage
  <2>2. CASE ReadPart BY <2>2 DEF ReadPart
  <2>3. QED BY <1>9, <2>1, <2>2
<1>10. CASE ReadBroken BY <1>10 DEF ReadBroken, throw, release
<1>11. CASE ReadTrailerFrame BY <1>11 DEF ReadTrailerFrame
<1>12. CASE Drained BY <1>12 DEF Drained, throw, release
<1>13. CASE Conclude BY <1>13 DEF Conclude, throw, return, release, Codes
<1>14. CASE UNCHANGED vars BY <1>14 DEF vars
<1>15. QED
  BY <1>1, <1>2, <1>3, <1>4, <1>5, <1>6, <1>7, <1>8, <1>9, <1>10, <1>11,
     <1>12, <1>13, <1>14 DEF Next, Stream, Writing, Reading

(* A deadline or an abort that came before the end is never reported as    *)
(* success, unless the server put a trailer frame in the body.             *)
THEOREM CancelledIsNotSuccess == Spec => []NoSilentSuccess
<1>1. Init => CancelInv BY DEF Init, CancelInv
<1>2. Init => ReleaseInv BY DEF Init, ReleaseInv, NoWaiterLeft
<1>3. CancelInv => NoSilentSuccess
  BY DEF CancelInv, trailerArrived, NoSilentSuccess
<1>4. QED
  BY <1>1, <1>2, <1>3, InitTyped, NextTyped, NextRelease, NextCancel, PTL DEF Spec

-----------------------------------------------------------------------------
(* The HTTP/2 call implements GrpcCall. *)

(* Where the reader stands: the queue is what it has not read, it waits    *)
(* for the writing task only when there is nothing left to read, and it is *)
(* over exactly when it has an outcome.                                    *)
ReadInv ==
  /\ Len(queue) <= Len(arrived)
  /\ InOrderOnce
  /\ reader = "join" => queue = <<>> /\ finished
  /\ outcome = "open" <=> reader \notin {"over", "dropped"}

(* What Append and Tail do to a sequence, element by element. *)
LEMMA AppendElements ==
  ASSUME NEW S, NEW s \in Seq(S), NEW e \in S
  PROVE  /\ Append(s, e) \in Seq(S)
         /\ Len(Append(s, e)) = Len(s) + 1
         /\ \A i \in 1..Len(s) : Append(s, e)[i] = s[i]
         /\ Append(s, e)[Len(s) + 1] = e
         /\ {Append(s, e)[i] : i \in DOMAIN Append(s, e)} =
              {s[i] : i \in DOMAIN s} \cup {e}
<1>1. /\ Append(s, e) \in Seq(S)
      /\ Len(Append(s, e)) = Len(s) + 1
      /\ \A i \in 1..Len(s) : Append(s, e)[i] = s[i]
      /\ Append(s, e)[Len(s) + 1] = e
  OBVIOUS
<1>2. DOMAIN Append(s, e) = 1..(Len(s) + 1) /\ DOMAIN s = 1..Len(s)
  BY <1>1
<1>3. 1..(Len(s) + 1) = (1..Len(s)) \cup {Len(s) + 1}
  OBVIOUS
<1>4. QED BY <1>1, <1>2, <1>3

(* The elements of the tail are those of the sequence, one place on. *)
LEMMA TailElements ==
  ASSUME NEW S, NEW s \in Seq(S), s # <<>>
  PROVE  /\ Tail(s) \in Seq(S)
         /\ Len(Tail(s)) = Len(s) - 1
         /\ \A i \in 1..(Len(s) - 1) : Tail(s)[i] = s[i + 1]
         /\ Head(s) = s[1] /\ Len(s) > 0
  OBVIOUS

(* What every read of a chunk does to the positions. *)
LEMMA TakeChunk ==
  ASSUME Typed, ReadInv, reader = "run", queue # <<>>,
         queue' = Tail(queue), UNCHANGED arrived
  PROVE  /\ Head(queue) = read + 1 /\ read' = read + 1
         /\ read \in Nat /\ Head(queue) \in 1..Len(arrived)
         /\ Len(queue') <= Len(arrived')
         /\ \A i \in DOMAIN queue' : queue'[i] = read' + i
         /\ messages' = messages
         /\ outcome = "open"
<1>1. arrived \in Seq(Kinds) /\ queue \in Seq(1..MaxChunks)
  BY DEF Typed, StreamTypeOK, BodyTypeOK
<1>2. Len(arrived) \in Nat /\ Len(queue) \in Nat /\ DOMAIN queue = 1..Len(queue)
  BY <1>1
<1>3. /\ queue' \in Seq(1..MaxChunks) /\ Len(queue') = Len(queue) - 1
      /\ \A i \in 1..(Len(queue) - 1) : queue'[i] = queue[i + 1]
      /\ Head(queue) = queue[1] /\ Len(queue) > 0
  BY <1>1, TailElements
<1>4. read' = read + 1 /\ read \in Nat
  BY <1>2, <1>3 DEF read, ReadInv
<1>5. Head(queue) = read + 1
  BY <1>2, <1>3 DEF ReadInv, InOrderOnce
<1>6. \A i \in DOMAIN queue' : queue'[i] = read' + i
  <2>1. DOMAIN queue' = 1..(Len(queue) - 1)
    BY <1>3
  <2>2. \A i \in 1..(Len(queue) - 1) : queue[i + 1] = read + (i + 1)
    BY <1>2 DEF ReadInv, InOrderOnce
  <2>3. QED BY <1>2, <1>3, <1>4, <2>1, <2>2
<1>7. Head(queue) \in 1..Len(arrived) /\ Len(queue') <= Len(arrived')
  BY <1>2, <1>3, <1>4, <1>5 DEF read, ReadInv
<1>8. messages' = messages
  BY DEF messages
<1>9. QED
  BY <1>4, <1>5, <1>6, <1>7, <1>8 DEF ReadInv

(* Every action keeps the queue and what was delivered in step with `arrived`. *)
LEMMA NextRead ==
  ASSUME Typed, SendInv, ReadInv, [Next]_vars PROVE ReadInv'
<1> USE DEF streamVars, writeVars, timerVars, resultVars, readVars
<1>1. CASE UNCHANGED <<arrived, queue, delivered, outcome, finished>>
           /\ (reader' = reader \/ {reader, reader'} \cap {"join", "over", "dropped"} = {})
  BY <1>1, ZenonT(30) DEF ReadInv, InOrderOnce, read, messages, handedOver
<1>2. CASE UNCHANGED <<arrived, queue, delivered, outcome, reader>> /\ finished'
  BY <1>2 DEF ReadInv, InOrderOnce, read, messages, handedOver
<1>3. CASE onData
  <2>1. /\ arrived \in Seq(Kinds) /\ queue \in Seq(1..MaxChunks)
        /\ Len(arrived) \in Nat /\ Len(queue) \in Nat
        /\ Len(arrived) < MaxChunks
    BY <1>3 DEF Typed, StreamTypeOK, BodyTypeOK, onData
  <2>2. PICK kind \in Kinds : arrived' = Append(arrived, kind)
    BY <1>3 DEF onData
  <2>3. /\ Len(arrived') = Len(arrived) + 1
        /\ \A n \in 1..Len(arrived) : arrived'[n] = arrived[n]
    BY <2>1, <2>2, AppendElements
  <2>4. queue' = Append(queue, Len(arrived) + 1) /\ Len(arrived) + 1 \in 1..MaxChunks
    BY <1>3, <2>1, <2>3, MaxChunksAssumption DEF onData
  <2>5. /\ Len(queue') = Len(queue) + 1 /\ DOMAIN queue' = 1..(Len(queue) + 1)
        /\ \A i \in 1..Len(queue) : queue'[i] = queue[i]
        /\ queue'[Len(queue) + 1] = Len(arrived) + 1
    BY <2>1, <2>4, AppendElements
  <2>6. read' = read /\ read \in Nat /\ read <= Len(arrived)
    BY <2>1, <2>3, <2>5 DEF read, ReadInv
  <2>7. \A i \in DOMAIN queue' : queue'[i] = read' + i
    BY <2>1, <2>5, <2>6, SMTT(20) DEF ReadInv, InOrderOnce, read
  <2>8. /\ messages \subseteq messages'
        /\ \A n \in messages' : n <= read => n \in messages
    BY <2>1, <2>3, <2>6 DEF messages
  <2>9. UNCHANGED <<delivered, outcome, reader, handedOver>> /\ reader # "join"
    BY <1>3 DEF onData, ReadInv, SendInv, handedOver
  <2>10. InOrderOnce'
    BY <2>6, <2>7, <2>8, <2>9 DEF ReadInv, InOrderOnce
  <2>11. QED
    BY <2>1, <2>3, <2>5, <2>9, <2>10 DEF ReadInv
<1>4. CASE ReadMessage
  <2>1. /\ UNCHANGED <<arrived, outcome>> /\ queue' = Tail(queue) /\ queue # <<>>
        /\ reader = "run" /\ reader' = "yielded"
        /\ delivered' = Append(delivered, Head(queue))
        /\ arrived[Head(queue)] \in MessageKinds
    BY <1>4 DEF ReadMessage, MessageKinds
  <2>2. /\ Head(queue) = read + 1 /\ read' = read + 1
        /\ read \in Nat /\ Head(queue) \in 1..Len(arrived)
        /\ Len(queue') <= Len(arrived')
        /\ \A i \in DOMAIN queue' : queue'[i] = read' + i
        /\ messages' = messages /\ outcome = "open"
    BY <2>1, TakeChunk
  <2>3. delivered \in Seq(1..MaxChunks) /\ Head(queue) \in 1..MaxChunks
    <3>1. /\ delivered \in Seq(1..MaxChunks)
          /\ Len(arrived) \in Nat /\ Len(arrived) <= MaxChunks
      BY DEF Typed, BodyTypeOK, StreamTypeOK
    <3>2. QED BY <2>2, <3>1, MaxChunksAssumption
  <2>4. /\ DOMAIN delivered' = 1..(Len(delivered) + 1) /\ Len(delivered) \in Nat
        /\ DOMAIN delivered = 1..Len(delivered)
        /\ \A i \in 1..Len(delivered) : delivered'[i] = delivered[i]
        /\ delivered'[Len(delivered) + 1] = Head(queue)
        /\ handedOver' = handedOver \cup {Head(queue)}
    <3> DEFINE longer == Append(delivered, Head(queue))
    <3>1. /\ longer \in Seq(1..MaxChunks) /\ Len(longer) = Len(delivered) + 1
          /\ \A i \in 1..Len(delivered) : longer[i] = delivered[i]
          /\ longer[Len(delivered) + 1] = Head(queue)
          /\ {longer[i] : i \in DOMAIN longer} = handedOver \cup {Head(queue)}
      BY <2>3, AppendElements DEF handedOver
    <3>2. /\ DOMAIN longer = 1..(Len(delivered) + 1) /\ Len(delivered) \in Nat
          /\ DOMAIN delivered = 1..Len(delivered)
      BY <2>3, <3>1
    <3>3. delivered' = longer
      BY <2>1
    <3>4. handedOver' = {longer[i] : i \in DOMAIN longer}
      BY <3>3 DEF handedOver
    <3> HIDE DEF longer
    <3>5. QED BY <3>1, <3>2, <3>3, <3>4
  <2>5. \A i \in 1..Len(delivered) : delivered[i] \in Nat /\ delivered[i] < Head(queue)
    <3>1. \A i \in 1..Len(delivered) : delivered[i] \in handedOver
      BY <2>4 DEF handedOver
    <3>2. \A n \in handedOver : n \in Nat /\ n <= read
      BY DEF ReadInv, InOrderOnce, messages
    <3>3. QED BY <2>2, <3>1, <3>2
  <2>6. \A i, j \in DOMAIN delivered' : i < j => delivered'[i] < delivered'[j]
    <3>1. ASSUME NEW i \in 1..(Len(delivered) + 1), NEW j \in 1..(Len(delivered) + 1),
                 i < j
          PROVE delivered'[i] < delivered'[j]
      <4>1. CASE j = Len(delivered) + 1 BY <2>4, <2>5, <3>1, <4>1
      <4>2. CASE j # Len(delivered) + 1
        BY <2>4, <3>1, <4>2 DEF ReadInv, InOrderOnce
      <4>3. QED BY <4>1, <4>2
    <3>2. QED BY <2>4, <3>1
  <2>7. Head(queue) \in messages
    BY <2>1, <2>2 DEF messages
  <2>8. \A n \in handedOver' : n <= read' /\ n \in messages'
    <3>1. \A n \in handedOver : n \in Nat /\ n <= read /\ n \in messages
      BY <2>3 DEF ReadInv, InOrderOnce, handedOver, messages
    <3>2. QED BY <2>2, <2>4, <2>7, <3>1
  <2>9. \A n \in messages' : n <= read' => n \in handedOver'
    <3>1. \A n \in messages : n \in Nat /\ (n <= read => n \in handedOver)
      BY <2>2 DEF ReadInv, InOrderOnce, messages
    <3>2. QED BY <2>2, <2>4, <3>1
  <2>10. InOrderOnce'
    <3>1. \A i \in DOMAIN queue' : queue'[i] = read' + i
      BY <2>2
    <3>2. \A n \in messages' : n <= read' =>
            \/ n \in handedOver'
            \/ n = read' /\ outcome' \in {"unimplemented", "corrupt"}
      BY <2>9
    <3>3. QED BY <2>6, <2>8, <3>1, <3>2 DEF InOrderOnce
  <2>11. QED
    BY <2>1, <2>2, <2>10 DEF ReadInv
<1>5. CASE ReadBroken \/ ReadPart \/ ReadTrailerFrame
  <2>1. /\ UNCHANGED <<arrived, delivered, handedOver>>
        /\ queue' = Tail(queue) /\ queue # <<>> /\ reader = "run"
        /\ \/ /\ arrived[Head(queue)] \notin MessageKinds
              /\ outcome' = outcome /\ reader' = reader
           \/ /\ outcome' \in {"unimplemented", "corrupt"} /\ reader' = "over"
    BY <1>5 DEF ReadBroken, ReadPart, ReadTrailerFrame, MessageKinds, throw,
                release, handedOver
  <2>2. /\ Head(queue) = read + 1 /\ read' = read + 1
        /\ read \in Nat /\ Len(queue') <= Len(arrived')
        /\ \A i \in DOMAIN queue' : queue'[i] = read' + i
        /\ messages' = messages /\ outcome = "open"
    BY <2>1, TakeChunk
  <2>3. \A n \in handedOver : n \in Nat /\ n <= read /\ n \in messages
    BY DEF ReadInv, InOrderOnce, messages
  <2>4. \A n \in messages : n \in Nat /\ (n <= read => n \in handedOver)
    BY <2>2 DEF ReadInv, InOrderOnce, messages
  <2>5. \A n \in messages' : n <= read' =>
          \/ n \in handedOver'
          \/ n = read' /\ outcome' \in {"unimplemented", "corrupt"}
    <3>1. arrived[Head(queue)] \notin MessageKinds => Head(queue) \notin messages
      BY DEF messages
    <3>2. \A n \in messages' : n <= read' => n \in handedOver \/ n = Head(queue)
      BY <2>2, <2>4
    <3>3. CASE arrived[Head(queue)] \notin MessageKinds
      BY <2>1, <2>2, <3>1, <3>2, <3>3
    <3>4. CASE arrived[Head(queue)] \in MessageKinds
      BY <2>1, <2>2, <3>2, <3>4
    <3>5. QED BY <3>3, <3>4
  <2>6. InOrderOnce'
    BY <2>1, <2>2, <2>3, <2>5 DEF ReadInv, InOrderOnce
  <2>7. QED
    BY <2>1, <2>2, <2>6 DEF ReadInv
<1>6. CASE Drained \/ Conclude \/ Leave
  <2>1. /\ UNCHANGED <<arrived, queue, delivered, finished>>
        /\ reader \notin {"over", "dropped"}
        /\ \/ reader' = "join" /\ outcome' = outcome /\ queue = <<>> /\ finished
           \/ reader' \in {"over", "dropped"} /\ outcome' # "open"
    BY <1>6 DEF Drained, Conclude, Leave, throw, return, release, Codes
  <2>2. outcome = "open"
    BY <2>1 DEF ReadInv
  <2>3. QED
    BY <2>1, <2>2 DEF ReadInv, InOrderOnce, read, messages, handedOver
<1>7. CASE onResponse \/ onTrailers \/ onDrain
  BY <1>1, <1>7 DEF onResponse, onTrailers, onDrain
<1>8. CASE onEnd \/ onError \/ onClose
  BY <1>2, <1>8 DEF onEnd, onError, onClose, finish, nudge
<1>9. CASE DeadlineFires \/ onAbort \/ WritingFails
  BY <1>2, <1>9 DEF DeadlineFires, onAbort, WritingFails, cancel, finish, nudge
<1>10. CASE NextRequest \/ LastRequest \/ WriteFrame
  BY <1>1, <1>10 DEF NextRequest, LastRequest, WriteFrame
<1>11. CASE Pull \/ Park \/ Wake
  BY <1>1, <1>11 DEF Pull, Park, Wake
<1>12. CASE UNCHANGED vars
  BY <1>1, <1>12 DEF vars
<1>13. QED
  BY <1>3, <1>4, <1>5, <1>6, <1>7, <1>8, <1>9, <1>10, <1>11, <1>12
  DEF Next, Stream, Writing, Reading

(* What call() leaves behind satisfies the invariants on writing and reading. *)
LEMMA InitInvariants == Init => SendInv /\ ReadInv
<1> SUFFICES ASSUME Init PROVE SendInv /\ ReadInv
  OBVIOUS
<1>1. SendInv
  <2>1. /\ writer = "pull" /\ left = Requests /\ written = 0 /\ ~halfClosed
        /\ finished => stream = "closing"
    BY Zenon DEF Init
  <2>2. QED BY <2>1, RequestsAssumption DEF SendInv, CutStreamIsNotEnded
<1>2. ReadInv
  BY DEF Init, ReadInv, InOrderOnce, read, messages, handedOver
<1>3. QED BY <1>1, <1>2

(* The consumer gets every message of the response once and in order, and  *)
(* what it has not had yet is in the queue.                                *)
THEOREM MessagesInOrder == Spec => []InOrderOnce
<1>1. ReadInv => InOrderOnce BY DEF ReadInv
<1>2. QED
  BY <1>1, InitInvariants, InitTyped, NextTyped, NextSend, NextRead, PTL DEF Spec

(* Every step of the transport is a step of GrpcCall, or none of its concern. *)
LEMMA StepImplements ==
  ASSUME Typed, SendInv, ReadInv, [Next]_vars
  PROVE  [Call!CallNext]_(Call!callVars)
<1> USE DEF streamVars, writeVars, timerVars, resultVars, readVars
<1>1. ASSUME UNCHANGED <<messages, handedOver, outcome>>
      PROVE  Call!CallNext
  BY <1>1 DEF Call!CallNext, Call!StatusChanges, callVerdict
<1>2. ASSUME UNCHANGED <<messages, handedOver, status>>, outcome = "open",
             outcome' \in Errors \cup {"abandoned"}
      PROVE  Call!CallNext
  BY <1>2 DEF Call!CallNext, Call!GiveUp, callVerdict, Errors, Codes
<1>3. CASE onData
  <2>1. /\ arrived \in Seq(Kinds) /\ Len(arrived) \in Nat /\ Len(arrived) < MaxChunks
        /\ UNCHANGED <<handedOver, status, outcome>>
    BY <1>3 DEF Typed, StreamTypeOK, onData, handedOver
  <2>2. PICK kind \in Kinds : arrived' = Append(arrived, kind)
    BY <1>3 DEF onData
  <2>3. /\ Len(arrived') = Len(arrived) + 1
        /\ \A n \in 1..Len(arrived) : arrived'[n] = arrived[n]
        /\ arrived'[Len(arrived) + 1] = kind
    BY <2>1, <2>2, AppendElements
  <2>4. CASE kind \in MessageKinds
    <3>1. messages' = messages \cup {Len(arrived) + 1}
      BY <2>1, <2>3, <2>4 DEF messages
    <3>2. Len(arrived) + 1 \in 1..MaxChunks /\ \A j \in messages : j < Len(arrived) + 1
      BY <2>1, MaxChunksAssumption DEF messages
    <3>3. Call!Arrive
      BY <2>1, <3>1, <3>2 DEF Call!Arrive, callVerdict
    <3>4. QED BY <3>3 DEF Call!CallNext
  <2>5. CASE kind \notin MessageKinds
    <3>1. messages' = messages
      BY <2>1, <2>3, <2>5 DEF messages
    <3>2. QED BY <1>1, <2>1, <3>1
  <2>6. QED BY <2>4, <2>5
<1>4. CASE ReadMessage
  <2>1. /\ UNCHANGED <<arrived, outcome, status>> /\ queue' = Tail(queue)
        /\ queue # <<>> /\ reader = "run" /\ arrived[Head(queue)] \in MessageKinds
        /\ delivered' = Append(delivered, Head(queue))
    BY <1>4 DEF ReadMessage, MessageKinds
  <2>2. /\ Head(queue) = read + 1 /\ read \in Nat /\ Head(queue) \in 1..Len(arrived)
        /\ messages' = messages /\ outcome = "open"
    BY <2>1, TakeChunk
  <2>3. handedOver' = handedOver \cup {Head(queue)}
    <3>1. delivered \in Seq(1..MaxChunks) /\ Head(queue) \in 1..MaxChunks
      <4>1. /\ delivered \in Seq(1..MaxChunks)
            /\ Len(arrived) \in Nat /\ Len(arrived) <= MaxChunks
        BY DEF Typed, BodyTypeOK, StreamTypeOK
      <4>2. QED BY <2>2, <4>1, MaxChunksAssumption
    <3> DEFINE longer == Append(delivered, Head(queue))
    <3>2. {longer[i] : i \in DOMAIN longer} = handedOver \cup {Head(queue)}
      BY <3>1, AppendElements, SMTT(20) DEF handedOver
    <3>3. handedOver' = {longer[i] : i \in DOMAIN longer}
      BY <2>1 DEF handedOver
    <3>4. QED BY <3>2, <3>3
  <2>4. Head(queue) \in messages \ handedOver
    <3>1. \A n \in handedOver : n \in Nat /\ n <= read
      BY DEF ReadInv, InOrderOnce, messages
    <3>2. QED BY <2>1, <2>2, <3>1 DEF messages
  <2>5. \A j \in messages \ handedOver : Head(queue) <= j
    <3>1. \A n \in messages : n \in Nat /\ (n <= read => n \in handedOver)
      BY <2>2 DEF ReadInv, InOrderOnce, messages
    <3>2. QED BY <2>2, <3>1
  <2>6. Call!Deliver
    BY <2>1, <2>2, <2>3, <2>4, <2>5 DEF Call!Deliver, callVerdict, Errors, Codes
  <2>7. QED BY <2>6 DEF Call!CallNext
<1>5. CASE ReadBroken
  <2>1. /\ UNCHANGED <<messages, handedOver, status>> /\ reader = "run"
        /\ outcome' \in Errors
    BY <1>5 DEF ReadBroken, throw, messages, handedOver, Errors, Codes
  <2>2. QED BY <1>2, <2>1 DEF ReadInv
<1>6. CASE Drained
  <2>1. /\ UNCHANGED <<messages, handedOver, status>> /\ reader = "run"
        /\ outcome' = outcome \/ outcome' \in Errors
    BY <1>6 DEF Drained, throw, messages, handedOver, Errors
  <2>2. QED BY <1>1, <1>2, <2>1 DEF ReadInv
<1>7. CASE Leave
  <2>1. /\ UNCHANGED <<messages, handedOver, status>> /\ reader \in {"yielded", "idle"}
        /\ outcome' = "abandoned"
    BY <1>7 DEF Leave, return, messages, handedOver
  <2>2. QED BY <1>2, <2>1 DEF ReadInv
<1>8. CASE Conclude
  <2>1. /\ UNCHANGED <<messages, handedOver, status>> /\ reader = "join"
        /\ outcome' \in Errors \/ (outcome' = "ok" /\ status = "ok")
    BY <1>8 DEF Conclude, throw, return, messages, handedOver, Errors, Codes
  <2>2. outcome = "open" /\ queue = <<>>
    BY <2>1 DEF ReadInv
  <2>3. CASE outcome' \in Errors
    BY <1>2, <2>1, <2>2, <2>3
  <2>4. CASE outcome' = "ok" /\ status = "ok"
    <3>1. read = Len(arrived) /\ Len(arrived) \in Nat
      BY <2>2 DEF read, Typed, StreamTypeOK
    <3>2. \A n \in messages : n \in handedOver
      BY <2>2, <3>1 DEF ReadInv, InOrderOnce, messages
    <3>3. \A n \in handedOver : n \in messages
      BY DEF ReadInv, InOrderOnce
    <3>4. handedOver = messages
      BY <3>2, <3>3
    <3>5. Call!Succeed
      BY <2>1, <2>2, <2>4, <3>4 DEF Call!Succeed, callVerdict, Errors, Codes
    <3>6. QED BY <3>5 DEF Call!CallNext
  <2>5. QED BY <2>1, <2>3, <2>4
<1>9. CASE onResponse \/ onTrailers \/ onDrain
  BY <1>1, <1>9 DEF onResponse, onTrailers, onDrain, messages, handedOver
<1>10. CASE onEnd \/ onError \/ onClose
  BY <1>1, <1>10 DEF onEnd, onError, onClose, messages, handedOver
<1>11. CASE DeadlineFires \/ onAbort \/ WritingFails
  BY <1>1, <1>11 DEF DeadlineFires, onAbort, WritingFails, messages, handedOver
<1>12. CASE NextRequest \/ LastRequest \/ WriteFrame
  BY <1>1, <1>12 DEF NextRequest, LastRequest, WriteFrame, messages, handedOver
<1>13. CASE Pull \/ Park \/ Wake \/ ReadPart \/ ReadTrailerFrame
  BY <1>1, <1>13
  DEF Pull, Park, Wake, ReadPart, ReadTrailerFrame, messages, handedOver
<1>14. CASE UNCHANGED vars
  BY <1>1, <1>14 DEF vars, messages, handedOver
<1>15. QED
  BY <1>3, <1>4, <1>5, <1>6, <1>7, <1>8, <1>9, <1>10, <1>11, <1>12, <1>13, <1>14
  DEF Next, Stream, Writing, Reading

(* Seen by the consumer of `messages`, the HTTP/2 transport keeps what     *)
(* GrpcTransportResponse promises: order, at most once, one verdict, and   *)
(* success only after the last message and under an OK status.             *)
THEOREM Http2ImplementsCall == Spec => ImplementsCall
<1>1. Init => Call!CallInit
  BY DEF Init, Call!CallInit, messages, handedOver, callVerdict, Errors, Codes
<1>2. QED
  BY <1>1, InitInvariants, InitTyped, NextTyped, NextSend, NextRead,
     StepImplements, PTL DEF Spec, ImplementsCall, Call!CallSpec
=============================================================================
