------------------------------ MODULE ApiClient ------------------------------
(***************************************************************************)
(* The calls of a generated client over fetch (src/generators/tsClient.ts):*)
(* send, sendStream and a gRPC-Web call of fetchTransport, with token      *)
(* providers they share, the interceptor src/docs/typescript-client.md     *)
(* describes (one more attempt after a deadline or a refused answer, with  *)
(* a refresh where the answer was 401) and servers that may never answer,  *)
(* stop in the middle of a body or drop the connection.                    *)
(*                                                                         *)
(* A server decides with its response how much of the body it will send    *)
(* and how that ends; the chunks in which it comes are chosen as they are  *)
(* read.                                                                   *)
(***************************************************************************)
EXTENDS TokenProviders, ResponseBody

CONSTANTS Programs,  \* what the calls of a program may be: [Calls -> Kinds]
          Timed,     \* the calls with a timeoutMs
          Abortable, \* the calls with a signal of the caller's
          Retried,   \* the calls behind the retrying interceptor
          MaxChunk   \* bound: cells that one chunk brings

Kinds == {"send", "lines", "events", "web", "no call"}

ASSUME ProgramAssumption ==
  /\ Programs \subseteq [Calls -> Kinds] /\ (Timed \cup Abortable) \subseteq Calls /\ Retried \subseteq Calls
  /\ MaxChunk \in Nat \ {0}

VARIABLES
  kind,     \* what each call is
  pc,       \* where it is: idle, token, refresh, ready, sent, text, stream or settled
  attempt,  \* 1, or 2 behind the interceptor
  token,    \* the token its request carries, 0 for none
  aborted,  \* the caller's signal has fired
  reply,    \* the response: its status, body, how much of that comes and how it ends
  taken,    \* cells of the body read so far
  buffer,   \* those after the last whole line or frame
  lines,    \* the lines of the last chunk that are still to be looked at, as text
  out,      \* what was yielded
  status,   \* of a gRPC-Web call, the status it will end with
  result    \* how the call ended

streamVars == <<taken, buffer, lines, out, status>>
callVars   == <<kind, pc, attempt, token, aborted, reply, streamVars, result>>
vars       == <<tokenVars, callVars>>

NoReply == [status |-> 200, early |-> "none", items |-> <<>>, size |-> 0, ending |-> "end"]
isStream(c) == kind[c] \in {"lines", "events", "web"}

Init ==
  /\ TokenInit
  /\ kind \in Programs
  /\ (\A c \in Calls : kind[c] # "send") => provider = "none"
  /\ pc = [c \in Calls |-> "idle"] /\ attempt = [c \in Calls |-> 1]
  /\ token = [c \in Calls |-> None] /\ aborted = [c \in Calls |-> FALSE]
  /\ reply = [c \in Calls |-> NoReply] /\ taken = [c \in Calls |-> 0]
  /\ buffer = [c \in Calls |-> <<>>] /\ lines = [c \in Calls |-> <<>>] /\ out = [c \in Calls |-> <<>>]
  /\ status = [c \in Calls |-> 0] /\ result = [c \in Calls |-> ""]

goto(c, step)   == pc' = [pc EXCEPT ![c] = step]
settle(c, with) == goto(c, "settled") /\ result' = [result EXCEPT ![c] = with] /\ token' = [token EXCEPT ![c] = None]

-----------------------------------------------------------------------------
(* An attempt begins with the headers. Only send asks for a token, and it  *)
(* does so before there is a signal or a deadline.                         *)
applyAuthHeaders(c) ==
  IF kind[c] # "send" \/ provider = "none"
  THEN goto(c, "ready") /\ UNCHANGED <<token, tokenVars>>
  ELSE IF cached # None
       THEN goto(c, "ready") /\ token' = [token EXCEPT ![c] = cached] /\ UNCHANGED tokenVars
       ELSE goto(c, "token") /\ request(c) /\ UNCHANGED token

Start(c) ==
  /\ pc[c] = "idle" /\ kind[c] # "no call"
  /\ applyAuthHeaders(c)
  /\ UNCHANGED <<kind, attempt, aborted, reply, streamVars, result>>

(* The answer to the call's own request, whatever others brought since.    *)
TokenArrives(c) ==
  /\ pc[c] = "token" /\ ask[c].state = "answered"
  /\ apply(c)
  /\ token' = [token EXCEPT ![c] = ask[c].access] /\ goto(c, "ready")
  /\ UNCHANGED <<kind, attempt, aborted, reply, streamVars, result>>

(* The interceptor's refresh, after which the next attempt begins.         *)
RefreshArrives(c) ==
  /\ pc[c] = "refresh" /\ ask[c].state = "answered"
  /\ apply(c)
  /\ token' = [token EXCEPT ![c] = accessToken'] /\ goto(c, "ready")
  /\ UNCHANGED <<kind, attempt, aborted, reply, streamVars, result>>

TokenFails(c) ==
  /\ ask[c].state = "refused"
  /\ giveUp(c) /\ settle(c, "thrown")
  /\ UNCHANGED <<kind, attempt, aborted, reply, streamVars>>

(* effectiveSignal, then fetch: an aborted signal fails it at once.        *)
Send(c) ==
  /\ pc[c] = "ready"
  /\ IF aborted[c] THEN settle(c, "thrown") ELSE goto(c, "sent") /\ UNCHANGED <<result, token>>
  /\ UNCHANGED <<tokenVars, kind, attempt, aborted, reply, streamVars>>

-----------------------------------------------------------------------------
(* What the server answers, with a token that must be live where there is  *)
(* one. A gRPC-Web server may put the status of the call into the headers. *)
Answers(c) ==
  IF kind[c] = "send"
  THEN [status : IF provider # "none" /\ ~isLive(token[c]) THEN {401} ELSE {200, 500},
        early : {"none"}, items : {<<>>}, size : {0}, ending : {"end"}]
  ELSE UNION {[status : {200, 500}, early : IF kind[c] = "web" THEN {"none", "ok", "failed"} ELSE {"none"},
               items : {items}, size : 0..bodySize(kind[c], items), ending : {"end", "reset", "hang"}] : items \in Items[kind[c]]}

(* The next attempt of the interceptor: `next` with the call it was given. *)
again(c) == attempt' = [attempt EXCEPT ![c] = 2]
retries(c) == c \in Retried /\ attempt[c] = 1 /\ kind[c] # "web"

(* What the response head decides. A status among the headers of a         *)
(* gRPC-Web response counts whatever the HTTP status is.                   *)
judged(c, r) ==
  IF r.early = "failed" THEN settle(c, "GrpcError")
  ELSE /\ goto(c, IF kind[c] = "send" \/ (r.status # 200 /\ r.early = "none") THEN "text" ELSE "stream")
       /\ UNCHANGED <<result, token>>

Respond(c) ==
  /\ pc[c] = "sent"
  /\ \E r \in Answers(c) :
       IF r.status \in {401, 500} /\ retries(c)
       THEN /\ again(c)
            /\ IF r.status = 401 /\ provider = "refresh"
               THEN goto(c, "refresh") /\ request(c) /\ UNCHANGED token
               ELSE applyAuthHeaders(c)
            /\ UNCHANGED <<reply, result>>
       ELSE /\ reply' = [reply EXCEPT ![c] = r]
            /\ judged(c, r) /\ UNCHANGED <<attempt, tokenVars>>
  /\ UNCHANGED <<kind, aborted, streamVars>>

(* The consumer has what there was and waits for more of the body.         *)
reading(c) == pc[c] = "stream" /\ lines[c] = <<>> /\ ~(kind[c] = "web" /\ hasFrame(reply[c].items, buffer[c]))

(* The deadline of this attempt, or the caller's signal, while fetch or    *)
(* the body is under way. What was read but not yielded is still yielded.  *)
failing(c, error) ==
  /\ pc[c] \in {"sent", "text"} \/ reading(c)
  /\ IF error = "TimeoutError" /\ pc[c] = "sent" /\ retries(c)
     THEN again(c) /\ applyAuthHeaders(c) /\ UNCHANGED result
     ELSE settle(c, "thrown") /\ UNCHANGED <<attempt, tokenVars>>
  /\ UNCHANGED <<kind, reply, streamVars>>

(* Mutant: only the first attempt has a deadline.                          *)
effectiveSignal_Once(c) == c \in Timed /\ kind[c] # "web" /\ attempt[c] = 1
effectiveSignal(c) == c \in Timed /\ kind[c] # "web"
DeadlineFires(c) == effectiveSignal(c) /\ failing(c, "TimeoutError") /\ UNCHANGED aborted
Abort(c) == c \in Abortable /\ ~aborted[c] /\ pc[c] \notin {"idle", "settled"} /\ aborted' = [aborted EXCEPT ![c] = TRUE]
            /\ UNCHANGED <<tokenVars, kind, pc, attempt, token, reply, streamVars, result>>
Aborted(c) == aborted[c] /\ failing(c, "AbortError") /\ UNCHANGED aborted

-----------------------------------------------------------------------------
(* The whole body, when the server has sent it: it may be of any type, or  *)
(* end with the connection. It is parsed before the status is looked at;   *)
(* that of a gRPC-Web response, an error here, is kept as text.            *)
ReadText(c) ==
  /\ pc[c] = "text"
  /\ \E read \in {"thrown"} \cup IF kind[c] = "web" THEN {"value"} ELSE {parseBody(x) : x \in Contents} :
       settle(c, IF read = "value" /\ reply[c].status # 200 THEN "ApiError" ELSE read)
  /\ reply' = [reply EXCEPT ![c] = NoReply]
  /\ UNCHANGED <<tokenVars, kind, attempt, aborted, streamVars>>

(* reader.read() brings a chunk.                                           *)
ReadChunk(c) ==
  /\ reading(c)
  /\ \E n \in 1..MaxChunk :
       LET r == reply[c]
           all == buffer[c] \o SubSeq(bodyOf(kind[c], r.items), taken[c] + 1, taken[c] + n)
       IN
       /\ taken[c] + n <= r.size
       /\ taken' = [taken EXCEPT ![c] = @ + n]
       /\ IF kind[c] = "web"
          THEN buffer' = [buffer EXCEPT ![c] = all] /\ UNCHANGED lines
          ELSE /\ lines'  = [lines EXCEPT ![c] = linesOf(all)]
               /\ buffer' = [buffer EXCEPT ![c] = restOf(all)]
  /\ UNCHANGED <<tokenVars, kind, pc, attempt, token, aborted, reply, out, status, result>>

yielded(c, item) == out' = [out EXCEPT ![c] = Append(@, item)]

(* One line of a chunk: yielded, skipped, or the end of the stream.        *)
TakeLine(c) ==
  /\ pc[c] = "stream" /\ lines[c] # <<>>
  /\ LET items == reply[c].items
         line == firstLine(lines[c])
     IN  IF isDone(kind[c], items, line)
         THEN settle(c, "done") /\ lines' = [lines EXCEPT ![c] = <<>>] /\ UNCHANGED out
         ELSE /\ lines' = [lines EXCEPT ![c] = afterLine(@)]
              /\ IF isData(kind[c], items, line) THEN yielded(c, line) ELSE UNCHANGED out
              /\ UNCHANGED <<pc, token, result>>
  /\ UNCHANGED <<tokenVars, kind, attempt, aborted, reply, taken, buffer, status>>

(* One frame: a message, or the trailer that brings the status.            *)
TakeFrame(c) ==
  /\ pc[c] = "stream" /\ kind[c] = "web" /\ hasFrame(reply[c].items, buffer[c])
  /\ LET frame == frameOf(reply[c].items, buffer[c]) IN
       IF frame.trailer
       THEN status' = [status EXCEPT ![c] = parseGrpcStatus(reply[c].items, frame.payload)] /\ UNCHANGED out
       ELSE yielded(c, frame.payload) /\ UNCHANGED status
  /\ buffer' = [buffer EXCEPT ![c] = afterFrame(reply[c].items, @)]
  /\ UNCHANGED <<tokenVars, kind, pc, attempt, token, aborted, reply, taken, lines, result>>

(* Mutant: a last line without a newline is not looked at.                 *)
EndBody_DropsRest(c) ==
  LET r == reply[c] IN
  /\ reading(c) /\ taken[c] = r.size /\ r.ending # "hang"
  /\ settle(c, IF r.ending = "reset" THEN "thrown" ELSE IF status[c] # 0 THEN "GrpcError" ELSE "done")
  /\ UNCHANGED <<tokenVars, kind, attempt, aborted, reply, taken, buffer, lines, out, status>>

(* The body ends: a line without a newline is a line, a part of a frame is *)
(* nothing, and no trailer is status 0.                                    *)
EndBody(c) ==
  LET r == reply[c]
      isLine == kind[c] # "web" /\ isData(kind[c], r.items, buffer[c])
  IN
  /\ reading(c) /\ taken[c] = r.size /\ r.ending # "hang"
  /\ settle(c, IF r.ending = "reset" THEN "thrown" ELSE IF status[c] # 0 THEN "GrpcError" ELSE "done")
  /\ IF isLine /\ r.ending = "end" THEN yielded(c, buffer[c]) ELSE UNCHANGED out
  /\ UNCHANGED <<tokenVars, kind, attempt, aborted, reply, taken, buffer, lines, status>>

(* The consumer stops at a message it was given.                           *)
Leave(c) ==
  /\ pc[c] = "stream" /\ out[c] # <<>>
  /\ settle(c, "left") /\ lines' = [lines EXCEPT ![c] = <<>>]
  /\ UNCHANGED <<tokenVars, kind, attempt, aborted, reply, taken, buffer, out, status>>

Endpoint(c) == (Issue(c) \/ Refuse(c) \/ LoseAnswer(c)) /\ UNCHANGED callVars
TimePasses  == Tick /\ UNCHANGED callVars

Client(c) ==
  \/ Start(c) \/ TokenArrives(c) \/ RefreshArrives(c) \/ TokenFails(c) \/ Send(c)
  \/ Aborted(c) \/ ReadChunk(c) \/ TakeLine(c) \/ TakeFrame(c) \/ EndBody(c)

Next ==
  \/ \E c \in Calls : Client(c) \/ Endpoint(c) \/ Respond(c) \/ ReadText(c) \/ DeadlineFires(c) \/ Abort(c) \/ Leave(c)
  \/ TimePasses

(* Settled promises, a body's chunks and timers are served by the event    *)
(* loop; of servers, the endpoint and the caller nothing is assumed.       *)
Fairness == \A c \in Calls : WF_vars(Client(c)) /\ WF_vars(DeadlineFires(c))

Spec == Init /\ [][Next]_vars /\ Fairness

-----------------------------------------------------------------------------
(* A stream yields the server's items whole, once each and in their order, *)
(* however chunks cut them, and says it is done only when it has yielded   *)
(* all that came in whole. Two things are less than that, and are all      *)
(* there is: a body that ends in the middle of a line yields the part as   *)
(* an item, and a gRPC-Web body that ends before its trailer is a success. *)
ItemsAreWhole ==
  \A c \in Calls : isStream(c) =>
    LET items  == reply[c].items
        whole  == arrived(kind[c], items, reply[c].size)
        failed == failures(kind[c], items, reply[c].size)
    IN
    /\ \A k \in whole : place(whole, k) <= Len(out[c]) => out[c][place(whole, k)] = wholeItem(kind[c], items, k)
    /\ \/ Len(out[c]) <= Cardinality(whole)
       \/ /\ Len(out[c]) = Cardinality(whole) + 1 /\ kind[c] # "web" /\ result[c] = "done"
          /\ out[c][Len(out[c])] = buffer[c]
    /\ result[c] = "done" => Len(out[c]) >= Cardinality(whole) /\ failed = {}
    /\ result[c] = "GrpcError" => failed # {} \/ reply[c].early = "failed"

(* A call with a timeoutMs ends, or asks for another token, even if the    *)
(* server never answers or stops in the middle of the body, in the second  *)
(* attempt as in the first (src/docs/typescript-client.md:333, 366); a     *)
(* token endpoint that does not answer is outside every deadline, and a    *)
(* gRPC-Web call has none.                                                 *)
TimedCallsEnd ==
  \A c \in Timed : (pc[c] \in {"sent", "text", "stream"} /\ kind[c] # "web") ~> (pc[c] \in {"settled", "token", "refresh"})

=============================================================================
