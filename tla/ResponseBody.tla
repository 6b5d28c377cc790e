----------------------------- MODULE ResponseBody -----------------------------
(***************************************************************************)
(* How a generated client reads a response body                            *)
(* (src/generators/tsClient.ts): at once (parseBody), line by line         *)
(* (parseStream) or frame by frame (grpcFrames in fetchTransport).         *)
(*                                                                         *)
(* A streamed body is a sequence of cells.  An item of it, number k, is a  *)
(* line of two cells and a newline, or a frame of a flag cell, a length    *)
(* cell and the payload; a chunk may end between any two of them.          *)
(***************************************************************************)
EXTENDS Integers, Sequences, FiniteSetsExt

CONSTANT Items   \* of every kind of streamed body, the items of the bodies there are

trailerItems == {"trailer ok", "trailer failed"}

(* A trailer is the last frame of a gRPC-Web body.                         *)
ASSUME ItemsAssumption ==
  /\ Items.lines  \subseteq Seq({"data"})
  /\ Items.events \subseteq Seq({"data", "note", "done"})
  /\ Items.web    \subseteq Seq({"data", "empty"} \cup trailerItems)
  /\ \A items \in Items.web : \A k \in DOMAIN items : items[k] \in trailerItems => k = Len(items)

NL == <<0, 0>>
cell(k, part) == <<k, part>>

-----------------------------------------------------------------------------
(* The whole body: what text() leaves to each content type. A byte format  *)
(* asks for the bytes of a body that is already read; a type that names    *)
(* JSON is parsed whatever the status.                                     *)
Contents == {"none", "json", "torn", "text", "bytes"}
parseBody(content) ==
  IF content \in {"none", "json", "text"} THEN "value" ELSE "thrown"

-----------------------------------------------------------------------------
(* Lines. Items of an event stream: data, a comment or an id, [DONE]. The  *)
(* marks that tell them apart are at the start of the line.                *)
newlines(text) == {i \in DOMAIN text : text[i] = NL}

(* buffer.split("\n"): the lines, and what follows the last newline. A     *)
(* list of lines is the text they stand in, each with its newline.         *)
linesOf(text) == SubSeq(text, 1, Max({0} \cup newlines(text)))
restOf(text)  == SubSeq(text, Max({0} \cup newlines(text)) + 1, Len(text))

firstLine(text)  == SubSeq(text, 1, Min(newlines(text)) - 1)
afterLine(text)  == SubSeq(text, Min(newlines(text)) + 1, Len(text))

whatIs(items, line) == IF line = <<>> THEN "blank" ELSE items[Head(line)[1]]
isDone(kind, items, line)  == kind = "events" /\ line # <<>> /\ whatIs(items, line) = "done" /\ Len(line) = 2
isData(kind, items, line)  ==
  /\ line # <<>>
  /\ kind = "events" => (whatIs(items, line) = "data" \/ (whatIs(items, line) = "done" /\ Len(line) = 1))

-----------------------------------------------------------------------------
(* Frames. The header is read when it is whole; its length cell says how   *)
(* many payload cells follow.                                              *)
lengthOf(item) == IF item = "empty" THEN 0 ELSE 2

hasFrame(items, buffer) ==
  Len(buffer) >= 2 /\ Len(buffer) >= 2 + lengthOf(items[buffer[2][1]])
frameOf(items, buffer) ==
  [trailer |-> items[buffer[1][1]] \in trailerItems,
   payload |-> SubSeq(buffer, 3, 2 + lengthOf(items[buffer[2][1]]))]
afterFrame(items, buffer) ==
  SubSeq(buffer, 3 + lengthOf(items[buffer[2][1]]), Len(buffer))

parseGrpcStatus(items, payload) == IF items[Head(payload)[1]] = "trailer ok" THEN 0 ELSE 5

-----------------------------------------------------------------------------
(* The body a server writes for its items: how many cells the first k of   *)
(* them take, where item k ends, and what each cell holds. The last line   *)
(* has no newline.                                                         *)
upTo(kind, items, k) ==
  IF kind = "web" THEN 2 * k + 2 * Cardinality({j \in 1..k : items[j] # "empty"}) ELSE 3 * k
endsAt(kind, items, k) == upTo(kind, items, k) - IF kind = "web" THEN 0 ELSE 1
bodySize(kind, items)  == IF items = <<>> THEN 0 ELSE endsAt(kind, items, Len(items))
itemAt(kind, items, p) ==
  CHOOSE k \in DOMAIN items : upTo(kind, items, k - 1) < p /\ p <= upTo(kind, items, k)

bodyOf(kind, items) ==
  [p \in 1..bodySize(kind, items) |->
     LET k    == itemAt(kind, items, p)
         part == p - upTo(kind, items, k - 1)
     IN  IF kind # "web" /\ part = 3 THEN NL ELSE cell(k, part)]

(* What a consumer should get of it, in order: every item that is data, up *)
(* to the mark that ends the stream; of a body that breaks off after size  *)
(* cells, those that came in whole.                                        *)
isMessage(item) == item \in {"data", "empty"}
meant(items) ==
  {k \in DOMAIN items : isMessage(items[k]) /\ \A j \in 1..k : items[j] # "done"}
arrived(kind, items, size)  == {k \in meant(items) : endsAt(kind, items, k) <= size}
failures(kind, items, size) == {k \in DOMAIN items : items[k] = "trailer failed" /\ endsAt(kind, items, k) <= size}
wholeItem(kind, items, k) ==
  IF kind = "web" THEN [i \in 1..lengthOf(items[k]) |-> cell(k, i + 2)] ELSE [i \in 1..2 |-> cell(k, i)]

(* The place of a number among those of a set.                             *)
place(S, k) == Cardinality({j \in S : j <= k})
=============================================================================
