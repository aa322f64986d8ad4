------------------------------ MODULE DifyStream ------------------------------
(***************************************************************************)
(* chatStreaming of middleware/src/dify.ts: the answer of an agent arrives *)
(* as server-sent events, each a line "data: {json}" and a blank line, in  *)
(* chunks that the network cuts wherever it likes: inside a line, between  *)
(* the two newlines, inside a character.  The reader keeps what is not yet *)
(* a complete event in `buffer`.                                           *)
(*                                                                         *)
(* Bytes are abstract.  An event has six of them: the head of its line, a  *)
(* character of two bytes, as any accented letter is in UTF-8, the tail of *)
(* the line and the two newlines.  Of an event's fields only their         *)
(* presence counts: message and conversation id come together and are one  *)
(* here.                                                                   *)
(***************************************************************************)
EXTENDS Naturals, Sequences

CONSTANTS
  Scripts,   \* the sequences of events that Dify may send, each [kind, ids]
  MaxCalls   \* bound: calls of chatStreaming in a behaviour

Kind == {"message", "message_end", "error", "ping", "broken"}

ASSUME ScriptsAssumption == Scripts \subseteq Seq([kind : Kind, ids : BOOLEAN])
ASSUME MaxCallsAssumption == MaxCalls \in Nat \ {0}

VARIABLES
  script,    \* the events of the call at hand
  arrived,   \* how many bytes of them have arrived
  buffer,    \* decoded text after the last complete event
  result,    \* what the events read so far add up to
  torn,      \* the events of whose character only a part was decoded at a time
  outcome,   \* of the promise
  calls

vars == <<script, arrived, buffer, result, torn, outcome, calls>>

\* The byte at position p of the response.
PartAt(p) ==
  CASE p % 6 = 1 -> "head"
    [] p % 6 = 2 -> "lead"
    [] p % 6 = 3 -> "continuation"
    [] p % 6 = 4 -> "tail"
    [] OTHER     -> "newline"
EventAt(p) == (p + 5) \div 6
Length == 6 * Len(script)

\* The n bytes after position p.
Chunk(p, n) == [k \in 1 .. n |-> [part |-> PartAt(p + k), event |-> EventAt(p + k)]]

\* answer: the messages whose texts it is made of.
Result == [answer : Seq(Nat), ids : Nat, metadata : BOOLEAN, error : BOOLEAN]
Nothing == [answer |-> <<>>, ids |-> 0, metadata |-> FALSE, error |-> FALSE]

\* Text is made of the same parts, but a character is a character.
Text == [part : {"head", "char", "tail", "newline"}, event : Nat]

TypeOK ==
  /\ script \in Scripts
  /\ arrived \in 0 .. Length
  /\ buffer \in Seq(Text)
  /\ \A i \in 2 .. Len(buffer) : ~(buffer[i - 1].part = "newline" /\ buffer[i].part = "newline")
  /\ result \in Result
  /\ torn \subseteq Nat
  /\ outcome \in {"pending", "resolved", "rejected"}
  /\ calls \in 1 .. MaxCalls

Init ==
  /\ script \in Scripts
  /\ arrived = 0
  /\ buffer = <<>>
  /\ result = Nothing
  /\ torn = {}
  /\ outcome = "pending"
  /\ calls = 1
-------------------------------------------------------------------------------
\* chunk.toString(): bytes of a character become a character, also where a chunk
\* has only one of them; it is a replacement character then.
Decode_Latin1(chunk) == chunk
Decode(chunk) ==
  [k \in DOMAIN chunk |->
     IF chunk[k].part \in {"lead", "continuation"} THEN [chunk[k] EXCEPT !.part = "char"] ELSE chunk[k]]

Torn(chunk) ==
  {chunk[k].event : k \in {j \in DOMAIN chunk : \/ chunk[j].part = "lead" /\ j = Len(chunk)
                                                \/ chunk[j].part = "continuation" /\ j = 1}}

\* Where an event of a text ends, and the last such place, 0 if there is none.
Ends(text, k) == k > 1 /\ text[k - 1].part = "newline" /\ text[k].part = "newline"
CompleteUpTo(text) ==
  IF \E k \in DOMAIN text : Ends(text, k)
  THEN CHOOSE k \in DOMAIN text : Ends(text, k) /\ \A j \in DOMAIN text : Ends(text, j) => j <= k
  ELSE 0

\* The part of the buffer that waits for the next chunk.
Leftover_None(text) == <<>>
Leftover(text) == SubSeq(text, CompleteUpTo(text) + 1, Len(text))

\* The event that ends at k has its line in the text from "data: " on.
IsLine(text, k) == \E j \in 1 .. k : text[j] = [part |-> "head", event |-> text[k].event]

\* What the line of event i does.  After an error event the handler returns.
ReadLine(r, i) ==
  LET e == script[i]
      withIds == [r EXCEPT !.ids = IF @ = 0 /\ e.ids THEN i ELSE @]
  IN  CASE r.error -> r
        [] ~r.error /\ e.kind = "message" -> [withIds EXCEPT !.answer = Append(@, i)]
        [] ~r.error /\ e.kind = "message_end" -> [withIds EXCEPT !.metadata = TRUE]
        [] ~r.error /\ e.kind = "error" -> [r EXCEPT !.error = TRUE]
        [] OTHER -> r   \* ping and the like; a line that JSON.parse refuses

\* The events of a text, in order, up to its place k: the two loops of the handler.
ReadAll(r, text) ==
  LET read[k \in 0 .. Len(text)] ==
        IF k = 0 THEN r
        ELSE IF Ends(text, k) /\ IsLine(text, k) THEN ReadLine(read[k - 1], text[k].event)
        ELSE read[k - 1]
  IN  read[Len(text)]

\* The outcome after a chunk: an error event rejects and destroys the stream.
AfterChunk_Ignores(r) == "pending"
AfterChunk(r) == IF r.error THEN "rejected" ELSE "pending"

\* stream.on("data"): the next n bytes.
Data(n) ==
  LET chunk == Chunk(arrived, n)
      text  == buffer \o Decode(chunk)
  IN  /\ outcome = "pending"
      /\ arrived + n <= Length
      /\ arrived' = arrived + n
      /\ buffer' = Leftover(text)
      /\ result' = ReadAll(result, text)
      /\ torn' = torn \cup Torn(chunk)
      /\ outcome' = AfterChunk(result')
      /\ UNCHANGED <<script, calls>>

\* stream.on("end"), after all events or, when the other side closes, before.
End ==
  /\ outcome = "pending"
  /\ outcome' = "resolved"
  /\ UNCHANGED <<script, arrived, buffer, result, torn, calls>>

\* stream.on("error").
Fail ==
  /\ outcome = "pending"
  /\ outcome' = "rejected"
  /\ UNCHANGED <<script, arrived, buffer, result, torn, calls>>

\* The next call of chatStreaming, with locals of its own.
ChatStreaming ==
  /\ outcome # "pending" /\ calls < MaxCalls
  /\ script' \in Scripts
  /\ arrived' = 0
  /\ buffer' = <<>>
  /\ result' = Nothing
  /\ torn' = {}
  /\ outcome' = "pending"
  /\ calls' = calls + 1

\* Every call has settled.
Finished == outcome # "pending" /\ calls = MaxCalls /\ UNCHANGED vars

Next ==
  \/ \E n \in 1 .. Length : Data(n)
  \/ End
  \/ Fail
  \/ ChatStreaming
  \/ Finished

Spec == Init /\ [][Next]_vars
-------------------------------------------------------------------------------
\* Wherever the network cuts the stream, what has been read is what a reader that
\* got all of these bytes in one piece reads: no event is lost, read twice or read
\* in another order, and the same one gives the ids.  (dify.ts:95-137)
ChunkingIsInvisible == result = ReadAll(Nothing, Decode(Chunk(0, arrived)))

\* A call in which an error event arrived is never resolved with the text that came
\* before it, however that event was cut, and nothing after it counts.  (dify.ts:127-133)
ErrorIsNeverAnAnswer ==
  \A i \in DOMAIN script :
    script[i].kind = "error" /\ 6 * i <= arrived =>
      /\ outcome = "rejected"
      /\ \A j \in DOMAIN result.answer : result.answer[j] < i

\* The buffer is the text after the last complete event.
BufferIsRest == buffer = Decode(Chunk(arrived - (arrived % 6), arrived % 6))

\* No call goes on, or is resolved, after an error event.
ErrorRejects == result.error => outcome = "rejected"

\* The inductive invariant of DifyStream_proofs: what is read, what waits.
Inv ==
  /\ TypeOK
  /\ BufferIsRest
  /\ ChunkingIsInvisible
  /\ ErrorRejects
  /\ ErrorIsNeverAnAnswer

\* The characters of the answer are those Dify sent: "the last (possibly incomplete)
\* part" is kept until it is complete.  (dify.ts:96-101)
AnswerIsIntact == \A j \in DOMAIN result.answer : result.answer[j] \notin torn
===============================================================================
