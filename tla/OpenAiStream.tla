---------------------------- MODULE OpenAiStream ----------------------------
(* The streamed answer of an OpenAI-compatible provider: the server writes     *)
(* SSE frames, the network cuts them anywhere, OpenAiSseParser puts them       *)
(* together again, StreamState turns the chunks into the block events of the   *)
(* Anthropic protocol that the rest of the program reads.                      *)
EXTENDS Naturals, Sequences, SequencesExt

CONSTANTS
  MaxFrames     \* frames the server writes, at most

VARIABLES
  served,       \* the chunks the server has written, in order (a ghost)
  sep,          \* the separator of this server, "lf" or "crlf"
  wire,         \* bytes written and not read yet
  parser,       \* OpenAiSseParser.buffer
  state,        \* StreamState, with the events it has pushed
  connection    \* "writing", "open", "done", "failed"

streamVars == <<served, sep, wire, parser, state, connection>>

\* Tools are numbered by the provider; two are enough for their blocks to overlap.
ToolNumbers == <<0, 1>>
ToolBlock(i) == <<"tool0", "tool1">>[i + 1]

-----------------------------------------------------------------------------
(* What the server writes *)

\* A chunk: what its choice carries, the number of the chunk standing for the text of it.
ChunkOf(think, text, tools, finish) ==
  [kind |-> "chunk", think |-> think, text |-> text, tools |-> tools, finish |-> finish]
DeltaToolCall(i, name, arguments) == [i |-> i, name |-> name, arguments |-> arguments]

\* The usage comes in a chunk without choices.
UsageChunk == ChunkOf(FALSE, FALSE, <<>>, "none")
ChatCompletionChunks ==
  {UsageChunk, ChunkOf(TRUE, FALSE, <<>>, "none"), ChunkOf(FALSE, TRUE, <<>>, "none"), ChunkOf(TRUE, TRUE, <<>>, "none"),
   ChunkOf(FALSE, FALSE, <<>>, "stop"), ChunkOf(FALSE, FALSE, <<>>, "tool_calls"),
   ChunkOf(FALSE, FALSE, <<DeltaToolCall(0, TRUE, TRUE), DeltaToolCall(1, TRUE, FALSE)>>, "none"),
   ChunkOf(FALSE, TRUE, <<DeltaToolCall(0, TRUE, TRUE)>>, "tool_calls")}
  \cup {ChunkOf(FALSE, FALSE, <<DeltaToolCall(0, n, TRUE)>>, "none") : n \in BOOLEAN}
  \cup {ChunkOf(FALSE, FALSE, <<DeltaToolCall(1, TRUE, a)>>, "none") : a \in BOOLEAN}

\* Frames that are no chunk: a comment, a ping or [DONE]; an error object; unreadable JSON.
OtherFrames == {[kind |-> "ignored"], [kind |-> "error"], [kind |-> "garbled"]}

Separator == IF sep = "lf" THEN <<"lf", "lf">> ELSE <<"cr", "lf", "cr", "lf">>

\* A frame is two bytes of data, so that it can be cut inside, and the separator.
BytesOf(n) == [j \in 1..(2 + Len(Separator)) |->
                 IF j <= 2 THEN [byte |-> "data", n |-> n, half |-> j]
                           ELSE [byte |-> Separator[j - 2], n |-> 0, half |-> 0]]

\* After a finish reason only frames without choices come (usage, [DONE]).
MayFollow(c) == c \in ChatCompletionChunks \ {UsageChunk} =>
  \A k \in DOMAIN served : served[k].kind = "chunk" => served[k].finish = "none"

ServerWrites(c) ==
  /\ connection = "writing" /\ Len(served) < MaxFrames /\ MayFollow(c)
  /\ served' = Append(served, c)
  /\ wire' = wire \o BytesOf(Len(served) + 1)
  /\ UNCHANGED <<sep, parser, state, connection>>

\* The server has written what it will: deliveries only depend on the order of bytes.
ServerRests ==
  /\ connection = "writing" /\ connection' = "open"
  /\ UNCHANGED <<served, sep, wire, parser, state>>

-----------------------------------------------------------------------------
(* Frames *)

IsByte(buffer, j, b) == buffer[j].byte = b
FindSeparator(buffer, bytes) ==
  {p \in 1..(Len(buffer) - Len(bytes) + 1) :
     \A j \in 1..Len(bytes) : IsByte(buffer, p + j - 1, bytes[j])}
First(ps) == CHOOSE p \in ps : \A q \in ps : p <= q

\* Where the next frame ends and how long its separator is; length 0: no frame yet.
\* The short separator is looked for first, in the whole buffer.
next_sse_frame(buffer) ==
  LET lf   == FindSeparator(buffer, <<"lf", "lf">>)
      crlf == FindSeparator(buffer, <<"cr", "lf", "cr", "lf">>)
  IN CASE lf # {} -> [at |-> First(lf), len |-> 2]
       [] lf = {} /\ crlf # {} -> [at |-> First(crlf), len |-> 4]
       [] OTHER -> [at |-> 1, len |-> 0]

\* The chunks a frame holds: none (0 stands for it), one, or an error (also when two
\* frames have run into each other or one is torn).
Nothing == 0
Failure == MaxFrames + 1
parse_sse_frame(frame) ==
  LET data == SelectSeq(frame, LAMBDA b : b.byte = "data")
  IN CASE data = <<>> -> Nothing
       [] Len(data) = 2 /\ data[1].n = data[2].n /\ served[data[1].n].kind = "chunk" -> data[1].n
       [] Len(data) = 2 /\ data[1].n = data[2].n /\ served[data[1].n].kind = "ignored" -> Nothing
       [] OTHER -> Failure

\* Mutant: the buffer is dropped when it holds no whole frame.
push_dropping(buffer) ==
  LET loop[k \in 0..Len(buffer)] ==
        IF k = 0 THEN [buffer |-> buffer, chunks |-> <<>>]
        ELSE LET before == loop[k - 1]
                 frame == next_sse_frame(before.buffer)
             IN IF frame.len = 0 THEN [before EXCEPT !.buffer = <<>>]
                ELSE [buffer |-> SubSeq(before.buffer, frame.at + frame.len, Len(before.buffer)),
                      chunks |-> Append(before.chunks, parse_sse_frame(SubSeq(before.buffer, 1, frame.at - 1)))]
  IN loop[Len(buffer)]

\* Every whole frame of the buffer, in order, and what is left of it.
push(buffer) ==
  LET loop[k \in 0..Len(buffer)] ==
        IF k = 0 THEN [buffer |-> buffer, chunks |-> <<>>]
        ELSE LET before == loop[k - 1]
                 frame == next_sse_frame(before.buffer)
             IN IF frame.len = 0 THEN before
                ELSE [buffer |-> SubSeq(before.buffer, frame.at + frame.len, Len(before.buffer)),
                      chunks |-> Append(before.chunks, parse_sse_frame(SubSeq(before.buffer, 1, frame.at - 1)))]
  IN loop[Len(buffer)]

-----------------------------------------------------------------------------
(* StreamState *)

NewToolCall == [name |-> FALSE, arguments |-> <<>>, emitted |-> 0, block |-> "no"]
StreamStateNew ==
  [message_started |-> FALSE, thinking |-> "no", text |-> "no", stop_reason |-> "none",
   tool_calls |-> [i \in {ToolNumbers[k] : k \in DOMAIN ToolNumbers} |-> NewToolCall],
   events |-> <<>>, ingested |-> <<>>]

StreamEvent(st, e, i, block, parts) ==
  [st EXCEPT !.events = Append(@, [e |-> e, i |-> i, block |-> block, parts |-> parts])]

close_thinking(st) ==
  IF st.thinking = "open"
  THEN [StreamEvent(st, "stop", 0, "thinking", <<>>) EXCEPT !.thinking = "closed"]
  ELSE st

\* A block of thinking takes index 0, and shifts the others, from the moment it starts.
text_block_index(st) == IF st.thinking = "no" THEN 0 ELSE 1
tool_index_offset(st) == IF st.thinking = "no" THEN 1 ELSE 2
block_index(st, i) == i + tool_index_offset(st)

start_event(st, i) ==
  [StreamEvent(st, "start", block_index(st, i), ToolBlock(i), <<>>) EXCEPT !.tool_calls[i].block = "open"]

\* Only the arguments not given yet.
delta_event(st, i) ==
  LET t == st.tool_calls[i]
  IN IF t.emitted >= Len(t.arguments) THEN st
     ELSE [StreamEvent(st, "delta", block_index(st, i), ToolBlock(i),
                       SubSeq(t.arguments, t.emitted + 1, Len(t.arguments)))
             EXCEPT !.tool_calls[i].emitted = Len(t.arguments)]

stop_event(st, i) ==
  IF st.tool_calls[i].block # "open" THEN st
  ELSE [StreamEvent(st, "stop", block_index(st, i), ToolBlock(i), <<>>) EXCEPT !.tool_calls[i].block = "closed"]

apply(st, t, n) ==
  [st EXCEPT !.tool_calls[t.i].name = @ \/ t.name,
             !.tool_calls[t.i].arguments = IF t.arguments THEN Append(@, n) ELSE @]

\* A tool whose name has not come is kept back, its arguments with it.
ingest_tool(st, t, n, finish) ==
  LET applied == apply(close_thinking(st), t, n)
      started == IF applied.tool_calls[t.i].block = "no" THEN start_event(applied, t.i) ELSE applied
      given   == delta_event(started, t.i)
  IN IF applied.tool_calls[t.i].block = "no" /\ ~applied.tool_calls[t.i].name THEN applied
     ELSE IF finish = "tool_calls" THEN stop_event(given, t.i) ELSE given

ingest_reasoning(st, n) ==
  LET started == IF st.thinking # "no" THEN st
                 ELSE [StreamEvent(st, "start", 0, "thinking", <<>>) EXCEPT !.thinking = "open"]
  IN StreamEvent(started, "delta", 0, "thinking", <<n>>)

ingest_text(st, n) ==
  LET closed == close_thinking(st)
      started == IF closed.text # "no" THEN closed
                 ELSE [StreamEvent(closed, "start", text_block_index(closed), "text", <<>>) EXCEPT !.text = "open"]
  IN StreamEvent(started, "delta", text_block_index(started), "text", <<n>>)

normalize_finish_reason(r) ==
  CASE r = "stop" -> "end_turn" [] r = "tool_calls" -> "tool_use" [] OTHER -> r

ingest_finish(st, finish) ==
  LET told == [st EXCEPT !.stop_reason = normalize_finish_reason(finish)]
  IN IF finish = "tool_calls" THEN FoldLeft(stop_event, told, ToolNumbers) ELSE told

ingest_chunk(st, n) ==
  LET c  == served[n]
      s0 == IF st.message_started THEN st
            ELSE [StreamEvent(st, "message_start", 0, "message", <<>>) EXCEPT !.message_started = TRUE]
      s1 == IF c.think THEN ingest_reasoning(s0, n) ELSE s0
      s2 == IF c.text THEN ingest_text(s1, n) ELSE s1
      s3 == FoldLeft(LAMBDA st0, t : ingest_tool(st0, t, n, c.finish), s2, c.tools)
      s4 == IF c.finish = "none" THEN s3 ELSE ingest_finish(s3, c.finish)
  IN [s4 EXCEPT !.ingested = Append(@, n)]

\* What is still open is closed, a tool kept back for its name is given if it has one by now.
finish_tool(st, i) ==
  LET t == st.tool_calls[i]
      given == IF t.block = "no" /\ t.name THEN delta_event(start_event(st, i), i) ELSE st
  IN stop_event(given, i)

finish(st) ==
  LET closed == close_thinking(st)
      texted == IF closed.text # "open" THEN closed
                ELSE [StreamEvent(closed, "stop", text_block_index(closed), "text", <<>>) EXCEPT !.text = "closed"]
      tooled == FoldLeft(finish_tool, texted, ToolNumbers)
      reason == IF st.stop_reason = "none" THEN "end_turn" ELSE st.stop_reason
  IN IF ~st.message_started THEN tooled
     ELSE StreamEvent(StreamEvent(tooled, "message_delta", 0, reason, <<>>), "message_stop", 0, "message", <<>>)

-----------------------------------------------------------------------------
(* next_event *)

\* A read returns any number of the bytes that wait. A frame that does not parse fails the
\* call, and the chunks read before it in the same call are gone.
ReadChunk(k) ==
  LET pushed == push(parser \o SubSeq(wire, 1, k))
      chunks == SelectSeq(pushed.chunks, LAMBDA n : n # Nothing)
  IN /\ connection = "open" /\ k \in 1..Len(wire)
     /\ wire' = SubSeq(wire, k + 1, Len(wire))
     /\ parser' = pushed.buffer
     /\ IF Failure \in {chunks[j] : j \in DOMAIN chunks}
        THEN connection' = "failed" /\ UNCHANGED state
        ELSE state' = FoldLeft(ingest_chunk, state, chunks) /\ UNCHANGED connection
     /\ UNCHANGED <<served, sep>>

\* The connection closes: also in the middle, which this client takes for the end. The
\* bytes of a frame without its separator stay in the buffer.
ReadEnd ==
  /\ connection = "open"
  /\ connection' = "done" /\ state' = finish(state)
  /\ UNCHANGED <<served, sep, wire, parser>>

\* The connection breaks, and chunk() fails.
ReadFails ==
  /\ connection = "open" /\ connection' = "failed"
  /\ UNCHANGED <<served, sep, wire, parser, state>>

StreamInit ==
  /\ served = <<>> /\ sep \in {"lf", "crlf"} /\ wire = <<>> /\ parser = <<>>
  /\ state = StreamStateNew /\ connection = "writing"

StreamNext ==
  \/ \E c \in ChatCompletionChunks \cup OtherFrames : ServerWrites(c)
  \/ ServerRests
  \/ \E k \in 1..Len(wire) : ReadChunk(k)
  \/ ReadEnd
  \/ ReadFails

-----------------------------------------------------------------------------
(* Properties *)

FrameLength == 2 + Len(Separator)
Delivered == (Len(served) * FrameLength - Len(wire)) \div FrameLength

\* However the bytes were cut, the chunks taken in are those of the frames that have
\* arrived whole, once each and in order (while no frame failed).
CutsAreInvisible ==
  connection \in {"open", "done"} =>
    state.ingested = SelectSeq([k \in 1..Delivered |-> k], LAMBDA k : served[k].kind = "chunk")

\* Thinking comes before the rest of the message.
ThinkingFirst ==
  \A j, k \in DOMAIN state.ingested : j < k =>
    LET a == served[state.ingested[j]] b == served[state.ingested[k]]
    IN b.think => ~a.text /\ a.tools = <<>>

Events(e, i) == {n \in DOMAIN state.events : state.events[n].e = e /\ state.events[n].i = i}
Kind(n) == state.events[n].block

\* The blocks of a message are well formed for a reader of the Anthropic protocol: one
\* start and at most one stop for an index, every delta between them, all stopped at the
\* end, even with text and several tools open at once (if thinking comes first).
BlocksWellFormed ==
  ThinkingFirst =>
    \A i \in 0..4 :
      LET starts == Events("start", i) stops == Events("stop", i) deltas == Events("delta", i)
      IN /\ \A a, b \in starts : a = b
         /\ \A a, b \in stops : a = b
         /\ \A n \in deltas \cup stops : \E s \in starts : s < n /\ Kind(s) = Kind(n)
         /\ \A n \in deltas, t \in stops : n < t
         /\ connection = "done" => (starts # {} => stops # {})

\* The fragments given for a block, and those the chunks taken in carried for it.
Given(block) == FlattenSeq([n \in DOMAIN state.events |->
                              IF Kind(n) = block THEN state.events[n].parts ELSE <<>>])
Carries(c, block) ==
  CASE block = "thinking" -> c.think
    [] block = "text" -> c.text
    [] OTHER -> \E k \in DOMAIN c.tools : ToolBlock(c.tools[k].i) = block /\ c.tools[k].arguments
Named(block) == \E n \in DOMAIN state.ingested :
  \E k \in DOMAIN served[state.ingested[n]].tools :
    LET t == served[state.ingested[n]].tools[k] IN ToolBlock(t.i) = block /\ t.name

\* At the end the reader has every fragment of text, thinking and tool arguments once and
\* in order; a tool that never got a name is left out whole.
ContentIsWhole ==
  connection = "done" =>
    \A block \in {"thinking", "text", "tool0", "tool1"} :
      Given(block) = IF block \in {"tool0", "tool1"} /\ ~Named(block) THEN <<>>
                     ELSE SelectSeq(state.ingested, LAMBDA n : Carries(served[n], block))

\* Every answer begins with message_start; it ends with one message_delta and one
\* message_stop when the connection has closed, and with neither before.
EndsOnce ==
  LET ends == {n \in DOMAIN state.events : state.events[n].e \in {"message_delta", "message_stop"}}
      last == Len(state.events)
  IN /\ state.events # <<>> /\ state.ingested # <<>> => state.events[1].e = "message_start"
     /\ ends = IF connection = "done" /\ state.ingested # <<>> THEN {last - 1, last} ELSE {}

\* The stream a reader sees is right whatever the cuts between its chunks.
OpenAiStreamSound == CutsAreInvisible /\ BlocksWellFormed /\ ContentIsWhole /\ EndsOnce
=============================================================================
