------------------------------ MODULE TurnStream ------------------------------
(* The readers of a provider's stream: the command line's client, the grpc     *)
(* server's and the sub-agents'. They see the same events and differ in what   *)
(* they keep by block index, in what they show meanwhile and in what they do    *)
(* about a stream that stalls or says nothing. Then the command line's tools:  *)
(* approvals and results are typed by a person into one standard input.        *)
EXTENDS Naturals, Sequences, SequencesExt

CONSTANTS
  MaxWire,       \* events of all streams of a turn
  MaxRequests,   \* requests of a turn
  SinkSlots,     \* capacity of the channel to the user interface
  MaxPaste       \* lines of a pasted result

VARIABLES
  setting,   \* which reader, whether the provider opens tool blocks one at a time, --proxy
  link,      \* the request under way: what was served, the blocks' state
  reading,   \* locals of consume_stream, stream_and_collect, stream_with_provider
  screen,    \* shown text; for the grpc server the channel to the interface and what it took
  console,   \* standard input and the tools being run
  turnLog    \* ghosts: requests of each kind, events served so far

turnVars == <<setting, link, reading, screen, console, turnLog>>

Blocks == 0..2
BlockKinds == {"text", "tool", "thinking"}
Cli == setting.reader = "cli"
Grpc == setting.reader = "grpc"

\* The command line keeps one pending tool, the others one for each index.
Slot(i) == IF Cli THEN 0 ELSE i
NoPending == [tool |-> FALSE, thinking |-> FALSE, input |-> <<>>]

NewLink(post_tool, attempt) ==
  [served |-> <<>>, blocks |-> [i \in Blocks |-> "none"], kinds |-> [i \in Blocks |-> "none"],
   ended |-> "no", post_tool |-> post_tool, attempt |-> attempt]
NewReading == [pc |-> "reading", events |-> <<>>, pending |-> [i \in Blocks |-> NoPending],
               saw_stop |-> FALSE, source |-> "stream", markdown |-> <<>>]
NewConsole == [tools |-> <<>>, at |-> 0, step |-> "none", stdin |-> <<>>, closed |-> FALSE,
               lines |-> <<>>, meant |-> <<>>, results |-> <<>>, strayed |-> FALSE, typed |-> FALSE]

TurnInit ==
  /\ setting \in [reader : {"cli", "grpc", "agent"}, serial : BOOLEAN, proxy : BOOLEAN]
  /\ setting.proxy => Cli /\ setting.serial
  /\ link = NewLink(FALSE, 1) /\ reading = NewReading
  /\ screen = [text |-> <<>>, sink |-> <<>>, refused |-> FALSE] /\ console = NewConsole
  /\ turnLog = [streams |-> 1, wire |-> 0, asked |-> 1, unsaid |-> TRUE]

-----------------------------------------------------------------------------
(* What the provider serves *)

Served(e) == [link EXCEPT !.served = Append(@, e)]
Open(i) == link.blocks[i] = "open"
ToolOpen == {i \in Blocks : Open(i) /\ link.kinds[i] = "tool"}

\* An event of the stream, with the block it is about; a text may reach a place where
\* markdown can be cut.
StreamEvents ==
  [e : {"start"}, i : Blocks, kind : BlockKinds, cut : {FALSE}]
    \cup [e : {"delta"}, i : Blocks, kind : BlockKinds, cut : BOOLEAN]
    \cup [e : {"stop"}, i : Blocks, kind : BlockKinds, cut : {FALSE}]
    \cup [e : {"message_stop"}, i : {0}, kind : {"text"}, cut : {FALSE}]

\* Blocks are started in order and stopped once. A serial provider sends nothing else while
\* a tool block is open.
MaySend(e) ==
  /\ e.cut => e.kind = "text"
  /\ setting.serial => \A i \in ToolOpen : e.i = i /\ e.e # "message_stop"
  /\ CASE e.e = "start" -> link.blocks[e.i] = "none" /\ \A j \in 0..(e.i - 1) : link.blocks[j] # "none"
       [] e.e = "message_stop" -> \A i \in Blocks : ~Open(i)
       [] OTHER -> Open(e.i) /\ link.kinds[e.i] = e.kind

ToolEvent(input) == [e |-> "tool_use", parts |-> input]
TextEvent(n) == [e |-> "text", parts |-> <<n>>]
ThinkingEvent(parts) == [e |-> "thinking", parts |-> parts]
StopEvent == [e |-> "message_stop", parts |-> <<>>]

\* emit: the interface never holds up the model; what does not fit is dropped.
emit(event) ==
  IF ~Grpc THEN UNCHANGED screen
  ELSE IF Len(screen.sink) < SinkSlots THEN screen' = [screen EXCEPT !.sink = Append(@, event)]
  ELSE screen' = [screen EXCEPT !.refused = TRUE]

\* Text is rendered up to the last place it can be cut, the rest when its block stops.
markdown_push(n, cut) ==
  IF cut THEN /\ screen' = [screen EXCEPT !.text = @ \o Append(reading.markdown, n)]
              /\ reading' = [reading EXCEPT !.markdown = <<>>, !.events = Append(@, TextEvent(n))]
  ELSE /\ reading' = [reading EXCEPT !.markdown = Append(@, n), !.events = Append(@, TextEvent(n))]
       /\ UNCHANGED screen

markdown_flush(next) ==
  /\ screen' = [screen EXCEPT !.text = @ \o reading.markdown]
  /\ reading' = [next EXCEPT !.markdown = <<>>]

\* push_output_block of a starting block: its input comes with the deltas.
push_output_block(e) ==
  /\ reading' = IF e.kind = "text" \/ (e.kind = "thinking" /\ Cli) THEN reading
                ELSE [reading EXCEPT !.pending[Slot(e.i)] =
                        [tool |-> e.kind = "tool", thinking |-> e.kind = "thinking", input |-> <<>>]]
  /\ UNCHANGED screen

ContentBlockDelta(e, n) ==
  CASE e.kind = "text" /\ Cli -> markdown_push(n, e.cut)
    [] e.kind = "text" /\ ~Cli ->
         reading' = [reading EXCEPT !.events = Append(@, TextEvent(n))] /\ emit(TextEvent(n))
    [] e.kind = "thinking" ->
         /\ reading' = IF reading.pending[Slot(e.i)].thinking
                       THEN [reading EXCEPT !.pending[Slot(e.i)].input = Append(@, n)] ELSE reading
         /\ emit(ThinkingEvent(<<n>>))
    [] OTHER ->
         /\ reading' = IF reading.pending[Slot(e.i)].tool
                       THEN [reading EXCEPT !.pending[Slot(e.i)].input = Append(@, n)] ELSE reading
         /\ UNCHANGED screen

\* The pending block of this index, or the command line's only one, becomes an event.
ContentBlockStop(e) ==
  LET p == reading.pending[Slot(e.i)]
      told == CASE p.tool -> <<ToolEvent(p.input)>> [] p.thinking -> <<ThinkingEvent(p.input)>> [] OTHER -> <<>>
      next == [reading EXCEPT !.events = @ \o told, !.pending[Slot(e.i)] = NoPending]
  IN IF Cli THEN markdown_flush(next) ELSE reading' = next /\ UNCHANGED screen

MessageStop ==
  LET next == [reading EXCEPT !.events = Append(@, StopEvent), !.saw_stop = TRUE]
  IN IF Cli THEN markdown_flush(next) ELSE reading' = next /\ emit(StopEvent)

\* next_event returns the next event of the stream, and the reader takes it in.
NextEvent(e) ==
  /\ reading.pc = "reading" /\ link.ended = "no" /\ turnLog.wire < MaxWire /\ ~reading.saw_stop
  /\ MaySend(e)
  /\ link' = [Served(e) EXCEPT !.blocks[e.i] = CASE e.e = "start" -> "open" [] e.e = "stop" -> "closed" [] OTHER -> @,
                               !.kinds[e.i] = IF e.e = "start" THEN e.kind ELSE @]
  /\ turnLog' = [turnLog EXCEPT !.wire = @ + 1]
  /\ CASE e.e = "start" -> push_output_block(e)
       [] e.e = "delta" -> ContentBlockDelta(e, turnLog.wire + 1)
       [] e.e = "stop" -> ContentBlockStop(e)
       [] e.e = "message_stop" -> MessageStop
  /\ UNCHANGED <<setting, console>>

\* The interface takes what waits in the channel.
InterfaceTakes ==
  /\ Grpc /\ screen.sink # <<>>
  /\ screen' = [screen EXCEPT !.text = Append(@, Head(screen.sink)), !.sink = Tail(@)]
  /\ UNCHANGED <<setting, link, reading, console, turnLog>>

-----------------------------------------------------------------------------
(* How a stream ends *)

Said(events) == \E k \in DOMAIN events : events[k].e \in {"text", "tool_use"}
Stopped(events) == \E k \in DOMAIN events : events[k].e = "message_stop"

\* The stream is over, whole or cut short: what was said is closed as if it were whole. When
\* nothing was said, all but the grpc server ask again without streaming.
StreamEnds ==
  /\ reading.pc = "reading" /\ link.ended = "no"
  /\ LET events == IF ~reading.saw_stop /\ Said(reading.events)
                   THEN Append(reading.events, StopEvent) ELSE reading.events
     IN IF Stopped(events) \/ Grpc
        THEN reading' = [reading EXCEPT !.pc = "done", !.events = events] /\ UNCHANGED turnLog
        ELSE /\ reading' = [reading EXCEPT !.pc = "send", !.events = events]
             /\ turnLog' = [turnLog EXCEPT !.asked = @ + 1]
  /\ link' = [link EXCEPT !.ended = "eof"]
  /\ UNCHANGED <<setting, screen, console>>

StreamFails ==
  /\ reading.pc \in {"reading", "send"}
  /\ reading' = [reading EXCEPT !.pc = "failed"] /\ link' = [link EXCEPT !.ended = "error"]
  /\ UNCHANGED <<setting, screen, console, turnLog>>

\* Mutant: the timeout stays on after the first event.
stall_timeout_applies_always == Cli /\ link.post_tool /\ link.attempt = 1

stall_timeout_applies == Cli /\ link.post_tool /\ link.attempt = 1 /\ link.served = <<>>

\* The first event after tools does not come in time: the request is sent once more.
PostToolStall ==
  /\ reading.pc = "reading" /\ link.ended = "no" /\ stall_timeout_applies
  /\ link' = NewLink(TRUE, 2) /\ reading' = NewReading
  /\ turnLog' = [turnLog EXCEPT !.streams = @ + 1, !.asked = @ + 1, !.unsaid = @ /\ ~Said(reading.events)]
  /\ UNCHANGED <<setting, screen, console>>

\* send_message answers whole: response_to_events, block by block.
response_to_events(kinds) ==
  LET n == turnLog.wire + 1
      event(k) == CASE k = "text" -> TextEvent(n) [] k = "tool" -> ToolEvent(<<n>>) [] OTHER -> ThinkingEvent(<<n>>)
      kept == SelectSeq(kinds, LAMBDA k : k # "thinking" \/ ~Cli)
  IN Append([k \in DOMAIN kept |-> event(kept[k])], StopEvent)

AnswersWhole(kinds) ==
  /\ reading.pc = "send" /\ turnLog.wire < MaxWire
  /\ reading' = [reading EXCEPT !.pc = "done", !.events = response_to_events(kinds), !.source = "send"]
  /\ turnLog' = [turnLog EXCEPT !.wire = @ + 1]
  /\ screen' = IF Cli /\ kinds # <<>> /\ kinds[1] = "text"
               THEN [screen EXCEPT !.text = Append(@, turnLog.wire + 1)] ELSE screen
  /\ UNCHANGED <<setting, link, console>>

-----------------------------------------------------------------------------
(* The command line's tools *)

ToolsOf(events) == SelectSeq(events, LAMBDA x : x.e = "tool_use")

\* Every call of the answer: is it approved, and who runs it? In proxy mode the person does;
\* some tools are not to be had then, and others run here.
BeginTools(routes) ==
  /\ Cli /\ setting.proxy /\ reading.pc = "done" /\ ToolsOf(reading.events) # <<>>
  /\ Len(routes) = Len(ToolsOf(reading.events))
  /\ reading' = [reading EXCEPT !.pc = "tools"]
  /\ console' = [console EXCEPT !.tools = routes, !.at = 1, !.step = "ask", !.results = <<>>, !.typed = FALSE]
  /\ UNCHANGED <<setting, link, screen, turnLog>>

Asking(step) == reading.pc = "tools" /\ console.at \in DOMAIN console.tools /\ console.step = step
ToolDone(c, result) ==
  [c EXCEPT !.results = Append(@, result), !.at = @ + 1, !.step = "ask", !.lines = <<>>, !.meant = <<>>, !.typed = FALSE]

\* The person answers what is asked: a word for an approval, a result and its marker for a
\* card. Lines may stray behind the marker: an empty one, or the rest of a result that
\* contains the marker itself.
Types(lines, meant, strays) ==
  /\ ~console.typed /\ ~console.closed
  /\ console' = [console EXCEPT !.stdin = @ \o lines \o strays, !.meant = meant, !.typed = TRUE,
                                !.strayed = @ \/ strays # <<>>]
  /\ UNCHANGED <<setting, link, reading, screen, turnLog>>

Pastes == UNION {[1..n -> {"o", "y"}] : n \in 0..MaxPaste}
TypesAnswer(w) == Asking("ask") /\ Types(<<w>>, <<w>>, <<>>)
TypesResult(paste, end, strays) == Asking("card") /\ Types(Append(paste, end), Append(paste, end), strays)

ClosesInput ==
  /\ reading.pc = "tools" /\ ~console.closed /\ console' = [console EXCEPT !.closed = TRUE]
  /\ UNCHANGED <<setting, link, reading, screen, turnLog>>

\* CliPermissionPrompter: anything but yes is no, the end of the input too.
decide ==
  /\ Asking("ask") /\ (console.stdin # <<>> \/ console.closed)
  /\ LET line == IF console.stdin = <<>> THEN "" ELSE Head(console.stdin)
         read == [console EXCEPT !.stdin = IF @ = <<>> THEN @ ELSE Tail(@)]
         given == [ok |-> TRUE, typed |-> console.meant, lines |-> <<>>, end |-> "n"]
     IN console' = IF line # "y" THEN ToolDone(read, [given EXCEPT !.ok = FALSE])
                   ELSE [read EXCEPT !.step = "execute"]
  /\ UNCHANGED <<setting, link, reading, screen, turnLog>>

\* execute: not allowed or disabled tools are refused, proxied ones become a card.
execute_tool ==
  /\ Asking("execute")
  /\ LET route == console.tools[console.at]
         result == [ok |-> TRUE, typed |-> console.meant, lines |-> <<>>, end |-> route]
     IN console' = IF route = "proxied" THEN [console EXCEPT !.step = "card", !.meant = <<>>, !.typed = FALSE]
                   ELSE ToolDone(console, result)
  /\ UNCHANGED <<setting, link, reading, screen, turnLog>>

\* execute_via_proxy reads up to a marker, or to the end of the input, which counts as success.
execute_via_proxy ==
  /\ Asking("card") /\ (console.stdin # <<>> \/ console.closed)
  /\ LET result(end) == [ok |-> TRUE, typed |-> console.meant, lines |-> console.lines, end |-> end]
         line == Head(console.stdin)
         read == [console EXCEPT !.stdin = Tail(@)]
     IN console' = CASE console.stdin = <<>> -> ToolDone(console, result("EOF"))
                     [] console.stdin # <<>> /\ line \in {"END", "ERROR"} -> ToolDone(read, result(line))
                     [] OTHER -> [read EXCEPT !.lines = Append(@, line)]
  /\ UNCHANGED <<setting, link, reading, screen, turnLog>>

\* The results go to the model with the next request.
NextRequest ==
  /\ reading.pc = "tools" /\ console.at > Len(console.tools) /\ turnLog.asked < MaxRequests
  /\ link' = NewLink(TRUE, 1) /\ reading' = NewReading
  /\ screen' = [screen EXCEPT !.text = <<>>]
  /\ console' = [console EXCEPT !.tools = <<>>, !.at = 0, !.step = "none"]
  /\ turnLog' = [turnLog EXCEPT !.streams = 1, !.asked = @ + 1, !.unsaid = TRUE]
  /\ UNCHANGED setting

TurnNext ==
  \/ \E e \in StreamEvents : NextEvent(e)
  \/ InterfaceTakes
  \/ StreamEnds
  \/ StreamFails
  \/ PostToolStall
  \/ \E kinds \in {<<>>, <<"thinking">>, <<"text">>, <<"text", "tool">>} : AnswersWhole(kinds)
  \/ \E n \in 1..2 : \E routes \in [1..n -> {"proxied", "disabled", "local"}] : BeginTools(routes)
  \/ \E w \in {"y", "n"} : TypesAnswer(w)
  \/ \E paste \in Pastes, end \in {"END", "ERROR"}, strays \in {<<>>, <<"">>, <<"y">>} : TypesResult(paste, end, strays)
  \/ ClosesInput
  \/ decide
  \/ execute_tool
  \/ execute_via_proxy
  \/ NextRequest

-----------------------------------------------------------------------------
(* Properties *)

TextOf(events) == FlattenSeq([k \in DOMAIN events |-> IF events[k].e = "text" THEN events[k].parts ELSE <<>>])
FirstServed == turnLog.wire - Len(link.served)
ServedText == FlattenSeq([n \in DOMAIN link.served |->
  IF link.served[n].e = "delta" /\ link.served[n].kind = "text" THEN <<FirstServed + n>> ELSE <<>>])
ServedInput(i) == FlattenSeq([n \in DOMAIN link.served |->
  IF link.served[n].e = "delta" /\ link.served[n].i = i THEN <<FirstServed + n>> ELSE <<>>])
ServedTools == FlattenSeq([n \in DOMAIN link.served |->
  LET e == link.served[n] IN IF e.e = "stop" /\ e.kind = "tool" THEN <<ToolEvent(ServedInput(e.i))>> ELSE <<>>])

\* What the conversation gets from a stream is what was served: the whole text, and every
\* tool block that was stopped, once, with all its input. For the command line only if tool
\* blocks come one at a time: of blocks open together it keeps the last.
AnswerIsWhatWasServed ==
  reading.pc = "done" /\ reading.source = "stream" /\ (Cli => setting.serial) =>
    TextOf(reading.events) = ServedText /\ ToolsOf(reading.events) = ServedTools

\* Text on the command line's screen is text of this answer, in order, once, also after a
\* stall and a second request; all of it once the message has stopped.
ScreenFollowsAnswer ==
  Cli /\ reading.pc # "failed" =>
    /\ IsPrefix(screen.text, TextOf(reading.events))
    /\ reading.saw_stop => screen.text = TextOf(reading.events)

\* The model is asked again only when nothing it said is thrown away by it, and at most
\* once for a stall.
AskedAgainForNothing ==
  /\ turnLog.streams <= 2 /\ turnLog.unsaid
  /\ reading.pc = "send" => ~Said(reading.events)

\* An answer is closed by a message stop; only the grpc server can hand on one in which
\* nothing was said and nothing closed.
AnswersAreClosed ==
  reading.pc = "done" => Stopped(reading.events) \/ (Grpc /\ ~Said(reading.events))

\* As long as no line strays behind a marker, every tool that runs was approved by an answer
\* to its own question, and a card's result is what was pasted for it. (A stray line denies
\* the next tool, and the answer typed meanwhile goes to the one after.)
AnswersReachTheirQuestions ==
  ~console.strayed =>
    \A k \in DOMAIN console.results :
      LET r == console.results[k]
      IN /\ r.end \in {"disabled", "local"} => r.typed = <<"y">>
         /\ r.end \in {"END", "ERROR"} => Append(r.lines, r.end) = r.typed

\* Of what a turn streams nothing is lost, shown twice or mistaken for something else.
TurnStreamSound ==
  /\ AnswerIsWhatWasServed /\ ScreenFollowsAnswer /\ AskedAgainForNothing
  /\ AnswersAreClosed /\ AnswersReachTheirQuestions
=============================================================================
