----------------------------- MODULE WireMessages -----------------------------
(***************************************************************************)
(* From a conversation to the request an OpenAI-compatible provider gets   *)
(* (api/src/providers/openai_compat.rs), through convert_messages of the   *)
(* command line, of sub-agents and of the gRPC server.                     *)
(*                                                                         *)
(* A conversation is what turns, failed turns, compaction and damaged or   *)
(* edited session files leave behind: calls without results, results       *)
(* without calls, results away from their call.  Providers refuse such     *)
(* requests, so the last step before sending removes what has no partner.  *)
(***************************************************************************)
EXTENDS Naturals, Sequences, FiniteSets, SequencesExt

CONSTANT MaxHistory     \* bound: messages of the conversation

VARIABLES
    history,    \* the messages of the conversation
    wire_request     \* the request built from it, or NoRequest

wireVars == <<history, wire_request>>

CallIds == {1, 2}

\* A block of a message: text, thinking, a call or a result.  good tells a
\* call whose arguments are JSON and a result that is no error; raw counts
\* how often arguments were wrapped as {"raw": ...}.
Block(kind, id, good) == [kind |-> kind, id |-> id, good |-> good, raw |-> 0]
PlainText == Block("text", 0, TRUE)
EmptyText == Block("empty", 0, TRUE)
Thinking == Block("thinking", 0, TRUE)
ToolUse(id) == Block("call", id, TRUE)
BrokenUse(id) == Block("call", id, FALSE)
Result(id) == Block("result", id, TRUE)
ErrorResult(id) == Block("result", id, FALSE)

Message(role, blocks) == [role |-> role, blocks |-> blocks]

\* What the assistant answers: text, calls, both, thinking alone or with them.
AssistantMessages ==
    {Message("assistant", b) : b \in
        {<<PlainText>>, <<Thinking>>, <<Thinking, ToolUse(1)>>, <<ToolUse(1)>>, <<ToolUse(2)>>,
         <<PlainText, ToolUse(1)>>, <<ToolUse(1), ToolUse(2)>>, <<EmptyText, BrokenUse(2)>>}}
UserMessages == {Message("user", <<PlainText>>), Message("user", <<EmptyText>>)}
ToolMessages == {Message("tool", <<Result(i)>>) : i \in CallIds} \cup {Message("tool", <<ErrorResult(1)>>)}

\* Sub-agents convert a conversation as the server does.
Clients == {"cli", "server"}

\* A model as it is configured: a prefix that may select the transport, and a name.
Models == {[prefix |-> "openai", name |-> "gpt-5"], [prefix |-> "local", name |-> "gpt-5"],
           [prefix |-> "", name |-> "deepseek-v4"], [prefix |-> "kimi", name |-> "kimi-k2"],
           [prefix |-> "", name |-> "o3"]}

NoRequest == [client |-> "none"]

WireInit == history = <<>> /\ wire_request = NoRequest

-----------------------------------------------------------------------------
(* Conversion of the conversation. *)

\* Arguments that are no JSON are wrapped.
ParsedInput(b) == IF b.kind = "call" /\ ~b.good THEN [b EXCEPT !.good = TRUE, !.raw = @ + 1] ELSE b

\* The command line leaves thinking out and keeps empty texts, the others
\* the other way round.  A message without content is passed over.
KeepsBlock(client, b) == IF client = "cli" THEN b.kind # "thinking" ELSE b.kind # "empty"

convert_messages(client, messages) ==
    LET Converted == [i \in DOMAIN messages |->
                        [role |-> IF messages[i].role = "assistant" THEN "assistant" ELSE "user",
                         blocks |-> [k \in DOMAIN SelectSeq(messages[i].blocks, LAMBDA b : KeepsBlock(client, b)) |->
                             ParsedInput(SelectSeq(messages[i].blocks, LAMBDA b : KeepsBlock(client, b))[k])]]]
    IN  SelectSeq(Converted, LAMBDA m : m.blocks # <<>>)

-----------------------------------------------------------------------------
(* Translation to messages of the wire. *)

model_rejects_is_error_field(model) == model.name = "kimi-k2"
model_requires_reasoning_content_in_history(model) == model.name = "deepseek-v4"
is_reasoning_model(model) == model.name = "o3"
strip_routing_prefix(model) == IF model.prefix \in {"openai", "kimi"} THEN [model EXCEPT !.prefix = ""] ELSE model

\* A message of the wire; error is absent where the model rejects the field.
Wire(role, text) == [role |-> role, text |-> text, reasoning |-> FALSE, calls |-> <<>>, id |-> 0, error |-> "absent"]

HasKind(message, kind) == \E i \in DOMAIN message.blocks : message.blocks[i].kind = kind

TranslatedResult(model, b) ==
    [Wire("tool", TRUE) EXCEPT !.id = b.id,
        !.error = IF model_rejects_is_error_field(model) THEN "absent" ELSE IF b.good THEN "false" ELSE "true"]

\* An assistant with nothing the wire can carry is left out; of the other
\* messages every text and every result becomes a message of its own.
translate_message(message, model) ==
    IF message.role = "assistant"
    THEN LET calls == SelectSeq(message.blocks, LAMBDA b : b.kind = "call")
             reasoning == model_requires_reasoning_content_in_history(model) /\ HasKind(message, "thinking")
         IN  IF ~HasKind(message, "text") /\ calls = <<>> /\ ~reasoning THEN <<>>
             ELSE <<[Wire("assistant", HasKind(message, "text")) EXCEPT !.calls = calls, !.reasoning = reasoning]>>
    ELSE LET told == SelectSeq(message.blocks, LAMBDA b : b.kind \in {"text", "empty", "result"})
         IN  [i \in DOMAIN told |-> IF told[i].kind = "result" THEN TranslatedResult(model, told[i])
                                    ELSE Wire("user", told[i].kind = "text")]

-----------------------------------------------------------------------------
(* Pairing of calls and results. *)

\* The nearest message before i that is no result; 0 if there is none.
Preceding(messages, i) ==
    LET Before == {j \in 1..(i - 1) : messages[j].role # "tool"}
    IN  IF Before = {} THEN 0 ELSE CHOOSE j \in Before : \A k \in Before : k <= j

\* A result is dropped when it follows an assistant that did not ask for it;
\* one that follows anything else is let through.
Orphaned(messages, i) ==
    LET p == Preceding(messages, i) IN
    /\ messages[i].role = "tool"
    /\ p # 0
    /\ messages[p].role = "assistant"
    /\ ~\E k \in DOMAIN messages[p].calls : messages[p].calls[k].id = messages[i].id

\* A call stays when a result with its id comes anywhere behind it.
strip_orphaned_tool_calls(messages) ==
    LET After(i) == {messages[j].id : j \in {j \in (i + 1)..Len(messages) : messages[j].role = "tool"}}
    IN  [i \in DOMAIN messages |->
            IF messages[i].role # "assistant" THEN messages[i]
            ELSE [messages[i] EXCEPT !.calls = SelectSeq(@, LAMBDA c : c.id \in After(i))]]

DropOrphans(messages) ==
    LET kept == SetToSortSeq({i \in DOMAIN messages : ~Orphaned(messages, i)}, <)
    IN  [k \in DOMAIN kept |-> messages[kept[k]]]

\* Mutant: calls are stripped before results are dropped.
sanitize_tool_message_pairing_first(messages) == DropOrphans(strip_orphaned_tool_calls(messages))

sanitize_tool_message_pairing(messages) == strip_orphaned_tool_calls(DropOrphans(messages))

Translated(client, model) ==
    FlattenSeq([i \in DOMAIN convert_messages(client, history) |->
                    translate_message(convert_messages(client, history)[i], strip_routing_prefix(model))])

build_chat_completion_request(client, model) ==
    [client |-> client, model |-> strip_routing_prefix(model), asked |-> model,
     translated |-> Translated(client, model),
     messages |-> sanitize_tool_message_pairing(Translated(client, model)),
     max_tokens |-> IF strip_routing_prefix(model).prefix = "" /\ model.name = "gpt-5"
                    THEN "max_completion_tokens" ELSE "max_tokens",
     tuned |-> ~is_reasoning_model(model)]

-----------------------------------------------------------------------------
(* The conversation. *)

Grow(messages) ==
    /\ wire_request = NoRequest
    /\ Len(history) < MaxHistory
    /\ \E m \in messages : history' = Append(history, m)
    /\ UNCHANGED wire_request

UserSays == Grow(UserMessages)
AssistantSays == Grow(AssistantMessages)
ToolAnswers == Grow(ToolMessages)

\* Compaction: the front gives way to a summary with the role system.
Compact ==
    /\ wire_request = NoRequest
    /\ \E k \in 2..Len(history) :
          /\ ~\E i \in 1..k : history[i].role = "system"
          /\ history' = <<Message("system", <<PlainText>>)>> \o SubSeq(history, k + 1, Len(history))
    /\ UNCHANGED wire_request

\* A line of the session file is damaged or removed.
LoseMessage ==
    /\ wire_request = NoRequest
    /\ \E k \in DOMAIN history : history' = SubSeq(history, 1, k - 1) \o SubSeq(history, k + 1, Len(history))
    /\ UNCHANGED wire_request

BuildRequest ==
    /\ wire_request = NoRequest
    /\ history # <<>>
    /\ \E c \in Clients, m \in Models : wire_request' = build_chat_completion_request(c, m)
    /\ UNCHANGED history

WireNext == UserSays \/ AssistantSays \/ ToolAnswers \/ Compact \/ LoseMessage \/ BuildRequest

-----------------------------------------------------------------------------
Built == wire_request # NoRequest

\* Every result that stands behind an assistant's message answers a call of
\* that message, and every call that is sent is answered further on: no
\* conversation, however damaged, makes a request with half of such a pair.
PairsAreWhole ==
    Built => LET ms == wire_request.messages IN
        /\ \A i \in DOMAIN ms : ~Orphaned(ms, i)
        /\ \A i \in DOMAIN ms : \A k \in DOMAIN ms[i].calls :
              \E j \in (i + 1)..Len(ms) : ms[j].role = "tool" /\ ms[j].id = ms[i].calls[k].id

\* Each run of results answers, one by one, exactly the calls before it.
Orderly(h) ==
    \A i \in DOMAIN h :
        LET Calls == {b.id : b \in {c \in ToSet(h[i].blocks) : c.kind = "call"}}
            n == Cardinality(Calls)
        IN  /\ h[i].role = "assistant" =>
                  /\ i + n <= Len(h)
                  /\ {h[j].blocks[1].id : j \in (i + 1)..(i + n)} = Calls
                  /\ \A j \in (i + 1)..(i + n) : h[j].role = "tool"
            /\ h[i].role = "tool" => i > 1 /\ h[i - 1].role \in {"assistant", "tool"}
               /\ Cardinality({j \in 1..i : h[j].role = "tool"})
                  <= Cardinality({c \in (1..i) \X (1..3) : c[2] <= Len(h[c[1]].blocks)
                                                             /\ h[c[1]].blocks[c[2]].kind = "call"})

\* The last step is harmless: it leaves the request of a conversation in good
\* order as it is, changes nothing when it is done again, and in no case
\* touches what user and assistant said.
SanitizingIsHarmless ==
    Built =>
        /\ Orderly(history) => wire_request.messages = wire_request.translated
        /\ sanitize_tool_message_pairing(wire_request.messages) = wire_request.messages
        /\ LET Said(ms) == SelectSeq([i \in DOMAIN ms |-> [role |-> ms[i].role, text |-> ms[i].text]],
                                     LAMBDA m : m.role # "tool")
           IN  Said(wire_request.messages) = Said(wire_request.translated)

\* Arguments are wrapped once at most, an error is told wherever the model
\* takes the field and nowhere else, and thinking is sent back to a model
\* that asks for it, except by the command line, which does not keep it.
ContentIsPassedOn ==
    Built => LET ms == wire_request.messages IN
        /\ \A i \in DOMAIN ms : \A k \in DOMAIN ms[i].calls : ms[i].calls[k].raw <= 1 /\ ms[i].calls[k].good
        /\ \A i \in DOMAIN ms : ms[i].role = "tool" =>
              (ms[i].error = "absent") = model_rejects_is_error_field(wire_request.asked)
        /\ (\E i \in DOMAIN ms : ms[i].reasoning) <=>
              /\ wire_request.client # "cli" /\ wire_request.asked.name = "deepseek-v4"
              /\ \E i \in DOMAIN history : history[i].role = "assistant" /\ HasKind(history[i], "thinking")

\* Requests to OpenAI-compatible providers: pairs are whole, the sanitizing
\* step is harmless, content is passed on.
WireMessagesSound == PairsAreWhole /\ SanitizingIsHarmless /\ ContentIsPassedOn
=============================================================================
