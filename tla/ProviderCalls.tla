---------------------------- MODULE ProviderCalls ----------------------------
(* One model call of a sub-agent: the chain of providers it may use, how a      *)
(* model name and the environment choose a client, the requests that are       *)
(* retried, the streamed answer, the plain request sent after an empty         *)
(* stream, and what falls back to the next provider.                           *)
EXTENDS Naturals, Sequences, FiniteSets

CONSTANTS
  MaxRetries,       \* max_retries, 8 in the code
  InitialBackoff, MaxBackoff,
  ShiftWidth        \* bits of the multiplier of a backoff, 32 in the code

ASSUME ProviderAssumption == MaxRetries \in Nat

VARIABLES
  chain,            \* ProviderRuntimeClient.chain
  call,             \* the call in progress
  asked             \* every request sent: provider, form, and what came back (a ghost)

callVars == <<chain, call, asked>>

-----------------------------------------------------------------------------
(* Routing *)

EnvVars == {"ANTHROPIC_API_KEY", "ANTHROPIC_AUTH_TOKEN", "OPENAI_API_KEY", "OPENAI_BASE_URL",
            "XAI_API_KEY", "DASHSCOPE_API_KEY"}
\* Model names by the prefix that routes them; a local name has none.
ModelNames == {"claude-", "grok-", "gpt-", "qwen-", "local"}

\* The variable that holds the key of a model with a known prefix.
metadata_for_model(m) ==
  CASE m = "claude-" -> [provider |-> "Anthropic", auth_env |-> "ANTHROPIC_API_KEY"]
    [] m = "grok-" -> [provider |-> "Xai", auth_env |-> "XAI_API_KEY"]
    [] m = "gpt-" -> [provider |-> "OpenAi", auth_env |-> "OPENAI_API_KEY"]
    [] m = "qwen-" -> [provider |-> "OpenAi", auth_env |-> "DASHSCOPE_API_KEY"]
    [] OTHER -> [provider |-> "none", auth_env |-> "none"]

has_auth_from_env_or_saved(e) == e \cap {"ANTHROPIC_API_KEY", "ANTHROPIC_AUTH_TOKEN"} # {}

detect_provider_kind(m, e) ==
  CASE metadata_for_model(m).provider # "none" -> metadata_for_model(m).provider
    [] metadata_for_model(m).provider = "none" /\ {"OPENAI_BASE_URL", "OPENAI_API_KEY"} \subseteq e -> "OpenAi"
    [] OTHER -> CASE has_auth_from_env_or_saved(e) -> "Anthropic"
                  [] ~has_auth_from_env_or_saved(e) /\ "OPENAI_API_KEY" \in e -> "OpenAi"
                  [] OTHER -> IF "XAI_API_KEY" \in e THEN "Xai"
                              ELSE IF "OPENAI_BASE_URL" \in e THEN "OpenAi" ELSE "Anthropic"

\* The key a client of this model is built with, or "missing".
from_model(m, e) ==
  LET kind == detect_provider_kind(m, e)
      key  == CASE kind = "Anthropic" -> "ANTHROPIC_API_KEY"
                [] kind = "Xai" -> "XAI_API_KEY"
                [] OTHER -> IF metadata_for_model(m).auth_env = "DASHSCOPE_API_KEY"
                            THEN "DASHSCOPE_API_KEY" ELSE "OPENAI_API_KEY"
      there == IF kind = "Anthropic" THEN has_auth_from_env_or_saved(e) ELSE key \in e
  IN [model |-> m, kind |-> kind, key |-> IF there THEN key ELSE "missing"]

-----------------------------------------------------------------------------
(* Errors *)

\* kind and, for an answer of the server, its status; context: it complains of the window.
ApiErrors ==
  {[kind |-> "api", status |-> s, context |-> FALSE] : s \in {401, 429}}
  \cup {[kind |-> "api", status |-> 400, context |-> c] : c \in BOOLEAN}
  \cup {[kind |-> "http", status |-> 0, context |-> FALSE]}
LocalError(kind) == [kind |-> kind, status |-> 0, context |-> kind = "context_window_exceeded"]

is_retryable_status(s) == s \in {408, 409, 429, 500, 502, 503, 504}
\* A connection that fails or times out ("http") may work again; a torn body may not.
is_retryable(e) ==
  CASE e.kind = "http" -> TRUE
    [] e.kind = "api" -> is_retryable_status(e.status)
    [] OTHER -> FALSE

\* RetriesExhausted wraps its last error, and is classed and retried like it.
is_context_window_failure(e) ==
  \/ e.kind = "context_window_exceeded"
  \/ e.kind = "api" /\ e.status \in {400, 413, 422} /\ e.context
safe_failure_class(e) ==
  CASE e.kind = "missing_credentials" -> "provider_auth"
    [] e.kind = "api" /\ e.status \in {401, 403} -> "provider_auth"
    [] is_context_window_failure(e) -> "context_window"
    [] e.kind = "api" /\ e.status = 429 -> "provider_rate_limit"
    [] e.kind \in {"http", "http_body"} -> "provider_transport"
    [] e.kind = "json" -> "runtime_io"
    [] e.kind = "request_size" -> "request_size"
    [] OTHER -> "provider_error"

-----------------------------------------------------------------------------
(* The chain *)

NoCallYet == [pc |-> "new"]
NoEvents == [text |-> {}, tools |-> {}, pending |-> {}, stop |-> FALSE]

\* The environment is read when the chain is built: a fallback that has no key is skipped,
\* a primary that has none fails the call.
new_with_fallback_config(primary, fallbacks, env) ==
  LET first == from_model(primary, env)
      rest  == {from_model(f, env) : f \in fallbacks}
      kept  == {r \in rest : r.key # "missing"}
  IN /\ IF first.key = "missing"
        THEN call' = [pc |-> "failed", error |-> LocalError("missing_credentials"),
                       model |-> primary, env |-> env] /\ chain' = <<>>
        ELSE /\ \E order \in [1..Cardinality(kept) -> kept] :
                  /\ \A i, j \in DOMAIN order : order[i] = order[j] => i = j
                  /\ chain' = <<first>> \o order
             /\ call' = [pc |-> "preflight", index |-> 1, form |-> "stream", attempts |-> 0, events |-> NoEvents]
     /\ UNCHANGED asked

\* An error ends the call, or, when it may be transient, moves on to the next provider.
FailWith(e) ==
  call' = IF is_retryable(e) /\ call.index + 1 <= Len(chain)
          THEN [call EXCEPT !.pc = "preflight", !.index = @ + 1, !.form = "stream", !.attempts = 0,
                            !.events = NoEvents]
          ELSE [pc |-> "failed", error |-> e, model |-> chain[1].model, env |-> {}]

-----------------------------------------------------------------------------
(* One request *)

\* The local estimate; Anthropic's own count refines it, when it can be had.
preflight_message_request(fits) ==
  /\ call.pc = "preflight"
  /\ IF fits THEN call' = [call EXCEPT !.pc = "send"] ELSE FailWith(LocalError("context_window_exceeded"))
  /\ UNCHANGED <<chain, asked>>

\* Only the OpenAI-compatible clients check the size of the body, at every attempt.
check_request_body_size ==
  /\ call.pc = "send" /\ chain[call.index].kind # "Anthropic"
  /\ FailWith(LocalError("request_size"))
  /\ UNCHANGED <<chain, asked>>

\* 200 is a good answer, 0 no answer at all.
Ask(status) ==
  asked' = Append(asked, [index |-> call.index, form |-> call.form, status |-> status])

backoff_for_attempt(n) ==
  IF n - 1 >= ShiftWidth THEN "overflow"
  ELSE IF InitialBackoff * 2 ^ (n - 1) <= MaxBackoff THEN "doubled" ELSE "capped"

\* The server answers well: a stream opens, or the whole answer is there.
SendSucceeds ==
  /\ call.pc = "send" /\ Ask(200)
  /\ call' = [call EXCEPT !.pc = IF call.form = "stream" THEN "reading" ELSE "answered"]
  /\ UNCHANGED chain

\* Mutant: one retry more than the limit.
SendFailsLate(e) ==
  LET tried == call.attempts + 1
  IN /\ call.pc = "send" /\ Ask(e.status)
     /\ IF is_retryable(e) /\ tried <= MaxRetries + 1
        THEN call' = [call EXCEPT !.attempts = tried, !.pc = "send"]
        ELSE FailWith(e)
     /\ UNCHANGED chain

\* send_with_retry: a transient failure waits and is tried again, up to the limit; the
\* server may have acted on a request whose answer was lost.
SendFails(e) ==
  LET tried == call.attempts + 1
  IN /\ call.pc = "send" /\ Ask(e.status)
     /\ IF is_retryable(e) /\ tried <= MaxRetries
        THEN IF backoff_for_attempt(tried) = "overflow" THEN FailWith(LocalError("backoff_overflow"))
             ELSE call' = [call EXCEPT !.attempts = tried, !.pc = "send"]
        ELSE FailWith(e)
     /\ UNCHANGED chain

-----------------------------------------------------------------------------
(* The streamed answer *)

\* Which answer a fragment came from: the requests are numbered.
ThisAnswer == Len(asked)
Collect(field) == call' = [call EXCEPT !.events[field] = @ \cup {ThisAnswer}]

ReadText == call.pc = "reading" /\ Collect("text") /\ UNCHANGED <<chain, asked>>
ReadToolStart == call.pc = "reading" /\ Collect("pending") /\ UNCHANGED <<chain, asked>>
ReadToolStop ==
  /\ call.pc = "reading" /\ call.events.pending # {}
  /\ call' = [call EXCEPT !.events.tools = @ \cup call.events.pending, !.events.pending = {}]
  /\ UNCHANGED <<chain, asked>>
ReadMessageStop ==
  /\ call.pc = "reading" /\ call' = [call EXCEPT !.events.stop = TRUE]
  /\ UNCHANGED <<chain, asked>>

\* The stream breaks: what was collected of it is dropped with the call.
ReadBreaks(e) ==
  /\ call.pc = "reading" /\ FailWith(e)
  /\ UNCHANGED <<chain, asked>>

\* The stream ends. Content without a stop is taken for a whole answer; a stream without
\* either is asked for again as one plain request, with all its retries.
ReadEnds ==
  /\ call.pc = "reading"
  /\ LET seen == call.events.text # {} \/ call.events.tools # {}
     IN call' = IF call.events.stop \/ seen
                THEN [pc |-> "done", index |-> call.index, events |-> [call.events EXCEPT !.stop = TRUE],
                      told |-> call.events.stop]
                ELSE [call EXCEPT !.pc = "preflight", !.form = "plain", !.attempts = 0]
  /\ UNCHANGED <<chain, asked>>

\* response_to_events: a fresh list of events, always with a stop.
ReadPlainAnswer(text, tools) ==
  /\ call.pc = "answered"
  /\ call' = [pc |-> "done", index |-> call.index, told |-> TRUE,
              events |-> [text |-> IF text THEN {ThisAnswer} ELSE {},
                          tools |-> IF tools THEN {ThisAnswer} ELSE {}, pending |-> {}, stop |-> TRUE]]
  /\ UNCHANGED <<chain, asked>>

\* The body of a plain answer is no message: an error object, or no JSON.
ReadPlainFails(e) ==
  /\ call.pc = "answered" /\ FailWith(e)
  /\ UNCHANGED <<chain, asked>>

ProviderInit == chain = <<>> /\ call = NoCallYet /\ asked = <<>>

ProviderNext ==
  \/ /\ call = NoCallYet
     /\ \E m \in ModelNames, fs \in {f \in SUBSET ModelNames : Cardinality(f) <= 1}, e \in SUBSET EnvVars :
          new_with_fallback_config(m, fs, e)
  \/ \E b \in BOOLEAN : preflight_message_request(b)
  \/ check_request_body_size
  \/ SendSucceeds
  \/ \E e \in ApiErrors : SendFails(e)
  \/ ReadText \/ ReadToolStart \/ ReadToolStop \/ ReadMessageStop
  \/ \E e \in {LocalError("http"), LocalError("http_body"), LocalError("json")} : ReadBreaks(e)
  \/ ReadEnds
  \/ \E t, u \in BOOLEAN : ReadPlainAnswer(t, u)
  \/ \E e \in {LocalError("api"), LocalError("json")} : ReadPlainFails(e)

-----------------------------------------------------------------------------
(* Properties *)

Requests(i, f) == {n \in DOMAIN asked : asked[n].index = i /\ asked[n].form = f}

\* No provider gets more than one request and its retries of each form, the plain form
\* only after a stream was opened, and no provider is asked again once a later one was.
RequestsAreBounded ==
  /\ \A i \in DOMAIN chain, f \in {"stream", "plain"} : Cardinality(Requests(i, f)) <= MaxRetries + 1
  /\ \A n \in DOMAIN asked : asked[n].form = "plain" =>
       \E k \in 1..(n - 1) : asked[k] = [asked[n] EXCEPT !.form = "stream", !.status = 200]
  /\ \A m, n \in DOMAIN asked : m < n => asked[m].index <= asked[n].index

\* What a call returns is one answer: nothing read from a stream that broke or from an
\* earlier provider is mixed into it.
OneAnswer ==
  call.pc = "done" =>
    call.events.text \cup call.events.tools \subseteq {n \in {Len(asked)} : asked[n].status = 200}

\* A refusal that is not transient ends the call: nobody else is asked.
RefusalsAreFinal == \A n \in DOMAIN asked : asked[n].status \in {400, 401} => n = Len(asked)

\* A prefix routes a model to its own provider whatever is set; without one the call goes
\* to a provider whose key is there, if Anthropic's, OpenAI's or xAI's is.
RoutedByName ==
  \A i \in DOMAIN chain :
    LET c == chain[i] meta == metadata_for_model(c.model)
    IN /\ meta.provider # "none" => c.kind = meta.provider /\ c.key = meta.auth_env
       /\ c.key # "missing"
FailsOnlyWithoutKey ==
  call.pc = "failed" /\ call.error.kind = "missing_credentials" =>
    IF call.model = "local"
    THEN call.env \cap {"ANTHROPIC_API_KEY", "ANTHROPIC_AUTH_TOKEN", "OPENAI_API_KEY", "XAI_API_KEY"} = {}
    ELSE metadata_for_model(call.model).auth_env \notin call.env

\* A prompt that is too long is told as such, whoever noticed: the estimate, Anthropic's
\* count, or the provider's refusal.
TooLongIsTold ==
  call.pc = "failed" /\ call.error.context => safe_failure_class(call.error) = "context_window"

\* The call asks no more than it may, returns one answer or the error that ended it, and
\* reaches the provider the name of the model means.
ProviderCallsSound ==
  RequestsAreBounded /\ OneAnswer /\ RefusalsAreFinal /\ RoutedByName /\ FailsOnlyWithoutKey /\ TooLongIsTold
=============================================================================
