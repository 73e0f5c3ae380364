----------------------------- MODULE PromptCache -----------------------------
(* The prompt cache of an Anthropic client: completions kept on disk for a     *)
(* short time, and the usage of the last request, by which a drop of the       *)
(* provider's own cache is noticed. Processes of one session share the files   *)
(* and nothing else.                                                           *)
EXTENDS Naturals, FiniteSets

CONSTANTS
  CacheProcesses,
  CompletionTtl, PromptTtl,   \* DEFAULT_COMPLETION_TTL_SECS, DEFAULT_PROMPT_TTL_SECS
  BreakMinDrop,               \* DEFAULT_BREAK_MIN_DROP
  MaxTime, MaxCacheCalls

ASSUME CacheAssumption ==
  /\ CompletionTtl \in Nat \ {0} /\ PromptTtl \in Nat
  /\ BreakMinDrop \in Nat /\ MaxTime \in Nat /\ MaxCacheCalls \in Nat

VARIABLES
  now,
  completions,    \* completion files: request -> when it was cached, by which answer
  stateFile,      \* session-state.json
  inner,          \* PromptCacheInner.previous of each process, and the call it is in
  contact,        \* when the provider last answered a prompt (a ghost)
  cacheLog        \* calls made, what was served and reported last (ghosts)

cacheVars == <<now, completions, stateFile, inner, contact, cacheLog>>

\* A request is its prompt (model, system, tools, messages) and the rest of it, which the
\* hash of the request covers and the fingerprints of the prompt do not.
CacheRequests == {[prompt |-> "p", rest |-> 0], [prompt |-> "p", rest |-> 1], [prompt |-> "q", rest |-> 0]}
RequestFingerprints(r) == r.prompt

NotInCall == [step |-> "idle"]
NotCached == [at |-> MaxTime + 1, reads |-> 0]
NoPrevious == [prompt |-> "none", at |-> 0, reads |-> 0]
CacheReads == {0, BreakMinDrop}

CacheInit ==
  /\ now = 0 /\ completions = [r \in CacheRequests |-> NotCached] /\ stateFile = NoPrevious
  /\ inner = [p \in CacheProcesses |-> [previous |-> NoPrevious, pc |-> NotInCall]]
  /\ contact = [q \in {"p", "q"} |-> 0]
  /\ cacheLog = [calls |-> 0, served |-> {}, breaks |-> {}]

CacheTick == now < MaxTime /\ now' = now + 1 /\ UNCHANGED <<completions, stateFile, inner, contact, cacheLog>>

from_usage(r, reads) == [prompt |-> RequestFingerprints(r), at |-> now, reads |-> reads]

\* persist_state writes what the process knows over what another one wrote.
persist_state(p, previous, pc) ==
  /\ inner' = [inner EXCEPT ![p] = [previous |-> previous, pc |-> pc]]
  /\ stateFile' = IF previous = NoPrevious THEN stateFile ELSE previous

-----------------------------------------------------------------------------
(* Lookup *)

InCall(p, step) == inner[p].pc.step = step

\* The file is read before the lock is taken.
ReadCompletion(p, r) ==
  /\ inner[p].pc = NotInCall /\ cacheLog.calls < MaxCacheCalls
  /\ inner' = [inner EXCEPT ![p].pc = [step |-> "lookup", request |-> r, entry |-> completions[r]]]
  /\ cacheLog' = [cacheLog EXCEPT !.calls = @ + 1, !.served = {}, !.breaks = {}]
  /\ UNCHANGED <<now, completions, stateFile, contact>>

\* Mutant: an entry is good for one more second.
expired_late(entry) == now - entry.at > CompletionTtl

expired(entry) == now - entry.at >= CompletionTtl

\* A miss, a hit, or an expired entry, whose file is removed, also when another process
\* has written it anew since.
lookup_completion(p) ==
  /\ InCall(p, "lookup")
  /\ LET c == inner[p].pc
     IN CASE c.entry = NotCached ->
               /\ persist_state(p, inner[p].previous, [step |-> "send", request |-> c.request])
               /\ UNCHANGED <<completions, cacheLog>>
          [] c.entry # NotCached /\ expired(c.entry) ->
               /\ persist_state(p, inner[p].previous, [step |-> "send", request |-> c.request])
               /\ completions' = [completions EXCEPT ![c.request] = NotCached]
               /\ UNCHANGED cacheLog
          [] OTHER ->
               /\ persist_state(p, from_usage(c.request, c.entry.reads), NotInCall)
               /\ cacheLog' = [cacheLog EXCEPT !.served = {[age |-> now - c.entry.at]}]
               /\ UNCHANGED completions
  /\ UNCHANGED <<now, contact>>

-----------------------------------------------------------------------------
(* Usage *)

\* A drop of the tokens read from the provider's cache: expected when the prompt changed
\* or the provider may have forgotten it.
detect_cache_break(previous, current) ==
  IF previous = NoPrevious \/ current.reads + BreakMinDrop > previous.reads THEN {}
  ELSE {[prompt |-> current.prompt,
         unexpected |-> previous.prompt = current.prompt /\ ~(current.at - previous.at > PromptTtl),
         since |-> now - contact[current.prompt]]}

record_usage_internal(p, r, reads) ==
  LET current == from_usage(r, reads)
  IN /\ persist_state(p, current, NotInCall)
     /\ cacheLog' = [cacheLog EXCEPT !.breaks = detect_cache_break(inner[p].previous, current)]
     /\ contact' = [contact EXCEPT ![r.prompt] = now]

\* send_message: the answer of the provider is kept for the next one who asks the same.
record_response(p, reads) ==
  /\ InCall(p, "send")
  /\ record_usage_internal(p, inner[p].pc.request, reads)
  /\ completions' = [completions EXCEPT ![inner[p].pc.request] = [at |-> now, reads |-> reads]]
  /\ UNCHANGED now

\* stream_message asks the provider without a lookup and keeps no completion.
StartStream(p, r) ==
  /\ inner[p].pc = NotInCall /\ cacheLog.calls < MaxCacheCalls
  /\ inner' = [inner EXCEPT ![p].pc = [step |-> "stream", request |-> r]]
  /\ cacheLog' = [cacheLog EXCEPT !.calls = @ + 1, !.served = {}, !.breaks = {}]
  /\ UNCHANGED <<now, completions, stateFile, contact>>

\* observe_event sees the message_stop of the stream, once.
record_usage(p, reads) ==
  /\ InCall(p, "stream")
  /\ record_usage_internal(p, inner[p].pc.request, reads)
  /\ UNCHANGED <<now, completions>>

\* The message_stop was the last frame and had no separator: next_event takes it from
\* finish() and does not observe it. The provider has answered all the same.
StopUnobserved(p) ==
  /\ InCall(p, "stream")
  /\ inner' = [inner EXCEPT ![p].pc = NotInCall]
  /\ contact' = [contact EXCEPT ![inner[p].pc.request.prompt] = now]
  /\ UNCHANGED <<now, completions, stateFile, cacheLog>>

\* The request fails: nothing is recorded.
CallFails(p) ==
  /\ inner[p].pc.step \in {"send", "stream"}
  /\ inner' = [inner EXCEPT ![p].pc = NotInCall]
  /\ UNCHANGED <<now, completions, stateFile, contact, cacheLog>>

\* A process starts anew: with_config takes up what the last writer left, if it can be read.
with_config(p, torn) ==
  /\ inner' = [inner EXCEPT ![p] = [previous |-> IF torn THEN NoPrevious ELSE stateFile, pc |-> NotInCall]]
  /\ stateFile' = IF torn THEN NoPrevious ELSE stateFile
  /\ UNCHANGED <<now, completions, contact, cacheLog>>

CacheNext ==
  \/ CacheTick
  \/ \E p \in CacheProcesses :
       \/ \E r \in CacheRequests : ReadCompletion(p, r) \/ StartStream(p, r)
       \/ lookup_completion(p)
       \/ \E n \in CacheReads : record_response(p, n) \/ record_usage(p, n)
       \/ StopUnobserved(p)
       \/ CallFails(p)
       \/ \E torn \in BOOLEAN : with_config(p, torn)

-----------------------------------------------------------------------------
(* Properties *)

\* A completion is served only while it is younger than its time to live.
ServedFresh == \A s \in cacheLog.served : s.age < CompletionTtl

\* A break is called unexpected only when the provider answered this very prompt not much
\* longer ago than it keeps prompts: a hit in the completion cache, which the provider does
\* not see, can hide less than the life of a completion.
UnexpectedIsRecent ==
  \A b \in cacheLog.breaks : b.unexpected => b.since <= PromptTtl + CompletionTtl - 1

\* The cache serves nothing stale and raises no false alarm of a cache break.
PromptCacheSound == ServedFresh /\ UnexpectedIsRecent
=============================================================================
