------------------------- MODULE ConversationRuntime -------------------------
(***************************************************************************)
(* ConversationRuntime::run_turn (runtime/conversation.rs): one turn of a   *)
(* conversation as a sequence of LLM calls and tool batches, with the       *)
(* transcript it leaves in memory and on disk, the failures that cut it     *)
(* short, and the compaction that ends it (runtime/compact.rs).             *)
(*                                                                         *)
(* A message is reduced to its place in the protocol: an assistant message  *)
(* says how many tools it asks for, a tool result which of them it answers. *)
(***************************************************************************)
EXTENDS Integers, Sequences, FiniteSets

CONSTANTS
  MaxTurns,       \* bound on the turns of a behaviour
  MaxBatch,       \* bound on the tool uses of one assistant message
  MaxIterations,  \* ConversationRuntime::max_iterations
  Preserve        \* CompactionConfig::preserve_recent_messages

ASSUME RuntimeAssumption ==
  /\ MaxTurns \in Nat /\ MaxBatch \in Nat /\ MaxIterations \in Nat
  /\ Preserve \in Nat \ {0}

VARIABLES
  stage,      \* where run_turn is, "idle" between turns
  messages,   \* session.messages
  log,        \* the messages of the session file
  compacted,  \* session.compaction is Some
  over,       \* cumulative input tokens have reached the threshold
  turns,      \* turns started
  iteration,  \* LLM calls of this turn
  batch,      \* tool uses of the last assistant message
  tool,       \* the one in hand, 1 .. batch
  cancel,     \* the cancel signal
  cancel_token, \* the CancellationToken of the runtime has been cancelled
  swapped,    \* cancel_turn no longer finds that token
  queued,     \* turns spawned and not begun
  outcome,    \* result of a turn, "none" until it is over
  torn,       \* history: a turn died between a tool use and its result
  late        \* history: assistant messages since the cancel that is in force

turnVars == <<iteration, batch, tool>>
cancelVars == <<cancel, cancel_token, swapped, queued>>
vars == <<stage, messages, log, compacted, over, turns, turnVars, cancelVars, outcome, torn, late>>

Message(kind, n, of) == [kind |-> kind, n |-> n, of |-> of]
User == Message("user", 0, 0)
Summary == Message("summary", 0, 0)
Assistant(uses) == Message("assistant", 0, uses)
ToolResult(n, of) == Message("result", n, of)

Messages == [kind : {"user", "summary", "assistant", "result"}, n : 0 .. MaxBatch,
             of : 0 .. MaxBatch]

Stages == {"idle", "probe", "user", "check", "llm", "hook", "permission", "execute",
           "post_hook", "push", "finish"}

Outcomes == {"none", "ok", "error", "session_state", "cancelled", "max_iterations", "panic"}

Init ==
  /\ stage = "idle"
  /\ messages = <<>> /\ log = <<>>
  /\ compacted = FALSE /\ over = FALSE
  /\ turns = 0
  /\ iteration = 0 /\ batch = 0 /\ tool = 0
  /\ cancel = FALSE /\ cancel_token = FALSE /\ swapped = FALSE /\ queued = 0
  /\ outcome = "none"
  /\ torn = FALSE
  /\ late = 0

-----------------------------------------------------------------------------
(* The transcript *)

\* push_message: appended in memory and to the file ...
Push(m) ==
  /\ messages' = Append(messages, m)
  /\ log' = Append(log, m)

\* ... or, when the append fails, taken back from memory.
PushFails == UNCHANGED <<messages, log>>

\* Is there a summary at the head of the transcript?
compacted_summary_prefix_len(ms) ==
  IF ms # <<>> /\ ms[1].kind = "summary" THEN 1 ELSE 0

should_compact(ms) == Len(ms) - compacted_summary_prefix_len(ms) > Preserve

HasToolUse(m) == m.kind = "assistant" /\ m.of > 0
IsResult(m) == m.kind = "result"

\* Index (from 0) of the first message to keep.  The boundary walks back from
\* the last Preserve messages while it stands on a tool result; it stops one
\* before when it meets the tool use, and never enters the prefix.
keep_from(ms) ==
  LET prefix == compacted_summary_prefix_len(ms)
      raw == Len(ms) - Preserve
      Safe(k) == k <= prefix \/ ~IsResult(ms[k + 1])
      AtPair(k) == HasToolUse(ms[k])
      last == CHOOSE k \in prefix .. raw :
                /\ Safe(k) \/ AtPair(k)
                /\ \A j \in prefix .. raw : j > k => ~Safe(j) /\ ~AtPair(j)
  IN  IF Safe(last) THEN last ELSE last - 1

removed_message_count(ms) == keep_from(ms) - compacted_summary_prefix_len(ms)

compact_session(ms) == <<Summary>> \o SubSeq(ms, keep_from(ms) + 1, Len(ms))

-----------------------------------------------------------------------------
(* The turn *)

Goto(s) == stage' = s

\* A turn ends with an error.
Fail(result) == Goto("idle") /\ outcome' = result

\* RunTurnStreaming: the actor clears the cancel flag and puts a fresh token where
\* cancel_turn finds it, and spawns the turn.  It does not wait for the turn in
\* hand: a cancel of that one is taken back.
QueueTurn ==
  /\ turns + queued < MaxTurns
  /\ queued' = queued + 1
  /\ cancel' = FALSE /\ late' = 0
  /\ swapped' = TRUE
  /\ UNCHANGED <<stage, messages, log, compacted, over, turns, turnVars, cancel_token, outcome, torn>>

\* A queued turn has the lock of its entry: run_turn.
TurnBegin ==
  /\ stage = "idle" /\ queued > 0
  /\ turns' = turns + 1 /\ queued' = queued - 1
  /\ Goto(IF compacted THEN "probe" ELSE "user")
  /\ iteration' = 0 /\ batch' = 0 /\ tool' = 0
  /\ outcome' = "none"
  /\ UNCHANGED <<messages, log, compacted, over, cancel, cancel_token, swapped, torn, late>>

\* What the loop sees of a cancel.
Cancelled == cancel \/ cancel_token

\* run_session_health_probe of a compacted session.
HealthProbe ==
  /\ stage = "probe"
  /\ \/ Goto("user") /\ UNCHANGED outcome
     \/ messages # <<>> /\ Fail("session_state")
  /\ UNCHANGED <<messages, log, compacted, over, turns, turnVars, cancelVars, torn, late>>

PushUser ==
  /\ stage = "user"
  /\ \/ Push(User) /\ Goto("check") /\ UNCHANGED outcome
     \/ PushFails /\ Fail("session_state")
  /\ UNCHANGED <<compacted, over, turns, turnVars, cancelVars, torn, late>>

\* The head of the loop: the iteration limit, then the cancel signal and the token.
LoopHead ==
  /\ stage = "check"
  /\ iteration' = iteration + 1
  /\ \/ iteration' > MaxIterations /\ Fail("max_iterations")
     \/ iteration' <= MaxIterations /\ Cancelled /\ Fail("cancelled")
     \/ iteration' <= MaxIterations /\ ~Cancelled /\ Goto("llm") /\ UNCHANGED outcome
  /\ UNCHANGED <<messages, log, compacted, over, turns, batch, tool, cancelVars, torn, late>>

\* The stream fails, or ends without a stop event or without content.
StreamFails ==
  /\ stage = "llm"
  /\ Fail("error")
  /\ UNCHANGED <<messages, log, compacted, over, turns, turnVars, cancelVars, torn, late>>

\* build_assistant_message and the push of what it built: b tool uses.
AssistantAnswers(b) ==
  /\ stage = "llm"
  /\ over' \in {over, TRUE}
  /\ \/ /\ Push(Assistant(b))
        /\ Goto(IF b = 0 THEN "finish" ELSE "hook")
        /\ batch' = b /\ tool' = 1
        /\ UNCHANGED outcome
     \/ PushFails /\ Fail("session_state") /\ UNCHANGED <<batch, tool>>
  /\ late' = IF Cancelled THEN late + 1 ELSE late
  /\ UNCHANGED <<compacted, turns, iteration, cancelVars, torn>>

\* The PreToolUse hook lets the tool pass, or cancels, fails or denies it.
PreHook ==
  /\ stage = "hook"
  /\ Goto("permission") \/ Goto("push")
  /\ UNCHANGED <<messages, log, compacted, over, turns, turnVars, cancelVars, outcome, torn, late>>

\* authorize_with_context.
Authorize ==
  /\ stage = "permission"
  /\ Goto("execute") \/ Goto("push")
  /\ UNCHANGED <<messages, log, compacted, over, turns, turnVars, cancelVars, outcome, torn, late>>

\* The tool runs; an error is a result like any other.
ExecuteTool ==
  /\ stage = "execute"
  /\ Goto("post_hook")
  /\ UNCHANGED <<messages, log, compacted, over, turns, turnVars, cancelVars, outcome, torn, late>>

\* The PostToolUse hooks can only turn its success into an error.
PostHook ==
  /\ stage = "post_hook"
  /\ Goto("push")
  /\ UNCHANGED <<messages, log, compacted, over, turns, turnVars, cancelVars, outcome, torn, late>>

\* The result is pushed and the next tool of the batch taken, whatever the
\* cancel signal says.
PushResult ==
  /\ stage = "push"
  /\ \/ /\ Push(ToolResult(tool, batch))
        /\ tool' = tool + 1
        /\ Goto(IF tool = batch THEN "check" ELSE "hook")
        /\ UNCHANGED <<outcome, torn>>
     \/ PushFails /\ Fail("session_state") /\ torn' = TRUE /\ UNCHANGED tool
  /\ UNCHANGED <<compacted, over, turns, iteration, batch, cancelVars, late>>

\* Mutant: the boundary walks forward over the results, away from their tool use.
FinishWalksForward ==
  LET raw == Len(messages) - Preserve
      first == CHOOSE k \in raw .. Len(messages) :
                 /\ k = Len(messages) \/ ~IsResult(messages[k + 1])
                 /\ \A j \in raw .. k - 1 : IsResult(messages[j + 1])
  IN  /\ stage = "finish"
      /\ IF over /\ should_compact(messages) /\ removed_message_count(messages) > 0
           THEN /\ messages' = <<Summary>> \o SubSeq(messages, first + 1, Len(messages))
                /\ compacted' = TRUE
           ELSE UNCHANGED <<messages, compacted>>
      /\ Goto("idle") /\ outcome' = "ok"
      /\ UNCHANGED <<log, over, turns, turnVars, cancelVars, torn, late>>

\* maybe_auto_compact: in memory only, the file keeps every message.
Finish ==
  /\ stage = "finish"
  /\ IF over /\ should_compact(messages) /\ removed_message_count(messages) > 0
       THEN messages' = compact_session(messages) /\ compacted' = TRUE
       ELSE UNCHANGED <<messages, compacted>>
  /\ Goto("idle") /\ outcome' = "ok"
  /\ UNCHANGED <<log, over, turns, turnVars, cancelVars, torn, late>>

\* A panic of the client, a hook or a tool: the worker's catch_unwind drops the
\* future where it stands.
Panic ==
  /\ stage \in {"probe", "llm", "hook", "permission", "execute", "post_hook"}
  /\ torn' = (torn \/ stage \notin {"probe", "llm"})
  /\ Fail("panic")
  /\ UNCHANGED <<messages, log, compacted, over, turns, turnVars, cancelVars, late>>

\* cancel_turn, at any time: the flag, and the token it finds, which is the one of
\* the runtime until the first message is queued.
Cancel ==
  /\ ~cancel
  /\ cancel' = TRUE
  /\ cancel_token' = (cancel_token \/ ~swapped)
  /\ UNCHANGED <<stage, messages, log, compacted, over, turns, turnVars, queued, swapped, outcome,
                 torn, late>>

\* The session is rebuilt from its file, which knows of no compaction, with a flag
\* and a token of its own; whether the threshold is reached is computed again from
\* the messages.  (A turn that still holds the old entry: SessionManager.)
Resume ==
  /\ stage = "idle" /\ queued = 0
  /\ messages' = log
  /\ compacted' = FALSE
  /\ over' \in {over, FALSE}
  /\ cancel' = FALSE /\ cancel_token' = FALSE /\ swapped' = FALSE /\ late' = 0
  /\ UNCHANGED <<stage, log, turns, turnVars, queued, outcome, torn>>

Turn ==
  \/ HealthProbe \/ PushUser \/ LoopHead \/ StreamFails
  \/ \E b \in 0 .. MaxBatch : AssistantAnswers(b)
  \/ PreHook \/ Authorize \/ ExecuteTool \/ PostHook \/ PushResult \/ Finish \/ Panic

Next == QueueTurn \/ TurnBegin \/ Turn \/ Cancel \/ Resume

Spec == Init /\ [][Next]_vars

\* A turn keeps running: LLM calls, hooks and tools come back.
FairSpec == Spec /\ WF_vars(Turn)

-----------------------------------------------------------------------------
(* Properties *)

TypeOK ==
  /\ stage \in Stages
  /\ messages \in Seq(Messages) /\ log \in Seq(Messages)
  /\ compacted \in BOOLEAN /\ over \in BOOLEAN /\ torn \in BOOLEAN
  /\ cancel \in BOOLEAN /\ cancel_token \in BOOLEAN /\ swapped \in BOOLEAN
  /\ turns \in 0 .. MaxTurns /\ queued \in 0 .. MaxTurns - turns
  /\ iteration \in 0 .. MaxIterations + 1
  /\ batch \in 0 .. MaxBatch
  /\ tool \in 0 .. MaxBatch + 1
  /\ outcome \in Outcomes
  /\ late \in Nat

\* A result stands right after the tool use it answers or after the result
\* before it in the same batch.
Answers(prev, m) ==
  /\ m.n \in 1 .. m.of
  /\ prev.of = m.of
  /\ \/ prev.kind = "assistant" /\ m.n = 1
     \/ prev.kind = "result" /\ m.n = prev.n + 1

Paired(ms) ==
  \A i \in DOMAIN ms : IsResult(ms[i]) => i > 1 /\ Answers(ms[i - 1], ms[i])

\* Providers reject a tool result without its tool use.  No failure, cancel,
\* compaction or reload leaves one in the transcript that is sent to the LLM or
\* in the file.
NoOrphanResult == Paired(messages) /\ Paired(log)

\* Does the message at i wait for a result that does not follow it?
Unanswered(ms, i) ==
  /\ \/ HasToolUse(ms[i])
     \/ IsResult(ms[i]) /\ ms[i].n < ms[i].of
  /\ i < Len(ms) => ~IsResult(ms[i + 1])

\* Every tool use in the transcript has all its results when a turn is over:
\* only a failed append or a panic leaves a batch open, a cancel never does.
BatchesAnswered ==
  stage = "idle" /\ ~torn => \A i \in DOMAIN messages : ~Unanswered(messages, i)

\* What is in memory is what is on disk, or a summary and the end of it.
MemoryIsTailOfLog ==
  IF compacted
    THEN /\ messages # <<>> /\ messages[1] = Summary
         /\ \E n \in 0 .. Len(log) : Tail(messages) = SubSeq(log, n + 1, Len(log))
    ELSE messages = log

\* The cancel signal "exits before the next LLM call": as long as a cancel is in
\* force, in this turn and in the queued ones, the transcript gets at most the answer
\* to the call in flight.  A message queued later ends that: RunTurnStreaming clears
\* the flag for all turns of the entry, and a turn that was cancelled and had not
\* looked yet goes on; late starts again at 0 there.
CancelStopsTheLoop == late <= 1

\* Compaction keeps the last Preserve messages as they are, and makes the
\* transcript no longer.
RecentMessagesKept ==
  [][compacted' /\ Len(messages') <= Len(messages) /\ messages' # messages
       => \A i \in 0 .. Preserve - 1 :
            i < Len(messages) => messages'[Len(messages') - i] = messages[Len(messages) - i]]_vars

\* Every turn ends.
TurnEnds == stage # "idle" ~> stage = "idle"

\* The transcript survives failing appends, panics, cancels and compaction: no
\* result without its tool use, batches answered, memory the tail of the file, the
\* recent messages kept; a cancel stops the loop unless a later message takes it back.
ConversationSound ==
  /\ []TypeOK
  /\ []NoOrphanResult
  /\ []BatchesAnswered
  /\ []MemoryIsTailOfLog
  /\ []CancelStopsTheLoop
  /\ RecentMessagesKept
=============================================================================
