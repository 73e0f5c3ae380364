# TLA+ specifications of db-clinic

db-clinic is an assistant for database diagnosis. A React UI talks over a
WebSocket to a FastAPI gateway, the gateway talks gRPC to a Rust server that
runs one agent conversation per session, and the agent asks a human operator to
run commands on the database host by means of *proxy instruction cards*. This
directory holds TLA+ models of the parts of that program where ordering,
concurrency, failure and persistence decide whether it is correct, the TLC
configurations that check them on small instances, and machine-checked proofs of
the results that matter most.

PROJECT.json maps definitions to lines of the source: one entry per operation or
piece of state, with the lines it translates. A helper whose lines lie inside a
listed operation's range is not listed again.

All paths below are relative to `src/`; `agent-grpc-server` and `runtime` stand
for `rust/crates/agent-grpc-server/src` and `rust/crates/runtime/src`.

## 1. The system

| Component | State it keeps | Operations | What is hard |
|---|---|---|---|
| Proxy tool executor (`agent-grpc-server/proxy_executor.rs`) | pending map of oneshot senders, `next_seq`, instruction and timeout channels, cancel flag and token | `execute`, `deliver_proxy_result`, cancel, 30-minute timer, forwarders | five parties race one call; `select!` drops the losers |
| Session kernel (`agent-grpc-server/session_store.rs`, `service.rs`) | session map owned by an actor, shared map for the lock-free paths, per-entry FIFO lock, counters | Create, RunTurnStreaming, GetUsage, Remove, Resume, `cancel_turn`, CloseSession | worker tasks outlive the map entry; cancel bypasses the actor; counters are read without the lock |
| Chat stream (`service.rs` chat, spawn_forwarders) | receivers parked per session, one output channel per stream | Chat stream open/close, user message, cancel, proxy result | a stream may end while a turn waits; the receivers go with it |
| Conversation runtime (`runtime/conversation.rs`) | transcript, usage, hooks, permission policy | `run_turn`: LLM calls, tool batches, auto-compaction | a failure in the middle of a batch; cancel between calls |
| Session file (`runtime/session.rs`) | JSONL file, rotated files | append, atomic snapshot, rotation, load | crash between two steps, torn append |
| Compaction (`runtime/compact.rs`) | none (pure) | `compact_session` | where to cut without separating a tool call from its result |
| Session backends (`session-persistence`) | session records and checkpoints | save, load, list, delete in memory, JSONL and SQLite | three implementations of one trait |
| Gateway WebSocket (`python/server.py`) | slot for the pending user message, set of conversations | user message, skill selection, cancel, close | a slot shared by two requests |
| Provider clients (`rust/crates/api`) | retry counters, SSE buffer, block state, prompt cache files | send with retries, parse a stream, convert messages, cache completions | retries, chunk boundaries, streams that are cut, files shared by processes |
| Tool calls (`runtime/hooks.rs`, `permissions.rs`, `permission_enforcer.rs`) | abort signal, merged hook outputs, policy | hooks before, policy and prompt, execution, hooks after | later outputs over earlier ones, a rewritten input |
| Sub-agents and registries (`tools/lib.rs`, `runtime/task_registry.rs`, `team_cron_registry.rs`, `approval_tokens.rs`, `lane_events.rs`) | manifests and outputs on disk, maps behind mutexes, ledgers | spawn, finish, create, assign, stop, verify, consume, reconcile | a tool makes several calls; a write fails half way; events repeat |
| Workers, lanes and branches (`runtime/worker_boot.rs`, `recovery_recipes.rs`, `policy_engine.rs`, `green_contract.rs`, `branch_lock.rs`, `stale_branch.rs`) | one status machine each | observe a screen, send a prompt, recover, judge evidence, measure freshness | what is known is inferred from what was seen last |
| MCP (`runtime/mcp_stdio.rs`, `mcp_tool_bridge.rs`) | child processes, pipes, tool index | discover, call, time out, reset, retry | late answers, servers that die |
| Plugins (`plugins`) | install root, registry, settings, runtime | install, enable, update, uninstall, initialise | chains of file-system steps |
| Settings, prompts, reports (`runtime/config.rs`, `prompt.rs`, `git_context.rs`, `rusty-claude-cli/main.rs`) | files of user and project, git | load, merge, Config and plan-mode tools, prompt, status, doctor, diff | many readings of a workspace that changes |
| File and shell tools, documents, skills (`runtime/file_ops.rs`, `bash.rs`, `tools`, `commands`) | the workspace, child processes | read, write, edit, search, run, init, install | no locks, checks before use, pipes that fill |
| Command line (`rusty-claude-cli`, `commands`) | active session, sessions of the workspace | arguments, REPL, `--resume` batches, slash commands | several tables that must agree; which state is saved when |
| UI (`ui/`) | reducer state | render, send | not part of the kernel |

### How the parts interact

The gateway opens a gRPC `Chat` stream per WebSocket. A user message becomes
`run_turn_streaming`: a command on the unbounded channel of the session actor.
The actor resets the cancel state and spawns a worker task that waits for the
entry's mutex, runs `ConversationRuntime::run_turn` and writes the checkpoint and
the session record. `run_turn` loops over LLM calls and tool batches; every
message is appended to the session file. A tool the server cannot run itself is
a *proxy* tool: `ProxyToolExecutor::execute` registers a oneshot under a fresh
instruction id, sends a card to the forwarder of the Chat stream and waits for
the first of: the operator's answer, the cancellation token, 30 minutes.
`deliver_proxy_result` and `cancel_turn` reach a session through a map behind a
synchronous mutex and never go through the actor. `CloseSession` cancels, asks
for the usage (which waits for the entry lock), removes the session, and the
gateway then deletes its file. `ResumeSession` returns at once if the session is
live and rebuilds it from its file otherwise.

## 2. Modules

### ProxyExecutor, ProxyContract, ProxyExecutorProofs

`ProxyExecutor` models one `ProxyToolExecutor` with everything that races it.
`pc` is the point `execute` has reached; `pending`, `oneshot` and `slot` are the
pending map and the oneshot channels; `instr_q` and `timeout_q` the two bounded
channels to the forwarders; `dlv` the calls of `deliver_proxy_result`, each in
three steps (look up the map, remove the sender, send: the pending lock is
released before the send). `Cancellers` act in two steps, flag then token. The
actor's reset of the flag (`ResetCancelFlag`), the removal of the session from
the shared map (`RemoveSession`) and forwarders that go away
(`InstructionReceiverGone`, `TimeoutReceiverGone`) are environment steps. An
instruction id is the value of `next_seq`; a card's text is left out.

`ProxyContract` is what the rest of the system may assume of a proxy call: calls
are issued one at a time under increasing ids; a call can be acknowledged at most
once; it closes once, with the acknowledged answer or with a failure; nothing
changes afterwards. `ProxyExecutor` refines it with `next_seq`, `Active`, `slot`
and `returned` as the contract's variables.

| Run | Bounds | Shows |
|---|---|---|
| `proxy_call` | 2 calls, 3 submissions, 2 payloads, 2 cancellers, channels of capacity 1, symmetry | `ProxyCallSound` (`NoPendingLeak`, `OneAcceptedResult`, `ResultIsTheAcknowledgedOne`, `AcknowledgedLostOnlyToCancelOrTimeout`, `NeverDisconnected`, `ExpiredCardsTimedOut`) and `KeepsTheContract` (`ReturnsAreFinal`, refinement of `ProxyContract`) |
| `proxy_liveness` | 2 calls, 1 submission | `ProxyCallsEnd`: `EveryCallReturns` if the timer fires, with no answer assumed; `CancelEndsTheWait` for the executor's own token without answer and without timer |

Two calls show what one leaves to the next; three submissions let two race for
one card while a third is late; capacity 1 makes both channels full.

Fairness: the executor and the deliveries are runnable tokio tasks; the forwarders drain
their channel or drop it; for `EveryCallReturns` the timer of `tokio::time::sleep`
fires in the end (`TimerFires`, a premise of that property alone). Operators and
cancellers owe nothing.

*Proved* (`ProxyExecutorProofs`, for all numbers of calls, submissions, payloads
and capacities): type correctness, all the safety properties above, the
finality of returns and the refinement, together `CallSound` and
`ContractKept`. The properties are not inductive: that an
acknowledged answer is the one returned depends on who can still hold a sender.
The inductive invariant `IInv` adds

- `CurrentCall`: what each value of `pc` says about the current call's oneshot,
  queue entry and outcome;
- `PendingInv`: only the current call has an entry in the pending map, and only
  between `Register` and `Cleanup`;
- `OtherCalls`: calls below `next_seq` are closed and have returned, calls above
  have left no trace;
- `SenderInv`: a oneshot sender is in exactly one place, the pending map or one
  delivery between its remove and its send;
- `ReturnInv`: what a returned value says about slot, cards and expiry.

Each action has a lemma with one step per conjunct; the proofs of the properties
are then consequences of `IInv`. Assumptions: `BoundsAssumption` and
`PayloadAssumption` of `ProxyExecutor`. Liveness stays with TLC.

### SessionManager

The session kernel: the actor with its command queue (`cmd_q`), the map it owns
(`sessions`), the map the lock-free paths use (`shared`), and the tasks it
spawns. A `SessionEntry` is an `Arc`, so a worker can hold the entry of a removed
session while Resume builds another one for the same id; the model therefore
numbers entries. `lock[k]` is tokio's fair mutex, a FIFO whose head is the holder;
a spawned task enters it when it is first polled (`LockRequest`), in any order.
`run_turn` is cut down to what touches shared state: it probes a compacted
session, reads the cancel state before each LLM call, appends messages, may sit in a
proxy wait, and ends a turn that got its answer by compacting the transcript or not
(`PushAndCompact`).
`cancel_turn` is three steps: look up the flag and the token, store the flag,
cancel the token. `CloseSession` is cancel, GetUsage, Remove and then the
gateway's deletion of the file. The backend is reduced to
the set of records and of checkpoint ids (`SessionBackends` models it), a file to
the number of its messages, whether it holds a compacted session, and whether it is
missing or torn.

*Writes that fail.* `Faulty` names what may fail, at any time: `"file"` (an append, of
which the message is taken back and the turn fails, with the file as it was or torn; the
first write of a file, which is only logged; a load, which puts a fresh session in the
place of the file), `"record"` (load, save and delete) and `"checkpoint"`. `Backends` is
the set of kinds of backend a server may have been started with. With `"sqlite"` each
save of a record drops the checkpoints of its session (`SaveRecord`), and a checkpoint
without a record fails; `"other"` stands for the memory and the JSONL backend, which
keep one of the two when a session is deleted. A session created without a `data_dir`
has no file (`persisted`), and compaction is of the memory alone: the file keeps every
message. `whole` and `unsaved` are history: the messages an entry has had, and the
checkpoints that failed or were dropped. A record that was appended without its newline
is the subject of `SessionFile`; here it counts as torn.

Tokens are numbered per entry: token 0 (`OwnToken`) is the one the entry's
runtime and executor were built with; each `RunTurnStreaming` puts a fresh one in
the shared map.

| Run | Bounds | Shows |
|---|---|---|
| `session_manager` | 1 session, 2 turns, 1 close (which cancels), 1 resume, 2 entries, 2 iterations, 1 preserved message, the backend that drops checkpoints, every write may fail | `SessionManagerSound`: `TurnsAreSerial`, `PublishedCountIsCurrent`, `MapsAgree`, `TranscriptOnDisk`, `CancelledForAReason`, `NoCancelIsIgnored`, `OneCheckpointPerTurn` |
| `session_liveness` | 2 turns and a close, timer fires, the other backend, turns fail by their model call only | `SessionsMakeProgress`: `EveryTurnIsAnswered`, `CloseReturns` |
| `session_cancel_waits` | 1 turn, 1 cancel, no timer | **violated**: `CancelAbortsTheWait` |

`TranscriptOnDisk` says that the file of a session that was not closed holds every
message acknowledged, whatever compaction has left in memory, unless a failed append
tore it; once it is torn, later messages are acknowledged and lost to the next resume,
which is what the code does. `OneCheckpointPerTurn` accounts for each step index: its checkpoint is
there, or its save failed, or a later save of the record dropped it, which the
violated `CheckpointsAreKept` shows of the backend by itself. `NoCancelIsIgnored` is what
is left of "cancel": a queued message clears the flag (`HandleTurn`) although an earlier
turn may not have looked, and then the cancel is gone; otherwise a turn
makes no further LLM call once the flag is set.

One session is enough because nothing but the command queue and the counter is
shared between sessions; two turns are needed for one to queue behind, be
overtaken by, or be poisoned by another; two entries for the old and the new one
of a session that is closed and resumed. The close does what a cancel does and more, so
`session_manager` has no other. The two kinds of backend differ in `SaveRecord`,
`SaveCheckpoint` and `DeleteRecord` only; the run has the one that loses more, the
liveness runs the other, and the proof is for both.

The violation: `RunTurnStreaming` swaps the token in the shared map, but the
runtime and the executor keep the first one for ever. A cancel during a proxy
wait cancels a token nobody waits on, so the wait lasts until the operator
answers or the timer fires. Seen from the other side, a cancel *before* the first
turn cancels the token that is kept, so every later turn of the entry ends as
cancelled, which `CancelledForAReason` has to allow for; it shows that the flag
itself leaves nothing behind.

The runs may stop: when all clients have been served nothing is left to do.
That no client is left behind is what `session_liveness` shows.

Fairness: the actor, the workers, the usage readers and the handlers are tokio
tasks that run when they can. Operators answer only if they like; in
`session_liveness` the 30 minutes pass.

*Proved* (`SessionManagerProofs`, for all sets of sessions and calls, all bounds, all kinds
of backend and all sets of writes that may fail): `KernelKeepsItsBooks`, that is `SessionManagerSound`, type
correctness and its seven parts.
None of them is inductive: that turns of an entry are serial depends on
the lock queue, the published count on who holds the lock, and what a worker
finds on who owns the entry it holds. `IInv` adds

- `Staged`, `Queued`: which stages a call of each kind can be at, and that a
  command in the actor's channel is awaited by its call, which has no other there;
- `Known`, `Blank`: a session is created once and others learn its id afterwards;
  an entry that is not built yet is blank and nobody's;
- `Owned`, `Holding`: the calls that hold an entry and the map agree on whose it
  is, also when a worker still holds the entry of a removed session;
- `LockQueue`: a call queues once, for its own entry, and what runs is the head;
- `CountPublished`: the lock-free count lags only while a turn of the entry runs;
- `FlagNoted`, `Looping`: the flag of an entry is set just when its unanswered turns have
  seen a cancel that no message erased, and a turn past the iteration limit has left its loop;
- `Counted`: the live sessions are finitely many and `MapsAgree` counts them.

TLC checked `IInv` as an invariant, with both kinds of backend and every write failing,
before it was proved.
Assumption: `ManagerAssumption`, which says that a call is of one kind, that the
bounds are numbers, and which names `Backends` and `Faulty` may hold.
### ConversationRuntime

One `ConversationRuntime` and its `run_turn`, statement by statement: `stage` is
the place in the loop, `messages` the transcript in memory, `log` the messages of
the session file. A message keeps its role in the protocol only: an assistant
message says how many tools it asks for (`of`), a result which of them it answers
(`n` of `of`). The outcomes of the LLM, of hooks, of the permission policy and of
tools are choices; so are a failing append (`PushFails`, which takes the message
back from memory) and a panic, which `session_store.rs` catches (`Panic`).
Messages are queued (`QueueTurn`) while a turn runs: the actor clears the cancel flag and
swaps the token when it takes a message, not when its turn begins, so a cancel of the turn
in hand may be taken back by the next message, and a cancel before the first message
reaches the token the runtime keeps and stops every turn of the entry. `CancelStopsTheLoop`
says what is left: while a cancel is in force at most the answer in flight is pushed.
`over` is the cumulative token count having reached the threshold of
auto-compaction; the code never resets it, so once set it stays. `compact_session`
is translated as a function: `keep_from` is the boundary that walks back from the
last `Preserve` messages over tool results. `Resume` reloads the transcript from
the file, which compaction does not touch.

| Run | Bounds | Shows |
|---|---|---|
| `runtime_services` | 3 turns, batches of 2 tools, 2 iterations, 2 messages preserved | `ConversationSound`: `NoOrphanResult`, `BatchesAnswered`, `MemoryIsTailOfLog`, `CancelStopsTheLoop`, `RecentMessagesKept`; `ServicesMakeProgress`: a turn ends (`TurnEnds`), sub-agents settle (`AgentsSettle`) |

With two tools per batch and two preserved messages the boundary falls on every
kind of message; the third turn starts from a compacted, a torn or a reloaded
transcript. `BatchesAnswered` holds only for transcripts without a failed
append or a panic inside a batch (`torn`): those leave tool uses without results,
and nothing in the code repairs them before the next request.

Fairness: weak fairness of `Turn`: LLM calls, hooks and tools come back. For proxy tools
that is `EveryCallReturns` of `ProxyExecutor`.

*Proved* (`ConversationProofs`, for all bounds): `TranscriptSurvives`
(`ConversationSound`). `ConvIInv` joins to the types

- `InBatch`: while tools run, the transcript in memory and the file both end in the
  message behind which the next result belongs;
- `NoOrphanResult` and `AnsweredSoFar`: a result follows its call or the result before it,
  and, unless the transcript is torn, no message waits for a result but the last one of the
  batch that runs;
- `MemoryIsTailOfLog`: before the first compaction the memory is the file, then a summary
  and an end of it;
- `WithinLimit` and `NoCallAfterCancel`: the iterations; an answer pushed while a cancel
  was in force means that it still is, and that no LLM call is under way.

The hard step is `compact_session`: the boundary found by walking back from the
last `Preserve` messages must not stand between a batch and its results, and what
it leaves must be a tail. `keep_from` is the least index of a set, so the lemmas about it use
the least-number principle, proved from the well-founded order of the naturals in its
form about sets, which needs no operator as a parameter. TLC checked `ConvIInv` on the
instance of the run.

### ChatService

The `Chat` streams of one session id. Every CreateSession and ResumeSession makes a
*pair* of channels (cards, expiry notices); the senders live in the session entry,
the receivers are parked in `pending_proxy_receivers` (`parked`) until the first
message on a stream takes them (`attached`). `buffer` and `hold` are the channel
and the item its forwarder has in hand, `out` the output channel of a stream. A
turn is `queued`, `running`, in a proxy call, then returns; its events pass
through the bounded event channel with `try_send` (dropped when full) and the
task of `handle_user_message` waits for the event forwarder before it sends the
final output. `ResumeSession` is two steps, the manager's answer and the
insertion into the map, as in the code; `CloseSession` is cancel, usage, remove.

| Run | Bounds | Shows |
|---|---|---|
| `chat_cards` | 2 streams, 2 turns, 2 pairs, 2 calls, channels of capacity 1 | `ChatCardsSound`: `CardsConserved`, a card is in one place until the client has it, and lost only with its receiver |
| `chat_turns` | 1 stream, 2 turns, a call, a close, output channel of 2 | `OneEndAfterAllDeltas`: the deltas of a turn, then one `turn_complete` or error; `EveryMessageAnswered` |
| `chat_reconnect_loses` | 2 streams | **violated**: `CardReachesItsTurnsStream` |

The second stream stands for the reconnect; capacity 1 makes every channel full.
The violation: forwarders notice that their stream has closed only when they try
to send. They still hold the receivers of the live session, so they receive the
next card, which belongs to a turn on the new stream, and drop it.

`OneEndAfterAllDeltas` speaks of what `handle_user_message` sends. Cards and expiry
notices reach the client by the two tasks of `spawn_forwarders`, which nothing waits
for: a card whose wait was cancelled, or the notice of one that expired, may be read
after the end of its turn, in the code and in the model, and no property says
otherwise.

Two more facts came out of this model. A ResumeSession of a live session whose
receivers nobody has taken yet replaces them by receivers whose senders are gone,
after which every proxy call of the session fails. A turn that starts a
proxy call between the cancel and the removal of CloseSession has a card that
cannot be answered, since the session is no longer in the shared map;
`EveryMessageAnswered` therefore leaves closed sessions out.

Fairness: forwarders, turns and the client run when they can. It is strong
fairness because tokio's channels and mutexes serve waiters in order, so a task
that is offered a slot again and again gets it; and the operator answers the
cards shown (`ProxyResult`), which is what the property is about: that an answer is
read while its turn waits.

*Proved* (`ChatServiceProofs`, for all numbers of streams, turns, pairs and calls
and all capacities): `CardsSurvive` (`ChatCardsSound`) and `DeltasThenOneEnd`
(`OneEndAfterAllDeltas`). `CardsConserved` counts
the places a card is in, and a count is not inductive. `ChatIInv` says instead, of
each card,

- `OwnPlaces`: it is in places of its own pair only and at most once in each queue;
- `OnePlace`: it is in no two of buffer, forwarder, output and client;
- `LostWithReceivers`: if it is in none, the receivers of its pair are gone;

and of the rest `Capacities`, `Numbered` (only calls that were made are anywhere),
`Waiting`, `Receivers` (a pair is unmade, being parked, parked, taken or dropped,
and a forwarder holds something only of a taken pair) and `Homes`. A step of the
service is one of a few kinds as far as cards go (`FlowSteps`): a card is made,
received by the forwarder, sent to the output, read by the client, dropped with its
stream, or nothing moves; each kind has one lemma. `Ends` adds for the order that
whatever an output holds of a turn was said on the turn's own stream after it began,
and its end only when it was answered. TLC checked `ChatIInv` and `Ends` on the
instances of both runs. Assumption: `ChatAssumption` (bounds are numbers, `NoStream`
is no stream). `EveryMessageAnswered` is liveness and stays with TLC.

### SessionBackends

The `SessionBackend` trait on its three implementations, driven side by side by
the same calls. A stored item is the number of the call that stored it. The JSONL
part has directories (a message for a session without directory creates it) and
the separate place where a record with a user name is written; the SQLite part
has the foreign keys: rows of an unknown session are refused and a record that is
saved again takes the rows of its session with it (`INSERT OR REPLACE` with
`ON DELETE CASCADE`). The checkpoints of a session in SQLite are a set of rows, at most one
per step (`INSERT OR REPLACE` under two unique keys); what its readers answer is the one sequence
of the rows that is sorted by step and id (`OrderedByStep`), the `ORDER BY` of the queries.

| Run | Bounds | Shows |
|---|---|---|
| `command_line_and_tools` | 1 session, 1 user, 2 steps, 5 calls | `SessionBackendsSound`: `NestedContents`, `RecordsAgree`, `ReadersAgree` |
| `backend_checkpoints` | 4 calls | **violated**: `CheckpointsAreKept` |

Sessions do not share state in any backend, so one is enough; five calls allow
create, store, delete, create again and store. `RecordsAgree` leaves
out records with a user name: the JSONL backend writes them below the user's
directory, where none of its own readers looks. Calls are atomic. Two of the
backends hold a mutex; for the JSONL one this hides that two processes share the
name of the temporary file.

*Proved* (`ToolsProofs`, about `PartSpec` of `MCTools`): `BackendsForgetInOrder`
(`SessionBackendsChecked`), for any sessions, users and steps and any number of calls. The
property is not inductive: that the files have all the tables have survives a deletion
only because both lose everything. `BackendIInv` adds

- that the files have nothing of a session without a directory, and the tables nothing of one
  without a record (`BackendsOK`);
- where one sequence ends with another, by how much it is longer (`Ends`): an append to both
  keeps it, a deletion of the shorter one too;
- that the numbers of stored messages grow along the file (`IdsGrow`) and that a step has one
  checkpoint row (`StepsAreUnique`);
- while no record was saved with a user name, session by session (`AgreeOK`), that memory and
  files have a record of the same sessions and files and tables the same record.

Of the readers, the lemma `OneOrder` shows that a finite set of rows has one sorted sequence. So where
the tables lost nothing and steps were stored in order, the sequence the query sorts is the one in the
file, and the last, the list and the lookup by step agree. Assumption:
`BackendAssumption` (steps are numbers, the absence of a user is no user).

### SessionFile

The transcript of a session in memory and in its file. An append is two writes,
the record and the newline; a snapshot is rotate, write, rename, clean up, each
a step after which the process may die (`Crash`, external) or, for an append,
fail with part of the record on disk (`CrashInRecord`). A line that does not
parse is `Bad` and makes the whole file unreadable; `Resume` replaces an unreadable
file by that of a fresh session. The histories `kept` and `excused` say which
messages `push_message` has acknowledged and which the environment gave up.

| Run | Bounds | Shows |
|---|---|---|
| `adapters` | 3 messages, 3 faults, rotation after 2 lines, 1 rotated file kept | `SessionFileSound`: `FileReplaysMemory`, `OnlyAppendsDamage`, `AcknowledgedAreSomewhere`, `RotatedFilesBounded` |

Three messages reach the rotation and the append behind it; three faults are a torn append, a crash in the
recovery from it, and one more. The limits of the code (256 KiB, 3 files) are
parameters.

*Proved* (`AdaptersProofs`, about `PartSpec` of `MCAdapters`): `SessionFilesSurvive`
(`SessionFileChecked`), for any number of messages, crashes and failing writes, any rotation
threshold and any limit on rotated files. `FileIInv` adds to the property what every
place of an append or a snapshot implies:

- `PushedIsNew`: the message being pushed is the last one made, and nobody was told yet
  that it is kept;
- `Intact`: a file whose appends were not cut short holds the transcript, or all of it
  but the message under way;
- `Replaces`: a snapshot of an append replaces no file, one of a resume a file that cannot
  be read;
- `OnDisk` and `InMemory`: acknowledged messages are in a file, and those a readable
  file holds are in memory. A snapshot may replace a readable file only because of
  the second, so "nothing acknowledged is lost" is not inductive without it;
- `Bounded`: the count of rotated files at every place of a snapshot.

Assumption: `FileAssumption` (the bounds are numbers, the threshold at least one line).
## 3. The other components

The server above is one user of a runtime that has many more parts, and the
command line is another. Twenty-nine modules model those. They share no state
with each other, so they are checked in three composed modules,
`MCRuntimeServices`, `MCAdapters` and `MCTools`: a variable `part` names the
component that runs in a behaviour, the others stay in an initial state. (For
components with several initial states `PartInit` fixes one for those that do
not run.) Each module states its parts of correctness as small named formulas
and joins them in one `...Sound`; the composed modules check an invariant as
`...Checked`, which is the same formula while that component runs.
`PluginToolsSound`, `PromptTextsChecked` and `CommandLineChecked` join two components
each that serve one purpose, `ServicesMakeProgress` the two liveness properties of
`runtime_services`. `Branches`, `Plugins` and `CliSessions` hold two components each. These runs stop when the bounds are used up, hence no deadlock check.

### Runtime services (`runtime_services`)

| Module | State and actions | Property | Bounds |
|---|---|---|---|
| `AgentJobs` (Agent tool of `tools/lib.rs`) | threads, manifest, output file, cron entries; start, turn ends, append, disable crons, write manifest, failing writes, kill | `AgentJobsSound`: a manifest that says how an agent ended has an output that says the same, crons reported as disabled are off, a failure of MCP shows as degraded, an end is recorded once; `AgentsSettle` (in `ServicesMakeProgress`) | 2 agents, 1 cron, 1 failing write |
| `WorkerBoot` (`worker_boot.rs`) | workers and the state file that others poll; create, observe a screen, resolve trust, send a prompt, restart, terminate, time out | `WorkerBootSound`: no prompt is sent behind another, a replay is the lost prompt, a worker is blocked for the reason it shows, the file tells readiness, a timeout blames what was seen | 1 worker, 2 prompts, screens of 2 cues |
| `RecoveryRecipes` (`recovery_recipes.rs`) | attempts, ledger, events; `attempt_recovery` with every outcome of its steps | `RecoveryRecipesSound`: no step twice, the ledger tells an exhausted scenario from an untouched one, escalations are told | 4 calls |
| `MergePolicy` (`green_contract.rs`, `policy_engine.rs`, `lane_completion.rs`) | evidence, lane output, actions, the rules of an engine | `MergePolicyChecked`: a lane is closed out exactly when it is done, a reconciled one only cleaned up; an engine obeys each matching rule once, by priority and then in the order given; green is lost only by bad news | all evidence; engines of up to 3 rules |
| `Branches` (`stale_branch.rs`, preflight of `run_bash`; `branch_lock.rs`) | commits of remote, local main and branch; fetch, commit, merge, failing git; declared intents | `BranchesSound`: an update brings what is missing, tests let through see all of main; collisions are exactly the overlapping scopes, reported ones suffice | 2 commits a side; paths of 2 names, 2 intents |

Fairness: the threads of the agents (`AgentStep`) and the turn are run by the
operating system; nothing is assumed of workers, git or people.

*Proved* (`RuntimeServicesProofs`, about `PartSpec`; the steps of the other parts
leave the variables of a part alone):

- `RecoveriesAreCounted`: `RecoveryRecipesSound` for any number of calls.
  `RecoveryIInv` adds that an untouched scenario has an empty ledger entry and ran no
  step, and that the ledger holds the count of the attempts.
- `BranchesAreJudged`: `BranchesSound`. Of the branch, `FreshIInv` adds the types
  of what is measured to what is to be shown, which makes it inductive; of the
  intents, `LockIInv` adds that a lane is its place in the list, and lemmas
  about prefixes of paths show that scopes overlap exactly if one file can be
  below both, and that the reported modules suffice.
- `WorkersBootSafely`: `WorkerBootSound` for any set of workers and any order of
  screens and calls. `WorkerIInv` adds, worker by worker, that a prompt in flight was
  sent and an attempt counted for it, that a status at a gate has the event that
  led there, and what the state file shows of the worker that wrote it last.
  Assumption: `WorkerAssumption` (`MaxDeliveries` is a number).
- `AgentsEndInOrder`: `AgentJobsSound`, the action property that an end is recorded once
  included, for any set of sub-agents and cron entries and any number of failing
  writes. `AgentIInv` says of each thread (`ThreadOK`) what its place
  implies of the manifest and the output file, and that whatever it has noted as
  disabled is off; the lemma `CronKeeps` carries the last part over the steps of the cron
  tools, which touch entries but never switch one on again. Assumption:
  `AgentAssumption` (`MaxIoFaults` is a number).

### What is read from and written to the surroundings (`adapters`)

| Module | State and actions | Property | Bounds |
|---|---|---|---|
| `SettingsFiles` (`config.rs`, `config_validate.rs`, Config and plan-mode tools, start of the CLI) | the five files as functions from paths to JSON values, plan-mode file, a tool call between two writes, the two loads of a start | `SettingsFilesSound`: the last file wins key by key, tools keep files loadable, plan mode can be undone and leaving it restores what was, the CLI runs in the configured mode | 2 edits, 3 operations |
| `Plugins` (`plugins/lib.rs`), the manager | install root, registry file, settings, the manager's copy, runtime; every operation as a chain of steps that may fail, with half-made copies that load | `PluginManagerSound`: an acknowledged flag lasts unless the settings file is destroyed, removed stays removed, the bundled copy is current, stops mirror starts, a tool has one owner | 4 operations |
| `Plugins`, the manifests | a manifest grown entry by entry | with `ToolRegistry` `PluginToolsSound`: what loads validates again when used, accepted names differ, one report names all faults | 2 entries |
| `ToolRegistry` (`GlobalToolRegistry`, `CliToolExecutor`) | offers of servers and plugins, allowed names, registry of the runtime | a tool that is shown answers, what is allowed is what was asked for, search finds the name | 2 changes |
| `McpManager` (`mcp_stdio.rs`, `mcp_tool_bridge.rs`, `mcp_server.rs`) | child processes and pipes, handshake, tool index, the operation under way | `McpManagerSound`: no process escapes, answers are those of the request, routes follow listings, spawns are bounded, calls are sent once | 2 servers, 2 operations, 2 faults |
| `ProviderCalls` (`api`, `ProviderRuntimeClient`) | chain of providers, the call, every request sent | `ProviderCallsSound`: requests are bounded, one answer, refusals are final, routed by name, fails only without key, too long is told | 1 retry |
| `PromptCache` (`prompt_cache.rs`) | completion files, state file, clocks of two processes | `PromptCacheSound`: what is served is fresh, an unexpected break is a recent one | 2 processes, 2 calls, 4 ticks |
| `OpenAiStream` (`openai_compat.rs`) | bytes on the wire, parser buffer, `StreamState` | `OpenAiStreamSound`: where the network cuts is invisible, blocks are well formed, content is whole, the stream ends once | 2 frames, both separators, every cut |
| `TurnStream` (`consume_stream`, `stream_and_collect`, `stream_with_provider`, approvals and pasted results) | the request, locals of the reader, screen or channel, standard input | `TurnStreamSound`: the answer is what was served, the screen follows it, asked again only for nothing, answers are closed and reach their questions | 4 events, 2 requests |
| `WireMessages` (`build_chat_completion_request`, `sanitize_tool_message_pairing`, three `convert_messages`) | a conversation grown message by message, the request | `WireMessagesSound`: pairs are whole, sanitising is harmless, content is passed on | 3 messages |
| `CompactSummaries` (`compact.rs`) | messages as lines, compactions | in `PromptTextsChecked`, `CompactSummariesSound`: scopes add up, files stay told, the timeline is the latest, the rest is kept | 5 messages, 3 compactions |
| `SystemPrompts` (`prompt.rs`, `git_context.rs`) | instruction files, repository, settings, a prompt put together reading by reading | in `PromptTextsChecked`, `SystemPromptsSound`: nothing is cut silently, a prompt made in quiet is complete, sessions keep their segments, dates follow the calendar | 2 changes |
| `SlashCommands` (`commands/lib.rs`, three dispatchers) | the line typed last and what came of it | `SlashCommandsSound`: the help is honest, the resume mark holds, resume stays within the REPL, completions run | every command, 2 arguments |
| `ShellCommands` (`bash.rs`, `sandbox.rs`, PowerShell tool) | calls with child and pipe, probe, settings | `ShellCommandsSound`: output is whole or cut at bash's limit with a marker, only named children outlive a call, the status is true, isolation is lost for a reason | 2 calls, a pipe of 1 chunk, a limit of 1 chunk, commands that write up to 2 |

*Proved* (`AdaptersProofs`, about `PartSpec`; for the session file see its section):
`CacheIsFresh` (`PromptCacheChecked`), for any number of processes, calls and ticks. What is
served and when a break counts as unexpected is decided by times that other
processes noted, so `CacheIInv` says of every time kept anywhere what backs it: an entry
in the store, or in the hand of a lookup, was written when the provider last answered
that prompt or before (`Backed`); the usage a process or the state file
remembers was noted less than a completion's life after such an answer
(`Recent`). Both stay true as the clock and the provider go on (lemma
`TimeGoesOn`). Assumption: `CacheAssumption` (the bounds and lifetimes are numbers, a completion
lives at least one tick).

Also `RequestsStayBounded` (`ProviderCallsChecked`), for any limit of retries and any backoff. A list of
requests alone does not say how many may follow, so `ProviderIInv` ties it to the
call under way (`UnderWay`): nobody behind the provider in hand was asked and nobody has refused,
the attempts are the number of requests of the form in use, a plain request has a
stream that was opened before it, and what was read is of the answer that is read. A call that
ended keeps the answer or the error (`CallEnded`). The lemmas `OneMoreRequest`
and `OneMoreCounted` say what one more request does to the list and its counts, `Failed` what
moving to the next provider does, and `FromModel` what each name means in every
environment. Assumption: `ProviderAssumption` (`MaxRetries` is a number).

Also `ManagerKeepsItsServers` (`McpManagerChecked`), for any servers and tools and any number of
operations and faults. That an answer is never taken for another's holds because of what the
pipes cannot hold: in `McpIInv` only the pipe of the server that is awaited holds anything,
and it holds one thing, the request or its answer (`PipesOK`). The bound on the processes of a job
needs to be kept while the job runs: at every step the processes spent are at most two for each
handshake that may still fail, and a call counts from the moment it is written (`SpendingOK`).
Routes need what the last listing of each server was (`RoutesOK`), the report of
a best-effort discovery that the tools in it are of servers whose turn is over, so a later
refusal cannot take them back (`ReportOK`); and the jobs still to do are the servers not yet asked,
in order and each once (`JobsInOrder`). Assumption: `McpAssumption` (the
configured servers are finite in number and there is one; `main.rs` makes no manager otherwise).

Also `ShellsTellTheTruth` (`ShellCommandsChecked`), for any number of calls and any size of the
pipe. `ShellIInv` adds the course of a call (`CourseOK`): until its reader closes, what was read and
what is in the pipe is what was written, and a PowerShell command with a timeout, whose
pipe nobody reads before it ends, has written no more than the pipe holds; how it was started
(`StartedOK`: the status says what the launcher does, by the lemma `StatusIs` over every
request and probe); and that only calls nobody waits for come before the directories of
the sandbox (`HomeOK`). Assumption: `ShellAssumption` (`PipeSize` and
`OutputLimit` are numbers); nothing is assumed of which is larger.

Also `PluginsFollowTheUser` (`PluginManagerChecked`), for any number of operations, of failing
steps of the file system and of ends of the process (the plugins and their versions are the small
sets of the module). `PluginIInv` adds what links directories, registry and settings
between operations: what is recorded of a plugin is of its kind (`KindsFit`); a record
in the shipped version has the shipped plugin behind it, none is ahead of it, and a half
copy that loads is behind such a record only when the copy was over that record
(`ShippedFits`, which is why a synchronisation that copies only when versions differ is enough);
nothing of an uninstalled plugin is left that could be discovered or updated
(`GoneFits`: the acknowledged uninstall removed the directory and the record);
and a running runtime has started all its plugins, in the order of their ids,
with one owner for each tool (`RunOK`). Each step of the file system that may fail is a lemma; each
operation composes them.

And, for manifests of any length, `LoadedManifestsAreUsable`: the first two parts of `PluginManifestsSound`,
that a plugin that loads passes the checks made before its hooks and tools
are used, and that the names it declares differ. The third, that one report names every mistake,
sorts the places it keeps and stays with TLC.

### Command line, tools and stores (`command_line_and_tools`)

| Module | State and actions | Property | Bounds |
|---|---|---|---|
| `CliArgs` (`parse_args`) | arguments seen, locals, piped input | in `CommandLineChecked`, `CliArgsSound`: the last permission flag holds, local verbs start no session, a prompt is its words, piped text enters once, words behind `--resume` stay with their command | 3 arguments |
| `CliSessions` (`LiveCli`, `session_control.rs`) | session files, the process, the session in memory | `CliSessionsSound`: no completed turn is lost, file and memory agree between turns, sessions are of this workspace, the latest is the one worked on last | 2 sessions, 2 turns |
| `CliSessions`, the batch (`run_resume_command`) | stored session, memory, backups, clock | `ResumeBatchSound`: the file is the memory, clearing loses nothing but where two clears meet in a millisecond | 3 commands |
| `FileTools` (`file_ops.rs`) | places, the link, calls as sequences of system calls | `FileToolsSound`: files are as if calls that do not overlap ran one by one, the originals shown are whole texts, a call works where it was checked | 2 callers, 3 steps |
| `BashValidation` (`bash_validation.rs`) | a command word by word | `BashValidationSound`: verdict, classification and modes agree, `sudo` changes nothing | 3 words |
| `ToolCalls` (`hooks.rs`, `permissions.rs`, `permission_enforcer.rs`) | policy, abort signal, the call, merged hook outputs | `ToolCallsSound`: what is denied never runs, ask rules ask, calls run within the mode, a hook that blocks or fails, or an abort its polling loop still looks for, is final | 2 hooks per event, 2 tools, at most two kinds of rules |
| `WorkspaceDocuments` (`init.rs`, TodoWrite, NotebookEdit) | documents, marks, jobs between truncating and filling | `WorkspaceDocumentsSound`: the user's text is kept, init leaves everything and is idempotent, the guide tells the stack, todos are the last acknowledged, ids find their cell | 2 workers, 3 steps |
| `WorkspaceReports` (`status`, `doctor`, `/diff`, config) | work tree, settings, panes, machine, a report reading by reading | in `CommandLineChecked`, `WorkspaceReportsSound`: reports made in quiet agree, abandoned means idle, summaries add up, failures are reported | 2 changes |
| `SkillRoots` (`commands/lib.rs`, Skill tool) | files of the roots, installers between two steps | `SkillRootsSound`: the active skill is the one resolved, unlisted is refused, a reported install is whole and found, no debris | 2 installers, 2 edits |
| `TaskRegistries` (`task_registry.rs`, `team_cron_registry.rs`) | tasks, teams, a team creation between two assignments | `TaskRegistriesSound`: a task names its team and a team its tasks, whatever happens in between | 2 tasks, 2 teams |
| `ApprovalTokens` (`approval_tokens.rs`) | grants, clock, consumptions | `ApprovalTokensSound`: never overspent, the audit traces the delegation, consumed only while valid | 1 token, 2 actors, 2 uses |
| `LaneEvents` (`lane_events.rs`) | events sent, events received in any order and number | `LaneEventsSound`: the outcome is the latest, deduplication loses no news, a manifest names a commit once | 3 events, 3 deliveries |

*Proved* (`ToolsProofs`, about `PartSpec` of `MCTools`):

- `DeniedCallsNeverRun`: `ToolCallsChecked` for any set of tools and rules, any number of
  hooks and an abort at any time. `CallIInv` adds what each stage of a call implies: before it
  executes nothing ran; a call that a hook stopped still shows it when the policy is asked
  (`StopIsKnown`: denied, failed, cancelled, or the signal is up and a poll is still to
  come that sees it, of this command or of the next); what executes was let through with the input it has now (`LetThrough`),
  which is not the input the hooks were first given. Assumption: `ToolCallAssumption`
  (`MaxHooks` is a number).
- `TokensAreNeverOverspent`: `ApprovalTokensSound`, the action property that a token is consumed
  only while valid included, for any sets of tokens, actors and scopes. `TokenIInv`
  adds the types and that the count of the grant is the count of the history; the lemma
  `AuditNamesExecutor` shows that every audit record names the one who executes in
  its delegation chain. Assumption: `TokenAssumption` (the bounds are numbers).
- `TeamsAndTasksAgree`: `TaskRegistriesChecked` for any number of tasks and teams. `TaskIInv`
  adds, for the moments between the two registries' locks, that what TeamCreate has
  left to assign is of the team's list, that what it has assigned and is still there
  has a team, and that ids not drawn yet are in no list: a task made later
  cannot be claimed by a team made before it. Assumption: `TaskAssumption` (no team id is the
  absence of one).
- `CompletedTurnsStay`: `CliSessionsChecked` for any number of sessions and turns. `CliIInv`
  adds, file by file (`FileOK`), that every turn reported as done is in the file or in its summary,
  that no turn in it is later than its update and that a file in use has an id drawn
  before `next_session`, so a new session never meets an old file; and of the process
  (`ActiveOK`, `Writable`) that what it holds of its session covers what
  its file must keep. Assumption: `CliAssumption` (the bounds are numbers).
- `ClearingLosesNothing`: `ResumeBatchSound`. `BatchIInv` is the types and that file and memory
  agree; the action property follows command by command (`KeepsWhatWasHeld`): what was
  held is still in the session, its summary or a backup unless a backup of the
  same millisecond was overwritten. Assumption: `BatchAssumption` (`MaxMillis` is a number).

The bounds are the smallest at which the case in question occurs: two writers to
overlap, one fault and one step behind it, three events for one to be late. Names
and texts are the classes the code tells apart; where the code computes
something from letters (normalised names, prefixes) the module has a table of
the words it uses.

### What the models show beside the properties

Some properties hold only with a condition that names a behaviour of the code.
The conditions are written into the properties; the behaviours are:

- *Files written in place.* `fs::write` truncates and fills: a process that ends
  in between leaves an empty file. An empty to-do store makes every later
  `TodoWrite` fail; two overlapping edits of a file keep one; a crashed install
  of a skill blocks its name.
- *Read, change, write without a lock.* Settings (Config tool, plan mode), the
  statistics of the prompt cache and the sessions of two command lines lose one
  of two concurrent changes. The removal of an expired completion can delete a
  fresh one of another process.
- *Streams.* A connection of an OpenAI-compatible provider that closes early ends
  like a finished answer; a frame that does not parse takes the chunks before it
  along; the command line has one slot for a streamed tool call; text behind
  the last safe cut is not shown if the stream ends without `message_stop`.
- *Conversations on the wire.* A tool result behind a user message is passed on
  without its call, and the Anthropic path is not sanitised.
- *Compaction.* When what lies behind the summary is one call and its results,
  compaction removes nothing and the summary grows at every turn; a message line
  that reads like the heading of the timeline hides later highlights.
- *Hooks.* A later `permissionDecision` overwrites an earlier one; an abort is
  not noticed by a call without hooks, nor behind the last poll of the last hook
  (`try_wait` and `wait_with_output` do not look at the signal again), and then the
  tool runs; the enforcer is used for sub-agents only.
- *Shells.* The PowerShell tool with a timeout reads the pipes when the child has
  exited, so a child with much output runs into the timeout; the timeout of
  `bash` does not kill the child.
- *`bash_validation.rs`* is called by its tests only; `sudo sudo x` recurses
  without end.
- *Git failures read as good news*: a branch is fresh, a tree clean.
- *Plugins.* An uninstall that fails at the settings leaves its flag on; one
  plugin that cannot be loaded refuses enabling and disabling all others. The
  settings are written in place: a write that fails after the truncation takes
  the flags of every plugin with it, also those other operations set
  (`plugin_lost`, excepted in `AcknowledgedFlagsLast`); the running manager keeps
  its copy, the next process does not have them. A plugin is copied entry by entry, and a copy that fails
  after the manifest and the files it names loads like a whole one. `needs_sync`
  looks at the record and the manifest only, so when the copy was to renew a
  bundled plugin already recorded in that version the half copy stays; one made on
  a first installation or an update is replaced (`BundledIsCurrent`).
- *MCP.* Colliding names are routed to the last server; a notification counts as
  an odd answer and resets the server; `tools/list` follows cursors without
  bound.
- *Command line.* A failed turn ends the REPL without saving; two `/clear` in one
  millisecond share a backup; `/approve` and `/deny` are in the help and have no
  parse arm; `--allowedTools` is resolved against another registry than the
  one that runs.
- *Lanes.* The fingerprint of a terminal event leaves out its failure class;
  observations revive a finished worker.

## 4. What is proved and what is only checked

| Proof module | Properties of runs it states | Argument |
|---|---|---|
| `ProxyExecutorProofs` | `ProxyCallSound`, `KeepsTheContract` | section *ProxyExecutor* |
| `SessionManagerProofs` | `SessionManagerSound` | section *SessionManager* |
| `ChatServiceProofs` | `ChatCardsSound`, `OneEndAfterAllDeltas` | section *ChatService* |
| `ConversationProofs` | `ConversationSound` | section *ConversationRuntime* |
| `RuntimeServicesProofs` | `RecoveryRecipesChecked`, `BranchesSound`, `WorkerBootChecked`, `AgentJobsSound` | section *Runtime services* |
| `AdaptersProofs` | `SessionFileChecked`, `PromptCacheChecked`, `ProviderCallsChecked`, `McpManagerChecked`, `ShellCommandsChecked`, `PluginManagerChecked` | sections *SessionFile* and *What is read from and written to the surroundings* |
| `ToolsProofs` | `ToolCallsChecked`, `ApprovalTokensSound`, `TaskRegistriesChecked`, `CliSessionsChecked`, `ResumeBatchSound`, `SessionBackendsChecked` | sections *Command line, tools and stores* and *SessionBackends* |

Every proof is from the specification and the named assumptions on constants of its
modules, by an inductive invariant that TLC checked first. Everything
else is model-checked on the bounds above. Liveness
(`ProxyCallsEnd`, `SessionsMakeProgress`, `EveryMessageAnswered`,
`ServicesMakeProgress`) stays with TLC: TLAPS does not reason about fairness or ENABLED.
So does what a module computes by recursion over a sequence (a fold, a filter, flattening,
sorting), which would need induction over data: `OpenAiStream`, `TurnStream`, `WireMessages`,
`CompactSummaries`, `SystemPrompts`, `LaneEvents`, `CliArgs`, `BashValidation`,
`WorkspaceDocuments`, the order of the actions in `MergePolicy`, the pages of search
results in `FileTools` and the listing of `SkillRoots`. Of `PluginToolsSound` the theorem
`LoadedManifestsAreUsable` proves two parts for manifests of any length; the rest and
`SlashCommandsChecked` are model-checked only. `SlashCommands` has no constants and one step per
line, so TLC's run is over all the lines the module has.

Every property of a passing run has a mutant: an operator, defined just before
the one it replaces and marked as such, that changes the model the way a
plausible bug would. The run then finds the property violated.

## 5. Plan

1. `ProxyExecutor`, its contract and its proofs; `SessionManager` (done).
2. `ConversationRuntime`, `ChatService`, `SessionFile`, `SessionBackends` (done).
3. Provider clients, tool calls, registries, workers, MCP, plugins, settings,
   prompts, file and shell tools, command line (done, section 3).
4. Proofs of the proxy call, the session kernel, the chat streams, the transcript of
   the conversation, the session file, the prompt cache, provider calls, the MCP manager, shell commands, the plugin manager, plugin manifests, four runtime
   services, tool calls, approval tokens, the registries of tasks and teams, the
   sessions of the command line, the three session backends (done).
5. The gateway's WebSocket loop: the slot for the message that waits for a skill
   selection, raced by a second message, a cancel and a disconnect.

## 6. What is not modelled

Formatting, JSON syntax, logging and telemetry; the text of cards, prompts and
messages beyond the classes named above; the UI; the terminal (line editing,
rendering, spinners); the gateway's HTTP handlers, which are database queries;
web fetch, web search and PDF extraction; OAuth and prices; the mock services
and the evaluation harness. `mcp_lifecycle_hardened.rs`, `report_schema.rs` and
`lsp_client.rs` are types and registries that no running code fills. Processes
that share the directory of the JSONL backend are left out: the server gives a
session one writer. PROJECT.json lists every component with the reason.
