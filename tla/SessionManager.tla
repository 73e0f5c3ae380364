--------------------------- MODULE SessionManager ---------------------------
(***************************************************************************)
(* The session kernel of agent-grpc-server: the actor task that owns the   *)
(* session map (session_store.rs), the per-turn worker tasks it spawns,    *)
(* the lock-free cancel path, and the gRPC handlers that call them         *)
(* (service.rs close_session, resume_session, create_session).             *)
(*                                                                         *)
(* A SessionEntry is an Arc: after Remove a worker may keep the old one    *)
(* while Resume builds a new one for the same id, so entries are numbered. *)
(* run_turn is cut down to what touches shared state: it reads the cancel  *)
(* state before every LLM call, appends messages, may sit in a proxy wait  *)
(* (ProxyExecutor) and compacts the transcript in memory when it ends.     *)
(* The writes of the session file, of the record and of a checkpoint fail  *)
(* at any time where Faulty names them.                                    *)
(***************************************************************************)
EXTENDS Integers, Sequences, FiniteSets, TLC

CONSTANTS
  Sessions,       \* session ids
  Creators,       \* CreateSession calls of a behaviour
  Turns,          \* user messages: one run_turn_streaming call each
  Closers,        \* CloseSession calls
  Resumers,       \* ResumeSession calls
  Cancellers,     \* Cancel messages on Chat streams
  MaxEntries,     \* bound on the entries built in a behaviour
  MaxIterations,  \* ConversationRuntime::max_iterations
  PreservedMessages, \* CompactionConfig::preserve_recent_messages
  Backends,       \* kinds of backend: "sqlite" drops checkpoints with a record, "other" not
  Faulty          \* what may fail: reads and writes of a "file", "record" or "checkpoint"

NoTarget == "no session"

Clients == Creators \cup Turns \cup Closers \cup Resumers \cup Cancellers

ASSUME ManagerAssumption ==
  /\ MaxEntries \in Nat \ {0}
  /\ MaxIterations \in Nat \ {0}
  /\ PreservedMessages \in Nat
  /\ Backends \subseteq {"sqlite", "other"}
  /\ Faulty \subseteq {"file", "record", "checkpoint"}
  /\ IsFiniteSet(Clients)
  /\ Creators \cap (Turns \cup Closers \cup Resumers \cup Cancellers) = {}
  /\ Turns \cap (Closers \cup Resumers \cup Cancellers) = {}
  /\ Closers \cap (Resumers \cup Cancellers) = {}
  /\ Resumers \cap Cancellers = {}
  /\ NoTarget \notin Sessions

VARIABLES
  cmd_q,         \* the actor's command channel, unbounded and FIFO
  sessions,      \* InnerStore::sessions: the entry number of each id, 0 if none
  shared,        \* SharedSessions: the entry number whose cancel state it holds
  built,         \* number of entries built so far
  active_count,  \* published number of sessions
  lock,          \* per entry: tokio's FIFO mutex, its head is the holder
  cancel_flag,   \* per entry: the AtomicBool, shared by everyone
  shared_token,  \* per entry: which token the shared map holds
  cancelled,     \* per entry: the tokens that have been cancelled
  messages,      \* per entry: number of messages in runtime.session()
  msg_count,     \* per entry: the published AtomicUsize
  step_index,    \* per entry: SessionEntry::step_index
  persisted,     \* per entry: its session has a persistence path
  compacted,     \* per entry: session().compaction is there
  whole,         \* history, per entry: messages loaded or pushed, compacted or not
  backend,       \* the kind of backend, fixed when the server starts
  file,          \* per id: its .jsonl file, the messages in it and whether it is compacted
  meta,          \* ids with a record in the backend
  checkpoints,   \* <<id, step>> of the checkpoints in the backend
  unsaved,       \* history: <<id, step>> of checkpoints that failed or were dropped
  stage,         \* where each client call is
  target,        \* the session it is about
  entry,         \* the entry its task holds, 0 if none
  iteration,     \* of a turn: LLM calls made
  result,        \* of a turn: its reply
  snapshot,      \* of a cancel: the token taken from the shared map
  cancel_seen    \* history, of a turn: what became of the cancels that set its flag

memoryVars  == <<messages, msg_count, persisted, compacted, whole>>
entryVars   == <<lock, cancel_flag, shared_token, cancelled, step_index, memoryVars>>
storeVars   == <<sessions, shared, built, active_count>>
backendVars == <<backend, file, meta, checkpoints, unsaved>>
clientVars  == <<stage, target, entry, iteration, result, snapshot, cancel_seen>>
vars == <<cmd_q, storeVars, entryVars, backendVars, clientVars>>

Entries == 1 .. MaxEntries

\* A file that ends in the first part of a record does not load.
NoFile == [n |-> -1, compacted |-> FALSE]
TornFile == [n |-> -2, compacted |-> FALSE]
EmptyFile == [n |-> 0, compacted |-> FALSE]

\* The runtime and the executor of an entry keep the token of its creation.
OwnToken == 0

Running == {"checking", "calling", "tool", "proxy", "finish", "load_meta", "save_meta",
            "publish", "unlock"}

Stages == {"idle", "sent", "spawned", "waiting", "looked_up", "cancelling", "cancelled",
           "usage_known", "removed", "done"} \cup Running

Results == {"none", "ok", "error", "cancelled", "max_iterations", "not_found"}

Init ==
  /\ cmd_q = <<>>
  /\ sessions = [s \in Sessions |-> 0]
  /\ shared = [s \in Sessions |-> 0]
  /\ built = 0
  /\ active_count = 0
  /\ lock = [k \in Entries |-> <<>>]
  /\ cancel_flag = [k \in Entries |-> FALSE]
  /\ shared_token = [k \in Entries |-> OwnToken]
  /\ cancelled = [k \in Entries |-> {}]
  /\ messages = [k \in Entries |-> 0]
  /\ msg_count = [k \in Entries |-> 0]
  /\ step_index = [k \in Entries |-> 0]
  /\ persisted = [k \in Entries |-> FALSE]
  /\ compacted = [k \in Entries |-> FALSE]
  /\ whole = [k \in Entries |-> 0]
  /\ backend \in Backends
  /\ file = [s \in Sessions |-> NoFile]
  /\ meta = {}
  /\ checkpoints = {}
  /\ unsaved = {}
  /\ stage = [c \in Clients |-> "idle"]
  /\ target = [c \in Clients |-> NoTarget]
  /\ entry = [c \in Clients |-> 0]
  /\ iteration = [c \in Turns |-> 0]
  /\ result = [c \in Turns |-> "none"]
  /\ snapshot = [c \in Closers \cup Cancellers |-> OwnToken]
  /\ cancel_seen = [c \in Turns |-> "no"]

-----------------------------------------------------------------------------
(* Clients: the gRPC handlers *)

\* Ids a client can know: those its CreateSession calls returned.
Issued == {target[c] : c \in {d \in Creators : stage[d] = "done"}}

Goto(c, s) == stage' = [stage EXCEPT ![c] = s]

Send(c, op) == cmd_q' = Append(cmd_q, [op |-> op, by |-> c])

\* create_session: the id is a fresh one.
SendCreate(c) ==
  /\ stage[c] = "idle"
  /\ \E s \in Sessions \ {target[d] : d \in Creators} : target' = [target EXCEPT ![c] = s]
  /\ Goto(c, "sent")
  /\ Send(c, "create")
  /\ UNCHANGED <<storeVars, entryVars, backendVars, entry, iteration, result, snapshot,
                 cancel_seen>>

\* run_turn_streaming and resume_session send their command and await the reply.
SendCall(c, op) ==
  /\ stage[c] = "idle"
  /\ \E s \in Issued : target' = [target EXCEPT ![c] = s]
  /\ Goto(c, "sent")
  /\ Send(c, op)
  /\ UNCHANGED <<storeVars, entryVars, backendVars, entry, iteration, result, snapshot,
                 cancel_seen>>

\* cancel_turn looks the session up in the shared map and takes its flag and its
\* token; nobody holds the map's lock after that.
CancelLookup(c) ==
  /\ stage[c] = "idle"
  /\ \E s \in Issued :
       /\ target' = [target EXCEPT ![c] = s]
       /\ entry' = [entry EXCEPT ![c] = shared[s]]
       /\ IF shared[s] = 0
            THEN Goto(c, "cancelled") /\ UNCHANGED snapshot
            ELSE /\ Goto(c, "looked_up")
                 /\ snapshot' = [snapshot EXCEPT ![c] = shared_token[shared[s]]]
  /\ UNCHANGED <<cmd_q, storeVars, entryVars, backendVars, iteration, result, cancel_seen>>

\* The turns of entry k whose answer is still to be settled.
Pending(k) == {t \in Turns : entry[t] = k /\ result[t] = "none"}

\* flag.store(true)
CancelFlag(c) ==
  /\ stage[c] = "looked_up"
  /\ cancel_flag' = [cancel_flag EXCEPT ![entry[c]] = TRUE]
  /\ cancel_seen' = [t \in Turns |-> IF t \in Pending(entry[c]) THEN "yes" ELSE cancel_seen[t]]
  /\ Goto(c, "cancelling")
  /\ UNCHANGED <<cmd_q, storeVars, lock, shared_token, cancelled, memoryVars,
                 step_index, backendVars, target, entry, iteration, result, snapshot>>

\* token.cancel() on the snapshot.
CancelToken(c) ==
  /\ stage[c] = "cancelling"
  /\ cancelled' = [cancelled EXCEPT ![entry[c]] = @ \cup {snapshot[c]}]
  /\ entry' = [entry EXCEPT ![c] = 0]
  /\ snapshot' = [snapshot EXCEPT ![c] = OwnToken]
  /\ Goto(c, "cancelled")
  /\ UNCHANGED <<cmd_q, storeVars, lock, cancel_flag, shared_token, memoryVars,
                 step_index, backendVars, target, iteration, result, cancel_seen>>

\* close_session after its cancel_turn: get_usage, then remove_session.
SendUsage(c) ==
  /\ stage[c] = "cancelled"
  /\ Goto(c, "sent")
  /\ Send(c, "usage")
  /\ UNCHANGED <<storeVars, entryVars, backendVars, target, entry, iteration, result,
                 snapshot, cancel_seen>>

SendRemove(c) ==
  /\ stage[c] = "usage_known"
  /\ Goto(c, "sent")
  /\ Send(c, "remove")
  /\ UNCHANGED <<storeVars, entryVars, backendVars, target, entry, iteration, result,
                 snapshot, cancel_seen>>

\* The gateway deletes the session file once CloseSession has returned.
DeleteFile(c) ==
  /\ stage[c] = "removed"
  /\ file' = [file EXCEPT ![target[c]] = NoFile]
  /\ Goto(c, "done")
  /\ UNCHANGED <<cmd_q, storeVars, entryVars, backend, meta, checkpoints, unsaved, target,
                 entry, iteration, result, snapshot, cancel_seen>>

-----------------------------------------------------------------------------
(* The actor: one command at a time, never awaiting an entry lock *)

Command(op) == cmd_q # <<>> /\ Head(cmd_q).op = op
Caller == Head(cmd_q).by
Called == target[Caller]
Dequeue == cmd_q' = Tail(cmd_q)

\* Number of sessions in the map s.
LiveCount(s) == Cardinality({i \in Sessions : s[i] # 0})

\* save_session_meta, of which a failure is only logged; sqlite replaces a record by
\* deleting the old one, and the checkpoints with it.
SaveRecord(s) ==
  LET dropped == {cp \in checkpoints : cp[1] = s /\ backend = "sqlite"}
  IN  \/ "record" \in Faulty /\ UNCHANGED <<meta, checkpoints, unsaved>>
      \/ /\ meta' = meta \cup {s}
         /\ checkpoints' = checkpoints \ dropped
         /\ unsaved' = unsaved \cup dropped

\* A new entry for id s with what is loaded, a session that is kept in a file or
\* not: fresh flag and token, all of it published to the shared map.
BuildEntry(s, loaded, kept) ==
  /\ built < MaxEntries
  /\ built' = built + 1
  /\ sessions' = [sessions EXCEPT ![s] = built + 1]
  /\ shared' = [shared EXCEPT ![s] = built + 1]
  /\ active_count' = LiveCount(sessions')
  /\ messages' = [messages EXCEPT ![built + 1] = loaded.n]
  /\ msg_count' = [msg_count EXCEPT ![built + 1] = loaded.n]
  /\ compacted' = [compacted EXCEPT ![built + 1] = loaded.compacted]
  /\ whole' = [whole EXCEPT ![built + 1] = loaded.n]
  /\ persisted' = [persisted EXCEPT ![built + 1] = kept]
  /\ SaveRecord(s)
  /\ UNCHANGED <<backend, lock, cancel_flag, shared_token, cancelled, step_index>>

\* Writing the file of a new session may fail, which is only logged.
Bootstrap(s) ==
  \/ file' = [file EXCEPT ![s] = EmptyFile]
  \/ "file" \in Faulty /\ UNCHANGED file

\* Without a data_dir the session has no file.
HandleCreate ==
  /\ Command("create")
  /\ \/ BuildEntry(Called, EmptyFile, TRUE) /\ Bootstrap(Called)
     \/ BuildEntry(Called, EmptyFile, FALSE) /\ UNCHANGED file
  /\ Dequeue
  /\ Goto(Caller, "done")
  /\ UNCHANGED <<target, entry, iteration, result, snapshot, cancel_seen>>

\* Resume of a live session only reads the published count; of any other, it
\* loads the file, or puts a fresh session in the place of one it cannot load.
HandleResume ==
  /\ Command("resume")
  /\ \/ sessions[Called] # 0 /\ UNCHANGED <<storeVars, entryVars, backendVars>>
     \/ /\ sessions[Called] = 0 /\ file[Called].n >= 0
        /\ BuildEntry(Called, file[Called], TRUE) /\ UNCHANGED file
     \/ /\ sessions[Called] = 0 /\ (file[Called].n < 0 \/ "file" \in Faulty)
        /\ BuildEntry(Called, EmptyFile, TRUE) /\ Bootstrap(Called)
  /\ Dequeue
  /\ Goto(Caller, "done")
  /\ UNCHANGED <<target, entry, iteration, result, snapshot, cancel_seen>>

\* RunTurnStreaming resets the flag, which turns before it may not have seen yet,
\* puts a fresh token in the shared map, and spawns the worker.
HandleTurn ==
  LET k == sessions[Called] IN
  /\ Command("turn")
  /\ Dequeue
  /\ IF k = 0
       THEN /\ Goto(Caller, "done")
            /\ result' = [result EXCEPT ![Caller] = "not_found"]
            /\ UNCHANGED <<entry, entryVars, cancel_seen>>
       ELSE /\ Goto(Caller, "spawned")
            /\ entry' = [entry EXCEPT ![Caller] = k]
            /\ cancel_flag' = [cancel_flag EXCEPT ![k] = FALSE]
            /\ shared_token' = [shared_token EXCEPT ![k] = @ + 1]
            /\ cancel_seen' = [t \in Turns |->
                    IF t \in Pending(k) /\ cancel_seen[t] = "yes" THEN "erased" ELSE cancel_seen[t]]
            /\ UNCHANGED <<result, lock, cancelled, memoryVars, step_index>>
  /\ UNCHANGED <<storeVars, backendVars, target, iteration, snapshot>>

HandleUsage ==
  LET k == sessions[Called] IN
  /\ Command("usage")
  /\ Dequeue
  /\ Goto(Caller, IF k = 0 THEN "usage_known" ELSE "spawned")
  /\ entry' = [entry EXCEPT ![Caller] = k]
  /\ UNCHANGED <<storeVars, entryVars, backendVars, target, iteration, result, snapshot,
                 cancel_seen>>

\* delete_session may fail. The memory backend keeps the checkpoints, the JSONL one
\* the record of a session that has a user.
DeleteRecord(s) ==
  LET others == {cp \in checkpoints : cp[1] # s}
  IN  \/ "record" \in Faulty /\ UNCHANGED <<meta, checkpoints>>
      \/ meta' = meta \ {s} /\ checkpoints' = others
      \/ backend # "sqlite" /\ meta' = meta \ {s} /\ UNCHANGED checkpoints
      \/ backend # "sqlite" /\ checkpoints' = others /\ UNCHANGED meta

HandleRemove ==
  LET s == Called IN
  /\ Command("remove")
  /\ Dequeue
  /\ sessions' = [sessions EXCEPT ![s] = 0]
  /\ shared' = [shared EXCEPT ![s] = 0]
  /\ active_count' = LiveCount(sessions')
  /\ DeleteRecord(s)
  /\ Goto(Caller, "removed")
  /\ UNCHANGED <<built, entryVars, backend, file, unsaved, target, entry, iteration, result,
                 snapshot, cancel_seen>>

-----------------------------------------------------------------------------
(* Tasks spawned by the actor *)

Holder(c) == entry[c] # 0 /\ lock[entry[c]] # <<>> /\ Head(lock[entry[c]]) = c

\* The first poll of a spawned task queues for the entry lock; tasks are first
\* polled in any order.
LockRequest(c) ==
  /\ stage[c] = "spawned"
  /\ lock' = [lock EXCEPT ![entry[c]] = Append(@, c)]
  /\ Goto(c, "waiting")
  /\ UNCHANGED <<cmd_q, storeVars, cancel_flag, shared_token, cancelled, memoryVars,
                 step_index, backendVars, target, entry, iteration, result, snapshot,
                 cancel_seen>>

\* get_usage reads the tracker under the lock.
ReadUsage(c) ==
  /\ stage[c] = "waiting" /\ Holder(c)
  /\ lock' = [lock EXCEPT ![entry[c]] = Tail(@)]
  /\ entry' = [entry EXCEPT ![c] = 0]
  /\ Goto(c, "usage_known")
  /\ UNCHANGED <<cmd_q, storeVars, cancel_flag, shared_token, cancelled, memoryVars,
                 step_index, backendVars, target, iteration, result, snapshot, cancel_seen>>

\* The file f of entry k after one more message, written whole if it was not there.
Extended(f, k) ==
  CASE ~persisted[k] \/ f = TornFile -> f
    [] persisted[k] /\ f = NoFile -> [n |-> messages[k] + 1, compacted |-> compacted[k]]
    [] OTHER -> [f EXCEPT !.n = @ + 1]

\* push_message: one more message in memory, of which fewer may be left in the end,
\* and in the file.
PushAndKeep(t, memory, summary) ==
  LET k == entry[t] s == target[t] IN
  /\ messages' = [messages EXCEPT ![k] = memory]
  /\ compacted' = [compacted EXCEPT ![k] = summary]
  /\ whole' = [whole EXCEPT ![k] = @ + 1]
  /\ file' = [file EXCEPT ![s] = Extended(@, k)]
  /\ UNCHANGED <<lock, cancel_flag, shared_token, cancelled, msg_count, step_index, persisted>>

PushMessage(t) == PushAndKeep(t, messages[entry[t]] + 1, compacted[entry[t]])

\* maybe_auto_compact: a summary and the preserved messages, one more where they
\* would begin with the result of a tool.
PushAndCompact(t) ==
  \E n \in {PreservedMessages + 1, PreservedMessages + 2} :
    n <= messages[entry[t]] + 1 /\ PushAndKeep(t, n, TRUE)

\* The message is taken back, part of it may be in the file: the turn fails.
PushFails(t) ==
  LET s == target[t] IN
  /\ persisted[entry[t]] /\ "file" \in Faulty
  /\ \/ UNCHANGED file
     \/ file[s] # NoFile /\ file' = [file EXCEPT ![s] = TornFile]
  /\ Goto(t, "finish")
  /\ result' = [result EXCEPT ![t] = "error"]
  /\ UNCHANGED <<entryVars, iteration>>

\* What a step of a turn leaves alone.
TurnKeeps ==
  UNCHANGED <<cmd_q, storeVars, backend, meta, checkpoints, unsaved, target, entry, snapshot>>

\* Mutant: the worker does not wait for the entry lock.
TurnBeginUnlocked(t) ==
  /\ stage[t] = "waiting"
  /\ \/ PushMessage(t) /\ Goto(t, "checking") /\ UNCHANGED <<iteration, result>>
     \/ PushFails(t)
  /\ TurnKeeps /\ UNCHANGED cancel_seen

\* run_turn probes a compacted session, which may fail, and pushes the user's
\* message ...
TurnBegin(t) ==
  /\ stage[t] = "waiting" /\ Holder(t)
  /\ \/ PushMessage(t) /\ Goto(t, "checking") /\ UNCHANGED <<iteration, result>>
     \/ PushFails(t)
     \/ /\ compacted[entry[t]]
        /\ Goto(t, "finish") /\ result' = [result EXCEPT ![t] = "error"]
        /\ UNCHANGED <<entryVars, file, iteration>>
  /\ TurnKeeps /\ UNCHANGED cancel_seen

\* What run_turn and the executor can see of a cancel.
CancelObserved(k) == cancel_flag[k] \/ OwnToken \in cancelled[k]

\* ... and loops: the iteration limit, then the cancel state, then the LLM.
TurnCheck(t) ==
  LET n == iteration[t] + 1 IN
  /\ stage[t] = "checking"
  /\ iteration' = [iteration EXCEPT ![t] = n]
  /\ \/ /\ n > MaxIterations
        /\ result' = [result EXCEPT ![t] = "max_iterations"]
        /\ Goto(t, "finish")
        /\ UNCHANGED cancel_seen
     \/ /\ n <= MaxIterations /\ CancelObserved(entry[t])
        /\ result' = [result EXCEPT ![t] = "cancelled"]
        /\ Goto(t, "finish")
        /\ UNCHANGED cancel_seen
     \/ /\ n <= MaxIterations /\ ~CancelObserved(entry[t])
        /\ Goto(t, "calling")
        /\ cancel_seen' = [cancel_seen EXCEPT ![t] = IF @ = "yes" THEN "ignored" ELSE @]
        /\ UNCHANGED result
  /\ TurnKeeps /\ UNCHANGED <<entryVars, file>>

\* The LLM fails, or the runtime panics and catch_unwind turns it into an error.
TurnFails(t) ==
  /\ stage[t] = "calling"
  /\ result' = [result EXCEPT ![t] = "error"]
  /\ Goto(t, "finish")
  /\ TurnKeeps /\ UNCHANGED <<entryVars, file, iteration, cancel_seen>>

\* The LLM answers with text only, which ends the turn, or asks for a tool.
TurnAnswered(t) ==
  /\ stage[t] = "calling"
  /\ \/ /\ PushMessage(t) \/ PushAndCompact(t)
        /\ Goto(t, "finish") /\ result' = [result EXCEPT ![t] = "ok"] /\ UNCHANGED iteration
     \/ PushMessage(t) /\ Goto(t, "tool") /\ UNCHANGED <<iteration, result>>
     \/ PushFails(t)
  /\ TurnKeeps /\ UNCHANGED cancel_seen

\* The result of a tool is pushed.
Returned(t) ==
  /\ \/ PushMessage(t) /\ Goto(t, "checking") /\ UNCHANGED <<iteration, result>>
     \/ PushFails(t)
  /\ TurnKeeps /\ UNCHANGED cancel_seen

\* A local tool runs to its end; so does a proxy call that sees a cancel before
\* it is dispatched.
ToolReturns(t) == stage[t] = "tool" /\ Returned(t)

\* ProxyToolExecutor::execute is past its fast path.
ProxyDispatch(t) ==
  /\ stage[t] = "tool"
  /\ ~CancelObserved(entry[t])
  /\ Goto(t, "proxy")
  /\ TurnKeeps /\ UNCHANGED <<entryVars, file, iteration, result, cancel_seen>>

ProxyReturn(t) == stage[t] = "proxy" /\ Returned(t)

\* select!: the token the executor was built with ...
ProxyCancelled(t) ==
  stage[t] = "proxy" /\ OwnToken \in cancelled[entry[t]] /\ ProxyReturn(t)

\* ... or the operator's answer, which only reaches sessions in the shared map ...
ProxyAnswered(t) ==
  stage[t] = "proxy" /\ shared[target[t]] = entry[t] /\ ProxyReturn(t)

\* ... or 30 minutes.
ProxyTimedOut(t) == ProxyReturn(t)

\* After run_turn: the checkpoint, named by the step index; a failure is logged, and
\* a checkpoint without a record does fail where the one refers to the other ...
SaveCheckpoint(t) ==
  LET k == entry[t] cp == <<target[t], step_index[k]>> IN
  /\ stage[t] = "finish"
  /\ step_index' = [step_index EXCEPT ![k] = @ + 1]
  /\ \/ /\ backend = "sqlite" => target[t] \in meta
        /\ checkpoints' = checkpoints \cup {cp} /\ UNCHANGED unsaved
     \/ /\ "checkpoint" \in Faulty \/ (backend = "sqlite" /\ target[t] \notin meta)
        /\ unsaved' = unsaved \cup {cp} /\ UNCHANGED checkpoints
  /\ Goto(t, "load_meta")
  /\ UNCHANGED <<cmd_q, storeVars, lock, cancel_flag, shared_token, cancelled, memoryVars,
                 backend, file, meta, target, entry, iteration, result, snapshot, cancel_seen>>

\* ... the record, read, if it is there and can be ...
LoadMeta(t) ==
  /\ stage[t] = "load_meta"
  /\ \/ target[t] \in meta /\ Goto(t, "save_meta")
     \/ (target[t] \notin meta \/ "record" \in Faulty) /\ Goto(t, "publish")
  /\ UNCHANGED <<cmd_q, storeVars, entryVars, backendVars, target, entry, iteration, result,
                 snapshot, cancel_seen>>

\* ... and written back ...
SaveMeta(t) ==
  /\ stage[t] = "save_meta"
  /\ SaveRecord(target[t])
  /\ Goto(t, "publish")
  /\ UNCHANGED <<cmd_q, storeVars, entryVars, backend, file, target, entry, iteration,
                 result, snapshot, cancel_seen>>

\* ... the message count for the lock-free readers ...
PublishCount(t) ==
  LET k == entry[t] IN
  /\ stage[t] = "publish"
  /\ msg_count' = [msg_count EXCEPT ![k] = messages[k]]
  /\ Goto(t, "unlock")
  /\ UNCHANGED <<cmd_q, storeVars, lock, cancel_flag, shared_token, cancelled, messages, persisted,
                 compacted, whole, step_index, backendVars, target, entry, iteration, result,
                 snapshot, cancel_seen>>

\* Mutant: a turn that failed keeps its guard.
UnlockIfOk(t) ==
  LET k == entry[t] IN
  /\ stage[t] = "unlock"
  /\ lock' = [lock EXCEPT ![k] = IF result[t] = "ok" THEN Tail(@) ELSE @]
  /\ Goto(t, "done")
  /\ iteration' = [iteration EXCEPT ![t] = 0]
  /\ UNCHANGED <<cmd_q, storeVars, cancel_flag, shared_token, cancelled, memoryVars,
                 step_index, backendVars, target, entry, result, snapshot, cancel_seen>>

\* ... and the lock is dropped before the reply is sent.
Unlock(t) ==
  LET k == entry[t] IN
  /\ stage[t] = "unlock"
  /\ lock' = [lock EXCEPT ![k] = Tail(@)]
  /\ Goto(t, "done")
  /\ iteration' = [iteration EXCEPT ![t] = 0]
  /\ UNCHANGED <<cmd_q, storeVars, cancel_flag, shared_token, cancelled, memoryVars,
                 step_index, backendVars, target, entry, result, snapshot, cancel_seen>>

-----------------------------------------------------------------------------
ClientStep ==
  \/ \E c \in Creators : SendCreate(c)
  \/ \E c \in Turns : SendCall(c, "turn")
  \/ \E c \in Resumers : SendCall(c, "resume")
  \/ \E c \in Closers \cup Cancellers : CancelLookup(c)

CancelStep(c) == CancelFlag(c) \/ CancelToken(c)

CloseStep(c) == SendUsage(c) \/ SendRemove(c) \/ DeleteFile(c)

Actor == HandleCreate \/ HandleResume \/ HandleTurn \/ HandleUsage \/ HandleRemove

\* What a worker does by itself.
Worker(t) ==
  \/ LockRequest(t) \/ TurnBegin(t) \/ TurnCheck(t) \/ TurnFails(t) \/ TurnAnswered(t)
  \/ ToolReturns(t) \/ ProxyDispatch(t) \/ ProxyCancelled(t)
  \/ SaveCheckpoint(t) \/ LoadMeta(t) \/ SaveMeta(t) \/ PublishCount(t) \/ Unlock(t)

Reader(c) == LockRequest(c) \/ ReadUsage(c)

Next ==
  \/ ClientStep
  \/ Actor
  \/ \E c \in Closers \cup Cancellers : CancelStep(c)
  \/ \E c \in Closers : CloseStep(c) \/ Reader(c)
  \/ \E t \in Turns : Worker(t) \/ ProxyAnswered(t) \/ ProxyTimedOut(t)

Spec == Init /\ [][Next]_vars

\* Tasks that are runnable are run: the actor, the workers, the readers and the
\* handlers.  Nothing is assumed of operators, of cancels or of new requests.
Fairness ==
  /\ WF_vars(Actor)
  /\ \A t \in Turns : WF_vars(Worker(t))
  /\ \A c \in Closers : WF_vars(CancelStep(c) \/ CloseStep(c) \/ Reader(c))
  /\ \A c \in Cancellers : WF_vars(CancelStep(c))

\* The wait for an operator may last for ever ...
NoTimerSpec == Spec /\ Fairness

\* ... or ends after 30 minutes.
FairSpec == Spec /\ Fairness /\ \A t \in Turns : WF_vars(ProxyTimedOut(t))

\* Turns are interchangeable to the model checker.
TurnSymmetry == Permutations(Turns)

-----------------------------------------------------------------------------
(* Properties *)

TypeOK ==
  /\ cmd_q \in Seq([op : {"create", "turn", "resume", "usage", "remove"}, by : Clients])
  /\ sessions \in [Sessions -> 0 .. MaxEntries]
  /\ shared \in [Sessions -> 0 .. MaxEntries]
  /\ built \in 0 .. MaxEntries
  /\ active_count \in Nat
  /\ lock \in [Entries -> Seq(Clients)]
  /\ cancel_flag \in [Entries -> BOOLEAN]
  /\ shared_token \in [Entries -> Nat]
  /\ cancelled \in [Entries -> SUBSET Nat]
  /\ messages \in [Entries -> Nat]
  /\ msg_count \in [Entries -> Nat]
  /\ step_index \in [Entries -> Nat]
  /\ persisted \in [Entries -> BOOLEAN]
  /\ compacted \in [Entries -> BOOLEAN]
  /\ whole \in [Entries -> Nat]
  /\ backend \in Backends
  /\ file \in [Sessions -> [n : Int, compacted : BOOLEAN]]
  /\ meta \subseteq Sessions
  /\ checkpoints \subseteq Sessions \X Nat
  /\ unsaved \subseteq Sessions \X Nat
  /\ stage \in [Clients -> Stages]
  /\ target \in [Clients -> Sessions \cup {NoTarget}]
  /\ entry \in [Clients -> 0 .. MaxEntries]
  /\ iteration \in [Turns -> 0 .. MaxIterations + 1]
  /\ result \in [Turns -> Results]
  /\ snapshot \in [Closers \cup Cancellers -> Nat]
  /\ cancel_seen \in [Turns -> {"no", "yes", "erased", "ignored"}]

\* "serializes against other turns for the same session via entry.lock()": two
\* turns never run on one entry, whatever order their tasks are first polled in.
TurnsAreSerial ==
  \A t, u \in Turns :
    stage[t] \in Running /\ stage[u] \in Running /\ entry[t] = entry[u] => t = u

\* The lock-free reader of live Resume sees the transcript as the last turn
\* left it: msg_count is stale only while a turn runs.
PublishedCountIsCurrent ==
  \A k \in Entries :
    (\A t \in Turns : stage[t] \in Running => entry[t] # k) => msg_count[k] = messages[k]

\* The actor's map, the cancel path's map and the health check's counter agree
\* on which sessions exist, and no two sessions share an entry.
MapsAgree ==
  /\ shared = sessions
  /\ active_count = LiveCount(sessions)
  /\ \A s, r \in Sessions : sessions[s] = sessions[r] /\ sessions[s] # 0 => s = r

NeverRemoved(s) == \A c \in Closers : target[c] = s => stage[c] \notin {"removed", "done"}

\* Until a session that has a file is first closed, every message it acknowledged
\* is in the file, unless a failed append has torn it: compacting the transcript in
\* memory takes nothing from the file. A file that could not be written at the start
\* is there with the first message.
TranscriptOnDisk ==
  \A s \in Sessions :
    LET k == sessions[s] IN
    NeverRemoved(s) /\ k # 0 =>
      /\ persisted[k] => \/ file[s].n = whole[k] \/ file[s] = TornFile
                         \/ file[s] = NoFile /\ whole[k] = 0
      /\ messages[k] <= whole[k]
      /\ messages[k] # whole[k] => compacted[k]

\* A turn is reported as cancelled only because a cancel_turn set the flag while it
\* was queued or at work and no later message erased that, or because the token its
\* runtime keeps for ever was cancelled: nothing is left of the cancels of earlier turns.
CancelledForAReason ==
  \A t \in Turns :
    result[t] = "cancelled" => cancel_seen[t] = "yes" \/ OwnToken \in cancelled[entry[t]]

\* A cancel_turn that sets the flag while a turn is queued or at work keeps it from
\* every further LLM call, unless a message for the session was queued after it,
\* which erases the cancel of the turns before it as well.
NoCancelIsIgnored == \A t \in Turns : cancel_seen[t] # "ignored"

\* The checkpoints that turns have taken, whether they are still there or not.
Taken == checkpoints \cup unsaved

\* Every finished turn of an entry took a step index, whatever its result, and until
\* a session is first closed each step 0 .. n-1 has its checkpoint, except those of
\* which the save failed or that a later save of the record dropped.
OneCheckpointPerTurn ==
  /\ \A k \in Entries :
       step_index[k] = Cardinality({t \in Turns :
         entry[t] = k /\ stage[t] \in {"load_meta", "save_meta", "publish", "unlock", "done"}})
  /\ \A s \in Sessions :
       NeverRemoved(s) /\ sessions[s] # 0
         => {cp[2] : cp \in {c \in Taken : c[1] = s}} = 0 .. step_index[sessions[s]] - 1

\* Every user message is answered: with a turn's result or with "not found".
EveryTurnIsAnswered == \A t \in Turns : stage[t] = "sent" ~> stage[t] = "done"

\* CloseSession returns, even when turns are queued or waiting for an operator.
CloseReturns == \A c \in Closers : stage[c] = "sent" ~> stage[c] = "done"

\* service.rs: the cancel path bypasses cmd_tx, "letting the runtime abort within
\* one poll tick".  A turn that waits for an operator when cancel_turn acts on its
\* entry leaves the wait.
CancelAbortsTheWait ==
  \A t \in Turns, c \in Closers \cup Cancellers :
    (stage[t] = "proxy" /\ stage[c] = "cancelling" /\ entry[c] = entry[t])
      ~> stage[t] # "proxy"

\* The session kernel keeps its books: turns are serial, the published message
\* count is that of an entry, the maps agree, the transcript is on disk, a turn is
\* cancelled only for a reason and never against an unerased cancel goes on, and
\* a turn has one checkpoint.
SessionManagerSound ==
  /\ TypeOK
  /\ TurnsAreSerial
  /\ PublishedCountIsCurrent
  /\ MapsAgree
  /\ TranscriptOnDisk
  /\ CancelledForAReason
  /\ NoCancelIsIgnored
  /\ OneCheckpointPerTurn

\* Nobody waits for ever on the session lock: every user message is answered
\* and CloseSession returns.
SessionsMakeProgress ==
  /\ EveryTurnIsAnswered
  /\ CloseReturns
=============================================================================
