----------------------------- MODULE McpManager -----------------------------
(***************************************************************************)
(* McpServerManager (runtime/src/mcp_stdio.rs), which starts MCP servers as *)
(* child processes and talks JSON-RPC with them over pipes; its callers in  *)
(* the CLI (RuntimeMcpState) and in the tool bridge (mcp_tool_bridge.rs);   *)
(* and the server's side of the pipe (mcp_server.rs).                       *)
(*                                                                         *)
(* The manager does one operation at a time; an operation is a sequence of  *)
(* jobs, each for one server.  The servers run beside it: they answer late  *)
(* or never, answer something else, or die.                                 *)
(***************************************************************************)
EXTENDS Naturals, Sequences, FiniteSets, SequencesExt

CONSTANTS
  McpServers,    \* configured stdio servers
  RawTools,      \* names of tools as a server lists them
  Colliding,     \* raw names that normalise to one qualified name for all servers
  MaxMcpOps,     \* bound on the operations of the manager
  MaxMcpFaults   \* bound on deaths, timeouts and odd answers

\* Without a configured server the program makes no manager.
ASSUME McpAssumption == IsFiniteSet(McpServers) /\ McpServers # {}

VARIABLES
  mcp_process,   \* server -> its child process and pipes, or NoProcess
  initialized,   \* server -> has the handshake been made with that process
  mcp_alive,     \* numbers of the child processes that run
  tool_index,    \* qualified tool name -> server, raw name
  mcp_op,        \* the operation under way
  mcp_used,      \* process numbers, request ids, operations and faults so far
  last_listing,  \* history: what each server listed when it was last discovered
  mcp_report     \* the discovery report the session was built from

mcpVars == <<mcp_process, initialized, mcp_alive, tool_index, mcp_op, mcp_used, last_listing, mcp_report>>

NoProcess == [n |-> 0, inbox |-> <<>>, outbox |-> <<>>]
NoReport == [made |-> FALSE, working |-> {}, failed |-> {}, tools |-> {}]
IdleManager == [op |-> "idle", jobs |-> <<>>, step |-> "job", server |-> "none", method |-> "none",
                id |-> 0, attempts |-> 0, tries |-> 0, spawns |-> 0, calls |-> 0, found |-> {}]

\* The name the model sees; different servers may normalise to the same one.
mcp_tool_name(s, t) == IF t \in Colliding THEN <<"any", t>> ELSE <<s, t>>

is_retryable_error(e) == e \in {"Transport", "Timeout"}

should_reset_server(e) == e \in {"Transport", "Timeout", "InvalidResponse"}

\* What comes out of a pipe: a whole answer, a page of one, a JSON-RPC error, an
\* answer without a result, or anything else (a notification, another id).
AnswerKinds == {"ok", "more", "error", "empty", "odd"}

McpInit ==
  /\ mcp_process = [s \in McpServers |-> NoProcess]
  /\ initialized = [s \in McpServers |-> FALSE]
  /\ mcp_alive = {} /\ tool_index = <<>>
  /\ mcp_op = IdleManager
  /\ mcp_used = [procs |-> 0, ids |-> 0, ops |-> 0, faults |-> 0]
  /\ last_listing = [s \in McpServers |-> {}]
  /\ mcp_report = NoReport

\* One more fault, as far as they are allowed.
Fault == mcp_used.faults < MaxMcpFaults
FaultCount == mcp_used' = [mcp_used EXCEPT !.faults = @ + 1]

-----------------------------------------------------------------------------
(* Operations *)

server_names == SetToSeq(McpServers)
JobsFor(kind) == [i \in 1..Len(server_names) |-> [kind |-> kind, server |-> server_names[i], tool |-> <<>>]]
CallJob(q) == [kind |-> "tools/call", server |-> "none", tool |-> q]

QualifiedNames == {mcp_tool_name(s, t) : s \in McpServers, t \in RawTools}

Begin(op, jobs) ==
  /\ mcp_op.op = "idle" /\ mcp_used.ops < MaxMcpOps
  /\ mcp_op' = [IdleManager EXCEPT !.op = op, !.jobs = jobs]
  /\ mcp_used' = [mcp_used EXCEPT !.ops = @ + 1]
  /\ mcp_report' = IF op \in {"best_effort", "discover", "bridge"} THEN NoReport ELSE mcp_report
  /\ UNCHANGED <<mcp_process, initialized, mcp_alive, tool_index, last_listing>>

discover_tools == Begin("discover", JobsFor("tools/list"))
discover_tools_best_effort == Begin("best_effort", JobsFor("tools/list"))
call_tool(q) == Begin("call", <<CallJob(q)>>)
list_resources_for_all_servers == Begin("list_all", JobsFor("resources/list"))
read_resource(s) == Begin("read", <<[kind |-> "resources/read", server |-> s, tool |-> <<>>]>>)
\* The tool bridge discovers every server strictly, calls, and shuts all down.
spawn_tool_call(q) ==
  Begin("bridge", JobsFor("tools/list") \o <<CallJob(q), [kind |-> "shutdown", server |-> "none", tool |-> <<>>]>>)
shutdown_mcp == Begin("shutdown", <<[kind |-> "shutdown", server |-> "none", tool |-> <<>>]>>)

\* What is still done after a job failed.
JobsAfterFailure ==
  IF mcp_op.op \in {"best_effort", "list_all"} \/ (mcp_op.op = "bridge" /\ Head(mcp_op.jobs).kind = "tools/call")
  THEN Tail(mcp_op.jobs) ELSE <<>>

\* The next job, or the end of the operation.
Continue(jobs) ==
  mcp_op' = IF jobs = <<>> THEN IdleManager ELSE [IdleManager EXCEPT !.op = mcp_op.op, !.jobs = jobs]

clear_routes_for_server(index, s) ==
  LET stays == {q \in DOMAIN index : index[q].server # s} IN [q \in stays |-> index[q]]

InsertRoutes(index, s, tools) ==
  LET new == {mcp_tool_name(s, t) : t \in tools}
  IN  [q \in DOMAIN index \cup new |->
         IF q \in new THEN [server |-> s, raw |-> CHOOSE t \in tools : mcp_tool_name(s, t) = q] ELSE index[q]]

\* Mutant: a server that could not be listed keeps the routes it had.
JobFails_stale ==
  LET s == mcp_op.server IN
  /\ Continue(JobsAfterFailure)
  /\ IF mcp_op.op = "best_effort"
     THEN /\ last_listing' = [last_listing EXCEPT ![s] = {}]
          /\ mcp_report' = [mcp_report EXCEPT !.made = TRUE, !.failed = @ \cup {s}]
     ELSE UNCHANGED <<last_listing, mcp_report>>
  /\ UNCHANGED tool_index

\* The job failed for good; a best-effort discovery takes the routes away.
JobFails ==
  LET s == mcp_op.server IN
  /\ Continue(JobsAfterFailure)
  /\ IF mcp_op.op = "best_effort"
     THEN /\ tool_index' = clear_routes_for_server(tool_index, s)
          /\ last_listing' = [last_listing EXCEPT ![s] = {}]
          /\ mcp_report' = [mcp_report EXCEPT !.made = TRUE, !.failed = @ \cup {s}]
     ELSE UNCHANGED <<tool_index, last_listing, mcp_report>>

JobDone ==
  LET s == mcp_op.server IN
  /\ Continue(Tail(mcp_op.jobs))
  /\ IF mcp_op.method = "tools/list"
     THEN /\ tool_index' = InsertRoutes(clear_routes_for_server(tool_index, s), s, mcp_op.found)
          /\ last_listing' = [last_listing EXCEPT ![s] = mcp_op.found]
          /\ mcp_report' = IF mcp_op.op # "best_effort" THEN mcp_report
                           ELSE [mcp_report EXCEPT !.made = TRUE, !.working = @ \cup {s},
                                   !.tools = @ \cup {mcp_tool_name(s, t) : t \in mcp_op.found}]
     ELSE UNCHANGED <<tool_index, last_listing, mcp_report>>

\* A job starts: a call looks its route up first.
StartJob ==
  LET job == Head(mcp_op.jobs) IN
  /\ mcp_op.op # "idle" /\ mcp_op.step = "job" /\ job.kind # "shutdown"
  /\ IF job.kind = "tools/call" /\ job.tool \notin DOMAIN tool_index
     THEN Continue(JobsAfterFailure)
     ELSE mcp_op' = [mcp_op EXCEPT !.step = "ready", !.method = job.kind,
                       !.server = IF job.kind = "tools/call" THEN tool_index[job.tool].server ELSE job.server]
  /\ UNCHANGED <<mcp_process, initialized, mcp_alive, tool_index, mcp_used, last_listing, mcp_report>>

ShutdownJob ==
  /\ mcp_op.op # "idle" /\ mcp_op.step = "job" /\ Head(mcp_op.jobs).kind = "shutdown"
  /\ mcp_process' = [s \in McpServers |-> NoProcess]
  /\ initialized' = [s \in McpServers |-> FALSE]
  /\ mcp_alive' = mcp_alive \ {mcp_process[s].n : s \in McpServers}
  /\ Continue(Tail(mcp_op.jobs))
  /\ UNCHANGED <<tool_index, mcp_used, last_listing, mcp_report>>

\* The process is killed and waited for.
reset_server(s) ==
  /\ mcp_process' = [mcp_process EXCEPT ![s] = NoProcess]
  /\ initialized' = [initialized EXCEPT ![s] = FALSE]
  /\ mcp_alive' = mcp_alive \ {mcp_process[s].n}

-----------------------------------------------------------------------------
(* One request *)

\* A request is written to the pipe; nobody may read it any more.
request(s, procs, method) ==
  LET id == mcp_used.ids + 1
  IN  /\ mcp_process' = [procs EXCEPT ![s].inbox = Append(@, [id |-> id, method |-> method])]
      /\ mcp_op' = [mcp_op EXCEPT !.step = "wait", !.id = id, !.tries = IF method = "initialize" THEN @ ELSE 0,
                      !.spawns = IF procs[s].n # mcp_process[s].n THEN @ + 1 ELSE @,
                      !.calls = IF method = "tools/call" THEN @ + 1 ELSE @]

Exited(s) == mcp_process[s].n # 0 /\ mcp_process[s].n \notin mcp_alive

\* A process that exited is replaced, and the handshake made with a new one.
ensure_server_ready ==
  LET s == mcp_op.server
      spawn == mcp_process[s].n = 0 \/ Exited(s)
      procs == IF spawn THEN [mcp_process EXCEPT ![s] = [NoProcess EXCEPT !.n = mcp_used.procs + 1]] ELSE mcp_process
  IN  /\ mcp_op.step = "ready"
      /\ IF spawn \/ ~initialized[s]
         THEN /\ request(s, procs, "initialize")
              /\ initialized' = [initialized EXCEPT ![s] = FALSE]
              /\ mcp_alive' = IF spawn THEN mcp_alive \cup {mcp_used.procs + 1} ELSE mcp_alive
              /\ mcp_used' = [mcp_used EXCEPT !.ids = @ + 1, !.procs = IF spawn THEN @ + 1 ELSE @]
         ELSE /\ request(s, procs, mcp_op.method)
              /\ mcp_used' = [mcp_used EXCEPT !.ids = @ + 1]
              /\ UNCHANGED <<initialized, mcp_alive>>
      /\ UNCHANGED <<tool_index, last_listing, mcp_report>>

\* The child cannot be started: an Io error, which is not tried again.
SpawnFails ==
  /\ mcp_op.step = "ready" /\ Fault /\ FaultCount
  /\ mcp_process[mcp_op.server].n = 0 \/ Exited(mcp_op.server)
  /\ reset_server(mcp_op.server) /\ JobFails

Handshaking == mcp_op.step = "wait" /\ ~initialized[mcp_op.server]

\* A failed handshake is tried once more, and so is a failed job, handshake
\* included; a tool call is not.  A server whose pipe may be out of step is
\* killed.
RequestFails(e) ==
  LET s == mcp_op.server
      inner == Handshaking /\ mcp_op.tries = 0 /\ is_retryable_error(e)
      outer == ~inner /\ mcp_op.attempts = 0 /\ is_retryable_error(e) /\ mcp_op.method # "tools/call"
  IN  /\ IF should_reset_server(e) THEN reset_server(s) ELSE UNCHANGED <<mcp_process, initialized, mcp_alive>>
      /\ IF inner \/ outer
         THEN mcp_op' = [mcp_op EXCEPT !.step = "ready", !.found = {},
                           !.tries = IF inner THEN 1 ELSE 0, !.attempts = IF outer THEN 1 ELSE @]
              /\ UNCHANGED <<tool_index, last_listing, mcp_report>>
         ELSE JobFails

\* The head of the pipe is read as the answer, whatever it is.
read_response ==
  LET s == mcp_op.server
      answer == Head(mcp_process[s].outbox)
      taken == [mcp_process EXCEPT ![s].outbox = Tail(@)]
  IN  /\ mcp_op.step = "wait" /\ mcp_process[s].outbox # <<>>
      /\ CASE answer.kind = "odd" \/ answer.id # mcp_op.id -> RequestFails("InvalidResponse")
           [] answer.id = mcp_op.id /\ answer.kind = "empty" /\ (Handshaking \/ mcp_op.method # "tools/call") ->
                RequestFails("InvalidResponse")
           [] answer.id = mcp_op.id /\ answer.kind = "error" /\ (Handshaking \/ mcp_op.method # "tools/call") ->
                mcp_process' = taken /\ JobFails /\ UNCHANGED <<initialized, mcp_alive>>
           [] answer.id = mcp_op.id /\ answer.kind \in {"ok", "more"} /\ Handshaking ->
                /\ mcp_process' = taken
                /\ initialized' = [initialized EXCEPT ![s] = TRUE]
                /\ mcp_op' = [mcp_op EXCEPT !.step = "send"]
                /\ UNCHANGED <<mcp_alive, tool_index, last_listing, mcp_report>>
           [] answer.id = mcp_op.id /\ answer.kind = "more" /\ ~Handshaking /\ mcp_op.method # "tools/call" ->
                /\ mcp_process' = taken
                /\ mcp_op' = [mcp_op EXCEPT !.step = "send", !.found = @ \cup answer.tools]
                /\ UNCHANGED <<initialized, mcp_alive, tool_index, last_listing, mcp_report>>
           [] OTHER ->
                /\ mcp_process' = taken
                /\ mcp_op' = [mcp_op EXCEPT !.step = "done", !.found = @ \cup answer.tools]
                /\ UNCHANGED <<initialized, mcp_alive, tool_index, last_listing, mcp_report>>
      /\ UNCHANGED mcp_used

\* The request after the handshake, or for the next page, is sent without
\* looking at the process again.
next_request ==
  /\ mcp_op.step = "send"
  /\ request(mcp_op.server, mcp_process, mcp_op.method)
  /\ mcp_used' = [mcp_used EXCEPT !.ids = @ + 1]
  /\ UNCHANGED <<initialized, mcp_alive, tool_index, last_listing, mcp_report>>

FinishJob ==
  /\ mcp_op.step = "done" /\ JobDone
  /\ UNCHANGED <<mcp_process, initialized, mcp_alive, mcp_used>>

\* The answer did not come in time: it may be on its way.
RequestTimesOut ==
  /\ mcp_op.step = "wait" /\ Fault /\ FaultCount
  /\ RequestFails("Timeout")

\* The pipe is closed and holds no whole answer.
PipeCloses ==
  /\ mcp_op.step = "wait" /\ Exited(mcp_op.server) /\ mcp_process[mcp_op.server].outbox = <<>>
  /\ RequestFails("Transport")
  /\ UNCHANGED mcp_used

-----------------------------------------------------------------------------
(* The servers *)

ServerDies(s) ==
  /\ Fault /\ FaultCount
  /\ mcp_process[s].n \in mcp_alive /\ mcp_alive' = mcp_alive \ {mcp_process[s].n}
  /\ UNCHANGED <<mcp_process, initialized, tool_index, mcp_op, last_listing, mcp_report>>

\* The request at the head is answered under its own id; anything but a plain
\* answer is odd behaviour of that server.
McpServer_dispatch(s, kind, tools) ==
  LET asked == Head(mcp_process[s].inbox) IN
  /\ mcp_process[s].n \in mcp_alive /\ mcp_process[s].inbox # <<>>
  /\ IF kind = "ok" THEN UNCHANGED mcp_used ELSE Fault /\ FaultCount
  /\ asked.method # "tools/list" => tools = {}
  /\ mcp_process' = [mcp_process EXCEPT ![s].inbox = Tail(@),
                       ![s].outbox = Append(@, [id |-> asked.id, kind |-> kind, tools |-> tools])]
  /\ UNCHANGED <<initialized, mcp_alive, tool_index, mcp_op, last_listing, mcp_report>>

McpNext ==
  \/ discover_tools \/ discover_tools_best_effort \/ list_resources_for_all_servers \/ shutdown_mcp
  \/ \E q \in QualifiedNames : call_tool(q) \/ spawn_tool_call(q)
  \/ \E s \in McpServers : read_resource(s) \/ ServerDies(s)
  \/ StartJob \/ ShutdownJob \/ ensure_server_ready \/ SpawnFails \/ read_response \/ next_request
  \/ FinishJob \/ RequestTimesOut \/ PipeCloses
  \/ \E s \in McpServers, k \in AnswerKinds, ts \in SUBSET RawTools :
       McpServer_dispatch(s, k, ts)

-----------------------------------------------------------------------------
(* Properties *)

\* A child process the manager no longer knows has been killed: through
\* timeouts, deaths and retries none is left running on its own.
NoProcessEscapes == mcp_alive \subseteq {mcp_process[s].n : s \in McpServers}

\* A pipe that will be used again is in step: between requests, a process with
\* which the handshake is made owes no answer, so the answer to the next
\* request is the next thing read.
PipesInStep ==
  \A s \in McpServers :
     (initialized[s] /\ ~(mcp_op.step = "wait" /\ mcp_op.server = s)) =>
        mcp_process[s].inbox = <<>> /\ mcp_process[s].outbox = <<>>

\* A tool is routed to a server only while the last discovery of that server
\* listed it; a server that failed a best-effort discovery has no routes.
RoutesFollowListings ==
  \A q \in DOMAIN tool_index : tool_index[q].raw \in last_listing[tool_index[q].server]

\* Every tool of the report a session is built from has a route once the
\* discovery is over, whichever servers share names and whichever failed.
ReportedToolsAreRouted ==
  (mcp_op.op \notin {"best_effort", "discover", "bridge"} /\ mcp_report.made) =>
     mcp_report.tools \subseteq DOMAIN tool_index

\* Whatever a server does, one job starts its process at most four times: two
\* tries, with two handshakes each.
SpawnsAreBounded == mcp_op.spawns <= 4

\* A tool call reaches a server at most once: it may have had its effect when
\* the answer is lost.
CallsAreSentOnce == mcp_op.calls <= 1

\* The MCP manager keeps its servers in hand: no process escapes it, request
\* and answer stay in step on every pipe, tools are routed as the last listings
\* said, retries spawn a bounded number of processes, and a call is sent once.
McpManagerSound ==
  /\ NoProcessEscapes
  /\ PipesInStep
  /\ RoutesFollowListings
  /\ ReportedToolsAreRouted
  /\ SpawnsAreBounded
  /\ CallsAreSentOnce

=============================================================================
