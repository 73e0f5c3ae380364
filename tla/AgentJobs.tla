----------------------------- MODULE AgentJobs -----------------------------
(***************************************************************************)
(* Sub-agents of the Agent tool (tools/src/lib.rs): a manifest and an       *)
(* output file are written, a thread runs one turn of a runtime of its own  *)
(* and records how it ended: it appends to the output file, disables the    *)
(* cron entries that mention the agent (CronRegistry,                       *)
(* runtime/src/team_cron_registry.rs), and rewrites the manifest.  The      *)
(* steps are not atomic: other agents and the cron tools run in between,    *)
(* each write may fail, and the process may be killed.                      *)
(***************************************************************************)
EXTENDS Naturals, Sequences, FiniteSets, SequencesExt

CONSTANTS
  AgentIds,     \* agents that may be started
  CronIds,      \* cron ids; create() draws fresh ones
  AgentErrors,  \* errors a turn may end with: sets of ErrorWords
  AgentResults, \* final answers a turn may end with: sets of AnswerSigns
  MaxIoFaults   \* bound on the writes that fail

ASSUME AgentAssumption == MaxIoFaults \in Nat

VARIABLES
  agents,       \* the threads: phase, and what persist_agent_terminal_state has at hand
  manifests,    \* <agent>.json
  outputs,      \* <agent>.md: the statuses of the "## Result" sections appended
  crons,        \* CronInner::entries
  faults,       \* writes that failed so far
  killed        \* the process is gone

agentVars == <<agents, manifests, outputs, crons, faults, killed>>

NoManifest == [status |-> "None"]
NoCron == [state |-> "unused", enabled |-> FALSE, mentions |-> {}]
Cron(c) == crons[c].state = "entry"
Idle == [phase |-> "idle", status |-> "None", error |-> {}, result |-> {},
         todo |-> {}, disabled |-> {}]

-----------------------------------------------------------------------------
(* What is read out of an error and of a final answer *)

\* An error is the set of the words found in it that the classifiers look for.
Mentions(error, words) == error \cap words # {}

classify_lane_failure(error) ==
  LET order == <<"prompt_deliver", "trust", "stale_branch", "gateway", "compile", "test",
                 "tool_failed", "workspace_mismatch", "plugin", "mcp_handshake", "mcp">>
      class == <<"PromptDelivery", "TrustGate", "BranchDivergence", "GatewayRouting",
                 "Compile", "Test", "ToolRuntime", "WorkspaceMismatch", "PluginStartup",
                 "McpHandshake", "McpStartup">>
      found == {i \in 1..Len(order) : order[i] \in error}
  IN  IF found = {} THEN "Infra" ELSE class[CHOOSE i \in found : \A j \in found : i <= j]

derive_agent_state(status, result, error) ==
  CASE status = "running"   -> "working"
    [] status = "completed" -> IF "text" \in result THEN "finished_cleanable"
                               ELSE "finished_pending_report"
    [] OTHER -> CASE "background" \in error               -> "blocked_background_job"
                  [] "background" \notin error /\ "merge_conflict" \in error
                                                          -> "blocked_merge_conflict"
                  [] OTHER -> IF Mentions(error, {"mcp", "mcp_handshake"}) THEN "degraded_mcp"
                              ELSE IF "transport" \in error THEN "interrupted_transport"
                              ELSE "truly_idle"

\* A final answer is the set of what is found in it: any text at all ("text"), a
\* review verdict, talk of a recovery, nothing but control words, a word or sign
\* of context, the minimum length ("long").  A poor one is replaced by a sentence about the
\* lane.
assess_lane_summary_quality(r) ==
  {reason \in {"empty", "recovery_control_prose", "control_only", "too_short_without_context"} :
     CASE reason = "empty" -> "text" \notin r
       [] reason = "recovery_control_prose" -> "recovery" \in r
       [] reason = "control_only" -> "control_only" \in r /\ "review" \notin r
       [] OTHER -> r \cap {"long", "context", "review"} = {}}
quality_floor_applied(r) == assess_lane_summary_quality(r) # {}

-----------------------------------------------------------------------------
(* Starting an agent *)

Running(a) == [status |-> "running", derived |-> derive_agent_state("running", {}, {}),
               class |-> "None", floor |-> FALSE, disabled |-> {}]

AgentInit ==
  /\ agents = [a \in AgentIds |-> Idle]
  /\ manifests = [a \in AgentIds |-> NoManifest]
  /\ outputs = [a \in AgentIds |-> <<>>]
  /\ crons = [c \in CronIds |-> NoCron]
  /\ faults = 0
  /\ killed = FALSE

Fault == faults < MaxIoFaults /\ faults' = faults + 1
NoFault == UNCHANGED faults

\* The thread starts, or the caller records that it could not be started.
execute_agent(a, spawned) ==
  /\ agents[a].phase = "idle" /\ manifests[a] = NoManifest
  /\ manifests' = [manifests EXCEPT ![a] = Running(a)]
  /\ agents' = [agents EXCEPT ![a] =
                  IF spawned THEN [Idle EXCEPT !.phase = "turn"]
                  ELSE [Idle EXCEPT !.phase = "append", !.status = "failed"]]
  /\ UNCHANGED <<outputs, crons, faults, killed>>

\* run_turn returned a summary ...
agent_turn_ends(a, result) ==
  /\ agents[a].phase = "turn"
  /\ agents' = [agents EXCEPT ![a].phase = "append", ![a].status = "completed",
                              ![a].result = result]
  /\ UNCHANGED <<manifests, outputs, crons, faults, killed>>

\* ... or an error, or the thread panicked.
agent_turn_fails(a, error) ==
  /\ agents[a].phase = "turn"
  /\ agents' = [agents EXCEPT ![a].phase = "append", ![a].status = "failed",
                              ![a].error = error]
  /\ UNCHANGED <<manifests, outputs, crons, faults, killed>>

-----------------------------------------------------------------------------
(* persist_agent_terminal_state, step by step *)

\* An Err of the first attempt ("completed") makes the thread record a failure
\* from the manifest it was started with; an Err of that is dropped.
PersistFails(a) ==
  agents' = [agents EXCEPT ![a] =
               IF @.status = "completed"
               THEN [Idle EXCEPT !.phase = "append", !.status = "failed"]
               ELSE [@ EXCEPT !.phase = "done"]]

append_agent_output(a) ==
  /\ agents[a].phase = "append"
  /\ \/ /\ NoFault
        /\ outputs' = [outputs EXCEPT ![a] = Append(@, agents[a].status)]
        /\ agents' = [agents EXCEPT ![a].phase =
                        IF agents[a].status = "completed" THEN "list" ELSE "write"]
     \/ Fault /\ PersistFails(a) /\ UNCHANGED outputs
  /\ UNCHANGED <<manifests, crons, killed>>

\* CronRegistry::list(true), filtered by what mentions the agent.
cron_match(a) ==
  /\ agents[a].phase = "list"
  /\ agents' = [agents EXCEPT ![a].phase = "disable",
                  ![a].todo = {c \in CronIds : Cron(c) /\ crons[c].enabled
                                               /\ a \in crons[c].mentions}]
  /\ UNCHANGED <<manifests, outputs, crons, faults, killed>>

\* Mutant: an entry that was listed is waited for.
disable_matching_crons_all(a) ==
  /\ agents[a].phase = "disable"
  /\ \/ \E c \in agents[a].todo :
          /\ Cron(c)
          /\ agents' = [agents EXCEPT ![a].todo = @ \ {c}, ![a].disabled = @ \cup {c}]
          /\ crons' = [crons EXCEPT ![c].enabled = FALSE]
     \/ /\ agents[a].todo = {}
        /\ agents' = [agents EXCEPT ![a].phase = "write"]
        /\ UNCHANGED crons
  /\ UNCHANGED <<manifests, outputs, faults, killed>>

\* An entry deleted since it was listed is not reported.
disable_matching_crons(a) ==
  /\ agents[a].phase = "disable"
  /\ \/ \E c \in agents[a].todo :
          /\ agents' = [agents EXCEPT ![a].todo = @ \ {c},
                          ![a].disabled = IF Cron(c) THEN @ \cup {c} ELSE @]
          /\ crons' = IF Cron(c) THEN [crons EXCEPT ![c].enabled = FALSE] ELSE crons
     \/ /\ agents[a].todo = {}
        /\ agents' = [agents EXCEPT ![a].phase = "write"]
        /\ UNCHANGED crons
  /\ UNCHANGED <<manifests, outputs, faults, killed>>

TerminalManifest(p) ==
  [status |-> p.status, derived |-> derive_agent_state(p.status, p.result, p.error),
   class |-> IF p.status = "failed" THEN classify_lane_failure(p.error) ELSE "None",
   floor |-> p.status = "completed" /\ quality_floor_applied(p.result),
   disabled |-> p.disabled]

\* Mutant: the manifest is written again, without what was found out.
write_agent_manifest_twice(a) ==
  /\ agents[a].phase = "write"
  /\ manifests' = [manifests EXCEPT ![a] = TerminalManifest(agents[a])]
  /\ \/ NoFault /\ agents' = [agents EXCEPT ![a].phase = "done"]
     \/ Fault /\ agents' = [agents EXCEPT ![a].error = {}, ![a].result = {}]
  /\ UNCHANGED <<outputs, crons, killed>>

write_agent_manifest(a) ==
  /\ agents[a].phase = "write"
  /\ \/ /\ NoFault
        /\ manifests' = [manifests EXCEPT ![a] = TerminalManifest(agents[a])]
        /\ agents' = [agents EXCEPT ![a].phase = "done"]
     \/ Fault /\ PersistFails(a) /\ UNCHANGED manifests
  /\ UNCHANGED <<outputs, crons, killed>>

-----------------------------------------------------------------------------
(* CronRegistry *)

cron_create(c, mentions) ==
  /\ crons[c] = NoCron
  /\ crons' = [crons EXCEPT ![c] = [state |-> "entry", enabled |-> TRUE,
                                    mentions |-> mentions]]
  /\ UNCHANGED <<agents, manifests, outputs, faults, killed>>

\* Ids are not used again: the entry stays away.
cron_delete(c) ==
  /\ Cron(c)
  /\ crons' = [crons EXCEPT ![c] = [NoCron EXCEPT !.state = "deleted"]]
  /\ UNCHANGED <<agents, manifests, outputs, faults, killed>>

ProcessKilled == killed' = TRUE /\ UNCHANGED <<agents, manifests, outputs, crons, faults>>

AgentStep(a) ==
  /\ ~killed
  /\ \/ \E result \in AgentResults : agent_turn_ends(a, result)
     \/ \E error \in AgentErrors : agent_turn_fails(a, error)
     \/ append_agent_output(a) \/ cron_match(a) \/ disable_matching_crons(a)
     \/ write_agent_manifest(a)

AgentNext ==
  \/ \E a \in AgentIds : AgentStep(a)
  \/ /\ ~killed
     /\ \/ \E a \in AgentIds, spawned \in BOOLEAN : execute_agent(a, spawned)
        \/ \E c \in CronIds :
             cron_delete(c) \/ \E mentions \in SUBSET AgentIds : cron_create(c, mentions)
        \/ ProcessKilled

\* Threads are scheduled and a turn ends: it has an iteration limit and its
\* requests time out.
AgentFairness == \A a \in AgentIds : WF_agentVars(AgentStep(a))

-----------------------------------------------------------------------------
(* Properties *)

AgentTypeOK ==
  /\ \A a \in AgentIds :
       /\ agents[a].phase \in {"idle", "turn", "append", "list", "disable", "write", "done"}
       /\ manifests[a].status \in {"None", "running", "completed", "failed"}
       /\ agents[a].todo \subseteq CronIds /\ agents[a].disabled \subseteq CronIds
  /\ faults \in 0..MaxIoFaults

\* A manifest that says how the agent ended is backed by the output file: its
\* last section has the same status, also when an earlier attempt to record
\* another one failed half way.
ManifestBackedByOutput ==
  \A a \in AgentIds : manifests[a].status \in {"completed", "failed"} =>
    outputs[a] # <<>> /\ Last(outputs[a]) = manifests[a].status

\* A cron entry a manifest reports as disabled does not run any more, whoever
\* else touched it meanwhile.
ReportedCronsAreOff ==
  \A a \in AgentIds : manifests[a].status = "completed" =>
    \A c \in manifests[a].disabled : ~crons[c].enabled

\* The two readings of an error agree on the MCP server being the trouble.
McpFailureShowsAsDegraded ==
  \A a \in AgentIds : manifests[a].status = "failed" =>
    (manifests[a].class \in {"McpHandshake", "McpStartup"} =>
       manifests[a].derived \in {"degraded_mcp", "blocked_background_job",
                                 "blocked_merge_conflict"})

\* How an agent ended is recorded once.
EndIsRecordedOnce ==
  [][\A a \in AgentIds : manifests[a].status \in {"completed", "failed"} =>
       manifests'[a] = manifests[a]]_agentVars

\* Unless a write fails or the process is killed, every agent that was started
\* gets a manifest that says how it ended.
AgentsSettle ==
  \A a \in AgentIds :
    manifests[a].status = "running"
      ~> (manifests[a].status \in {"completed", "failed"} \/ faults > 0 \/ killed)

\* Sub-agents end in order: a manifest that tells an end has its output written,
\* crons reported as switched off are off, an MCP failure is told as degraded,
\* and the end of an agent is recorded once.
AgentJobsSound ==
  /\ []AgentTypeOK
  /\ []ManifestBackedByOutput
  /\ []ReportedCronsAreOff
  /\ []McpFailureShowsAsDegraded
  /\ EndIsRecordedOnce

=============================================================================
