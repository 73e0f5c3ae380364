------------------------------ MODULE ToolCalls ------------------------------
(***************************************************************************)
(* One tool call of a turn: the PreToolUse hooks (runtime/src/hooks.rs),    *)
(* which may rewrite its input, the permission policy (permissions.rs), the *)
(* executor of the CLI or of a sub-agent with its registry and enforcer     *)
(* (tools/src/lib.rs, permission_enforcer.rs), and the hooks after it.      *)
(* Ctrl-C raises the abort signal at any time.                              *)
(*                                                                         *)
(* An input is the subject a rule looks at: "in" lies in the workspace and  *)
(* is only read, "out" does not.                                            *)
(***************************************************************************)
EXTENDS Naturals, FiniteSets, TLC

CONSTANTS
  CalledTools,   \* the tools a model asks for
  RuledTools,    \* the tools permission rules are written for
  MaxHooks       \* bound on the commands configured for an event

ASSUME ToolCallAssumption == MaxHooks \in Nat

VARIABLES
  policy,        \* active mode, rules, is there a prompter, enforcer and --allowedTools
  hook_signal,   \* the abort signal
  tool_call,     \* the call and where it is
  hook_run       \* what the hooks of the current event have said so far

toolCallVars == <<policy, hook_signal, tool_call, hook_run>>

Subjects == {"in", "out"}
PermissionMode == {"read-only", "workspace-write", "danger-full-access"}
ModeRank(m) == CASE m = "read-only" -> 0 [] m = "workspace-write" -> 1 [] m = "danger-full-access" -> 2

RO == "read-only"
WW == "workspace-write"
DF == "danger-full-access"

\* The built-in tools and what each requires, in the order of the table.
FileAndWebSpecs ==
  [bash |-> DF, read_file |-> RO, write_file |-> WW, edit_file |-> WW, glob_search |-> RO,
   grep_search |-> RO, WebFetch |-> RO, WebSearch |-> RO]
AgentAndConfigSpecs ==
  [TodoWrite |-> WW, Skill |-> RO, Agent |-> DF, ToolSearch |-> RO, NotebookEdit |-> WW, Sleep |-> RO,
   SendUserMessage |-> RO, Config |-> WW]
PlanAndTaskSpecs ==
  [EnterPlanMode |-> WW, ExitPlanMode |-> WW, StructuredOutput |-> RO, REPL |-> DF, PowerShell |-> DF,
   AskUserQuestion |-> RO, TaskCreate |-> DF, RunTaskPacket |-> DF, TaskGet |-> RO, TaskList |-> RO]
TaskAndWorkerSpecs ==
  [TaskStop |-> DF, TaskUpdate |-> DF, TaskOutput |-> RO, WorkerCreate |-> DF, WorkerGet |-> RO,
   WorkerObserve |-> RO, WorkerResolveTrust |-> DF, WorkerAwaitReady |-> RO, WorkerSendPrompt |-> DF]
WorkerAndCronSpecs ==
  [WorkerRestart |-> DF, WorkerTerminate |-> DF, WorkerObserveCompletion |-> DF, TeamCreate |-> DF,
   TeamDelete |-> DF, CronCreate |-> DF, CronDelete |-> DF, CronList |-> RO, LSP |-> RO]
McpSpecs ==
  [ListMcpResources |-> RO, ReadMcpResource |-> RO, McpAuth |-> DF, RemoteTrigger |-> DF, MCP |-> DF,
   TestingPermission |-> DF]
mvp_tool_specs ==
  FileAndWebSpecs @@ AgentAndConfigSpecs @@ PlanAndTaskSpecs @@ TaskAndWorkerSpecs @@ WorkerAndCronSpecs @@ McpSpecs

\* An MCP tool requires what its annotations say.
permission_mode_for_mcp_tool(readOnly, destructive, openWorld) ==
  CASE readOnly /\ ~destructive /\ ~openWorld -> RO
    [] destructive \/ openWorld -> DF
    [] ~readOnly /\ ~destructive /\ ~openWorld -> WW
mcp_wrapper_tool_definitions == [MCPTool |-> DF, ListMcpResourcesTool |-> RO, ReadMcpResourceTool |-> RO]
RuntimeTools ==
  mcp_wrapper_tool_definitions @@ [mcp_reader |-> permission_mode_for_mcp_tool(TRUE, FALSE, FALSE),
                                   mcp_open |-> permission_mode_for_mcp_tool(TRUE, FALSE, TRUE)]
PluginTools == [plugin_tool |-> WW]
permission_specs == mvp_tool_specs @@ RuntimeTools @@ PluginTools

required_mode_for(tool) == IF tool \in DOMAIN permission_specs THEN permission_specs[tool] ELSE DF

\* A rule covers one tool, and every subject, one, or those with a prefix.
PermissionRules == [tool : RuledTools, subjects : {Subjects, {"out"}}]
SomeRules == {rs \in SUBSET PermissionRules : Cardinality(rs) <= 1}
find_matching_rule(rules, tool, input) == \E r \in rules : r.tool = tool /\ input \in r.subjects

\* What a tool that looks at its input requires of a sub-agent's mode.
path_within_current_workspace(input) == input = "in"
classify_file_path_permission(input) == IF path_within_current_workspace(input) THEN WW ELSE DF
classify_bash_permission(input) == IF input = "in" THEN WW ELSE DF
classify_powershell_permission(input) == IF path_within_current_workspace(input) THEN WW ELSE DF
classify_permission(tool, input) ==
  CASE tool = "bash" -> classify_bash_permission(input)
    [] tool = "PowerShell" -> classify_powershell_permission(input)
    [] tool \in {"read_file", "write_file", "edit_file", "glob_search", "grep_search"} -> classify_file_path_permission(input)
    [] OTHER -> RO

NoCall == [stage |-> "idle", tool |-> "none", input |-> "in", effective |-> "in", approved |-> FALSE,
           stopped |-> FALSE, ran |-> FALSE, error |-> FALSE]
HookRunAllow == [left |-> 0, polled |-> FALSE, denied |-> FALSE, failed |-> FALSE, cancelled |-> FALSE,
                 override |-> "none", updated |-> "none"]

ToolCallInit ==
  /\ policy \in [mode : PermissionMode, deny : SomeRules, ask : SomeRules, allow : SomeRules,
                 prompter : BOOLEAN, enforced : BOOLEAN, hooks : 0..MaxHooks]
  /\ {} \in {policy.deny, policy.ask, policy.allow}
  /\ hook_signal = FALSE
  /\ tool_call = NoCall
  /\ hook_run = HookRunAllow

-----------------------------------------------------------------------------
(* Hooks *)

\* The output a hook command can leave: JSON it means something by, or not.
ParsedHookOutput == [deny : BOOLEAN, override : {"none", "allow", "deny", "ask"}, updated : {"none"} \cup Subjects]

\* Of the outputs behind a tool only a refusal is looked at.
HookOutputs ==
  IF tool_call.stage = "pre" THEN ParsedHookOutput
  ELSE {p \in ParsedHookOutput : p.override = "none" /\ p.updated = "none"}

merge_parsed_hook_output(result, parsed) ==
  [result EXCEPT !.override = IF parsed.override # "none" THEN parsed.override ELSE @,
                 !.updated = IF parsed.updated # "none" THEN parsed.updated ELSE @]

ToolUse(tool, input) ==
  /\ tool_call.stage = "idle"
  /\ tool_call' = [NoCall EXCEPT !.stage = "pre", !.tool = tool, !.input = input, !.effective = input]
  /\ hook_run' = [HookRunAllow EXCEPT !.left = policy.hooks,
                    !.cancelled = policy.hooks > 0 /\ hook_signal]
  /\ UNCHANGED <<policy, hook_signal>>

HookIsRunning ==
  /\ tool_call.stage \in {"pre", "post"} /\ hook_run.left > 0
  /\ ~hook_run.cancelled /\ ~hook_run.denied /\ ~hook_run.failed

\* The loop around a command looks at the signal; only then at the command.
PollClear ==
  /\ HookIsRunning /\ ~hook_run.polled /\ ~hook_signal
  /\ hook_run' = [hook_run EXCEPT !.polled = TRUE]
  /\ UNCHANGED <<policy, hook_signal, tool_call>>

\* An aborted command is killed, and none follows it.
PollAborted ==
  /\ HookIsRunning /\ ~hook_run.polled /\ hook_signal
  /\ hook_run' = [hook_run EXCEPT !.cancelled = TRUE]
  /\ tool_call' = [tool_call EXCEPT !.stopped = @ \/ tool_call.stage = "pre"]
  /\ UNCHANGED <<policy, hook_signal>>

\* It has not exited: sleep, then look at the signal again.
StillRunning ==
  /\ HookIsRunning /\ hook_run.polled
  /\ hook_run' = [hook_run EXCEPT !.polled = FALSE]
  /\ UNCHANGED <<policy, hook_signal, tool_call>>

\* It has exited, and its output is read to the end without another look at the
\* signal: 0 allows unless its output blocks, 2 denies, the rest fails.
run_command(parsed, code) ==
  /\ HookIsRunning /\ hook_run.polled
  /\ LET merged == IF tool_call.stage = "pre" THEN merge_parsed_hook_output(hook_run, parsed) ELSE hook_run
     IN  hook_run' = [merged EXCEPT !.left = @ - 1, !.polled = FALSE,
                        !.denied = code = "2" \/ (code = "0" /\ parsed.deny), !.failed = code = "other"]
  /\ tool_call' = [tool_call EXCEPT !.stopped = @ \/ (tool_call.stage = "pre" /\ (code \in {"2", "other"} \/ parsed.deny))]
  /\ UNCHANGED <<policy, hook_signal>>

\* It did not start, or left before it had read its input.
HookDoesNotStart ==
  /\ HookIsRunning /\ ~hook_run.polled
  /\ hook_run' = [hook_run EXCEPT !.failed = TRUE]
  /\ tool_call' = [tool_call EXCEPT !.stopped = @ \/ tool_call.stage = "pre"]
  /\ UNCHANGED <<policy, hook_signal>>

\* A look at the signal is still to come before the hooks allow the call: another
\* command follows, or this one has not passed its look.
LookToCome == HookIsRunning /\ (hook_run.left > 1 \/ ~hook_run.polled)

AbortHooks ==
  /\ ~hook_signal /\ hook_signal' = TRUE
  /\ tool_call' = [tool_call EXCEPT !.stopped = @ \/ (tool_call.stage = "pre" /\ LookToCome)]
  /\ UNCHANGED <<policy, hook_run>>

-----------------------------------------------------------------------------
(* Permission *)

prompt_or_deny(yes) == IF policy.prompter /\ yes THEN "approved" ELSE "denied"

Granted(tool, input) ==
  \/ find_matching_rule(policy.allow, tool, input)
  \/ ModeRank(policy.mode) >= ModeRank(required_mode_for(tool))

\* Mutant: the deny rules look at the input the model gave, before the hooks.
denied_by_rule_original(tool, input) == find_matching_rule(policy.deny, tool, tool_call.input)

denied_by_rule(tool, input) == find_matching_rule(policy.deny, tool, input)

\* Deny rules, then the hooks' word, then ask rules, allow rules and the mode;
\* one step up from workspace-write may be granted by the user.
authorize_with_context(tool, input, override, yes) ==
  CASE denied_by_rule(tool, input) \/ override = "deny" -> "denied"
    [] ~denied_by_rule(tool, input) /\ override = "ask" -> prompt_or_deny(yes)
    [] OTHER ->
         CASE find_matching_rule(policy.ask, tool, input) -> prompt_or_deny(yes)
           [] ~find_matching_rule(policy.ask, tool, input) /\ Granted(tool, input) -> "allowed"
           [] OTHER -> IF policy.mode = WW /\ required_mode_for(tool) = DF THEN prompt_or_deny(yes) ELSE "denied"

EffectiveInput == IF hook_run.updated # "none" THEN hook_run.updated ELSE tool_call.input

Authorize(yes) ==
  /\ tool_call.stage = "pre" /\ ~HookIsRunning
  /\ LET outcome == IF hook_run.cancelled \/ hook_run.failed \/ hook_run.denied THEN "denied"
                    ELSE authorize_with_context(tool_call.tool, EffectiveInput, hook_run.override, yes)
     IN  tool_call' = [tool_call EXCEPT !.effective = EffectiveInput, !.approved = outcome = "approved",
                         !.stage = IF outcome = "denied" THEN "result" ELSE "execute",
                         !.error = outcome = "denied"]
  /\ hook_run' = HookRunAllow
  /\ UNCHANGED <<policy, hook_signal>>

-----------------------------------------------------------------------------
(* Execution *)

\* A sub-agent's enforcer looks at the mode once more.
check_with_required_mode(tool, input) ==
  policy.enforced => ModeRank(policy.mode) >= ModeRank(classify_permission(tool, input))

\* A tool that no registry knows, or that the enforcer refuses, is an error.
execute_tool(ok) ==
  /\ tool_call.stage = "execute"
  /\ LET runs == /\ tool_call.tool \in DOMAIN permission_specs
                 /\ check_with_required_mode(tool_call.tool, tool_call.effective)
     IN  tool_call' = [tool_call EXCEPT !.stage = "post", !.ran = runs, !.error = ~(runs /\ ok)]
  /\ hook_run' = [HookRunAllow EXCEPT !.left = policy.hooks, !.cancelled = policy.hooks > 0 /\ hook_signal]
  /\ UNCHANGED <<policy, hook_signal>>

\* The hooks after a tool only add to its errors.
PostHooksDone ==
  /\ tool_call.stage = "post" /\ ~HookIsRunning
  /\ tool_call' = [tool_call EXCEPT !.stage = "result",
                     !.error = @ \/ hook_run.denied \/ hook_run.failed \/ hook_run.cancelled]
  /\ hook_run' = HookRunAllow
  /\ UNCHANGED <<policy, hook_signal>>

\* (With another exit code than 0 it does not matter whether the output refuses.)
ToolCallNext ==
  \/ \E t \in CalledTools, i \in Subjects : ToolUse(t, i)
  \/ \E p \in HookOutputs, c \in {"0", "2", "other"} : (p.deny => c = "0") /\ run_command(p, c)
  \/ PollClear \/ PollAborted \/ StillRunning \/ HookDoesNotStart \/ AbortHooks
  \/ \E yes \in BOOLEAN : Authorize(yes)
  \/ \E ok \in BOOLEAN : execute_tool(ok)
  \/ PostHooksDone

-----------------------------------------------------------------------------
(* Properties *)

\* What ran is what was let through: no deny rule matches the input the tool
\* really ran with, also when hooks rewrote it after the model asked.
DeniedNeverRuns ==
  tool_call.ran => ~find_matching_rule(policy.deny, tool_call.tool, tool_call.effective)

\* Where an ask rule matches that input the user has said yes, whatever mode,
\* allow rule or hook would have let it pass.
AskRulesAsk ==
  (tool_call.ran /\ find_matching_rule(policy.ask, tool_call.tool, tool_call.effective)) => tool_call.approved

\* Nothing runs beyond the mode unless a rule allows it or the user did: the word
\* of a hook is not enough.
RunsWithinMode ==
  tool_call.ran => tool_call.approved \/ Granted(tool_call.tool, tool_call.effective)

\* One hook that blocks or fails ends the call, whatever the hooks before it and
\* after it say, and so does an abort that comes before the loop's last look at the
\* signal. (One that comes behind it, while the last hook exits or its output is
\* read, is not seen: the hook's word stands and the tool runs.)
HookStopsAreFinal == tool_call.stopped => ~tool_call.ran

\* A call that a rule denies never runs, one that a rule asks about is asked
\* about, what runs is within the mode or was granted, and a hook that blocks or
\* fails, or an abort its loop still looks for, stops a call for good.
ToolCallsSound ==
  /\ DeniedNeverRuns
  /\ AskRulesAsk
  /\ RunsWithinMode
  /\ HookStopsAreFinal

=============================================================================
