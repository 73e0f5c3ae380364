----------------------------- MODULE ToolsProofs ------------------------------
(***************************************************************************)
(* Proofs about the tools, the stores and the registries behind them.  The  *)
(* components share no state, so an inductive invariant of one of them is   *)
(* one of PartSpec.                                                        *)
(***************************************************************************)
EXTENDS MCTools, FiniteSetTheorems, SequenceTheorems, WellFoundedInduction, TLAPS

-----------------------------------------------------------------------------
(* One tool call *)

Stages == {"idle", "pre", "execute", "post", "result"}
Overrides == {"none", "allow", "deny", "ask"}
Updates == {"none"} \cup Subjects

Calls == [stage : Stages, tool : CalledTools \cup {"none"}, input : Subjects, effective : Subjects,
          approved : BOOLEAN, stopped : BOOLEAN, ran : BOOLEAN, error : BOOLEAN]
HookRuns == [left : Int, polled : BOOLEAN, denied : BOOLEAN, failed : BOOLEAN, cancelled : BOOLEAN,
             override : Overrides, updated : Updates]

\* The policy let the call pass with the input it has now.
LetThrough(c) ==
  /\ ~find_matching_rule(policy.deny, c.tool, c.effective)
  /\ find_matching_rule(policy.ask, c.tool, c.effective) => c.approved
  /\ c.approved \/ Granted(c.tool, c.effective)

\* A hook has ended the call, or will when it is polled next.
StopIsKnown ==
  hook_run.denied \/ hook_run.failed \/ hook_run.cancelled \/ (hook_signal /\ LookToCome)

CallTypes ==
  /\ tool_call \in Calls /\ hook_run \in HookRuns /\ hook_signal \in BOOLEAN
  /\ policy.hooks \in Int

\* Nothing runs before it was let through, and what was stopped is not let through.
CallStages ==
  /\ tool_call.stage \in {"idle", "pre", "execute"} => ~tool_call.ran
  /\ tool_call.stage = "idle" => ~tool_call.stopped
  /\ tool_call.stage = "pre" /\ tool_call.stopped => StopIsKnown
  /\ tool_call.stage = "execute" \/ tool_call.ran => LetThrough(tool_call) /\ ~tool_call.stopped

CallIInv == CallTypes /\ CallStages

LEMMA ToolUseStep ==
  ASSUME CallIInv, NEW t \in CalledTools, NEW i \in Subjects, ToolUse(t, i) PROVE CallIInv'
<1>1. /\ tool_call.stage = "idle" /\ UNCHANGED <<policy, hook_signal>>
      /\ tool_call' = [NoCall EXCEPT !.stage = "pre", !.tool = t, !.input = i, !.effective = i]
      /\ hook_run' = [HookRunAllow EXCEPT !.left = policy.hooks,
                        !.cancelled = policy.hooks > 0 /\ hook_signal]
  BY DEF ToolUse
<1>2. tool_call' \in Calls /\ tool_call'.stage = "pre" /\ ~tool_call'.ran /\ ~tool_call'.stopped
  BY <1>1 DEF NoCall, Calls, Stages
<1>3. hook_run' \in HookRuns
  BY <1>1 DEF CallIInv, CallTypes, HookRunAllow, HookRuns, Overrides, Updates
<1> QED
  BY <1>1, <1>2, <1>3 DEF CallIInv, CallTypes, CallStages

LEMMA RunCommandStep ==
  ASSUME CallIInv, NEW h \in ParsedHookOutput,
         NEW c \in {"0", "2", "other"}, h.deny => c = "0", run_command(h, c)
  PROVE  CallIInv'
<1> DEFINE merged == IF tool_call.stage = "pre" THEN merge_parsed_hook_output(hook_run, h)
                     ELSE hook_run
           refused == c = "2" \/ (c = "0" /\ h.deny)
           failed == c = "other"
           stopped == tool_call.stopped
                        \/ (tool_call.stage = "pre" /\ (c \in {"2", "other"} \/ h.deny))
<1>1. /\ HookIsRunning /\ hook_run.polled
      /\ hook_run' = [merged EXCEPT !.left = @ - 1, !.polled = FALSE, !.denied = refused,
                        !.failed = failed]
      /\ tool_call' = [tool_call EXCEPT !.stopped = stopped]
      /\ UNCHANGED <<policy, hook_signal>>
  BY DEF run_command
<1>2. hook_run \in HookRuns /\ tool_call \in Calls /\ policy.hooks \in Int
  BY DEF CallIInv, CallTypes
<1>3. merged \in HookRuns /\ merged.left = hook_run.left /\ merged.cancelled = hook_run.cancelled
  BY <1>2 DEF merge_parsed_hook_output, HookRuns, ParsedHookOutput, Overrides, Updates
<1>4. refused \in BOOLEAN /\ failed \in BOOLEAN /\ stopped \in BOOLEAN
  BY <1>2 DEF Calls
<1>5. stopped => tool_call.stopped \/ (tool_call.stage = "pre" /\ (refused \/ failed))
  OBVIOUS
<1>6. tool_call.stage = "pre" /\ tool_call.stopped => hook_signal /\ hook_run.left > 1
  BY <1>1 DEF CallIInv, CallStages, StopIsKnown, LookToCome, HookIsRunning
<1> HIDE DEF merged, refused, failed, stopped
<1>7. /\ hook_run' \in HookRuns /\ hook_run'.denied = refused /\ hook_run'.failed = failed
      /\ hook_run'.left = hook_run.left - 1 /\ ~hook_run'.polled
      /\ hook_run'.cancelled = hook_run.cancelled
  <2> DEFINE one == [merged EXCEPT !.left = @ - 1, !.polled = FALSE]
             two == [one EXCEPT !.denied = refused]
  <2>1. /\ one \in HookRuns /\ one.left = hook_run.left - 1 /\ ~one.polled
        /\ one.cancelled = hook_run.cancelled
    <3> DEFINE zero == [merged EXCEPT !.left = @ - 1]
    <3>1. zero \in HookRuns /\ zero.left = hook_run.left - 1 /\ zero.cancelled = hook_run.cancelled
      BY <1>3 DEF HookRuns
    <3>2. one = [zero EXCEPT !.polled = FALSE]
      OBVIOUS
    <3> HIDE DEF zero, one
    <3> QED
      BY <3>1, <3>2 DEF HookRuns
  <2>2. hook_run' = [two EXCEPT !.failed = failed]
    BY <1>1
  <2> HIDE DEF one
  <2>3. /\ two \in HookRuns /\ two.denied = refused /\ two.left = one.left
        /\ two.polled = one.polled /\ two.cancelled = one.cancelled
    BY <1>4, <2>1 DEF HookRuns
  <2> HIDE DEF two
  <2> QED
    BY <1>4, <2>1, <2>2, <2>3 DEF HookRuns
<1>8. /\ tool_call' \in Calls /\ tool_call'.stage = tool_call.stage /\ tool_call'.ran = tool_call.ran
      /\ tool_call'.stopped = stopped /\ tool_call'.tool = tool_call.tool
      /\ tool_call'.effective = tool_call.effective /\ tool_call'.approved = tool_call.approved
  BY <1>1, <1>2, <1>4 DEF Calls
<1>9. tool_call.stage \in {"pre", "post"}
  BY <1>1 DEF HookIsRunning
<1>10. CallStages'
  <2>1. LetThrough(tool_call)' <=> LetThrough(tool_call)
    BY <1>1, <1>8 DEF LetThrough, Granted
  <2>2. tool_call.stage = "pre" /\ stopped => StopIsKnown'
    <3>1. CASE refused \/ failed
      BY <1>7, <3>1 DEF StopIsKnown
    <3>2. CASE ~refused /\ ~failed
      BY <1>1, <1>2, <1>5, <1>6, <1>7, <1>8, <3>2
         DEF StopIsKnown, LookToCome, HookIsRunning, HookRuns
    <3> QED
      BY <3>1, <3>2
  <2>3. tool_call.ran => LetThrough(tool_call) /\ ~tool_call.stopped /\ tool_call.stage # "pre"
    BY DEF CallIInv, CallStages
  <2> QED
    BY <1>5, <1>8, <1>9, <2>1, <2>2, <2>3 DEF CallStages
<1> QED
  BY <1>1, <1>2, <1>7, <1>8, <1>10 DEF CallIInv, CallTypes

\* The steps that leave the call as it is: the loop looks at the signal, or sleeps.
LEMMA LoopStep ==
  ASSUME CallIInv, PollClear \/ StillRunning PROVE CallIInv'
<1>1. /\ HookIsRunning /\ UNCHANGED <<policy, hook_signal, tool_call>>
      /\ \/ hook_run' = [hook_run EXCEPT !.polled = TRUE] /\ ~hook_signal /\ ~hook_run.polled
         \/ hook_run' = [hook_run EXCEPT !.polled = FALSE]
  BY DEF PollClear, StillRunning
<1>2. hook_run \in HookRuns /\ tool_call \in Calls /\ policy.hooks \in Int
  BY DEF CallIInv, CallTypes
<1>3. /\ hook_run' \in HookRuns /\ hook_run'.left = hook_run.left
      /\ hook_run'.denied = hook_run.denied /\ hook_run'.failed = hook_run.failed
      /\ hook_run'.cancelled = hook_run.cancelled /\ (hook_signal => ~hook_run'.polled)
  BY <1>1, <1>2 DEF HookRuns
<1>4. StopIsKnown => StopIsKnown'
  BY <1>1, <1>3 DEF StopIsKnown, LookToCome, HookIsRunning
<1>5. LetThrough(tool_call)' <=> LetThrough(tool_call)
  BY <1>1 DEF LetThrough, Granted
<1> QED
  BY <1>1, <1>2, <1>3, <1>4, <1>5 DEF CallIInv, CallTypes, CallStages

LEMMA AbortStep ==
  ASSUME CallIInv, PollAborted \/ HookDoesNotStart \/ AbortHooks PROVE CallIInv'
<1> DEFINE more == tool_call.stage = "pre" /\ (PollAborted \/ HookDoesNotStart \/ LookToCome)
           stopped == tool_call.stopped \/ more
<1>1. /\ tool_call' = [tool_call EXCEPT !.stopped = stopped] /\ policy' = policy
      /\ \/ /\ hook_signal' = hook_signal
            /\ \/ hook_run' = [hook_run EXCEPT !.cancelled = TRUE]
               \/ hook_run' = [hook_run EXCEPT !.failed = TRUE]
         \/ hook_signal' = TRUE /\ hook_run' = hook_run /\ (more => LookToCome)
  <2>1. CASE AbortHooks
    BY <2>1 DEF AbortHooks, PollAborted, HookDoesNotStart, LookToCome
  <2>2. CASE PollAborted
    BY <2>2 DEF PollAborted
  <2>3. CASE HookDoesNotStart
    BY <2>3 DEF HookDoesNotStart
  <2> QED
    BY <2>1, <2>2, <2>3
<1>2. hook_run \in HookRuns /\ tool_call \in Calls /\ policy.hooks \in Int
  BY DEF CallIInv, CallTypes
<1>3. stopped \in BOOLEAN
  BY <1>2 DEF Calls
<1> HIDE DEF stopped
<1>4. /\ tool_call' \in Calls /\ tool_call'.stage = tool_call.stage /\ tool_call'.ran = tool_call.ran
      /\ tool_call'.stopped = stopped /\ tool_call'.tool = tool_call.tool
      /\ tool_call'.effective = tool_call.effective /\ tool_call'.approved = tool_call.approved
  BY <1>1, <1>2, <1>3 DEF Calls
<1>5. hook_run' \in HookRuns /\ hook_signal' \in BOOLEAN
  BY <1>1, <1>2 DEF HookRuns, CallIInv, CallTypes
<1>6. stopped /\ tool_call.stage = "pre" => StopIsKnown'
  <2>1. CASE \/ hook_run' = [hook_run EXCEPT !.cancelled = TRUE]
             \/ hook_run' = [hook_run EXCEPT !.failed = TRUE]
    BY <1>2, <2>1 DEF StopIsKnown, HookRuns
  <2>2. CASE hook_signal' = TRUE /\ hook_run' = hook_run /\ (more => LookToCome)
    BY <1>4, <2>2 DEF stopped, StopIsKnown, LookToCome, HookIsRunning, CallIInv, CallStages
  <2> QED
    BY <1>1, <2>1, <2>2
<1>7. tool_call.stage # "pre" => stopped = tool_call.stopped
  BY <1>2 DEF stopped, Calls
<1>8. CallStages'
  <2>1. LetThrough(tool_call)' <=> LetThrough(tool_call)
    BY <1>1, <1>4 DEF LetThrough, Granted
  <2> QED
    BY <1>4, <1>6, <1>7, <2>1 DEF CallIInv, CallStages
<1> QED
  BY <1>1, <1>2, <1>4, <1>5, <1>8 DEF CallIInv, CallTypes

\* What the policy allows or the user approves was let through.
LEMMA AuthorizedIsLetThrough ==
  ASSUME NEW t, NEW i, NEW o, NEW yes \in BOOLEAN,
         authorize_with_context(t, i, o, yes) # "denied"
  PROVE  /\ ~find_matching_rule(policy.deny, t, i)
         /\ find_matching_rule(policy.ask, t, i) => authorize_with_context(t, i, o, yes) = "approved"
         /\ authorize_with_context(t, i, o, yes) = "approved" \/ Granted(t, i)
<1>1. prompt_or_deny(yes) \in {"approved", "denied"}
  BY DEF prompt_or_deny
<1> HIDE DEF prompt_or_deny, find_matching_rule, Granted, required_mode_for
<1> QED
  BY <1>1 DEF authorize_with_context, denied_by_rule

LEMMA AuthorizeStep ==
  ASSUME CallIInv, NEW yes \in BOOLEAN, Authorize(yes) PROVE CallIInv'
<1> DEFINE asked == authorize_with_context(tool_call.tool, EffectiveInput, hook_run.override, yes)
           outcome == IF hook_run.cancelled \/ hook_run.failed \/ hook_run.denied THEN "denied"
                      ELSE asked
<1>1. /\ tool_call.stage = "pre" /\ ~HookIsRunning /\ UNCHANGED <<policy, hook_signal>>
      /\ hook_run' = HookRunAllow
      /\ tool_call' = [tool_call EXCEPT
           !.effective = EffectiveInput, !.approved = outcome = "approved",
           !.stage = IF outcome = "denied" THEN "result" ELSE "execute",
           !.error = outcome = "denied"]
  BY DEF Authorize
<1>2. hook_run \in HookRuns /\ tool_call \in Calls /\ policy.hooks \in Int /\ hook_signal \in BOOLEAN
  BY DEF CallIInv, CallTypes
<1>3. EffectiveInput \in Subjects
  BY <1>2 DEF EffectiveInput, HookRuns, Updates, Calls
<1>4. tool_call.stopped => outcome = "denied"
  BY <1>1 DEF CallIInv, CallStages, StopIsKnown, LookToCome
<1>5. ASSUME outcome # "denied"
      PROVE  /\ ~find_matching_rule(policy.deny, tool_call.tool, EffectiveInput)
             /\ find_matching_rule(policy.ask, tool_call.tool, EffectiveInput) => outcome = "approved"
             /\ outcome = "approved" \/ Granted(tool_call.tool, EffectiveInput)
  <2>1. outcome = asked /\ asked # "denied"
    BY <1>5
  <2> QED
    BY <2>1, AuthorizedIsLetThrough, Zenon
<1> HIDE DEF asked, outcome
<1> DEFINE e == EffectiveInput
           a == outcome = "approved"
           s == IF outcome = "denied" THEN "result" ELSE "execute"
           f == outcome = "denied"
<1>6. e \in Subjects /\ a \in BOOLEAN /\ f \in BOOLEAN /\ s \in Stages
  BY <1>3 DEF Stages
<1>7. tool_call' = [tool_call EXCEPT !.effective = e, !.approved = a, !.stage = s, !.error = f]
  BY <1>1
<1> HIDE DEF e, a, s, f
<1>8. /\ tool_call' \in Calls /\ tool_call'.stage = s /\ tool_call'.ran = tool_call.ran
      /\ tool_call'.stopped = tool_call.stopped /\ tool_call'.tool = tool_call.tool
      /\ tool_call'.effective = e /\ tool_call'.approved = a
  BY <1>2, <1>6, <1>7 DEF Calls
<1>9. hook_run' \in HookRuns
  BY <1>1 DEF HookRunAllow, HookRuns, Overrides, Updates
<1>10. ~tool_call.ran
  BY <1>1 DEF CallIInv, CallStages
<1>11. CASE outcome = "denied"
  BY <1>1, <1>2, <1>8, <1>9, <1>10, <1>11 DEF s, CallIInv, CallTypes, CallStages
<1>12. CASE outcome # "denied"
  <2>1. LetThrough(tool_call)'
    <3>1. ~find_matching_rule(policy.deny, tool_call.tool, e)
      BY <1>5, <1>12 DEF e
    <3>2. find_matching_rule(policy.ask, tool_call.tool, e) => a
      BY <1>5, <1>12 DEF e, a
    <3>3. a \/ Granted(tool_call.tool, e)
      BY <1>5, <1>12 DEF e, a
    <3> QED
      BY <1>1, <1>8, <3>1, <3>2, <3>3 DEF LetThrough, Granted
  <2> QED
    BY <1>1, <1>2, <1>4, <1>8, <1>9, <1>10, <1>12, <2>1 DEF s, CallIInv, CallTypes, CallStages
<1> QED
  BY <1>11, <1>12

LEMMA ExecuteStep ==
  ASSUME CallIInv, NEW ok \in BOOLEAN, execute_tool(ok) PROVE CallIInv'
<1> DEFINE runs == /\ tool_call.tool \in DOMAIN permission_specs
                   /\ check_with_required_mode(tool_call.tool, tool_call.effective)
           error == ~(runs /\ ok)
<1>1. /\ tool_call.stage = "execute" /\ UNCHANGED <<policy, hook_signal>>
      /\ tool_call' = [tool_call EXCEPT !.stage = "post", !.ran = runs, !.error = error]
      /\ hook_run' = [HookRunAllow EXCEPT !.left = policy.hooks,
                        !.cancelled = policy.hooks > 0 /\ hook_signal]
  BY DEF execute_tool
<1>2. hook_run' \in HookRuns
  BY <1>1 DEF CallIInv, CallTypes, HookRunAllow, HookRuns, Overrides, Updates
<1>3. runs \in BOOLEAN /\ error \in BOOLEAN
  BY DEF check_with_required_mode
<1> HIDE DEF runs, error
<1>4. /\ tool_call' \in Calls /\ tool_call'.stage = "post" /\ tool_call'.ran = runs
      /\ tool_call'.stopped = tool_call.stopped /\ tool_call'.tool = tool_call.tool
      /\ tool_call'.effective = tool_call.effective /\ tool_call'.approved = tool_call.approved
  BY <1>1, <1>3 DEF Calls, Stages, CallIInv, CallTypes
<1>5. LetThrough(tool_call)' /\ ~tool_call'.stopped
  <2>1. LetThrough(tool_call) /\ ~tool_call.stopped
    BY <1>1 DEF CallIInv, CallStages
  <2> QED
    BY <1>1, <1>4, <2>1 DEF LetThrough, Granted
<1> QED
  BY <1>1, <1>2, <1>4, <1>5 DEF CallIInv, CallTypes, CallStages

LEMMA PostHooksStep ==
  ASSUME CallIInv, PostHooksDone \/ UNCHANGED toolCallVars PROVE CallIInv'
<1>1. CASE UNCHANGED toolCallVars
  BY <1>1 DEF toolCallVars, CallIInv, CallTypes, CallStages, StopIsKnown, LookToCome,
              HookIsRunning, LetThrough, Granted
<1>2. CASE PostHooksDone
  <2> DEFINE error == tool_call.error \/ hook_run.denied \/ hook_run.failed \/ hook_run.cancelled
  <2>1. /\ tool_call.stage = "post" /\ UNCHANGED <<policy, hook_signal>>
        /\ tool_call' = [tool_call EXCEPT !.stage = "result", !.error = error]
        /\ hook_run' = HookRunAllow
    BY <1>2 DEF PostHooksDone
  <2>2. hook_run' \in HookRuns
    BY <2>1 DEF HookRunAllow, HookRuns, Overrides, Updates
  <2>3. error \in BOOLEAN
    BY DEF CallIInv, CallTypes, Calls, HookRuns
  <2> HIDE DEF error
  <2>4. /\ tool_call' \in Calls /\ tool_call'.stage = "result" /\ tool_call'.ran = tool_call.ran
        /\ tool_call'.stopped = tool_call.stopped /\ tool_call'.tool = tool_call.tool
        /\ tool_call'.effective = tool_call.effective
        /\ tool_call'.approved = tool_call.approved
    BY <2>1, <2>3 DEF Calls, Stages, CallIInv, CallTypes
  <2>5. LetThrough(tool_call)' <=> LetThrough(tool_call)
    BY <2>1, <2>4 DEF LetThrough, Granted
  <2> QED
    BY <2>1, <2>2, <2>4, <2>5 DEF CallIInv, CallTypes, CallStages
<1> QED
  BY <1>1, <1>2

LEMMA ToolCallStart == ToolCallInit => CallIInv
<1> SUFFICES ASSUME ToolCallInit PROVE CallIInv
  OBVIOUS
<1>1. policy.hooks \in Int
  <2>1. policy \in [mode : PermissionMode, deny : SomeRules, ask : SomeRules, allow : SomeRules,
                    prompter : BOOLEAN, enforced : BOOLEAN, hooks : 0 .. MaxHooks]
    BY DEF ToolCallInit
  <2>2. policy.hooks \in 0 .. MaxHooks
    BY <2>1
  <2> QED
    BY <2>2, ToolCallAssumption
<1>2. tool_call \in Calls /\ hook_run \in HookRuns /\ hook_signal \in BOOLEAN
  <2>1. tool_call = NoCall /\ hook_run = HookRunAllow /\ hook_signal = FALSE
    BY DEF ToolCallInit
  <2>2. NoCall \in Calls
    BY DEF NoCall, Calls, Stages, Subjects
  <2>3. HookRunAllow \in HookRuns
    BY DEF HookRunAllow, HookRuns, Overrides, Updates
  <2> QED
    BY <2>1, <2>2, <2>3
<1>3. tool_call.stage = "idle" /\ ~tool_call.ran /\ ~tool_call.stopped
  BY DEF ToolCallInit, NoCall
<1> QED
  BY <1>1, <1>2, <1>3 DEF CallIInv, CallTypes, CallStages

\* One tool call (runtime/hooks.rs, permissions.rs, permission_enforcer.rs), for any set of
\* tools and rules, any number of hooks and a Ctrl-C at any time: what runs was matched by
\* no deny rule with the input it runs with, was approved where an ask rule matched, is
\* within the mode or was granted, and no hook had blocked it or failed before it, nor
\* had an abort come that the loop around the hooks still had to look for.
THEOREM DeniedCallsNeverRun == PartSpec => []ToolCallsChecked
<1>1. PartInit => CallIInv
  BY ToolCallStart DEF PartInit
<1>2. CallIInv /\ [PartNext]_partVars => CallIInv'
  <2> SUFFICES ASSUME CallIInv, [PartNext]_partVars PROVE CallIInv'
    OBVIOUS
  <2>1. ToolCallNext \/ UNCHANGED toolCallVars
    BY Zenon DEF PartNext, partVars
  <2>2. ASSUME NEW h \in HookOutputs, NEW c \in {"0", "2", "other"},
               h.deny => c = "0", run_command(h, c)
        PROVE  CallIInv'
    <3>1. h \in ParsedHookOutput
      BY <2>2 DEF HookOutputs
    <3> QED
      BY <2>2, <3>1, RunCommandStep
  <2> QED
    BY <2>1, <2>2, ToolUseStep, LoopStep, AbortStep, AuthorizeStep, ExecuteStep, PostHooksStep, Zenon
       DEF ToolCallNext
<1>3. CallIInv => ToolCallsChecked
  BY DEF CallIInv, CallStages, LetThrough, ToolCallsChecked, ToolCallsSound, DeniedNeverRuns,
         AskRulesAsk, RunsWithinMode, HookStopsAreFinal
<1> QED
  BY <1>1, <1>2, <1>3, PTL DEF PartSpec

-----------------------------------------------------------------------------
(* Approval tokens *)

AuditIsTold ==
  audit = NoAudit
    \/ (audit.token \in Tokens /\ (audit.delegated => audit.executing_actor \in ToSet(audit.chain)))

TokenIInv ==
  /\ grants \in [Tokens -> ApprovalTokenGrant \cup {NoGrant}]
  /\ now \in 0 .. MaxNow /\ spent \in [Tokens -> Nat]
  /\ NeverOverspent /\ AuditIsTold

\* The step of ConsumedOnlyWhileValid.
SpentWhileValid ==
  \A t \in Tokens : spent'[t] > spent[t] =>
    /\ grants[t].status = "Granted" /\ now <= grants[t].expires_at
    /\ audit'.scope = grants[t].scope
    /\ audit'.executing_actor = grants[t].approved_executor

LEMMA GrantFacts ==
  ASSUME NEW g \in ApprovalTokenGrant
  PROVE  /\ g # NoGrant /\ g.uses \in 0 .. MaxUses /\ g.max_uses \in 1 .. MaxUses
         /\ g.expires_at \in 0 .. Never /\ g.status \in ApprovalTokenStatus
         /\ g.approving_actor \in Actors /\ g.chain \in Seq(Actors)
<1>1. g.status # "None"
  BY DEF ApprovalTokenGrant, ApprovalTokenStatus
<1>2. g.chain \in Seq(Actors)
  <2>1. g.chain \in SeqOf(Actors, 1)
    BY DEF ApprovalTokenGrant
  <2>2. PICK m \in 0 .. 1 : g.chain \in [1 .. m -> Actors]
    BY <2>1 DEF SeqOf
  <2>3. m \in Nat /\ Seq(Actors) = UNION {[1 .. n -> Actors] : n \in Nat}
    BY SeqDef
  <2> QED
    BY <2>2, <2>3, Zenon
<1> QED
  BY <1>1, <1>2 DEF ApprovalTokenGrant, NoGrant

\* An audit record names its executor in the chain whenever the action was delegated.
LEMMA AuditNamesExecutor ==
  ASSUME NEW t \in Tokens, NEW g \in ApprovalTokenGrant, NEW a \in Actors
  PROVE  LET r == audit_for(t, g, a)
         IN  /\ r.token = t /\ r.scope = g.scope /\ r.executing_actor = a
             /\ r.delegated => r.executing_actor \in ToSet(r.chain)
<1> DEFINE begun == IF g.chain = <<>> THEN <<g.approving_actor>> ELSE g.chain
           r == audit_for(t, g, a)
<1>1. begun \in Seq(Actors)
  BY GrantFacts
<1>2. /\ r.token = t /\ r.scope = g.scope /\ r.executing_actor = a
      /\ r.delegated = (g.approving_actor # a)
      /\ r.chain = IF g.approving_actor # a /\ a \notin ToSet(begun) THEN Append(begun, a) ELSE begun
  BY DEF audit_for
<1> HIDE DEF begun, r
<1>3. a \in ToSet(Append(begun, a))
  <2> DEFINE s == Append(begun, a)
  <2>1. s \in Seq(Actors) /\ Len(s) \in 1 .. Len(s) /\ s[Len(s)] = a
    BY <1>1
  <2> HIDE DEF s
  <2>2. a \in ToSet(s)
    BY <2>1 DEF ToSet
  <2> QED
    BY <2>2 DEF s
<1>4. r.delegated => r.executing_actor \in ToSet(r.chain)
  BY <1>2, <1>3
<1> QED
  BY <1>2, <1>4 DEF r

LEMMA TokenStart == TokenInit => TokenIInv
BY TokenAssumption DEF TokenInit, TokenIInv, NeverOverspent, AuditIsTold

LEMMA InsertStep ==
  ASSUME TokenIInv, NEW t \in Tokens, NEW g \in BuiltGrants, token_insert(t, g)
  PROVE  TokenIInv' /\ SpentWhileValid
<1>1. /\ grants' = [grants EXCEPT ![t] = g] /\ spent' = [spent EXCEPT ![t] = 0]
      /\ audit' = NoAudit /\ now' = now
  BY DEF token_insert
<1>2. /\ grants \in [Tokens -> ApprovalTokenGrant \cup {NoGrant}] /\ spent \in [Tokens -> Nat]
      /\ NeverOverspent /\ now \in 0 .. MaxNow
  BY DEF TokenIInv
<1>3. g \in ApprovalTokenGrant /\ g.uses = 0 /\ g.max_uses \in 1 .. MaxUses
  BY TokenAssumption DEF BuiltGrants, ApprovalTokenGrant, ApprovalTokenStatus, Never
<1>4. grants' \in [Tokens -> ApprovalTokenGrant \cup {NoGrant}] /\ spent' \in [Tokens -> Nat]
  BY <1>1, <1>2, <1>3
<1>5. NeverOverspent'
  <2> SUFFICES ASSUME NEW u \in Tokens, grants'[u] # NoGrant
               PROVE  /\ spent'[u] = grants'[u].uses /\ spent'[u] <= grants'[u].max_uses
                      /\ spent'[u] = grants'[u].max_uses =>
                           grants'[u].status \in {"Consumed", "Revoked"}
    BY DEF NeverOverspent
  <2>1. CASE u = t
    <3>1. grants'[u] = g /\ spent'[u] = 0
      BY <1>1, <1>2, <2>1
    <3> QED
      BY <1>3, <3>1
  <2>2. CASE u # t
    BY <1>1, <1>2, <2>2 DEF NeverOverspent
  <2> QED
    BY <2>1, <2>2
<1>6. SpentWhileValid
  <2>1. \A u \in Tokens : spent[u] \in Nat /\ spent'[u] \in {0, spent[u]}
    BY <1>1, <1>2
  <2>2. \A u \in Tokens : ~(spent'[u] > spent[u])
    BY <2>1
  <2> QED
    BY <2>2 DEF SpentWhileValid
<1> QED
  BY <1>1, <1>2, <1>4, <1>5, <1>6 DEF TokenIInv, AuditIsTold

LEMMA RevokeStep ==
  ASSUME TokenIInv, NEW t \in Tokens, token_revoke(t)
  PROVE  TokenIInv' /\ SpentWhileValid
<1>1. /\ grants[t] # NoGrant /\ grants' = [grants EXCEPT ![t].status = "Revoked"]
      /\ audit' = audit_for(t, grants'[t], grants[t].approved_executor)
      /\ UNCHANGED <<now, spent>>
  BY DEF token_revoke
<1>2. /\ grants \in [Tokens -> ApprovalTokenGrant \cup {NoGrant}] /\ spent \in [Tokens -> Nat]
      /\ NeverOverspent /\ now \in 0 .. MaxNow
  BY DEF TokenIInv
<1>3. PICK g \in ApprovalTokenGrant : g = [grants[t] EXCEPT !.status = "Revoked"]
  BY <1>1, <1>2 DEF ApprovalTokenGrant, ApprovalTokenStatus
<1>4. /\ g.uses = grants[t].uses /\ g.max_uses = grants[t].max_uses /\ g.status = "Revoked"
      /\ grants[t].approved_executor \in Actors
  BY <1>1, <1>2, <1>3 DEF ApprovalTokenGrant
<1>5. /\ grants'[t] = g /\ \A u \in Tokens : u # t => grants'[u] = grants[u]
      /\ grants' \in [Tokens -> ApprovalTokenGrant \cup {NoGrant}]
  BY <1>1, <1>2, <1>3
<1>6. NeverOverspent'
  <2> SUFFICES ASSUME NEW u \in Tokens, grants'[u] # NoGrant
               PROVE  /\ spent'[u] = grants'[u].uses /\ spent'[u] <= grants'[u].max_uses
                      /\ spent'[u] = grants'[u].max_uses =>
                           grants'[u].status \in {"Consumed", "Revoked"}
    BY DEF NeverOverspent
  <2>1. CASE u = t
    BY <1>1, <1>2, <1>4, <1>5, <2>1 DEF NeverOverspent
  <2>2. CASE u # t
    BY <1>1, <1>2, <1>5, <2>2 DEF NeverOverspent
  <2> QED
    BY <2>1, <2>2
<1>7. AuditIsTold'
  <2>1. audit' = audit_for(t, g, grants[t].approved_executor)
    BY <1>1, <1>5
  <2> QED
    BY <1>4, <2>1, AuditNamesExecutor DEF AuditIsTold
<1>8. SpentWhileValid
  <2>1. \A u \in Tokens : spent[u] \in Nat /\ spent'[u] = spent[u]
    BY <1>1, <1>2
  <2>2. \A u \in Tokens : ~(spent'[u] > spent[u])
    BY <2>1
  <2> QED
    BY <2>2 DEF SpentWhileValid
<1> QED
  BY <1>1, <1>2, <1>5, <1>6, <1>7, <1>8 DEF TokenIInv

LEMMA VerifyStep ==
  ASSUME TokenIInv, NEW t \in Tokens, NEW scope \in Scopes, NEW actor \in Actors,
         token_verify(t, scope, actor)
  PROVE  TokenIInv' /\ SpentWhileValid
<1>1. /\ UNCHANGED <<grants, now, spent>> /\ audit' = audit_for(t, grants[t], actor)
      /\ grants[t] \in ApprovalTokenGrant /\ spent \in [Tokens -> Nat]
  BY DEF token_verify, TokenIInv
<1>2. AuditIsTold'
  BY <1>1, AuditNamesExecutor DEF AuditIsTold
<1>3. SpentWhileValid
  <2>1. \A u \in Tokens : spent[u] \in Nat /\ spent'[u] = spent[u]
    BY <1>1
  <2>2. \A u \in Tokens : ~(spent'[u] > spent[u])
    BY <2>1
  <2> QED
    BY <2>2 DEF SpentWhileValid
<1> QED
  BY <1>1, <1>2, <1>3 DEF TokenIInv, NeverOverspent

LEMMA ValidMeansGranted ==
  ASSUME NEW g \in ApprovalTokenGrant, NEW scope, NEW actor, now \in 0 .. MaxNow,
         validate_grant(g, scope, actor, now) = "Ok"
  PROVE  /\ g.status = "Granted" /\ now <= g.expires_at /\ g.uses < g.max_uses
         /\ g.scope = scope /\ g.approved_executor = actor
<1>1. g.status = "Granted"
  BY DEF validate_grant, ApprovalTokenGrant, ApprovalTokenStatus
<1>2. ~(now > g.expires_at) /\ ~(g.uses >= g.max_uses) /\ g.scope = scope
        /\ g.approved_executor = actor
  BY <1>1 DEF validate_grant
<1>3. /\ g.expires_at \in 0 .. Never /\ g.uses \in 0 .. MaxUses /\ g.max_uses \in 1 .. MaxUses
      /\ now \in Nat
  BY GrantFacts
<1> QED
  BY <1>1, <1>2, <1>3

LEMMA ConsumeStep ==
  ASSUME TokenIInv, NEW t \in Tokens, NEW scope \in Scopes, NEW actor \in Actors,
         token_consume(t, scope, actor)
  PROVE  TokenIInv' /\ SpentWhileValid
<1> DEFINE uses == grants[t].uses + 1
           status == IF uses >= grants[t].max_uses THEN "Consumed" ELSE grants[t].status
<1>1. /\ grants[t] # NoGrant /\ validate_grant(grants[t], scope, actor, now) = "Ok"
      /\ grants' = [grants EXCEPT ![t].uses = uses, ![t].status = status]
      /\ spent' = [spent EXCEPT ![t] = @ + 1] /\ now' = now
      /\ audit' = audit_for(t, grants'[t], actor)
  BY DEF token_consume
<1>2. /\ grants \in [Tokens -> ApprovalTokenGrant \cup {NoGrant}] /\ spent \in [Tokens -> Nat]
      /\ NeverOverspent /\ now \in 0 .. MaxNow
  BY DEF TokenIInv
<1>3. grants[t] \in ApprovalTokenGrant
  BY <1>1, <1>2
<1>4. /\ grants[t].status = "Granted" /\ now <= grants[t].expires_at
      /\ grants[t].uses < grants[t].max_uses /\ grants[t].scope = scope
      /\ grants[t].approved_executor = actor
  BY <1>1, <1>2, <1>3, ValidMeansGranted
<1>5. /\ grants[t].uses \in 0 .. MaxUses /\ grants[t].max_uses \in 1 .. MaxUses
      /\ spent[t] = grants[t].uses /\ spent[t] \in Nat
  BY <1>1, <1>2, <1>3, GrantFacts DEF NeverOverspent
<1>6. /\ uses \in 0 .. MaxUses /\ uses <= grants[t].max_uses
      /\ status \in ApprovalTokenStatus /\ (uses = grants[t].max_uses => status = "Consumed")
  BY <1>4, <1>5, TokenAssumption DEF ApprovalTokenStatus
<1>7. uses = spent[t] + 1
  BY <1>5
<1> HIDE DEF uses, status
<1>8. PICK one \in ApprovalTokenGrant : one = [grants[t] EXCEPT !.uses = uses]
  BY <1>3, <1>6 DEF ApprovalTokenGrant
<1>9. one.uses = uses /\ one.max_uses = grants[t].max_uses /\ one.scope = grants[t].scope
  BY <1>3, <1>8 DEF ApprovalTokenGrant
<1>10. PICK g \in ApprovalTokenGrant : g = [one EXCEPT !.status = status]
  BY <1>6 DEF ApprovalTokenGrant
<1>11. /\ g.uses = uses /\ g.max_uses = grants[t].max_uses /\ g.scope = grants[t].scope
       /\ g.status = status
  BY <1>9, <1>10 DEF ApprovalTokenGrant
<1>12. grants' = [grants EXCEPT ![t] = g]
  <2> DEFINE first == [grants EXCEPT ![t].uses = uses]
  <2>1. grants' = [first EXCEPT ![t].status = status]
    BY <1>1
  <2>2. first = [grants EXCEPT ![t] = one]
    BY <1>8
  <2> HIDE DEF first
  <2>3. first[t] = one
    BY <1>2, <2>2
  <2>4. grants' = [first EXCEPT ![t] = g]
    BY <1>10, <2>1, <2>3
  <2> QED
    BY <1>2, <2>2, <2>4
<1>13. /\ grants'[t] = g /\ \A u \in Tokens : u # t => grants'[u] = grants[u]
       /\ grants' \in [Tokens -> ApprovalTokenGrant \cup {NoGrant}]
       /\ spent' \in [Tokens -> Nat] /\ spent'[t] = uses
       /\ \A u \in Tokens : u # t => spent'[u] = spent[u]
  <2>1. /\ grants'[t] = g /\ \A u \in Tokens : u # t => grants'[u] = grants[u]
        /\ grants' \in [Tokens -> ApprovalTokenGrant \cup {NoGrant}]
    BY <1>2, <1>12
  <2>2. spent' = [spent EXCEPT ![t] = uses] /\ uses \in Nat
    BY <1>1, <1>5, <1>7
  <2>3. /\ spent' \in [Tokens -> Nat] /\ spent'[t] = uses
        /\ \A u \in Tokens : u # t => spent'[u] = spent[u]
    BY <1>2, <2>2
  <2> QED
    BY <2>1, <2>3
<1>14. NeverOverspent'
  <2> SUFFICES ASSUME NEW u \in Tokens, grants'[u] # NoGrant
               PROVE  /\ spent'[u] = grants'[u].uses /\ spent'[u] <= grants'[u].max_uses
                      /\ spent'[u] = grants'[u].max_uses =>
                           grants'[u].status \in {"Consumed", "Revoked"}
    BY DEF NeverOverspent
  <2>1. CASE u = t
    BY <1>6, <1>11, <1>13, <2>1
  <2>2. CASE u # t
    BY <1>2, <1>13, <2>2 DEF NeverOverspent
  <2> QED
    BY <2>1, <2>2
<1>15. audit' = audit_for(t, g, actor)
  BY <1>1, <1>13
<1>16. /\ AuditIsTold' /\ audit'.scope = grants[t].scope /\ audit'.executing_actor = actor
  BY <1>11, <1>15, AuditNamesExecutor DEF AuditIsTold
<1>17. SpentWhileValid
  <2> SUFFICES ASSUME NEW u \in Tokens, spent'[u] > spent[u]
               PROVE  /\ grants[u].status = "Granted" /\ now <= grants[u].expires_at
                      /\ audit'.scope = grants[u].scope
                      /\ audit'.executing_actor = grants[u].approved_executor
    BY DEF SpentWhileValid
  <2>1. u = t
    <3>1. spent[u] \in Nat
      BY <1>2
    <3> QED
      BY <1>13, <3>1
  <2> QED
    BY <1>4, <1>16, <2>1
<1> QED
  BY <1>1, <1>2, <1>13, <1>14, <1>16, <1>17 DEF TokenIInv

LEMMA TokenTickStep ==
  ASSUME TokenIInv, TokenTick \/ UNCHANGED tokenVars PROVE TokenIInv' /\ [SpentWhileValid]_tokenVars
<1>1. /\ UNCHANGED <<grants, spent, audit>> /\ now' \in {now, now + 1}
      /\ now' = now + 1 => now < MaxNow
  BY DEF TokenTick, tokenVars, TokenIInv
<1>2. now' \in 0 .. MaxNow
  BY <1>1, TokenAssumption DEF TokenIInv
<1>3. spent \in [Tokens -> Nat]
  BY DEF TokenIInv
<1>4. SpentWhileValid
  <2>1. \A u \in Tokens : spent[u] \in Nat /\ spent'[u] = spent[u]
    BY <1>1, <1>3
  <2>2. \A u \in Tokens : ~(spent'[u] > spent[u])
    BY <2>1
  <2> QED
    BY <2>2 DEF SpentWhileValid
<1> QED
  BY <1>1, <1>2, <1>4 DEF TokenIInv, NeverOverspent, AuditIsTold

LEMMA TokensStep ==
  ASSUME TokenIInv, TokenNext \/ UNCHANGED tokenVars
  PROVE  TokenIInv' /\ [SpentWhileValid]_tokenVars
BY InsertStep, RevokeStep, VerifyStep, ConsumeStep, TokenTickStep, Zenon DEF TokenNext

\* Approval tokens (runtime/approval_tokens.rs), for any set of tokens, scopes and actors
\* and whatever is inserted, revoked, verified or expires between a verify and a consume: a
\* token is consumed as often as its counter says and never more often than granted, only
\* while it is granted, in time, in its scope and by its executor, and the audit of a delegated
\* action names who executed it.
THEOREM TokensAreNeverOverspent == PartSpec => ApprovalTokensSound
<1>1. PartInit => TokenIInv
  BY TokenStart DEF PartInit
<1>2. TokenIInv /\ [PartNext]_partVars => TokenIInv' /\ [SpentWhileValid]_tokenVars
  <2> SUFFICES ASSUME TokenIInv, [PartNext]_partVars
               PROVE  TokenIInv' /\ [SpentWhileValid]_tokenVars
    OBVIOUS
  <2>1. TokenNext \/ UNCHANGED tokenVars
    BY Zenon DEF PartNext, partVars
  <2> QED
    BY <2>1, TokensStep
<1>3. TokenIInv => TokenTypeOK /\ NeverOverspent /\ AuditTracesDelegation
  BY DEF TokenIInv, AuditIsTold, TokenTypeOK, AuditTracesDelegation
<1>4. PartSpec => [][SpentWhileValid]_tokenVars
  BY <1>1, <1>2, PTL DEF PartSpec
<1>5. PartSpec => ConsumedOnlyWhileValid
  BY <1>4 DEF ConsumedOnlyWhileValid, SpentWhileValid
<1> QED
  BY <1>1, <1>2, <1>3, <1>5, PTL DEF PartSpec, ApprovalTokensSound

-----------------------------------------------------------------------------
(* Tasks and teams *)

\* The team a task names was created and lists it.
NamesItsTeam(t) ==
  tasks[t] # NoTask /\ tasks[t].team_id # NoTeam =>
    /\ teams[tasks[t].team_id] # NoTeamEntry
    /\ t \in teams[tasks[t].team_id].task_ids

\* What TeamCreate has left to assign is of its list; what it has assigned, if still
\* there, has a team.  Ids not drawn yet are in no list.
TeamOK(m) ==
  /\ teams[m] = NoTeamEntry => creating[m] = {}
  /\ teams[m] # NoTeamEntry =>
       /\ m \in born /\ teams[m].task_ids \subseteq born
       /\ creating[m] \subseteq teams[m].task_ids
       /\ \A t \in teams[m].task_ids \ creating[m] : tasks[t] # NoTask => tasks[t].team_id # NoTeam

TaskIInv ==
  /\ TaskTypeOK
  /\ \A t \in TaskIds : NamesItsTeam(t) /\ (tasks[t] # NoTask => t \in born)
  /\ \A m \in TeamIds : TeamOK(m)

LEMMA TaskValues ==
  /\ NoTask \notin Task /\ NoTeamEntry \notin Team /\ NoTeam \notin TeamIds
  /\ \A task \in Task : task.team_id \in TeamIds \cup {NoTeam}
  /\ \A team \in Team : team.task_ids \subseteq TaskIds
BY TaskAssumption DEF NoTask, Task, TaskStatus, NoTeamEntry, Team, TeamStatus

\* A task that changes but keeps its team disturbs nothing.
LEMMA TaskKeepsTeam ==
  ASSUME TaskIInv, NEW t \in TaskIds, NEW task \in Task, UNCHANGED <<teams, creating, born>>,
         tasks[t] # NoTask, task.team_id = tasks[t].team_id, tasks' = [tasks EXCEPT ![t] = task]
  PROVE  TaskIInv'
<1>1. /\ tasks \in [TaskIds -> Task \cup {NoTask}]
      /\ teams \in [TeamIds -> Team \cup {NoTeamEntry}] /\ creating \in [TeamIds -> SUBSET TaskIds]
  BY DEF TaskIInv, TaskTypeOK
<1>2. /\ tasks' \in [TaskIds -> Task \cup {NoTask}] /\ tasks'[t] = task /\ task # NoTask
      /\ \A u \in TaskIds : u # t => tasks'[u] = tasks[u]
  BY <1>1, TaskValues
<1>3. ASSUME NEW u \in TaskIds PROVE NamesItsTeam(u)' /\ (tasks'[u] # NoTask => u \in born')
  <2>1. NamesItsTeam(u) /\ (tasks[u] # NoTask => u \in born)
    BY DEF TaskIInv
  <2> QED
    BY <1>2, <2>1 DEF NamesItsTeam
<1>4. ASSUME NEW m \in TeamIds PROVE TeamOK(m)'
  <2>1. TeamOK(m)
    BY DEF TaskIInv
  <2>2. ASSUME teams[m] # NoTeamEntry, NEW u \in teams[m].task_ids \ creating[m], tasks'[u] # NoTask
        PROVE  tasks'[u].team_id # NoTeam
    <3>1. u \in TaskIds
      BY <1>1, <2>2, TaskValues
    <3>2. tasks[u] # NoTask => tasks[u].team_id # NoTeam
      BY <2>1, <2>2 DEF TeamOK
    <3> QED
      BY <1>2, <2>2, <3>1, <3>2
  <2> QED
    BY <2>1, <2>2 DEF TeamOK
<1> QED
  BY <1>1, <1>2, <1>3, <1>4 DEF TaskIInv, TaskTypeOK

LEMMA CreateTaskStep ==
  ASSUME TaskIInv, NEW t \in TaskIds, create_task(t) PROVE TaskIInv'
<1> DEFINE task == [status |-> "Created", messages |-> 0, output |-> FALSE, team_id |-> NoTeam]
<1>1. /\ t \notin born /\ tasks' = [tasks EXCEPT ![t] = task] /\ born' = born \cup {t}
      /\ UNCHANGED <<teams, creating>>
  BY DEF create_task
<1>2. task \in Task /\ task.team_id = NoTeam
  BY DEF Task, TaskStatus
<1> HIDE DEF task
<1>3. /\ tasks \in [TaskIds -> Task \cup {NoTask}]
      /\ teams \in [TeamIds -> Team \cup {NoTeamEntry}] /\ creating \in [TeamIds -> SUBSET TaskIds]
  BY DEF TaskIInv, TaskTypeOK
<1>4. /\ tasks' \in [TaskIds -> Task \cup {NoTask}] /\ tasks'[t] = task
      /\ \A u \in TaskIds : u # t => tasks'[u] = tasks[u]
  BY <1>1, <1>2, <1>3
<1>5. ASSUME NEW u \in TaskIds PROVE NamesItsTeam(u)' /\ (tasks'[u] # NoTask => u \in born')
  <2>1. NamesItsTeam(u) /\ (tasks[u] # NoTask => u \in born)
    BY DEF TaskIInv
  <2> QED
    BY <1>1, <1>2, <1>4, <2>1 DEF NamesItsTeam
<1>6. ASSUME NEW m \in TeamIds PROVE TeamOK(m)'
  <2>1. TeamOK(m)
    BY DEF TaskIInv
  <2>2. ASSUME teams[m] # NoTeamEntry, NEW u \in teams[m].task_ids \ creating[m], tasks'[u] # NoTask
        PROVE  tasks'[u].team_id # NoTeam
    <3>1. u \in TaskIds /\ u \in born
      BY <1>3, <2>1, <2>2, TaskValues DEF TeamOK
    <3>2. tasks[u] # NoTask => tasks[u].team_id # NoTeam
      BY <2>1, <2>2 DEF TeamOK
    <3> QED
      BY <1>1, <1>4, <2>2, <3>1, <3>2
  <2> QED
    BY <1>1, <2>1, <2>2 DEF TeamOK
<1> QED
  BY <1>1, <1>3, <1>4, <1>5, <1>6 DEF TaskIInv, TaskTypeOK

LEMMA RemoveTaskStep ==
  ASSUME TaskIInv, NEW t \in TaskIds, task_remove(t) PROVE TaskIInv'
<1>1. tasks' = [tasks EXCEPT ![t] = NoTask] /\ UNCHANGED <<teams, creating, born>>
  BY DEF task_remove
<1>2. /\ tasks \in [TaskIds -> Task \cup {NoTask}]
      /\ teams \in [TeamIds -> Team \cup {NoTeamEntry}] /\ creating \in [TeamIds -> SUBSET TaskIds]
  BY DEF TaskIInv, TaskTypeOK
<1>3. /\ tasks' \in [TaskIds -> Task \cup {NoTask}]
      /\ \A u \in TaskIds : tasks'[u] # NoTask => tasks'[u] = tasks[u]
  BY <1>1, <1>2
<1>4. ASSUME NEW u \in TaskIds PROVE NamesItsTeam(u)' /\ (tasks'[u] # NoTask => u \in born')
  <2>1. NamesItsTeam(u) /\ (tasks[u] # NoTask => u \in born)
    BY DEF TaskIInv
  <2> QED
    BY <1>1, <1>3, <2>1 DEF NamesItsTeam
<1>5. ASSUME NEW m \in TeamIds PROVE TeamOK(m)'
  <2>1. TeamOK(m)
    BY DEF TaskIInv
  <2>2. ASSUME teams[m] # NoTeamEntry, NEW u \in teams[m].task_ids \ creating[m], tasks'[u] # NoTask
        PROVE  tasks'[u].team_id # NoTeam
    <3>1. u \in TaskIds
      BY <1>2, <2>2, TaskValues
    <3> QED
      BY <1>3, <2>1, <2>2, <3>1 DEF TeamOK
  <2> QED
    BY <1>1, <2>1, <2>2 DEF TeamOK
<1> QED
  BY <1>1, <1>2, <1>3, <1>4, <1>5 DEF TaskIInv, TaskTypeOK

\* The calls that change a task and leave its team.
LEMMA ChangeTaskStep ==
  ASSUME TaskIInv, NEW t \in TaskIds,
         \/ task_stop(t) \/ task_update(t) \/ append_output(t)
         \/ \E status \in TaskStatus : set_status(t, status)
  PROVE  TaskIInv'
<1>1. tasks[t] # NoTask /\ UNCHANGED <<teams, creating, born>>
  BY DEF task_stop, task_update, append_output, set_status
<1>2. tasks \in [TaskIds -> Task \cup {NoTask}] /\ tasks[t] \in Task
  BY <1>1 DEF TaskIInv, TaskTypeOK
<1>3. PICK task \in Task : task.team_id = tasks[t].team_id /\ tasks' = [tasks EXCEPT ![t] = task]
  <2>1. CASE \E status \in TaskStatus : tasks' = [tasks EXCEPT ![t].status = status]
    <3>1. PICK status \in TaskStatus : tasks' = [tasks EXCEPT ![t].status = status]
      BY <2>1
    <3>2. PICK task : task = [tasks[t] EXCEPT !.status = status]
      OBVIOUS
    <3>3. task \in Task /\ task.team_id = tasks[t].team_id
      BY <1>2, <3>2 DEF Task
    <3> QED
      BY <3>1, <3>2, <3>3
  <2>2. CASE task_update(t)
    <3>1. tasks' = [tasks EXCEPT ![t].messages = @ + 1]
      BY <2>2 DEF task_update
    <3>2. PICK task : task = [tasks[t] EXCEPT !.messages = @ + 1]
      OBVIOUS
    <3>3. task \in Task /\ task.team_id = tasks[t].team_id
      BY <1>2, <3>2 DEF Task
    <3> QED
      BY <3>1, <3>2, <3>3
  <2>3. CASE append_output(t)
    <3>1. tasks' = [tasks EXCEPT ![t].output = TRUE]
      BY <2>3 DEF append_output
    <3>2. PICK task : task = [tasks[t] EXCEPT !.output = TRUE]
      OBVIOUS
    <3>3. task \in Task /\ task.team_id = tasks[t].team_id
      BY <1>2, <3>2 DEF Task
    <3> QED
      BY <3>1, <3>2, <3>3
  <2>4. CASE task_stop(t)
    <3>1. tasks' = [tasks EXCEPT ![t].status = "Stopped"] /\ "Stopped" \in TaskStatus
      BY <2>4 DEF task_stop, TaskStatus
    <3> QED
      BY <2>1, <3>1
  <2>5. CASE \E status \in TaskStatus : set_status(t, status)
    BY <2>1, <2>5 DEF set_status
  <2> QED
    BY <2>2, <2>3, <2>4, <2>5
<1> QED
  BY <1>1, <1>3, TaskKeepsTeam

LEMMA CreateTeamStep ==
  ASSUME TaskIInv, NEW m \in TeamIds, NEW ids \in SUBSET TaskIds, team_create(m, ids)
  PROVE  TaskIInv'
<1> DEFINE team == [status |-> "Created", task_ids |-> ids]
<1>1. /\ m \notin born /\ ids \subseteq born /\ teams' = [teams EXCEPT ![m] = team]
      /\ creating' = [creating EXCEPT ![m] = ids] /\ born' = born \cup {m} /\ tasks' = tasks
  BY DEF team_create
<1>2. team \in Team /\ team.task_ids = ids /\ team # NoTeamEntry
  BY TaskValues DEF Team, TeamStatus
<1> HIDE DEF team
<1>3. /\ tasks \in [TaskIds -> Task \cup {NoTask}]
      /\ teams \in [TeamIds -> Team \cup {NoTeamEntry}] /\ creating \in [TeamIds -> SUBSET TaskIds]
  BY DEF TaskIInv, TaskTypeOK
<1>4. /\ teams' \in [TeamIds -> Team \cup {NoTeamEntry}] /\ teams'[m] = team
      /\ \A n \in TeamIds : n # m => teams'[n] = teams[n]
  BY <1>1, <1>2, <1>3
<1>5. /\ creating' \in [TeamIds -> SUBSET TaskIds] /\ creating'[m] = ids
      /\ \A n \in TeamIds : n # m => creating'[n] = creating[n]
  BY <1>1, <1>3
<1>6. teams[m] = NoTeamEntry
  BY <1>1 DEF TaskIInv, TeamOK
<1>7. ASSUME NEW t \in TaskIds PROVE NamesItsTeam(t)' /\ (tasks'[t] # NoTask => t \in born')
  <2>1. NamesItsTeam(t) /\ (tasks[t] # NoTask => t \in born)
    BY DEF TaskIInv
  <2>2. tasks[t] # NoTask => tasks[t].team_id \in TeamIds \cup {NoTeam}
    BY <1>3, TaskValues
  <2> QED
    BY <1>1, <1>4, <1>6, <2>1, <2>2 DEF NamesItsTeam
<1>8. ASSUME NEW n \in TeamIds PROVE TeamOK(n)'
  <2>1. TeamOK(n)
    BY DEF TaskIInv
  <2>2. CASE n = m
    BY <1>1, <1>2, <1>4, <1>5, <2>2 DEF TeamOK
  <2>3. CASE n # m
    BY <1>1, <1>4, <1>5, <2>1, <2>3 DEF TeamOK
  <2> QED
    BY <2>2, <2>3
<1> QED
  BY <1>1, <1>3, <1>4, <1>5, <1>7, <1>8 DEF TaskIInv, TaskTypeOK

LEMMA AssignTeamStep ==
  ASSUME TaskIInv, NEW m \in TeamIds, NEW t \in TaskIds, assign_team(m, t) PROVE TaskIInv'
<1>1. /\ t \in creating[m] /\ creating' = [creating EXCEPT ![m] = @ \ {t}]
      /\ tasks' = IF tasks[t] = NoTask THEN tasks ELSE [tasks EXCEPT ![t].team_id = m]
      /\ UNCHANGED <<teams, born>>
  BY DEF assign_team
<1>2. /\ tasks \in [TaskIds -> Task \cup {NoTask}]
      /\ teams \in [TeamIds -> Team \cup {NoTeamEntry}] /\ creating \in [TeamIds -> SUBSET TaskIds]
  BY DEF TaskIInv, TaskTypeOK
<1>3. /\ creating' \in [TeamIds -> SUBSET TaskIds] /\ creating'[m] = creating[m] \ {t}
      /\ \A n \in TeamIds : n # m => creating'[n] = creating[n]
  <2>1. creating[m] \ {t} \in SUBSET TaskIds
    BY <1>2
  <2> QED
    BY <1>1, <1>2, <2>1
<1>4. teams[m] # NoTeamEntry /\ t \in teams[m].task_ids /\ t \in born
  BY <1>1 DEF TaskIInv, TeamOK
<1>5. /\ tasks' \in [TaskIds -> Task \cup {NoTask}]
      /\ \A u \in TaskIds : u # t => tasks'[u] = tasks[u]
      /\ tasks'[t] # NoTask => tasks'[t].team_id = m
      /\ tasks[t] = NoTask => tasks'[t] = NoTask
  <2>1. CASE tasks[t] = NoTask
    BY <1>1, <1>2, <2>1
  <2>2. CASE tasks[t] # NoTask
    <3>1. PICK task : task = [tasks[t] EXCEPT !.team_id = m]
      OBVIOUS
    <3>2. task \in Task /\ task.team_id = m
      BY <1>2, <2>2, <3>1 DEF Task
    <3>3. tasks' = [tasks EXCEPT ![t] = task]
      BY <1>1, <2>2, <3>1
    <3> QED
      BY <1>2, <2>2, <3>2, <3>3
  <2> QED
    BY <2>1, <2>2
<1>6. ASSUME NEW u \in TaskIds PROVE NamesItsTeam(u)' /\ (tasks'[u] # NoTask => u \in born')
  <2>1. NamesItsTeam(u) /\ (tasks[u] # NoTask => u \in born)
    BY DEF TaskIInv
  <2>2. CASE u = t
    BY <1>1, <1>4, <1>5, <2>2 DEF NamesItsTeam
  <2>3. CASE u # t
    BY <1>1, <1>5, <2>1, <2>3 DEF NamesItsTeam
  <2> QED
    BY <2>2, <2>3
<1>7. ASSUME NEW n \in TeamIds PROVE TeamOK(n)'
  <2>1. TeamOK(n)
    BY DEF TaskIInv
  <2>2. creating'[n] \subseteq creating[n] /\ \A u : u # t /\ u \in creating[n] => u \in creating'[n]
    BY <1>3
  <2>3. ASSUME teams[n] # NoTeamEntry, NEW u \in teams[n].task_ids \ creating'[n], tasks'[u] # NoTask
        PROVE  tasks'[u].team_id # NoTeam
    <3>1. u \in TaskIds
      BY <1>2, <2>3, TaskValues
    <3>2. CASE u = t
      BY <1>5, <2>3, <3>2, TaskValues
    <3>3. CASE u # t
      BY <1>5, <2>1, <2>2, <2>3, <3>1, <3>3 DEF TeamOK
    <3> QED
      BY <3>2, <3>3
  <2> QED
    BY <1>1, <2>1, <2>2, <2>3 DEF TeamOK
<1> QED
  BY <1>1, <1>2, <1>3, <1>5, <1>6, <1>7 DEF TaskIInv, TaskTypeOK

LEMMA DeleteTeamStep ==
  ASSUME TaskIInv, NEW m \in TeamIds, team_delete(m) PROVE TaskIInv'
<1>1. /\ teams[m] # NoTeamEntry /\ teams' = [teams EXCEPT ![m].status = "Deleted"]
      /\ UNCHANGED <<tasks, creating, born>>
  BY DEF team_delete
<1>2. /\ tasks \in [TaskIds -> Task \cup {NoTask}]
      /\ teams \in [TeamIds -> Team \cup {NoTeamEntry}] /\ creating \in [TeamIds -> SUBSET TaskIds]
  BY DEF TaskIInv, TaskTypeOK
<1>3. PICK team : team = [teams[m] EXCEPT !.status = "Deleted"]
  OBVIOUS
<1>4. team \in Team /\ team.task_ids = teams[m].task_ids
  BY <1>1, <1>2, <1>3 DEF Team, TeamStatus
<1>5. teams' = [teams EXCEPT ![m] = team] /\ team # NoTeamEntry
  BY <1>1, <1>3, <1>4, TaskValues
<1>6. /\ teams' \in [TeamIds -> Team \cup {NoTeamEntry}]
      /\ \A n \in TeamIds : teams'[n] = NoTeamEntry <=> teams[n] = NoTeamEntry
      /\ \A n \in TeamIds : teams[n] # NoTeamEntry => teams'[n].task_ids = teams[n].task_ids
  BY <1>1, <1>2, <1>4, <1>5
<1>7. ASSUME NEW t \in TaskIds PROVE NamesItsTeam(t)' /\ (tasks'[t] # NoTask => t \in born')
  <2>1. NamesItsTeam(t) /\ (tasks[t] # NoTask => t \in born)
    BY DEF TaskIInv
  <2>2. tasks[t] # NoTask => tasks[t].team_id \in TeamIds \cup {NoTeam}
    BY <1>2, TaskValues
  <2> QED
    BY <1>1, <1>6, <2>1, <2>2 DEF NamesItsTeam
<1>8. ASSUME NEW n \in TeamIds PROVE TeamOK(n)'
  <2>1. TeamOK(n)
    BY DEF TaskIInv
  <2> QED
    BY <1>1, <1>6, <2>1 DEF TeamOK
<1> QED
  BY <1>1, <1>2, <1>6, <1>7, <1>8 DEF TaskIInv, TaskTypeOK

LEMMA TasksStep ==
  ASSUME TaskIInv, TaskNext \/ UNCHANGED taskVars PROVE TaskIInv'
<1>1. CASE UNCHANGED taskVars
  BY <1>1 DEF taskVars, TaskIInv, TaskTypeOK, NamesItsTeam, TeamOK
<1>2. ASSUME NEW t \in TaskIds, TaskTools(t) PROVE TaskIInv'
  BY <1>2, CreateTaskStep, ChangeTaskStep, Zenon DEF TaskTools, create_from_packet
<1>3. ASSUME NEW t \in TaskIds,
             append_output(t) \/ task_remove(t) \/ \E status \in TaskStatus : set_status(t, status)
      PROVE  TaskIInv'
  BY <1>3, ChangeTaskStep, RemoveTaskStep, Zenon
<1>4. ASSUME NEW m \in TeamIds,
             \/ \E ids \in SUBSET TaskIds : team_create(m, ids)
             \/ \E t \in TaskIds : assign_team(m, t)
             \/ team_delete(m)
      PROVE  TaskIInv'
  BY <1>4, CreateTeamStep, AssignTeamStep, DeleteTeamStep, Zenon
<1> QED
  BY <1>1, <1>2, <1>3, <1>4, Zenon DEF TaskNext

LEMMA TaskIInvIsEnough == TaskIInv => TaskRegistriesSound
<1> SUFFICES ASSUME TaskIInv PROVE TaskRegistriesSound
  OBVIOUS
<1>1. TaskNamesItsTeam
  BY DEF TaskIInv, NamesItsTeam, TaskNamesItsTeam
<1>2. TeamClaimsItsTasks
  BY DEF TaskIInv, TeamOK, TeamClaimsItsTasks
<1> QED
  BY <1>1, <1>2 DEF TaskIInv, TaskRegistriesSound

\* The registries of tasks and teams have a lock each, and TeamCreate takes them one after
\* the other.  However calls of several sessions come in between, for any number of tasks
\* and teams: a task names a team that lists it, and once a team is through every
\* task it lists that is still there has a team.
THEOREM TeamsAndTasksAgree == PartSpec => []TaskRegistriesChecked
<1>1. PartInit => TaskIInv
  <2>1. TaskInit => TaskIInv
    BY DEF TaskInit, TaskIInv, TaskTypeOK, NamesItsTeam, TeamOK
  <2> QED
    BY <2>1 DEF PartInit
<1>2. TaskIInv /\ [PartNext]_partVars => TaskIInv'
  <2> SUFFICES ASSUME TaskIInv, [PartNext]_partVars PROVE TaskIInv'
    OBVIOUS
  <2>1. TaskNext \/ UNCHANGED taskVars
    BY Zenon DEF PartNext, partVars
  <2> QED
    BY <2>1, TasksStep
<1>3. TaskIInv => TaskRegistriesChecked
  BY TaskIInvIsEnough DEF TaskRegistriesChecked
<1> QED
  BY <1>1, <1>2, <1>3, PTL DEF PartSpec

-----------------------------------------------------------------------------
(* Sessions of the command line *)

StoredSession == [sid : Nat, turns : SUBSET Nat, summary : SUBSET Nat,
                  root : {"none", "here", "unset", "other"}, updated : Nat]
CliProcess == [alive : BOOLEAN, busy : BOOLEAN, id : Nat, path : CliPaths, session : StoredSession]

\* A session after n turns: its turns are among them, the last no later than its update.
SessionOK(f, n) ==
  /\ f \in StoredSession /\ f.turns \cup f.summary \subseteq 1 .. n /\ f.updated <= n
  /\ \A t \in f.turns : t <= f.updated

\* A turn reported as done is in the file that was active; files have ids drawn before.
FileOK(p) ==
  /\ SessionOK(session_files[p], turn_count)
  /\ kept[p] \subseteq session_files[p].turns \cup session_files[p].summary
  /\ session_files[p] # NoFile => session_files[p].sid >= 1 /\ p < next_session

\* What a process may write over the file of the session it has in hand.
Writable(c) ==
  /\ c \in CliProcess /\ SessionOK(c.session, turn_count)
  /\ c.session.sid = c.id /\ c.id >= 1 /\ c.session.root \in {"here", "unset"}

CliTypes ==
  /\ session_files \in [CliPaths -> StoredSession] /\ cli \in CliProcess
  /\ turn_count \in 0 .. MaxCliTurns /\ next_session \in 1 .. (MaxCliSessions + 1)
  /\ kept \in [CliPaths -> SUBSET Nat]

\* The session in memory has every turn reported as done in its file.
ActiveOK ==
  /\ cli.busy => cli.alive /\ turn_count >= 1
  /\ cli.alive =>
       /\ Writable(cli) /\ cli.path < next_session
       /\ kept[cli.path] \subseteq cli.session.turns \cup cli.session.summary
  /\ FileIsMemory

CliIInv == CliTypes /\ (\A p \in CliPaths : FileOK(p)) /\ ActiveOK

LEMMA CliValues ==
  /\ MaxCliSessions \in Nat /\ MaxCliTurns \in Nat /\ 0 \in CliPaths /\ CliPaths \subseteq Nat
  /\ NoFile \in StoredSession /\ NoFile.turns = {} /\ NoFile.summary = {}
  /\ NotRunning \in CliProcess /\ ~NotRunning.alive /\ ~NotRunning.busy
  /\ \A n \in Nat : SessionOK(NoFile, n)
<1>1. MaxCliSessions \in Nat /\ MaxCliTurns \in Nat /\ 0 \in CliPaths /\ CliPaths \subseteq Nat
  BY CliAssumption DEF CliPaths
<1>2. NoFile \in StoredSession /\ NoFile.turns = {} /\ NoFile.summary = {} /\ NoFile.updated = 0
  BY DEF NoFile, StoredSession
<1>3. NotRunning \in CliProcess /\ ~NotRunning.alive /\ ~NotRunning.busy
  BY <1>1, <1>2 DEF NotRunning, CliProcess
<1>4. \A n \in Nat : SessionOK(NoFile, n)
  BY <1>2 DEF SessionOK
<1> QED
  BY <1>1, <1>2, <1>3, <1>4

LEMMA LaterTurns ==
  ASSUME NEW n \in Nat, NEW m \in Nat, n <= m, NEW f, SessionOK(f, n) PROVE SessionOK(f, m)
<1>1. 1 .. n \subseteq 1 .. m
  OBVIOUS
<1>2. f.updated \in Nat
  BY DEF SessionOK, StoredSession
<1> QED
  BY <1>1, <1>2 DEF SessionOK

\* Writing a whole session to its file keeps what every file holds.
LEMMA SavedFile ==
  ASSUME CliIInv, NEW p \in CliPaths, NEW f, SessionOK(f, turn_count'), f.sid >= 1,
         session_files' = [session_files EXCEPT ![p] = f], p < next_session',
         turn_count' \in Nat, turn_count <= turn_count',
         next_session' \in {next_session, next_session + 1},
         \A q \in CliPaths : q # p => kept'[q] = kept[q], kept'[p] \subseteq f.turns \cup f.summary
  PROVE  /\ session_files' \in [CliPaths -> StoredSession] /\ session_files'[p] = f
         /\ \A q \in CliPaths : q # p => session_files'[q] = session_files[q]
         /\ \A q \in CliPaths : FileOK(q)'
<1>1. /\ session_files \in [CliPaths -> StoredSession] /\ turn_count \in Nat /\ next_session \in Nat
      /\ CliPaths \subseteq Nat
  BY CliValues DEF CliIInv, CliTypes
<1>2. f \in StoredSession
  BY DEF SessionOK
<1>3. /\ session_files' \in [CliPaths -> StoredSession] /\ session_files'[p] = f
      /\ \A q \in CliPaths : q # p => session_files'[q] = session_files[q]
  BY <1>1, <1>2
<1>4. ASSUME NEW q \in CliPaths PROVE FileOK(q)'
  <2>1. CASE q = p
    BY <1>3, <2>1 DEF FileOK
  <2>2. CASE q # p
    <3>1. /\ session_files'[q] = session_files[q] /\ kept'[q] = kept[q]
          /\ kept[q] \subseteq session_files[q].turns \cup session_files[q].summary
      BY <1>3, <2>2 DEF CliIInv, FileOK
    <3>2. SessionOK(session_files[q], turn_count')
      BY <1>1, LaterTurns DEF CliIInv, FileOK
    <3>3. session_files[q] # NoFile => session_files[q].sid >= 1 /\ q < next_session'
      <4>1. session_files[q] # NoFile => session_files[q].sid >= 1 /\ q < next_session
        BY DEF CliIInv, FileOK
      <4>2. q \in Nat
        BY <1>1
      <4> QED
        BY <1>1, <4>1, <4>2
    <3> QED
      BY <3>1, <3>2, <3>3 DEF FileOK
  <2> QED
    BY <2>1, <2>2
<1> QED
  BY <1>3, <1>4

\* The process c saves its session and goes on between two commands, or ends.
LEMMA SavedStep ==
  ASSUME CliIInv, NEW c, Writable(c), c.alive, ~c.busy, persist_session(c),
         c.path < next_session', turn_count' = turn_count,
         next_session' \in {next_session, next_session + 1}, next_session' <= MaxCliSessions + 1,
         kept' \in [CliPaths -> SUBSET Nat], \A q \in CliPaths : q # c.path => kept'[q] = kept[q],
         kept'[c.path] \subseteq c.session.turns \cup c.session.summary,
         cli' = c \/ cli' = NotRunning
  PROVE  CliIInv'
<1>1. /\ c \in CliProcess /\ c.path \in CliPaths /\ SessionOK(c.session, turn_count')
      /\ c.session.sid >= 1 /\ session_files' = [session_files EXCEPT ![c.path] = c.session]
  BY DEF Writable, CliProcess, persist_session
<1>2. /\ turn_count \in 0 .. MaxCliTurns /\ next_session \in 1 .. (MaxCliSessions + 1)
      /\ MaxCliSessions \in Nat /\ MaxCliTurns \in Nat
  BY CliValues DEF CliIInv, CliTypes
<1>3. /\ session_files' \in [CliPaths -> StoredSession] /\ session_files'[c.path] = c.session
      /\ \A q \in CliPaths : FileOK(q)'
  <2>1. turn_count' \in Nat /\ turn_count <= turn_count'
    BY <1>2
  <2> QED
    BY <1>1, <2>1, SavedFile
<1>4. CliTypes'
  <2>1. cli' \in CliProcess
    BY <1>1, CliValues
  <2>2. turn_count' \in 0 .. MaxCliTurns /\ next_session' \in 1 .. (MaxCliSessions + 1)
    BY <1>2
  <2> QED
    BY <1>3, <2>1, <2>2 DEF CliTypes
<1>5. ActiveOK'
  <2>1. CASE cli' = NotRunning
    BY <2>1, CliValues DEF ActiveOK, FileIsMemory, Idle
  <2>2. CASE cli' = c
    <3>1. Writable(cli)'
      BY <2>2 DEF Writable
    <3> QED
      BY <1>3, <2>2, <3>1 DEF ActiveOK, FileIsMemory, Idle
  <2> QED
    BY <2>1, <2>2
<1> QED
  BY <1>3, <1>4, <1>5 DEF CliIInv

\* The process ends, or nothing of it happens.
LEMMA EndedStep ==
  ASSUME CliIInv, cli' = NotRunning \/ cli' = cli,
         UNCHANGED <<session_files, turn_count, next_session, kept>>
  PROVE  CliIInv'
<1>1. CliTypes'
  BY CliValues DEF CliIInv, CliTypes
<1>2. \A p \in CliPaths : FileOK(p)'
  BY DEF CliIInv, FileOK
<1>3. ActiveOK'
  <2>1. CASE cli' = NotRunning
    BY <2>1, CliValues DEF ActiveOK, FileIsMemory, Idle
  <2>2. CASE cli' = cli
    BY <2>2 DEF CliIInv, ActiveOK, FileIsMemory, Idle, Writable
  <2> QED
    BY <2>1, <2>2
<1> QED
  BY <1>1, <1>2, <1>3 DEF CliIInv

LEMMA StartCliStep == ASSUME CliIInv, StartCli PROVE CliIInv'
<1> DEFINE f == SessionAt(next_session, {}, "here", turn_count)
           c == [alive |-> TRUE, busy |-> FALSE, id |-> next_session, path |-> next_session,
                 session |-> f]
<1>1. /\ next_session <= MaxCliSessions /\ next_session' = next_session + 1 /\ cli' = c
      /\ persist_session(c) /\ UNCHANGED <<turn_count, kept>>
  BY DEF StartCli, persist_session
<1>2. /\ turn_count \in Nat /\ next_session \in Nat /\ next_session >= 1
      /\ next_session \in CliPaths
  BY <1>1, CliValues DEF CliIInv, CliTypes, CliPaths
<1>3. /\ f \in StoredSession /\ f.turns = {} /\ f.summary = {} /\ f.sid = next_session
      /\ f.root = "here" /\ f.updated = turn_count
  BY <1>2 DEF SessionAt, StoredSession
<1> HIDE DEF f
<1>4. SessionOK(f, turn_count)
  BY <1>2, <1>3 DEF SessionOK
<1>5. /\ c \in CliProcess /\ c.alive /\ ~c.busy /\ c.id = next_session /\ c.path = next_session
      /\ c.session = f
  BY <1>2, <1>3 DEF CliProcess
<1> HIDE DEF c
<1>6. Writable(c)
  BY <1>2, <1>3, <1>4, <1>5 DEF Writable
<1>7. kept[c.path] = {}
  <2>1. FileOK(next_session)
    BY <1>2 DEF CliIInv
  <2>2. session_files[next_session] = NoFile
    BY <1>2, <2>1 DEF FileOK
  <2> QED
    BY <1>5, <2>1, <2>2, CliValues DEF FileOK
<1>8. /\ next_session' \in {next_session, next_session + 1} /\ next_session' <= MaxCliSessions + 1
      /\ c.path < next_session'
  BY <1>1, <1>2, <1>5, CliValues
<1>9. /\ kept' \in [CliPaths -> SUBSET Nat] /\ \A q \in CliPaths : q # c.path => kept'[q] = kept[q]
      /\ kept'[c.path] \subseteq c.session.turns \cup c.session.summary
  BY <1>1, <1>7 DEF CliIInv, CliTypes
<1> QED
  BY <1>1, <1>5, <1>6, <1>8, <1>9, SavedStep

\* A new session in the hand of a process that runs.
LEMMA NewSessionStep ==
  ASSUME CliIInv, Idle, next_session <= MaxCliSessions, next_session' = next_session + 1,
         NEW f, SessionOK(f, turn_count), f.sid = next_session, f.root = "here",
         cli' = [cli EXCEPT !.id = next_session, !.path = next_session, !.session = f],
         persist_session(cli'), UNCHANGED <<turn_count, kept>>
  PROVE  CliIInv'
<1>1. /\ turn_count \in Nat /\ next_session \in Nat /\ next_session >= 1
      /\ next_session \in CliPaths /\ cli \in CliProcess
  BY CliValues DEF CliIInv, CliTypes, CliPaths
<1>2. PICK c : c = [cli EXCEPT !.id = next_session, !.path = next_session, !.session = f]
  OBVIOUS
<1>3. f \in StoredSession
  BY DEF SessionOK
<1>4. /\ c \in CliProcess /\ c.id = next_session /\ c.path = next_session /\ c.session = f
      /\ c.alive = cli.alive /\ c.busy = cli.busy
  BY <1>1, <1>2, <1>3 DEF CliProcess
<1>5. cli' = c /\ persist_session(c)
  BY <1>2 DEF persist_session
<1>6. Writable(c) /\ c.alive /\ ~c.busy
  BY <1>1, <1>4 DEF Writable, Idle
<1>7. kept[c.path] = {}
  <2>1. FileOK(next_session)
    BY <1>1 DEF CliIInv
  <2>2. session_files[next_session] = NoFile
    BY <1>1, <2>1 DEF FileOK
  <2> QED
    BY <1>4, <2>1, <2>2, CliValues DEF FileOK
<1>8. /\ next_session' \in {next_session, next_session + 1} /\ next_session' <= MaxCliSessions + 1
      /\ c.path < next_session'
  BY <1>1, <1>4, CliValues
<1>9. /\ kept' \in [CliPaths -> SUBSET Nat] /\ \A q \in CliPaths : q # c.path => kept'[q] = kept[q]
      /\ kept'[c.path] \subseteq c.session.turns \cup c.session.summary
  BY <1>7 DEF CliIInv, CliTypes
<1> QED
  BY <1>5, <1>6, <1>8, <1>9, SavedStep

LEMMA ClearStep == ASSUME CliIInv, clear_session PROVE CliIInv'
<1>1. PICK f : f = SessionAt(next_session, {}, "here", turn_count)
  OBVIOUS
<1>2. turn_count \in Nat /\ next_session \in Nat
  BY CliValues DEF CliIInv, CliTypes
<1>3. SessionOK(f, turn_count) /\ f.sid = next_session /\ f.root = "here"
  BY <1>1, <1>2 DEF SessionAt, StoredSession, SessionOK
<1> QED
  BY <1>1, <1>3, NewSessionStep DEF clear_session

LEMMA ForkStep == ASSUME CliIInv, fork_session PROVE CliIInv'
<1>1. Idle /\ Writable(cli)
  BY DEF fork_session, Idle, CliIInv, ActiveOK
<1>2. turn_count \in Nat /\ next_session \in Nat /\ cli.session \in StoredSession
  BY <1>1, CliValues DEF CliIInv, CliTypes, Writable, CliProcess
<1>3. PICK one : one = [cli.session EXCEPT !.sid = next_session]
  OBVIOUS
<1>4. PICK two : two = [one EXCEPT !.root = "here"]
  OBVIOUS
<1>5. PICK f : f = [two EXCEPT !.updated = turn_count]
  OBVIOUS
<1>6. one \in StoredSession /\ one.sid = next_session /\ one.turns = cli.session.turns
      /\ one.summary = cli.session.summary
  BY <1>2, <1>3 DEF StoredSession
<1>7. two \in StoredSession /\ two.sid = next_session /\ two.turns = cli.session.turns
      /\ two.summary = cli.session.summary /\ two.root = "here"
  BY <1>4, <1>6 DEF StoredSession
<1>8. /\ f \in StoredSession /\ f.sid = next_session /\ f.turns = cli.session.turns
      /\ f.summary = cli.session.summary /\ f.root = "here" /\ f.updated = turn_count
  BY <1>2, <1>5, <1>7 DEF StoredSession
<1>9. SessionOK(f, turn_count)
  <2>1. cli.session.turns \cup cli.session.summary \subseteq 1 .. turn_count
    BY <1>1 DEF Writable, SessionOK
  <2> QED
    BY <1>2, <1>8, <2>1 DEF SessionOK
<1>10. cli' = [cli EXCEPT !.id = next_session, !.path = next_session, !.session = f]
  <2> DEFINE a == [cli EXCEPT !.id = next_session, !.path = next_session]
             b == [a EXCEPT !.session.sid = next_session]
             d == [b EXCEPT !.session.root = "here"]
  <2>1. cli' = [d EXCEPT !.session.updated = turn_count]
    BY DEF fork_session
  <2>2. cli \in CliProcess
    BY DEF CliIInv, CliTypes
  <2>3. a.session = cli.session /\ "session" \in DOMAIN a
    BY <2>2 DEF CliProcess
  <2> HIDE DEF a
  <2>4. b = [a EXCEPT !.session = one]
    BY <1>3, <2>3
  <2> HIDE DEF b
  <2>5. d = [b EXCEPT !.session = two] /\ b.session = one /\ "session" \in DOMAIN b
    BY <1>4, <2>3, <2>4
  <2> HIDE DEF d
  <2>6. cli' = [d EXCEPT !.session = f]
    BY <1>5, <2>1, <2>5
  <2>7. cli' = [a EXCEPT !.session = f]
    BY <2>4, <2>5, <2>6
  <2> QED
    BY <2>7 DEF a
<1>11. /\ next_session <= MaxCliSessions /\ next_session' = next_session + 1
       /\ persist_session(cli') /\ UNCHANGED <<turn_count, kept>>
  BY DEF fork_session
<1> QED
  BY <1>1, <1>8, <1>9, <1>10, <1>11, NewSessionStep

LEMMA TurnBeginsStep == ASSUME CliIInv, TurnBegins PROVE CliIInv'
<1> DEFINE p == cli.path
           base == IF session_files[p] = NoFile THEN cli.session ELSE session_files[p]
           n == turn_count + 1
<1>1. /\ Idle /\ turn_count < MaxCliTurns /\ turn_count' = n /\ UNCHANGED <<next_session, kept>>
      /\ session_files' = [session_files EXCEPT ![p] =
           [base EXCEPT !.turns = @ \cup {n}, !.updated = n]]
      /\ cli' = [cli EXCEPT !.busy = TRUE]
  BY DEF TurnBegins
<1>2. /\ turn_count \in Nat /\ turn_count \in 0 .. MaxCliTurns /\ MaxCliTurns \in Nat
      /\ cli \in CliProcess /\ p \in CliPaths /\ CliTypes
  BY CliValues DEF CliIInv, CliTypes, CliProcess
<1>3. /\ Writable(cli) /\ cli.alive /\ p < next_session
      /\ kept[p] \subseteq cli.session.turns \cup cli.session.summary
  BY <1>1 DEF CliIInv, ActiveOK, Idle
<1>4. /\ SessionOK(base, turn_count) /\ base.sid >= 1
      /\ kept[p] \subseteq base.turns \cup base.summary
  <2>1. FileOK(p)
    BY <1>2 DEF CliIInv
  <2>2. CASE session_files[p] = NoFile
    BY <1>3, <2>2 DEF Writable
  <2>3. CASE session_files[p] # NoFile
    BY <2>1, <2>3 DEF FileOK
  <2> QED
    BY <2>2, <2>3
<1>5. n \in Nat /\ turn_count <= n /\ n \in 1 .. n /\ n \in 0 .. MaxCliTurns
  BY <1>1, <1>2
<1>6. 1 .. turn_count \subseteq 1 .. n
  BY <1>2
<1> HIDE DEF base, n, p
<1>7. PICK one : one = [base EXCEPT !.turns = @ \cup {n}]
  OBVIOUS
<1>8. PICK f : f = [one EXCEPT !.updated = n]
  OBVIOUS
<1>9. /\ one \in StoredSession /\ one.turns = base.turns \cup {n} /\ one.summary = base.summary
      /\ one.sid = base.sid
  BY <1>4, <1>5, <1>7 DEF SessionOK, StoredSession
<1>10. /\ f \in StoredSession /\ f.turns = base.turns \cup {n} /\ f.summary = base.summary
       /\ f.sid = base.sid /\ f.updated = n
  BY <1>5, <1>8, <1>9 DEF StoredSession
<1>11. SessionOK(f, n)
  <2>1. base.turns \cup base.summary \subseteq 1 .. turn_count
    BY <1>4 DEF SessionOK
  <2>2. f.turns \cup f.summary \subseteq 1 .. n
    BY <1>5, <1>6, <1>10, <2>1
  <2>3. \A t \in f.turns : t <= f.updated
    BY <1>5, <1>10, <2>2
  <2> QED
    BY <1>5, <1>10, <2>2, <2>3 DEF SessionOK
<1>12. session_files' = [session_files EXCEPT ![p] = f]
  BY <1>1, <1>7, <1>8
<1>13. next_session' \in {next_session, next_session + 1} /\ p < next_session'
  BY <1>1, <1>3 DEF p
<1>14. kept'[p] \subseteq f.turns \cup f.summary /\ \A q \in CliPaths : q # p => kept'[q] = kept[q]
  BY <1>1, <1>4, <1>10
<1>15. SessionOK(f, turn_count') /\ turn_count' \in Nat /\ turn_count <= turn_count' /\ f.sid >= 1
  BY <1>1, <1>4, <1>5, <1>10, <1>11
<1>16. session_files' \in [CliPaths -> StoredSession] /\ \A q \in CliPaths : FileOK(q)'
  BY <1>2, <1>12, <1>13, <1>14, <1>15, SavedFile
<1>17. /\ cli' \in CliProcess /\ cli'.busy /\ cli'.alive /\ cli'.session = cli.session
       /\ cli'.path = cli.path /\ cli'.id = cli.id
  BY <1>1, <1>2, <1>3 DEF CliProcess
<1>18. CliTypes'
  BY <1>1, <1>2, <1>5, <1>16, <1>17 DEF CliTypes
<1>19. ActiveOK'
  <2>1. Writable(cli)'
    <3>1. SessionOK(cli.session, turn_count')
      BY <1>2, <1>3, <1>15, LaterTurns DEF Writable
    <3> QED
      BY <1>3, <1>17, <3>1 DEF Writable
  <2>2. turn_count' >= 1
    BY <1>1, <1>2 DEF n
  <2> QED
    BY <1>1, <1>3, <1>17, <2>1, <2>2 DEF ActiveOK, FileIsMemory, Idle, p
<1> QED
  BY <1>16, <1>18, <1>19 DEF CliIInv

LEMMA TurnDoneStep == ASSUME CliIInv, TurnDone PROVE CliIInv'
<1> DEFINE n == turn_count
<1>1. /\ cli.busy /\ cli' = [cli EXCEPT !.busy = FALSE, !.session.turns = @ \cup {n},
                               !.session.updated = n]
      /\ persist_session(cli') /\ kept' = [kept EXCEPT ![cli.path] = @ \cup {n}]
      /\ UNCHANGED <<turn_count, next_session>>
  BY DEF TurnDone
<1>2. /\ cli.alive /\ Writable(cli) /\ n >= 1 /\ cli.path < next_session
      /\ kept[cli.path] \subseteq cli.session.turns \cup cli.session.summary
  BY <1>1 DEF CliIInv, ActiveOK
<1>3. /\ n \in Nat /\ next_session \in 1 .. (MaxCliSessions + 1) /\ MaxCliSessions \in Nat
      /\ cli \in CliProcess /\ cli.path \in CliPaths /\ cli.session \in StoredSession
      /\ kept \in [CliPaths -> SUBSET Nat]
  BY CliValues DEF CliIInv, CliTypes, CliProcess
<1>4. n \in 1 .. n
  BY <1>2, <1>3
<1> HIDE DEF n
<1>5. PICK one : one = [cli.session EXCEPT !.turns = @ \cup {n}]
  OBVIOUS
<1>6. PICK f : f = [one EXCEPT !.updated = n]
  OBVIOUS
<1>7. /\ one \in StoredSession /\ one.turns = cli.session.turns \cup {n}
      /\ one.summary = cli.session.summary /\ one.sid = cli.session.sid /\ one.root = cli.session.root
  BY <1>3, <1>5 DEF StoredSession
<1>8. /\ f \in StoredSession /\ f.turns = cli.session.turns \cup {n}
      /\ f.summary = cli.session.summary /\ f.sid = cli.session.sid /\ f.root = cli.session.root
      /\ f.updated = n
  BY <1>3, <1>6, <1>7 DEF StoredSession
<1>9. SessionOK(f, n)
  <2>1. cli.session.turns \cup cli.session.summary \subseteq 1 .. n
    BY <1>2 DEF Writable, SessionOK, n
  <2>2. f.turns \cup f.summary \subseteq 1 .. n
    BY <1>4, <1>8, <2>1
  <2>3. \A t \in f.turns : t <= f.updated
    BY <1>3, <1>8, <2>2
  <2> QED
    BY <1>3, <1>8, <2>2, <2>3 DEF SessionOK
<1>10. PICK c : c = [cli EXCEPT !.busy = FALSE, !.session = f]
  OBVIOUS
<1>11. /\ c \in CliProcess /\ c.alive /\ ~c.busy /\ c.session = f /\ c.path = cli.path
       /\ c.id = cli.id
  BY <1>2, <1>3, <1>8, <1>10 DEF CliProcess
<1>12. cli' = c
  <2> DEFINE a == [cli EXCEPT !.busy = FALSE]
             b == [a EXCEPT !.session.turns = @ \cup {n}]
  <2>1. cli' = [b EXCEPT !.session.updated = n]
    BY <1>1
  <2>2. a.session = cli.session /\ "session" \in DOMAIN a
    BY <1>3 DEF CliProcess
  <2>3. c = [a EXCEPT !.session = f]
    BY <1>10
  <2> HIDE DEF a
  <2>4. b = [a EXCEPT !.session = one] /\ b.session = one
    BY <1>5, <2>2
  <2> HIDE DEF b
  <2>5. cli' = [b EXCEPT !.session = f]
    BY <1>6, <2>1, <2>4
  <2> QED
    BY <2>3, <2>4, <2>5
<1>13. Writable(c)
  BY <1>2, <1>8, <1>9, <1>11 DEF Writable, n
<1>14. persist_session(c)
  BY <1>1, <1>12 DEF persist_session
<1>15. /\ kept' \in [CliPaths -> SUBSET Nat] /\ \A q \in CliPaths : q # c.path => kept'[q] = kept[q]
       /\ kept'[c.path] \subseteq c.session.turns \cup c.session.summary
  BY <1>1, <1>2, <1>3, <1>8, <1>11
<1>16. /\ next_session' \in {next_session, next_session + 1} /\ next_session' <= MaxCliSessions + 1
       /\ c.path < next_session' /\ turn_count' = turn_count
  BY <1>1, <1>2, <1>3, <1>11
<1> QED
  BY <1>11, <1>12, <1>13, <1>14, <1>15, <1>16, SavedStep

\* Between two commands: what an idle process has in hand may be written.
LEMMA IdleFacts ==
  ASSUME CliIInv, Idle
  PROVE  /\ Writable(cli) /\ cli.alive /\ ~cli.busy /\ cli.path \in CliPaths
         /\ cli.path < next_session /\ next_session <= MaxCliSessions + 1
         /\ kept \in [CliPaths -> SUBSET Nat]
         /\ kept[cli.path] \subseteq cli.session.turns \cup cli.session.summary
<1>1. cli \in CliProcess /\ kept \in [CliPaths -> SUBSET Nat]
  BY DEF CliIInv, CliTypes
<1>2. next_session <= MaxCliSessions + 1
  BY CliValues DEF CliIInv, CliTypes
<1> QED
  BY <1>1, <1>2 DEF CliIInv, ActiveOK, Idle, CliProcess

\* The session is saved as it is and the process goes on or ends.
LEMMA SavedAsIsStep ==
  ASSUME CliIInv, Idle, persist_session(cli), UNCHANGED <<turn_count, next_session, kept>>,
         cli' = cli \/ cli' = NotRunning
  PROVE  CliIInv'
<1>1. PICK c : c = cli
  OBVIOUS
<1>2. /\ Writable(c) /\ c.alive /\ ~c.busy /\ c.path < next_session' /\ persist_session(c)
      /\ cli' = c \/ cli' = NotRunning
  BY <1>1, IdleFacts
<1>3. /\ kept' \in [CliPaths -> SUBSET Nat] /\ \A q \in CliPaths : q # c.path => kept'[q] = kept[q]
      /\ kept'[c.path] \subseteq c.session.turns \cup c.session.summary
  BY <1>1, IdleFacts
<1>4. next_session' \in {next_session, next_session + 1} /\ next_session' <= MaxCliSessions + 1
  BY IdleFacts
<1> QED
  BY <1>2, <1>3, <1>4, SavedStep

LEMMA CompactStep == ASSUME CliIInv, compact PROVE CliIInv'
<1>1. Idle
  BY DEF compact
<1>2. PICK last \in cli.session.turns :
        LET old == {t \in cli.session.turns : t < last}
        IN  cli' = [cli EXCEPT !.session.turns = @ \ old, !.session.summary = @ \cup old]
  BY DEF compact
<1> DEFINE old == {t \in cli.session.turns : t < last}
<1>3. /\ cli' = [cli EXCEPT !.session.turns = @ \ old, !.session.summary = @ \cup old]
      /\ old \subseteq cli.session.turns
  BY <1>2
<1>4. persist_session(cli') /\ UNCHANGED <<turn_count, next_session, kept>>
  BY DEF compact
<1> HIDE DEF old
<1>5. /\ Writable(cli) /\ cli \in CliProcess /\ cli.session \in StoredSession
  BY <1>1, IdleFacts DEF Writable, CliProcess
<1>6. PICK one : one = [cli.session EXCEPT !.turns = @ \ old]
  OBVIOUS
<1>7. PICK f : f = [one EXCEPT !.summary = @ \cup old]
  OBVIOUS
<1>8. old \subseteq Nat
  BY <1>3, <1>5 DEF StoredSession
<1>9. /\ one \in StoredSession /\ one.turns = cli.session.turns \ old
      /\ one.summary = cli.session.summary /\ one.sid = cli.session.sid
      /\ one.root = cli.session.root /\ one.updated = cli.session.updated
  BY <1>5, <1>6 DEF StoredSession
<1>10. /\ f \in StoredSession /\ f.turns = cli.session.turns \ old
       /\ f.summary = cli.session.summary \cup old /\ f.sid = cli.session.sid
       /\ f.root = cli.session.root /\ f.updated = cli.session.updated
  BY <1>7, <1>8, <1>9 DEF StoredSession
<1>11. SessionOK(f, turn_count)
  BY <1>3, <1>5, <1>10 DEF Writable, SessionOK
<1>12. PICK c : c = [cli EXCEPT !.session = f]
  OBVIOUS
<1>13. /\ c \in CliProcess /\ c.alive = cli.alive /\ c.busy = cli.busy /\ c.session = f
       /\ c.path = cli.path /\ c.id = cli.id
  BY <1>5, <1>10, <1>12 DEF CliProcess
<1>14. cli' = c
  <2> DEFINE a == [cli EXCEPT !.session.turns = @ \ old]
  <2>1. cli' = [a EXCEPT !.session.summary = @ \cup old]
    BY <1>3
  <2>2. a = [cli EXCEPT !.session = one] /\ a.session = one
    BY <1>5, <1>6 DEF CliProcess
  <2> HIDE DEF a
  <2>3. cli' = [a EXCEPT !.session = f]
    BY <1>7, <2>1, <2>2
  <2> QED
    BY <1>12, <2>2, <2>3
<1>15. Writable(c) /\ c.alive /\ ~c.busy
  BY <1>1, <1>5, <1>10, <1>11, <1>13 DEF Writable, Idle
<1>16. persist_session(c)
  BY <1>4, <1>14 DEF persist_session
<1>17. /\ kept' \in [CliPaths -> SUBSET Nat] /\ \A q \in CliPaths : q # c.path => kept'[q] = kept[q]
       /\ kept'[c.path] \subseteq c.session.turns \cup c.session.summary
  <2>1. /\ kept \in [CliPaths -> SUBSET Nat]
        /\ kept[cli.path] \subseteq cli.session.turns \cup cli.session.summary
    BY <1>1, IdleFacts
  <2> QED
    BY <1>4, <1>10, <1>13, <2>1
<1>18. /\ next_session' \in {next_session, next_session + 1} /\ next_session' <= MaxCliSessions + 1
       /\ c.path < next_session' /\ turn_count' = turn_count
  BY <1>1, <1>4, <1>13, IdleFacts
<1> QED
  BY <1>14, <1>15, <1>16, <1>17, <1>18, SavedStep

\* A reference names a file that is there, by the id kept in it or by its path.
LEMMA ReferenceFacts ==
  ASSUME NEW ref \in References, NEW h \in resolve_reference(ref)
  PROVE  /\ h.path \in CliPaths /\ session_files[h.path] # NoFile
         /\ h.id = session_files[h.path].sid \/ h.id = h.path
<1>1. CASE ref = Latest
  <2>1. PICK p \in latest_session : h = [id |-> session_files[p].sid, path |-> p]
    BY <1>1 DEF resolve_reference
  <2> QED
    BY <2>1 DEF latest_session, collect_sessions_from_dir, Existing
<1>2. CASE ref # Latest
  <2>1. PICK p \in Existing \cap {ref} : h = [id |-> session_id_from_path(p), path |-> p]
    BY <1>2 DEF resolve_reference
  <2> QED
    BY <2>1 DEF session_id_from_path, Existing
<1> QED
  BY <1>1, <1>2

LEMMA ResumeStep == ASSUME CliIInv, NEW ref \in References, resume_session(ref) PROVE CliIInv'
<1>1. /\ Idle /\ UNCHANGED <<turn_count, next_session, kept>>
      /\ IF cli'.alive THEN persist_session(cli') ELSE UNCHANGED session_files
  BY DEF resume_session
<1>2. CASE \E h \in load_session(ref) :
             cli' = [cli EXCEPT !.id = h.id, !.path = h.path, !.session = session_files[h.path]]
  <2>1. PICK h \in load_session(ref) :
          cli' = [cli EXCEPT !.id = h.id, !.path = h.path, !.session = session_files[h.path]]
    BY <1>2
  <2>2. PICK g \in resolve_reference(ref) :
          /\ validate_loaded_session(g.path)
          /\ h = [id |-> session_files[g.path].sid, path |-> g.path]
    BY <2>1 DEF load_session
  <2>3. /\ h.path \in CliPaths /\ session_files[h.path] # NoFile
        /\ h.id = session_files[h.path].sid /\ session_files[h.path].root \in {"here", "unset"}
    BY <2>2, ReferenceFacts DEF validate_loaded_session
  <2>4. PICK p \in CliPaths : p = h.path
    BY <2>3
  <2>5. FileOK(p)
    BY DEF CliIInv
  <2>6. PICK f \in StoredSession : f = session_files[p]
    BY DEF CliIInv, CliTypes
  <2>7. PICK c : c = [cli EXCEPT !.id = f.sid, !.path = p, !.session = f]
    OBVIOUS
  <2>8. cli \in CliProcess /\ cli.alive /\ ~cli.busy
    BY <1>1, IdleFacts DEF Writable
  <2>9. f.sid \in Nat
    BY <2>6 DEF StoredSession
  <2>10. /\ c \in CliProcess /\ c.id = f.sid /\ c.path = p /\ c.session = f
         /\ c.alive /\ ~c.busy
    BY <2>7, <2>8, <2>9 DEF CliProcess
  <2>11. cli' = c
    BY <2>1, <2>3, <2>4, <2>6, <2>7
  <2>12. /\ Writable(c) /\ p < next_session /\ kept[p] \subseteq f.turns \cup f.summary
    BY <2>3, <2>4, <2>5, <2>6, <2>10 DEF FileOK, Writable
  <2>13. persist_session(c)
    BY <1>1, <2>10, <2>11 DEF persist_session
  <2>14. /\ kept' \in [CliPaths -> SUBSET Nat]
         /\ \A q \in CliPaths : q # c.path => kept'[q] = kept[q]
         /\ kept'[c.path] \subseteq c.session.turns \cup c.session.summary
    BY <1>1, <2>10, <2>12, IdleFacts
  <2>15. /\ next_session' \in {next_session, next_session + 1} /\ next_session' <= MaxCliSessions + 1
         /\ c.path < next_session' /\ turn_count' = turn_count
    BY <1>1, <2>10, <2>12, IdleFacts
  <2> QED
    BY <2>10, <2>11, <2>12, <2>13, <2>14, <2>15, SavedStep
<1>3. CASE Quit
  BY <1>1, <1>3, CliValues, EndedStep DEF Quit
<1> QED
  BY <1>2, <1>3 DEF resume_session

LEMMA DeleteStep ==
  ASSUME CliIInv, NEW ref \in References, delete_managed_session(ref) PROVE CliIInv'
<1>1. /\ Idle /\ UNCHANGED <<turn_count, next_session>>
      /\ cli' = IF resolve_reference(ref) = {} THEN NotRunning ELSE cli
  BY DEF delete_managed_session
<1>2. CASE UNCHANGED <<session_files, kept>>
  BY <1>1, <1>2, EndedStep
<1>3. ASSUME NEW h \in resolve_reference(ref), ~DeletionRefused(h),
             session_files' = [session_files EXCEPT ![h.path] = NoFile],
             kept' = [kept EXCEPT ![h.path] = {}]
      PROVE  CliIInv'
  <2>1. PICK p \in CliPaths : p = h.path
    BY ReferenceFacts
  <2>2. /\ session_files \in [CliPaths -> StoredSession] /\ kept \in [CliPaths -> SUBSET Nat]
        /\ turn_count \in Nat /\ CliTypes
    BY CliValues DEF CliIInv, CliTypes
  <2>3. /\ session_files' \in [CliPaths -> StoredSession] /\ session_files'[p] = NoFile
        /\ \A q \in CliPaths : q # p => session_files'[q] = session_files[q]
    BY <1>3, <2>1, <2>2, CliValues
  <2>4. /\ kept' \in [CliPaths -> SUBSET Nat] /\ kept'[p] = {}
        /\ \A q \in CliPaths : q # p => kept'[q] = kept[q]
    BY <1>3, <2>1, <2>2
  <2>5. cli' = cli
    BY <1>1, <1>3
  <2>6. ASSUME NEW q \in CliPaths PROVE FileOK(q)'
    <3>1. CASE q = p
      BY <1>1, <2>2, <2>3, <2>4, <3>1, CliValues DEF FileOK
    <3>2. CASE q # p
      BY <1>1, <2>3, <2>4, <3>2 DEF CliIInv, FileOK
    <3> QED
      BY <3>1, <3>2
  <2>7. cli.path \in CliPaths /\ kept'[cli.path] \subseteq kept[cli.path]
    BY <1>1, <2>4, IdleFacts
  <2>8. FileIsMemory'
    <3> SUFFICES ASSUME cli.path = cli.id PROVE session_files'[cli.path] = cli.session
      BY <2>5 DEF FileIsMemory, session_id_from_path
    <3>1. session_files[cli.path] = cli.session /\ cli.session.sid = cli.id
      BY <1>1, IdleFacts DEF CliIInv, ActiveOK, FileIsMemory, session_id_from_path, Writable
    <3>2. p # cli.path
      BY <1>3, <2>1, <3>1, ReferenceFacts DEF DeletionRefused
    <3> QED
      BY <2>3, <2>7, <3>1, <3>2
  <2>9. ActiveOK'
    <3>1. Writable(cli)' /\ cli.path < next_session' /\ ~cli'.busy
      BY <1>1, <2>5, IdleFacts DEF Writable
    <3>2. kept'[cli.path] \subseteq cli.session.turns \cup cli.session.summary
      BY <1>1, <2>7, IdleFacts
    <3> QED
      BY <2>5, <2>8, <3>1, <3>2 DEF ActiveOK
  <2>10. CliTypes'
    BY <1>1, <2>2, <2>3, <2>4, <2>5 DEF CliTypes
  <2> QED
    BY <2>6, <2>9, <2>10 DEF CliIInv
<1> QED
  BY <1>2, <1>3, Zenon DEF delete_managed_session

LEMMA CopyStep ==
  ASSUME CliIInv, NEW sid \in 1 .. (next_session - 1), NEW root \in {"here", "unset", "other"},
         CopyInto(SessionAt(sid, {}, root, 0))
  PROVE  CliIInv'
<1>1. PICK f : f = SessionAt(sid, {}, root, 0)
  OBVIOUS
<1>2. /\ session_files[0] = NoFile /\ session_files' = [session_files EXCEPT ![0] = f]
      /\ UNCHANGED <<cli, turn_count, next_session, kept>>
  BY <1>1 DEF CopyInto
<1>3. turn_count \in Nat /\ next_session \in Nat /\ next_session >= 1 /\ CliTypes
  BY CliValues DEF CliIInv, CliTypes
<1>4. f \in StoredSession /\ f.turns = {} /\ f.summary = {} /\ f.updated = 0 /\ f.sid >= 1
  BY <1>1, <1>3 DEF SessionAt, StoredSession
<1>5. SessionOK(f, turn_count')
  BY <1>2, <1>3, <1>4 DEF SessionOK
<1>6. kept[0] = {}
  BY <1>2, CliValues DEF CliIInv, FileOK
<1>7. /\ 0 < next_session' /\ next_session' \in {next_session, next_session + 1}
      /\ turn_count' \in Nat /\ turn_count <= turn_count'
  BY <1>2, <1>3
<1>8. /\ session_files' \in [CliPaths -> StoredSession]
      /\ \A q \in CliPaths : q # 0 => session_files'[q] = session_files[q]
      /\ \A q \in CliPaths : FileOK(q)'
  BY <1>2, <1>4, <1>5, <1>6, <1>7, CliValues, SavedFile
<1>9. FileIsMemory'
  <2> SUFFICES ASSUME Idle, cli.path = cli.id PROVE session_files'[cli.path] = cli.session
    BY <1>2 DEF FileIsMemory, Idle, session_id_from_path
  <2>1. cli.path \in CliPaths /\ cli.id >= 1
    BY IdleFacts DEF Writable
  <2>2. session_files[cli.path] = cli.session
    BY DEF CliIInv, ActiveOK, FileIsMemory, session_id_from_path
  <2> QED
    BY <1>8, <2>1, <2>2
<1>10. ActiveOK'
  BY <1>2, <1>9 DEF CliIInv, ActiveOK, Writable
<1> QED
  BY <1>2, <1>3, <1>8, <1>10 DEF CliIInv, CliTypes

LEMMA CliStep == ASSUME CliIInv, CliNext \/ UNCHANGED cliVars PROVE CliIInv'
<1>1. CASE UNCHANGED cliVars
  BY <1>1, EndedStep DEF cliVars
<1>2. CASE KillCli \/ TurnFails
  BY <1>2, EndedStep DEF KillCli, TurnFails, Quit
<1>3. CASE rebuild_runtime
  BY <1>3, SavedAsIsStep, EndedStep DEF rebuild_runtime, Quit
<1>4. CASE ExitRepl
  BY <1>4, SavedAsIsStep DEF ExitRepl, Quit
<1>5. CASE handle_session_command
  BY <1>5, ForkStep, ResumeStep, DeleteStep, Zenon DEF handle_session_command
<1>6. CASE \E sid \in 1 .. (next_session - 1), root \in {"here", "unset", "other"} :
             CopyInto(SessionAt(sid, {}, root, 0))
  BY <1>6, CopyStep, Zenon
<1>7. CASE StartCli \/ compact \/ clear_session \/ TurnBegins \/ TurnDone
  BY <1>7, StartCliStep, CompactStep, ClearStep, TurnBeginsStep, TurnDoneStep, Zenon
<1> QED
  BY <1>1, <1>2, <1>3, <1>4, <1>5, <1>6, <1>7, Zenon DEF CliNext, run_repl, handle_repl_command

LEMMA CliIInvIsEnough == CliIInv => CliSessionsSound
<1> SUFFICES ASSUME CliIInv PROVE CliSessionsSound
  OBVIOUS
<1>1. /\ turn_count \in 0 .. MaxCliTurns /\ MaxCliTurns \in Nat /\ cli \in CliProcess
      /\ session_files \in [CliPaths -> StoredSession] /\ \A p \in CliPaths : FileOK(p)
  BY CliValues DEF CliIInv, CliTypes
<1>2. NoCompletedTurnLost
  BY <1>1 DEF NoCompletedTurnLost, FileOK
<1>3. CliTypeOK
  <2>1. ASSUME NEW p \in CliPaths PROVE kept[p] \subseteq 1 .. MaxCliTurns
    <3>1. kept[p] \subseteq 1 .. turn_count
      BY <1>1 DEF FileOK, SessionOK
    <3>2. 1 .. turn_count \subseteq 1 .. MaxCliTurns
      BY <1>1
    <3> QED
      BY <3>1, <3>2
  <2>2. cli.path \in CliPaths /\ cli.alive \in BOOLEAN /\ (cli.busy => cli.alive)
    BY <1>1 DEF CliProcess, CliIInv, ActiveOK
  <2> QED
    BY <2>1, <2>2 DEF CliTypeOK
<1>4. FileIsMemory /\ SessionsOfThisWorkspace
  BY DEF CliIInv, ActiveOK, Writable, SessionsOfThisWorkspace
<1>5. LatestIsWorkedOnLast
  <2> SUFFICES ASSUME NEW p \in latest_session, NEW q \in collect_sessions_from_dir,
                      NEW t \in session_files[q].turns
               PROVE  session_files[p].updated >= t
    BY DEF LatestIsWorkedOnLast
  <2>1. p \in CliPaths /\ q \in CliPaths
    BY DEF latest_session, collect_sessions_from_dir, Existing
  <2>2. session_files[q].updated <= session_files[p].updated
    BY DEF latest_session
  <2>3. /\ t <= session_files[q].updated /\ t \in Nat
        /\ session_files[q].updated \in Nat /\ session_files[p].updated \in Nat
    BY <1>1, <2>1 DEF FileOK, SessionOK, StoredSession
  <2> QED
    BY <2>2, <2>3
<1> QED
  BY <1>2, <1>3, <1>4, <1>5 DEF CliSessionsSound

\* The interactive command line, for any number of sessions and turns, with commands that
\* leave one session for another, failed turns and kills in any order: a turn that was
\* reported as done stays in its file until that is deleted, the file of the session in
\* hand is what memory holds, and "latest" is the session worked on last.
THEOREM CompletedTurnsStay == PartSpec => []CliSessionsChecked
<1>1. PartInit => CliIInv
  <2>1. CliInit => CliIInv
    <3> SUFFICES ASSUME CliInit PROVE CliIInv
      OBVIOUS
    <3>1. CliTypes
      BY CliValues DEF CliInit, CliTypes
    <3>2. ASSUME NEW p \in CliPaths PROVE FileOK(p)
      <4>1. session_files[p] = NoFile /\ kept[p] = {} /\ turn_count \in Nat
        BY DEF CliInit
      <4> QED
        BY <4>1, CliValues DEF FileOK
    <3>3. ActiveOK
      BY CliValues DEF CliInit, ActiveOK, FileIsMemory, Idle
    <3> QED
      BY <3>1, <3>2, <3>3 DEF CliIInv
  <2> QED
    BY <2>1 DEF PartInit
<1>2. CliIInv /\ [PartNext]_partVars => CliIInv'
  <2> SUFFICES ASSUME CliIInv, [PartNext]_partVars PROVE CliIInv'
    OBVIOUS
  <2>1. CliNext \/ UNCHANGED cliVars
    BY Zenon DEF PartNext, partVars
  <2> QED
    BY <2>1, CliStep
<1>3. CliIInv => CliSessionsChecked
  BY CliIInvIsEnough DEF CliSessionsChecked
<1> QED
  BY <1>1, <1>2, <1>3, PTL DEF PartSpec

-----------------------------------------------------------------------------
(* Commands on a stored session *)

BatchRuns == [count : Int, exit : {"running", "0", "2"}, collided : BOOLEAN]
BatchSessions == [sid : Int, msgs : SUBSET BatchMessages, summary : SUBSET BatchMessages]

BatchIInv ==
  /\ batch \in BatchRuns /\ session_file \in BatchSessions /\ resumed \in BatchSessions
  /\ millis \in 0 .. MaxMillis /\ clear_backups \in [0 .. MaxMillis -> SUBSET BatchMessages]
  /\ BatchFileIsMemory

\* Everything said in a session and in the backups.
HeldIn(s, b) == s.msgs \cup s.summary \cup UNION {b[t] : t \in DOMAIN b}

\* The step of NothingLostByClearing.
KeepsWhatWasHeld ==
  <<session_file, clear_backups>>' # <<session_file, clear_backups>> /\ ~batch'.collided =>
    HeldIn(session_file, clear_backups) \subseteq HeldIn(session_file', clear_backups')

\* Counting a command, giving up, and either with a mark that two clears collided.
LEMMA BatchProgress ==
  ASSUME NEW b \in BatchRuns, NEW c \in BOOLEAN
  PROVE  /\ [b EXCEPT !.count = @ + 1] \in BatchRuns /\ [b EXCEPT !.exit = "2"] \in BatchRuns
         /\ [b EXCEPT !.exit = "2"].exit = "2"
         /\ [b EXCEPT !.count = @ + 1, !.collided = c] \in BatchRuns
         /\ [b EXCEPT !.count = @ + 1, !.collided = c].collided = c
         /\ [b EXCEPT !.exit = "2", !.collided = c] \in BatchRuns
         /\ [b EXCEPT !.exit = "2", !.collided = c].exit = "2"
         /\ [b EXCEPT !.exit = "2", !.collided = c].collided = c
<1>1. PICK n : n = [b EXCEPT !.count = @ + 1]
  OBVIOUS
<1>2. PICK m : m = [b EXCEPT !.exit = "2"]
  OBVIOUS
<1>3. n \in BatchRuns
  BY <1>1 DEF BatchRuns
<1>4. m \in BatchRuns /\ m.exit = "2"
  BY <1>2 DEF BatchRuns
<1>5. [n EXCEPT !.collided = c] \in BatchRuns /\ [n EXCEPT !.collided = c].collided = c
  BY <1>3 DEF BatchRuns
<1>6. /\ [m EXCEPT !.collided = c] \in BatchRuns /\ [m EXCEPT !.collided = c].collided = c
      /\ [m EXCEPT !.collided = c].exit = "2"
  BY <1>4 DEF BatchRuns
<1> QED
  BY <1>1, <1>2, <1>3, <1>4, <1>5, <1>6

LEMMA BatchCompactStep ==
  ASSUME BatchIInv, NEW left, NEW writes \in BOOLEAN, run_compact(left, writes)
  PROVE  BatchIInv' /\ KeepsWhatWasHeld
<1> DEFINE compacted == [resumed EXCEPT !.msgs = left, !.summary = @ \cup (resumed.msgs \ left)]
<1>1. /\ batch.exit = "running" /\ left \subseteq resumed.msgs /\ UNCHANGED <<clear_backups, millis>>
      /\ IF writes THEN session_file' = compacted /\ resumed' = compacted /\ Ran
         ELSE GivesUp /\ UNCHANGED <<session_file, resumed>>
  BY DEF run_compact, Running
<1>2. /\ batch \in BatchRuns /\ session_file = resumed /\ resumed \in BatchSessions
      /\ millis \in 0 .. MaxMillis /\ clear_backups \in [0 .. MaxMillis -> SUBSET BatchMessages]
  BY <1>1 DEF BatchIInv, BatchFileIsMemory
<1>3. batch' \in BatchRuns
  BY <1>1, <1>2, BatchProgress DEF Ran, GivesUp
<1>4. CASE ~writes
  <2>1. batch'.exit = "2"
    BY <1>1, <1>2, <1>4, BatchProgress DEF GivesUp
  <2> QED
    BY <1>1, <1>2, <1>3, <1>4, <2>1 DEF BatchIInv, BatchFileIsMemory, KeepsWhatWasHeld
<1>5. CASE writes
  <2>1. /\ compacted \in BatchSessions
        /\ compacted.msgs \cup compacted.summary = resumed.msgs \cup resumed.summary
    <3> DEFINE one == [resumed EXCEPT !.msgs = left]
    <3>1. /\ one \in BatchSessions /\ one.msgs = left /\ one.summary = resumed.summary
      BY <1>1, <1>2 DEF BatchSessions
    <3>2. compacted = [one EXCEPT !.summary = @ \cup (resumed.msgs \ left)]
      OBVIOUS
    <3> HIDE DEF one, compacted
    <3>3. /\ compacted \in BatchSessions /\ compacted.msgs = left
          /\ compacted.summary = resumed.summary \cup (resumed.msgs \ left)
      BY <1>1, <1>2, <3>1, <3>2 DEF BatchSessions
    <3> QED
      BY <1>1, <3>3
  <2> HIDE DEF compacted
  <2>2. session_file' = compacted /\ resumed' = compacted
    BY <1>1, <1>5
  <2>3. KeepsWhatWasHeld
    BY <1>1, <1>2, <2>1, <2>2 DEF KeepsWhatWasHeld, HeldIn
  <2> QED
    BY <1>1, <1>2, <1>3, <2>1, <2>2, <2>3 DEF BatchIInv, BatchFileIsMemory
<1> QED
  BY <1>4, <1>5

LEMMA BatchClearStep ==
  ASSUME BatchIInv, NEW backs_up \in BOOLEAN, NEW writes \in BOOLEAN, run_clear(backs_up, writes)
  PROVE  BatchIInv' /\ KeepsWhatWasHeld
<1> DEFINE all == resumed.msgs \cup resumed.summary
           fresh == BatchSession(resumed.sid + 1, {})
           collided == batch.collided \/ clear_backups[millis] # {}
<1>1. batch.exit = "running" /\ UNCHANGED millis
  BY DEF run_clear, Running
<1>2. /\ batch \in BatchRuns /\ session_file = resumed /\ resumed \in BatchSessions
      /\ millis \in 0 .. MaxMillis /\ clear_backups \in [0 .. MaxMillis -> SUBSET BatchMessages]
      /\ collided \in BOOLEAN
  BY <1>1 DEF BatchIInv, BatchFileIsMemory, BatchRuns
<1>3. /\ all \subseteq BatchMessages /\ fresh \in BatchSessions
      /\ fresh.msgs = {} /\ fresh.summary = {}
  BY <1>2 DEF BatchSessions, BatchSession
<1>4. CASE ~backs_up
  <2>1. GivesUp /\ UNCHANGED <<clear_backups, session_file, resumed>>
    BY <1>4 DEF run_clear
  <2>2. batch' \in BatchRuns /\ batch'.exit = "2"
    BY <1>2, <2>1, BatchProgress DEF GivesUp
  <2> QED
    BY <1>1, <1>2, <2>1, <2>2 DEF BatchIInv, BatchFileIsMemory, KeepsWhatWasHeld
<1>5. CASE backs_up
  <2>1. clear_backups' = [clear_backups EXCEPT ![millis] = all]
    BY <1>5 DEF run_clear
  <2>2. /\ clear_backups' \in [0 .. MaxMillis -> SUBSET BatchMessages]
        /\ clear_backups'[millis] = all
        /\ \A t \in 0 .. MaxMillis : t # millis => clear_backups'[t] = clear_backups[t]
    BY <1>2, <1>3, <2>1
  <2>3. \/ /\ batch' = [batch EXCEPT !.count = @ + 1, !.collided = collided]
           /\ session_file' = fresh /\ resumed' = fresh
        \/ /\ batch' = [batch EXCEPT !.exit = "2", !.collided = collided]
           /\ UNCHANGED <<session_file, resumed>>
    BY <1>5 DEF run_clear
  <2> HIDE DEF fresh, collided
  <2>4. /\ batch' \in BatchRuns /\ batch'.collided = collided
        /\ batch'.exit = "2" \/ (session_file' = fresh /\ resumed' = fresh)
    <3>1. batch \in BatchRuns /\ collided \in BOOLEAN
      BY <1>2
    <3>2. CASE batch' = [batch EXCEPT !.exit = "2", !.collided = collided]
      BY <3>1, <3>2, BatchProgress, Zenon
    <3>3. CASE /\ batch' = [batch EXCEPT !.count = @ + 1, !.collided = collided]
               /\ session_file' = fresh /\ resumed' = fresh
      BY <3>1, <3>3, BatchProgress, Zenon
    <3> QED
      BY <2>3, <3>2, <3>3
  <2>5. session_file' \in BatchSessions /\ resumed' \in BatchSessions
    BY <1>2, <1>3, <2>3
  <2>6. KeepsWhatWasHeld
    <3> SUFFICES ASSUME ~batch'.collided, NEW x \in HeldIn(session_file, clear_backups)
                 PROVE  x \in HeldIn(session_file', clear_backups')
      BY DEF KeepsWhatWasHeld
    <3>1. clear_backups[millis] = {}
      BY <2>4 DEF collided
    <3>2. DOMAIN clear_backups = 0 .. MaxMillis /\ DOMAIN clear_backups' = 0 .. MaxMillis
      BY <1>2, <2>2
    <3>3. x \in all \/ \E t \in 0 .. MaxMillis : x \in clear_backups[t]
      BY <1>2, <3>2 DEF HeldIn
    <3>4. \E t \in 0 .. MaxMillis : x \in clear_backups'[t]
      BY <1>2, <2>2, <3>1, <3>3
    <3> QED
      BY <3>2, <3>4 DEF HeldIn
  <2> QED
    BY <1>1, <1>2, <2>2, <2>4, <2>5, <2>6 DEF BatchIInv, BatchFileIsMemory
<1> QED
  BY <1>4, <1>5

\* The other commands leave the session and its backups alone.
LEMMA BatchOtherStep ==
  ASSUME BatchIInv, UNCHANGED <<session_file, resumed, clear_backups>>,
         batch' = batch \/ (batch.exit = "running" /\ (Ran \/ GivesUp \/ BatchEnds)),
         millis' = millis \/ ClockTick
  PROVE  BatchIInv' /\ KeepsWhatWasHeld
<1>1. /\ batch \in BatchRuns /\ session_file \in BatchSessions /\ resumed \in BatchSessions
      /\ millis \in 0 .. MaxMillis /\ clear_backups \in [0 .. MaxMillis -> SUBSET BatchMessages]
      /\ BatchFileIsMemory
  BY DEF BatchIInv
<1>2. millis' \in 0 .. MaxMillis
  BY <1>1, BatchAssumption DEF ClockTick
<1>3. batch' \in BatchRuns
  <2>1. [batch EXCEPT !.exit = "0"] \in BatchRuns
    BY <1>1 DEF BatchRuns
  <2> QED
    BY <1>1, <2>1, BatchProgress, ZenonT(30) DEF Ran, GivesUp, BatchEnds
<1>4. BatchFileIsMemory'
  <2>1. batch.exit = "running" => session_file = resumed
    BY <1>1 DEF BatchFileIsMemory
  <2> QED
    BY <1>1, <2>1 DEF BatchFileIsMemory
<1> QED
  BY <1>1, <1>2, <1>3, <1>4 DEF BatchIInv, KeepsWhatWasHeld

LEMMA BatchStep ==
  ASSUME BatchIInv, BatchNext \/ UNCHANGED batchVars
  PROVE  BatchIInv' /\ [KeepsWhatWasHeld]_batchVars
<1>1. CASE UNCHANGED batchVars
  BY <1>1, BatchOtherStep DEF batchVars
<1>2. CASE ClockTick \/ BatchEnds
  BY <1>2, BatchOtherStep DEF ClockTick, BatchEnds
<1>3. ASSUME NEW c, run_report(c) \/ run_unsupported(c) PROVE BatchIInv' /\ KeepsWhatWasHeld
  BY <1>3, BatchOtherStep DEF run_report, run_unsupported, Running
<1>4. ASSUME NEW w \in BOOLEAN, run_export(w) PROVE BatchIInv' /\ KeepsWhatWasHeld
  BY <1>4, BatchOtherStep DEF run_export, Running
<1>5. ASSUME run_resume_command PROVE BatchIInv' /\ KeepsWhatWasHeld
  BY <1>3, <1>4, <1>5, BatchCompactStep, BatchClearStep, Zenon DEF run_resume_command
<1> QED
  BY <1>1, <1>2, <1>5, Zenon DEF BatchNext

\* Slash commands run on a stored session (claw --resume), for any messages, any
\* number of commands and failing writes: after each command the file is what memory
\* holds, and a clear loses nothing that the file or a backup held, unless two clears
\* meet in a millisecond.
THEOREM ClearingLosesNothing == PartSpec => ResumeBatchSound
<1>1. PartInit => BatchIInv
  BY BatchAssumption
     DEF PartInit, BatchInit, BatchIInv, BatchSession, BatchSessions, BatchRuns, BatchFileIsMemory
<1>2. BatchIInv /\ [PartNext]_partVars => BatchIInv' /\ [KeepsWhatWasHeld]_batchVars
  <2> SUFFICES ASSUME BatchIInv, [PartNext]_partVars
               PROVE  BatchIInv' /\ [KeepsWhatWasHeld]_batchVars
    OBVIOUS
  <2>1. BatchNext \/ UNCHANGED batchVars
    BY Zenon DEF PartNext, partVars
  <2> QED
    BY <2>1, BatchStep
<1>3. BatchIInv => BatchFileIsMemory
  BY DEF BatchIInv
<1>4. [KeepsWhatWasHeld]_batchVars =>
        [<<session_file, clear_backups>>' # <<session_file, clear_backups>> /\ ~batch'.collided =>
           LET held(s, b) == s.msgs \cup s.summary \cup UNION {b[t] : t \in DOMAIN b}
           IN  held(session_file, clear_backups) \subseteq held(session_file', clear_backups')]_batchVars
  BY DEF KeepsWhatWasHeld, HeldIn
<1> QED
  BY <1>1, <1>2, <1>3, <1>4, PTL DEF PartSpec, ResumeBatchSound, NothingLostByClearing

-----------------------------------------------------------------------------
(* Session backends *)

Records == [at : Numbers, user : Users \cup {NoUser}]
Contents(C) == [meta : Records, messages : Seq(Rows), checkpoints : C,
                prompts : Seq(Numbers), compaction : Numbers]
Stores(C) == [meta : [Sids -> Records], messages : [Sids -> Seq(Rows)], checkpoints : [Sids -> C],
              prompts : [Sids -> Seq(Numbers)], compaction : [Sids -> Numbers]]
FileStores == [meta : [Sids -> Records], messages : [Sids -> Seq(Rows)], checkpoints : [Sids -> Seq(Rows)],
               prompts : [Sids -> Seq(Numbers)], compaction : [Sids -> Numbers],
               dirs : SUBSET Sids, user_meta : [Users \X Sids -> Records]]

\* What a backend has of one session.
Of(b, s) == [meta |-> b.meta[s], messages |-> b.messages[s], checkpoints |-> b.checkpoints[s],
             prompts |-> b.prompts[s], compaction |-> b.compaction[s]]
Bare(none) == [meta |-> NoRecord, messages |-> <<>>, checkpoints |-> none, prompts |-> <<>>, compaction |-> 0]

\* Does r end with q?
Ends(q, r) == Len(q) <= Len(r) /\ \A i \in 1 .. Len(q) : q[i] = r[i + (Len(r) - Len(q))]

IdsGrow(q, n) ==
  /\ \A i \in 1 .. Len(q) : q[i].at <= n
  /\ \A i, j \in 1 .. Len(q) : i < j => q[i].at < q[j].at
StepsAreUnique(rows) == \A c, d \in rows : c.step = d.step => c = d

\* What of a session is where: m in memory, j in the files, q in the tables.
HeldInOrder(m, j, q) ==
  /\ Ends(q.messages, j.messages) /\ Ends(j.messages, m.messages)
  /\ q.checkpoints \subseteq ToSet(j.checkpoints) /\ Ends(j.checkpoints, m.checkpoints)
  /\ Ends(q.prompts, j.prompts) /\ Ends(j.prompts, m.prompts)
  /\ q.compaction \in {0, j.compaction} /\ j.compaction \in {0, m.compaction}
SessionTypes(m, j, q) ==
  m \in Contents(Seq(Rows)) /\ j \in Contents(Seq(Rows)) /\ q \in Contents(SUBSET Rows)

\* Nothing is kept where there is no directory, or no record for rows to belong to.
BackendsOK(m, j, q, here, n) ==
  /\ SessionTypes(m, j, q) /\ HeldInOrder(m, j, q)
  /\ ~here => j = Bare(<<>>)
  /\ q.meta = NoRecord => q = Bare({})
  /\ IdsGrow(j.messages, n) /\ StepsAreUnique(q.checkpoints)
AgreeOK(m, j, q) == (m.meta = NoRecord <=> j.meta = NoRecord) /\ j.meta = q.meta

SessionsOK(m, j, q, n) ==
  \A s \in Sids : BackendsOK(Of(m, s), Of(j, s), Of(q, s), s \in j.dirs, n)
NobodysRecords(j) == \A u \in Users, s \in Sids : j.user_meta[<<u, s>>] = NoRecord
RecordsOK(m, j, q) ==
  NobodysRecords(j) => \A s \in Sids : AgreeOK(Of(m, s), Of(j, s), Of(q, s))
BackendTypes ==
  ops \in Numbers /\ memory \in Stores(Seq(Rows)) /\ jsonl \in FileStores /\ sqlite \in Stores(SUBSET Rows)

BackendIInv ==
  BackendTypes /\ SessionsOK(memory, jsonl, sqlite, ops) /\ RecordsOK(memory, jsonl, sqlite)

\* Sequences, their ends and their orders.
LEMMA AppendFacts ==
  ASSUME NEW S, NEW q \in Seq(S), NEW x \in S
  PROVE  /\ Append(q, x) \in Seq(S) /\ Len(Append(q, x)) = Len(q) + 1 /\ Len(q) \in Nat
         /\ \A i \in 1 .. Len(q) : Append(q, x)[i] = q[i]
         /\ Append(q, x)[Len(q) + 1] = x
OBVIOUS

LEMMA EmptyEnds == ASSUME NEW S, NEW r \in Seq(S) PROVE Ends(<<>>, r) /\ Ends(r, r)
<1>1. Len(r) \in Nat /\ Len(<<>>) = 0
  OBVIOUS
<1>2. PICK n \in Nat : n = Len(r)
  BY <1>1
<1>3. \A i \in 1 .. n : i + (n - n) = i
  OBVIOUS
<1> QED
  BY <1>1, <1>2, <1>3 DEF Ends

LEMMA EndsTogether ==
  ASSUME NEW S, NEW q \in Seq(S), NEW r \in Seq(S), NEW x \in S, Ends(q, r)
  PROVE  Ends(Append(q, x), Append(r, x))
<1>1. PICK m, n \in Nat : m = Len(q) /\ n = Len(r)
  OBVIOUS
<1>2. PICK q2, r2 : q2 = Append(q, x) /\ r2 = Append(r, x)
  OBVIOUS
<1>3. /\ Len(q2) = m + 1 /\ Len(r2) = n + 1 /\ q2[m + 1] = x /\ r2[n + 1] = x
      /\ \A i \in 1 .. m : q2[i] = q[i]
      /\ \A i \in 1 .. n : r2[i] = r[i]
  BY <1>1, <1>2, AppendFacts
<1>4. m <= n /\ \A i \in 1 .. m : q[i] = r[i + (n - m)]
  BY <1>1 DEF Ends
<1>5. ASSUME NEW i \in 1 .. (m + 1) PROVE q2[i] = r2[i + ((n + 1) - (m + 1))]
  <2>1. CASE i = m + 1
    <3>1. i + ((n + 1) - (m + 1)) = n + 1
      BY <2>1
    <3> QED
      BY <2>1, <3>1, <1>3
  <2>2. CASE i \in 1 .. m
    <3>1. i + ((n + 1) - (m + 1)) = i + (n - m) /\ i + (n - m) \in 1 .. n
      BY <2>2, <1>4
    <3> QED
      BY <2>2, <3>1, <1>3, <1>4
  <2> QED
    BY <2>1, <2>2
<1>6. m + 1 <= n + 1
  BY <1>4
<1> QED
  BY <1>2, <1>3, <1>5, <1>6 DEF Ends

\* An end as long as the whole is the whole.
LEMMA EndIsWhole ==
  ASSUME NEW S, NEW q \in Seq(S), NEW r \in Seq(S), Ends(q, r), Len(q) = Len(r)
  PROVE  q = r
<1>1. PICK n \in Nat : n = Len(q) /\ n = Len(r)
  OBVIOUS
<1>2. \A i \in 1 .. n : i + (n - n) = i
  OBVIOUS
<1>3. \A i \in 1 .. n : q[i] = r[i]
  BY <1>1, <1>2 DEF Ends
<1> QED
  BY <1>1, <1>3

LEMMA EndIsSuffix ==
  ASSUME NEW S, NEW q \in Seq(S), NEW r \in Seq(S), Ends(q, r)
  PROVE  IsSuffix(q, r)
<1>1. PICK m, n \in Nat : m = Len(q) /\ n = Len(r)
  OBVIOUS
<1>2. PICK a, b : a = Reverse(q) /\ b = Reverse(r)
  OBVIOUS
<1>3. /\ a = [i \in 1 .. m |-> q[(m - i) + 1]] /\ b = [i \in 1 .. n |-> r[(n - i) + 1]]
  BY <1>1, <1>2 DEF Reverse
<1>4. a \in Seq(S) /\ b \in Seq(S) /\ Len(a) = m /\ Len(b) = n
  <2>1. \A i \in 1 .. m : (m - i) + 1 \in 1 .. m
    OBVIOUS
  <2>2. \A i \in 1 .. n : (n - i) + 1 \in 1 .. n
    OBVIOUS
  <2>3. a \in [1 .. m -> S] /\ b \in [1 .. n -> S]
    BY <1>1, <1>3, <2>1, <2>2
  <2> QED
    BY <2>3
<1>5. m <= n /\ \A i \in 1 .. m : q[i] = r[i + (n - m)]
  BY <1>1 DEF Ends
<1>6. ASSUME NEW i \in 1 .. m PROVE a[i] = b[i]
  <2>1. m <= n
    BY <1>5
  <2>2. (m - i) + 1 \in 1 .. m /\ ((m - i) + 1) + (n - m) = (n - i) + 1 /\ i \in 1 .. n
    BY <2>1
  <2>3. q[(m - i) + 1] = r[((m - i) + 1) + (n - m)]
    BY <2>2, <1>5
  <2> QED
    BY <2>2, <2>3, <1>3
<1>7. SubSeq(a, 1, m) = SubSeq(b, 1, m)
  BY <1>4, <1>5, <1>6
<1> QED
  BY <1>1, <1>2, <1>4, <1>5, <1>7 DEF IsSuffix, IsPrefix

LEMMA LeastOf == ASSUME NEW T, T \subseteq Nat, T # {} PROVE \E x \in T : \A y \in T : x <= y
<1>1. PICK x \in T : \A y \in T : ~ (<<y, x>> \in OpToRel(<, Nat))
  BY NatLessThanWellFounded, WFMin
<1>2. ASSUME NEW y \in T PROVE x <= y
  <2>1. x \in Nat /\ y \in Nat
    OBVIOUS
  <2>2. ~ (y < x)
    BY <1>1, <2>1 DEF OpToRel
  <2> QED
    BY <2>1, <2>2
<1> QED
  BY <1>2

LEMMA RowsAreNumbers == \A x \in Rows : x.step \in Nat /\ x.at \in Nat
<1>1. Numbers \subseteq Nat /\ Steps \subseteq Nat
  BY BackendAssumption DEF Numbers
<1> QED
  BY <1>1 DEF Rows

LEMMA BeforeFacts ==
  ASSUME NEW x \in Rows, NEW y \in Rows, Before(x, y)
  PROVE  ~Before(y, x) /\ x # y
<1>1. x.step \in Nat /\ y.step \in Nat /\ x.at \in Nat /\ y.at \in Nat
  BY RowsAreNumbers
<1>2. ~Before(y, x)
  BY <1>1 DEF Before
<1> QED
  BY <1>2

\* A set of rows has one order: where two first differ, each would have to hold what
\* the other has there later.
LEMMA OneOrder ==
  ASSUME NEW n \in Nat, NEW q \in [1 .. n -> Rows], NEW r \in [1 .. n -> Rows],
         IsOrdered(q), IsOrdered(r), ToSet(q) = ToSet(r)
  PROVE  q = r
<1> DEFINE D == {i \in 1 .. n : q[i] # r[i]}
<1>1. DOMAIN q = 1 .. n /\ DOMAIN r = 1 .. n
  OBVIOUS
<1>2. SUFFICES ASSUME D # {} PROVE FALSE
  <2>1. D = {} => \A i \in 1 .. n : q[i] = r[i]
    OBVIOUS
  <2> QED
    BY <1>2, <2>1
<1>3. PICK i \in D : \A k \in D : i <= k
  <2>1. D \subseteq Nat
    OBVIOUS
  <2> HIDE DEF D
  <2> QED
    BY <1>2, <2>1, LeastOf
<1>4. i \in 1 .. n /\ q[i] # r[i] /\ q[i] \in Rows /\ r[i] \in Rows
  OBVIOUS
<1>5. \A k \in 1 .. n : k < i => q[k] = r[k]
  BY <1>3
<1> HIDE DEF D
<1>6. PICK k \in 1 .. n : r[k] = q[i]
  <2>1. q[i] \in ToSet(r)
    BY <1>1, <1>4 DEF ToSet
  <2> QED
    BY <1>1, <2>1 DEF ToSet
<1>7. PICK l \in 1 .. n : q[l] = r[i]
  <2>1. r[i] \in ToSet(q)
    BY <1>1, <1>4 DEF ToSet
  <2> QED
    BY <1>1, <2>1 DEF ToSet
<1>8. i < k
  <2>1. k # i
    BY <1>4, <1>6
  <2>2. ASSUME k < i PROVE FALSE
    <3>1. q[k] = q[i]
      BY <2>2, <1>5, <1>6
    <3>2. Before(q[k], q[i])
      BY <2>2, <1>1, <1>4 DEF IsOrdered
    <3>3. q[k] \in Rows
      OBVIOUS
    <3> QED
      BY <1>4, <3>1, <3>2, <3>3, BeforeFacts
  <2> QED
    BY <1>4, <2>1, <2>2
<1>9. i < l
  <2>1. l # i
    BY <1>4, <1>7
  <2>2. ASSUME l < i PROVE FALSE
    <3>1. r[l] = r[i]
      BY <2>2, <1>5, <1>7
    <3>2. Before(r[l], r[i])
      BY <2>2, <1>1, <1>4 DEF IsOrdered
    <3>3. r[l] \in Rows
      OBVIOUS
    <3> QED
      BY <1>4, <3>1, <3>2, <3>3, BeforeFacts
  <2> QED
    BY <1>4, <2>1, <2>2
<1>10. Before(r[i], q[i]) /\ Before(q[i], r[i])
  <2>1. Before(r[i], r[k]) /\ Before(q[i], q[l])
    BY <1>1, <1>4, <1>8, <1>9 DEF IsOrdered
  <2> QED
    BY <2>1, <1>6, <1>7
<1> QED
  BY <1>4, <1>10, BeforeFacts

\* Rows that were stored in order are read as they were stored.
LEMMA ReadAsStored ==
  ASSUME NEW q \in Seq(Rows), IsOrdered(q)
  PROVE  OrderedByStep(ToSet(q)) = q
<1>1. PICK n \in Nat : n = Len(q)
  OBVIOUS
<1>2. q \in [1 .. n -> Rows] /\ DOMAIN q = 1 .. n
  BY <1>1
<1>3. q \in [1 .. n -> ToSet(q)]
  BY <1>1, <1>2 DEF ToSet
<1>4. \A i, j \in 1 .. n : i # j => q[i] # q[j]
  <2> SUFFICES ASSUME NEW i \in 1 .. n, NEW j \in 1 .. n, i # j PROVE q[i] # q[j]
    OBVIOUS
  <2>1. q[i] \in Rows /\ q[j] \in Rows
    BY <1>2
  <2>2. CASE i < j
    BY <2>1, <2>2, <1>2, BeforeFacts DEF IsOrdered
  <2>3. CASE j < i
    BY <2>1, <2>3, <1>2, BeforeFacts DEF IsOrdered
  <2> QED
    BY <2>2, <2>3
<1>5. Cardinality(ToSet(q)) = n
  <2>1. q \in Bijection(1 .. n, ToSet(q))
    <3>1. \A t \in ToSet(q) : \E s \in 1 .. n : q[s] = t
      BY <1>2 DEF ToSet
    <3> QED
      BY <1>3, <1>4, <3>1 DEF Bijection, Injection, Surjection, IsInjective
  <2>2. ExistsBijection(1 .. n, ToSet(q))
    BY <2>1 DEF ExistsBijection
  <2> QED
    BY <2>2, FS_CountingElements
<1>6. PICK rows : rows = ToSet(q)
  OBVIOUS
<1>7. OrderedByStep(rows) = CHOOSE p \in [1 .. n -> rows] : IsOrdered(p) /\ ToSet(p) = rows
  BY <1>5, <1>6 DEF OrderedByStep
<1>8. \E p \in [1 .. n -> rows] : IsOrdered(p) /\ ToSet(p) = rows
  BY <1>3, <1>6
<1>9. PICK p : p = OrderedByStep(rows)
  OBVIOUS
<1>10. p \in [1 .. n -> rows] /\ IsOrdered(p) /\ ToSet(p) = rows
  BY <1>7, <1>8, <1>9
<1>11. rows \subseteq Rows
  BY <1>2, <1>6 DEF ToSet
<1>12. p \in [1 .. n -> Rows]
  BY <1>10, <1>11
<1>13. p = q
  BY <1>2, <1>6, <1>10, <1>12, OneOrder
<1> QED
  BY <1>6, <1>9, <1>13

LEMMA IdsLater ==
  ASSUME NEW q \in Seq(Rows), NEW n \in Nat, IdsGrow(q, n)
  PROVE  /\ IdsGrow(q, n + 1)
         /\ \A x \in Rows : x.at = n + 1 => IdsGrow(Append(q, x), n + 1)
<1>1. PICK l \in Nat : l = Len(q)
  OBVIOUS
<1>2. \A i \in 1 .. l : q[i] \in Rows /\ q[i].at \in Nat /\ q[i].at <= n
  <2>1. \A i \in 1 .. l : q[i] \in Rows /\ q[i].at <= n
    BY <1>1 DEF IdsGrow
  <2> QED
    BY <2>1, RowsAreNumbers
<1>3. \A i, k \in 1 .. l : i < k => q[i].at < q[k].at
  BY <1>1 DEF IdsGrow
<1>4. IdsGrow(q, n + 1)
  <2>1. \A i \in 1 .. l : q[i].at <= n + 1
    BY <1>2
  <2> QED
    BY <1>1, <1>3, <2>1 DEF IdsGrow
<1>5. ASSUME NEW x \in Rows, x.at = n + 1 PROVE IdsGrow(Append(q, x), n + 1)
  <2>1. PICK p : p = Append(q, x)
    OBVIOUS
  <2>2. Len(p) = l + 1 /\ p[l + 1] = x /\ \A i \in 1 .. l : p[i] = q[i]
    BY <1>1, <2>1, AppendFacts
  <2>3. ASSUME NEW i \in 1 .. (l + 1) PROVE p[i].at <= n + 1
    <3>1. CASE i = l + 1
      BY <3>1, <2>2, <1>5
    <3>2. CASE i \in 1 .. l
      BY <3>2, <2>2, <1>2
    <3> QED
      BY <3>1, <3>2
  <2>4. ASSUME NEW i \in 1 .. (l + 1), NEW k \in 1 .. (l + 1), i < k PROVE p[i].at < p[k].at
    <3>1. i \in 1 .. l
      BY <2>4
    <3>2. CASE k = l + 1
      BY <3>1, <3>2, <2>2, <1>2, <1>5
    <3>3. CASE k \in 1 .. l
      BY <3>1, <3>3, <2>2, <2>4, <1>3
    <3> QED
      BY <3>2, <3>3
  <2> QED
    BY <2>1, <2>2, <2>3, <2>4 DEF IdsGrow
<1> QED
  BY <1>4, <1>5

LEMMA NothingHeld ==
  /\ NoRecord \in Records /\ <<>> \in Seq(Rows) /\ <<>> \in Seq(Numbers) /\ {} \in SUBSET Rows
  /\ 0 \in Numbers
  /\ Bare(<<>>) \in Contents(Seq(Rows)) /\ Bare({}) \in Contents(SUBSET Rows)
<1>1. 0 \in Numbers
  BY BackendAssumption DEF Numbers
<1>2. NoRecord \in Records
  BY <1>1 DEF NoRecord, Records
<1>3. <<>> \in Seq(Rows) /\ <<>> \in Seq(Numbers) /\ {} \in SUBSET Rows
  OBVIOUS
<1> QED
  BY <1>1, <1>2, <1>3 DEF Bare, Contents

Made(a, x, c, p, k) == [meta |-> a, messages |-> x, checkpoints |-> c, prompts |-> p, compaction |-> k]
FieldsAre(r, a, x, c, p, k) ==
  r.meta = a /\ r.messages = x /\ r.checkpoints = c /\ r.prompts = p /\ r.compaction = k

LEMMA MadeLists ==
  ASSUME NEW a \in Records, NEW x \in Seq(Rows), NEW c \in Seq(Rows), NEW p \in Seq(Numbers), NEW k \in Numbers,
         NEW r, r = Made(a, x, c, p, k)
  PROVE  r \in Contents(Seq(Rows)) /\ FieldsAre(r, a, x, c, p, k)
BY DEF Made, FieldsAre, Contents

LEMMA MadeTables ==
  ASSUME NEW a \in Records, NEW x \in Seq(Rows), NEW c \in SUBSET Rows, NEW p \in Seq(Numbers), NEW k \in Numbers,
         NEW r, r = Made(a, x, c, p, k)
  PROVE  r \in Contents(SUBSET Rows) /\ FieldsAre(r, a, x, c, p, k)
BY DEF Made, FieldsAre, Contents

LEMMA BareIs ==
  /\ FieldsAre(Bare(<<>>), NoRecord, <<>>, <<>>, <<>>, 0) /\ FieldsAre(Bare({}), NoRecord, <<>>, {}, <<>>, 0)
  /\ Bare(<<>>) = Made(NoRecord, <<>>, <<>>, <<>>, 0) /\ Bare({}) = Made(NoRecord, <<>>, {}, <<>>, 0)
BY DEF FieldsAre, Bare, Made

\* The types of what a session has, one by one.
FieldTypes(m, j, q) ==
  /\ m.meta \in Records /\ m.messages \in Seq(Rows) /\ m.checkpoints \in Seq(Rows)
  /\ m.prompts \in Seq(Numbers)
  /\ m.compaction \in Numbers
  /\ j.meta \in Records /\ j.messages \in Seq(Rows) /\ j.checkpoints \in Seq(Rows)
  /\ j.prompts \in Seq(Numbers)
  /\ j.compaction \in Numbers
  /\ q.meta \in Records /\ q.messages \in Seq(Rows) /\ q.checkpoints \in SUBSET Rows
  /\ q.prompts \in Seq(Numbers)
  /\ q.compaction \in Numbers
LEMMA FieldTypesAre ==
  ASSUME NEW m, NEW j, NEW q, SessionTypes(m, j, q) PROVE FieldTypes(m, j, q)
BY DEF FieldTypes, SessionTypes, Contents

HeldBefore(m, j, q, here, n) ==
  /\ SessionTypes(m, j, q) /\ FieldTypes(m, j, q) /\ HeldInOrder(m, j, q)
  /\ IdsGrow(j.messages, n) /\ IdsGrow(j.messages, n + 1) /\ StepsAreUnique(q.checkpoints)
  /\ (~here => j = Bare(<<>>)) /\ (q.meta = NoRecord => q = Bare({}))

\* A later number keeps what holds of the numbers before.
LEMMA IdsStay ==
  ASSUME NEW m, NEW j, NEW q, NEW here, NEW n \in Nat, BackendsOK(m, j, q, here, n)
  PROVE  HeldBefore(m, j, q, here, n)
<1>1. /\ SessionTypes(m, j, q) /\ HeldInOrder(m, j, q)
      /\ IdsGrow(j.messages, n) /\ StepsAreUnique(q.checkpoints)
      /\ (~here => j = Bare(<<>>)) /\ (q.meta = NoRecord => q = Bare({}))
  BY Zenon DEF BackendsOK
<1>2. FieldTypes(m, j, q)
  BY <1>1, FieldTypesAre
<1>3. IdsGrow(j.messages, n + 1)
  BY <1>1, <1>2, IdsLater DEF FieldTypes
<1> QED
  BY <1>1, <1>2, <1>3, Zenon DEF HeldBefore

\* The record r in memory and in the tables; the files have what they had, or r too.
WithRecord(m, m2, q2, r) ==
  m2 = Made(r, m.messages, m.checkpoints, m.prompts, m.compaction) /\ q2 = Made(r, <<>>, {}, <<>>, 0)
RecordOK(j, m2, j2, q2, r, here, n) ==
  /\ j2 = j => BackendsOK(m2, j2, q2, here, n)
  /\ j2 = Made(r, j.messages, j.checkpoints, j.prompts, j.compaction) =>
       BackendsOK(m2, j2, q2, TRUE, n) /\ AgreeOK(m2, j2, q2)

\* A record that is saved takes the rows of its session from the tables; a record
\* with a user name does not reach the directory of the session.
LEMMA RecordSaved ==
  ASSUME NEW m, NEW j, NEW q, NEW here \in BOOLEAN, NEW n \in Nat, BackendsOK(m, j, q, here, n),
         NEW r \in Records, r # NoRecord, NEW m2, NEW j2, NEW q2, WithRecord(m, m2, q2, r)
  PROVE  RecordOK(j, m2, j2, q2, r, here, n + 1)
<1>1. /\ FieldTypes(m, j, q) /\ HeldInOrder(m, j, q) /\ SessionTypes(m, j, q)
      /\ IdsGrow(j.messages, n) /\ IdsGrow(j.messages, n + 1) /\ StepsAreUnique(q.checkpoints)
      /\ (~here => j = Bare(<<>>)) /\ (q.meta = NoRecord => q = Bare({}))
  <2>1. HeldBefore(m, j, q, here, n)
    BY IdsStay
  <2> QED
    BY <2>1 DEF HeldBefore
<1>2. m2 \in Contents(Seq(Rows)) /\ FieldsAre(m2, r, m.messages, m.checkpoints, m.prompts, m.compaction)
  BY <1>1, MadeLists DEF FieldTypes, WithRecord
<1>3. q2 \in Contents(SUBSET Rows) /\ FieldsAre(q2, r, <<>>, {}, <<>>, 0)
  BY NothingHeld, MadeTables DEF WithRecord
<1>4. Ends(<<>>, j.messages) /\ Ends(<<>>, j.prompts) /\ StepsAreUnique({})
  BY <1>1, EmptyEnds DEF FieldTypes, StepsAreUnique
<1>5. ASSUME j2 = j PROVE BackendsOK(m2, j2, q2, here, n + 1)
  <2>1. SessionTypes(m2, j2, q2)
    BY <1>1, <1>2, <1>3, <1>5, Zenon DEF SessionTypes
  <2>2. HeldInOrder(m2, j2, q2)
    BY <1>1, <1>2, <1>3, <1>4, <1>5 DEF HeldInOrder, FieldsAre
  <2> QED
    BY <2>1, <2>2, <1>1, <1>3, <1>4, <1>5 DEF BackendsOK, FieldsAre
<1>6. ASSUME j2 = Made(r, j.messages, j.checkpoints, j.prompts, j.compaction)
      PROVE  BackendsOK(m2, j2, q2, TRUE, n + 1) /\ AgreeOK(m2, j2, q2)
  <2>1. j2 \in Contents(Seq(Rows)) /\ FieldsAre(j2, r, j.messages, j.checkpoints, j.prompts, j.compaction)
    BY <1>1, <1>6, MadeLists DEF FieldTypes
  <2>2. SessionTypes(m2, j2, q2)
    BY <1>2, <1>3, <2>1, Zenon DEF SessionTypes
  <2>3. HeldInOrder(m2, j2, q2)
    BY <1>1, <1>2, <1>3, <1>4, <2>1 DEF HeldInOrder, FieldsAre
  <2>4. AgreeOK(m2, j2, q2)
    BY <1>2, <1>3, <2>1 DEF AgreeOK, FieldsAre
  <2> QED
    BY <2>1, <2>2, <2>3, <2>4, <1>1, <1>3, <1>4 DEF BackendsOK, FieldsAre
<1> QED
  BY <1>5, <1>6 DEF RecordOK

WithoutRecord(m, m2, j2, q2) ==
  /\ m2 = Made(NoRecord, m.messages, m.checkpoints, m.prompts, m.compaction)
  /\ q2 = Bare({}) /\ j2 = Bare(<<>>)

LEMMA SessionDeleted ==
  ASSUME NEW m, NEW j, NEW q, NEW here \in BOOLEAN, NEW n \in Nat, BackendsOK(m, j, q, here, n),
         NEW m2, NEW j2, NEW q2, WithoutRecord(m, m2, j2, q2)
  PROVE  BackendsOK(m2, j2, q2, FALSE, n + 1) /\ AgreeOK(m2, j2, q2)
<1>1. /\ FieldTypes(m, j, q) /\ HeldInOrder(m, j, q) /\ SessionTypes(m, j, q)
      /\ IdsGrow(j.messages, n) /\ IdsGrow(j.messages, n + 1) /\ StepsAreUnique(q.checkpoints)
      /\ (~here => j = Bare(<<>>)) /\ (q.meta = NoRecord => q = Bare({}))
  <2>1. HeldBefore(m, j, q, here, n)
    BY IdsStay
  <2> QED
    BY <2>1 DEF HeldBefore
<1>2. m2 \in Contents(Seq(Rows))
        /\ FieldsAre(m2, NoRecord, m.messages, m.checkpoints, m.prompts, m.compaction)
  BY <1>1, NothingHeld, MadeLists DEF FieldTypes, WithoutRecord
<1>3. /\ FieldsAre(j2, NoRecord, <<>>, <<>>, <<>>, 0) /\ FieldsAre(q2, NoRecord, <<>>, {}, <<>>, 0)
  BY BareIs DEF WithoutRecord
<1>4. SessionTypes(m2, j2, q2)
  <2>1. j2 \in Contents(Seq(Rows)) /\ q2 \in Contents(SUBSET Rows)
    BY NothingHeld DEF WithoutRecord
  <2> QED
    BY <1>2, <2>1, Zenon DEF SessionTypes
<1>5. HeldInOrder(m2, j2, q2)
  <2>1. Ends(<<>>, m.messages) /\ Ends(<<>>, m.checkpoints) /\ Ends(<<>>, m.prompts)
    BY <1>1, EmptyEnds DEF FieldTypes
  <2>2. Ends(<<>>, <<>>)
    BY NothingHeld, EmptyEnds
  <2> QED
    BY <2>1, <2>2, <1>2, <1>3 DEF HeldInOrder, FieldsAre
<1>6. IdsGrow(<<>>, n + 1) /\ StepsAreUnique({})
  BY DEF IdsGrow, StepsAreUnique
<1>7. BackendsOK(m2, j2, q2, FALSE, n + 1)
  BY <1>3, <1>4, <1>5, <1>6 DEF BackendsOK, FieldsAre, WithoutRecord
<1> QED
  BY <1>2, <1>3, <1>7 DEF AgreeOK, FieldsAre

\* A record is as old as the last message of its session.
Touched(r, at) == IF r = NoRecord THEN r ELSE [r EXCEPT !.at = at]

LEMMA TouchedIs ==
  ASSUME NEW r \in Records, NEW at \in Numbers, at # 0
  PROVE  Touched(r, at) \in Records /\ (Touched(r, at) = NoRecord <=> r = NoRecord)
<1>1. CASE r = NoRecord
  BY <1>1 DEF Touched
<1>2. CASE r # NoRecord
  <2>1. PICK x : x = [r EXCEPT !.at = at]
    OBVIOUS
  <2>2. x = [at |-> at, user |-> r.user]
    BY <2>1 DEF Records
  <2>3. x \in Records /\ x # NoRecord
    BY <2>2 DEF Records, NoRecord
  <2> QED
    BY <1>2, <2>1, <2>3 DEF Touched
<1> QED
  BY <1>1, <1>2

\* The session has a directory, and its records still agree if they did.
KeptOK(m, j, q, m2, j2, q2, n) ==
  BackendsOK(m2, j2, q2, TRUE, n) /\ (AgreeOK(m, j, q) => AgreeOK(m2, j2, q2))

WithMessage(m, j, q, m2, j2, q2, row) ==
  /\ m2 = Made(m.meta, Append(m.messages, row), m.checkpoints, m.prompts, m.compaction)
  /\ j2 = Made(Touched(j.meta, row.at), Append(j.messages, row), j.checkpoints, j.prompts, j.compaction)
  /\ q2 = IF q.meta = NoRecord THEN q
          ELSE Made(Touched(q.meta, row.at), Append(q.messages, row), q.checkpoints, q.prompts, q.compaction)

\* A message goes to the end of every list it goes to; a table takes it if the session
\* has a record.
LEMMA MessageAppended ==
  ASSUME NEW m, NEW j, NEW q, NEW here \in BOOLEAN, NEW n \in Nat, BackendsOK(m, j, q, here, n),
         NEW row \in Rows, row.at = n + 1,
         NEW m2, NEW j2, NEW q2, WithMessage(m, j, q, m2, j2, q2, row)
  PROVE  KeptOK(m, j, q, m2, j2, q2, n + 1)
<1>1. /\ FieldTypes(m, j, q) /\ HeldInOrder(m, j, q) /\ SessionTypes(m, j, q)
      /\ IdsGrow(j.messages, n) /\ IdsGrow(j.messages, n + 1) /\ StepsAreUnique(q.checkpoints)
      /\ (~here => j = Bare(<<>>)) /\ (q.meta = NoRecord => q = Bare({}))
  <2>1. HeldBefore(m, j, q, here, n)
    BY IdsStay
  <2> QED
    BY <2>1 DEF HeldBefore
<1>2. PICK x \in Seq(Rows) : x = Append(m.messages, row)
  BY <1>1, AppendFacts DEF FieldTypes
<1>3. PICK y \in Seq(Rows) : y = Append(j.messages, row)
  BY <1>1, AppendFacts DEF FieldTypes
<1>4. PICK z \in Seq(Rows) : z = Append(q.messages, row)
  BY <1>1, AppendFacts DEF FieldTypes
<1>5. row.at \in Numbers /\ row.at # 0
  BY DEF Rows
<1>5a. PICK a, b \in Records : /\ a = Touched(j.meta, row.at) /\ (a = NoRecord <=> j.meta = NoRecord)
                              /\ b = Touched(q.meta, row.at) /\ (b = NoRecord <=> q.meta = NoRecord)
  BY <1>1, <1>5, TouchedIs DEF FieldTypes
<1>6. Ends(y, x) /\ Ends(z, y) /\ Ends(<<>>, y) /\ IdsGrow(y, n + 1)
  <2>1. /\ m.messages \in Seq(Rows) /\ j.messages \in Seq(Rows) /\ q.messages \in Seq(Rows)
        /\ Ends(j.messages, m.messages) /\ Ends(q.messages, j.messages)
    BY <1>1 DEF FieldTypes, HeldInOrder
  <2> QED
    BY <2>1, <1>1, <1>2, <1>3, <1>4, EndsTogether, EmptyEnds, IdsLater
<1>7. /\ m2 = Made(m.meta, x, m.checkpoints, m.prompts, m.compaction)
      /\ j2 = Made(a, y, j.checkpoints, j.prompts, j.compaction)
      /\ q.meta # NoRecord => q2 = Made(b, z, q.checkpoints, q.prompts, q.compaction)
      /\ q.meta = NoRecord => q2 = q
  BY <1>2, <1>3, <1>4, <1>5a DEF WithMessage
<1>8. /\ m2 \in Contents(Seq(Rows))
      /\ FieldsAre(m2, m.meta, x, m.checkpoints, m.prompts, m.compaction)
  BY <1>1, <1>7, MadeLists DEF FieldTypes
<1>9. /\ j2 \in Contents(Seq(Rows))
      /\ FieldsAre(j2, a, y, j.checkpoints, j.prompts, j.compaction)
  BY <1>1, <1>7, MadeLists DEF FieldTypes
<1>10. CASE q.meta # NoRecord
  <2>1. /\ q2 \in Contents(SUBSET Rows)
        /\ FieldsAre(q2, b, z, q.checkpoints, q.prompts, q.compaction)
    BY <1>1, <1>7, <1>10, MadeTables DEF FieldTypes
  <2>2. SessionTypes(m2, j2, q2)
    BY <1>8, <1>9, <2>1, Zenon DEF SessionTypes
  <2>3. HeldInOrder(m2, j2, q2)
    BY <1>1, <1>6, <1>8, <1>9, <2>1 DEF HeldInOrder, FieldsAre
  <2>4. q2.meta # NoRecord
    BY <1>10, <2>1, <1>5a DEF FieldsAre
  <2>5. BackendsOK(m2, j2, q2, TRUE, n + 1)
    BY <1>1, <1>6, <1>9, <2>1, <2>2, <2>3, <2>4 DEF BackendsOK, FieldsAre
  <2>6. AgreeOK(m, j, q) => AgreeOK(m2, j2, q2)
    BY <1>8, <1>9, <2>1, <1>5a DEF AgreeOK, FieldsAre
  <2> QED
    BY <2>5, <2>6 DEF KeptOK
<1>11. CASE q.meta = NoRecord
  <2>1. q2 = q /\ FieldsAre(q, NoRecord, <<>>, {}, <<>>, 0) /\ q = Bare({})
    BY <1>1, <1>7, <1>11, BareIs
  <2>2. SessionTypes(m2, j2, q2)
    BY <1>1, <1>8, <1>9, <2>1, Zenon DEF SessionTypes
  <2>3. HeldInOrder(m2, j2, q2)
    BY <1>1, <1>6, <1>8, <1>9, <2>1 DEF HeldInOrder, FieldsAre
  <2>4. BackendsOK(m2, j2, q2, TRUE, n + 1)
    BY <1>1, <1>6, <1>9, <2>1, <2>2, <2>3 DEF BackendsOK, FieldsAre
  <2>5. AgreeOK(m, j, q) => AgreeOK(m2, j2, q2)
    BY <1>8, <1>9, <2>1, <1>5a DEF AgreeOK, FieldsAre
  <2> QED
    BY <2>4, <2>5 DEF KeptOK
<1> QED
  BY <1>10, <1>11

LEMMA OneMoreRow ==
  ASSUME NEW q \in Seq(Rows), NEW row \in Rows
  PROVE  ToSet(q) \subseteq ToSet(Append(q, row)) /\ row \in ToSet(Append(q, row))
<1>1. PICK l \in Nat : l = Len(q)
  OBVIOUS
<1>2. PICK y : y = Append(q, row)
  OBVIOUS
<1>3. /\ DOMAIN q = 1 .. l /\ DOMAIN y = 1 .. (l + 1) /\ y[l + 1] = row
      /\ \A i \in 1 .. l : y[i] = q[i]
  BY <1>1, <1>2, AppendFacts
<1>4. 1 .. l \subseteq 1 .. (l + 1) /\ l + 1 \in 1 .. (l + 1)
  OBVIOUS
<1>5. ToSet(q) \subseteq ToSet(y)
  BY <1>3, <1>4 DEF ToSet
<1>6. row \in ToSet(y)
  BY <1>3, <1>4 DEF ToSet
<1> QED
  BY <1>2, <1>5, <1>6

WithCheckpoint(m, j, q, m2, j2, q2, row) ==
  /\ m2 = Made(m.meta, m.messages, Append(m.checkpoints, row), m.prompts, m.compaction)
  /\ j2 = Made(j.meta, j.messages, Append(j.checkpoints, row), j.prompts, j.compaction)
  /\ q2 = IF q.meta = NoRecord THEN q
          ELSE Made(q.meta, q.messages,
                    {c \in q.checkpoints : c.step # row.step} \cup {row}, q.prompts, q.compaction)

\* A checkpoint goes to the end of the lists and takes the place of the row of its step.
LEMMA CheckpointSaved ==
  ASSUME NEW m, NEW j, NEW q, NEW here \in BOOLEAN, NEW n \in Nat, BackendsOK(m, j, q, here, n),
         NEW row \in Rows,
         NEW m2, NEW j2, NEW q2, WithCheckpoint(m, j, q, m2, j2, q2, row)
  PROVE  KeptOK(m, j, q, m2, j2, q2, n + 1)
<1>1. /\ FieldTypes(m, j, q) /\ HeldInOrder(m, j, q) /\ SessionTypes(m, j, q)
      /\ IdsGrow(j.messages, n) /\ IdsGrow(j.messages, n + 1) /\ StepsAreUnique(q.checkpoints)
      /\ (~here => j = Bare(<<>>)) /\ (q.meta = NoRecord => q = Bare({}))
  <2>1. HeldBefore(m, j, q, here, n)
    BY IdsStay
  <2> QED
    BY <2>1 DEF HeldBefore
<1>2. PICK x \in Seq(Rows) : x = Append(m.checkpoints, row)
  BY <1>1, AppendFacts DEF FieldTypes
<1>3. PICK y \in Seq(Rows) : y = Append(j.checkpoints, row)
  BY <1>1, AppendFacts DEF FieldTypes
<1>4. PICK z \in SUBSET Rows : z = {c \in q.checkpoints : c.step # row.step} \cup {row}
  <2>1. q.checkpoints \in SUBSET Rows
    BY <1>1 DEF FieldTypes
  <2> QED
    BY <2>1
<1>5. ToSet(j.checkpoints) \subseteq ToSet(y) /\ row \in ToSet(y)
  BY <1>1, <1>3, OneMoreRow DEF FieldTypes
<1>6. Ends(y, x) /\ z \subseteq ToSet(y) /\ StepsAreUnique(z)
  <2>1. /\ Ends(j.checkpoints, m.checkpoints) /\ q.checkpoints \subseteq ToSet(j.checkpoints)
        /\ m.checkpoints \in Seq(Rows) /\ j.checkpoints \in Seq(Rows)
    BY <1>1 DEF FieldTypes, HeldInOrder
  <2>2. Ends(y, x)
    BY <2>1, <1>2, <1>3, EndsTogether
  <2>3. z \subseteq ToSet(y)
    BY <2>1, <1>4, <1>5
  <2>4. StepsAreUnique(z)
    BY <1>1, <1>4 DEF StepsAreUnique
  <2> QED
    BY <2>2, <2>3, <2>4
<1>7. /\ m2 = Made(m.meta, m.messages, x, m.prompts, m.compaction)
      /\ j2 = Made(j.meta, j.messages, y, j.prompts, j.compaction)
      /\ q.meta # NoRecord => q2 = Made(q.meta, q.messages, z, q.prompts, q.compaction)
      /\ q.meta = NoRecord => q2 = q
  BY <1>2, <1>3, <1>4 DEF WithCheckpoint
<1>8. /\ m2 \in Contents(Seq(Rows))
      /\ FieldsAre(m2, m.meta, m.messages, x, m.prompts, m.compaction)
  BY <1>1, <1>7, MadeLists DEF FieldTypes
<1>9. /\ j2 \in Contents(Seq(Rows))
      /\ FieldsAre(j2, j.meta, j.messages, y, j.prompts, j.compaction)
  BY <1>1, <1>7, MadeLists DEF FieldTypes
<1>10. CASE q.meta # NoRecord
  <2>1. /\ q2 \in Contents(SUBSET Rows)
        /\ FieldsAre(q2, q.meta, q.messages, z, q.prompts, q.compaction)
    BY <1>1, <1>7, <1>10, MadeTables DEF FieldTypes
  <2>2. SessionTypes(m2, j2, q2)
    BY <1>8, <1>9, <2>1, Zenon DEF SessionTypes
  <2>3. HeldInOrder(m2, j2, q2)
    BY <1>1, <1>6, <1>8, <1>9, <2>1 DEF HeldInOrder, FieldsAre
  <2>4. q2.meta # NoRecord
    BY <1>10, <2>1 DEF FieldsAre
  <2>5. BackendsOK(m2, j2, q2, TRUE, n + 1)
    BY <1>1, <1>6, <1>9, <2>1, <2>2, <2>3, <2>4 DEF BackendsOK, FieldsAre
  <2>6. AgreeOK(m, j, q) => AgreeOK(m2, j2, q2)
    BY <1>8, <1>9, <2>1 DEF AgreeOK, FieldsAre
  <2> QED
    BY <2>5, <2>6 DEF KeptOK
<1>11. CASE q.meta = NoRecord
  <2>1. q2 = q /\ FieldsAre(q, NoRecord, <<>>, {}, <<>>, 0) /\ q = Bare({})
    BY <1>1, <1>7, <1>11, BareIs
  <2>2. SessionTypes(m2, j2, q2)
    BY <1>1, <1>8, <1>9, <2>1, Zenon DEF SessionTypes
  <2>3. HeldInOrder(m2, j2, q2)
    BY <1>1, <1>6, <1>8, <1>9, <2>1 DEF HeldInOrder, FieldsAre
  <2>4. BackendsOK(m2, j2, q2, TRUE, n + 1)
    BY <1>1, <1>6, <1>9, <2>1, <2>2, <2>3 DEF BackendsOK, FieldsAre
  <2>5. AgreeOK(m, j, q) => AgreeOK(m2, j2, q2)
    BY <1>8, <1>9, <2>1 DEF AgreeOK, FieldsAre
  <2> QED
    BY <2>4, <2>5 DEF KeptOK
<1> QED
  BY <1>10, <1>11

WithPrompt(m, j, q, m2, j2, q2, at) ==
  /\ m2 = Made(m.meta, m.messages, m.checkpoints, Append(m.prompts, at), m.compaction)
  /\ j2 = Made(j.meta, j.messages, j.checkpoints, Append(j.prompts, at), j.compaction)
  /\ q2 = IF q.meta = NoRecord THEN q
          ELSE Made(q.meta, q.messages, q.checkpoints, Append(q.prompts, at), q.compaction)

\* A prompt or a compaction is kept everywhere, but not in the tables of a session
\* without a record.
LEMMA PromptSaved ==
  ASSUME NEW m, NEW j, NEW q, NEW here \in BOOLEAN, NEW n \in Nat, BackendsOK(m, j, q, here, n),
         NEW at \in Numbers,
         NEW m2, NEW j2, NEW q2, WithPrompt(m, j, q, m2, j2, q2, at)
  PROVE  KeptOK(m, j, q, m2, j2, q2, n + 1)
<1>1. /\ FieldTypes(m, j, q) /\ HeldInOrder(m, j, q) /\ SessionTypes(m, j, q)
      /\ IdsGrow(j.messages, n) /\ IdsGrow(j.messages, n + 1) /\ StepsAreUnique(q.checkpoints)
      /\ (~here => j = Bare(<<>>)) /\ (q.meta = NoRecord => q = Bare({}))
  <2>1. HeldBefore(m, j, q, here, n)
    BY IdsStay
  <2> QED
    BY <2>1 DEF HeldBefore
<1>2. PICK x \in Seq(Numbers) : x = Append(m.prompts, at)
  BY <1>1, AppendFacts DEF FieldTypes
<1>3. PICK y \in Seq(Numbers) : y = Append(j.prompts, at)
  BY <1>1, AppendFacts DEF FieldTypes
<1>4. PICK z \in Seq(Numbers) : z = Append(q.prompts, at)
  BY <1>1, AppendFacts DEF FieldTypes
<1>6. Ends(y, x) /\ Ends(z, y) /\ Ends(<<>>, y)
  <2>1. /\ m.prompts \in Seq(Numbers) /\ j.prompts \in Seq(Numbers) /\ q.prompts \in Seq(Numbers)
        /\ Ends(j.prompts, m.prompts) /\ Ends(q.prompts, j.prompts)
    BY <1>1 DEF FieldTypes, HeldInOrder
  <2> QED
    BY <2>1, <1>2, <1>3, <1>4, EndsTogether, EmptyEnds
<1>7. /\ m2 = Made(m.meta, m.messages, m.checkpoints, x, m.compaction)
      /\ j2 = Made(j.meta, j.messages, j.checkpoints, y, j.compaction)
      /\ q.meta # NoRecord => q2 = Made(q.meta, q.messages, q.checkpoints, z, q.compaction)
      /\ q.meta = NoRecord => q2 = q
  BY <1>2, <1>3, <1>4 DEF WithPrompt
<1>8. /\ m2 \in Contents(Seq(Rows))
      /\ FieldsAre(m2, m.meta, m.messages, m.checkpoints, x, m.compaction)
  BY <1>1, <1>7, MadeLists DEF FieldTypes
<1>9. /\ j2 \in Contents(Seq(Rows))
      /\ FieldsAre(j2, j.meta, j.messages, j.checkpoints, y, j.compaction)
  BY <1>1, <1>7, MadeLists DEF FieldTypes
<1>10. CASE q.meta # NoRecord
  <2>1. /\ q2 \in Contents(SUBSET Rows)
        /\ FieldsAre(q2, q.meta, q.messages, q.checkpoints, z, q.compaction)
    BY <1>1, <1>7, <1>10, MadeTables DEF FieldTypes
  <2>2. SessionTypes(m2, j2, q2)
    BY <1>8, <1>9, <2>1, Zenon DEF SessionTypes
  <2>3. HeldInOrder(m2, j2, q2)
    BY <1>1, <1>6, <1>8, <1>9, <2>1 DEF HeldInOrder, FieldsAre
  <2>4. q2.meta # NoRecord
    BY <1>10, <2>1 DEF FieldsAre
  <2>5. BackendsOK(m2, j2, q2, TRUE, n + 1)
    BY <1>1, <1>6, <1>9, <2>1, <2>2, <2>3, <2>4 DEF BackendsOK, FieldsAre
  <2>6. AgreeOK(m, j, q) => AgreeOK(m2, j2, q2)
    BY <1>8, <1>9, <2>1 DEF AgreeOK, FieldsAre
  <2> QED
    BY <2>5, <2>6 DEF KeptOK
<1>11. CASE q.meta = NoRecord
  <2>1. q2 = q /\ FieldsAre(q, NoRecord, <<>>, {}, <<>>, 0) /\ q = Bare({})
    BY <1>1, <1>7, <1>11, BareIs
  <2>2. SessionTypes(m2, j2, q2)
    BY <1>1, <1>8, <1>9, <2>1, Zenon DEF SessionTypes
  <2>3. HeldInOrder(m2, j2, q2)
    BY <1>1, <1>6, <1>8, <1>9, <2>1 DEF HeldInOrder, FieldsAre
  <2>4. BackendsOK(m2, j2, q2, TRUE, n + 1)
    BY <1>1, <1>6, <1>9, <2>1, <2>2, <2>3 DEF BackendsOK, FieldsAre
  <2>5. AgreeOK(m, j, q) => AgreeOK(m2, j2, q2)
    BY <1>8, <1>9, <2>1 DEF AgreeOK, FieldsAre
  <2> QED
    BY <2>4, <2>5 DEF KeptOK
<1> QED
  BY <1>10, <1>11

WithCompaction(m, j, q, m2, j2, q2, at) ==
  /\ m2 = Made(m.meta, m.messages, m.checkpoints, m.prompts, at)
  /\ j2 = Made(j.meta, j.messages, j.checkpoints, j.prompts, at)
  /\ q2 = IF q.meta = NoRecord THEN q
          ELSE Made(q.meta, q.messages, q.checkpoints, q.prompts, at)

LEMMA CompactionSaved ==
  ASSUME NEW m, NEW j, NEW q, NEW here \in BOOLEAN, NEW n \in Nat, BackendsOK(m, j, q, here, n),
         NEW at \in Numbers,
         NEW m2, NEW j2, NEW q2, WithCompaction(m, j, q, m2, j2, q2, at)
  PROVE  KeptOK(m, j, q, m2, j2, q2, n + 1)
<1>1. /\ FieldTypes(m, j, q) /\ HeldInOrder(m, j, q) /\ SessionTypes(m, j, q)
      /\ IdsGrow(j.messages, n) /\ IdsGrow(j.messages, n + 1) /\ StepsAreUnique(q.checkpoints)
      /\ (~here => j = Bare(<<>>)) /\ (q.meta = NoRecord => q = Bare({}))
  <2>1. HeldBefore(m, j, q, here, n)
    BY IdsStay
  <2> QED
    BY <2>1 DEF HeldBefore
<1>2. PICK x \in Numbers : x = at
  OBVIOUS
<1>3. PICK y \in Numbers : y = at
  OBVIOUS
<1>4. PICK z \in Numbers : z = at
  OBVIOUS
<1>6. y \in {0, x} /\ z \in {0, y}
  BY <1>2, <1>3, <1>4
<1>7. /\ m2 = Made(m.meta, m.messages, m.checkpoints, m.prompts, x)
      /\ j2 = Made(j.meta, j.messages, j.checkpoints, j.prompts, y)
      /\ q.meta # NoRecord => q2 = Made(q.meta, q.messages, q.checkpoints, q.prompts, z)
      /\ q.meta = NoRecord => q2 = q
  BY <1>2, <1>3, <1>4 DEF WithCompaction
<1>8. /\ m2 \in Contents(Seq(Rows))
      /\ FieldsAre(m2, m.meta, m.messages, m.checkpoints, m.prompts, x)
  BY <1>1, <1>7, MadeLists DEF FieldTypes
<1>9. /\ j2 \in Contents(Seq(Rows))
      /\ FieldsAre(j2, j.meta, j.messages, j.checkpoints, j.prompts, y)
  BY <1>1, <1>7, MadeLists DEF FieldTypes
<1>10. CASE q.meta # NoRecord
  <2>1. /\ q2 \in Contents(SUBSET Rows)
        /\ FieldsAre(q2, q.meta, q.messages, q.checkpoints, q.prompts, z)
    BY <1>1, <1>7, <1>10, MadeTables DEF FieldTypes
  <2>2. SessionTypes(m2, j2, q2)
    BY <1>8, <1>9, <2>1, Zenon DEF SessionTypes
  <2>3. HeldInOrder(m2, j2, q2)
    BY <1>1, <1>6, <1>8, <1>9, <2>1 DEF HeldInOrder, FieldsAre
  <2>4. q2.meta # NoRecord
    BY <1>10, <2>1 DEF FieldsAre
  <2>5. BackendsOK(m2, j2, q2, TRUE, n + 1)
    BY <1>1, <1>6, <1>9, <2>1, <2>2, <2>3, <2>4 DEF BackendsOK, FieldsAre
  <2>6. AgreeOK(m, j, q) => AgreeOK(m2, j2, q2)
    BY <1>8, <1>9, <2>1 DEF AgreeOK, FieldsAre
  <2> QED
    BY <2>5, <2>6 DEF KeptOK
<1>11. CASE q.meta = NoRecord
  <2>1. q2 = q /\ FieldsAre(q, NoRecord, <<>>, {}, <<>>, 0) /\ q = Bare({})
    BY <1>1, <1>7, <1>11, BareIs
  <2>2. SessionTypes(m2, j2, q2)
    BY <1>1, <1>8, <1>9, <2>1, Zenon DEF SessionTypes
  <2>3. HeldInOrder(m2, j2, q2)
    BY <1>1, <1>6, <1>8, <1>9, <2>1 DEF HeldInOrder, FieldsAre
  <2>4. BackendsOK(m2, j2, q2, TRUE, n + 1)
    BY <1>1, <1>6, <1>9, <2>1, <2>2, <2>3 DEF BackendsOK, FieldsAre
  <2>5. AgreeOK(m, j, q) => AgreeOK(m2, j2, q2)
    BY <1>8, <1>9, <2>1 DEF AgreeOK, FieldsAre
  <2> QED
    BY <2>4, <2>5 DEF KeptOK
<1> QED
  BY <1>10, <1>11

WithoutCheckpoints(m, j, q, m2, j2, q2) ==
  /\ m2 = Made(m.meta, m.messages, <<>>, m.prompts, m.compaction)
  /\ j2 = Made(j.meta, j.messages, <<>>, j.prompts, j.compaction)
  /\ q2 = Made(q.meta, q.messages, {}, q.prompts, q.compaction)

LEMMA CheckpointsDeleted ==
  ASSUME NEW m, NEW j, NEW q, NEW here \in BOOLEAN, NEW n \in Nat, BackendsOK(m, j, q, here, n),
         NEW m2, NEW j2, NEW q2, WithoutCheckpoints(m, j, q, m2, j2, q2)
  PROVE  /\ BackendsOK(m2, j2, q2, here, n + 1)
         /\ AgreeOK(m, j, q) => AgreeOK(m2, j2, q2)
<1>1. /\ FieldTypes(m, j, q) /\ HeldInOrder(m, j, q) /\ SessionTypes(m, j, q)
      /\ IdsGrow(j.messages, n) /\ IdsGrow(j.messages, n + 1) /\ StepsAreUnique(q.checkpoints)
      /\ (~here => j = Bare(<<>>)) /\ (q.meta = NoRecord => q = Bare({}))
  <2>1. HeldBefore(m, j, q, here, n)
    BY IdsStay
  <2> QED
    BY <2>1 DEF HeldBefore
<1>2. m2 \in Contents(Seq(Rows)) /\ FieldsAre(m2, m.meta, m.messages, <<>>, m.prompts, m.compaction)
  BY <1>1, NothingHeld, MadeLists DEF FieldTypes, WithoutCheckpoints
<1>3. j2 \in Contents(Seq(Rows)) /\ FieldsAre(j2, j.meta, j.messages, <<>>, j.prompts, j.compaction)
  BY <1>1, NothingHeld, MadeLists DEF FieldTypes, WithoutCheckpoints
<1>4. q2 \in Contents(SUBSET Rows) /\ FieldsAre(q2, q.meta, q.messages, {}, q.prompts, q.compaction)
  BY <1>1, NothingHeld, MadeTables DEF FieldTypes, WithoutCheckpoints
<1>5. SessionTypes(m2, j2, q2)
  BY <1>2, <1>3, <1>4, Zenon DEF SessionTypes
<1>6. Ends(<<>>, <<>>) /\ StepsAreUnique({})
  BY NothingHeld, EmptyEnds DEF StepsAreUnique
<1>7. HeldInOrder(m2, j2, q2)
  BY <1>1, <1>2, <1>3, <1>4, <1>6 DEF HeldInOrder, FieldsAre
<1>8. ~here => j2 = Bare(<<>>)
  <2> SUFFICES ASSUME ~here PROVE j2 = Bare(<<>>)
    OBVIOUS
  <2>1. FieldsAre(j, NoRecord, <<>>, <<>>, <<>>, 0)
    BY <1>1, BareIs
  <2> QED
    BY <2>1, BareIs DEF FieldsAre, WithoutCheckpoints
<1>9. q2.meta = NoRecord => q2 = Bare({})
  <2> SUFFICES ASSUME q2.meta = NoRecord PROVE q2 = Bare({})
    OBVIOUS
  <2>1. FieldsAre(q, NoRecord, <<>>, {}, <<>>, 0)
    BY <1>1, <1>4, BareIs DEF FieldsAre
  <2> QED
    BY <2>1, BareIs DEF FieldsAre, WithoutCheckpoints
<1>10. BackendsOK(m2, j2, q2, here, n + 1)
  BY <1>1, <1>3, <1>4, <1>5, <1>6, <1>7, <1>8, <1>9 DEF BackendsOK, FieldsAre
<1> QED
  BY <1>2, <1>3, <1>4, <1>10 DEF AgreeOK, FieldsAre

\* Putting the contents of one session into a store leaves those of the others.
Elsewhere(b, b2, s) == \A t \in Sids : t # s => Of(b2, t) = Of(b, t)
StoredAs(b, b2, s, c) == Of(b2, s) = c /\ Elsewhere(b, b2, s)

LEMMA OfFields ==
  ASSUME NEW b, NEW s
  PROVE  FieldsAre(Of(b, s), b.meta[s], b.messages[s], b.checkpoints[s], b.prompts[s], b.compaction[s])
BY DEF FieldsAre, Of

LEMMA MadeStore ==
  ASSUME NEW C, NEW a \in [Sids -> Records], NEW x \in [Sids -> Seq(Rows)], NEW c \in [Sids -> C],
         NEW p \in [Sids -> Seq(Numbers)], NEW k \in [Sids -> Numbers], NEW r, r = Made(a, x, c, p, k)
  PROVE  r \in Stores(C)
BY DEF Made, Stores

FilesOf(a, x, c, p, k, d, um) ==
  [meta |-> a, messages |-> x, checkpoints |-> c, prompts |-> p, compaction |-> k, dirs |-> d, user_meta |-> um]
FileTypes(a, x, c, p, k, d, um) ==
  /\ a \in [Sids -> Records] /\ x \in [Sids -> Seq(Rows)] /\ c \in [Sids -> Seq(Rows)]
  /\ p \in [Sids -> Seq(Numbers)] /\ k \in [Sids -> Numbers] /\ d \in SUBSET Sids
  /\ um \in [Users \X Sids -> Records]
LEMMA FilesOfIs ==
  ASSUME NEW a, NEW x, NEW c, NEW p, NEW k, NEW d, NEW um, FileTypes(a, x, c, p, k, d, um)
  PROVE  FilesOf(a, x, c, p, k, d, um) \in FileStores
BY DEF FileTypes, FilesOf, FileStores

LEMMA MetaStored ==
  ASSUME NEW C, NEW b \in Stores(C), NEW s \in Sids, NEW v \in Records,
         NEW b2, b2 = [b EXCEPT !.meta[s] = v]
  PROVE  /\ b2 \in Stores(C)
         /\ StoredAs(b, b2, s,
                 Made(v, Of(b, s).messages, Of(b, s).checkpoints, Of(b, s).prompts, Of(b, s).compaction))
<1>1. /\ b.meta \in [Sids -> Records] /\ b.messages \in [Sids -> Seq(Rows)] /\ b.checkpoints \in [Sids -> C]
      /\ b.prompts \in [Sids -> Seq(Numbers)] /\ b.compaction \in [Sids -> Numbers]
  BY DEF Stores
<1>2. b2 = Made([b.meta EXCEPT ![s] = v], b.messages, b.checkpoints, b.prompts, b.compaction)
  BY DEF Stores, Made
<1>3. /\ [b.meta EXCEPT ![s] = v] \in [Sids -> Records]
  BY <1>1
<1>4. b2 \in Stores(C)
  BY <1>1, <1>2, <1>3, MadeStore
<1>5. /\ FieldsAre(b2, [b.meta EXCEPT ![s] = v], b.messages, b.checkpoints, b.prompts, b.compaction)
  BY <1>2 DEF FieldsAre, Made
<1>6. Of(b2, s) = Made(v, Of(b, s).messages, Of(b, s).checkpoints, Of(b, s).prompts, Of(b, s).compaction)
  BY <1>1, <1>5, OfFields DEF Of, Made, FieldsAre
<1>7. Elsewhere(b, b2, s)
  BY <1>1, <1>5 DEF Of, Elsewhere, FieldsAre
<1> QED
  BY <1>4, <1>5, <1>6, <1>7 DEF StoredAs

LEMMA MessagesStored ==
  ASSUME NEW C, NEW b \in Stores(C), NEW s \in Sids, NEW v \in Seq(Rows),
         NEW b2, b2 = [b EXCEPT !.messages[s] = v]
  PROVE  /\ b2 \in Stores(C)
         /\ StoredAs(b, b2, s,
                 Made(Of(b, s).meta, v, Of(b, s).checkpoints, Of(b, s).prompts, Of(b, s).compaction))
<1>1. /\ b.meta \in [Sids -> Records] /\ b.messages \in [Sids -> Seq(Rows)] /\ b.checkpoints \in [Sids -> C]
      /\ b.prompts \in [Sids -> Seq(Numbers)] /\ b.compaction \in [Sids -> Numbers]
  BY DEF Stores
<1>2. b2 = Made(b.meta, [b.messages EXCEPT ![s] = v], b.checkpoints, b.prompts, b.compaction)
  BY DEF Stores, Made
<1>3. /\ [b.messages EXCEPT ![s] = v] \in [Sids -> Seq(Rows)]
  BY <1>1
<1>4. b2 \in Stores(C)
  BY <1>1, <1>2, <1>3, MadeStore
<1>5. /\ FieldsAre(b2, b.meta, [b.messages EXCEPT ![s] = v], b.checkpoints, b.prompts, b.compaction)
  BY <1>2 DEF FieldsAre, Made
<1>6. Of(b2, s) = Made(Of(b, s).meta, v, Of(b, s).checkpoints, Of(b, s).prompts, Of(b, s).compaction)
  BY <1>1, <1>5, OfFields DEF Of, Made, FieldsAre
<1>7. Elsewhere(b, b2, s)
  BY <1>1, <1>5 DEF Of, Elsewhere, FieldsAre
<1> QED
  BY <1>4, <1>5, <1>6, <1>7 DEF StoredAs

StoresCheckpoints(b, b2, s, v) == b2 = [b EXCEPT !.checkpoints[s] = v]
LEMMA CheckpointsStored ==
  ASSUME NEW C, NEW b \in Stores(C), NEW s \in Sids, NEW v \in C,
         NEW b2, StoresCheckpoints(b, b2, s, v)
  PROVE  /\ b2 \in Stores(C)
         /\ StoredAs(b, b2, s,
                 Made(Of(b, s).meta, Of(b, s).messages, v, Of(b, s).prompts, Of(b, s).compaction))
<1>1. /\ b.meta \in [Sids -> Records] /\ b.messages \in [Sids -> Seq(Rows)] /\ b.checkpoints \in [Sids -> C]
      /\ b.prompts \in [Sids -> Seq(Numbers)] /\ b.compaction \in [Sids -> Numbers]
  BY DEF Stores
<1>2. b2 = Made(b.meta, b.messages, [b.checkpoints EXCEPT ![s] = v], b.prompts, b.compaction)
  BY DEF StoresCheckpoints, Stores, Made
<1>3. /\ [b.checkpoints EXCEPT ![s] = v] \in [Sids -> C]
  BY <1>1
<1>4. b2 \in Stores(C)
  BY <1>1, <1>2, <1>3, MadeStore
<1>5. /\ FieldsAre(b2, b.meta, b.messages, [b.checkpoints EXCEPT ![s] = v], b.prompts, b.compaction)
  BY <1>2 DEF FieldsAre, Made
<1>6. Of(b2, s) = Made(Of(b, s).meta, Of(b, s).messages, v, Of(b, s).prompts, Of(b, s).compaction)
  BY <1>1, <1>5, OfFields DEF Of, Made, FieldsAre
<1>7. Elsewhere(b, b2, s)
  BY <1>1, <1>5 DEF Of, Elsewhere, FieldsAre
<1> QED
  BY <1>4, <1>5, <1>6, <1>7 DEF StoredAs

LEMMA PromptsStored ==
  ASSUME NEW C, NEW b \in Stores(C), NEW s \in Sids, NEW v \in Seq(Numbers),
         NEW b2, b2 = [b EXCEPT !.prompts[s] = v]
  PROVE  /\ b2 \in Stores(C)
         /\ StoredAs(b, b2, s,
                 Made(Of(b, s).meta, Of(b, s).messages, Of(b, s).checkpoints, v, Of(b, s).compaction))
<1>1. /\ b.meta \in [Sids -> Records] /\ b.messages \in [Sids -> Seq(Rows)] /\ b.checkpoints \in [Sids -> C]
      /\ b.prompts \in [Sids -> Seq(Numbers)] /\ b.compaction \in [Sids -> Numbers]
  BY DEF Stores
<1>2. b2 = Made(b.meta, b.messages, b.checkpoints, [b.prompts EXCEPT ![s] = v], b.compaction)
  BY DEF Stores, Made
<1>3. /\ [b.prompts EXCEPT ![s] = v] \in [Sids -> Seq(Numbers)]
  BY <1>1
<1>4. b2 \in Stores(C)
  BY <1>1, <1>2, <1>3, MadeStore
<1>5. /\ FieldsAre(b2, b.meta, b.messages, b.checkpoints, [b.prompts EXCEPT ![s] = v], b.compaction)
  BY <1>2 DEF FieldsAre, Made
<1>6. Of(b2, s) = Made(Of(b, s).meta, Of(b, s).messages, Of(b, s).checkpoints, v, Of(b, s).compaction)
  BY <1>1, <1>5, OfFields DEF Of, Made, FieldsAre
<1>7. Elsewhere(b, b2, s)
  BY <1>1, <1>5 DEF Of, Elsewhere, FieldsAre
<1> QED
  BY <1>4, <1>5, <1>6, <1>7 DEF StoredAs

LEMMA CompactionStored ==
  ASSUME NEW C, NEW b \in Stores(C), NEW s \in Sids, NEW v \in Numbers,
         NEW b2, b2 = [b EXCEPT !.compaction[s] = v]
  PROVE  /\ b2 \in Stores(C)
         /\ StoredAs(b, b2, s,
                 Made(Of(b, s).meta, Of(b, s).messages, Of(b, s).checkpoints, Of(b, s).prompts, v))
<1>1. /\ b.meta \in [Sids -> Records] /\ b.messages \in [Sids -> Seq(Rows)] /\ b.checkpoints \in [Sids -> C]
      /\ b.prompts \in [Sids -> Seq(Numbers)] /\ b.compaction \in [Sids -> Numbers]
  BY DEF Stores
<1>2. b2 = Made(b.meta, b.messages, b.checkpoints, b.prompts, [b.compaction EXCEPT ![s] = v])
  BY DEF Stores, Made
<1>3. /\ [b.compaction EXCEPT ![s] = v] \in [Sids -> Numbers]
  BY <1>1
<1>4. b2 \in Stores(C)
  BY <1>1, <1>2, <1>3, MadeStore
<1>5. /\ FieldsAre(b2, b.meta, b.messages, b.checkpoints, b.prompts, [b.compaction EXCEPT ![s] = v])
  BY <1>2 DEF FieldsAre, Made
<1>6. Of(b2, s) = Made(Of(b, s).meta, Of(b, s).messages, Of(b, s).checkpoints, Of(b, s).prompts, v)
  BY <1>1, <1>5, OfFields DEF Of, Made, FieldsAre
<1>7. Elsewhere(b, b2, s)
  BY <1>1, <1>5 DEF Of, Elsewhere, FieldsAre
<1> QED
  BY <1>4, <1>5, <1>6, <1>7 DEF StoredAs

StoresMessageRow(b, b2, s, v, w) == b2 = [b EXCEPT !.messages[s] = v, !.meta[s] = w]
LEMMA MessageRowStored ==
  ASSUME NEW C, NEW b \in Stores(C), NEW s \in Sids, NEW v \in Seq(Rows), NEW w \in Records,
         NEW b2, StoresMessageRow(b, b2, s, v, w)
  PROVE  /\ b2 \in Stores(C)
         /\ StoredAs(b, b2, s, Made(w, v, Of(b, s).checkpoints, Of(b, s).prompts, Of(b, s).compaction))
<1>1. /\ b.meta \in [Sids -> Records] /\ b.messages \in [Sids -> Seq(Rows)] /\ b.checkpoints \in [Sids -> C]
      /\ b.prompts \in [Sids -> Seq(Numbers)] /\ b.compaction \in [Sids -> Numbers]
  BY DEF Stores
<1>2. b2 = Made([b.meta EXCEPT ![s] = w],
                [b.messages EXCEPT ![s] = v], b.checkpoints, b.prompts, b.compaction)
  BY DEF StoresMessageRow, Stores, Made
<1>3. /\ [b.meta EXCEPT ![s] = w] \in [Sids -> Records]
      /\ [b.messages EXCEPT ![s] = v] \in [Sids -> Seq(Rows)]
  BY <1>1
<1>4. b2 \in Stores(C)
  BY <1>1, <1>2, <1>3, MadeStore
<1>5. /\ FieldsAre(b2, [b.meta EXCEPT ![s] = w],
                [b.messages EXCEPT ![s] = v], b.checkpoints, b.prompts, b.compaction)
  BY <1>2 DEF FieldsAre, Made
<1>6. Of(b2, s) = Made(w, v, Of(b, s).checkpoints, Of(b, s).prompts, Of(b, s).compaction)
  BY <1>1, <1>5, OfFields DEF Of, Made, FieldsAre
<1>7. Elsewhere(b, b2, s)
  BY <1>1, <1>5 DEF Of, Elsewhere, FieldsAre
<1> QED
  BY <1>4, <1>5, <1>6, <1>7 DEF StoredAs

StoresAll(b, b2, s, v, w, x, y, z) ==
  b2 = [b EXCEPT !.meta[s] = v, !.messages[s] = w,
         !.checkpoints[s] = x, !.prompts[s] = y, !.compaction[s] = z]
LEMMA AllStored ==
  ASSUME NEW C, NEW b \in Stores(C), NEW s \in Sids, NEW v \in Records, NEW w \in Seq(Rows), NEW x \in C,
    NEW y \in Seq(Numbers), NEW z \in Numbers,
         NEW b2, StoresAll(b, b2, s, v, w, x, y, z)
  PROVE  /\ b2 \in Stores(C)
         /\ StoredAs(b, b2, s, Made(v, w, x, y, z))
<1>1. /\ b.meta \in [Sids -> Records] /\ b.messages \in [Sids -> Seq(Rows)] /\ b.checkpoints \in [Sids -> C]
      /\ b.prompts \in [Sids -> Seq(Numbers)] /\ b.compaction \in [Sids -> Numbers]
  BY DEF Stores
<1>2. b2 = Made([b.meta EXCEPT ![s] = v], [b.messages EXCEPT ![s] = w], [b.checkpoints EXCEPT ![s] = x],
                [b.prompts EXCEPT ![s] = y], [b.compaction EXCEPT ![s] = z])
  BY DEF StoresAll, Stores, Made
<1>3. /\ [b.meta EXCEPT ![s] = v] \in [Sids -> Records]
      /\ [b.messages EXCEPT ![s] = w] \in [Sids -> Seq(Rows)]
      /\ [b.checkpoints EXCEPT ![s] = x] \in [Sids -> C]
      /\ [b.prompts EXCEPT ![s] = y] \in [Sids -> Seq(Numbers)]
      /\ [b.compaction EXCEPT ![s] = z] \in [Sids -> Numbers]
  BY <1>1
<1>4. b2 \in Stores(C)
  BY <1>1, <1>2, <1>3, MadeStore
<1>5. /\ FieldsAre(b2, [b.meta EXCEPT ![s] = v], [b.messages EXCEPT ![s] = w], [b.checkpoints EXCEPT ![s] = x],
                [b.prompts EXCEPT ![s] = y], [b.compaction EXCEPT ![s] = z])
  BY <1>2 DEF FieldsAre, Made
<1>6. Of(b2, s) = Made(v, w, x, y, z)
  BY <1>1, <1>5, OfFields DEF Of, Made, FieldsAre
<1>7. Elsewhere(b, b2, s)
  BY <1>1, <1>5 DEF Of, Elsewhere, FieldsAre
<1> QED
  BY <1>4, <1>5, <1>6, <1>7 DEF StoredAs

FilesRecord(b, b2, s, v) == b2 = [b EXCEPT !.meta[s] = v, !.dirs = b.dirs \cup {s}]
LEMMA RecordFiled ==
  ASSUME NEW b \in FileStores, NEW s \in Sids, NEW v \in Records,
         NEW b2, FilesRecord(b, b2, s, v)
  PROVE  /\ b2 \in FileStores
         /\ StoredAs(b, b2, s,
                 Made(v, Of(b, s).messages, Of(b, s).checkpoints, Of(b, s).prompts, Of(b, s).compaction))
         /\ b2.dirs = b.dirs \cup {s} /\ b2.user_meta = b.user_meta
<1>1. /\ b.meta \in [Sids -> Records] /\ b.messages \in [Sids -> Seq(Rows)]
      /\ b.checkpoints \in [Sids -> Seq(Rows)]
      /\ b.prompts \in [Sids -> Seq(Numbers)] /\ b.compaction \in [Sids -> Numbers]
      /\ b.dirs \in SUBSET Sids /\ b.user_meta \in [Users \X Sids -> Records]
  BY DEF FileStores
<1>2. b2 = FilesOf([b.meta EXCEPT ![s] = v], b.messages, b.checkpoints, b.prompts, b.compaction, b.dirs \cup {s},
                   b.user_meta)
  BY DEF FilesRecord, FileStores, FilesOf
<1>3. /\ [b.meta EXCEPT ![s] = v] \in [Sids -> Records]
      /\ b.dirs \cup {s} \in SUBSET Sids
  BY <1>1
<1>4. b2 \in FileStores
  <2>1. FileTypes([b.meta EXCEPT ![s] = v], b.messages, b.checkpoints, b.prompts, b.compaction, b.dirs \cup {s},
                  b.user_meta)
    BY <1>1, <1>3 DEF FileTypes
  <2>2. FilesOf([b.meta EXCEPT ![s] = v], b.messages, b.checkpoints, b.prompts, b.compaction, b.dirs \cup {s},
                b.user_meta) \in FileStores
    BY <2>1, FilesOfIs, Zenon
  <2> QED
    BY <1>2, <2>2
<1>5. /\ FieldsAre(b2, [b.meta EXCEPT ![s] = v], b.messages, b.checkpoints, b.prompts, b.compaction)
      /\ b2.dirs = b.dirs \cup {s} /\ b2.user_meta = b.user_meta
  BY <1>2 DEF FieldsAre, FilesOf
<1>6. Of(b2, s) = Made(v, Of(b, s).messages, Of(b, s).checkpoints, Of(b, s).prompts, Of(b, s).compaction)
  BY <1>1, <1>5, OfFields DEF Of, Made, FieldsAre
<1>7. Elsewhere(b, b2, s)
  BY <1>1, <1>5 DEF Of, Elsewhere, FieldsAre
<1> QED
  BY <1>4, <1>5, <1>6, <1>7 DEF StoredAs

FilesUserRecord(b, b2, s, u, r) == b2 = [b EXCEPT !.user_meta[<<u, s>>] = r]
LEMMA UserRecordFiled ==
  ASSUME NEW b \in FileStores, NEW s \in Sids, NEW u \in Users, NEW r \in Records,
         NEW b2, FilesUserRecord(b, b2, s, u, r)
  PROVE  /\ b2 \in FileStores
         /\ StoredAs(b, b2, s,
                 Made(Of(b, s).meta, Of(b, s).messages, Of(b, s).checkpoints, Of(b, s).prompts, Of(b, s).compaction))
         /\ b2.dirs = b.dirs /\ b2.user_meta = [b.user_meta EXCEPT ![<<u, s>>] = r]
<1>1. /\ b.meta \in [Sids -> Records] /\ b.messages \in [Sids -> Seq(Rows)]
      /\ b.checkpoints \in [Sids -> Seq(Rows)]
      /\ b.prompts \in [Sids -> Seq(Numbers)] /\ b.compaction \in [Sids -> Numbers]
      /\ b.dirs \in SUBSET Sids /\ b.user_meta \in [Users \X Sids -> Records]
  BY DEF FileStores
<1>2. b2 = FilesOf(b.meta, b.messages, b.checkpoints, b.prompts, b.compaction, b.dirs,
                   [b.user_meta EXCEPT ![<<u, s>>] = r])
  BY DEF FilesUserRecord, FileStores, FilesOf
<1>3. /\ [b.user_meta EXCEPT ![<<u, s>>] = r] \in [Users \X Sids -> Records]
  BY <1>1
<1>4. b2 \in FileStores
  <2>1. FileTypes(b.meta, b.messages, b.checkpoints, b.prompts, b.compaction, b.dirs,
                  [b.user_meta EXCEPT ![<<u, s>>] = r])
    BY <1>1, <1>3 DEF FileTypes
  <2>2. FilesOf(b.meta, b.messages, b.checkpoints, b.prompts, b.compaction, b.dirs,
                [b.user_meta EXCEPT ![<<u, s>>] = r]) \in FileStores
    BY <2>1, FilesOfIs, Zenon
  <2> QED
    BY <1>2, <2>2
<1>5. /\ FieldsAre(b2, b.meta, b.messages, b.checkpoints, b.prompts, b.compaction)
      /\ b2.dirs = b.dirs /\ b2.user_meta = [b.user_meta EXCEPT ![<<u, s>>] = r]
  BY <1>2 DEF FieldsAre, FilesOf
<1>6. Of(b2, s) =
        Made(Of(b, s).meta, Of(b, s).messages, Of(b, s).checkpoints, Of(b, s).prompts, Of(b, s).compaction)
  BY <1>1, <1>5, OfFields DEF Of, Made, FieldsAre
<1>7. Elsewhere(b, b2, s)
  BY <1>1, <1>5 DEF Of, Elsewhere, FieldsAre
<1> QED
  BY <1>4, <1>5, <1>6, <1>7 DEF StoredAs

LeftWithout(b, b2, s, c) ==
  b2 \in FileStores /\ StoredAs(b, b2, s, c) /\ b2.dirs = b.dirs \ {s} /\ b2.user_meta = b.user_meta
RemovesSession(b, b2, s, v, w, x, y, z) ==
  b2 = [b EXCEPT !.meta[s] = v, !.messages[s] = w,
         !.checkpoints[s] = x, !.prompts[s] = y, !.compaction[s] = z, !.dirs = b.dirs \ {s}]
LEMMA SessionRemoved ==
  ASSUME NEW b \in FileStores, NEW s \in Sids, NEW v \in Records, NEW w \in Seq(Rows), NEW x \in Seq(Rows),
    NEW y \in Seq(Numbers), NEW z \in Numbers,
         NEW b2, RemovesSession(b, b2, s, v, w, x, y, z)
  PROVE  LeftWithout(b, b2, s, Made(v, w, x, y, z))
<1>1. /\ b.meta \in [Sids -> Records] /\ b.messages \in [Sids -> Seq(Rows)]
      /\ b.checkpoints \in [Sids -> Seq(Rows)]
      /\ b.prompts \in [Sids -> Seq(Numbers)] /\ b.compaction \in [Sids -> Numbers]
      /\ b.dirs \in SUBSET Sids /\ b.user_meta \in [Users \X Sids -> Records]
  BY DEF FileStores
<1>2. b2 = FilesOf([b.meta EXCEPT ![s] = v], [b.messages EXCEPT ![s] = w], [b.checkpoints EXCEPT ![s] = x],
                   [b.prompts EXCEPT ![s] = y], [b.compaction EXCEPT ![s] = z], b.dirs \ {s}, b.user_meta)
  BY DEF RemovesSession, FileStores, FilesOf
<1>3. /\ [b.meta EXCEPT ![s] = v] \in [Sids -> Records]
      /\ [b.messages EXCEPT ![s] = w] \in [Sids -> Seq(Rows)]
      /\ [b.checkpoints EXCEPT ![s] = x] \in [Sids -> Seq(Rows)]
      /\ [b.prompts EXCEPT ![s] = y] \in [Sids -> Seq(Numbers)]
      /\ [b.compaction EXCEPT ![s] = z] \in [Sids -> Numbers]
      /\ b.dirs \ {s} \in SUBSET Sids
  BY <1>1
<1>4. b2 \in FileStores
  <2>1. FileTypes([b.meta EXCEPT ![s] = v], [b.messages EXCEPT ![s] = w], [b.checkpoints EXCEPT ![s] = x],
                  [b.prompts EXCEPT ![s] = y], [b.compaction EXCEPT ![s] = z], b.dirs \ {s}, b.user_meta)
    BY <1>1, <1>3 DEF FileTypes
  <2>2. FilesOf([b.meta EXCEPT ![s] = v], [b.messages EXCEPT ![s] = w], [b.checkpoints EXCEPT ![s] = x],
                [b.prompts EXCEPT ![s] = y], [b.compaction EXCEPT ![s] = z], b.dirs \ {s}, b.user_meta) \in FileStores
    BY <2>1, FilesOfIs, Zenon
  <2> QED
    BY <1>2, <2>2
<1>5. /\ FieldsAre(b2, [b.meta EXCEPT ![s] = v], [b.messages EXCEPT ![s] = w], [b.checkpoints EXCEPT ![s] = x],
                [b.prompts EXCEPT ![s] = y], [b.compaction EXCEPT ![s] = z])
      /\ b2.dirs = b.dirs \ {s} /\ b2.user_meta = b.user_meta
  BY <1>2 DEF FieldsAre, FilesOf
<1>6. Of(b2, s) = Made(v, w, x, y, z)
  BY <1>1, <1>5, OfFields DEF Of, Made, FieldsAre
<1>7. Elsewhere(b, b2, s)
  BY <1>1, <1>5 DEF Of, Elsewhere, FieldsAre
<1> QED
  BY <1>4, <1>5, <1>6, <1>7 DEF StoredAs, LeftWithout

FilesMessage(b, b2, s, v, w) == b2 = [b EXCEPT !.messages[s] = v, !.meta[s] = w, !.dirs = b.dirs \cup {s}]
LEMMA MessageFiled ==
  ASSUME NEW b \in FileStores, NEW s \in Sids, NEW v \in Seq(Rows), NEW w \in Records,
         NEW b2, FilesMessage(b, b2, s, v, w)
  PROVE  /\ b2 \in FileStores
         /\ StoredAs(b, b2, s, Made(w, v, Of(b, s).checkpoints, Of(b, s).prompts, Of(b, s).compaction))
         /\ b2.dirs = b.dirs \cup {s} /\ b2.user_meta = b.user_meta
<1>1. /\ b.meta \in [Sids -> Records] /\ b.messages \in [Sids -> Seq(Rows)]
      /\ b.checkpoints \in [Sids -> Seq(Rows)]
      /\ b.prompts \in [Sids -> Seq(Numbers)] /\ b.compaction \in [Sids -> Numbers]
      /\ b.dirs \in SUBSET Sids /\ b.user_meta \in [Users \X Sids -> Records]
  BY DEF FileStores
<1>2. b2 = FilesOf([b.meta EXCEPT ![s] = w],
                   [b.messages EXCEPT ![s] = v], b.checkpoints, b.prompts, b.compaction, b.dirs \cup {s},
                   b.user_meta)
  BY DEF FilesMessage, FileStores, FilesOf
<1>3. /\ [b.meta EXCEPT ![s] = w] \in [Sids -> Records]
      /\ [b.messages EXCEPT ![s] = v] \in [Sids -> Seq(Rows)]
      /\ b.dirs \cup {s} \in SUBSET Sids
  BY <1>1
<1>4. b2 \in FileStores
  <2>1. FileTypes([b.meta EXCEPT ![s] = w],
                  [b.messages EXCEPT ![s] = v], b.checkpoints, b.prompts, b.compaction, b.dirs \cup {s},
                  b.user_meta)
    BY <1>1, <1>3 DEF FileTypes
  <2>2. FilesOf([b.meta EXCEPT ![s] = w],
                [b.messages EXCEPT ![s] = v], b.checkpoints, b.prompts, b.compaction, b.dirs \cup {s},
                b.user_meta) \in FileStores
    BY <2>1, FilesOfIs, Zenon
  <2> QED
    BY <1>2, <2>2
<1>5. /\ FieldsAre(b2, [b.meta EXCEPT ![s] = w],
                [b.messages EXCEPT ![s] = v], b.checkpoints, b.prompts, b.compaction)
      /\ b2.dirs = b.dirs \cup {s} /\ b2.user_meta = b.user_meta
  BY <1>2 DEF FieldsAre, FilesOf
<1>6. Of(b2, s) = Made(w, v, Of(b, s).checkpoints, Of(b, s).prompts, Of(b, s).compaction)
  BY <1>1, <1>5, OfFields DEF Of, Made, FieldsAre
<1>7. Elsewhere(b, b2, s)
  BY <1>1, <1>5 DEF Of, Elsewhere, FieldsAre
<1> QED
  BY <1>4, <1>5, <1>6, <1>7 DEF StoredAs

FilesCheckpoint(b, b2, s, v) == b2 = [b EXCEPT !.checkpoints[s] = v, !.dirs = b.dirs \cup {s}]
LEMMA CheckpointFiled ==
  ASSUME NEW b \in FileStores, NEW s \in Sids, NEW v \in Seq(Rows),
         NEW b2, FilesCheckpoint(b, b2, s, v)
  PROVE  /\ b2 \in FileStores
         /\ StoredAs(b, b2, s,
                 Made(Of(b, s).meta, Of(b, s).messages, v, Of(b, s).prompts, Of(b, s).compaction))
         /\ b2.dirs = b.dirs \cup {s} /\ b2.user_meta = b.user_meta
<1>1. /\ b.meta \in [Sids -> Records] /\ b.messages \in [Sids -> Seq(Rows)]
      /\ b.checkpoints \in [Sids -> Seq(Rows)]
      /\ b.prompts \in [Sids -> Seq(Numbers)] /\ b.compaction \in [Sids -> Numbers]
      /\ b.dirs \in SUBSET Sids /\ b.user_meta \in [Users \X Sids -> Records]
  BY DEF FileStores
<1>2. b2 = FilesOf(b.meta, b.messages,
                   [b.checkpoints EXCEPT ![s] = v], b.prompts, b.compaction, b.dirs \cup {s}, b.user_meta)
  BY DEF FilesCheckpoint, FileStores, FilesOf
<1>3. /\ [b.checkpoints EXCEPT ![s] = v] \in [Sids -> Seq(Rows)]
      /\ b.dirs \cup {s} \in SUBSET Sids
  BY <1>1
<1>4. b2 \in FileStores
  <2>1. FileTypes(b.meta, b.messages,
                  [b.checkpoints EXCEPT ![s] = v], b.prompts, b.compaction, b.dirs \cup {s}, b.user_meta)
    BY <1>1, <1>3 DEF FileTypes
  <2>2. FilesOf(b.meta, b.messages,
                [b.checkpoints EXCEPT ![s] = v], b.prompts, b.compaction, b.dirs \cup {s}, b.user_meta) \in FileStores
    BY <2>1, FilesOfIs, Zenon
  <2> QED
    BY <1>2, <2>2
<1>5. /\ FieldsAre(b2, b.meta, b.messages, [b.checkpoints EXCEPT ![s] = v], b.prompts, b.compaction)
      /\ b2.dirs = b.dirs \cup {s} /\ b2.user_meta = b.user_meta
  BY <1>2 DEF FieldsAre, FilesOf
<1>6. Of(b2, s) = Made(Of(b, s).meta, Of(b, s).messages, v, Of(b, s).prompts, Of(b, s).compaction)
  BY <1>1, <1>5, OfFields DEF Of, Made, FieldsAre
<1>7. Elsewhere(b, b2, s)
  BY <1>1, <1>5 DEF Of, Elsewhere, FieldsAre
<1> QED
  BY <1>4, <1>5, <1>6, <1>7 DEF StoredAs

RemovesCheckpoints(b, b2, s, v) == b2 = [b EXCEPT !.checkpoints[s] = v]
LEMMA CheckpointsRemoved ==
  ASSUME NEW b \in FileStores, NEW s \in Sids, NEW v \in Seq(Rows),
         NEW b2, RemovesCheckpoints(b, b2, s, v)
  PROVE  /\ b2 \in FileStores
         /\ StoredAs(b, b2, s,
                 Made(Of(b, s).meta, Of(b, s).messages, v, Of(b, s).prompts, Of(b, s).compaction))
         /\ b2.dirs = b.dirs /\ b2.user_meta = b.user_meta
<1>1. /\ b.meta \in [Sids -> Records] /\ b.messages \in [Sids -> Seq(Rows)]
      /\ b.checkpoints \in [Sids -> Seq(Rows)]
      /\ b.prompts \in [Sids -> Seq(Numbers)] /\ b.compaction \in [Sids -> Numbers]
      /\ b.dirs \in SUBSET Sids /\ b.user_meta \in [Users \X Sids -> Records]
  BY DEF FileStores
<1>2. b2 = FilesOf(b.meta, b.messages,
                   [b.checkpoints EXCEPT ![s] = v], b.prompts, b.compaction, b.dirs, b.user_meta)
  BY DEF RemovesCheckpoints, FileStores, FilesOf
<1>3. /\ [b.checkpoints EXCEPT ![s] = v] \in [Sids -> Seq(Rows)]
  BY <1>1
<1>4. b2 \in FileStores
  <2>1. FileTypes(b.meta, b.messages,
                  [b.checkpoints EXCEPT ![s] = v], b.prompts, b.compaction, b.dirs, b.user_meta)
    BY <1>1, <1>3 DEF FileTypes
  <2>2. FilesOf(b.meta, b.messages,
                [b.checkpoints EXCEPT ![s] = v], b.prompts, b.compaction, b.dirs, b.user_meta) \in FileStores
    BY <2>1, FilesOfIs, Zenon
  <2> QED
    BY <1>2, <2>2
<1>5. /\ FieldsAre(b2, b.meta, b.messages, [b.checkpoints EXCEPT ![s] = v], b.prompts, b.compaction)
      /\ b2.dirs = b.dirs /\ b2.user_meta = b.user_meta
  BY <1>2 DEF FieldsAre, FilesOf
<1>6. Of(b2, s) = Made(Of(b, s).meta, Of(b, s).messages, v, Of(b, s).prompts, Of(b, s).compaction)
  BY <1>1, <1>5, OfFields DEF Of, Made, FieldsAre
<1>7. Elsewhere(b, b2, s)
  BY <1>1, <1>5 DEF Of, Elsewhere, FieldsAre
<1> QED
  BY <1>4, <1>5, <1>6, <1>7 DEF StoredAs

FilesPrompt(b, b2, s, v) == b2 = [b EXCEPT !.prompts[s] = v, !.dirs = b.dirs \cup {s}]
LEMMA PromptFiled ==
  ASSUME NEW b \in FileStores, NEW s \in Sids, NEW v \in Seq(Numbers),
         NEW b2, FilesPrompt(b, b2, s, v)
  PROVE  /\ b2 \in FileStores
         /\ StoredAs(b, b2, s,
                 Made(Of(b, s).meta, Of(b, s).messages, Of(b, s).checkpoints, v, Of(b, s).compaction))
         /\ b2.dirs = b.dirs \cup {s} /\ b2.user_meta = b.user_meta
<1>1. /\ b.meta \in [Sids -> Records] /\ b.messages \in [Sids -> Seq(Rows)]
      /\ b.checkpoints \in [Sids -> Seq(Rows)]
      /\ b.prompts \in [Sids -> Seq(Numbers)] /\ b.compaction \in [Sids -> Numbers]
      /\ b.dirs \in SUBSET Sids /\ b.user_meta \in [Users \X Sids -> Records]
  BY DEF FileStores
<1>2. b2 = FilesOf(b.meta, b.messages, b.checkpoints,
                   [b.prompts EXCEPT ![s] = v], b.compaction, b.dirs \cup {s}, b.user_meta)
  BY DEF FilesPrompt, FileStores, FilesOf
<1>3. /\ [b.prompts EXCEPT ![s] = v] \in [Sids -> Seq(Numbers)]
      /\ b.dirs \cup {s} \in SUBSET Sids
  BY <1>1
<1>4. b2 \in FileStores
  <2>1. FileTypes(b.meta, b.messages, b.checkpoints,
                  [b.prompts EXCEPT ![s] = v], b.compaction, b.dirs \cup {s}, b.user_meta)
    BY <1>1, <1>3 DEF FileTypes
  <2>2. FilesOf(b.meta, b.messages, b.checkpoints,
                [b.prompts EXCEPT ![s] = v], b.compaction, b.dirs \cup {s}, b.user_meta) \in FileStores
    BY <2>1, FilesOfIs, Zenon
  <2> QED
    BY <1>2, <2>2
<1>5. /\ FieldsAre(b2, b.meta, b.messages, b.checkpoints, [b.prompts EXCEPT ![s] = v], b.compaction)
      /\ b2.dirs = b.dirs \cup {s} /\ b2.user_meta = b.user_meta
  BY <1>2 DEF FieldsAre, FilesOf
<1>6. Of(b2, s) = Made(Of(b, s).meta, Of(b, s).messages, Of(b, s).checkpoints, v, Of(b, s).compaction)
  BY <1>1, <1>5, OfFields DEF Of, Made, FieldsAre
<1>7. Elsewhere(b, b2, s)
  BY <1>1, <1>5 DEF Of, Elsewhere, FieldsAre
<1> QED
  BY <1>4, <1>5, <1>6, <1>7 DEF StoredAs

FilesCompaction(b, b2, s, v) == b2 = [b EXCEPT !.compaction[s] = v, !.dirs = b.dirs \cup {s}]
LEMMA CompactionFiled ==
  ASSUME NEW b \in FileStores, NEW s \in Sids, NEW v \in Numbers,
         NEW b2, FilesCompaction(b, b2, s, v)
  PROVE  /\ b2 \in FileStores
         /\ StoredAs(b, b2, s,
                 Made(Of(b, s).meta, Of(b, s).messages, Of(b, s).checkpoints, Of(b, s).prompts, v))
         /\ b2.dirs = b.dirs \cup {s} /\ b2.user_meta = b.user_meta
<1>1. /\ b.meta \in [Sids -> Records] /\ b.messages \in [Sids -> Seq(Rows)]
      /\ b.checkpoints \in [Sids -> Seq(Rows)]
      /\ b.prompts \in [Sids -> Seq(Numbers)] /\ b.compaction \in [Sids -> Numbers]
      /\ b.dirs \in SUBSET Sids /\ b.user_meta \in [Users \X Sids -> Records]
  BY DEF FileStores
<1>2. b2 = FilesOf(b.meta, b.messages, b.checkpoints, b.prompts,
                   [b.compaction EXCEPT ![s] = v], b.dirs \cup {s}, b.user_meta)
  BY DEF FilesCompaction, FileStores, FilesOf
<1>3. /\ [b.compaction EXCEPT ![s] = v] \in [Sids -> Numbers]
      /\ b.dirs \cup {s} \in SUBSET Sids
  BY <1>1
<1>4. b2 \in FileStores
  <2>1. FileTypes(b.meta, b.messages, b.checkpoints, b.prompts,
                  [b.compaction EXCEPT ![s] = v], b.dirs \cup {s}, b.user_meta)
    BY <1>1, <1>3 DEF FileTypes
  <2>2. FilesOf(b.meta, b.messages, b.checkpoints, b.prompts,
                [b.compaction EXCEPT ![s] = v], b.dirs \cup {s}, b.user_meta) \in FileStores
    BY <2>1, FilesOfIs, Zenon
  <2> QED
    BY <1>2, <2>2
<1>5. /\ FieldsAre(b2, b.meta, b.messages, b.checkpoints, b.prompts, [b.compaction EXCEPT ![s] = v])
      /\ b2.dirs = b.dirs \cup {s} /\ b2.user_meta = b.user_meta
  BY <1>2 DEF FieldsAre, FilesOf
<1>6. Of(b2, s) = Made(Of(b, s).meta, Of(b, s).messages, Of(b, s).checkpoints, Of(b, s).prompts, v)
  BY <1>1, <1>5, OfFields DEF Of, Made, FieldsAre
<1>7. Elsewhere(b, b2, s)
  BY <1>1, <1>5 DEF Of, Elsewhere, FieldsAre
<1> QED
  BY <1>4, <1>5, <1>6, <1>7 DEF StoredAs

\* A call on one session keeps the others as they were.
LEMMA OthersKeep ==
  ASSUME NEW m, NEW j, NEW q, NEW n \in Nat, SessionsOK(m, j, q, n), RecordsOK(m, j, q),
         NEW s \in Sids, NEW m2, NEW j2, NEW q2,
         Elsewhere(m, m2, s), Elsewhere(j, j2, s), Elsewhere(q, q2, s),
         \A t \in Sids : t # s => (t \in j2.dirs <=> t \in j.dirs),
         BackendsOK(Of(m2, s), Of(j2, s), Of(q2, s), s \in j2.dirs, n + 1),
         NobodysRecords(j2) => NobodysRecords(j),
         NobodysRecords(j2) /\ AgreeOK(Of(m, s), Of(j, s), Of(q, s)) => AgreeOK(Of(m2, s), Of(j2, s), Of(q2, s))
  PROVE  SessionsOK(m2, j2, q2, n + 1) /\ RecordsOK(m2, j2, q2)
<1>1. ASSUME NEW t \in Sids
      PROVE BackendsOK(Of(m2, t), Of(j2, t), Of(q2, t), t \in j2.dirs, n + 1)
  <2>1. CASE t = s
    BY <2>1
  <2>2. CASE t # s
    <3>1. Of(m2, t) = Of(m, t) /\ Of(j2, t) = Of(j, t) /\ Of(q2, t) = Of(q, t)
      BY <2>2 DEF Elsewhere
    <3>2. PICK a, b, c : a = Of(m, t) /\ b = Of(j, t) /\ c = Of(q, t)
      OBVIOUS
    <3>3. BackendsOK(a, b, c, t \in j.dirs, n)
      BY <3>2 DEF SessionsOK
    <3>4. IdsGrow(b.messages, n + 1)
      BY <3>3, IdsLater DEF BackendsOK, SessionTypes, Contents
    <3>5. BackendsOK(a, b, c, t \in j2.dirs, n + 1)
      BY <2>2, <3>3, <3>4 DEF BackendsOK
    <3> QED
      BY <3>1, <3>2, <3>5
  <2> QED
    BY <2>1, <2>2
<1>2. ASSUME NobodysRecords(j2), NEW t \in Sids PROVE AgreeOK(Of(m2, t), Of(j2, t), Of(q2, t))
  <2>1. AgreeOK(Of(m, t), Of(j, t), Of(q, t)) /\ AgreeOK(Of(m, s), Of(j, s), Of(q, s))
    BY <1>2 DEF RecordsOK
  <2>2. CASE t = s
    BY <2>1, <2>2, <1>2
  <2>3. CASE t # s
    <3>1. Of(m2, t) = Of(m, t) /\ Of(j2, t) = Of(j, t) /\ Of(q2, t) = Of(q, t)
      BY <2>3 DEF Elsewhere
    <3> QED
      BY <2>1, <3>1
  <2> QED
    BY <2>2, <2>3
<1> QED
  BY <1>1, <1>2 DEF SessionsOK, RecordsOK

\* The stores after a call: those of the session are m2, j2 and q2.
CallOK(s, m2, j2, q2) ==
  /\ memory' \in Stores(Seq(Rows)) /\ StoredAs(memory, memory', s, m2)
  /\ jsonl' \in FileStores /\ StoredAs(jsonl, jsonl', s, j2)
  /\ sqlite' \in Stores(SUBSET Rows) /\ StoredAs(sqlite, sqlite', s, q2)

LEMMA CallStep ==
  ASSUME BackendIInv, Call, NEW s \in Sids, NEW m2, NEW j2, NEW q2, CallOK(s, m2, j2, q2),
         \A t \in Sids : t # s => (t \in jsonl'.dirs <=> t \in jsonl.dirs),
         BackendsOK(m2, j2, q2, s \in jsonl'.dirs, ops + 1),
         NobodysRecords(jsonl') => NobodysRecords(jsonl),
         NobodysRecords(jsonl') /\ AgreeOK(Of(memory, s), Of(jsonl, s), Of(sqlite, s)) => AgreeOK(m2, j2, q2)
  PROVE  BackendIInv'
<1>1. PICK m, j, q : m = memory /\ j = jsonl /\ q = sqlite
  OBVIOUS
<1>2. PICK a, b, c : a = memory' /\ b = jsonl' /\ c = sqlite'
  OBVIOUS
<1>3. PICK n \in Nat : n = ops /\ n < MaxOps /\ ops' = n + 1
  BY BackendAssumption DEF BackendIInv, BackendTypes, Numbers, Call
<1>4. ops' \in Numbers
  BY <1>3, BackendAssumption DEF Numbers
<1>5. /\ Of(a, s) = m2 /\ Of(b, s) = j2 /\ Of(c, s) = q2
      /\ Elsewhere(m, a, s) /\ Elsewhere(j, b, s) /\ Elsewhere(q, c, s)
  BY <1>1, <1>2 DEF CallOK, StoredAs
<1>6. SessionsOK(m, j, q, n) /\ RecordsOK(m, j, q)
  BY <1>1, <1>3 DEF BackendIInv
<1>7. \A t \in Sids : t # s => (t \in b.dirs <=> t \in j.dirs)
  BY <1>1, <1>2
<1>8. BackendsOK(Of(a, s), Of(b, s), Of(c, s), s \in b.dirs, n + 1)
  BY <1>2, <1>3, <1>5
<1>9. NobodysRecords(b) => NobodysRecords(j)
  BY <1>1, <1>2
<1>10. NobodysRecords(b) /\ AgreeOK(Of(m, s), Of(j, s), Of(q, s)) => AgreeOK(Of(a, s), Of(b, s), Of(c, s))
  BY <1>1, <1>2, <1>5
<1>11. SessionsOK(a, b, c, n + 1) /\ RecordsOK(a, b, c)
  BY <1>5, <1>6, <1>7, <1>8, <1>9, <1>10, OthersKeep
<1>12. BackendTypes'
  BY <1>4 DEF BackendTypes, CallOK
<1>13. SessionsOK(memory, jsonl, sqlite, ops)' /\ RecordsOK(memory, jsonl, sqlite)'
  BY <1>2, <1>3, <1>11 DEF SessionsOK, RecordsOK, NobodysRecords, Of
<1> QED
  BY <1>12, <1>13 DEF BackendIInv

\* What one session has before a call.
LEMMA BeforeCall ==
  ASSUME BackendIInv, NEW s \in Sids, Call
  PROVE  /\ memory \in Stores(Seq(Rows)) /\ jsonl \in FileStores /\ sqlite \in Stores(SUBSET Rows)
         /\ BackendsOK(Of(memory, s), Of(jsonl, s), Of(sqlite, s), s \in jsonl.dirs, ops)
         /\ ops \in Nat /\ ops + 1 \in Numbers /\ ops + 1 # 0
<1>1. ops \in Nat /\ ops + 1 \in Numbers /\ ops + 1 # 0
  BY BackendAssumption DEF BackendIInv, BackendTypes, Numbers, Call
<1> QED
  BY <1>1 DEF BackendIInv, BackendTypes, SessionsOK

\* The stores and what they have of the session before a call, and what they have
\* after it.
LEMMA AppendStep ==
  ASSUME BackendIInv, NEW s \in Sids, NEW step \in Steps, append_message(s, step) PROVE BackendIInv'
<1>1. /\ Call /\ memory' = memory_append_message(s, Row(ops + 1, step))
      /\ jsonl' = jsonl_append_message(s, Row(ops + 1, step))
      /\ sqlite' = sqlite_append_message(s, Row(ops + 1, step))
  BY DEF append_message
<1>2. /\ memory \in Stores(Seq(Rows)) /\ jsonl \in FileStores /\ sqlite \in Stores(SUBSET Rows)
      /\ BackendsOK(Of(memory, s), Of(jsonl, s), Of(sqlite, s), s \in jsonl.dirs, ops)
      /\ ops \in Nat /\ ops + 1 \in Numbers /\ ops + 1 # 0
  BY <1>1, BeforeCall
<1>3. PICK A, A2, B, B2, D, D2 : /\ A = memory /\ A2 = memory' /\ B = jsonl /\ B2 = jsonl'
                                 /\ D = sqlite /\ D2 = sqlite'
  OBVIOUS
<1>4. PICK m, j, q : m = Of(A, s) /\ j = Of(B, s) /\ q = Of(D, s)
  OBVIOUS
<1>5. /\ A \in Stores(Seq(Rows)) /\ B \in FileStores /\ D \in Stores(SUBSET Rows)
  BY <1>2, <1>3
<1>6. PICK n \in Nat : n = ops /\ n + 1 \in Numbers /\ n + 1 # 0
  BY <1>2
<1>7. BackendsOK(m, j, q, s \in B.dirs, n)
  BY <1>2, <1>3, <1>4, <1>6
<1>7a. PICK here \in BOOLEAN : here <=> s \in B.dirs
  OBVIOUS
<1>7b. BackendsOK(m, j, q, here, n)
  BY <1>7, <1>7a DEF BackendsOK
<1>8. FieldTypes(m, j, q)
  BY <1>7b, IdsStay DEF HeldBefore
<1>9. PICK row \in Rows : row = Row(ops + 1, step) /\ row.at = n + 1 /\ row.at \in Numbers /\ row.at # 0
  <2>1. PICK row : row = Row(n + 1, step)
    OBVIOUS
  <2>2. row \in Rows /\ row.at = n + 1
    BY <1>6, <2>1 DEF Row, Rows
  <2> QED
    BY <1>6, <2>1, <2>2
<1>10. PICK x \in Seq(Rows) : x = Append(m.messages, row)
  BY <1>8, <1>9, AppendFacts DEF FieldTypes
<1>11. PICK y \in Seq(Rows) : y = Append(j.messages, row)
  BY <1>8, <1>9, AppendFacts DEF FieldTypes
<1>12. PICK z \in Seq(Rows) : z = Append(q.messages, row)
  BY <1>8, <1>9, AppendFacts DEF FieldTypes
<1>13. A2 \in Stores(Seq(Rows)) /\ StoredAs(A, A2, s, Made(m.meta, x, m.checkpoints, m.prompts, m.compaction))
  <2>1. A2 = [A EXCEPT !.messages[s] = x]
    BY <1>1, <1>3, <1>4, <1>9, <1>10 DEF memory_append_message, Of
  <2>2. A2 \in Stores(Seq(Rows))
          /\ StoredAs(A, A2, s, Made(Of(A, s).meta, x, Of(A, s).checkpoints, Of(A, s).prompts, Of(A, s).compaction))
    BY <1>5, <2>1, MessagesStored, Zenon
  <2> QED
    BY <1>4, <2>2
<1>9a. PICK a, b \in Records : a = Touched(j.meta, row.at) /\ b = Touched(q.meta, row.at)
  BY <1>8, <1>9, TouchedIs DEF FieldTypes
<1>14. /\ B2 \in FileStores /\ StoredAs(B, B2, s, Made(a, y, j.checkpoints, j.prompts, j.compaction))
       /\ B2.dirs = B.dirs \cup {s} /\ B2.user_meta = B.user_meta
  <2>1. B2 = [B EXCEPT !.messages[s] = y, !.meta[s] = a, !.dirs = B.dirs \cup {s}]
    BY <1>1, <1>3, <1>4, <1>9, <1>11, <1>9a DEF jsonl_append_message, Of, Touched
  <2>2. /\ B2 \in FileStores
        /\ StoredAs(B, B2, s, Made(a, y, Of(B, s).checkpoints, Of(B, s).prompts, Of(B, s).compaction))
        /\ B2.dirs = B.dirs \cup {s} /\ B2.user_meta = B.user_meta
    <3>1. FilesMessage(B, B2, s, y, a)
      BY <2>1 DEF FilesMessage
    <3> QED
      BY <1>5, <3>1, MessageFiled
  <2> QED
    BY <1>4, <2>2
<1>15. PICK q2 : q2 = IF q.meta = NoRecord THEN q ELSE Made(b, z, q.checkpoints, q.prompts, q.compaction)
  OBVIOUS
<1>16. D2 \in Stores(SUBSET Rows) /\ StoredAs(D, D2, s, q2)
  <2>1. HasParent(s) <=> q.meta # NoRecord
    BY <1>3, <1>4 DEF HasParent, Of
  <2>2. CASE q.meta = NoRecord
    <3>1. D2 = D
      BY <1>1, <1>3, <2>1, <2>2 DEF sqlite_append_message
    <3> QED
      BY <1>4, <1>5, <1>15, <2>2, <3>1 DEF StoredAs, Elsewhere
  <2>3. CASE q.meta # NoRecord
    <3>1. D2 = [D EXCEPT !.messages[s] = z, !.meta[s] = b]
      BY <1>1, <1>3, <1>4, <1>9, <1>12, <2>1, <2>3, <1>9a DEF sqlite_append_message, Of, Touched
    <3>2. q2 = Made(b, z, q.checkpoints, q.prompts, q.compaction)
      BY <1>15, <2>3
    <3>3. D2 \in Stores(SUBSET Rows)
            /\ StoredAs(D, D2, s, Made(b, z, Of(D, s).checkpoints, Of(D, s).prompts, Of(D, s).compaction))
      <4>1. StoresMessageRow(D, D2, s, z, b)
        BY <3>1 DEF StoresMessageRow
      <4> QED
        BY <1>5, <4>1, MessageRowStored
    <3> QED
      BY <1>4, <3>2, <3>3
  <2> QED
    BY <2>2, <2>3
<1>17. PICK m2, j2 : m2 = Made(m.meta, x, m.checkpoints, m.prompts, m.compaction)
            /\ j2 = Made(a, y, j.checkpoints, j.prompts, j.compaction)
  OBVIOUS
<1>18. BackendsOK(m2, j2, q2, TRUE, n + 1) /\ (AgreeOK(m, j, q) => AgreeOK(m2, j2, q2))
  <2>1. WithMessage(m, j, q, m2, j2, q2, row)
    BY <1>10, <1>11, <1>12, <1>15, <1>17, <1>9a DEF WithMessage
  <2>2. KeptOK(m, j, q, m2, j2, q2, n + 1)
    BY <1>7b, <1>9, <2>1, MessageAppended
  <2> QED
    BY <2>2 DEF KeptOK
<1>19. BackendsOK(m2, j2, q2, s \in B2.dirs, n + 1)
  BY <1>14, <1>18 DEF BackendsOK
<1> QED
  BY <1>1, <1>3, <1>4, <1>6, <1>13, <1>14, <1>16, <1>17, <1>18, <1>19, CallStep DEF CallOK, NobodysRecords

LEMMA SaveCheckpointStep ==
  ASSUME BackendIInv, NEW s \in Sids, NEW step \in Steps, save_checkpoint(s, step) PROVE BackendIInv'
<1>1. /\ Call /\ memory' = memory_save_checkpoint(s, Row(ops + 1, step))
      /\ jsonl' = jsonl_save_checkpoint(s, Row(ops + 1, step))
      /\ sqlite' = sqlite_save_checkpoint(s, Row(ops + 1, step))
  BY DEF save_checkpoint
<1>2. /\ memory \in Stores(Seq(Rows)) /\ jsonl \in FileStores /\ sqlite \in Stores(SUBSET Rows)
      /\ BackendsOK(Of(memory, s), Of(jsonl, s), Of(sqlite, s), s \in jsonl.dirs, ops)
      /\ ops \in Nat /\ ops + 1 \in Numbers /\ ops + 1 # 0
  BY <1>1, BeforeCall
<1>3. PICK A, A2, B, B2, D, D2 : /\ A = memory /\ A2 = memory' /\ B = jsonl /\ B2 = jsonl'
                                 /\ D = sqlite /\ D2 = sqlite'
  OBVIOUS
<1>4. PICK m, j, q : m = Of(A, s) /\ j = Of(B, s) /\ q = Of(D, s)
  OBVIOUS
<1>5. /\ A \in Stores(Seq(Rows)) /\ B \in FileStores /\ D \in Stores(SUBSET Rows)
  BY <1>2, <1>3
<1>6. PICK n \in Nat : n = ops /\ n + 1 \in Numbers /\ n + 1 # 0
  BY <1>2
<1>7. BackendsOK(m, j, q, s \in B.dirs, n)
  BY <1>2, <1>3, <1>4, <1>6
<1>7a. PICK here \in BOOLEAN : here <=> s \in B.dirs
  OBVIOUS
<1>7b. BackendsOK(m, j, q, here, n)
  BY <1>7, <1>7a DEF BackendsOK
<1>8. FieldTypes(m, j, q)
  BY <1>7b, IdsStay DEF HeldBefore
<1>9. PICK row \in Rows : row = Row(ops + 1, step)
  <2>1. Row(ops + 1, step) \in Rows
    BY <1>2 DEF Row, Rows
  <2> QED
    BY <2>1
<1>10. PICK x \in Seq(Rows) : x = Append(m.checkpoints, row)
  BY <1>8, <1>9, AppendFacts DEF FieldTypes
<1>11. PICK y \in Seq(Rows) : y = Append(j.checkpoints, row)
  BY <1>8, <1>9, AppendFacts DEF FieldTypes
<1>12. PICK z \in SUBSET Rows : z = {c \in q.checkpoints : c.step # row.step} \cup {row}
  <2>1. {c \in q.checkpoints : c.step # row.step} \cup {row} \in SUBSET Rows
    BY <1>8 DEF FieldTypes
  <2> QED
    BY <2>1
<1>13. A2 \in Stores(Seq(Rows)) /\ StoredAs(A, A2, s, Made(m.meta, m.messages, x, m.prompts, m.compaction))
  <2>1. A2 = [A EXCEPT !.checkpoints[s] = x]
    BY <1>1, <1>3, <1>4, <1>9, <1>10 DEF memory_save_checkpoint, Of
  <2>2. A2 \in Stores(Seq(Rows))
          /\ StoredAs(A, A2, s, Made(Of(A, s).meta, Of(A, s).messages, x, Of(A, s).prompts, Of(A, s).compaction))
    <3>1. StoresCheckpoints(A, A2, s, x)
      BY <2>1 DEF StoresCheckpoints
    <3> QED
      BY <1>5, <3>1, CheckpointsStored
  <2> QED
    BY <1>4, <2>2
<1>14. /\ B2 \in FileStores /\ StoredAs(B, B2, s, Made(j.meta, j.messages, y, j.prompts, j.compaction))
       /\ B2.dirs = B.dirs \cup {s} /\ B2.user_meta = B.user_meta
  <2>1. B2 = [B EXCEPT !.checkpoints[s] = y, !.dirs = B.dirs \cup {s}]
    BY <1>1, <1>3, <1>4, <1>9, <1>11 DEF jsonl_save_checkpoint, Of
  <2>2. /\ B2 \in FileStores
        /\ StoredAs(B, B2, s, Made(Of(B, s).meta, Of(B, s).messages, y, Of(B, s).prompts, Of(B, s).compaction))
        /\ B2.dirs = B.dirs \cup {s} /\ B2.user_meta = B.user_meta
    <3>1. FilesCheckpoint(B, B2, s, y)
      BY <2>1 DEF FilesCheckpoint
    <3> QED
      BY <1>5, <3>1, CheckpointFiled
  <2> QED
    BY <1>4, <2>2
<1>15. PICK q2 : q2 = IF q.meta = NoRecord THEN q ELSE Made(q.meta, q.messages, z, q.prompts, q.compaction)
  OBVIOUS
<1>16. D2 \in Stores(SUBSET Rows) /\ StoredAs(D, D2, s, q2)
  <2>1. HasParent(s) <=> q.meta # NoRecord
    BY <1>3, <1>4 DEF HasParent, Of
  <2>2. CASE q.meta = NoRecord
    <3>1. D2 = D
      BY <1>1, <1>3, <2>1, <2>2 DEF sqlite_save_checkpoint
    <3> QED
      BY <1>4, <1>5, <1>15, <2>2, <3>1 DEF StoredAs, Elsewhere
  <2>3. CASE q.meta # NoRecord
    <3>1. D2 = [D EXCEPT !.checkpoints[s] = z]
      BY <1>1, <1>3, <1>4, <1>9, <1>12, <2>1, <2>3 DEF sqlite_save_checkpoint, Of
    <3>2. q2 = Made(q.meta, q.messages, z, q.prompts, q.compaction)
      BY <1>15, <2>3
    <3>3. D2 \in Stores(SUBSET Rows)
            /\ StoredAs(D, D2, s, Made(Of(D, s).meta, Of(D, s).messages, z, Of(D, s).prompts, Of(D, s).compaction))
      <4>1. StoresCheckpoints(D, D2, s, z)
        BY <3>1 DEF StoresCheckpoints
      <4> QED
        BY <1>5, <4>1, CheckpointsStored
    <3> QED
      BY <1>4, <3>2, <3>3
  <2> QED
    BY <2>2, <2>3
<1>17. PICK m2, j2 : m2 = Made(m.meta, m.messages, x, m.prompts, m.compaction)
            /\ j2 = Made(j.meta, j.messages, y, j.prompts, j.compaction)
  OBVIOUS
<1>18. BackendsOK(m2, j2, q2, TRUE, n + 1) /\ (AgreeOK(m, j, q) => AgreeOK(m2, j2, q2))
  <2>1. WithCheckpoint(m, j, q, m2, j2, q2, row)
    BY <1>10, <1>11, <1>12, <1>15, <1>17 DEF WithCheckpoint
  <2>2. KeptOK(m, j, q, m2, j2, q2, n + 1)
    BY <1>7b, <2>1, CheckpointSaved
  <2> QED
    BY <2>2 DEF KeptOK
<1>19. BackendsOK(m2, j2, q2, s \in B2.dirs, n + 1)
  BY <1>14, <1>18 DEF BackendsOK
<1> QED
  BY <1>1, <1>3, <1>4, <1>6, <1>13, <1>14, <1>16, <1>17, <1>18, <1>19, CallStep DEF CallOK, NobodysRecords

LEMMA SavePromptStep ==
  ASSUME BackendIInv, NEW s \in Sids, save_prompt_history(s) PROVE BackendIInv'
<1>1. /\ Call /\ memory' = memory_save_prompt_history(s, ops + 1)
      /\ jsonl' = jsonl_save_prompt_history(s, ops + 1)
      /\ sqlite' = sqlite_save_prompt_history(s, ops + 1)
  BY DEF save_prompt_history
<1>2. /\ memory \in Stores(Seq(Rows)) /\ jsonl \in FileStores /\ sqlite \in Stores(SUBSET Rows)
      /\ BackendsOK(Of(memory, s), Of(jsonl, s), Of(sqlite, s), s \in jsonl.dirs, ops)
      /\ ops \in Nat /\ ops + 1 \in Numbers /\ ops + 1 # 0
  BY <1>1, BeforeCall
<1>3. PICK A, A2, B, B2, D, D2 : /\ A = memory /\ A2 = memory' /\ B = jsonl /\ B2 = jsonl'
                                 /\ D = sqlite /\ D2 = sqlite'
  OBVIOUS
<1>4. PICK m, j, q : m = Of(A, s) /\ j = Of(B, s) /\ q = Of(D, s)
  OBVIOUS
<1>5. /\ A \in Stores(Seq(Rows)) /\ B \in FileStores /\ D \in Stores(SUBSET Rows)
  BY <1>2, <1>3
<1>6. PICK n \in Nat : n = ops /\ n + 1 \in Numbers /\ n + 1 # 0
  BY <1>2
<1>7. BackendsOK(m, j, q, s \in B.dirs, n)
  BY <1>2, <1>3, <1>4, <1>6
<1>7a. PICK here \in BOOLEAN : here <=> s \in B.dirs
  OBVIOUS
<1>7b. BackendsOK(m, j, q, here, n)
  BY <1>7, <1>7a DEF BackendsOK
<1>8. FieldTypes(m, j, q)
  BY <1>7b, IdsStay DEF HeldBefore
<1>9. PICK at \in Numbers : at = ops + 1
  BY <1>2
<1>10. PICK x \in Seq(Numbers) : x = Append(m.prompts, at)
  BY <1>8, <1>9, AppendFacts DEF FieldTypes
<1>11. PICK y \in Seq(Numbers) : y = Append(j.prompts, at)
  BY <1>8, <1>9, AppendFacts DEF FieldTypes
<1>12. PICK z \in Seq(Numbers) : z = Append(q.prompts, at)
  BY <1>8, <1>9, AppendFacts DEF FieldTypes
<1>13. A2 \in Stores(Seq(Rows))
         /\ StoredAs(A, A2, s, Made(m.meta, m.messages, m.checkpoints, x, m.compaction))
  <2>1. A2 = [A EXCEPT !.prompts[s] = x]
    BY <1>1, <1>3, <1>4, <1>9, <1>10 DEF memory_save_prompt_history, Of
  <2>2. A2 \in Stores(Seq(Rows))
          /\ StoredAs(A, A2, s, Made(Of(A, s).meta, Of(A, s).messages, Of(A, s).checkpoints, x, Of(A, s).compaction))
    BY <1>5, <2>1, PromptsStored, Zenon
  <2> QED
    BY <1>4, <2>2
<1>14. /\ B2 \in FileStores /\ StoredAs(B, B2, s, Made(j.meta, j.messages, j.checkpoints, y, j.compaction))
       /\ B2.dirs = B.dirs \cup {s} /\ B2.user_meta = B.user_meta
  <2>1. B2 = [B EXCEPT !.prompts[s] = y, !.dirs = B.dirs \cup {s}]
    BY <1>1, <1>3, <1>4, <1>9, <1>11 DEF jsonl_save_prompt_history, Of
  <2>2. /\ B2 \in FileStores
        /\ StoredAs(B, B2, s, Made(Of(B, s).meta, Of(B, s).messages, Of(B, s).checkpoints, y, Of(B, s).compaction))
        /\ B2.dirs = B.dirs \cup {s} /\ B2.user_meta = B.user_meta
    <3>1. FilesPrompt(B, B2, s, y)
      BY <2>1 DEF FilesPrompt
    <3> QED
      BY <1>5, <3>1, PromptFiled
  <2> QED
    BY <1>4, <2>2
<1>15. PICK q2 : q2 = IF q.meta = NoRecord THEN q ELSE
        Made(q.meta, q.messages, q.checkpoints, z, q.compaction)
  OBVIOUS
<1>16. D2 \in Stores(SUBSET Rows) /\ StoredAs(D, D2, s, q2)
  <2>1. HasParent(s) <=> q.meta # NoRecord
    BY <1>3, <1>4 DEF HasParent, Of
  <2>2. CASE q.meta = NoRecord
    <3>1. D2 = D
      BY <1>1, <1>3, <2>1, <2>2 DEF sqlite_save_prompt_history
    <3> QED
      BY <1>4, <1>5, <1>15, <2>2, <3>1 DEF StoredAs, Elsewhere
  <2>3. CASE q.meta # NoRecord
    <3>1. D2 = [D EXCEPT !.prompts[s] = z]
      BY <1>1, <1>3, <1>4, <1>9, <1>12, <2>1, <2>3 DEF sqlite_save_prompt_history, Of
    <3>2. q2 = Made(q.meta, q.messages, q.checkpoints, z, q.compaction)
      BY <1>15, <2>3
    <3>3. D2 \in Stores(SUBSET Rows)
            /\ StoredAs(D, D2, s, Made(Of(D, s).meta, Of(D, s).messages, Of(D, s).checkpoints, z, Of(D, s).compaction))
      BY <1>5, <3>1, PromptsStored, Zenon
    <3> QED
      BY <1>4, <3>2, <3>3
  <2> QED
    BY <2>2, <2>3
<1>17. PICK m2, j2 : m2 = Made(m.meta, m.messages, m.checkpoints, x, m.compaction)
            /\ j2 = Made(j.meta, j.messages, j.checkpoints, y, j.compaction)
  OBVIOUS
<1>18. BackendsOK(m2, j2, q2, TRUE, n + 1) /\ (AgreeOK(m, j, q) => AgreeOK(m2, j2, q2))
  <2>1. WithPrompt(m, j, q, m2, j2, q2, at)
    BY <1>10, <1>11, <1>12, <1>15, <1>17 DEF WithPrompt
  <2>2. KeptOK(m, j, q, m2, j2, q2, n + 1)
    BY <1>7b, <2>1, PromptSaved
  <2> QED
    BY <2>2 DEF KeptOK
<1>19. BackendsOK(m2, j2, q2, s \in B2.dirs, n + 1)
  BY <1>14, <1>18 DEF BackendsOK
<1> QED
  BY <1>1, <1>3, <1>4, <1>6, <1>13, <1>14, <1>16, <1>17, <1>18, <1>19, CallStep DEF CallOK, NobodysRecords

LEMMA SaveCompactionStep ==
  ASSUME BackendIInv, NEW s \in Sids, save_compaction(s) PROVE BackendIInv'
<1>1. /\ Call /\ memory' = memory_save_compaction(s, ops + 1) /\ jsonl' = jsonl_save_compaction(s, ops + 1)
      /\ sqlite' = sqlite_save_compaction(s, ops + 1)
  BY DEF save_compaction
<1>2. /\ memory \in Stores(Seq(Rows)) /\ jsonl \in FileStores /\ sqlite \in Stores(SUBSET Rows)
      /\ BackendsOK(Of(memory, s), Of(jsonl, s), Of(sqlite, s), s \in jsonl.dirs, ops)
      /\ ops \in Nat /\ ops + 1 \in Numbers /\ ops + 1 # 0
  BY <1>1, BeforeCall
<1>3. PICK A, A2, B, B2, D, D2 : /\ A = memory /\ A2 = memory' /\ B = jsonl /\ B2 = jsonl'
                                 /\ D = sqlite /\ D2 = sqlite'
  OBVIOUS
<1>4. PICK m, j, q : m = Of(A, s) /\ j = Of(B, s) /\ q = Of(D, s)
  OBVIOUS
<1>5. /\ A \in Stores(Seq(Rows)) /\ B \in FileStores /\ D \in Stores(SUBSET Rows)
  BY <1>2, <1>3
<1>6. PICK n \in Nat : n = ops /\ n + 1 \in Numbers /\ n + 1 # 0
  BY <1>2
<1>7. BackendsOK(m, j, q, s \in B.dirs, n)
  BY <1>2, <1>3, <1>4, <1>6
<1>7a. PICK here \in BOOLEAN : here <=> s \in B.dirs
  OBVIOUS
<1>7b. BackendsOK(m, j, q, here, n)
  BY <1>7, <1>7a DEF BackendsOK
<1>8. FieldTypes(m, j, q)
  BY <1>7b, IdsStay DEF HeldBefore
<1>9. PICK at \in Numbers : at = ops + 1
  BY <1>2
<1>10. PICK x \in Numbers : x = at
  BY <1>9
<1>11. PICK y \in Numbers : y = at
  BY <1>9
<1>12. PICK z \in Numbers : z = at
  BY <1>9
<1>13. A2 \in Stores(Seq(Rows)) /\ StoredAs(A, A2, s, Made(m.meta, m.messages, m.checkpoints, m.prompts, x))
  <2>1. A2 = [A EXCEPT !.compaction[s] = x]
    BY <1>1, <1>3, <1>4, <1>9, <1>10 DEF memory_save_compaction, Of
  <2>2. A2 \in Stores(Seq(Rows))
          /\ StoredAs(A, A2, s, Made(Of(A, s).meta, Of(A, s).messages, Of(A, s).checkpoints, Of(A, s).prompts, x))
    BY <1>5, <2>1, CompactionStored, Zenon
  <2> QED
    BY <1>4, <2>2
<1>14. /\ B2 \in FileStores /\ StoredAs(B, B2, s, Made(j.meta, j.messages, j.checkpoints, j.prompts, y))
       /\ B2.dirs = B.dirs \cup {s} /\ B2.user_meta = B.user_meta
  <2>1. B2 = [B EXCEPT !.compaction[s] = y, !.dirs = B.dirs \cup {s}]
    BY <1>1, <1>3, <1>4, <1>9, <1>11 DEF jsonl_save_compaction, Of
  <2>2. /\ B2 \in FileStores
        /\ StoredAs(B, B2, s, Made(Of(B, s).meta, Of(B, s).messages, Of(B, s).checkpoints, Of(B, s).prompts, y))
        /\ B2.dirs = B.dirs \cup {s} /\ B2.user_meta = B.user_meta
    <3>1. FilesCompaction(B, B2, s, y)
      BY <2>1 DEF FilesCompaction
    <3> QED
      BY <1>5, <3>1, CompactionFiled
  <2> QED
    BY <1>4, <2>2
<1>15. PICK q2 : q2 = IF q.meta = NoRecord THEN q ELSE Made(q.meta, q.messages, q.checkpoints, q.prompts, z)
  OBVIOUS
<1>16. D2 \in Stores(SUBSET Rows) /\ StoredAs(D, D2, s, q2)
  <2>1. HasParent(s) <=> q.meta # NoRecord
    BY <1>3, <1>4 DEF HasParent, Of
  <2>2. CASE q.meta = NoRecord
    <3>1. D2 = D
      BY <1>1, <1>3, <2>1, <2>2 DEF sqlite_save_compaction
    <3> QED
      BY <1>4, <1>5, <1>15, <2>2, <3>1 DEF StoredAs, Elsewhere
  <2>3. CASE q.meta # NoRecord
    <3>1. D2 = [D EXCEPT !.compaction[s] = z]
      BY <1>1, <1>3, <1>4, <1>9, <1>12, <2>1, <2>3 DEF sqlite_save_compaction, Of
    <3>2. q2 = Made(q.meta, q.messages, q.checkpoints, q.prompts, z)
      BY <1>15, <2>3
    <3>3. D2 \in Stores(SUBSET Rows)
            /\ StoredAs(D, D2, s, Made(Of(D, s).meta, Of(D, s).messages, Of(D, s).checkpoints, Of(D, s).prompts, z))
      BY <1>5, <3>1, CompactionStored, Zenon
    <3> QED
      BY <1>4, <3>2, <3>3
  <2> QED
    BY <2>2, <2>3
<1>17. PICK m2, j2 : m2 = Made(m.meta, m.messages, m.checkpoints, m.prompts, x)
            /\ j2 = Made(j.meta, j.messages, j.checkpoints, j.prompts, y)
  OBVIOUS
<1>18. BackendsOK(m2, j2, q2, TRUE, n + 1) /\ (AgreeOK(m, j, q) => AgreeOK(m2, j2, q2))
  <2>1. WithCompaction(m, j, q, m2, j2, q2, at)
    BY <1>10, <1>11, <1>12, <1>15, <1>17 DEF WithCompaction
  <2>2. KeptOK(m, j, q, m2, j2, q2, n + 1)
    BY <1>7b, <2>1, CompactionSaved
  <2> QED
    BY <2>2 DEF KeptOK
<1>19. BackendsOK(m2, j2, q2, s \in B2.dirs, n + 1)
  BY <1>14, <1>18 DEF BackendsOK
<1> QED
  BY <1>1, <1>3, <1>4, <1>6, <1>13, <1>14, <1>16, <1>17, <1>18, <1>19, CallStep DEF CallOK, NobodysRecords

LEMMA DeleteCheckpointsStep ==
  ASSUME BackendIInv, NEW s \in Sids, delete_checkpoints(s) PROVE BackendIInv'
<1>1. /\ Call /\ memory' = memory_delete_checkpoints(s) /\ jsonl' = jsonl_delete_checkpoints(s)
      /\ sqlite' = sqlite_delete_checkpoints(s)
  BY DEF delete_checkpoints
<1>2. /\ memory \in Stores(Seq(Rows)) /\ jsonl \in FileStores /\ sqlite \in Stores(SUBSET Rows)
      /\ BackendsOK(Of(memory, s), Of(jsonl, s), Of(sqlite, s), s \in jsonl.dirs, ops)
      /\ ops \in Nat /\ ops + 1 \in Numbers /\ ops + 1 # 0
  BY <1>1, BeforeCall
<1>3. PICK A, A2, B, B2, D, D2 : /\ A = memory /\ A2 = memory' /\ B = jsonl /\ B2 = jsonl'
                                 /\ D = sqlite /\ D2 = sqlite'
  OBVIOUS
<1>4. PICK m, j, q : m = Of(A, s) /\ j = Of(B, s) /\ q = Of(D, s)
  OBVIOUS
<1>5. /\ A \in Stores(Seq(Rows)) /\ B \in FileStores /\ D \in Stores(SUBSET Rows)
  BY <1>2, <1>3
<1>6. PICK n \in Nat : n = ops /\ n + 1 \in Numbers /\ n + 1 # 0
  BY <1>2
<1>7. BackendsOK(m, j, q, s \in B.dirs, n)
  BY <1>2, <1>3, <1>4, <1>6
<1>7a. PICK here \in BOOLEAN : here <=> s \in B.dirs
  OBVIOUS
<1>7b. BackendsOK(m, j, q, here, n)
  BY <1>7, <1>7a DEF BackendsOK
<1>8. FieldTypes(m, j, q)
  BY <1>7b, IdsStay DEF HeldBefore
<1>9. PICK m2, j2, q2 : /\ m2 = Made(m.meta, m.messages, <<>>, m.prompts, m.compaction)
                        /\ j2 = Made(j.meta, j.messages, <<>>, j.prompts, j.compaction)
                        /\ q2 = Made(q.meta, q.messages, {}, q.prompts, q.compaction)
  OBVIOUS
<1>10. A2 \in Stores(Seq(Rows)) /\ StoredAs(A, A2, s, m2)
  <2>1. StoresCheckpoints(A, A2, s, <<>>)
    BY <1>1, <1>3 DEF memory_delete_checkpoints, StoresCheckpoints
  <2> QED
    BY <1>4, <1>5, <1>9, <2>1, NothingHeld, CheckpointsStored
<1>11. B2 \in FileStores /\ StoredAs(B, B2, s, j2) /\ B2.dirs = B.dirs /\ B2.user_meta = B.user_meta
  <2>1. B2 = [B EXCEPT !.checkpoints[s] = <<>>]
    BY <1>1, <1>3 DEF jsonl_delete_checkpoints
  <2>2. /\ B2 \in FileStores /\ B2.dirs = B.dirs /\ B2.user_meta = B.user_meta
        /\ StoredAs(B, B2, s,
                Made(Of(B, s).meta, Of(B, s).messages, <<>>, Of(B, s).prompts, Of(B, s).compaction))
    <3>1. RemovesCheckpoints(B, B2, s, <<>>)
      BY <2>1 DEF RemovesCheckpoints
    <3> QED
      BY <1>5, <3>1, NothingHeld, CheckpointsRemoved, ZenonT(30)
  <2> QED
    BY <1>4, <1>9, <2>2
<1>12. D2 \in Stores(SUBSET Rows) /\ StoredAs(D, D2, s, q2)
  <2>1. StoresCheckpoints(D, D2, s, {})
    BY <1>1, <1>3 DEF sqlite_delete_checkpoints, StoresCheckpoints
  <2> QED
    BY <1>4, <1>5, <1>9, <2>1, NothingHeld, CheckpointsStored
<1>13. BackendsOK(m2, j2, q2, s \in B2.dirs, n + 1) /\ (AgreeOK(m, j, q) => AgreeOK(m2, j2, q2))
  <2>1. BackendsOK(m2, j2, q2, here, n + 1) /\ (AgreeOK(m, j, q) => AgreeOK(m2, j2, q2))
    <3>1. WithoutCheckpoints(m, j, q, m2, j2, q2)
      BY <1>9 DEF WithoutCheckpoints
    <3> QED
      BY <1>7b, <3>1, CheckpointsDeleted
  <2> QED
    BY <1>7a, <1>11, <2>1
<1> QED
  BY <1>1, <1>3, <1>4, <1>6, <1>10, <1>11, <1>12, <1>13, CallStep DEF CallOK, NobodysRecords

LEMMA SaveMetaStep ==
  ASSUME BackendIInv, NEW s \in Sids, NEW u \in Users \cup {NoUser}, save_session_meta(s, u) PROVE BackendIInv'
<1>1. /\ Call /\ memory' = memory_save_session_meta(s, Record(ops + 1, u))
      /\ jsonl' = jsonl_save_session_meta(s, Record(ops + 1, u))
      /\ sqlite' = sqlite_save_session_meta(s, Record(ops + 1, u))
  BY DEF save_session_meta
<1>2. /\ memory \in Stores(Seq(Rows)) /\ jsonl \in FileStores /\ sqlite \in Stores(SUBSET Rows)
      /\ BackendsOK(Of(memory, s), Of(jsonl, s), Of(sqlite, s), s \in jsonl.dirs, ops)
      /\ ops \in Nat /\ ops + 1 \in Numbers /\ ops + 1 # 0
  BY <1>1, BeforeCall
<1>3. PICK A, A2, B, B2, D, D2 : /\ A = memory /\ A2 = memory' /\ B = jsonl /\ B2 = jsonl'
                                 /\ D = sqlite /\ D2 = sqlite'
  OBVIOUS
<1>4. PICK m, j, q : m = Of(A, s) /\ j = Of(B, s) /\ q = Of(D, s)
  OBVIOUS
<1>5. /\ A \in Stores(Seq(Rows)) /\ B \in FileStores /\ D \in Stores(SUBSET Rows)
  BY <1>2, <1>3
<1>6. PICK n \in Nat : n = ops /\ n + 1 \in Numbers /\ n + 1 # 0
  BY <1>2
<1>7. BackendsOK(m, j, q, s \in B.dirs, n)
  BY <1>2, <1>3, <1>4, <1>6
<1>7a. PICK here \in BOOLEAN : here <=> s \in B.dirs
  OBVIOUS
<1>7b. BackendsOK(m, j, q, here, n)
  BY <1>7, <1>7a DEF BackendsOK
<1>8. FieldTypes(m, j, q)
  BY <1>7b, IdsStay DEF HeldBefore
<1>9. PICK r \in Records : r = Record(ops + 1, u) /\ r # NoRecord /\ r.user = u
  <2>1. PICK r : r = [at |-> ops + 1, user |-> u]
    OBVIOUS
  <2>2. r.at = ops + 1 /\ r.user = u /\ r \in Records
    BY <1>2, <2>1 DEF Records
  <2>3. r # NoRecord
    BY <1>2, <2>2 DEF NoRecord
  <2> QED
    BY <2>1, <2>2, <2>3 DEF Record
<1>10. PICK m2, q2 : /\ m2 = Made(r, m.messages, m.checkpoints, m.prompts, m.compaction)
                     /\ q2 = Made(r, <<>>, {}, <<>>, 0)
  OBVIOUS
<1>11. WithRecord(m, m2, q2, r)
  BY <1>10 DEF WithRecord
<1>12. A2 \in Stores(Seq(Rows)) /\ StoredAs(A, A2, s, m2)
  <2>1. A2 = [A EXCEPT !.meta[s] = r]
    BY <1>1, <1>3, <1>9 DEF memory_save_session_meta
  <2>2. /\ A2 \in Stores(Seq(Rows))
        /\ StoredAs(A, A2, s,
                Made(r, Of(A, s).messages, Of(A, s).checkpoints, Of(A, s).prompts, Of(A, s).compaction))
    BY <1>5, <2>1, MetaStored, Zenon
  <2> QED
    BY <1>4, <1>10, <2>2
<1>13. D2 \in Stores(SUBSET Rows) /\ StoredAs(D, D2, s, q2)
  <2>1. PICK E : E = cascade(D, s)
    OBVIOUS
  <2>2. StoresAll(D, E, s, NoRecord, <<>>, {}, <<>>, 0)
    BY <2>1 DEF cascade, StoresAll
  <2>3. E \in Stores(SUBSET Rows) /\ StoredAs(D, E, s, Made(NoRecord, <<>>, {}, <<>>, 0))
    BY <1>5, <2>2, NothingHeld, AllStored
  <2>4. D2 = [E EXCEPT !.meta[s] = r]
    BY <1>1, <1>3, <1>9, <2>1 DEF sqlite_save_session_meta
  <2>5. /\ D2 \in Stores(SUBSET Rows)
        /\ StoredAs(E, D2, s,
                Made(r, Of(E, s).messages, Of(E, s).checkpoints, Of(E, s).prompts, Of(E, s).compaction))
    BY <2>3, <2>4, MetaStored, Zenon
  <2>6. FieldsAre(Of(E, s), NoRecord, <<>>, {}, <<>>, 0)
    BY <2>3, BareIs DEF StoredAs
  <2>7. StoredAs(E, D2, s, q2)
    BY <1>10, <2>5, <2>6 DEF FieldsAre
  <2> QED
    BY <2>3, <2>5, <2>7 DEF StoredAs, Elsewhere
<1>14. CASE u = NoUser
  <2>1. B2 = [B EXCEPT !.meta[s] = r, !.dirs = B.dirs \cup {s}]
    BY <1>1, <1>3, <1>9, <1>14 DEF jsonl_save_session_meta
  <2>2. FilesRecord(B, B2, s, r)
    BY <2>1 DEF FilesRecord
  <2>3. PICK j2 : j2 = Made(r, j.messages, j.checkpoints, j.prompts, j.compaction)
    OBVIOUS
  <2>4. /\ B2 \in FileStores /\ B2.dirs = B.dirs \cup {s} /\ B2.user_meta = B.user_meta
        /\ StoredAs(B, B2, s,
                Made(r, Of(B, s).messages, Of(B, s).checkpoints, Of(B, s).prompts, Of(B, s).compaction))
    BY <1>5, <2>2, RecordFiled
  <2>5. StoredAs(B, B2, s, j2)
    BY <1>4, <2>3, <2>4
  <2>6. RecordOK(j, m2, j2, q2, r, here, n + 1)
    BY <1>7b, <1>9, <1>11, RecordSaved
  <2>7. BackendsOK(m2, j2, q2, TRUE, n + 1) /\ AgreeOK(m2, j2, q2)
    BY <2>3, <2>6 DEF RecordOK
  <2>8. BackendsOK(m2, j2, q2, s \in B2.dirs, n + 1)
    BY <2>4, <2>7 DEF BackendsOK
  <2> QED
    BY <1>1, <1>3, <1>4, <1>6, <1>12, <1>13, <2>4, <2>5, <2>7, <2>8, CallStep DEF CallOK, NobodysRecords
<1>15. CASE u # NoUser
  <2>1. B2 = [B EXCEPT !.user_meta[<<u, s>>] = r]
    BY <1>1, <1>3, <1>9, <1>15 DEF jsonl_save_session_meta
  <2>2. u \in Users /\ FilesUserRecord(B, B2, s, u, r)
    BY <1>15, <2>1 DEF FilesUserRecord
  <2>3. PICK j2 : j2 = j
    OBVIOUS
  <2>4. /\ B2 \in FileStores /\ B2.dirs = B.dirs /\ B2.user_meta = [B.user_meta EXCEPT ![<<u, s>>] = r]
        /\ StoredAs(B, B2, s,
                Made(Of(B, s).meta, Of(B, s).messages, Of(B, s).checkpoints, Of(B, s).prompts, Of(B, s).compaction))
    BY <1>5, <2>2, UserRecordFiled
  <2>5. StoredAs(B, B2, s, j2)
    <3>1. j = Made(j.meta, j.messages, j.checkpoints, j.prompts, j.compaction)
      BY <1>4 DEF Of, Made
    <3> QED
      BY <1>4, <2>3, <2>4, <3>1
  <2>6. RecordOK(j, m2, j2, q2, r, here, n + 1)
    BY <1>7b, <1>9, <1>11, RecordSaved
  <2>7. BackendsOK(m2, j2, q2, here, n + 1)
    BY <2>3, <2>6 DEF RecordOK
  <2>8. BackendsOK(m2, j2, q2, s \in B2.dirs, n + 1)
    BY <1>7a, <2>4, <2>7 DEF BackendsOK
  <2>9. ~NobodysRecords(B2)
    <3>1. B.user_meta \in [Users \X Sids -> Records] /\ <<u, s>> \in Users \X Sids
      BY <1>5, <2>2 DEF FileStores
    <3>2. B2.user_meta[<<u, s>>] = r
      BY <2>4, <3>1
    <3> QED
      BY <1>9, <2>2, <3>2 DEF NobodysRecords
  <2> QED
    BY <1>1, <1>3, <1>4, <1>6, <1>12, <1>13, <2>4, <2>5, <2>8, <2>9, CallStep DEF CallOK
<1> QED
  BY <1>14, <1>15

LEMMA DeleteSessionStep ==
  ASSUME BackendIInv, NEW s \in Sids, delete_session(s) PROVE BackendIInv'
<1>1. /\ Call /\ memory' = memory_delete_session(s) /\ jsonl' = jsonl_delete_session(s)
      /\ sqlite' = sqlite_delete_session(s)
  BY DEF delete_session
<1>2. /\ memory \in Stores(Seq(Rows)) /\ jsonl \in FileStores /\ sqlite \in Stores(SUBSET Rows)
      /\ BackendsOK(Of(memory, s), Of(jsonl, s), Of(sqlite, s), s \in jsonl.dirs, ops)
      /\ ops \in Nat /\ ops + 1 \in Numbers /\ ops + 1 # 0
  BY <1>1, BeforeCall
<1>3. PICK A, A2, B, B2, D, D2 : /\ A = memory /\ A2 = memory' /\ B = jsonl /\ B2 = jsonl'
                                 /\ D = sqlite /\ D2 = sqlite'
  OBVIOUS
<1>4. PICK m, j, q : m = Of(A, s) /\ j = Of(B, s) /\ q = Of(D, s)
  OBVIOUS
<1>5. /\ A \in Stores(Seq(Rows)) /\ B \in FileStores /\ D \in Stores(SUBSET Rows)
  BY <1>2, <1>3
<1>6. PICK n \in Nat : n = ops /\ n + 1 \in Numbers /\ n + 1 # 0
  BY <1>2
<1>7. BackendsOK(m, j, q, s \in B.dirs, n)
  BY <1>2, <1>3, <1>4, <1>6
<1>7a. PICK here \in BOOLEAN : here <=> s \in B.dirs
  OBVIOUS
<1>7b. BackendsOK(m, j, q, here, n)
  BY <1>7, <1>7a DEF BackendsOK
<1>8. FieldTypes(m, j, q)
  BY <1>7b, IdsStay DEF HeldBefore
<1>9. PICK m2, j2, q2 : /\ m2 = Made(NoRecord, m.messages, m.checkpoints, m.prompts, m.compaction)
                        /\ j2 = Bare(<<>>) /\ q2 = Bare({})
  OBVIOUS
<1>10. A2 \in Stores(Seq(Rows)) /\ StoredAs(A, A2, s, m2)
  <2>1. A2 = [A EXCEPT !.meta[s] = NoRecord]
    BY <1>1, <1>3 DEF memory_delete_session
  <2>2. /\ A2 \in Stores(Seq(Rows))
        /\ StoredAs(A, A2, s,
                Made(NoRecord, Of(A, s).messages, Of(A, s).checkpoints, Of(A, s).prompts, Of(A, s).compaction))
    BY <1>5, <2>1, NothingHeld, MetaStored, Zenon
  <2> QED
    BY <1>4, <1>9, <2>2
<1>11. D2 \in Stores(SUBSET Rows) /\ StoredAs(D, D2, s, q2)
  <2>1. StoresAll(D, D2, s, NoRecord, <<>>, {}, <<>>, 0)
    BY <1>1, <1>3 DEF sqlite_delete_session, cascade, StoresAll
  <2>2. D2 \in Stores(SUBSET Rows) /\ StoredAs(D, D2, s, Made(NoRecord, <<>>, {}, <<>>, 0))
    BY <1>5, <2>1, NothingHeld, AllStored
  <2> QED
    BY <1>9, <2>2, BareIs
<1>12. BackendsOK(m2, j2, q2, FALSE, n + 1) /\ AgreeOK(m2, j2, q2)
  <2>1. WithoutRecord(m, m2, j2, q2)
    BY <1>9 DEF WithoutRecord
  <2> QED
    BY <1>7b, <2>1, SessionDeleted
<1>13. CASE s \in B.dirs
  <2>1. RemovesSession(B, B2, s, NoRecord, <<>>, <<>>, <<>>, 0)
    BY <1>1, <1>3, <1>13 DEF jsonl_delete_session, RemovesSession
  <2>2. /\ B2 \in FileStores /\ B2.dirs = B.dirs \ {s} /\ B2.user_meta = B.user_meta
        /\ StoredAs(B, B2, s, Made(NoRecord, <<>>, <<>>, <<>>, 0))
    <3>1. B \in FileStores /\ NoRecord \in Records /\ <<>> \in Seq(Rows) /\ <<>> \in Seq(Numbers)
            /\ 0 \in Numbers
      BY <1>5, NothingHeld
    <3>2. LeftWithout(B, B2, s, Made(NoRecord, <<>>, <<>>, <<>>, 0))
      BY <2>1, <3>1, SessionRemoved
    <3> QED
      BY <3>2 DEF LeftWithout
  <2>3. StoredAs(B, B2, s, j2)
    BY <1>9, <2>2, BareIs
  <2>4. BackendsOK(m2, j2, q2, s \in B2.dirs, n + 1)
    BY <1>12, <2>2 DEF BackendsOK
  <2> QED
    BY <1>1, <1>3, <1>4, <1>6, <1>10, <1>11, <1>12, <2>2, <2>3, <2>4, CallStep DEF CallOK, NobodysRecords
<1>14. CASE s \notin B.dirs
  <2>1. B2 = B
    BY <1>1, <1>3, <1>14 DEF jsonl_delete_session
  <2>2. j = Bare(<<>>)
    BY <1>7, <1>14 DEF BackendsOK
  <2>3. StoredAs(B, B2, s, j2)
    BY <1>4, <1>9, <2>1, <2>2 DEF StoredAs, Elsewhere
  <2>4. BackendsOK(m2, j2, q2, s \in B2.dirs, n + 1)
    BY <1>12, <1>14, <2>1 DEF BackendsOK
  <2> QED
    BY <1>1, <1>3, <1>4, <1>5, <1>6, <1>10, <1>11, <1>12, <2>1, <2>3, <2>4, CallStep
        DEF CallOK, NobodysRecords
<1> QED
  BY <1>13, <1>14

LEMMA BackendStart == ASSUME Init PROVE BackendIInv
<1>1. ops = 0 /\ ops \in Numbers
  BY NothingHeld DEF Init
<1>2. PICK A, B, D : A = Nothing /\ B = NoFiles /\ D = NoTables
  OBVIOUS
<1>3. memory = A /\ jsonl = B /\ sqlite = D
  BY <1>2 DEF Init
<1>4. PICK a : a = [s \in Sids |-> NoRecord]
  OBVIOUS
<1>4a. PICK x : x = [s \in Sids |-> <<>>]
  OBVIOUS
<1>4b. PICK c : c = [s \in Sids |-> {}]
  OBVIOUS
<1>4c. PICK k : k = [s \in Sids |-> 0]
  OBVIOUS
<1>4d. PICK um : um = [us \in Users \X Sids |-> NoRecord]
  OBVIOUS
<1>5. A = Made(a, x, x, x, k) /\ D = Made(a, x, c, x, k) /\ B = FilesOf(a, x, x, x, k, {}, um)
  <2>1. A = Made(a, x, x, x, k)
    BY <1>2, <1>4, <1>4a, <1>4c DEF Nothing, Made
  <2>2. D = Made(a, x, c, x, k)
    <3>1. D = [A EXCEPT !.checkpoints = c]
      BY <1>2, <1>4b DEF NoTables
    <3> QED
      BY <2>1, <3>1 DEF Made
  <2>3. B = FilesOf(a, x, x, x, k, {}, um)
    BY <1>2, <1>4, <1>4a, <1>4c, <1>4d DEF NoFiles, FilesOf
  <2> QED
    BY <2>1, <2>2, <2>3
<1>6. /\ a \in [Sids -> Records] /\ x \in [Sids -> Seq(Rows)] /\ x \in [Sids -> Seq(Numbers)]
      /\ c \in [Sids -> SUBSET Rows] /\ k \in [Sids -> Numbers] /\ um \in [Users \X Sids -> Records]
  <2>1. NoRecord \in Records /\ <<>> \in Seq(Rows) /\ <<>> \in Seq(Numbers) /\ {} \in SUBSET Rows
          /\ 0 \in Numbers
    BY NothingHeld
  <2>2. a \in [Sids -> Records]
    BY <1>4, <2>1
  <2>2a. um \in [Users \X Sids -> Records]
    BY <1>4d, <2>1
  <2>3. x \in [Sids -> Seq(Rows)] /\ x \in [Sids -> Seq(Numbers)]
    BY <1>4a, <2>1
  <2>4. c \in [Sids -> SUBSET Rows]
    BY <1>4b, <2>1
  <2>5. k \in [Sids -> Numbers]
    BY <1>4c, <2>1
  <2> QED
    BY <2>2, <2>2a, <2>3, <2>4, <2>5
<1>7. {} \in SUBSET Sids
  OBVIOUS
<1>8. A \in Stores(Seq(Rows))
  BY <1>5, <1>6 DEF Stores, Made
<1>9. D \in Stores(SUBSET Rows)
  BY <1>5, <1>6 DEF Stores, Made
<1>10. B \in FileStores
  BY <1>5, <1>6, <1>7 DEF FileStores, FilesOf
<1>11. ASSUME NEW s \in Sids
       PROVE  Of(A, s) = Bare(<<>>) /\ Of(B, s) = Bare(<<>>) /\ Of(D, s) = Bare({})
  BY <1>4, <1>4a, <1>4b, <1>4c, <1>5 DEF Of, Bare, Made, FilesOf
<1>12. FieldsAre(Bare(<<>>), NoRecord, <<>>, <<>>, <<>>, 0)
         /\ FieldsAre(Bare({}), NoRecord, <<>>, {}, <<>>, 0)
  BY BareIs
<1>13. HeldInOrder(Bare(<<>>), Bare(<<>>), Bare({}))
  <2>1. Ends(<<>>, <<>>)
    BY NothingHeld, EmptyEnds
  <2> QED
    BY <1>12, <2>1 DEF HeldInOrder, FieldsAre
<1>14. IdsGrow(<<>>, 0) /\ StepsAreUnique({})
  BY DEF IdsGrow, StepsAreUnique
<1>15. SessionTypes(Bare(<<>>), Bare(<<>>), Bare({}))
  BY NothingHeld DEF SessionTypes
<1>16. \A here \in BOOLEAN : BackendsOK(Bare(<<>>), Bare(<<>>), Bare({}), here, 0)
  BY <1>12, <1>13, <1>14, <1>15 DEF BackendsOK, FieldsAre
<1>17. SessionsOK(A, B, D, 0)
  <2> SUFFICES ASSUME NEW s \in Sids PROVE BackendsOK(Of(A, s), Of(B, s), Of(D, s), s \in B.dirs, 0)
    BY DEF SessionsOK
  <2>1. BackendsOK(Of(A, s), Of(B, s), Of(D, s), TRUE, 0)
          /\ BackendsOK(Of(A, s), Of(B, s), Of(D, s), FALSE, 0)
    BY <1>11, <1>16
  <2> QED
    BY <2>1 DEF BackendsOK
<1>18. AgreeOK(Bare(<<>>), Bare(<<>>), Bare({}))
  BY <1>12 DEF AgreeOK, FieldsAre
<1>19. RecordsOK(A, B, D)
  BY <1>11, <1>18 DEF RecordsOK
<1> QED
  BY <1>1, <1>3, <1>8, <1>9, <1>10, <1>17, <1>19 DEF BackendIInv, BackendTypes

LEMMA BackendStep == ASSUME BackendIInv, Next \/ UNCHANGED vars PROVE BackendIInv'
<1>1. ASSUME NEW s \in Sids, NEW u \in Users \cup {NoUser}, save_session_meta(s, u) PROVE BackendIInv'
  BY <1>1, SaveMetaStep
<1>2. ASSUME NEW s \in Sids, delete_session(s) PROVE BackendIInv'
  BY <1>2, DeleteSessionStep
<1>3. ASSUME NEW s \in Sids, NEW step \in Steps, append_message(s, step) PROVE BackendIInv'
  BY <1>3, AppendStep
<1>4. ASSUME NEW s \in Sids, NEW step \in Steps, save_checkpoint(s, step) PROVE BackendIInv'
  BY <1>4, SaveCheckpointStep
<1>5. ASSUME NEW s \in Sids, delete_checkpoints(s) PROVE BackendIInv'
  BY <1>5, DeleteCheckpointsStep
<1>6. ASSUME NEW s \in Sids, save_prompt_history(s) PROVE BackendIInv'
  BY <1>6, SavePromptStep
<1>7. ASSUME NEW s \in Sids, save_compaction(s) PROVE BackendIInv'
  BY <1>7, SaveCompactionStep
<1>8. CASE UNCHANGED vars
  <2>1. memory' = memory /\ jsonl' = jsonl /\ sqlite' = sqlite /\ ops' = ops
    BY <1>8 DEF vars
  <2> QED
    BY <2>1 DEF BackendIInv, BackendTypes, SessionsOK, RecordsOK, NobodysRecords, Of
<1> QED
  BY <1>1, <1>2, <1>3, <1>4, <1>5, <1>6, <1>7, <1>8, Zenon DEF Next

LEMMA RangeIn == ASSUME NEW S, NEW q \in Seq(S) PROVE ToSet(q) \subseteq S
<1>1. \A i \in DOMAIN q : q[i] \in S
  OBVIOUS
<1> QED
  BY <1>1 DEF ToSet

\* Sorted by step, the messages of a table that has lost none are those of the files.
LEMMA MessagesAsStored ==
  ASSUME NEW q \in Seq(Rows), NEW j \in Seq(Rows), NEW n \in Nat, Ends(q, j), Len(q) = Len(j),
         IdsGrow(j, n), InOrder(j, FALSE)
  PROVE  OrderedByStep(ToSet(q)) = j
<1>1. q = j
  BY EndIsWhole
<1>2. PICK l \in Nat : l = Len(j)
  OBVIOUS
<1>3. DOMAIN j = 1 .. l
  BY <1>2
<1>4. IsOrdered(j)
  <2> SUFFICES ASSUME NEW a \in 1 .. l, NEW b \in 1 .. l, a < b PROVE Before(j[a], j[b])
    BY <1>3 DEF IsOrdered
  <2>1. j[a].step < j[b].step \/ j[a].step = j[b].step
    BY <1>2 DEF InOrder
  <2>2. j[a].at < j[b].at
    BY <1>2 DEF IdsGrow
  <2> QED
    BY <2>1, <2>2 DEF Before
<1> QED
  BY <1>1, <1>4, ReadAsStored

\* Checkpoints with growing steps are listed as they were stored.
LEMMA CheckpointsAsStored ==
  ASSUME NEW j \in Seq(Rows), InOrder(j, TRUE)
  PROVE  OrderedByStep(ToSet(j)) = j
<1>1. PICK l \in Nat : l = Len(j)
  OBVIOUS
<1>2. DOMAIN j = 1 .. l
  BY <1>1
<1>3. IsOrdered(j)
  <2> SUFFICES ASSUME NEW a \in 1 .. l, NEW b \in 1 .. l, a < b PROVE Before(j[a], j[b])
    BY <1>2 DEF IsOrdered
  <2>1. j[a].step < j[b].step
    BY <1>1 DEF InOrder
  <2> QED
    BY <2>1 DEF Before
<1> QED
  BY <1>3, ReadAsStored

\* The first of a list with a step is the only row with it.
FirstAt(j, step) ==
  LET at == {i \in DOMAIN j : j[i].step = step}
  IN IF at = {} THEN NoRow ELSE j[CHOOSE i \in at : \A k \in at : i <= k]
OneAt(rows, step) ==
  LET at == {c \in rows : c.step = step}
  IN IF at = {} THEN NoRow ELSE CHOOSE c \in at : TRUE

LEMMA SameAtStep ==
  ASSUME NEW j \in Seq(Rows), StepsAreUnique(ToSet(j)), NEW step \in Steps
  PROVE  OneAt(ToSet(j), step) = FirstAt(j, step)
<1>1. PICK I, R : I = {i \in DOMAIN j : j[i].step = step} /\ R = {c \in ToSet(j) : c.step = step}
  OBVIOUS
<1>2. (I = {} <=> R = {}) /\ I \subseteq Nat /\ \A i \in I : j[i] \in R
  BY <1>1 DEF ToSet
<1>3. \A c, d \in R : c = d
  BY <1>1 DEF StepsAreUnique
<1>4. CASE I = {}
  BY <1>1, <1>2, <1>4 DEF OneAt, FirstAt
<1>5. CASE I # {}
  <2>1. PICK i : i = CHOOSE h \in I : \A k \in I : h <= k
    OBVIOUS
  <2>2. i \in I
    <3>1. \E x \in I : \A y \in I : x <= y
      BY <1>2, <1>5, LeastOf
    <3> QED
      BY <2>1, <3>1
  <2>3. PICK c : c = CHOOSE d \in R : TRUE
    OBVIOUS
  <2>4. c \in R /\ j[i] \in R
    BY <1>2, <1>5, <2>2, <2>3
  <2>5. c = j[i]
    BY <2>4, <1>3
  <2>6. FirstAt(j, step) = j[i]
    BY <1>1, <1>5, <2>1 DEF FirstAt
  <2>7. OneAt(ToSet(j), step) = c
    BY <1>1, <1>2, <1>5, <2>3 DEF OneAt
  <2> QED
    BY <2>5, <2>6, <2>7
<1> QED
  BY <1>4, <1>5

LEMMA BackendIInvIsEnough == BackendIInv => SessionBackendsSound
<1> SUFFICES ASSUME BackendIInv PROVE TypeOK /\ NestedContents /\ RecordsAgree /\ ReadersAgree
  BY DEF SessionBackendsSound
<1>1. PICK A, B, D : A = memory /\ B = jsonl /\ D = sqlite
  OBVIOUS
<1>2. PICK n \in Numbers : n = ops
  BY DEF BackendIInv, BackendTypes
<1>2a. n \in Nat
  BY BackendAssumption DEF Numbers
<1>3. A \in Stores(Seq(Rows)) /\ B \in FileStores /\ D \in Stores(SUBSET Rows)
  BY <1>1 DEF BackendIInv, BackendTypes
<1>4. SessionsOK(A, B, D, n) /\ RecordsOK(A, B, D)
  BY <1>1, <1>2 DEF BackendIInv
<1>5. ASSUME NEW s \in Sids
      PROVE  /\ BackendsOK(Of(A, s), Of(B, s), Of(D, s), s \in B.dirs, n)
             /\ FieldTypes(Of(A, s), Of(B, s), Of(D, s)) /\ HeldInOrder(Of(A, s), Of(B, s), Of(D, s))
             /\ IdsGrow(Of(B, s).messages, n) /\ StepsAreUnique(Of(D, s).checkpoints)
  <2>1. BackendsOK(Of(A, s), Of(B, s), Of(D, s), s \in B.dirs, n)
    BY <1>4 DEF SessionsOK
  <2>2. /\ SessionTypes(Of(A, s), Of(B, s), Of(D, s)) /\ HeldInOrder(Of(A, s), Of(B, s), Of(D, s))
        /\ IdsGrow(Of(B, s).messages, n) /\ StepsAreUnique(Of(D, s).checkpoints)
    BY <2>1 DEF BackendsOK
  <2> QED
    BY <2>1, <2>2, FieldTypesAre
<1>6. TypeOK
  <2>1. ASSUME NEW s \in Sids
        PROVE  /\ StoredOK(A, s) /\ StoredOK(B, s) /\ StoredOK(D, s)
               /\ ToSet(A.checkpoints[s]) \cup ToSet(B.checkpoints[s]) \subseteq Rows
               /\ D.checkpoints[s] \subseteq Rows
               /\ \A c, d \in D.checkpoints[s] : c.step = d.step => c = d
    <3>1. PICK m, j, q : m = Of(A, s) /\ j = Of(B, s) /\ q = Of(D, s)
      OBVIOUS
    <3>2. FieldTypes(m, j, q) /\ StepsAreUnique(q.checkpoints)
      BY <1>5, <3>1
    <3>3. /\ m.meta = A.meta[s] /\ m.messages = A.messages[s] /\ m.checkpoints = A.checkpoints[s]
          /\ m.prompts = A.prompts[s] /\ m.compaction = A.compaction[s]
      BY <3>1 DEF Of
    <3>4. /\ j.meta = B.meta[s] /\ j.messages = B.messages[s] /\ j.checkpoints = B.checkpoints[s]
          /\ j.prompts = B.prompts[s] /\ j.compaction = B.compaction[s]
      BY <3>1 DEF Of
    <3>5. /\ q.meta = D.meta[s] /\ q.messages = D.messages[s] /\ q.checkpoints = D.checkpoints[s]
          /\ q.prompts = D.prompts[s] /\ q.compaction = D.compaction[s]
      BY <3>1 DEF Of
    <3>6. /\ ToSet(m.messages) \subseteq Rows /\ ToSet(m.checkpoints) \subseteq Rows
          /\ ToSet(m.prompts) \subseteq Numbers
          /\ ToSet(j.messages) \subseteq Rows /\ ToSet(j.checkpoints) \subseteq Rows
          /\ ToSet(j.prompts) \subseteq Numbers
          /\ ToSet(q.messages) \subseteq Rows /\ ToSet(q.prompts) \subseteq Numbers
      BY <3>2, RangeIn DEF FieldTypes
    <3>7. \A r \in Records : r.at \in Numbers /\ r.user \in Users \cup {NoUser}
      BY DEF Records
    <3>8. StoredOK(A, s)
      BY <3>2, <3>3, <3>6, <3>7 DEF StoredOK, FieldTypes
    <3>9. StoredOK(B, s)
      BY <3>2, <3>4, <3>6, <3>7 DEF StoredOK, FieldTypes
    <3>10. StoredOK(D, s)
      BY <3>2, <3>5, <3>6, <3>7 DEF StoredOK, FieldTypes
    <3> QED
      BY <3>2, <3>3, <3>4, <3>5, <3>6, <3>8, <3>9, <3>10 DEF FieldTypes, StepsAreUnique
  <2>2. B.dirs \subseteq Sids
    BY <1>3 DEF FileStores
  <2>3. ops \in Numbers
    BY <1>2
  <2> QED
    BY <1>1, <2>1, <2>2, <2>3, Zenon DEF TypeOK
<1>7. NestedContents
  <2> SUFFICES ASSUME NEW s \in Sids
               PROVE  /\ IsSuffix(D.messages[s], B.messages[s]) /\ IsSuffix(B.messages[s], A.messages[s])
                      /\ D.checkpoints[s] \subseteq ToSet(B.checkpoints[s])
                      /\ IsSuffix(B.checkpoints[s], A.checkpoints[s])
                      /\ IsSuffix(D.prompts[s], B.prompts[s]) /\ IsSuffix(B.prompts[s], A.prompts[s])
                      /\ D.compaction[s] \in {0, B.compaction[s]} /\ B.compaction[s] \in {0, A.compaction[s]}
    BY <1>1 DEF NestedContents, load_messages
  <2>1. PICK m, j, q : m = Of(A, s) /\ j = Of(B, s) /\ q = Of(D, s)
    OBVIOUS
  <2>2. FieldTypes(m, j, q) /\ HeldInOrder(m, j, q)
    BY <1>5, <2>1
  <2>3. /\ IsSuffix(q.messages, j.messages) /\ IsSuffix(j.messages, m.messages)
        /\ IsSuffix(j.checkpoints, m.checkpoints)
        /\ IsSuffix(q.prompts, j.prompts) /\ IsSuffix(j.prompts, m.prompts)
    BY <2>2, EndIsSuffix DEF FieldTypes, HeldInOrder
  <2>4. /\ q.checkpoints \subseteq ToSet(j.checkpoints)
        /\ q.compaction \in {0, j.compaction} /\ j.compaction \in {0, m.compaction}
    BY <2>2 DEF HeldInOrder
  <2>5. /\ m.messages = A.messages[s] /\ m.checkpoints = A.checkpoints[s] /\ m.prompts = A.prompts[s]
        /\ m.compaction = A.compaction[s]
        /\ j.messages = B.messages[s] /\ j.checkpoints = B.checkpoints[s] /\ j.prompts = B.prompts[s]
        /\ j.compaction = B.compaction[s]
        /\ q.messages = D.messages[s] /\ q.checkpoints = D.checkpoints[s] /\ q.prompts = D.prompts[s]
        /\ q.compaction = D.compaction[s]
    BY <2>1 DEF Of
  <2> QED
    BY <2>3, <2>4, <2>5
<1>8. RecordsAgree
  <2> SUFFICES ASSUME \A s \in Sids, u \in Users : B.user_meta[u, s] = NoRecord
               PROVE  /\ list_sessions(A) = list_sessions(B) /\ list_sessions(B) = list_sessions(D)
                      /\ \A s \in Sids : load_session_meta(B, s) = load_session_meta(D, s)
    BY <1>1 DEF RecordsAgree
  <2>1. NobodysRecords(B)
    BY DEF NobodysRecords
  <2>2. ASSUME NEW s \in Sids
        PROVE  (A.meta[s] = NoRecord <=> B.meta[s] = NoRecord) /\ B.meta[s] = D.meta[s]
    <3>1. AgreeOK(Of(A, s), Of(B, s), Of(D, s))
      BY <1>4, <2>1 DEF RecordsOK
    <3>2. Of(A, s).meta = A.meta[s] /\ Of(B, s).meta = B.meta[s] /\ Of(D, s).meta = D.meta[s]
      BY OfFields DEF FieldsAre
    <3> QED
      BY <3>1, <3>2 DEF AgreeOK
  <2> QED
    BY <2>2 DEF list_sessions, load_session_meta
<1>9. ReadersAgree
  <2> SUFFICES ASSUME NEW s \in Sids
               PROVE  /\ Len(D.messages[s]) = Len(B.messages[s]) /\ InOrder(B.messages[s], FALSE)
                           => OrderedByStep(ToSet(D.messages[s])) = B.messages[s]
                      /\ ToSet(B.checkpoints[s]) \subseteq D.checkpoints[s] /\ InOrder(B.checkpoints[s], TRUE)
                           => /\ OrderedByStep(D.checkpoints[s]) = B.checkpoints[s]
                              /\ \A step \in Steps : OneAt(D.checkpoints[s], step) = FirstAt(B.checkpoints[s], step)
    <3>1. ASSUME NEW s \in Sids
          PROVE  /\ sqlite_load_messages(s) = OrderedByStep(ToSet(D.messages[s]))
                 /\ load_messages(jsonl, s) = B.messages[s]
                 /\ sqlite_list_checkpoints(s) = OrderedByStep(D.checkpoints[s])
                 /\ list_checkpoints(jsonl, s) = B.checkpoints[s]
      BY <1>1 DEF sqlite_load_messages, load_messages, sqlite_list_checkpoints, list_checkpoints
    <3>2. ASSUME NEW s \in Sids
          PROVE  /\ sqlite_load_latest_checkpoint(s) = LastOf(sqlite_list_checkpoints(s))
                 /\ load_latest_checkpoint(jsonl, s) = LastOf(list_checkpoints(jsonl, s))
      BY DEF sqlite_load_latest_checkpoint, load_latest_checkpoint
    <3>3. ASSUME NEW s \in Sids, NEW step \in Steps
          PROVE  /\ sqlite_load_checkpoint_at_step(s, step) = OneAt(D.checkpoints[s], step)
                 /\ load_checkpoint_at_step(jsonl, s, step) = FirstAt(B.checkpoints[s], step)
      <4>1. sqlite_load_checkpoint_at_step(s, step) = OneAt(sqlite.checkpoints[s], step)
        BY DEF sqlite_load_checkpoint_at_step, OneAt
      <4>2. load_checkpoint_at_step(jsonl, s, step) = FirstAt(list_checkpoints(jsonl, s), step)
        BY DEF load_checkpoint_at_step, FirstAt
      <4> QED
        BY <1>1, <3>1, <4>1, <4>2
    <3> QED
      BY <1>1, <3>1, <3>2, <3>3, ZenonT(30) DEF ReadersAgree
  <2>1. PICK m, j, q : m = Of(A, s) /\ j = Of(B, s) /\ q = Of(D, s)
    OBVIOUS
  <2>2. /\ FieldTypes(m, j, q) /\ HeldInOrder(m, j, q) /\ IdsGrow(j.messages, n)
        /\ StepsAreUnique(q.checkpoints)
    BY <1>5, <2>1
  <2>3. /\ j.messages = B.messages[s] /\ j.checkpoints = B.checkpoints[s]
        /\ q.messages = D.messages[s] /\ q.checkpoints = D.checkpoints[s]
    BY <2>1 DEF Of
  <2>4. /\ j.messages \in Seq(Rows) /\ q.messages \in Seq(Rows) /\ j.checkpoints \in Seq(Rows)
        /\ Ends(q.messages, j.messages) /\ q.checkpoints \subseteq ToSet(j.checkpoints)
    BY <2>2 DEF FieldTypes, HeldInOrder
  <2>5. ASSUME Len(q.messages) = Len(j.messages), InOrder(j.messages, FALSE)
        PROVE  OrderedByStep(ToSet(q.messages)) = j.messages
    BY <1>2a, <2>2, <2>4, <2>5, MessagesAsStored
  <2>6. ASSUME ToSet(j.checkpoints) \subseteq q.checkpoints, InOrder(j.checkpoints, TRUE)
        PROVE  /\ OrderedByStep(q.checkpoints) = j.checkpoints
               /\ \A step \in Steps : OneAt(q.checkpoints, step) = FirstAt(j.checkpoints, step)
    <3>1. q.checkpoints = ToSet(j.checkpoints)
      BY <2>4, <2>6
    <3>2. OrderedByStep(ToSet(j.checkpoints)) = j.checkpoints
      BY <2>4, <2>6, CheckpointsAsStored
    <3>3. \A step \in Steps : OneAt(ToSet(j.checkpoints), step) = FirstAt(j.checkpoints, step)
      BY <2>2, <2>4, <3>1, SameAtStep
    <3> QED
      BY <3>1, <3>2, <3>3
  <2> QED
    BY <2>3, <2>5, <2>6
<1> QED
  BY <1>6, <1>7, <1>8, <1>9

\* The three backends under the same calls, for any sessions, users and steps: what the
\* tables have of a session the files have and what the files have memory has, in the
\* order of storing; without user names they agree on the sessions and the age of their
\* records; and where the tables have lost nothing, their readers answer as the files do.
THEOREM BackendsForgetInOrder == PartSpec => []SessionBackendsChecked
<1>1. PartInit => BackendIInv
  BY BackendStart DEF PartInit
<1>2. BackendIInv /\ [PartNext]_partVars => BackendIInv'
  <2> SUFFICES ASSUME BackendIInv, [PartNext]_partVars PROVE BackendIInv'
    OBVIOUS
  <2>1. Next \/ UNCHANGED vars
    BY Zenon DEF PartNext, partVars
  <2> QED
    BY <2>1, BackendStep
<1>3. BackendIInv => SessionBackendsChecked
  BY BackendIInvIsEnough DEF SessionBackendsChecked
<1> QED
  BY <1>1, <1>2, <1>3, PTL DEF PartSpec
=============================================================================
