----------------------------- MODULE MergePolicy -----------------------------
(***************************************************************************)
(* What decides that a lane of work is done: the evidence for its green     *)
(* contract, the policy engine and the completion detector                  *)
(* (green_contract.rs, policy_engine.rs, tools/src/lane_completion.rs).     *)
(***************************************************************************)
EXTENDS Naturals, Sequences, SequencesExt

CONSTANTS
  MaxRules,     \* bound on the rules of an engine
  MaxPriority   \* bound on the priority of a rule

VARIABLES
  evidence,        \* GreenEvidence being put together for the lane
  lane_output,     \* AgentOutput of the lane: status, error, blocker
  lane_actions,    \* the actions the policy engine decided, in order
  rules            \* the rules another engine is made of

mergeVars  == <<evidence, lane_output, lane_actions>>
engineVars == <<rules>>

GreenLevel == <<"TargetedTests", "Package", "Workspace", "MergeReady">>

-----------------------------------------------------------------------------
(* The green contract *)

MergeReadyContract(level) ==
  [required_level |-> level,
   requirements |-> {"TestCommandProvenance", "BaseBranchFreshness",
                     "RecoveryAttemptContext"},
   block_known_flakes |-> TRUE]

GreenEvidenceNew(level) ==
  [observed_level |-> level, test_commands |-> {}, base_branch_fresh |-> FALSE,
   known_flakes |-> {}, recovery_context |-> FALSE]

has_passing_test_command(e) == \E c \in e.test_commands : c.exit = 0 /\ ~c.blank

MissingRequirements(contract, e) ==
  {r \in contract.requirements :
     \/ r = "TestCommandProvenance" /\ ~has_passing_test_command(e)
     \/ r = "BaseBranchFreshness" /\ ~e.base_branch_fresh
     \/ r = "RecoveryAttemptContext" /\ ~e.recovery_context}
    \cup IF e.observed_level < contract.required_level THEN {"RequiredLevel"} ELSE {}

evaluate_evidence(contract, e) ==
  /\ MissingRequirements(contract, e) = {}
  /\ contract.block_known_flakes => \A f \in e.known_flakes : ~f.blocks_green

-----------------------------------------------------------------------------
(* The policy engine *)

\* A condition of a rule on the context of a lane; its age is in hours.
PolicyConditionMatches(c, ctx) ==
  CASE c = "LaneCompleted"  -> ctx.completed
    [] c = "LaneReconciled" -> ctx.reconciled
    [] c = "ReviewPassed"   -> ctx.review_status = "Approved"
    [] c = "ScopedDiff"     -> ctx.diff_scope = "Scoped"
    [] c = "StartupBlocked" -> ctx.blocker = "Startup"
    [] c = "StaleBranch"    -> ctx.branch_freshness >= 1
    [] c = "TimedOut2"      -> ctx.branch_freshness >= 2
    [] c = "GreenAt3"       -> ctx.green_contract_satisfied /\ ctx.green_level >= 3

\* And of Ors: every clause of a rule has a condition that holds.
PolicyRuleMatches(r, ctx) ==
  \A clause \in r.condition : \E c \in clause : PolicyConditionMatches(c, ctx)

\* PolicyEngine::new sorts the rules by priority and keeps the order of equals.
PolicyEngineRules(rs) ==
  FlattenSeq([n \in 1 .. MaxPriority |-> SelectSeq(rs, LAMBDA r : r.priority = n)])

\* The actions of every rule that matches, chains taken apart, in rule order.
policy_evaluate(rs, ctx) ==
  LET matching == SelectSeq(PolicyEngineRules(rs), LAMBDA r : PolicyRuleMatches(r, ctx))
  IN  FlattenSeq([i \in DOMAIN matching |-> matching[i].action])

LaneContextReconciled ==
  [green_level |-> 0, green_contract_satisfied |-> FALSE, branch_freshness |-> 0,
   blocker |-> "None", review_status |-> "Pending", diff_scope |-> "Full",
   completed |-> TRUE, reconciled |-> TRUE]

\* Conditions of the rules an engine is tried with.
RuleConditions ==
  {{}, {{"LaneCompleted"}, {"GreenAt3"}}, {{"StaleBranch", "LaneReconciled"}, {"TimedOut2"}}}

\* The rules evaluate_completed_lane gives the engine.
CompletedLaneRules ==
  << [priority |-> 10, condition |-> {{"LaneCompleted"}, {"GreenAt3"}},
      action |-> <<"CloseoutLane">>],
     [priority |-> 5, condition |-> {{"LaneCompleted"}}, action |-> <<"CleanupSession">>] >>
evaluate_completed_lane(ctx) == policy_evaluate(CompletedLaneRules, ctx)

\* Mutant: the tests are not asked about.
CompletionDetectedUntested(out, test_green, has_pushed) ==
  /\ ~out.error /\ out.status \in {"completed", "finished"} /\ ~out.blocked
  /\ has_pushed

CompletionDetected(out, test_green, has_pushed) ==
  /\ ~out.error
  /\ out.status \in {"completed", "finished"}
  /\ ~out.blocked
  /\ test_green
  /\ has_pushed

\* The context a lane that is complete gets; no context is TRUE of any other.
CompletedContext ==
  [green_level |-> 3, green_contract_satisfied |-> TRUE, branch_freshness |-> 0,
   blocker |-> "None", review_status |-> "Approved", diff_scope |-> "Scoped",
   completed |-> TRUE, reconciled |-> FALSE]

\* What the detector and the rules make of a lane, nothing if it is to stay active.
LaneDecision(out, test_green, has_pushed) ==
  IF CompletionDetected(out, test_green, has_pushed)
    THEN evaluate_completed_lane(CompletedContext)
    ELSE <<>>

\* PolicyEngine::new of one more rule: rule n of the list tells channel n, once or
\* in a chain of two.
Notify(n, k) == [i \in 1 .. k |-> <<n, i>>]

EngineNext ==
  /\ Len(rules) < MaxRules
  /\ \E prio \in {1, MaxPriority}, clauses \in RuleConditions, k \in {1, 2} :
       rules' = Append(rules, [priority |-> prio, condition |-> clauses,
                               action |-> Notify(Len(rules) + 1, k)])

EngineInit == rules = <<>>

-----------------------------------------------------------------------------
MergeInit ==
  /\ \E l \in DOMAIN GreenLevel : evidence = GreenEvidenceNew(l)
  /\ lane_output = [status |-> "running", error |-> FALSE, blocked |-> FALSE]
  /\ lane_actions = <<>>

\* The builder calls on the evidence of the lane; its level is fixed at the start.
with_evidence ==
  /\ evidence' \in
       {[evidence EXCEPT !.test_commands = @ \cup {[exit |-> e, blank |-> b]}] :
          e \in {0, 1}, b \in BOOLEAN}
       \cup {[evidence EXCEPT !.base_branch_fresh = f] : f \in BOOLEAN}
       \cup {[evidence EXCEPT !.known_flakes = @ \cup {[blocks_green |-> f]}] : f \in BOOLEAN}
       \cup {[evidence EXCEPT !.recovery_context = f] : f \in BOOLEAN}
  /\ UNCHANGED <<lane_output, lane_actions>>

AgentReports(out) ==
  /\ lane_output.status = "running"
  /\ lane_output' = out
  /\ UNCHANGED <<evidence, lane_actions>>

\* detect_lane_completion and the policy of a completed lane, on what is known.
detect_lane_completion(test_green, has_pushed) ==
  /\ lane_actions = <<>>
  /\ lane_actions' = LaneDecision(lane_output, test_green, has_pushed)
  /\ UNCHANGED <<evidence, lane_output>>
reconcile_lane ==
  /\ lane_actions = <<>>
  /\ lane_actions' = evaluate_completed_lane(LaneContextReconciled)
  /\ UNCHANGED <<evidence, lane_output>>

MergeNext ==
  \/ with_evidence \/ reconcile_lane
  \/ \E s \in {"completed", "finished", "failed"}, err, blk \in BOOLEAN :
       AgentReports([status |-> s, error |-> err, blocked |-> blk])
  \/ \E green, pushed \in BOOLEAN : detect_lane_completion(green, pushed)

-----------------------------------------------------------------------------
(* Properties *)

MergeTypeOK ==
  /\ evidence.observed_level \in DOMAIN GreenLevel
  /\ \A i \in DOMAIN lane_actions : lane_actions[i] \in {"CleanupSession", "CloseoutLane"}
  /\ Len(rules) <= MaxRules /\ \A n \in DOMAIN rules : rules[n].priority \in 1 .. MaxPriority

\* A lane is cleaned up and then closed out when its agent ended well and unblocked,
\* with green tests and pushed code, and is left alone in every other case: the
\* context the detector builds is one the rules close out (lane_completion.rs).
DoneLanesAreClosedOut ==
  \A green, pushed \in BOOLEAN :
    LaneDecision(lane_output, green, pushed) =
      IF /\ lane_output.status \in {"completed", "finished"}
         /\ lane_output.error = FALSE /\ lane_output.blocked = FALSE
         /\ green /\ pushed
        THEN <<"CleanupSession", "CloseoutLane">>
        ELSE <<>>

\* Decided for the lane "has no further action needed" (LaneContext::reconciled) it
\* is cleaned up and never closed out, whatever the evidence says.
ReconciledLanesAreOnlyCleaned ==
  [][reconcile_lane => lane_actions' = <<"CleanupSession">>]_mergeVars

\* Contexts that tell the conditions of the rules apart.
LaneContexts ==
  {[CompletedContext EXCEPT !.completed = c, !.green_contract_satisfied = g,
                            !.branch_freshness = age, !.reconciled = r] :
     c, g, r \in BOOLEAN, age \in 0 .. 2}

\* An engine obeys every rule that matches, once, and no other; what it does comes by
\* priority, among equals in the order they were given, a chain in its own order.
EngineObeysItsRules ==
  \A ctx \in LaneContexts :
    LET done == policy_evaluate(rules, ctx)
        Rank(a) == <<rules[a[1]].priority, a[1], a[2]>>
        Before(x, y) == \E k \in 1 .. 3 : x[k] < y[k] /\ \A l \in 1 .. k - 1 : x[l] = y[l]
    IN  /\ Range(done) = UNION {Range(rules[n].action) :
                                 n \in {m \in DOMAIN rules : PolicyRuleMatches(rules[m], ctx)}}
        /\ \A i, j \in DOMAIN done : i < j => Before(Rank(done[i]), Rank(done[j]))

\* More evidence makes a merge-ready contract no harder to meet: once it is
\* satisfied only a flake that blocks, or a record taken back, undoes it.
GreenIsLostOnlyByBadNews ==
  [][\A l \in DOMAIN GreenLevel :
       LET c == MergeReadyContract(l)
       IN  evaluate_evidence(c, evidence) /\ ~evaluate_evidence(c, evidence') =>
             \/ \E f \in evidence'.known_flakes \ evidence.known_flakes : f.blocks_green
             \/ evidence.base_branch_fresh /\ ~evidence'.base_branch_fresh
             \/ evidence.recovery_context /\ ~evidence'.recovery_context]_mergeVars
=============================================================================
