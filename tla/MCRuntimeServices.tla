------------------------- MODULE MCRuntimeServices --------------------------
(* The services of the runtime crate, each checked on a small instance.    *)
(* They share no state: a behaviour picks one component and lets it run    *)
(* while the others stay in their initial states.                          *)
EXTENDS ConversationRuntime, AgentJobs, WorkerBoot, RecoveryRecipes,
        MergePolicy, Branches

VARIABLE part   \* the component that runs

Parts == {"ConversationRuntime", "AgentJobs", "WorkerBoot",
          "RecoveryRecipes", "MergePolicy", "PolicyEngine", "BranchFreshness", "BranchLocks"}

partVars == <<part, vars, agentVars, workerVars, recoveryVars, mergeVars,
              engineVars, freshVars, lockVars>>

\* A component that does not run has one of its initial states.
PartInit ==
  /\ part \in Parts
  /\ part # "MergePolicy" => evidence = GreenEvidenceNew(4)
  /\ part # "BranchFreshness" => main_remote = 1 /\ main_local = 1 /\ on_main = FALSE
  /\ Init /\ AgentInit /\ WorkerInit /\ RecoveryInit /\ MergeInit /\ EngineInit
  /\ FreshInit /\ LockInit

PartNext ==
  \/ /\ part = "ConversationRuntime" /\ Next
     /\ UNCHANGED <<part, agentVars, workerVars, recoveryVars, mergeVars,
                    engineVars, freshVars, lockVars>>
  \/ /\ part = "AgentJobs" /\ AgentNext
     /\ UNCHANGED <<part, vars, workerVars, recoveryVars, mergeVars,
                    engineVars, freshVars, lockVars>>
  \/ /\ part = "WorkerBoot" /\ WorkerNext
     /\ UNCHANGED <<part, vars, agentVars, recoveryVars, mergeVars,
                    engineVars, freshVars, lockVars>>
  \/ /\ part = "RecoveryRecipes" /\ RecoveryNext
     /\ UNCHANGED <<part, vars, agentVars, workerVars, mergeVars,
                    engineVars, freshVars, lockVars>>
  \/ /\ part = "MergePolicy" /\ MergeNext
     /\ UNCHANGED <<part, vars, agentVars, workerVars, recoveryVars,
                    engineVars, freshVars, lockVars>>
  \/ /\ part = "PolicyEngine" /\ EngineNext
     /\ UNCHANGED <<part, vars, agentVars, workerVars, recoveryVars,
                    mergeVars, freshVars, lockVars>>
  \/ /\ part = "BranchFreshness" /\ FreshNext
     /\ UNCHANGED <<part, vars, agentVars, workerVars, recoveryVars,
                    mergeVars, engineVars, lockVars>>
  \/ /\ part = "BranchLocks" /\ LockNext
     /\ UNCHANGED <<part, vars, agentVars, workerVars, recoveryVars,
                    mergeVars, engineVars, freshVars>>

\* The component that runs is scheduled fairly.
PartSpec ==
  /\ PartInit /\ [][PartNext]_partVars
  /\ WF_vars(part = "ConversationRuntime" /\ Turn)
  /\ \A a \in AgentIds : WF_agentVars(part = "AgentJobs" /\ AgentStep(a))

-----------------------------------------------------------------------------
(* What is checked of each component while it runs. *)

\* No prompt is sent behind another, a replayed prompt is the one that was lost,
\* a worker is blocked for the reason it shows, the state file tells when it is
\* ready, and a startup timeout blames the cause that was seen.
WorkerBootChecked == part = "WorkerBoot" => WorkerBootSound

\* No recovery step is run twice for one scenario, the ledger tells when a
\* recipe is exhausted, and an escalation is always told by an event.
RecoveryRecipesChecked == part = "RecoveryRecipes" => RecoveryRecipesSound

\* A lane is closed out exactly when it is done, a reconciled one only cleaned up;
\* an engine obeys its rules in their order; and a lane that was green stops being so
\* only on bad news.
MergePolicyChecked ==
  /\ [](part = "MergePolicy" => MergeTypeOK /\ DoneLanesAreClosedOut)
  /\ [](part = "PolicyEngine" => EngineObeysItsRules)
  /\ ReconciledLanesAreOnlyCleaned
  /\ GreenIsLostOnlyByBadNews

\* Work on branches is judged by what the repository holds: a branch that lacks
\* commits of main is told so, and lanes that touch the same files collide.
BranchesSound ==
  /\ part = "BranchFreshness" => BranchFreshnessSound
  /\ part = "BranchLocks" => BranchLocksSound

\* Every turn ends, and every agent that was started gets a manifest that says how
\* it ended, unless a write fails or the process is killed.
ServicesMakeProgress == TurnEnds /\ AgentsSettle
=============================================================================
