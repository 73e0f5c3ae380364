--------------------------- MODULE RecoveryRecipes ---------------------------
(***************************************************************************)
(* Automatic recovery (runtime/src/recovery_recipes.rs): each failure       *)
(* scenario has a recipe of steps and one attempt; then a human is asked.   *)
(* The ledger is what other programs read to tell an untouched scenario     *)
(* from an exhausted one.                                                   *)
(***************************************************************************)
EXTENDS Naturals, Sequences, SequencesExt

CONSTANTS
  MaxRecoveryEvents    \* bound on the calls of attempt_recovery

VARIABLES
  attempts,      \* RecoveryContext::attempts
  ledger,        \* RecoveryContext::ledger
  recovery_events,  \* RecoveryContext::events
  ran            \* history: how often each step of a recipe was executed

recoveryVars == <<attempts, ledger, recovery_events, ran>>

FailureScenario == {"TrustPromptUnresolved", "PromptMisdelivery", "StaleBranch",
                    "CompileRedCrossCrate", "McpHandshakeFailure",
                    "PartialPluginStartup", "ProviderFailure"}

recipe_for(s) ==
  [steps |-> CASE s = "TrustPromptUnresolved" -> <<"AcceptTrustPrompt">>
               [] s = "PromptMisdelivery"     -> <<"RedirectPromptToAgent">>
               [] s = "StaleBranch"           -> <<"RebaseBranch", "CleanBuild">>
               [] s = "CompileRedCrossCrate"  -> <<"CleanBuild">>
               [] s = "McpHandshakeFailure"   -> <<"RetryMcpHandshake">>
               [] s = "PartialPluginStartup"  -> <<"RestartPlugin", "RetryMcpHandshake">>
               [] s = "ProviderFailure"       -> <<"RestartWorker">>,
   max_attempts |-> 1]

RecoveryAttemptState == {"Queued", "Running", "Succeeded", "Failed", "Exhausted"}
NoEntry == [state |-> "None", attempt_count |-> 0, attempts_remaining |-> 0,
            succeeded |-> 0, escalated |-> FALSE]

status_report(s) ==
  [attempted |-> ledger[s].attempt_count > 0, state |-> ledger[s].state,
   escalated |-> ledger[s].escalated]

RecoveryInit ==
  /\ attempts = [s \in FailureScenario |-> 0]
  /\ ledger = [s \in FailureScenario |-> NoEntry]
  /\ recovery_events = <<>>
  /\ ran = [s \in FailureScenario |-> 0]

Verdict(state) == CASE state = "Succeeded" -> "RecoverySucceeded"
                    [] state = "Failed"    -> "RecoveryFailed"
                    [] OTHER               -> "Escalated"

\* No attempt is left: escalate; what the commands did before stays recorded.
recovery_exhausted(s) ==
  /\ attempts[s] >= recipe_for(s).max_attempts
  /\ ledger' = [ledger EXCEPT ![s].attempt_count = attempts[s],
                              ![s].attempts_remaining = 0, ![s].state = "Exhausted",
                              ![s].escalated = TRUE]
  /\ recovery_events' = recovery_events \o <<"RecoveryAttempted", "Escalated">>
  /\ UNCHANGED <<attempts, ran>>

\* Mutant: an attempt that got half way is not counted.
recovery_run_uncounted(s, fails) ==
  LET steps == Len(recipe_for(s).steps)
  IN  /\ attempts[s] < recipe_for(s).max_attempts
      /\ fails \in 0..steps
      /\ attempts' = [attempts EXCEPT ![s] = IF fails = steps THEN @ + 1 ELSE @]
      /\ ran' = [ran EXCEPT ![s] = @ + fails]
      /\ ledger' = [ledger EXCEPT ![s] =
           [state |-> IF fails = steps THEN "Succeeded" ELSE "Failed",
            attempt_count |-> attempts'[s], attempts_remaining |-> 1 - attempts'[s],
            succeeded |-> fails, escalated |-> FALSE]]
      /\ recovery_events' = recovery_events \o <<"RecoveryAttempted", "RecoveryFailed">>

\* The steps run in order until the one that fails (fails = their number: none).
recovery_run(s, fails) ==
  LET steps == Len(recipe_for(s).steps)
      state == CASE fails = steps -> "Succeeded"
                 [] fails = 0     -> "Exhausted"
                 [] OTHER         -> "Failed"
  IN  /\ attempts[s] < recipe_for(s).max_attempts
      /\ fails \in 0..steps
      /\ attempts' = [attempts EXCEPT ![s] = @ + 1]
      /\ ran' = [ran EXCEPT ![s] = @ + fails]
      /\ ledger' = [ledger EXCEPT ![s] =
           [state |-> state, attempt_count |-> attempts[s] + 1,
            attempts_remaining |-> recipe_for(s).max_attempts - (attempts[s] + 1),
            succeeded |-> fails, escalated |-> state = "Exhausted"]]
      /\ recovery_events' = recovery_events \o <<"RecoveryAttempted", Verdict(state)>>

attempt_recovery(s) ==
  /\ Len(recovery_events) < 2 * MaxRecoveryEvents
  /\ recovery_exhausted(s) \/ \E fails \in 0..2 : recovery_run(s, fails)

RecoveryNext == \E s \in FailureScenario : attempt_recovery(s)

-----------------------------------------------------------------------------
(* Properties *)

RecoveryTypeOK ==
  /\ attempts \in [FailureScenario -> 0..1]
  /\ \A s \in FailureScenario : ledger[s].state \in RecoveryAttemptState \cup {"None"}

\* However often a failure comes back, no step of its recipe is executed twice,
\* and the ledger accounts for exactly the steps that were executed.
NoStepTwice ==
  \A s \in FailureScenario :
    ran[s] <= Len(recipe_for(s).steps) /\ ledger[s].succeeded = ran[s]

\* The ledger tells an untouched scenario from an exhausted one: it shows an
\* attempt exactly when one was made, the attempts left add up, and a scenario
\* asked for again after its attempt shows as exhausted, with its escalation.
LedgerTellsExhaustion ==
  \A s \in FailureScenario :
    /\ status_report(s).attempted <=> attempts[s] > 0
    /\ status_report(s).attempted =>
         ledger[s].attempt_count + ledger[s].attempts_remaining = recipe_for(s).max_attempts
    /\ status_report(s).state = "Exhausted" <=> status_report(s).escalated

\* Each call is followed by its verdict, and somebody is told (Escalated) of
\* every scenario that is exhausted.
EscalationsAreTold ==
  LET told == {i \in DOMAIN recovery_events : recovery_events[i] = "Escalated"}
  IN  /\ \A i \in told : i % 2 = 0
      /\ (\E s \in FailureScenario : ledger[s].state = "Exhausted") <=> told # {}

\* No recovery step is run twice for one scenario, the ledger tells when a
\* recipe is exhausted, and an escalation is always told by an event.
RecoveryRecipesSound ==
  /\ RecoveryTypeOK
  /\ NoStepTwice
  /\ LedgerTellsExhaustion
  /\ EscalationsAreTold

=============================================================================
