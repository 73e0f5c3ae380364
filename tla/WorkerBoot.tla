----------------------------- MODULE WorkerBoot -----------------------------
(***************************************************************************)
(* WorkerRegistry (runtime/src/worker_boot.rs): the control plane's view of *)
(* coding agents it starts in terminals.  It sees only screens: what a      *)
(* worker is doing is inferred from the text, and every inference that is   *)
(* recorded as an event also rewrites worker-state.json in the worker's     *)
(* directory, which other programs poll.                                    *)
(*                                                                         *)
(* A screen is the set of cues the detectors find in it.  Registry calls    *)
(* hold the registry's mutex and are atomic.                                *)
(***************************************************************************)
EXTENDS Naturals, FiniteSets

CONSTANTS
  WorkerIds,       \* worker ids; create() draws fresh ones; all share one cwd
  WorkerPrompts,       \* prompts that may be sent
  NoPrompt,      \* Option::None of a prompt
  MaxDeliveries,   \* bound on prompt_delivery_attempts
  MaxCues        \* bound on the cues of one screen

ASSUME WorkerAssumption == MaxDeliveries \in Nat

VARIABLES
  workers,       \* WorkerRegistryInner::workers
  state_file     \* .claw/worker-state.json of the shared directory

workerVars == <<workers, state_file>>

WorkerStatus == {"Spawning", "TrustRequired", "ToolPermissionRequired",
                 "ReadyForPrompt", "Running", "Finished", "Failed"}
WorkerFailureKind == {"TrustGate", "ToolPermissionGate", "PromptDelivery",
                      "Provider", "StartupNoEvidence"}
NoWorker == [status |-> "None"]
NoFile == [worker_id |-> "None"]

\* Of the events of a worker the registry reads only these, as evidence.
EvidenceEvents == {"TrustRequired", "ToolPermissionRequired"}

\* The fields the registry decides on.
Worker ==
  [status : WorkerStatus, trust_auto_resolve : BOOLEAN, trust_gate_cleared : BOOLEAN,
   auto_recover : BOOLEAN, attempts : 0..MaxDeliveries, prompt_in_flight : BOOLEAN,
   prompt_sent : BOOLEAN, last_prompt : WorkerPrompts \cup {NoPrompt},
   expected_receipt : BOOLEAN, replay_prompt : WorkerPrompts \cup {NoPrompt},
   last_error : WorkerFailureKind \cup {"None"}, events : SUBSET EvidenceEvents]

StateSnapshot(id, w) ==
  [worker_id |-> id, status |-> w.status, is_ready |-> w.status = "ReadyForPrompt",
   trust_gate_cleared |-> w.trust_gate_cleared, prompt_in_flight |-> w.prompt_in_flight]

-----------------------------------------------------------------------------
(* What the detectors find on a screen *)

Cues == {"tool_gate", "trust", "ready_phrase", "prompt_sign", "shell_sign", "running",
         "prompt", "other_echo", "receipt", "other_cwd", "shell_error"}
WorkerScreens == {s \in SUBSET Cues : Cardinality(s) <= MaxCues}

detect_tool_permission_prompt(s) == "tool_gate" \in s
detect_trust_prompt(s) == "trust" \in s
detect_running_cue(s) == "running" \in s

\* A phrase anywhere, or a last line that is an agent's and not a shell's prompt.
detect_ready_for_prompt(s) ==
  "ready_phrase" \in s \/ ("prompt_sign" \in s /\ "shell_sign" \notin s)

prompt_misdelivery_is_relevant(w) == w.prompt_in_flight /\ w.last_prompt # NoPrompt

\* The wrong task, the wrong directory, or a shell that tried to run the prompt.
detect_prompt_misdelivery(w, s) ==
  \/ w.expected_receipt /\ "receipt" \notin s /\ s \cap {"prompt", "other_echo"} # {}
  \/ "prompt" \in s /\ s \cap {"other_cwd", "shell_error"} # {}

-----------------------------------------------------------------------------
(* A registry call works on r: the worker, its id and the file *)

push_event(r, kind, status) ==
  LET w == [r.w EXCEPT !.status = status, !.events = @ \cup ({kind} \cap EvidenceEvents)]
  IN  [r EXCEPT !.w = w, !.file = StateSnapshot(r.id, w)]

observe_tool_gate(r) ==
  push_event([r EXCEPT !.w.last_error = "ToolPermissionGate"],
             "ToolPermissionRequired", "ToolPermissionRequired")

resolve(r) ==
  push_event([r EXCEPT !.w.trust_gate_cleared = TRUE, !.w.last_error = "None"],
             "TrustResolved", "Spawning")

\* An allowlisted directory answers its own trust prompt and is looked at further.
observe_trust_gate(r) ==
  LET asked == push_event([r EXCEPT !.w.last_error = "TrustGate"],
                          "TrustRequired", "TrustRequired")
  IN  IF r.w.trust_auto_resolve THEN resolve(asked) ELSE asked

observe_misdelivery(r) ==
  LET failed == push_event([r EXCEPT !.w.last_error = "PromptDelivery",
                                     !.w.prompt_in_flight = FALSE],
                           "PromptMisdelivery", "Failed")
  IN  IF r.w.auto_recover
      THEN push_event([failed EXCEPT !.w.replay_prompt = r.w.last_prompt],
                      "PromptReplayArmed", "ReadyForPrompt")
      ELSE failed

\* No event: the file does not hear of it.
observe_running(r, s) ==
  IF detect_running_cue(s) /\ r.w.prompt_in_flight
  THEN [r EXCEPT !.w.prompt_in_flight = FALSE, !.w.status = "Running",
                 !.w.last_error = "None"]
  ELSE r

\* Mutant: a ready screen leaves the prompt in flight.
observe_ready_in_flight(r, s) ==
  IF detect_ready_for_prompt(s) /\ r.w.status # "ReadyForPrompt"
  THEN push_event([r EXCEPT !.w.last_error = IF @ = "TrustGate" THEN "None" ELSE @],
                  "ReadyForPrompt", "ReadyForPrompt")
  ELSE r

observe_ready(r, s) ==
  IF detect_ready_for_prompt(s) /\ r.w.status # "ReadyForPrompt"
  THEN push_event([r EXCEPT !.w.prompt_in_flight = FALSE,
                            !.w.last_error = IF @ = "TrustGate" THEN "None" ELSE @],
                  "ReadyForPrompt", "ReadyForPrompt")
  ELSE r

observe(r, s) ==
  LET asks == ~r.w.trust_gate_cleared /\ detect_trust_prompt(s)
      seen == IF asks THEN observe_trust_gate(r) ELSE r
  IN  CASE detect_tool_permission_prompt(s)       -> observe_tool_gate(r)
        [] OTHER ->
           IF asks /\ ~r.w.trust_auto_resolve THEN seen
           ELSE IF /\ prompt_misdelivery_is_relevant(seen.w)
                   /\ detect_prompt_misdelivery(seen.w, s)
                THEN observe_misdelivery(seen)
                ELSE observe_ready(observe_running(seen, s), s)

\* The evidence is the history of the worker, from before a restart as well.
classify_startup_failure(w, transport, mcp, late) ==
  LET accepted == w.status = "Running" /\ ~w.prompt_in_flight
  IN  CASE ~transport                                     -> "TransportDead"
        [] transport /\ "TrustRequired" \in w.events
                     /\ w.status = "TrustRequired"        -> "TrustRequired"
        [] transport /\ "ToolPermissionRequired" \in w.events
                     /\ w.status = "ToolPermissionRequired" -> "ToolPermissionRequired"
        [] transport /\ w.prompt_sent /\ ~accepted
                     /\ w.status = "Running"              -> "PromptAcceptanceTimeout"
        [] OTHER -> IF w.prompt_sent /\ ~accepted /\ late THEN "PromptMisdelivery"
                    ELSE IF ~mcp THEN "WorkerCrashed" ELSE "Unknown"

await_ready(w) ==
  [ready   |-> w.status = "ReadyForPrompt",
   blocked |-> w.status \in {"TrustRequired", "ToolPermissionRequired", "Failed"},
   replay_prompt_ready |-> w.replay_prompt # NoPrompt,
   last_error |-> w.last_error]

-----------------------------------------------------------------------------
(* The calls *)

WorkerInit == workers = [id \in WorkerIds |-> NoWorker] /\ state_file = NoFile

Known(id) == workers[id] # NoWorker

\* Store what the call made of the worker and of the file.
Commit(id, r) == workers' = [workers EXCEPT ![id] = r.w] /\ state_file' = r.file
Loaded(id) == [id |-> id, w |-> workers[id], file |-> state_file]

\* trust_auto_resolve: the directory is, or lies under, a trusted root.
worker_create(id, trusted, auto) ==
  /\ ~Known(id)
  /\ LET w == [status |-> "Spawning", trust_auto_resolve |-> trusted,
               trust_gate_cleared |-> FALSE, auto_recover |-> auto, attempts |-> 0,
               prompt_in_flight |-> FALSE, prompt_sent |-> FALSE,
               last_prompt |-> NoPrompt, expected_receipt |-> FALSE,
               replay_prompt |-> NoPrompt, last_error |-> "None", events |-> {}]
     IN  Commit(id, push_event([id |-> id, w |-> w, file |-> state_file],
                               "Spawning", "Spawning"))

worker_observe(id, s) == Known(id) /\ Commit(id, observe(Loaded(id), s))

resolve_trust(id) ==
  /\ Known(id) /\ workers[id].status = "TrustRequired"
  /\ Commit(id, resolve(Loaded(id)))

\* A prompt of the caller, or else the one armed for replay.
send_prompt(id, prompt, receipt) ==
  LET next == IF prompt # NoPrompt THEN prompt ELSE workers[id].replay_prompt
  IN  /\ Known(id) /\ workers[id].status = "ReadyForPrompt"
      /\ next # NoPrompt
      /\ workers[id].attempts < MaxDeliveries
      /\ Commit(id, push_event(
           [Loaded(id) EXCEPT !.w.attempts = @ + 1, !.w.prompt_in_flight = TRUE,
                              !.w.prompt_sent = TRUE, !.w.last_prompt = next,
                              !.w.expected_receipt = receipt,
                              !.w.replay_prompt = NoPrompt, !.w.last_error = "None"],
           "Running", "Running"))

\* The receipt expected of the last prompt and the events stay.
worker_restart(id) ==
  /\ Known(id)
  /\ Commit(id, push_event(
       [Loaded(id) EXCEPT !.w.trust_gate_cleared = FALSE, !.w.last_prompt = NoPrompt,
                          !.w.replay_prompt = NoPrompt, !.w.last_error = "None",
                          !.w.attempts = 0, !.w.prompt_in_flight = FALSE,
                          !.w.prompt_sent = FALSE],
       "Restarted", "Spawning"))

worker_terminate(id) ==
  /\ Known(id)
  /\ Commit(id, push_event([Loaded(id) EXCEPT !.w.prompt_in_flight = FALSE],
                           "Finished", "Finished"))

\* finish = "error", or "unknown" without output, is the provider's failure.
observe_completion(id, provider_failure) ==
  /\ Known(id)
  /\ Commit(id, push_event(
       [Loaded(id) EXCEPT !.w.prompt_in_flight = FALSE,
                          !.w.last_error = IF provider_failure THEN "Provider" ELSE "None"],
       IF provider_failure THEN "Failed" ELSE "Finished",
       IF provider_failure THEN "Failed" ELSE "Finished"))

\* Its event carries what classify_startup_failure makes of the worker.
observe_startup_timeout(id) ==
  /\ Known(id)
  /\ Commit(id, push_event(
       [Loaded(id) EXCEPT !.w.last_error = "StartupNoEvidence",
                          !.w.prompt_in_flight = FALSE],
       "StartupNoEvidence", "Failed"))

\* The Worker* tools; WorkerGet and WorkerAwaitReady only read.
WorkerTools(id) ==
  \/ \E trusted, auto \in BOOLEAN : worker_create(id, trusted, auto)
  \/ \E s \in WorkerScreens : worker_observe(id, s)
  \/ resolve_trust(id)
  \/ \E p \in WorkerPrompts \cup {NoPrompt}, receipt \in BOOLEAN : send_prompt(id, p, receipt)
  \/ worker_restart(id)
  \/ worker_terminate(id)
  \/ \E failed \in BOOLEAN : observe_completion(id, failed)

WorkerNext == \E id \in WorkerIds : WorkerTools(id) \/ observe_startup_timeout(id)

-----------------------------------------------------------------------------
(* Properties *)

WorkerTypeOK ==
  /\ workers \in [WorkerIds -> Worker \cup {NoWorker}]
  /\ state_file = NoFile \/ state_file.worker_id \in WorkerIds

\* A worker that takes prompts, or has stopped, has none on the way: whatever
\* the screens show and in whatever order, send_prompt never starts a second
\* prompt while the first may still arrive.
NoPromptBehindAnother ==
  \A id \in WorkerIds : Known(id) =>
    (workers[id].status \in {"ReadyForPrompt", "Finished", "Failed"}
       => ~workers[id].prompt_in_flight)

\* The prompt armed for replay is the last one sent, it is not in flight, and
\* it was misdelivered since the last restart: nothing old is replayed.
ReplayIsTheLostPrompt ==
  \A id \in WorkerIds : Known(id) =>
    LET w == workers[id]
    IN  w.replay_prompt # NoPrompt =>
          w.replay_prompt = w.last_prompt /\ ~w.prompt_in_flight /\ w.attempts > 0

\* await_ready never reports a worker as blocked without the error that blocks it.
BlockedForItsReason ==
  \A id \in WorkerIds : Known(id) /\ await_ready(workers[id]).blocked =>
    workers[id].last_error \in
      (CASE workers[id].status = "TrustRequired" -> {"TrustGate"}
         [] workers[id].status = "ToolPermissionRequired" -> {"ToolPermissionGate"}
         [] OTHER -> {"PromptDelivery", "Provider", "StartupNoEvidence"})

\* Readiness and the trust gate in worker-state.json are those of the worker it
\* names, although one kind of transition does not rewrite the file.
FileTellsReadiness ==
  state_file # NoFile =>
    LET w == workers[state_file.worker_id]
    IN  /\ state_file.is_ready = (w.status = "ReadyForPrompt")
        /\ state_file.trust_gate_cleared = w.trust_gate_cleared

\* Were a startup timeout to strike now, it would be blamed on a prompt only if
\* one was sent since the last restart, and on a gate exactly when the worker
\* stands before it.
TimeoutBlamesTheCause ==
  \A id \in WorkerIds, mcp, late \in BOOLEAN : Known(id) =>
    LET w == workers[id]
        class == classify_startup_failure(w, TRUE, mcp, late)
    IN  /\ class \in {"PromptAcceptanceTimeout", "PromptMisdelivery"} => w.attempts > 0
        /\ \A gate \in EvidenceEvents : class = gate <=> w.status = gate

\* No prompt is sent behind another, a replayed prompt is the one that was lost,
\* a worker is blocked for the reason it shows, the state file tells when it is
\* ready, and a startup timeout blames the cause that was seen.
WorkerBootSound ==
  /\ WorkerTypeOK
  /\ NoPromptBehindAnother
  /\ ReplayIsTheLostPrompt
  /\ BlockedForItsReason
  /\ FileTellsReadiness
  /\ TimeoutBlamesTheCause

=============================================================================
