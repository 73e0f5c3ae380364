------------------------------ MODULE MCTools -------------------------------
(* Storage, the command line, the tools it runs and the registries behind  *)
(* them.  They share no state: a behaviour picks one component and lets it *)
(* run while the others stay in their initial states.                      *)
EXTENDS SessionBackends, CliArgs, CliSessions, FileTools, BashValidation,
        ToolCalls, WorkspaceDocuments, WorkspaceReports, SkillRoots,
        TaskRegistries, ApprovalTokens, LaneEvents

VARIABLE part   \* the component that runs

Parts == {"SessionBackends", "CliArgs", "CliSessions", "ResumeBatch",
          "FileTools", "BashValidation", "ToolCalls", "WorkspaceDocuments",
          "WorkspaceReports", "SkillRoots", "TaskRegistries",
          "ApprovalTokens", "LaneEvents"}

partVars == <<part, vars, argsVars, cliVars, batchVars, fileVars,
              validationVars, toolCallVars, docVars, reportVars,
              skillVars, taskVars, tokenVars, laneVars>>

\* A component that does not run has one of its initial states.
PartInit ==
  /\ part \in Parts
  /\ part # "CliArgs" => stdin = "terminal"
  /\ part # "ResumeBatch" => session_file = BatchSession(1, {})
  /\ part # "ToolCalls" => policy = [mode |-> "read-only", deny |-> {}, ask |-> {}, allow |-> {},
                                      prompter |-> FALSE, enforced |-> FALSE, hooks |-> 0]
  /\ part # "WorkspaceReports" => panes = <<>>
  /\ part # "SkillRoots" => dirOrder = <<"a", "a-b">>
  /\ Init /\ ArgsInit /\ CliInit /\ BatchInit /\ FileInit /\ ValidationInit
  /\ ToolCallInit /\ DocInit /\ ReportInit /\ SkillInit /\ TaskInit /\ TokenInit
  /\ LaneInit

PartNext ==
  \/ /\ part = "SessionBackends" /\ Next
     /\ UNCHANGED <<part, argsVars, cliVars, batchVars, fileVars,
                    validationVars, toolCallVars, docVars,
                    reportVars, skillVars, taskVars,
                    tokenVars, laneVars>>
  \/ /\ part = "CliArgs" /\ ArgsNext
     /\ UNCHANGED <<part, vars, cliVars, batchVars, fileVars, validationVars,
                    toolCallVars, docVars, reportVars,
                    skillVars, taskVars, tokenVars,
                    laneVars>>
  \/ /\ part = "CliSessions" /\ CliNext
     /\ UNCHANGED <<part, vars, argsVars, batchVars, fileVars,
                    validationVars, toolCallVars, docVars,
                    reportVars, skillVars, taskVars,
                    tokenVars, laneVars>>
  \/ /\ part = "ResumeBatch" /\ BatchNext
     /\ UNCHANGED <<part, vars, argsVars, cliVars, fileVars, validationVars,
                    toolCallVars, docVars, reportVars,
                    skillVars, taskVars, tokenVars,
                    laneVars>>
  \/ /\ part = "FileTools" /\ FileNext
     /\ UNCHANGED <<part, vars, argsVars, cliVars, batchVars, validationVars,
                    toolCallVars, docVars, reportVars,
                    skillVars, taskVars, tokenVars,
                    laneVars>>
  \/ /\ part = "BashValidation" /\ ValidationNext
     /\ UNCHANGED <<part, vars, argsVars, cliVars, batchVars, fileVars,
                    toolCallVars, docVars, reportVars,
                    skillVars, taskVars, tokenVars,
                    laneVars>>
  \/ /\ part = "ToolCalls" /\ ToolCallNext
     /\ UNCHANGED <<part, vars, argsVars, cliVars, batchVars, fileVars,
                    validationVars, docVars, reportVars,
                    skillVars, taskVars, tokenVars,
                    laneVars>>
  \/ /\ part = "WorkspaceDocuments" /\ DocNext
     /\ UNCHANGED <<part, vars, argsVars, cliVars, batchVars, fileVars,
                    validationVars, toolCallVars,
                    reportVars, skillVars, taskVars,
                    tokenVars, laneVars>>
  \/ /\ part = "WorkspaceReports" /\ ReportNext
     /\ UNCHANGED <<part, vars, argsVars, cliVars, batchVars, fileVars,
                    validationVars, toolCallVars, docVars,
                    skillVars, taskVars, tokenVars,
                    laneVars>>
  \/ /\ part = "SkillRoots" /\ SkillNext
     /\ UNCHANGED <<part, vars, argsVars, cliVars, batchVars, fileVars,
                    validationVars, toolCallVars, docVars,
                    reportVars, taskVars, tokenVars,
                    laneVars>>
  \/ /\ part = "TaskRegistries" /\ TaskNext
     /\ UNCHANGED <<part, vars, argsVars, cliVars, batchVars, fileVars,
                    validationVars, toolCallVars, docVars,
                    reportVars, skillVars, tokenVars,
                    laneVars>>
  \/ /\ part = "ApprovalTokens" /\ TokenNext
     /\ UNCHANGED <<part, vars, argsVars, cliVars, batchVars, fileVars,
                    validationVars, toolCallVars, docVars,
                    reportVars, skillVars, taskVars,
                    laneVars>>
  \/ /\ part = "LaneEvents" /\ LaneNext
     /\ UNCHANGED <<part, vars, argsVars, cliVars, batchVars, fileVars,
                    validationVars, toolCallVars, docVars,
                    reportVars, skillVars, taskVars,
                    tokenVars>>

PartSpec ==
  /\ PartInit /\ [][PartNext]_partVars

-----------------------------------------------------------------------------
(* What is checked of each component while it runs. *)

\* The three backends differ only in what they forget, agree on the sessions
\* there are, and read the same in order.
SessionBackendsChecked == part = "SessionBackends" => SessionBackendsSound

\* The sessions of the interactive CLI survive it: a turn that was completed is
\* on disk, the session in hand is what its file says, only sessions of this
\* workspace are opened, and "latest" is the one worked on last.
CliSessionsChecked == part = "CliSessions" => CliSessionsSound

\* The file tools: calls that do not overlap are serial, the originals they
\* report are whole texts, they work where the workspace check allowed,
\* pages cover the results, and searches say when they leave something out.
FileToolsChecked == part = "FileTools" => FileToolsSound

\* The validation of bash commands: its verdict agrees with its own
\* classification and with the order of the modes, looks behind sudo, and is
\* reached.
BashValidationChecked == part = "BashValidation" => BashValidationSound

\* A call that a rule denies never runs, one that a rule asks about is asked
\* about, what runs is within the mode or was granted, and a hook that stops a
\* call stops it for good.
ToolCallsChecked == part = "ToolCalls" => ToolCallsSound

\* The workspace documents: the user's text survives, an undisturbed init is
\* complete and idempotent, its guide fits the repository, the to-do list is
\* the last acknowledged one and cell ids stay unique without deletions.
WorkspaceDocumentsChecked == part = "WorkspaceDocuments" => WorkspaceDocumentsSound

\* The command line does what it is told and tells what it finds: the last
\* permission flag holds, local verbs start no session, a prompt is its words, words
\* behind --resume stay with their command; readings of a workspace agree when nothing
\* interferes, nothing is called abandoned that runs, sums add up, failures show.
CommandLineChecked ==
  /\ part = "CliArgs" => CliArgsSound
  /\ part = "WorkspaceReports" => WorkspaceReportsSound

\* Skills: the listed skill is the one that runs, unlisted names are refused, and a
\* reported install is whole, is found, and leaves no debris when it fails.
SkillRootsChecked == part = "SkillRoots" => SkillRootsSound

\* A task names the team that claims it and a team claims tasks that name it,
\* through creation, deletion and the moments between the two registries' locks.
TaskRegistriesChecked == part = "TaskRegistries" => TaskRegistriesSound

\* Whatever the order and the repetition in which lane events arrive, the
\* outcome is that of the latest terminal event, removing duplicates loses no
\* news, and the ship manifest names every commit once.
LaneEventsChecked == part = "LaneEvents" => LaneEventsSound

\* The threads and processes that write files are alike.
Alike == Permutations(Callers)
=============================================================================
