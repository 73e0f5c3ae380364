----------------------------- MODULE SystemPrompts -----------------------------
(***************************************************************************)
(* The system prompts (runtime/src/prompt.rs, git_context.rs): the one of  *)
(* the command line and of sub-agents, and the one the gRPC server wraps   *)
(* into the segments of a diagnosis session (session_store.rs).            *)
(*                                                                         *)
(* Instruction files are read one by one, outermost directory first, then  *)
(* git is asked in seven commands, then the settings are loaded.  Files    *)
(* and repository may change between any two of these readings.  Text is   *)
(* abstracted to its length; lengths are in units of which a file may      *)
(* show MAX_INSTRUCTION_FILE and all files together MAX_TOTAL.             *)
(***************************************************************************)
EXTENDS Naturals, Integers, Sequences, FiniteSets, SequencesExt

CONSTANT MaxPromptEdits     \* bound: changes of files, repository and settings

VARIABLES
    instructions,   \* slot -> what the file holds
    repository,     \* [inside, commits, staged, unstaged] of the work tree
    promptConfig,   \* the settings load
    prompt,         \* the prompt that is being put together, or the last one
    promptQuiet,    \* ghost: nothing has changed since it was begun
    promptEdits     \* changes counted against the bound

promptVars == <<instructions, repository, promptConfig, prompt, promptQuiet, promptEdits>>

\* A slot is a candidate name in a directory; directory 1 is the root and the
\* last one is the working directory.
InstructionDirs == 1..2
Candidates == <<"CLAUDE.md", "CLAUDE.local.md", ".claw/CLAUDE.md", ".claw/instructions.md">>
Slots == InstructionDirs \X DOMAIN Candidates
Cwd == 2

MAX_INSTRUCTION_FILE == 4
MAX_TOTAL_INSTRUCTION == 5
TRUNCATED_MARK == 1         \* length of the mark that is put behind a cut text

\* text names the content after normalisation: "a" is also found with other
\* blank lines, which makes it longer.  len is its length without the margins.
FileContents == {[text |-> "a", len |-> 2], [text |-> "a", len |-> 3], [text |-> "b", len |-> 5],
                 [text |-> "c", len |-> 4], [text |-> "blank", len |-> 0], [text |-> "unreadable", len |-> 0]}
NoContent == [text |-> "none", len |-> 0]

PromptKinds == {"cli", "agent", "diagnosis"}
NoPrompt == [kind |-> "none", pc |-> "done", error |-> FALSE, files |-> <<>>]

PromptInit ==
    /\ instructions = [s \in Slots |-> NoContent]
    /\ repository = [inside |-> TRUE, commits |-> 1, staged |-> {}, unstaged |-> {}]
    /\ promptConfig = TRUE
    /\ prompt = NoPrompt
    /\ promptQuiet = TRUE
    /\ promptEdits = 0

-----------------------------------------------------------------------------
(* Instruction files. *)

\* The slots that are looked at, in their order.
discover_instruction_files ==
    [i \in 1..8 |-> <<1 + ((i - 1) \div Len(Candidates)), 1 + ((i - 1) % Len(Candidates))>>]
discover_instruction_files_at == [i \in 1..4 |-> <<Cwd, i>>]

PromptSlots(kind) == IF kind = "diagnosis" THEN discover_instruction_files_at
                     ELSE discover_instruction_files

\* Files that are missing or blank are passed over.
push_context_file(files, slot) ==
    IF instructions[slot].text \in {"none", "blank"} THEN files
    ELSE Append(files, [slot |-> slot] @@ instructions[slot])

\* Mutant: the copy nearest to the working directory is kept.
dedupe_instruction_files_last(files) ==
    FoldRight(LAMBDA f, kept : IF \E i \in DOMAIN kept : kept[i].text = f.text THEN kept
                               ELSE <<f>> \o kept, files, <<>>)

\* Of files with the same normalised content the first is kept.
dedupe_instruction_files(files) ==
    FoldLeft(LAMBDA kept, f : IF \E i \in DOMAIN kept : kept[i].text = f.text THEN kept
                              ELSE Append(kept, f), <<>>, files)

LesserOf(a, b) == IF a < b THEN a ELSE b

\* len characters of a text, and what is shown of them with the mark.
truncate_instruction_content(len, remaining) ==
    LET hard_limit == LesserOf(MAX_INSTRUCTION_FILE, remaining)
    IN  IF len <= hard_limit THEN [shown |-> len, length |-> len, cut |-> FALSE]
        ELSE [shown |-> hard_limit, length |-> hard_limit + TRUNCATED_MARK, cut |-> TRUE]

\* The text that was cut is cut once more: its mark may make it too long.
render_instruction_content(raw) ==
    LET again == truncate_instruction_content(raw.length, MAX_INSTRUCTION_FILE)
    IN  [shown |-> LesserOf(raw.shown, again.shown), length |-> again.length, cut |-> raw.cut \/ again.cut]

\* The directory a file sits in, as a path of names.
ParentOf(slot) == IF slot[2] <= 2 THEN SubSeq(<<"root", "cwd">>, 1, slot[1])
                  ELSE Append(SubSeq(<<"root", "cwd">>, 1, slot[1]), ".claw")

\* The scope told of a file: the first directory of the list it lies below.
describe_instruction_file(f, files) ==
    LET Around == {i \in DOMAIN files : IsPrefix(ParentOf(files[i].slot), ParentOf(f.slot))}
    IN  ParentOf(files[CHOOSE i \in Around : \A j \in Around : i <= j].slot)

\* One file more, while the budget lasts; the first that finds it used up is
\* replaced by a notice and ends the section.
RenderFile(files, acc, f) ==
    LET content == render_instruction_content(truncate_instruction_content(f.len, acc.remaining))
    IN  IF acc.omitted THEN acc
        ELSE IF acc.remaining = 0 THEN [acc EXCEPT !.omitted = TRUE]
        ELSE [remaining |-> acc.remaining - LesserOf(content.length, acc.remaining),
              omitted |-> FALSE,
              shown |-> Append(acc.shown, [slot |-> f.slot, text |-> f.text, whole |-> f.len,
                                           scope |-> describe_instruction_file(f, files)] @@ content)]

render_instruction_files(files) ==
    FoldLeft(LAMBDA acc, f : RenderFile(files, acc, f),
             [remaining |-> MAX_TOTAL_INSTRUCTION, shown |-> <<>>, omitted |-> FALSE], files)

-----------------------------------------------------------------------------
(* The date of a day, counted from 1970-01-01, for days that are not before it. *)

civil_from_days(days) ==
    LET z == days + 719468
        era == z \div 146097
        doe == z - era * 146097
        yoe == (doe - doe \div 1460 + doe \div 36524 - doe \div 146096) \div 365
        doy == doe - (365 * yoe + yoe \div 4 - yoe \div 100)
        mp == (5 * doy + 2) \div 153
        d == doy - (153 * mp + 2) \div 5 + 1
        m == IF mp < 10 THEN mp + 3 ELSE mp - 9
    IN  <<yoe + era * 400 + (IF m <= 2 THEN 1 ELSE 0), m, d>>

-----------------------------------------------------------------------------
(* Git, one command at a time; Unknown is a command that failed. *)

Unknown == <<>>

GitTells(what) == IF repository.inside THEN <<what>> ELSE Unknown

read_git_status == GitTells([staged |-> repository.staged, unstaged |-> repository.unstaged])
read_branch == IF repository.inside /\ repository.commits > 0 THEN <<"main">> ELSE Unknown
read_recent_commits == IF repository.inside THEN LesserOf(repository.commits, 5) ELSE 0
read_staged_files == IF repository.inside THEN repository.staged ELSE {}

-----------------------------------------------------------------------------
(* Putting a prompt together. *)

PromptKeep == UNCHANGED <<instructions, repository, promptConfig, promptQuiet, promptEdits>>

BeginPrompt(kind) ==
    /\ prompt.pc = "done" /\ prompt.kind = "none"
    /\ prompt' = [kind |-> kind, pc |-> "files", at |-> 1, files |-> <<>>, error |-> FALSE]
    /\ promptQuiet' = TRUE
    /\ UNCHANGED <<instructions, repository, promptConfig, promptEdits>>

\* A prompt that cannot be built: command line and sub-agent do not start;
\* a session goes on with the user's own segments and the tool guidance.
FailPrompt ==
    prompt' = [kind |-> prompt.kind, pc |-> "done", error |-> TRUE, files |-> prompt.files,
               sections |-> IF prompt.kind = "diagnosis" THEN <<"segments", "guidance">> ELSE <<>>]

\* The layout of a diagnosis prompt, and how the server wraps it.
build_diagnosis(files) ==
    <<"system", "actions", "environment">> \o (IF files = <<>> THEN <<>> ELSE <<"instructions">>)

inject_diagnosis_context(files) == <<"segments">> \o build_diagnosis(files) \o <<"guidance">>

\* The sections that are the same in every prompt of the command line.
StaticSections == <<"intro", "system", "doing_tasks", "actions">>

build_software(files) ==
    StaticSections \o <<"boundary", "environment", "project">>
    \o (IF files = <<>> THEN <<>> ELSE <<"instructions">>) \o <<"config">>

\* What the project section holds of what git told.
render_project_context(p) ==
    {part \in {"status", "commits", "diff", "context"} :
        CASE part = "status" -> p.status # Unknown
          [] part = "commits" -> p.detected /\ p.commits > 0
          [] part = "diff" -> p.diff # Unknown
          [] OTHER -> p.detected /\ (p.branch # Unknown \/ p.commits > 0 \/ p.staged # {})}

\* A file that exists and cannot be read fails the prompt.
ReadInstruction ==
    /\ prompt.pc = "files"
    /\ prompt.at <= Len(PromptSlots(prompt.kind))
    /\ LET slot == PromptSlots(prompt.kind)[prompt.at] IN
       IF instructions[slot].text = "unreadable" THEN FailPrompt
       ELSE prompt' = [prompt EXCEPT !.at = @ + 1, !.files = push_context_file(@, slot)]
    /\ PromptKeep

\* Behind the last file: the diagnosis prompt is built, the other asks git.
InstructionsRead ==
    /\ prompt.pc = "files"
    /\ prompt.at > Len(PromptSlots(prompt.kind))
    /\ LET files == dedupe_instruction_files(prompt.files) IN
       prompt' = IF prompt.kind = "diagnosis"
                 THEN [kind |-> "diagnosis", pc |-> "done", error |-> FALSE, files |-> files,
                       rendered |-> render_instruction_files(files),
                       sections |-> inject_diagnosis_context(files)]
                 ELSE [kind |-> prompt.kind, pc |-> "status", error |-> FALSE, files |-> files]
    /\ PromptKeep

\* One command of git: at pc the record gains what it tells and goes on.
AskGit(pc, next, told) ==
    /\ prompt.pc = pc
    /\ prompt' = [pc |-> next] @@ told @@ prompt
    /\ PromptKeep

ReadStatus == AskGit("status", "diffStaged", [status |-> read_git_status])

\* A diff that fails leaves the prompt without one.
ReadStagedDiff == AskGit("diffStaged", IF repository.inside THEN "diffUnstaged" ELSE "detect",
                         [diff |-> GitTells([staged |-> repository.staged, unstaged |-> {}])])

ReadUnstagedDiff ==
    /\ prompt.pc = "diffUnstaged"
    /\ LET both == [prompt.diff[1] EXCEPT !.unstaged = repository.unstaged] IN
       AskGit("diffUnstaged", "detect",
              [diff |-> IF repository.inside /\ both.staged \cup both.unstaged # {} THEN <<both>> ELSE Unknown])

\* Outside a repository there is no git context.
DetectGit == AskGit("detect", IF repository.inside THEN "branch" ELSE "config", [detected |-> repository.inside,
                    branch |-> Unknown, commits |-> 0, staged |-> {}])
ReadBranchName == AskGit("branch", "commits", [branch |-> read_branch])
ReadCommits == AskGit("commits", "stagedFiles", [commits |-> read_recent_commits])
ReadStagedFiles == AskGit("stagedFiles", "config", [staged |-> read_staged_files])

\* The settings are loaded last; without them there is no prompt.  A sub-agent
\* adds a section of its own.
LoadPromptConfig ==
    /\ prompt.pc = "config"
    /\ IF ~promptConfig THEN FailPrompt
       ELSE prompt' = [pc |-> "done", rendered |-> render_instruction_files(prompt.files),
                       project |-> render_project_context(prompt),
                       sections |-> build_software(prompt.files)
                                    \o (IF prompt.kind = "agent" THEN <<"delegated">> ELSE <<>>)] @@ prompt
    /\ PromptKeep

-----------------------------------------------------------------------------
(* The workspace changes. *)

PromptEdit ==
    /\ promptEdits < MaxPromptEdits
    /\ promptEdits' = promptEdits + 1
    /\ promptQuiet' = FALSE
    /\ UNCHANGED prompt

EditInstruction ==
    /\ PromptEdit
    /\ \E s \in Slots, c \in FileContents : instructions[s] # c /\ instructions' = [instructions EXCEPT ![s] = c]
    /\ UNCHANGED <<repository, promptConfig>>

ChangeRepository ==
    /\ PromptEdit
    /\ repository' \in
          {[repository EXCEPT !.unstaged = @ \cup {"f"}],
           [repository EXCEPT !.staged = @ \cup repository.unstaged, !.unstaged = {}],
           [repository EXCEPT !.commits = @ + 1, !.staged = {}],
           [repository EXCEPT !.inside = ~@]} \ {repository}
    /\ UNCHANGED <<instructions, promptConfig>>

BreakSettings ==
    /\ PromptEdit
    /\ promptConfig /\ promptConfig' = FALSE
    /\ UNCHANGED <<instructions, repository>>

PromptNext ==
    \/ \E kind \in PromptKinds : BeginPrompt(kind)
    \/ ReadInstruction \/ InstructionsRead
    \/ ReadStatus \/ ReadStagedDiff \/ ReadUnstagedDiff
    \/ DetectGit \/ ReadBranchName \/ ReadCommits \/ ReadStagedFiles
    \/ LoadPromptConfig
    \/ EditInstruction \/ ChangeRepository \/ BreakSettings

-----------------------------------------------------------------------------
PromptBuilt == prompt.pc = "done" /\ prompt.kind # "none" /\ ~prompt.error
ShownIn(rendered) == rendered.shown

\* Of the instruction files no more is shown than the budget allows, a file
\* of which something is missing carries the mark, and files of which nothing
\* is shown are announced: nothing is cut silently, whatever the files hold.
NothingCutSilently ==
    PromptBuilt =>
        LET r == prompt.rendered
            shown == ShownIn(r)
        IN  /\ FoldLeft(LAMBDA n, f : n + f.shown, 0, shown) <= MAX_TOTAL_INSTRUCTION
            /\ \A i \in DOMAIN shown : shown[i].shown < shown[i].whole => shown[i].cut
            /\ \A i \in DOMAIN shown : shown[i].shown > 0
            /\ Len(shown) < Len(prompt.files) <=> r.omitted

\* In a prompt nothing interfered with, every instruction file in its scope
\* is represented by its text, by the outermost file with that text, and an
\* outer file is never dropped for an inner one; a prompt fails exactly when
\* a file in scope cannot be read or, outside a session, the settings fail.
QuietPromptsAreComplete ==
    prompt.pc = "done" /\ prompt.kind # "none" /\ promptQuiet =>
        LET slots == PromptSlots(prompt.kind)
            Held(i) == instructions[slots[i]].text
            Told == {i \in DOMAIN slots : Held(i) \notin {"none", "blank", "unreadable"}}
        IN  /\ prompt.error <=> \/ \E i \in DOMAIN slots : Held(i) = "unreadable"
                                \/ prompt.kind # "diagnosis" /\ ~promptConfig
            /\ ~prompt.error =>
                  /\ \A i \in Told : \E k \in DOMAIN prompt.files : prompt.files[k].text = Held(i)
                  /\ \A k \in DOMAIN prompt.files : \A i \in Told :
                        Held(i) = prompt.files[k].text =>
                            prompt.files[k].slot[1] <= slots[i][1]
                  /\ \A k \in DOMAIN ShownIn(prompt.rendered) :
                        ShownIn(prompt.rendered)[k].slot = prompt.files[k].slot

\* A session never sees instructions from above its directory, git or
\* settings, and its own segments and the tool guidance are always there, the
\* guidance last, even when the context could not be built.
SessionsKeepTheirSegments ==
    prompt.pc = "done" /\ prompt.kind = "diagnosis" =>
        /\ \A k \in DOMAIN prompt.files : prompt.files[k].slot[1] = Cwd
        /\ Head(prompt.sections) = "segments" /\ Last(prompt.sections) = "guidance"
        /\ \A i \in DOMAIN prompt.sections :
              prompt.sections[i] \notin {"project", "config", "boundary", "doing_tasks"}

\* What separate git commands told agrees in a prompt nothing interfered
\* with: status, diff and context know the same staged files.
QuietGitAgrees ==
    PromptBuilt /\ prompt.kind # "diagnosis" /\ promptQuiet =>
        /\ prompt.status = Unknown <=> ~prompt.detected
        /\ prompt.status # Unknown => prompt.status[1].staged = prompt.staged
        /\ prompt.diff # Unknown => prompt.status # Unknown /\ prompt.diff[1] = prompt.status[1]
        /\ prompt.status # Unknown /\ prompt.diff = Unknown =>
              prompt.status[1].staged \cup prompt.status[1].unstaged = {}
        /\ prompt.project = {} <=> ~repository.inside

\* The day after a day, by the calendar.
DaysIn(y, m) ==
    CASE m \in {4, 6, 9, 11} -> 30
      [] m = 2 -> IF y % 4 = 0 /\ (y % 100 # 0 \/ y % 400 = 0) THEN 29 ELSE 28
      [] OTHER -> 31
DayAfter(d) == IF d[3] < DaysIn(d[1], d[2]) THEN <<d[1], d[2], d[3] + 1>>
               ELSE IF d[2] < 12 THEN <<d[1], d[2] + 1, 1>> ELSE <<d[1] + 1, 1, 1>>

\* civil_from_days follows the calendar: from 1970-01-01 through the leap
\* years 1972 and 2000, and through 2100, which is none.
DatesFollowTheCalendar ==
    /\ civil_from_days(0) = <<1970, 1, 1>> /\ civil_from_days(11016) = <<2000, 2, 29>>
    /\ \A day \in (0..1100) \cup (10950..11330) \cup (47480..47900) :
          civil_from_days(day + 1) = DayAfter(civil_from_days(day))

\* The system prompts: nothing cut silently, complete when nothing
\* interferes, sessions keep their segments, dates follow the calendar.
SystemPromptsSound == NothingCutSilently /\ QuietPromptsAreComplete /\ SessionsKeepTheirSegments
                      /\ QuietGitAgrees /\ DatesFollowTheCalendar
=============================================================================
