---------------------------- MODULE BashValidation ----------------------------
(***************************************************************************)
(* The validation pipeline for bash commands, runtime/src/                 *)
(* bash_validation.rs: validate_command and classify_command.  The crate   *)
(* exports it and its tests call it; the bash tool does not use it yet.    *)
(*                                                                         *)
(* A command is a sequence of words.  Of each list of the source a word or *)
(* two stands for all of its words; redirections, paths and flags are      *)
(* words that contain what the source looks for.                           *)
(***************************************************************************)
EXTENDS Naturals, Sequences, FiniteSets, SequencesExt

CONSTANT MaxWords   \* bound: words of a command

VARIABLE command    \* what has been typed so far

validationVars == <<command>>

-----------------------------------------------------------------------------
(* The lists. *)

WRITE_COMMANDS == {"rm", "cp", "shred"}
STATE_MODIFYING_COMMANDS == {"npm", "kill"}
ALWAYS_DESTRUCTIVE_COMMANDS == {"shred", "wipefs"}
GIT_READ_ONLY_SUBCOMMANDS == {"status"}
SEMANTIC_READ_ONLY_COMMANDS == {"ls", "sed"}
NETWORK_COMMANDS == {"curl"}
PROCESS_COMMANDS == {"kill"}
PACKAGE_COMMANDS == {"npm", "snap"}
SYSTEM_ADMIN_COMMANDS == {"sudo"}

\* A pattern ends where its target starts: any path from there on matches.
DESTRUCTIVE_PATTERNS == {<<"rm", "-rf", target>> : target \in {"/etc/f", "../f", "~/f"}}

Assignments == {"X=1"}
Flags == {"-i", "-r", "-f", "-rf"}
Redirections == {">f"}
SystemPaths == {"/etc/f"}
OtherPaths == {"../f", "~/f", "dir"}

CommandWords == WRITE_COMMANDS \cup STATE_MODIFYING_COMMANDS \cup ALWAYS_DESTRUCTIVE_COMMANDS
    \cup SEMANTIC_READ_ONLY_COMMANDS \cup NETWORK_COMMANDS \cup PACKAGE_COMMANDS
    \cup SYSTEM_ADMIN_COMMANDS \cup {"git", "status", "push"}
    \cup Assignments \cup Flags \cup Redirections \cup SystemPaths \cup OtherPaths

ValidationModes == {"ReadOnly", "WorkspaceWrite", "DangerFullAccess", "Allow", "Prompt"}

-----------------------------------------------------------------------------
(* Helpers. *)

Mentions(words, some) == \E i \in DOMAIN words : words[i] \in some

\* Leading assignments are skipped; nothing else may follow the last one.
extract_first_command(words) ==
    LET rest == SelectInSeq(words, LAMBDA w : w \notin Assignments)
    IN  IF rest = 0 THEN "" ELSE words[rest]

\* The first word after sudo that is no flag; what is returned starts where
\* that word OCCURS FIRST in the command, which may be in front of sudo or
\* be sudo itself.
extract_sudo_inner(words) ==
    LET at == SelectInSeq(words, LAMBDA w : w = "sudo")
        after == SubSeq(words, at + 1, Len(words))
        inner == SelectInSeq(after, LAMBDA w : w \notin Flags)
    IN  IF inner = 0 THEN <<>>
        ELSE SubSeq(words, SelectInSeq(words, LAMBDA w : w = after[inner]), Len(words))

\* The word after the first one that is no flag, whatever that first word is.
GitSubcommand(words) ==
    LET rest == SelectSeq(Tail(words), LAMBDA w : w \notin Flags)
    IN  IF rest = <<>> THEN "" ELSE rest[1]

-----------------------------------------------------------------------------
(* The checks. *)

validate_git_read_only(words) ==
    IF GitSubcommand(words) \in GIT_READ_ONLY_SUBCOMMANDS \cup {""} THEN "Allow" ELSE "Block"

\* "Endless" stands for the call that calls itself with the same command.
validate_read_only[words \in Seq(CommandWords)] ==
    LET first == extract_first_command(words)
        inner == extract_sudo_inner(words)
        ofInner == IF first = "sudo" /\ inner # <<>>
                   THEN IF inner = words THEN "Endless" ELSE validate_read_only[inner]
                   ELSE "Allow"
    IN  CASE first \in WRITE_COMMANDS \cup STATE_MODIFYING_COMMANDS -> "Block"
          [] ofInner # "Allow" -> ofInner
          [] Mentions(words, Redirections) -> "Block"
          [] first = "git" -> validate_git_read_only(words)
          [] OTHER -> "Allow"

command_targets_outside_workspace(words) ==
    /\ extract_first_command(words) \in WRITE_COMMANDS \cup STATE_MODIFYING_COMMANDS
    /\ Mentions(words, SystemPaths)

validate_mode(words, mode) ==
    CASE mode = "ReadOnly" -> validate_read_only[words]
      [] mode = "WorkspaceWrite" /\ command_targets_outside_workspace(words) -> "Warn"
      [] OTHER -> "Allow"

\* Mutant: only a command that starts with sed is checked.
validate_sed_anywhere(words, mode) ==
    IF mode = "ReadOnly" /\ Len(words) > 0 /\ words[1] = "sed" /\ Mentions(Tail(words), {"-i"})
    THEN "Block" ELSE "Allow"

\* " -i" anywhere behind the first word.
validate_sed(words, mode) ==
    IF /\ extract_first_command(words) = "sed"
       /\ mode = "ReadOnly" /\ Mentions(Tail(words), {"-i"})
    THEN "Block" ELSE "Allow"

\* The patterns with a target, the commands, and "rm", "-r" and "-f" as
\* three substrings: "-rf" holds the second of them and not the third.
check_destructive(words) ==
    LET Pattern == \E i \in 1..(Len(words) - 2) : SubSeq(words, i, i + 2) \in DESTRUCTIVE_PATTERNS
        Spelled == /\ \E i \in 1..(Len(words) - 1) : words[i] = "rm"
                   /\ Mentions(words, {"-r", "-rf"}) /\ Mentions(words, {"-f"})
    IN  IF Pattern \/ extract_first_command(words) \in ALWAYS_DESTRUCTIVE_COMMANDS \/ Spelled
        THEN "Warn" ELSE "Allow"

\* A traversal is let pass when the command names the workspace, which no
\* word of the model does.
validate_paths(words) == IF Mentions(words, {"../f", "~/f"}) THEN "Warn" ELSE "Allow"

\* The first check that does not allow decides.
validate_command(words, mode) ==
    LET results == <<validate_mode(words, mode), validate_sed(words, mode),
                     check_destructive(words), validate_paths(words)>>
        hit == SelectInSeq(results, LAMBDA r : r # "Allow")
    IN  IF hit = 0 THEN "Allow" ELSE results[hit]

classify_git_command(words) ==
    IF GitSubcommand(words) \in GIT_READ_ONLY_SUBCOMMANDS THEN "ReadOnly" ELSE "Write"

classify_command(words) ==
    LET first == extract_first_command(words)
    IN  CASE first \in SEMANTIC_READ_ONLY_COMMANDS ->
                IF first = "sed" /\ Mentions(Tail(words), {"-i"}) THEN "Write" ELSE "ReadOnly"
          [] first \in ALWAYS_DESTRUCTIVE_COMMANDS \cup {"rm"} -> "Destructive"
          [] first \in WRITE_COMMANDS -> "Write"
          [] first \in NETWORK_COMMANDS -> "Network"
          [] first \in PROCESS_COMMANDS -> "ProcessManagement"
          [] first \in PACKAGE_COMMANDS -> "PackageManagement"
          [] first \in SYSTEM_ADMIN_COMMANDS -> "SystemAdmin"
          [] first = "git" -> classify_git_command(words)
          [] OTHER -> "Unknown"

-----------------------------------------------------------------------------
(* Commands are typed word by word. *)

ValidationInit == command = <<>>

TypeWord(w) == Len(command) < MaxWords /\ command' = Append(command, w)

ValidationNext == \E w \in CommandWords : TypeWord(w)

-----------------------------------------------------------------------------
Verdict(mode) == validate_command(command, mode)

\* What read-only mode allows is not classified as a write or a deletion,
\* except git without a subcommand.
\* (Two hand-kept sets of lists decide the two questions.)
AllowedIsNoWrite ==
    Verdict("ReadOnly") = "Allow" =>
        \/ classify_command(command) \notin {"Write", "Destructive"}
        \/ extract_first_command(command) = "git" /\ GitSubcommand(command) = ""

\* A stricter mode never allows what a laxer one refuses or warns about, and
\* only read-only mode refuses.
StricterIsStricter ==
    /\ Verdict("ReadOnly") = "Allow" => \A m \in ValidationModes : Verdict(m) = "Allow"
    /\ Verdict("WorkspaceWrite") = "Allow" => Verdict("DangerFullAccess") = "Allow"
    /\ \A m \in ValidationModes \ {"ReadOnly"} : Verdict(m) \in {"Allow", "Warn"}

\* The check of read-only mode ends: it calls itself with the command behind
\* sudo only, and that is shorter unless a word behind sudo also stands at
\* the front of the command.
SudoCheckEnds ==
    Verdict("ReadOnly") = "Endless" =>
        \E i, j \in DOMAIN command : i < j /\ command[i] = command[j] /\ command[i] \in {"sudo", "X=1"}

\* A sudo changes nothing: the command behind it is refused if and only if it
\* is refused alone, for a plain sudo in front of a command without one.
SudoIsTransparent ==
    Len(command) > 1 /\ Head(command) = "sudo" /\ ~Mentions(Tail(command), {"sudo"}) =>
        ( validate_read_only[Tail(command)] = "Block" /\ command[2] \notin Flags
          => Verdict("ReadOnly") = "Block" )

\* The validation of bash commands: its verdict agrees with its own
\* classification and with the order of the modes, looks behind sudo, and is
\* reached.
BashValidationSound ==
    command # <<>> => AllowedIsNoWrite /\ StricterIsStricter /\ SudoCheckEnds /\ SudoIsTransparent
=============================================================================
