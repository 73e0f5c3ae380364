------------------------------- MODULE CliArgs -------------------------------
(***************************************************************************)
(* The command line of claw (parse_args and run in                          *)
(* rusty-claude-cli/src/main.rs): the arguments are read one by one from    *)
(* the left, decide what is done, and a prompt may be joined by what is     *)
(* piped in.  Tokens stand for the classes of arguments the code tells      *)
(* apart; the user types any sequence of them.                              *)
(***************************************************************************)
EXTENDS Naturals, Sequences, SequencesExt

CONSTANTS MaxTokens     \* bound on the arguments

VARIABLES
  argv,      \* the arguments seen so far
  scan,      \* the locals of parse_args
  stdin,     \* "terminal", "piped" (text not read yet) or "empty"
  chosen     \* the CliAction, an error, or Undecided

argsVars == <<argv, scan, stdin, chosen>>

\* Flags that take the next argument as their value, and flags that do not.
ValueFlags == {"--model", "--permission-mode"}
PlainFlags == {"--version", "--dangerously-skip-permissions", "--compact"}
\* Words with a meaning of their own, and the ones that are only looked at locally.
DiagnosticVerbs == {"status", "doctor"}
LocalVerbs == DiagnosticVerbs \cup {"plugins", "config"}
SlashTokens == {"/export", "/cost"}
Words == {"hello", "read-only", "opus", " ", "/tmp/file"}
ArgTokens == ValueFlags \cup PlainFlags \cup LocalVerbs \cup SlashTokens \cup Words
               \cup {"--help", "-p", "--resume", "--unknown", "prompt", "skills"}

StartsWithSlash == SlashTokens \cup {"/tmp/file"}
Blank(words) == \A i \in DOMAIN words : words[i] = " "

Undecided == [kind |-> "Undecided"]
Failed(why) == [kind |-> "Error", why |-> why]

-----------------------------------------------------------------------------
(* Values *)

validate_model_syntax(v) == v = "opus"
resolve_model_alias(v) == IF v = "opus" THEN "claude-opus" ELSE v
parse_permission_mode_arg(v) == v = "read-only"
default_permission_mode == "danger-full-access"

PermissionOr(s) == IF s.permission = "unset" THEN default_permission_mode ELSE s.permission

PromptAction(s, words) ==
  [kind |-> "Prompt", prompt |-> words, model |-> s.model, permission |-> PermissionOr(s),
   compact |-> s.compact, piped |-> 0]

-----------------------------------------------------------------------------
(* One argument of the loop of parse_args *)

TakeValue(s, v) ==
  CASE s.pending = "--model" -> [s EXCEPT !.pending = "", !.model = resolve_model_alias(v)]
    [] s.pending = "--permission-mode" -> [s EXCEPT !.pending = "", !.permission = v]

ValueRejected(s, v) ==
  \/ s.pending = "--model" /\ ~validate_model_syntax(v)
  \/ s.pending = "--permission-mode" /\ ~parse_permission_mode_arg(v)

\* Mutant: the first permission flag wins.
TakeFlag_first(s, t) ==
  CASE t \in ValueFlags   -> [s EXCEPT !.pending = t]
    [] t = "--version"    -> [s EXCEPT !.wants_version = TRUE]
    [] t = "--dangerously-skip-permissions" ->
         [s EXCEPT !.permission = IF @ = "unset" THEN "danger-full-access" ELSE @]
    [] t = "--compact"    -> [s EXCEPT !.compact = TRUE]

\* A flag means what it means wherever it stands.
TakeFlag(s, t) ==
  CASE t \in ValueFlags   -> [s EXCEPT !.pending = t]
    [] t = "--version"    -> [s EXCEPT !.wants_version = TRUE]
    [] t = "--dangerously-skip-permissions" -> [s EXCEPT !.permission = "danger-full-access"]
    [] t = "--compact"    -> [s EXCEPT !.compact = TRUE]

HelpIsGlobal(s) == s.rest = <<>> \/ s.rest[1] = "prompt"

\* One step of the loop; after -p everything is the prompt.
parse_token(s, t) ==
  CASE s.oneshot        -> [s EXCEPT !.rest = Append(@, t)]
    [] ~s.oneshot /\ s.pending # "" -> TakeValue(s, t)
    [] ~s.oneshot /\ s.pending = "" /\ t = "--help" /\ HelpIsGlobal(s) ->
         [s EXCEPT !.wants_help = TRUE]
    [] ~s.oneshot /\ s.pending = "" /\ t \in ValueFlags \cup PlainFlags -> TakeFlag(s, t)
    [] ~s.oneshot /\ s.pending = "" /\ t = "-p" -> [s EXCEPT !.oneshot = TRUE, !.rest = <<>>]
    [] OTHER            -> [s EXCEPT !.rest = Append(@, t)]

\* Arguments parse_token gives up on.
TokenRejected(s, t) ==
  /\ ~s.oneshot
  /\ \/ s.pending # "" /\ ValueRejected(s, t)
     \/ s.pending = "" /\ s.rest = <<>> /\ t = "--unknown"

-----------------------------------------------------------------------------
(* After the loop *)

\* Which words after --resume start a command of their own.
LooksLikeSlashCommand(t) == t \in SlashTokens

resume_command_can_absorb_token(command, t) ==
  command = <<"/export">> /\ ~LooksLikeSlashCommand(t)

\* One word of the commands to run on the resumed session.
ResumeWord(acc, t) ==
  CASE acc.bad -> acc
    [] ~acc.bad /\ t \in StartsWithSlash /\ resume_command_can_absorb_token(acc.current, t) ->
         [acc EXCEPT !.current = Append(@, t)]
    [] ~acc.bad /\ t \in StartsWithSlash /\ ~resume_command_can_absorb_token(acc.current, t) ->
         [acc EXCEPT !.commands = IF acc.current = <<>> THEN @ ELSE Append(@, acc.current),
                     !.current = <<t>>]
    [] OTHER -> IF acc.current = <<>> THEN [acc EXCEPT !.bad = TRUE]
                ELSE [acc EXCEPT !.current = Append(@, t)]

parse_resume_args(args) ==
  LET named == args # <<>> /\ ~LooksLikeSlashCommand(args[1])
      words == IF named THEN Tail(args) ELSE args
      acc == FoldLeft(ResumeWord, [commands |-> <<>>, current |-> <<>>, bad |-> FALSE], words)
  IN  IF acc.bad THEN Failed("resume")
      ELSE [kind |-> "ResumeSession", session |-> IF named THEN args[1] ELSE "latest",
            commands |-> IF acc.current = <<>> THEN acc.commands
                         ELSE Append(acc.commands, acc.current)]

parse_single_word_command_alias(rest) ==
  CASE rest[1] \in DiagnosticVerbs /\ Len(rest) = 1 -> [kind |-> rest[1]]
    [] rest[1] \in DiagnosticVerbs /\ Len(rest) = 2 /\ rest[2] = "--help" -> [kind |-> "HelpTopic"]
    [] rest[1] \in DiagnosticVerbs -> Failed("unrecognized argument")
    [] OTHER -> Undecided

\* A slash command given on the command line: none of these can run without a session.
parse_direct_slash_cli_action(words) ==
  Failed(IF words[1] \in SlashTokens THEN "interactive-only" ELSE "unknown slash command")

parse_subcommand(s) ==
  LET verb == s.rest[1]
      tail == Tail(s.rest)
  IN  CASE verb = "plugins" -> IF Len(tail) > 2 THEN Failed("extra arguments") ELSE [kind |-> verb]
        [] verb = "config"  -> IF Len(tail) > 1 THEN Failed("extra arguments") ELSE [kind |-> verb]
        [] verb = "skills"  -> IF tail = <<>> \/ Blank(tail) THEN [kind |-> verb]
                               ELSE PromptAction(s, tail)
        [] verb = "prompt"  -> IF Blank(tail) THEN Failed("prompt required")
                               ELSE PromptAction(s, tail)
        [] verb \in StartsWithSlash -> parse_direct_slash_cli_action(s.rest)
        [] OTHER -> IF Blank(s.rest) THEN Failed("empty prompt") ELSE PromptAction(s, s.rest)

\* What the arguments ask for, when stdin is left alone.
parse_args(s) ==
  CASE s.pending # ""      -> Failed("missing value")
    [] s.oneshot           -> IF Blank(s.rest) THEN Failed("-p requires a prompt")
                              ELSE PromptAction(s, s.rest)
    [] ~s.oneshot /\ s.wants_help -> [kind |-> "Help"]
    [] ~s.oneshot /\ ~s.wants_help /\ s.wants_version -> [kind |-> "Version"]
    [] OTHER ->
         IF s.rest = <<>> THEN [kind |-> "Repl", permission |-> PermissionOr(s)]
         ELSE IF s.rest[1] = "--resume" THEN parse_resume_args(Tail(s.rest))
         ELSE IF parse_single_word_command_alias(s.rest) # Undecided
              THEN parse_single_word_command_alias(s.rest)
         ELSE parse_subcommand(s)

-----------------------------------------------------------------------------
ArgsInit ==
  /\ argv = <<>>
  /\ scan = [rest |-> <<>>, pending |-> "", oneshot |-> FALSE, model |-> "default",
             permission |-> "unset", compact |-> FALSE, wants_help |-> FALSE,
             wants_version |-> FALSE]
  /\ stdin \in {"terminal", "piped", "empty"}
  /\ chosen = Undecided

ReadToken(t) ==
  /\ chosen = Undecided /\ Len(argv) < MaxTokens
  /\ argv' = Append(argv, t)
  /\ IF TokenRejected(scan, t) THEN chosen' = Failed("argument") /\ UNCHANGED scan
     ELSE scan' = parse_token(scan, t) /\ UNCHANGED chosen
  /\ UNCHANGED stdin

\* The end of the arguments: with nothing to do, piped text is the prompt.
FinishArgs ==
  /\ chosen = Undecided
  /\ LET action == parse_args(scan)
     IN  IF action.kind = "Repl" /\ stdin = "piped"
         THEN /\ chosen' = [PromptAction(scan, <<>>) EXCEPT !.piped = 1, !.compact = FALSE]
              /\ stdin' = "empty"
         ELSE chosen' = action /\ UNCHANGED stdin
  /\ UNCHANGED <<argv, scan>>

\* run: text piped in joins the prompt only when nobody has to answer questions.
RunPrompt ==
  /\ chosen.kind = "Prompt"
  /\ LET reads == chosen.permission = "danger-full-access" /\ stdin # "terminal"
     IN  /\ chosen' = [chosen EXCEPT !.kind = "Running",
                                     !.piped = @ + IF reads /\ stdin = "piped" THEN 1 ELSE 0]
         /\ stdin' = IF reads THEN "empty" ELSE stdin
  /\ UNCHANGED <<argv, scan>>

ArgsNext == (\E t \in ArgTokens : ReadToken(t)) \/ FinishArgs \/ RunPrompt

-----------------------------------------------------------------------------
(* Properties.  The meaning of an argument by its place, from argv alone. *)

\* The first -p that is not the value of a flag: from there on all is prompt.
IsValue[i \in 1..MaxTokens] ==
  /\ i > 1 /\ i <= Len(argv)
  /\ argv[i - 1] \in ValueFlags /\ ~IsValue[i - 1]
PromptMark == LET marks == {i \in DOMAIN argv : argv[i] = "-p" /\ ~IsValue[i]}
              IN  IF marks = {} THEN Len(argv) + 1
                  ELSE CHOOSE i \in marks : \A j \in marks : i <= j
AskedModes == {i \in 1..(PromptMark - 1) :
                 \/ argv[i] = "--dangerously-skip-permissions" /\ ~IsValue[i]
                 \/ IsValue[i] /\ argv[i - 1] = "--permission-mode"}
AskedMode == IF AskedModes = {} THEN default_permission_mode
             ELSE LET last == CHOOSE i \in AskedModes : \A j \in AskedModes : j <= i
                  IN  IF IsValue[last] THEN argv[last] ELSE "danger-full-access"

PlainWords == LET kept_words == SelectSeq([i \in DOMAIN argv |-> i],
                             LAMBDA i : ~IsValue[i] /\ argv[i] \notin ValueFlags \cup PlainFlags)
              IN  [k \in DOMAIN kept_words |-> argv[kept_words[k]]]

\* The model is asked under the permission mode requested last, wherever among
\* the words of the prompt the flag stands.
AskedPermissionHolds ==
  chosen.kind \in {"Prompt", "Repl", "Running"} => chosen.permission = AskedMode

\* A command that only looks at local files never becomes a prompt for the
\* model, with whatever words behind it (the comments #145 and #146).
LocalVerbsStayLocal ==
  chosen.kind = "Prompt" /\ ~scan.oneshot /\ scan.rest # <<>> => scan.rest[1] \notin LocalVerbs

\* The prompt is exactly the words that are neither flags nor values of flags,
\* in their order, without the verb in front; it is never blank.
PromptsAreTheWords ==
  chosen.kind = "Prompt" /\ chosen.piped = 0 =>
    /\ ~Blank(chosen.prompt)
    /\ chosen.prompt = IF scan.oneshot THEN SubSeq(argv, PromptMark + 1, Len(argv))
                       ELSE IF PlainWords[1] \in {"prompt", "skills"} THEN Tail(PlainWords)
                       ELSE PlainWords

\* Text piped in is sent once, and in a mode that asks for approvals it is left
\* alone for the answers whenever the command line has a prompt of its own.
PipedTextOnce ==
  chosen.kind = "Running" =>
    /\ chosen.piped <= 1
    /\ chosen.permission # "danger-full-access" /\ chosen.prompt # <<>> => chosen.piped = 0

\* Resuming loses no word: the commands, one after the other, are the words
\* behind --resume and its session, and each starts with a slash.
ResumeKeepsWords ==
  chosen.kind = "ResumeSession" =>
    LET words == Tail(scan.rest)
    IN  /\ FlattenSeq(chosen.commands)
             = IF words # <<>> /\ chosen.session = words[1] THEN Tail(words) ELSE words
        /\ \A i \in DOMAIN chosen.commands : chosen.commands[i][1] \in StartsWithSlash
        /\ \A i \in DOMAIN chosen.commands :
             i > 1 => chosen.commands[i][1] # "/tmp/file" \/ chosen.commands[i - 1] # <<"/export">>

\* The command line is read as the user wrote it: the last permission flag
\* holds, verbs that work locally never start a session, a prompt is the words
\* in their order, piped text enters it once, and the words behind --resume stay
\* with their command.
CliArgsSound ==
  /\ AskedPermissionHolds
  /\ LocalVerbsStayLocal
  /\ PromptsAreTheWords
  /\ PipedTextOnce
  /\ ResumeKeepsWords

=============================================================================
