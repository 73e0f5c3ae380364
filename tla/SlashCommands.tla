---------------------------- MODULE SlashCommands ----------------------------
(***************************************************************************)
(* Slash commands: the table that documents them (SLASH_COMMAND_SPECS of    *)
(* commands/src/lib.rs), the parser, and the three places that run what it  *)
(* returns: the REPL, claw --resume SESSION /command and claw /command      *)
(* (rusty-claude-cli/src/main.rs). The table, the parser, the list of stubs *)
(* and the dispatchers are written out separately in the code.              *)
(***************************************************************************)
EXTENDS Naturals, Sequences, FiniteSets, SequencesExt

VARIABLE slash   \* the line typed last, where, and what came of it

slashVars == <<slash>>

-----------------------------------------------------------------------------
(* The table: the commands, whether they take arguments, and the [resume] mark *)

Described(names, hint, resume) == {[name |-> n, hint |-> hint, resume |-> resume] : n \in names}

SlashSpecs1 ==
  Described({"help", "status", "sandbox", "compact", "cost", "memory", "init", "diff", "version"}, "none", TRUE)
    \cup Described({"commit"}, "none", FALSE)
    \cup Described({"clear", "config", "mcp"}, "optional", TRUE)
    \cup Described({"model", "permissions", "bughunter", "pr", "issue", "ultraplan"}, "optional", FALSE)
    \cup Described({"resume", "teleport"}, "required", FALSE)

SlashSpecs2 ==
  Described({"doctor", "vim", "usage", "stats"}, "none", TRUE)
    \cup Described({"debug-tool-call", "upgrade", "share", "feedback"}, "none", FALSE)
    \cup Described({"export", "agents", "skills", "plan", "tasks", "theme", "copy", "hooks"}, "optional", TRUE)
    \cup Described({"session", "plugin", "review", "voice"}, "optional", FALSE)
    \cup Described({"rename"}, "required", FALSE)

SlashSpecs3 ==
  Described({"files", "fast", "summary", "brief", "advisor", "stickers", "insights", "thinkback",
       "keybindings", "privacy-settings"}, "none", TRUE)
    \cup Described({"exit", "desktop", "release-notes"}, "none", FALSE)
    \cup Described({"context", "color", "effort", "tag"}, "optional", TRUE)
    \cup Described({"branch", "rewind", "ide", "security-review"}, "optional", FALSE)

SlashSpecs4 ==
  Described({"terminal-setup", "system-prompt"}, "none", TRUE)
    \cup Described({"approve", "deny", "undo", "stop", "retry", "paste", "screenshot", "listen", "speak"}, "none", FALSE)
    \cup Described({"output-style", "allowed-tools", "language", "max-tokens", "temperature"}, "optional", TRUE)
    \cup Described({"api-key", "profile"}, "optional", FALSE)
    \cup Described({"add-dir", "image", "search"}, "required", FALSE)

SlashSpecs5 ==
  Described({"tokens", "cache", "providers"}, "none", TRUE)
    \cup Described({"bookmarks", "workspace", "history", "notifications", "changelog", "log", "cron"}, "optional", TRUE)
    \cup Described({"format", "pin", "unpin", "test", "lint", "build", "stash"}, "optional", FALSE)
    \cup Described({"tool-details", "blame"}, "required", TRUE)
    \cup Described({"run", "git"}, "required", FALSE)

SlashSpecs6 ==
  Described({"env", "project"}, "none", TRUE)
    \cup Described({"migrate", "chat"}, "none", FALSE)
    \cup Described({"team", "telemetry", "map"}, "optional", TRUE)
    \cup Described({"benchmark", "reset", "templates", "docs", "fix", "unfocus"}, "optional", FALSE)
    \cup Described({"symbols"}, "required", TRUE)
    \cup Described({"explain", "refactor", "perf", "focus", "web", "references", "definition"}, "required", FALSE)

SlashSpecs7 ==
  Described({"metrics"}, "none", TRUE)
    \cup Described({"diagnostics", "agent", "subagent", "reasoning", "budget", "rate-limit"}, "optional", TRUE)
    \cup Described({"autofix", "macro"}, "optional", FALSE)
    \cup Described({"hover", "alias"}, "required", TRUE)
    \cup Described({"multi", "parallel"}, "required", FALSE)

slash_command_specs ==
  SlashSpecs1 \cup SlashSpecs2 \cup SlashSpecs3 \cup SlashSpecs4 \cup SlashSpecs5 \cup SlashSpecs6 \cup SlashSpecs7

aliases(name) ==
  CASE name = "plugin" -> {"plugins", "marketplace"}
    [] name = "skills" -> {"skill"}
    [] name = "approve" -> {"yes", "y"}
    [] name = "deny" -> {"no", "n"}
    [] name = "workspace" -> {"cwd"}
    [] OTHER -> {}

\* What this build does not implement: kept out of the help and of the completions.
STUB_COMMANDS ==
  {"login", "logout", "vim", "upgrade", "share", "feedback", "files", "fast", "exit", "summary",
   "desktop", "brief", "advisor", "stickers", "insights", "thinkback", "release-notes",
   "security-review", "keybindings", "privacy-settings", "plan", "review", "tasks", "theme",
   "voice", "usage", "rename", "copy", "hooks", "context", "color", "effort", "branch", "rewind",
   "ide", "tag", "output-style", "add-dir", "allowed-tools", "bookmarks"}
    \cup {"workspace", "reasoning", "budget", "rate-limit", "changelog", "diagnostics", "metrics",
           "tool-details", "focus", "unfocus", "pin", "unpin", "language", "profile", "max-tokens",
           "temperature", "system-prompt", "notifications", "telemetry", "env", "project",
           "terminal-setup", "api-key", "reset", "undo", "stop", "retry", "paste", "screenshot", "image",
           "search", "listen", "speak", "format", "test", "lint", "build", "run", "git", "stash", "blame",
           "log", "cron", "team", "benchmark", "migrate", "templates", "explain", "refactor", "docs",
           "fix", "perf", "chat", "web", "map", "symbols", "references", "definition", "hover", "autofix",
           "multi", "macro", "alias", "parallel", "subagent", "agent"}

ShownSpecs == {s \in slash_command_specs : s.name \notin STUB_COMMANDS}

-----------------------------------------------------------------------------
(* The parser: a name and the words after it give a command or a usage error *)

Parsed(command, action) == [command |-> command, action |-> action]
UsageError == Parsed("error", "usage")

NoArgCommands ==
  {"help", "status", "sandbox", "compact", "commit", "debug-tool-call", "cost", "memory", "init",
   "diff", "version", "vim", "upgrade", "share", "feedback", "files", "fast", "exit", "summary",
   "desktop", "brief", "advisor", "stickers", "insights", "thinkback", "release-notes",
   "security-review", "keybindings", "privacy-settings"}
RemainderCommands ==
  {"bughunter", "pr", "issue", "ultraplan", "export", "plan", "review", "tasks", "theme", "voice",
   "usage", "rename", "copy", "hooks", "context", "color", "effort", "branch", "rewind", "ide",
   "tag", "output-style", "add-dir"}

validate_no_args(command, args) == IF args = <<>> THEN Parsed(command, "") ELSE UsageError
optional_single_arg(command, args) == IF Len(args) <= 1 THEN Parsed(command, "") ELSE UsageError
require_remainder(command, args) == IF args = <<>> THEN UsageError ELSE Parsed(command, "")
OneOf(command, args, values) ==
  IF args = <<>> \/ (Len(args) = 1 /\ args[1] \in values) THEN Parsed(command, "") ELSE UsageError

parse_session_command(args) ==
  CASE args = <<>> -> Parsed("session", "")
    [] args = <<"list">> -> Parsed("session", "list")
    [] Len(args) = 2 /\ args[1] = "switch" -> Parsed("session", "switch")
    [] Len(args) \in {1, 2} /\ args[1] = "fork" -> Parsed("session", "fork")
    [] Len(args) = 2 /\ args[1] = "delete" -> Parsed("session", "delete")
    [] Len(args) = 3 /\ args[1] = "delete" /\ args[3] = "--force" -> Parsed("session", "delete-force")
    [] OTHER -> UsageError

parse_mcp_command(args) ==
  CASE args = <<>> \/ args = <<"list">> -> Parsed("mcp", "list")
    [] Len(args) = 2 /\ args[1] = "show" -> Parsed("mcp", "show")
    [] args = <<"help">> -> Parsed("mcp", "help")
    [] OTHER -> UsageError

parse_plugin_command(args) ==
  CASE args = <<>> \/ args = <<"list">> -> Parsed("plugin", "list")
    [] Len(args) >= 2 /\ args[1] = "install" -> Parsed("plugin", "install")
    [] Len(args) = 2 /\ args[1] \in {"enable", "disable", "uninstall", "update"} -> Parsed("plugin", args[1])
    [] OTHER -> UsageError

parse_list_or_help_args(args) ==
  IF args \in {<<>>, <<"list">>, <<"help">>} THEN Parsed("agents", "") ELSE UsageError

\* classify_skills_slash_command tells the local commands from a skill to run.
parse_skills_args(args) ==
  IF args = <<"install">> THEN UsageError
  ELSE Parsed("skills", IF args = <<>> \/ args = <<"help">> \/ args[1] \in {"list", "show"} THEN "list"
                        ELSE IF args[1] = "install" THEN "install" ELSE "invoke")

\* Mutant: an alias of the table is left out of the parser.
validate_slash_command_input_alias(name, args) ==
  CASE name \in NoArgCommands -> validate_no_args(name, args)
    [] name \in {"doctor", "providers"} -> validate_no_args("doctor", args)
    [] name \in {"stats", "tokens", "cache"} -> validate_no_args("stats", args)
    [] name \in RemainderCommands -> Parsed(name, "")
    [] name \in {"teleport", "resume"} -> require_remainder(name, args)
    [] name \in {"model", "history"} -> optional_single_arg(name, args)
    [] name = "permissions" -> OneOf(name, args, {"read-only", "workspace-write", "danger-full-access"})
    [] name = "clear" -> OneOf(name, args, {"--confirm"})
    [] name = "config" -> OneOf(name, args, {"env", "hooks", "model", "plugins"})
    [] name = "mcp" -> parse_mcp_command(args)
    [] name = "session" -> parse_session_command(args)
    [] name \in {"plugin", "plugins"} -> parse_plugin_command(args)
    [] name = "agents" -> parse_list_or_help_args(args)
    [] name \in {"skills", "skill"} -> parse_skills_args(args)
    [] name \in {"login", "logout"} -> UsageError
    [] OTHER -> Parsed("unknown", name)

validate_slash_command_input(name, args) ==
  CASE name \in NoArgCommands -> validate_no_args(name, args)
    [] name \in {"doctor", "providers"} -> validate_no_args("doctor", args)
    [] name \in {"stats", "tokens", "cache"} -> validate_no_args("stats", args)
    [] name \in RemainderCommands -> Parsed(name, "")
    [] name \in {"teleport", "resume"} -> require_remainder(name, args)
    [] name \in {"model", "history"} -> optional_single_arg(name, args)
    [] name = "permissions" -> OneOf(name, args, {"read-only", "workspace-write", "danger-full-access"})
    [] name = "clear" -> OneOf(name, args, {"--confirm"})
    [] name = "config" -> OneOf(name, args, {"env", "hooks", "model", "plugins"})
    [] name = "mcp" -> parse_mcp_command(args)
    [] name = "session" -> parse_session_command(args)
    [] name \in {"plugin", "plugins", "marketplace"} -> parse_plugin_command(args)
    [] name = "agents" -> parse_list_or_help_args(args)
    [] name \in {"skills", "skill"} -> parse_skills_args(args)
    [] name \in {"login", "logout"} -> UsageError
    [] OTHER -> Parsed("unknown", name)

-----------------------------------------------------------------------------
(* The dispatchers *)

\* Commands the REPL runs; the others it knows are "not yet implemented".
ReplCommands ==
  {"help", "status", "bughunter", "commit", "pr", "issue", "ultraplan", "teleport", "debug-tool-call",
   "sandbox", "compact", "model", "permissions", "clear", "cost", "resume", "config", "mcp", "memory",
   "init", "diff", "version", "export", "session", "plugin", "agents", "skills", "doctor", "history",
   "stats"}

handle_repl_command(name, args) ==
  LET p == validate_slash_command_input(name, args)
  IN  CASE name \in {"exit", "quit"} /\ args = <<>> -> "ends"
        [] p.command = "error" -> "usage"
        [] p.command = "unknown" -> "unknown"
        [] p.command \in ReplCommands -> "runs"
        [] OTHER -> "not yet"

ResumeCommands ==
  {"help", "compact", "clear", "status", "sandbox", "cost", "config", "mcp", "memory", "init", "diff",
   "version", "export", "agents", "doctor", "stats", "history"}

\* The text and the JSON of the answer are made by two calls of the handler: an
\* install succeeds in the first and finds itself installed in the second.
resumed_skills(action) ==
  CASE action = "list" -> "runs" [] action = "install" -> "fails, installed" [] OTHER -> "unsupported"

\* A stub is refused by its name, before the line is parsed.
resumed_command(name, args) ==
  LET p == validate_slash_command_input(name, args)
  IN  IF name \in STUB_COMMANDS THEN "not yet"
      ELSE CASE p.command = "error" -> "usage"
             [] p.command = "unknown" -> "unknown"
             [] p.command \in ResumeCommands -> "runs"
             [] p.command = "skills" -> resumed_skills(p.action)
             [] p.command \in {"plugin", "session"} /\ p.action = "list" -> "runs"
             [] OTHER -> "unsupported"

parse_direct_slash_cli_action(name, args) ==
  LET p == validate_slash_command_input(name, args)
  IN  CASE p.command = "error" -> "usage"
        [] p.command = "unknown" -> "unknown"
        [] p.command \in {"help", "agents", "mcp", "skills"} -> "runs"
        [] OTHER -> "interactive only"

Surfaces == {"repl", "resume", "direct"}
OutcomeOf(surface, name, args) ==
  CASE surface = "repl" -> handle_repl_command(name, args)
    [] surface = "resume" -> resumed_command(name, args)
    [] OTHER -> parse_direct_slash_cli_action(name, args)

-----------------------------------------------------------------------------
(* Completions: a closed candidate is a whole line, an open one wants a word *)

CompletionWords ==
  {<<<<"bughunter">>, TRUE>>, <<<<"clear", "--confirm">>, FALSE>>, <<<<"config">>, TRUE>>, <<<<"config", "env">>, FALSE>>,
   <<<<"config", "hooks">>, FALSE>>, <<<<"config", "model">>, FALSE>>, <<<<"config", "plugins">>, FALSE>>,
   <<<<"mcp">>, TRUE>>, <<<<"mcp", "list">>, FALSE>>, <<<<"mcp", "show">>, TRUE>>, <<<<"export">>, TRUE>>,
   <<<<"issue">>, TRUE>>, <<<<"model">>, TRUE>>, <<<<"permissions">>, TRUE>>, <<<<"permissions", "read-only">>, FALSE>>,
   <<<<"plugin", "list">>, FALSE>>, <<<<"plugin", "install">>, TRUE>>, <<<<"plugin", "enable">>, TRUE>>,
   <<<<"plugin", "disable">>, TRUE>>, <<<<"plugin", "uninstall">>, TRUE>>, <<<<"plugin", "update">>, TRUE>>,
   <<<<"plugins", "list">>, FALSE>>, <<<<"pr">>, TRUE>>, <<<<"resume">>, TRUE>>, <<<<"session", "list">>, FALSE>>,
   <<<<"session", "switch">>, TRUE>>, <<<<"session", "fork">>, TRUE>>, <<<<"teleport">>, TRUE>>,
   <<<<"ultraplan">>, TRUE>>, <<<<"agents", "help">>, FALSE>>, <<<<"mcp", "help">>, FALSE>>, <<<<"skills", "help">>, FALSE>>}

slash_command_completion_candidates ==
  UNION {{<<<<n>>, FALSE>> : n \in {s.name} \cup (aliases(s.name) \ STUB_COMMANDS)} : s \in ShownSpecs}
    \cup CompletionWords

-----------------------------------------------------------------------------

Typable == {s.name : s \in slash_command_specs} \cup UNION {aliases(s.name) : s \in slash_command_specs}
             \cup {"login", "logout", "quit", "typo"}
ArgWords == {"word", "list", "show", "help", "install", "enable", "switch", "fork", "delete", "--force",
             "--confirm", "env", "read-only"}
ArgLists == {<<>>} \cup {<<a>> : a \in ArgWords} \cup {<<a, "word">> : a \in ArgWords}
              \cup {<<a, "word", b>> : a \in ArgWords, b \in {"word", "--force"}}

SlashInit == slash = [surface |-> "none", name |-> "", args |-> <<>>, outcome |-> "none"]

\* One line: lines do not depend on each other.
TypeLine(surface, name, args) ==
  slash' = [surface |-> surface, name |-> name, args |-> args, outcome |-> OutcomeOf(surface, name, args)]

SlashNext ==
  /\ slash.surface = "none"
  /\ \E s \in Surfaces, n \in Typable, a \in ArgLists : TypeLine(s, n, a)

-----------------------------------------------------------------------------
(* Properties *)

\* Commands the help shows and no parser knows: the README reports them.
Unparsed == {"approve", "deny"}
Fits(spec, args) ==
  CASE spec.hint = "none" -> args = <<>>
    [] spec.hint = "optional" -> args = <<>>
    [] OTHER -> Len(args) = 1

\* A command the help shows runs when it is typed in the REPL the way the help
\* says, under its name and under each alias.
HelpIsHonest ==
  slash.surface = "repl" =>
    \A s \in ShownSpecs :
      s.name \notin Unparsed /\ slash.name \in {s.name} \cup aliases(s.name) /\ Fits(s, slash.args)
        => slash.outcome = "runs"

\* A command marked [resume] in the help runs on a resumed session.
ResumeMarkHolds ==
  slash.surface = "resume" =>
    \A s \in ShownSpecs : s.resume /\ slash.name = s.name /\ Fits(s, slash.args) => slash.outcome = "runs"

\* What runs on a resumed session runs in the REPL as well: a line means the
\* same in both, or is refused.
ResumeWithinRepl ==
  slash.surface = "resume" /\ slash.outcome = "runs" =>
    /\ handle_repl_command(slash.name, slash.args) = "runs"
    /\ LET p == validate_slash_command_input(slash.name, slash.args)
       IN  p.action \notin {"switch", "fork", "delete", "delete-force", "install", "enable", "invoke"}

\* Whatever completion offers, the REPL runs, once the missing word of an open
\* candidate is there.
CompletionsRun ==
  slash.surface = "repl" /\ slash.name \notin Unparsed \cup aliases("approve") \cup aliases("deny") =>
    \A c \in {x \in slash_command_completion_candidates : Head(x[1]) = slash.name} :
      IF c[2] THEN \E w \in ArgWords : handle_repl_command(slash.name, Append(Tail(c[1]), w)) = "runs"
      ELSE \/ handle_repl_command(slash.name, Tail(c[1])) = "runs"
           \/ slash.name \in {"teleport", "resume"} /\ Len(c[1]) = 1

\* What the help lists can be typed, what is marked as fit for resuming runs
\* there and only there what also runs in the REPL, and a completion that is
\* offered runs.
SlashCommandsSound ==
  /\ HelpIsHonest
  /\ ResumeMarkHolds
  /\ ResumeWithinRepl
  /\ CompletionsRun

=============================================================================
