---------------------------- MODULE SettingsFiles ----------------------------
(***************************************************************************)
(* The five settings files: ConfigLoader::load with its validation and its  *)
(* merge (runtime/src/config.rs, config_validate.rs), the tools that write  *)
(* them while others read (Config, EnterPlanMode, ExitPlanMode of           *)
(* tools/src/lib.rs), and the start of the CLI, which loads them once for   *)
(* the permission mode and once more for the runtime.                       *)
(*                                                                         *)
(* A file holds a function from paths (<<"permissions", "deny">>) to JSON   *)
(* values, or text that does not parse.                                     *)
(***************************************************************************)
EXTENDS Naturals, Sequences, FiniteSets, TLC

CONSTANTS MaxEdits,      \* how often a person replaces a file
          MaxSettingsOps \* edits, calls of the tools and starts of the CLI in all

VARIABLES files,    \* what each file holds
          planFile, \* tool-state/plan-mode.json
          toolCall, \* the tool call that runs, between two of its writes
          startup,  \* the CLI that starts: its two loads and what came of them
          settingsLog  \* counters, and what was done that a reader may not know of

settingsVars == <<files, planFile, toolCall, startup, settingsLog>>

-----------------------------------------------------------------------------
(* JSON values and the files *)

JString(s) == [t |-> "string", v |-> s]
JNumber(s) == [t |-> "number", v |-> s]
JBool(s) == [t |-> "bool", v |-> s]
JStrings(s) == [t |-> "strings", v |-> s]
JObject(s) == [t |-> "object", v |-> s]   \* a server of mcpServers, by its shape

SettingsAbsent == [text |-> "absent", doc |-> <<>>]
SettingsEmpty == [text |-> "json", doc |-> <<>>]     \* also a file cut off by a crash
SettingsGarbage == [text |-> "garbage", doc |-> <<>>]
SettingsOf(doc) == [text |-> "json", doc |-> doc]

\* discover: later files have precedence.
discover == <<"user/.claw.json", "user/settings.json", "project/.claw.json",
              "project/settings.json", "project/settings.local.json">>
IsLegacy(f) == f \in {"user/.claw.json", "project/.claw.json"}
ScopeOf(f) == CASE f \in {"user/.claw.json", "user/settings.json"} -> "User"
                [] f = "project/settings.local.json" -> "Local"
                [] OTHER -> "Project"
LocalFile == "project/settings.local.json"
HomeFile == "user/settings.json"

-----------------------------------------------------------------------------
(* config_validate.rs *)

TOP_LEVEL_FIELDS ==
  [f \in {"hooks", "permissions", "mcpServers", "oauth", "enabledPlugins", "plugins", "sandbox", "env",
          "aliases", "providerFallbacks"} |-> "object"]
    @@ [f \in {"$schema", "model", "permissionMode"} |-> "string"]
    @@ [f \in {"trustedRoots"} |-> "strings"]
HOOKS_FIELDS == [f \in {"PreToolUse", "PostToolUse", "PostToolUseFailure"} |-> "strings"]
PERMISSIONS_FIELDS == [f \in {"allow", "deny", "ask"} |-> "strings"] @@ [f \in {"defaultMode"} |-> "string"]
PLUGINS_FIELDS ==
  [f \in {"installRoot", "registryPath", "bundledRoot"} |-> "string"]
    @@ [f \in {"externalDirectories"} |-> "strings"] @@ [f \in {"enabled"} |-> "object"]
    @@ [f \in {"maxOutputTokens"} |-> "number"]
SANDBOX_FIELDS ==
  [f \in {"enabled", "namespaceRestrictions", "networkIsolation"} |-> "bool"]
    @@ [f \in {"filesystemMode"} |-> "string"] @@ [f \in {"allowedMounts"} |-> "strings"]
OAUTH_FIELDS ==
  [f \in {"clientId", "authorizeUrl", "tokenUrl", "manualRedirectUrl"} |-> "string"]
    @@ [f \in {"scopes"} |-> "strings"] @@ [f \in {"callbackPort"} |-> "number"]

NestedFields ==
  [hooks |-> HOOKS_FIELDS, permissions |-> PERMISSIONS_FIELDS, plugins |-> PLUGINS_FIELDS,
   sandbox |-> SANDBOX_FIELDS, oauth |-> OAUTH_FIELDS]
DEPRECATED_FIELDS == {"permissionMode", "enabledPlugins"}

\* FieldType::matches for the value at a path: what has a path below it is an object.
TypeAt(doc, path, depth) == IF Len(path) > depth THEN "object" ELSE doc[path].t

\* The known-key and type check of one object of the file.
KeyIsValid(doc, path, depth, fields) ==
  IF path[depth] \in DOMAIN fields
    THEN fields[path[depth]] = TypeAt(doc, path, depth)
    ELSE path[depth] \in DEPRECATED_FIELDS

validate_config_file(doc) ==
  \A path \in DOMAIN doc :
    /\ KeyIsValid(doc, path, 1, TOP_LEVEL_FIELDS)
    /\ Len(path) > 1 /\ path[1] \in DOMAIN NestedFields => KeyIsValid(doc, path, 2, NestedFields[path[1]])

-----------------------------------------------------------------------------
(* config.rs: reading, merging and what is read off the merged settings *)

\* read_optional_json_object: a legacy file that does not parse is passed over.
ReadOutcome(f, content) ==
  CASE content.text = "absent" -> "skip"
    [] content.text = "garbage" -> IF IsLegacy(f) THEN "skip" ELSE "error"
    [] OTHER -> "object"

\* The shapes an entry of mcpServers may have: its type if it says one, and its fields.
McpShape(v) ==
  CASE v = "command" -> [type |-> "", fields |-> {"command"}]
    [] v = "url" -> [type |-> "", fields |-> {"url", "headers"}]
    [] v = "ws" -> [type |-> "ws", fields |-> {"url"}]
    [] v = "proxy-without-id" -> [type |-> "claudeai-proxy", fields |-> {"url"}]
infer_mcp_server_type(shape) == IF "url" \in shape.fields THEN "http" ELSE "stdio"
RequiredMcpFields(type) ==
  CASE type = "stdio" -> {"command"}
    [] type \in {"sse", "http", "ws"} -> {"url"}
    [] type = "sdk" -> {"name"}
    [] type = "claudeai-proxy" -> {"url", "id"}
parse_mcp_server_config(v) ==
  LET shape == McpShape(v)
      type == IF shape.type = "" THEN infer_mcp_server_type(shape) ELSE shape.type
  IN [ok |-> RequiredMcpFields(type) \subseteq shape.fields, type |-> type]

McpNames(doc) == {path[2] : path \in {p \in DOMAIN doc : p[1] = "mcpServers" /\ Len(p) = 2}}
McpAt(doc, name) == parse_mcp_server_config(doc[<<"mcpServers", name>>].v)

\* Servers of a later file replace those of an earlier one whole, scope included.
merge_mcp_servers(servers, f, doc) ==
  [n \in McpNames(doc) |-> [scope |-> ScopeOf(f), type |-> McpAt(doc, n).type]] @@ servers

Overlap(p, q) == \A i \in 1..(IF Len(p) < Len(q) THEN Len(p) ELSE Len(q)) : p[i] = q[i]
\* Objects are merged, anything else of the later file replaces what was there.
deep_merge_objects(target, source) ==
  source @@ [p \in {p \in DOMAIN target : ~ \E q \in DOMAIN source : Overlap(p, q)} |-> target[p]]

Has(doc, path) == path \in DOMAIN doc
parse_permission_mode_label(mode) ==
  CASE mode \in {"default", "plan", "read-only"} -> "ReadOnly"
    [] mode \in {"acceptEdits", "auto", "workspace-write"} -> "WorkspaceWrite"
    [] mode \in {"dontAsk", "danger-full-access"} -> "DangerFullAccess"
    [] OTHER -> "error"

\* The deprecated key goes first, whatever file it is in.
parse_optional_permission_mode(doc) ==
  IF Has(doc, <<"permissionMode">>) THEN parse_permission_mode_label(doc[<<"permissionMode">>].v)
  ELSE IF Has(doc, <<"permissions", "defaultMode">>)
    THEN parse_permission_mode_label(doc[<<"permissions", "defaultMode">>].v)
    ELSE "none"

\* plugins.enabled, where it is given, replaces enabledPlugins whole.
PluginMapKey(doc) == IF \E p \in DOMAIN doc : p[1] = "plugins" /\ Len(p) = 3 /\ p[2] = "enabled"
                       THEN "plugins" ELSE "enabledPlugins"
PluginFlags(doc) == {p \in DOMAIN doc : p[1] = PluginMapKey(doc) /\ (p[1] = "plugins" => Len(p) = 3)}
parse_optional_plugin_config(doc) ==
  [ok |-> \A p \in DOMAIN doc : (p[1] = "enabledPlugins" \/ (p[1] = "plugins" /\ Len(p) = 3)) => doc[p].t = "bool",
   on |-> {p[Len(p)] : p \in {q \in PluginFlags(doc) : doc[q].v = "true"}}]

parse_optional_sandbox_config(doc) ==
  Has(doc, <<"sandbox", "filesystemMode">>) =>
    doc[<<"sandbox", "filesystemMode">>].v \in {"off", "workspace-only", "allow-list"}

parse_optional_aliases(doc) == \A p \in DOMAIN doc : p[1] = "aliases" => Len(p) = 2 /\ doc[p].t = "string"

\* u16::try_from for the port: "wide" stands for a number outside the range.
parse_optional_oauth_config(doc) ==
  LET present == {p[2] : p \in {q \in DOMAIN doc : q[1] = "oauth" /\ Len(q) = 2}}
  IN present = {} \/ ({"clientId", "authorizeUrl", "tokenUrl"} \subseteq present
                      /\ ("callbackPort" \in present => doc[<<"oauth", "callbackPort">>].v # "wide"))

parse_optional_provider_fallbacks(doc) ==
  /\ Has(doc, <<"providerFallbacks", "primary">>) => doc[<<"providerFallbacks", "primary">>].t = "string"
  /\ Has(doc, <<"providerFallbacks", "fallbacks">>) => doc[<<"providerFallbacks", "fallbacks">>].t = "strings"

FeaturesParse(doc) ==
  /\ parse_optional_plugin_config(doc).ok
  /\ parse_optional_oauth_config(doc)
  /\ parse_optional_aliases(doc)
  /\ parse_optional_permission_mode(doc) # "error"
  /\ parse_optional_sandbox_config(doc)
  /\ parse_optional_provider_fallbacks(doc)

\* One turn of load's loop; acc is what it has gathered so far.
NewLoad == [at |-> 1, ok |-> TRUE, merged |-> <<>>, servers |-> <<>>]
LoadFile(acc, content) ==
  LET f == discover[acc.at]
      doc == content.doc
      outcome == ReadOutcome(f, content)
  IN IF outcome = "skip" THEN [acc EXCEPT !.at = @ + 1]
     ELSE IF outcome = "error" \/ ~ validate_config_file(doc) \/ (\E n \in McpNames(doc) : ~ McpAt(doc, n).ok)
       THEN [acc EXCEPT !.at = @ + 1, !.ok = FALSE]
       ELSE [at |-> acc.at + 1, ok |-> TRUE, merged |-> deep_merge_objects(acc.merged, doc),
             servers |-> merge_mcp_servers(acc.servers, f, doc)]
LoadEnded(acc) == ~ acc.ok \/ acc.at > Len(discover)
FinishLoad(acc) == [acc EXCEPT !.ok = @ /\ FeaturesParse(acc.merged)]

\* The whole load on files that do not change meanwhile.
LoadThrough(contents) ==
  LET step[n \in 0..Len(discover)] ==
        IF n = 0 THEN NewLoad
        ELSE IF step[n - 1].ok THEN LoadFile(step[n - 1], contents[discover[n]]) ELSE step[n - 1]
  IN FinishLoad(step[Len(discover)])

-----------------------------------------------------------------------------
(* What a person writes into a file *)

SettingsDocs ==
  { (<<"permissionMode">> :> JString("auto")) @@ (<<"enabledPlugins", "p">> :> JBool("true")),
    (<<"permissions", "defaultMode">> :> JString("read-only")) @@ (<<"permissions", "deny">> :> JStrings("rm")),
    (<<"permissions", "deny">> :> JStrings("curl")) @@ (<<"model">> :> JString("opus")),
    <<"mcpServers", "s">> :> JObject("command"),
    (<<"mcpServers", "s">> :> JObject("url")) @@ (<<"plugins", "enabled", "p">> :> JBool("false")),
    (<<"oauth", "clientId">> :> JString("c")) @@ (<<"oauth", "authorizeUrl">> :> JString("u"))
      @@ (<<"oauth", "tokenUrl">> :> JString("t")),
    <<"oauth", "callbackPort">> :> JNumber("8080") }

SettingsMistakes ==
  { SettingsGarbage,
    SettingsOf(<<"permision">> :> JString("plan")),
    SettingsOf(<<"permissions", "defaultMode">> :> JString("bypass")),
    SettingsOf(<<"mcpServers", "s">> :> JObject("proxy-without-id")) }

NoSettings == [f \in {discover[i] : i \in 1..Len(discover)} |-> SettingsAbsent]

SettingsInit ==
  /\ files = NoSettings
  /\ planFile = [text |-> "absent", previous |-> "none"]
  /\ toolCall = [pc |-> "idle"]
  /\ startup = [pc |-> "idle"]
  /\ settingsLog = [edits |-> 0, ops |-> 0, entered |-> "none",
                    mistakes |-> FALSE, unread |-> FALSE]

\* A person saves a file with an editor, also between the read and the write of a tool.
EditFile(f, content) ==
  /\ files' = [files EXCEPT ![f] = content]
  /\ settingsLog' = [settingsLog EXCEPT !.edits = @ + 1, !.ops = @ + 1,
                       !.mistakes = @ \/ content \in SettingsMistakes,
                       !.entered = IF f = LocalFile THEN "none" ELSE @]
  /\ startup' = IF startup.pc = "idle" THEN startup ELSE [startup EXCEPT !.changed = TRUE]
  /\ UNCHANGED <<planFile, toolCall>>

-----------------------------------------------------------------------------
(* The Config tool *)

\* supported_config_setting: the file, the kind and the options of each setting.
ConfigSetting(scope, kind, path, options) == [file |-> scope, kind |-> kind, path |-> path, options |-> options]
supported_config_setting ==
  [s \in {"theme", "preferredNotifChannel"} |-> ConfigSetting(HomeFile, "string", <<s>>, {})]
    @@ [s \in {"verbose", "autoCompactEnabled", "fileCheckpointingEnabled", "showTurnDuration",
               "terminalProgressBarEnabled", "todoFeatureEnabled"} |-> ConfigSetting(HomeFile, "bool", <<s>>, {})]
    @@ [s \in {"autoMemoryEnabled", "autoDreamEnabled", "alwaysThinkingEnabled"} |->
          ConfigSetting(LocalFile, "bool", <<s>>, {})]
    @@ [s \in {"model", "language"} |-> ConfigSetting(LocalFile, "string", <<s>>, {})]
    @@ ("editorMode" :> ConfigSetting(HomeFile, "string", <<"editorMode">>, {"default", "vim", "emacs"}))
    @@ ("teammateMode" :> ConfigSetting(HomeFile, "string", <<"teammateMode">>, {"tmux", "in-process", "auto"}))
    @@ ("permissions.defaultMode" :>
          ConfigSetting(LocalFile, "string", <<"permissions", "defaultMode">>,
                        {"default", "plan", "acceptEdits", "dontAsk", "auto"}))

normalize_config_value(spec, value) ==
  LET normalized == CASE spec.kind = "bool" ->
                           IF value.v \in {"true", "false"} /\ value.t # "number" THEN JBool(value.v)
                           ELSE JObject("refused")
                      [] value.t = "bool" -> JString(value.v)
                      [] OTHER -> value
  IN IF spec.options # {} /\ (normalized.t # "string" \/ normalized.v \notin spec.options)
       THEN JObject("refused") ELSE normalized

\* set_nested_value and remove_nested_value.
SetNested(doc, path, value) == (path :> value) @@ [p \in {q \in DOMAIN doc : ~ Overlap(q, path)} |-> doc[p]]
RemoveNested(doc, path) == [p \in DOMAIN doc \ {path} |-> doc[p]]

\* Kept by the reader of a later load, which does not know the key or the type.
Unreadable(spec, value) ==
  ~ spec.path[1] \in DOMAIN TOP_LEVEL_FIELDS \/ (spec.kind = "string" /\ value.t # "string")

\* execute_config: a file that does not parse is an error of the call.
ExecuteConfig(setting, value) ==
  LET spec == supported_config_setting[setting]
      normalized == normalize_config_value(spec, value)
      file == files[spec.file]
  IN /\ toolCall.pc = "idle"
     /\ settingsLog.ops < MaxSettingsOps
     /\ file.text # "garbage"
     /\ normalized # JObject("refused")
     /\ toolCall' = [pc |-> "config", todo |-> <<"settings">>, file |-> spec.file,
                     doc |-> SetNested(file.doc, spec.path, normalized),
                     unread |-> Unreadable(spec, normalized),
                     mode |-> spec.path = <<"permissions", "defaultMode">>]
     /\ settingsLog' = [settingsLog EXCEPT !.ops = @ + 1]
     /\ UNCHANGED <<files, planFile, startup>>

-----------------------------------------------------------------------------
(* EnterPlanMode and ExitPlanMode: two files, one after the other *)

ModePath == <<"permissions", "defaultMode">>
LocalMode(doc) == IF Has(doc, ModePath) THEN doc[ModePath].v ELSE "unset"
CurrentIsPlan == LocalMode(files[LocalFile].doc) = "plan"
\* A torn or empty state file reads as no state.
PlanState == IF planFile.text = "state" THEN planFile ELSE [text |-> "absent", previous |-> "none"]

\* The calls of fs::write and fs::remove_file that are still to come.
EnterCall(doc) ==
  [pc |-> "enter", todo |-> <<"state", "settings">>, previous |-> LocalMode(doc), doc |-> SetNested(doc, ModePath, JString("plan"))]

\* Stale state is cleared at once; the rest of the call follows.
ExecuteEnterPlanMode ==
  /\ toolCall.pc = "idle"
  /\ settingsLog.ops < MaxSettingsOps
  /\ files[LocalFile].text # "garbage"
  /\ ~ CurrentIsPlan
  /\ planFile' = [text |-> "absent", previous |-> "none"]
  /\ toolCall' = EnterCall(files[LocalFile].doc)
  /\ settingsLog' = [settingsLog EXCEPT !.ops = @ + 1]
  /\ UNCHANGED <<files, startup>>

NextWrite == IF Len(toolCall.todo) = 1 THEN [pc |-> "idle"] ELSE [toolCall EXCEPT !.todo = Tail(@)]

WritePlanState ==
  /\ toolCall.pc = "enter" /\ Head(toolCall.todo) = "state"
  /\ planFile' = [text |-> "state", previous |-> toolCall.previous]
  /\ toolCall' = NextWrite
  /\ UNCHANGED <<files, startup, settingsLog>>

WriteEnterSettings ==
  /\ toolCall.pc = "enter" /\ Head(toolCall.todo) = "settings"
  /\ files' = [files EXCEPT ![LocalFile] = SettingsOf(toolCall.doc)]
  /\ toolCall' = NextWrite
  /\ settingsLog' = [settingsLog EXCEPT !.entered = toolCall.previous]
  /\ startup' = IF startup.pc = "idle" THEN startup ELSE [startup EXCEPT !.changed = TRUE]
  /\ UNCHANGED planFile

\* Mutant: what was there before is forgotten.
RestoredDocForgets(doc, state) == RemoveNested(doc, ModePath)

RestoredDoc(doc, state) ==
  IF state.previous = "unset" THEN RemoveNested(doc, ModePath) ELSE SetNested(doc, ModePath, JString(state.previous))

ExecuteExitPlanMode ==
  /\ toolCall.pc = "idle"
  /\ settingsLog.ops < MaxSettingsOps
  /\ files[LocalFile].text # "garbage"
  /\ PlanState.text = "state"
  /\ toolCall' = IF CurrentIsPlan
                   THEN [pc |-> "exit", todo |-> <<"settings", "state">>, doc |-> RestoredDoc(files[LocalFile].doc, PlanState)]
                   ELSE [pc |-> "exit", todo |-> <<"state">>, doc |-> files[LocalFile].doc]
  /\ settingsLog' = [settingsLog EXCEPT !.ops = @ + 1]
  /\ UNCHANGED <<files, planFile, startup>>

\* write_json_object of Config and of ExitPlanMode.
WriteSettings ==
  /\ toolCall.pc \in {"config", "exit"} /\ Head(toolCall.todo) = "settings"
  /\ LET f == IF toolCall.pc = "config" THEN toolCall.file ELSE LocalFile
     IN /\ files' = [files EXCEPT ![f] = SettingsOf(toolCall.doc)]
        /\ settingsLog' = [settingsLog EXCEPT
                             !.entered = IF toolCall.pc = "exit" \/ toolCall.mode THEN "none" ELSE @,
                             !.unread = @ \/ (toolCall.pc = "config" /\ toolCall.unread)]
  /\ toolCall' = NextWrite
  /\ startup' = IF startup.pc = "idle" THEN startup ELSE [startup EXCEPT !.changed = TRUE]
  /\ UNCHANGED planFile

ClearPlanState ==
  /\ toolCall.pc = "exit" /\ Head(toolCall.todo) = "state"
  /\ planFile' = [text |-> "absent", previous |-> "none"]
  /\ toolCall' = [pc |-> "idle"]
  /\ UNCHANGED <<files, startup, settingsLog>>

\* std::fs::write truncates the file and writes it with one call: the process may
\* be killed before either.
ToolKilled(torn) ==
  /\ toolCall.pc # "idle"
  /\ toolCall' = [pc |-> "idle"]
  /\ LET target == IF toolCall.pc = "config" THEN toolCall.file
                   ELSE IF Head(toolCall.todo) = "settings" THEN LocalFile ELSE "plan"
     IN IF ~ torn THEN UNCHANGED <<files, planFile, settingsLog, startup>>
        ELSE IF target = "plan"
          THEN /\ toolCall.pc = "enter"
               /\ planFile' = [text |-> "empty", previous |-> "none"]
               /\ UNCHANGED <<files, settingsLog, startup>>
          ELSE /\ files' = [files EXCEPT ![target] = SettingsEmpty]
               /\ settingsLog' = [settingsLog EXCEPT !.entered = IF target = LocalFile THEN "none" ELSE @]
               /\ startup' = IF startup.pc = "idle" THEN startup ELSE [startup EXCEPT !.changed = TRUE]
               /\ UNCHANGED planFile

-----------------------------------------------------------------------------
(* The CLI starts: default_permission_mode, then the runtime's own load *)

ModeOr(resolved) == IF resolved = "none" THEN "DangerFullAccess" ELSE resolved

StartCli(env) ==
  /\ startup.pc = "idle"
  /\ settingsLog.ops < MaxSettingsOps
  /\ startup' = IF env = "none" THEN [pc |-> "mode", load |-> NewLoad, mode |-> "none", env |-> env, changed |-> FALSE]
                ELSE [pc |-> "runtime", load |-> NewLoad, mode |-> parse_permission_mode_label(env),
                      env |-> env, changed |-> FALSE]
  /\ settingsLog' = [settingsLog EXCEPT !.ops = @ + 1]
  /\ UNCHANGED <<files, planFile, toolCall>>

ReadNextFile ==
  /\ startup.pc \in {"mode", "runtime"}
  /\ ~ LoadEnded(startup.load)
  /\ startup' = [startup EXCEPT !.load = LoadFile(@, files[discover[startup.load.at]])]
  /\ UNCHANGED <<files, planFile, toolCall, settingsLog>>

\* config_permission_mode_for_current_dir: a load that fails gives no mode.
ModeLoaded ==
  /\ startup.pc = "mode" /\ LoadEnded(startup.load)
  /\ LET done == FinishLoad(startup.load)
     IN startup' = [startup EXCEPT !.pc = "runtime", !.load = NewLoad,
                      !.mode = ModeOr(IF done.ok THEN parse_optional_permission_mode(done.merged) ELSE "none")]
  /\ UNCHANGED <<files, planFile, toolCall, settingsLog>>

\* build_runtime_plugin_state: loader.load()? ends the start.
BuildOutcome(done) == IF done.ok THEN "live" ELSE "refused"

RuntimeLoaded ==
  /\ startup.pc = "runtime" /\ LoadEnded(startup.load)
  /\ LET done == FinishLoad(startup.load)
     IN startup' = [startup EXCEPT !.pc = BuildOutcome(done), !.load = done]
  /\ UNCHANGED <<files, planFile, toolCall, settingsLog>>

CliEnds ==
  /\ startup.pc \in {"live", "refused"}
  /\ startup' = [pc |-> "idle"]
  /\ UNCHANGED <<files, planFile, toolCall, settingsLog>>

SettingsNext ==
  \/ /\ settingsLog.edits < MaxEdits /\ settingsLog.ops < MaxSettingsOps
     /\ \E f \in DOMAIN files :
          \/ \E doc \in SettingsDocs : EditFile(f, SettingsOf(doc))
          \/ \E content \in SettingsMistakes \cup {SettingsAbsent} : EditFile(f, content)
  \/ \E s \in {"theme", "model"}, v \in {JString("opus"), JNumber("4")} : ExecuteConfig(s, v)
  \/ \E v \in {"dontAsk", "plan", "bypass"} : ExecuteConfig("permissions.defaultMode", JString(v))
  \/ ExecuteEnterPlanMode \/ WritePlanState \/ WriteEnterSettings
  \/ ExecuteExitPlanMode \/ WriteSettings \/ ClearPlanState
  \/ \E torn \in BOOLEAN : ToolKilled(torn)
  \/ \E env \in {"none", "read-only"} : StartCli(env)
  \/ ReadNextFile \/ ModeLoaded \/ RuntimeLoaded \/ CliEnds

-----------------------------------------------------------------------------
(* Properties *)

Defining(contents, path) == {i \in 1..Len(discover) : path \in DOMAIN contents[discover[i]].doc}

\* When the files load, each setting has the value of the last file in the chain
\* that gives it, and a server the scope of the last file that names it, however
\* the files nest and whatever the other settings of their objects are.
LastFileWins ==
  LET load == LoadThrough(files)
      read == [f \in DOMAIN files |-> IF ReadOutcome(f, files[f]) = "object" THEN files[f] ELSE SettingsAbsent]
  IN load.ok =>
       /\ \A f \in DOMAIN files : \A path \in DOMAIN read[f].doc : path \in DOMAIN load.merged
       /\ \A path \in DOMAIN load.merged :
            \E i \in Defining(read, path) :
              /\ \A j \in Defining(read, path) : j <= i
              /\ load.merged[path] = read[discover[i]].doc[path]
              /\ path[1] = "mcpServers" => load.servers[path[2]].scope = ScopeOf(discover[i])

\* The tools never leave files behind that do not load, as long as people make no
\* mistake of their own and the setting is one the reader knows: plan mode, the
\* default mode and the model, in any order and cut off at any write.
ToolsKeepFilesLoadable ==
  ~ settingsLog.mistakes /\ ~ settingsLog.unread =>
    \/ LoadThrough(files).ok
    \/ ~ parse_optional_oauth_config(LoadThrough(files).merged)

\* While the local mode is the plan mode that EnterPlanMode wrote, the mode it
\* replaced is on disk, wherever the process was killed: ExitPlanMode finds it.
PlanModeCanBeUndone ==
  settingsLog.entered # "none" /\ CurrentIsPlan /\ toolCall.pc = "idle" =>
    planFile = [text |-> "state", previous |-> settingsLog.entered]

\* ExitPlanMode puts back the mode that was there when EnterPlanMode replaced it.
ExitRestores ==
  [][settingsLog.entered # "none" /\ toolCall.pc = "exit" /\ WriteSettings =>
       LocalMode(files'[LocalFile].doc) = settingsLog.entered]_settingsVars

\* A CLI that runs and was not told its mode by the environment has the mode the
\* files give, unless a file changed while it started: files that do not load never
\* leave a runtime with the fallback, which allows everything.
RunsWithConfiguredMode ==
  startup.pc = "live" /\ ~ startup.changed /\ startup.env = "none" =>
    startup.mode = ModeOr(parse_optional_permission_mode(startup.load.merged)) /\ startup.load.ok

\* Settings are those of the last file that sets them, the tools write files
\* that load again, plan mode can always be undone and restores what was there,
\* and a process runs with the mode that was configured.
SettingsFilesSound ==
  /\ [](files # NoSettings => LastFileWins /\ ToolsKeepFilesLoadable)
  /\ []PlanModeCanBeUndone
  /\ []RunsWithConfiguredMode
  /\ ExitRestores

=============================================================================
