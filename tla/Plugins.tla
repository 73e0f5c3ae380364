------------------------------ MODULE Plugins -------------------------------
(***************************************************************************)
(* The plugin manager (plugins/src/lib.rs): the directories under the       *)
(* install root, the registry file that records them, the enabledPlugins of *)
(* the settings file and the manager's own copy of them. Every operation is *)
(* a chain of file-system steps, and any of them may fail with the effects  *)
(* of the earlier ones in place. A runtime initialises the plugins that are *)
(* enabled when it is built and shuts the same ones down when it is dropped.*)
(***************************************************************************)
EXTENDS Naturals, Sequences, FiniteSets, SequencesExt

CONSTANT MaxPluginOps   \* bound on the operations and outside events

VARIABLES
  plugin_ops,  \* how many of them there were
  plugin_disk,        \* the install root, the registry and whether it can be read
  bundle,      \* the version of the plugin shipped with the program
  plugin_origin,      \* what the source of the external plugin holds
  plugin_settings,    \* enabledPlugins of the settings file
  settings_file,      \* "ok", or "torn" when it does not parse
  plugin_memory,      \* config.enabled_plugins of the manager
  plugin_run,  \* the runtime: which plugins it started and stopped
  plugin_acked,       \* the flag the last operation on an id that returned Ok left
  plugin_lost,        \* history: ids with a flag in a settings file a failed write destroyed
  plugin_removed      \* the ids uninstalled and not installed since

plugVars == <<plugin_ops, plugin_disk, bundle, plugin_origin, plugin_settings, settings_file, plugin_memory,
              plugin_run, plugin_acked, plugin_lost, plugin_removed>>
flagVars == <<plugin_settings, settings_file, plugin_memory, plugin_acked, plugin_lost>>

PluginNames == {"b", "e"}
PluginIds == {"b@bundled", "b@external", "e@external"}   \* in the order of their names
PluginVersions == {"v1", "v2"}
\* A plugin directory is "none", "nomanifest", "broken" (its manifest does not
\* load) or a version. Only the manifest and the files it names are looked at:
\* a directory that loads is "whole", or it is "half" there, or half there since
\* a copy that was to renew a plugin already recorded in that version: "unrenewed".
CopyStates == {"whole", "half", "unrenewed"}
NoRecord == [kind |-> "None", version |-> "none"]

plugin_id(name, kind) ==
  CASE name = "b" /\ kind = "Bundled" -> "b@bundled"
    [] name = "b" /\ kind = "External" -> "b@external"
    [] OTHER -> "e@external"
NameOf(id) == IF id = "e@external" THEN "e" ELSE "b"

ManifestLoads(content) == content \in PluginVersions
HasManifest(content) == content \in PluginVersions \cup {"broken"}

\* The tool a plugin declares: the second version of "e" takes a name of "b".
ToolOf(name, version) == IF name = "b" \/ version = "v2" THEN "t" ELSE "u"

-----------------------------------------------------------------------------
(* File-system steps: the set of outcomes, each with the plugin_disk it leaves *)

FsDone(d) == [disk |-> d, ok |-> TRUE]
FsFailed(d) == [disk |-> d, ok |-> FALSE]
FsThen(outcomes, Step(_)) == UNION {IF r.ok THEN Step(r.disk) ELSE {r} : r \in outcomes}

Holding(d, name, content, state) == [d EXCEPT !.dir[name] = content, !.copy[name] = state]

\* Both go entry by entry and stop at the first that fails.
remove_dir_all(d, name) ==
  IF d.dir[name] = "none" THEN {FsDone(d)}
  ELSE {FsDone(Holding(d, name, "none", "whole")), FsFailed(d), FsFailed(Holding(d, name, d.dir[name], "half"))}
         \cup {FsFailed(Holding(d, name, c, "whole")) : c \in {"broken", "nomanifest"}}

copy_dir_all(d, name, content) ==
  {FsDone(Holding(d, name, content, "whole")),
   FsFailed(Holding(d, name, content, IF d.reg[name].version = content THEN "unrenewed" ELSE "half"))}
    \cup {FsFailed(Holding(d, name, c, "whole")) : c \in {"broken", "nomanifest"}}

load_registry(d) == IF d.file = "torn" THEN {FsFailed(d)} ELSE {FsDone(d)}

\* The file is truncated before it is written: a failed store may leave the
\* old records, an empty file (no records) or one that does not parse.
store_registry(d, records) ==
  {FsDone([d EXCEPT !.reg = records]), FsFailed(d),
   FsFailed([d EXCEPT !.reg = [n \in PluginNames |-> NoRecord]]),
   FsFailed([d EXCEPT !.file = "torn"])}

\* Remove what is there, copy the plugin, record it.
PlacePlugin(d, name, content, record) ==
  FsThen(remove_dir_all(d, name), LAMBDA d1 :
    FsThen(copy_dir_all(d1, name, content), LAMBDA d2 :
      FsThen(load_registry(d2), LAMBDA d3 :
        store_registry(d3, [d3.reg EXCEPT ![name] = record]))))

-----------------------------------------------------------------------------
(* Discovery *)

needs_sync(d) ==
  \/ d.reg["b"].kind # "Bundled"
  \/ d.reg["b"].version # bundle
  \/ ~ManifestLoads(d.dir["b"])

sync_bundled_plugins(d) ==
  FsThen(load_registry(d), LAMBDA d1 :
    IF bundle # "none"
    THEN IF needs_sync(d1)
         THEN PlacePlugin(d1, "b", bundle, [kind |-> "Bundled", version |-> bundle])
         ELSE {FsDone(d1)}
    ELSE IF d1.reg["b"].kind = "Bundled"
         THEN FsThen(remove_dir_all(d1, "b"), LAMBDA d2 :
                store_registry(d2, [d2.reg EXCEPT !["b"] = NoRecord]))
         ELSE {FsDone(d1)})

KindOf(d, name) == IF d.reg[name] = NoRecord THEN "External" ELSE d.reg[name].kind

\* Every directory with a manifest is loaded, recorded or not.
Discovered(d) ==
  {[id |-> plugin_id(n, KindOf(d, n)), kind |-> KindOf(d, n), version |-> d.dir[n]] :
     n \in {x \in PluginNames : ManifestLoads(d.dir[x])}}
LoadFailures(d) == {n \in PluginNames : d.dir[n] = "broken"}

\* Records whose directory or manifest is gone are dropped.
discover_installed_plugins(d) ==
  FsThen(load_registry(d), LAMBDA d1 :
    LET stale == {n \in PluginNames : d1.reg[n] # NoRecord /\ ~HasManifest(d1.dir[n])}
    IN  IF stale = {} THEN {FsDone(d1)}
        ELSE store_registry(d1, [n \in PluginNames |-> IF n \in stale THEN NoRecord ELSE d1.reg[n]]))

\* A directory of the configuration holds "e" too; it counts when "e" is not installed.
Plugins(d) ==
  Discovered(d) \cup
    (IF \E p \in Discovered(d) : p.id = "e@external" THEN {}
     ELSE {[id |-> "e@external", kind |-> "External", version |-> "v1"]})

plugin_registry(d) == FsThen(sync_bundled_plugins(d), LAMBDA d1 : discover_installed_plugins(d1))

is_enabled(p) ==
  IF plugin_memory[p.id] # "unset" THEN plugin_memory[p.id] = "on" ELSE p.kind = "Bundled"

-----------------------------------------------------------------------------
(* Operations *)

NoRuntime == [state |-> "none", started |-> <<>>, stopped |-> <<>>, plugins |-> {}]

PlugInit ==
  /\ plugin_ops = 0
  /\ plugin_disk = [dir |-> [n \in PluginNames |-> "none"],
             copy |-> [n \in PluginNames |-> "whole"],
             reg |-> [n \in PluginNames |-> NoRecord], file |-> "ok"]
  /\ bundle = "v1"
  /\ plugin_origin = "v1"
  /\ plugin_settings = [i \in PluginIds |-> "unset"]
  /\ settings_file = "ok"
  /\ plugin_memory = plugin_settings
  /\ plugin_run = NoRuntime
  /\ plugin_acked = plugin_settings
  /\ plugin_lost = {}
  /\ plugin_removed = {}

KeepFlags == UNCHANGED flagVars

FlagWritten(id, value) ==
  /\ settings_file = "ok"
  /\ plugin_settings' = [plugin_settings EXCEPT ![id] = value]
  /\ plugin_memory' = [plugin_memory EXCEPT ![id] = value]
  /\ plugin_acked' = [plugin_acked EXCEPT ![id] = value]
  /\ plugin_lost' = plugin_lost \ {id}
  /\ settings_file' = settings_file

\* The settings file is written in place: a write that fails after the file was
\* truncated leaves it empty or with the start of its text, without any entry.
FlagsDestroyed ==
  /\ settings_file = "ok"
  /\ plugin_settings' = [i \in PluginIds |-> "unset"]
  /\ settings_file' \in {"ok", "torn"}
  /\ plugin_lost' = {i \in PluginIds : plugin_acked[i] # "unset"}
  /\ UNCHANGED <<plugin_memory, plugin_acked>>

\* Mutant: the flag is set in memory before the settings file is written.
write_enabled_state_early(id, value) ==
  \/ FlagWritten(id, value)
  \/ /\ plugin_memory' = [plugin_memory EXCEPT ![id] = value]
     /\ UNCHANGED <<plugin_settings, settings_file, plugin_acked, plugin_lost>>

\* write_enabled_state, then the manager's own copy. A file that does not parse
\* refuses every change.
write_enabled_state(id, value) == FlagWritten(id, value) \/ KeepFlags \/ FlagsDestroyed

install ==
  /\ plugin_removed' = plugin_removed \ {"e@external"}
  /\ IF ~ManifestLoads(plugin_origin)
     THEN plugin_disk' = plugin_disk /\ KeepFlags
     ELSE \E r \in PlacePlugin(plugin_disk, "e", plugin_origin, [kind |-> "External", version |-> plugin_origin]) :
            /\ plugin_disk' = r.disk
            /\ IF r.ok THEN write_enabled_state("e@external", "on") ELSE KeepFlags
  /\ UNCHANGED <<bundle, plugin_origin, plugin_run>>

\* enable and disable: one plugin that does not load refuses every other.
SetEnabled(id, value) ==
  /\ \E r \in plugin_registry(plugin_disk) :
       /\ plugin_disk' = r.disk
       /\ IF r.ok /\ LoadFailures(r.disk) = {} /\ \E p \in Plugins(r.disk) : p.id = id
          THEN write_enabled_state(id, value)
          ELSE KeepFlags
  /\ UNCHANGED <<bundle, plugin_origin, plugin_run, plugin_removed>>

uninstall(id) ==
  LET name == NameOf(id)
      known == plugin_disk.reg[name] # NoRecord /\ plugin_id(name, plugin_disk.reg[name].kind) = id
  IN  /\ IF plugin_disk.file = "torn" \/ ~known \/ plugin_disk.reg[name].kind = "Bundled"
         THEN plugin_disk' = plugin_disk /\ KeepFlags /\ plugin_removed' = plugin_removed
         ELSE \E r \in FsThen(remove_dir_all(plugin_disk, name), LAMBDA d1 :
                         store_registry(d1, [d1.reg EXCEPT ![name] = NoRecord])) :
                /\ plugin_disk' = r.disk
                /\ IF r.ok
                   THEN write_enabled_state(id, "unset") /\ plugin_removed' = plugin_removed \cup {id}
                   ELSE KeepFlags /\ plugin_removed' = plugin_removed
      /\ UNCHANGED <<bundle, plugin_origin, plugin_run>>

\* The recorded source is read again; the flag stays as it is. The registry
\* it stores is the one it read at the start.
update ==
  /\ plugin_disk.file = "ok" /\ plugin_disk.reg["e"] # NoRecord /\ ManifestLoads(plugin_origin)
  /\ \E r \in PlacePlugin(plugin_disk, "e", plugin_origin, [kind |-> "External", version |-> plugin_origin]) : plugin_disk' = r.disk
  /\ UNCHANGED <<bundle, plugin_origin, flagVars, plugin_run, plugin_removed>>

\* list_plugins
list_plugins ==
  /\ \E r \in plugin_registry(plugin_disk) : plugin_disk' = r.disk
  /\ UNCHANGED <<bundle, plugin_origin, flagVars, plugin_run, plugin_removed>>

\* build_runtime: the registry, its tools, then init of every enabled plugin
\* in the order of the ids until one fails. A failed start drops the registry
\* without a shutdown.
ToolsClash(ps) ==
  \E p, q \in ps : p # q /\ ToolOf(NameOf(p.id), p.version) = ToolOf(NameOf(q.id), q.version)
InOrder(ids) ==
  LET If(i) == IF i \in ids THEN <<i>> ELSE <<>>
  IN  If("b@bundled") \o If("b@external") \o If("e@external")

\* The commands of the plugins in turn, until one of them fails.
run_lifecycle_commands(order) == {SubSeq(order, 1, n) : n \in 0..Len(order)}
initialize_plugins(order) == run_lifecycle_commands(order)

shutdown_plugins(order) == run_lifecycle_commands(Reverse(order))

BuildRuntime ==
  /\ plugin_run.state # "live" /\ settings_file = "ok"
  /\ \E r \in plugin_registry(plugin_disk) :
       /\ plugin_disk' = r.disk
       /\ LET on == {p \in Plugins(r.disk) : is_enabled(p)}
              order == InOrder({p.id : p \in on})
          IN  IF ~r.ok \/ LoadFailures(r.disk) # {} \/ ToolsClash(on)
              THEN plugin_run' = NoRuntime
              ELSE \E done \in initialize_plugins(order) :
                     plugin_run' = [state |-> IF done = order THEN "live" ELSE "failed",
                                    started |-> done, stopped |-> <<>>, plugins |-> on]
  /\ UNCHANGED <<bundle, plugin_origin, flagVars, plugin_removed>>

\* Drop: the plugins of the registry it was built with, last one first, until
\* one fails.
DropRuntime ==
  /\ plugin_run.state = "live"
  /\ LET order == InOrder({p.id : p \in plugin_run.plugins})
     IN  \E done \in shutdown_plugins(order) :
           plugin_run' = [plugin_run EXCEPT !.state = "gone", !.stopped = done]
  /\ UNCHANGED <<plugin_disk, bundle, plugin_origin, flagVars, plugin_removed>>

\* The next process reads the settings file; with one that does not parse it does
\* not come up. The flags that were lost stay lost.
PluginRestart ==
  /\ settings_file = "ok"
  /\ plugin_memory' = plugin_settings
  /\ plugin_run' = NoRuntime
  /\ plugin_acked' = [i \in PluginIds |-> IF i \in plugin_lost THEN plugin_settings[i] ELSE plugin_acked[i]]
  /\ plugin_lost' = {}
  /\ UNCHANGED <<plugin_disk, bundle, plugin_origin, plugin_settings, settings_file, plugin_removed>>

\* What happens outside: a new release of the program, an edited source, a
\* damaged copy, a registry or settings file the user deletes.
ReleaseProgram ==
  /\ bundle' = CASE bundle = "v1" -> "v2" [] OTHER -> "none"
  /\ UNCHANGED <<plugin_disk, plugin_origin, flagVars, plugin_run, plugin_removed>>
EditSource(c) ==
  /\ plugin_origin' = c
  /\ UNCHANGED <<plugin_disk, bundle, flagVars, plugin_run, plugin_removed>>
DamageCopy(name, c) ==
  /\ ManifestLoads(plugin_disk.dir[name])
  /\ plugin_disk' = Holding(plugin_disk, name, c, "whole")
  /\ UNCHANGED <<bundle, plugin_origin, flagVars, plugin_run, plugin_removed>>
DeleteRegistry ==
  /\ plugin_disk.file = "torn"
  /\ plugin_disk' = [plugin_disk EXCEPT !.file = "ok", !.reg = [n \in PluginNames |-> NoRecord]]
  /\ UNCHANGED <<bundle, plugin_origin, flagVars, plugin_run, plugin_removed>>

DeleteSettings ==
  /\ settings_file = "torn" /\ settings_file' = "ok"
  /\ UNCHANGED <<plugin_disk, bundle, plugin_origin, plugin_settings, plugin_memory, plugin_run,
                 plugin_acked, plugin_lost, plugin_removed>>

PlugStep ==
  \/ install \/ update \/ list_plugins \/ BuildRuntime \/ DropRuntime \/ PluginRestart
  \/ \E i \in PluginIds : SetEnabled(i, "on") \/ SetEnabled(i, "off") \/ uninstall(i)
  \/ ReleaseProgram \/ DeleteRegistry \/ DeleteSettings
  \/ \E c \in {"v1", "v2", "broken"} : EditSource(c)
  \/ \E n \in PluginNames, c \in {"none", "broken"} : DamageCopy(n, c)

PlugNext ==
  /\ plugin_ops < MaxPluginOps
  /\ plugin_ops' = plugin_ops + 1
  /\ PlugStep

-----------------------------------------------------------------------------
(* Properties *)

\* The flag that enable, disable, install or uninstall set when it returned Ok is
\* the manager's until another operation sets it, and the settings file's and so
\* that of the next process too, whatever operations fail in between, with one
\* exception: a write of the settings that fails after truncating the file takes
\* the flags of all plugins with it, and the manager alone still has them.
AcknowledgedFlagsLast ==
  \A i \in PluginIds :
    /\ plugin_memory[i] = plugin_acked[i]
    /\ i \notin plugin_lost => plugin_settings[i] = plugin_acked[i]

\* An uninstalled plugin does not come back: no directory it left behind is
\* discovered, through any failures, restarts or damaged registries.
RemovedStaysRemoved ==
  \A p \in Discovered(plugin_disk) : p.id \notin plugin_removed

\* A registry read without an error holds the shipped plugin in the shipped
\* version, and none once it is not shipped any more, however the earlier
\* attempts at it ended. Its files are all there, unless the copy that failed was
\* to renew a plugin already recorded in this version: that half copy counts as
\* current and stays. One of a first copy or of an update is always replaced.
BundledIsCurrent ==
  \A r \in plugin_registry(plugin_disk) :
    r.ok => IF bundle = "none" THEN \A p \in Discovered(r.disk) : p.kind # "Bundled"
               ELSE /\ \E p \in Discovered(r.disk) : p.id = "b@bundled" /\ p.version = bundle
                    /\ r.disk.copy["b"] # "half"

\* Plugins are stopped by the runtime that started them and in the opposite
\* order, although plugins are enabled, disabled, updated and removed meanwhile.
StopsMirrorStarts ==
  /\ IsPrefix(plugin_run.stopped, Reverse(plugin_run.started))
  /\ plugin_run.state = "live" => Len(plugin_run.started) = Cardinality(plugin_run.plugins)

\* No two plugins of a running runtime offer the same tool.
OneOwnerPerTool ==
  plugin_run.state = "live" =>
    \A p, q \in plugin_run.plugins :
      ToolOf(NameOf(p.id), p.version) = ToolOf(NameOf(q.id), q.version) => p.id = q.id

\* Plugins follow what the user was told: an acknowledged flag lasts while no failed
\* write destroys the settings, a removed plugin stays away, bundled plugins are the
\* bundled ones, shutdown mirrors initialisation, and a tool has one owner.
PluginManagerSound ==
  /\ AcknowledgedFlagsLast
  /\ RemovedStaysRemoved
  /\ BundledIsCurrent
  /\ StopsMirrorStarts
  /\ OneOwnerPerTool

-----------------------------------------------------------------------------
(***************************************************************************)
(* What a plugin manifest must satisfy to be loaded, and what is checked of *)
(* it again when the plugin is used (plugins/src/lib.rs). The manifest is   *)
(* grown one entry at a time; each definition is the verdict of the code on *)
(* the manifest as it stands.                                               *)
(***************************************************************************)

CONSTANT MaxManifestEntries   \* bound on the entries of a manifest

VARIABLE manifest

manifestVars == <<manifest>>

\* A command: blank, the name of a program, or a path to a file, to a
\* directory or to nothing. A path below the root is relative or, once it is
\* resolved, absolute.
EntryShapes == {"", "program", "./file", "./directory", "./missing", "../file"}
is_literal_command(entry) == entry \in {"", "program"}

\* Mutant: everything is joined to the root.
resolve_hook_entry_all(entry) ==
  CASE entry \in {"./file", "../file"} -> "/root/file"
    [] entry = "./directory" -> "/root/directory"
    [] OTHER -> "/root/missing"

resolve_hook_entry(entry) ==
  IF is_literal_command(entry) THEN entry
  ELSE CASE entry \in {"./file", "../file"} -> "/root/file"
         [] entry = "./directory" -> "/root/directory"
         [] OTHER -> "/root/missing"

PathExists(entry) == entry \notin {"./missing", "/root/missing"}
PathIsFile(entry) == entry \in {"./file", "../file", "/root/file"}

\* An entry of each list; trim maps " n" to "n".
trim(name) == IF name = " n" THEN "n" ELSE name
ManifestEntries ==
  [list : {"field"}, name : {"name", "version", "description"}]
    \cup [list : {"permission"}, name : {"", "n", " n", "bad"}]
    \cup [list : {"hook", "lifecycle"}, name : EntryShapes]
    \cup [list : {"tool"}, name : {"", "n", " n"}, described : BOOLEAN, command : {"", "./file", "./missing"},
          schema : BOOLEAN, permission : {"read-only", "bad"}]
    \cup [list : {"command"}, name : {"", "n", " n"}, described : BOOLEAN, command : {"", "./file", "./directory"}]
    \cup [list : {"foreign"}, name : {"skills", "mcpServers", "agents", "command globs", "hook name"}]

ManifestInit == manifest = <<>>
AddEntry(e) ==
  /\ Len(manifest) < MaxManifestEntries
  /\ manifest' = Append(manifest, e)
ManifestNext == \E e \in ManifestEntries : AddEntry(e)

-----------------------------------------------------------------------------
(* The checks of loading: errors carry the place of the entry they are about *)

Err(at, what) == [at |-> at, what |-> what]
Listed(m, list) == {i \in DOMAIN m : m[i].list = list}

\* A field entry stands for a required field left blank.
validate_required_manifest_field(m) == {Err(i, "EmptyField") : i \in Listed(m, "field")}

validate_command_entry(at, entry) ==
  IF entry = "" THEN {Err(at, "EmptyEntryField")}
  ELSE IF is_literal_command(entry) THEN {}
  ELSE IF ~PathExists(entry) THEN {Err(at, "MissingPath")}
  ELSE IF ~PathIsFile(entry) THEN {Err(at, "PathIsDirectory")}
  ELSE {}

validate_command_entries(m) ==
  UNION {validate_command_entry(i, m[i].name) : i \in Listed(m, "hook") \cup Listed(m, "lifecycle")}

\* A name that came before in its list, a blank one excepted.
SeenBefore(m, list, i) ==
  \E j \in Listed(m, list) : j < i /\ trim(m[j].name) = trim(m[i].name)

build_manifest_permissions(m) ==
  UNION {LET p == trim(m[i].name)
         IN  IF p = "" THEN {Err(i, "EmptyEntryField")}
             ELSE IF SeenBefore(m, "permission", i) THEN {Err(i, "DuplicatePermission")}
             ELSE IF p = "bad" THEN {Err(i, "InvalidPermission")}
             ELSE {} : i \in Listed(m, "permission")}

CommonErrors(at, e) ==
  (IF e.described THEN {} ELSE {Err(at, "EmptyEntryField description")})
    \cup (IF e.command = "" THEN {Err(at, "EmptyEntryField command")}
          ELSE validate_command_entry(at, e.command))

build_manifest_tools(m) ==
  UNION {IF m[i].name = "" THEN {Err(i, "EmptyEntryField")}
         ELSE IF SeenBefore(m, "tool", i) THEN {Err(i, "DuplicateEntry")}
         ELSE CommonErrors(i, m[i])
                \cup (IF m[i].schema THEN {} ELSE {Err(i, "InvalidToolInputSchema")})
                \cup (IF m[i].permission = "bad" THEN {Err(i, "InvalidToolRequiredPermission")} ELSE {}) :
         i \in Listed(m, "tool")}

build_manifest_commands(m) ==
  UNION {IF m[i].name = "" THEN {Err(i, "EmptyEntryField")}
         ELSE IF SeenBefore(m, "command", i) THEN {Err(i, "DuplicateEntry")}
         ELSE CommonErrors(i, m[i]) : i \in Listed(m, "command")}

detect_claude_code_manifest_contract_gaps(m) ==
  {Err(i, "UnsupportedManifestContract") : i \in Listed(m, "foreign")}

build_plugin_manifest(m) ==
  validate_required_manifest_field(m) \cup build_manifest_permissions(m) \cup validate_command_entries(m)
    \cup build_manifest_tools(m) \cup build_manifest_commands(m)

\* The contract of the other program is refused before anything else is read.
load_manifest_from_path(m) ==
  LET gaps == detect_claude_code_manifest_contract_gaps(m)
  IN  IF gaps # {} THEN gaps ELSE build_plugin_manifest(m)

-----------------------------------------------------------------------------
(* The checks of use *)

validate_command_path(entry) ==
  is_literal_command(entry) \/ (PathExists(entry) /\ PathIsFile(entry))

\* The entries of a loaded plugin, resolved against its root.
ResolvedHooks(m) == {resolve_hook_entry(m[i].name) : i \in Listed(m, "hook")}
ResolvedLifecycle(m) == {resolve_hook_entry(m[i].name) : i \in Listed(m, "lifecycle")}
ResolvedTools(m) == {resolve_hook_entry(m[i].command) : i \in Listed(m, "tool")}

\* RegisteredPlugin::validate, before hooks, tools or lifecycle commands are used
validate(m) ==
  /\ \A h \in ResolvedHooks(m) : validate_command_path(h)
  /\ \A c \in ResolvedLifecycle(m) : validate_command_path(c)
  /\ \A t \in ResolvedTools(m) : validate_command_path(t)

-----------------------------------------------------------------------------
(* Properties *)

\* What was loaded passes the checks made before it is used: as long as the
\* directory stays as it is, no plugin is listed that cannot be started.
LoadedPluginsValidate ==
  load_manifest_from_path(manifest) = {} => validate(manifest)

\* The names of a list are told apart when they are used, so a list that is
\* accepted holds each of them once, blanks around a name aside.
AcceptedNamesDiffer ==
  load_manifest_from_path(manifest) = {} =>
    \A i, j \in DOMAIN manifest :
      i # j /\ manifest[i].list = manifest[j].list /\ manifest[i].list \in {"permission", "tool", "command"}
        => trim(manifest[i].name) # trim(manifest[j].name)

\* One report is enough: a manifest without the entries that were reported is
\* accepted, none of its other entries depends on one of those.
Without(m, places) == LET kept == SetToSortSeq((DOMAIN m) \ places, <)
                      IN  [k \in DOMAIN kept |-> m[kept[k]]]
OneReportIsEnough ==
  LET errors == build_plugin_manifest(manifest)
  IN  Listed(manifest, "foreign") = {} =>
        load_manifest_from_path(Without(manifest, {e.at : e \in errors})) = {}

\* A plugin that loads validates, an accepted manifest names nothing twice, and
\* one report names every mistake of a refused one.
PluginManifestsSound ==
  /\ LoadedPluginsValidate
  /\ AcceptedNamesDiffer
  /\ OneReportIsEnough
=============================================================================
