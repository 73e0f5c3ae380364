---------------------------- MODULE ToolRegistry ----------------------------
(***************************************************************************)
(* Which tools the command line's agent has, under which names, and who    *)
(* runs them: GlobalToolRegistry of tools/src/lib.rs and the               *)
(* CliToolExecutor of rusty-claude-cli/src/main.rs.  Built-in tools, tools *)
(* of MCP servers and tools of plugins share one space of names.  The      *)
(* registry is built twice: for the names of --allowedTools while the      *)
(* arguments are parsed, and again for the runtime; servers and plugins    *)
(* may change in between.                                                  *)
(*                                                                         *)
(* Names are strings; what the code computes from their letters is in the  *)
(* tables below.                                                           *)
(***************************************************************************)
EXTENDS Naturals, Sequences, FiniteSets, SequencesExt, FiniteSetsExt

CONSTANT MaxToolChanges     \* bound: changes of servers and plugins

VARIABLES
    offered,    \* what plugins and servers offer now: [plugin, mcp, servers]
    toolPhase,  \* "args", "parsed", "running" or "refused"
    allowed,    \* --allowedTools: <<>> or <<the set of names>>
    asked_tools,      \* ghost: the words given to --allowedTools
    tools,      \* the registry of the runtime: [plugin, runtime]
    proxyMode,  \* --proxy
    ran,        \* the last call: <<>> or <<[name, by]>>
    toolChanges

toolVars == <<offered, toolPhase, allowed, asked_tools, tools, proxyMode, ran, toolChanges>>

-----------------------------------------------------------------------------
(* Names.  "WebFetch" and "Web-Fetch", "read_file" and "Read-File" differ   *)
(* for the registry and not always for the user.                           *)

Core == {"bash", "read_file"}
Deferred == {"WebFetch", "ToolSearch"}
Wrappers == <<"MCPTool", "ListMcpResourcesTool", "ReadMcpResourceTool">>
PluginToolNames == {"read", "Read-File", "Web-Fetch", "WebFetch", "mcp__s__t"}
ToolNames == Core \cup Deferred \cup Range(Wrappers) \cup PluginToolNames

normalize_tool_name(n) ==
    CASE n = "Read-File" -> "read_file"   [] n = "Web-Fetch" -> "web_fetch"
      [] n = "WebFetch" -> "webfetch"     [] n = "ToolSearch" -> "toolsearch"
      [] n = "MCPTool" -> "mcptool"       [] OTHER -> n

canonical_tool_token(n) ==
    CASE n \in {"Read-File", "read_file"} -> "readfile"
      [] n \in {"Web-Fetch", "WebFetch", "web_fetch"} -> "webfetch"
      [] n \in {"MCPTool", "mcptool"} -> "mcp"
      [] n = "mcp__s__t" -> "mcpst"
      [] n = "ToolSearch" -> "toolsearch"
      [] OTHER -> n

\* The short names --allowedTools knows, put over the names of the tools.
Alias(word) == IF word = "read" THEN {"read_file"} ELSE {}

\* Search terms are lower-case; where they occur in a name or its description.
Terms == {"read", "webfetch", "web-fetch", "mcp__s__t", "fetch"}
LowerName(n) == CASE n = "WebFetch" -> "webfetch" [] n = "Web-Fetch" -> "web-fetch"
                  [] n = "Read-File" -> "read-file" [] OTHER -> n
InName(t, n) ==
    \/ t = LowerName(n)
    \/ t = "fetch" /\ n \in {"WebFetch", "Web-Fetch"}
    \/ t = "read" /\ n \in {"Read-File", "ReadMcpResourceTool"}
InText(t, n) == InName(t, n) \/ (t = "webfetch" /\ n = "Web-Fetch")
                \/ (t = "fetch" /\ n = "Read-File")
InCanonical(t, n) == InText(t, n) \/ (t = "web-fetch" /\ n \in {"WebFetch", "Web-Fetch"})

-----------------------------------------------------------------------------
(* Building the registry. *)

PluginTool(n, permission) == [name |-> n, permission |-> permission]
McpTool(n, hints) == [name |-> n, hints |-> hints]

\* Hints a server gives of its tool decide what mode it needs.
permission_mode_for_mcp_tool(tool) ==
    IF tool.hints \cap {"destructive", "openWorld"} # {} THEN "danger-full-access"
    ELSE IF "readOnly" \in tool.hints THEN "read-only" ELSE "workspace-write"

\* The tools of the servers, and the wrappers if there is a server at all.
RuntimeTools(o) ==
    IF ~o.servers THEN <<>>
    ELSE [i \in DOMAIN o.mcp |-> [name |-> o.mcp[i].name,
                                  permission |-> permission_mode_for_mcp_tool(o.mcp[i])]]
         \o [i \in DOMAIN Wrappers |->
                [name |-> Wrappers[i],
                 permission |-> IF Wrappers[i] = "MCPTool" THEN "danger-full-access" ELSE "read-only"]]

NamesIn(list) == {list[i].name : i \in DOMAIN list}
Distinct(list) == Cardinality(NamesIn(list)) = Len(list)

with_plugin_tools(list) == NamesIn(list) \cap (Core \cup Deferred) = {} /\ Distinct(list)

\* Mutant: the plugins' names are not among those seen.
with_runtime_tools_builtin(list, plugin) ==
    NamesIn(list) \cap (Core \cup Deferred) = {} /\ Distinct(list)

with_runtime_tools(list, plugin) ==
    NamesIn(list) \cap (Core \cup Deferred \cup NamesIn(plugin)) = {} /\ Distinct(list)

\* A registry as the only member, or none if names collide.
build_runtime_plugin_state(o) ==
    {r \in {[plugin |-> o.plugin, runtime |-> RuntimeTools(o)]} :
        with_plugin_tools(r.plugin) /\ with_runtime_tools(r.runtime, r.plugin)}

Registered(r) == Core \cup Deferred \cup NamesIn(r.runtime) \cup NamesIn(r.plugin)

\* Later tools take a normalised name over from earlier ones, built-in tools
\* come first and plugins before the servers' tools; aliases come last.
ResolveWord(r, word) ==
    LET w == normalize_tool_name(word)
        Like(names) == {n \in names : normalize_tool_name(n) = w}
    IN  IF Alias(w) # {} THEN Alias(w)
        ELSE IF Like(NamesIn(r.runtime)) # {} THEN Like(NamesIn(r.runtime))
        ELSE IF Like(NamesIn(r.plugin)) # {} THEN Like(NamesIn(r.plugin))
        ELSE Like(Core \cup Deferred)

\* normalize_allowed_tools: one unknown word, or only separators, refuse all.
normalize_allowed_tools(r, words) ==
    IF words = {} \/ \E w \in words : ResolveWord(r, w) = {} THEN {}
    ELSE {UNION {ResolveWord(r, w) : w \in words}}

Permitted(n) == allowed = <<>> \/ n \in allowed[1]

definitions(r) == {n \in Registered(r) : Permitted(n)}

\* A plugin's permission that is no mode refuses the start.
permission_mode_from_plugin(tool) == tool.permission # "bad"

-----------------------------------------------------------------------------
(* The behaviour. *)

ToolInit ==
    /\ offered = [plugin |-> <<>>, mcp |-> <<>>, servers |-> FALSE]
    /\ toolPhase = "args" /\ allowed = <<>> /\ asked_tools = {}
    /\ tools = [plugin |-> <<>>, runtime |-> <<>>]
    /\ proxyMode \in BOOLEAN
    /\ ran = <<>> /\ toolChanges = 0

OfferedLists ==
    [plugin : {<<>>, <<PluginTool("mcp__s__t", "read-only")>>, <<PluginTool("Web-Fetch", "read-only")>>,
               <<PluginTool("WebFetch", "read-only")>>, <<PluginTool("read", "bad")>>,
               <<PluginTool("read", "read-only"), PluginTool("Read-File", "workspace-write")>>},
     mcp : {<<>>, <<McpTool("mcp__s__t", {"readOnly"})>>,
            <<McpTool("mcp__s__t", {}), McpTool("mcp__s__t", {"destructive"})>>},
     servers : BOOLEAN]

\* A plugin is enabled or removed, a server comes up, goes or renames a tool.
ToolsChange ==
    /\ toolPhase \in {"args", "parsed"} /\ toolChanges < MaxToolChanges
    /\ \E o \in OfferedLists : (o.mcp # <<>> => o.servers) /\ offered' = o
    /\ toolChanges' = toolChanges + 1
    /\ UNCHANGED <<toolPhase, allowed, asked_tools, tools, proxyMode, ran>>

AllowedWords == {{}, {"read"}, {"read_file"}, {"WebFetch"}, {"Web-Fetch"}, {"mcp__s__t", "ToolSearch"},
                 {"nothing"}}

\* --allowedTools: the registry is built, its servers are shut down again.
current_tool_registry ==
    /\ toolPhase = "args"
    /\ \E words \in AllowedWords :
          LET found == UNION {normalize_allowed_tools(r, words) : r \in build_runtime_plugin_state(offered)}
          IN  /\ asked_tools' = words
              /\ IF found = {} THEN toolPhase' = "refused" /\ UNCHANGED allowed
                 ELSE toolPhase' = "parsed" /\ \E names \in found : allowed' = <<names>>
    /\ UNCHANGED <<offered, tools, proxyMode, ran, toolChanges>>

NoAllowedTools ==
    /\ toolPhase = "args"
    /\ toolPhase' = "parsed"
    /\ UNCHANGED <<offered, allowed, asked_tools, tools, proxyMode, ran, toolChanges>>

\* build_runtime: the registry again, and the permission each tool needs.
build_runtime ==
    /\ toolPhase = "parsed"
    /\ IF \E r \in build_runtime_plugin_state(offered) :
             \A i \in DOMAIN r.plugin : permission_mode_from_plugin(r.plugin[i])
       THEN /\ toolPhase' = "running"
            /\ \E r \in build_runtime_plugin_state(offered) : tools' = r
       ELSE toolPhase' = "refused" /\ UNCHANGED tools
    /\ UNCHANGED <<offered, allowed, asked_tools, proxyMode, ran, toolChanges>>

\* Who a call of the name goes to; "nobody" and "disabled" are errors.
Executor(n) ==
    IF ~Permitted(n) THEN "not enabled"
    ELSE IF proxyMode /\ n \in {"WebFetch"} \cup Range(Wrappers) THEN "disabled"
    ELSE IF proxyMode /\ n = "bash" THEN "user"
    ELSE IF n = "ToolSearch" THEN "builtin"
    ELSE IF n \in NamesIn(tools.runtime) THEN "mcp"
    ELSE IF n \in Core \cup Deferred THEN "builtin"
    ELSE IF n \in NamesIn(tools.plugin) THEN "plugin" ELSE "nobody"

execute(n) ==
    /\ toolPhase = "running"
    /\ ran' = <<[name |-> n, by |-> Executor(n)]>>
    /\ UNCHANGED <<offered, toolPhase, allowed, asked_tools, tools, proxyMode, toolChanges>>

ToolNext ==
    \/ ToolsChange \/ current_tool_registry \/ NoAllowedTools \/ build_runtime
    \/ \E n \in ToolNames : execute(n)

-----------------------------------------------------------------------------
(* ToolSearch. *)

deferred_tool_specs == Deferred
searchable_tool_specs == deferred_tool_specs \cup NamesIn(tools.runtime) \cup NamesIn(tools.plugin)

Score(t, n) ==
    (IF InText(t, n) THEN 2 ELSE 0) + (IF t = LowerName(n) THEN 8 ELSE 0)
    + (IF InName(t, n) THEN 4 ELSE 0)
    + (IF canonical_tool_token(n) = canonical_tool_token(IF t = "web-fetch" THEN "Web-Fetch" ELSE t)
       THEN 12 ELSE 0)
    + (IF InCanonical(t, n) THEN 3 ELSE 0)

\* The names by score, best first; what scores nothing is left out.
search_tool_specs(t) == {n \in searchable_tool_specs : Score(t, n) > 0}

\* "select:word": of the tools with the word's letters the first one, built-in
\* tools before those of servers and those before the plugins'.
SelectedTool(word) ==
    LET Like(names) == {n \in names : canonical_tool_token(n) = canonical_tool_token(word)}
    IN  IF Like(Deferred) # {} THEN Like(Deferred)
        ELSE IF Like(NamesIn(tools.runtime)) # {} THEN Like(NamesIn(tools.runtime))
        ELSE Like(NamesIn(tools.plugin))

-----------------------------------------------------------------------------
(* Properties. *)

\* Every tool the model is shown answers: it has one owner, a call of it goes
\* to that owner (or is disabled or handed to the user by --proxy), whatever
\* plugins and servers offer; a call that does not is of no shown tool.
ShownToolsAnswer ==
    toolPhase = "running" =>
        \A n \in ToolNames :
            LET owners == {o \in {<<"builtin", Core \cup Deferred>>, <<"mcp", NamesIn(tools.runtime)>>,
                                  <<"plugin", NamesIn(tools.plugin)>>} : n \in o[2]}
            IN  IF n \in definitions(tools)
                THEN /\ Cardinality(owners) = 1
                     /\ \A o \in owners : Executor(n) \in {o[1]} \cup (IF proxyMode THEN {"user", "disabled"}
                                                                       ELSE {})
                ELSE Executor(n) \in {"not enabled", "nobody", "disabled"}

\* --allowedTools allows what its words name: a tool with the word's letters
\* or the one its alias stands for, also after plugins and servers changed.
AllowedIsWhatWasAsked ==
    allowed # <<>> =>
        \A n \in allowed[1] : \E w \in asked_tools :
            normalize_tool_name(n) = normalize_tool_name(w) \/ n \in Alias(normalize_tool_name(w))

\* A word that is exactly a tool's name allows that tool, if no other tool's
\* name has the same letters and no alias lies over it.
ExactNamesAreAllowed ==
    \A r \in build_runtime_plugin_state(offered), n \in ToolNames :
        n \in Registered(r) /\ Alias(n) = {}
        /\ (\A m \in Registered(r) \ {n} : normalize_tool_name(m) # normalize_tool_name(n))
        => normalize_allowed_tools(r, {n}) = {{n}}

\* A search for the name of a tool finds that tool before all others, and so
\* does a selection if no other tool has its letters; a search names only
\* registered tools and none of the core ones.
SearchFindsTheName ==
    toolPhase = "running" =>
        \A t \in Terms :
            /\ search_tool_specs(t) \subseteq Registered(tools) \ Core
            /\ \A n \in searchable_tool_specs : LowerName(n) = t =>
                  \A m \in search_tool_specs(t) \ {n} : Score(t, m) < Score(t, n)
            /\ \A n \in searchable_tool_specs :
                  \/ SelectedTool(n) = {n}
                  \/ \E m \in SelectedTool(n) : m # n /\ canonical_tool_token(m) = canonical_tool_token(n)

\* The tool registry: shown tools answer through their one owner, the allowed
\* tools are those asked for, exact names are honoured, searches find them.
ToolRegistrySound == ShownToolsAnswer /\ AllowedIsWhatWasAsked /\ ExactNamesAreAllowed /\ SearchFindsTheName
=============================================================================
