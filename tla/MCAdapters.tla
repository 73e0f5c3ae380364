----------------------------- MODULE MCAdapters -----------------------------
(* What stands between the program and its surroundings: session and       *)
(* settings files, plugins, MCP servers, providers, prompts and shells.    *)
(* They share no state: a behaviour picks one component and lets it run    *)
(* while the others stay in their initial states.                          *)
EXTENDS SessionFile, SettingsFiles, Plugins, ToolRegistry, McpManager,
        ProviderCalls, PromptCache, OpenAiStream, TurnStream, WireMessages,
        CompactSummaries, SystemPrompts, SlashCommands, ShellCommands

VARIABLE part   \* the component that runs

Parts == {"SessionFile", "SettingsFiles", "PluginManager",
          "PluginManifests", "ToolRegistry", "McpManager", "ProviderCalls",
          "PromptCache", "OpenAiStream", "TurnStream", "WireMessages",
          "CompactSummaries", "SystemPrompts", "SlashCommands",
          "ShellCommands"}

partVars == <<part, vars, settingsVars, plugVars, manifestVars, toolVars,
              mcpVars, callVars, cacheVars, streamVars, turnVars,
              wireVars, talkVars, promptVars, slashVars,
              shellVars>>

\* A component that does not run has one of its initial states.
PartInit ==
  /\ part \in Parts
  /\ part # "ToolRegistry" => proxyMode = FALSE
  /\ part # "OpenAiStream" => sep = "lf"
  /\ part # "TurnStream" => setting = [reader |-> "cli", serial |-> TRUE, proxy |-> FALSE]
  /\ part # "ShellCommands" => /\ namespacesWork = TRUE /\ configLoads = TRUE
                                  /\ sandboxConfig = CHOOSE c \in SandboxConfigs : TRUE
  /\ Init /\ SettingsInit /\ PlugInit /\ ManifestInit /\ ToolInit /\ McpInit
  /\ ProviderInit /\ CacheInit /\ StreamInit /\ TurnInit /\ WireInit /\ TalkInit
  /\ PromptInit /\ SlashInit /\ ShellInit

PartNext ==
  \/ /\ part = "SessionFile" /\ Next
     /\ UNCHANGED <<part, settingsVars, plugVars, manifestVars, toolVars,
                    mcpVars, callVars, cacheVars,
                    streamVars, turnVars, wireVars,
                    talkVars, promptVars, slashVars,
                    shellVars>>
  \/ /\ part = "SettingsFiles" /\ SettingsNext
     /\ UNCHANGED <<part, vars, plugVars, manifestVars, toolVars, mcpVars,
                    callVars, cacheVars, streamVars,
                    turnVars, wireVars, talkVars,
                    promptVars, slashVars, shellVars>>
  \/ /\ part = "PluginManager" /\ PlugNext
     /\ UNCHANGED <<part, vars, settingsVars, manifestVars, toolVars,
                    mcpVars, callVars, cacheVars,
                    streamVars, turnVars, wireVars,
                    talkVars, promptVars, slashVars,
                    shellVars>>
  \/ /\ part = "PluginManifests" /\ ManifestNext
     /\ UNCHANGED <<part, vars, settingsVars, plugVars, toolVars, mcpVars,
                    callVars, cacheVars, streamVars,
                    turnVars, wireVars, talkVars,
                    promptVars, slashVars, shellVars>>
  \/ /\ part = "ToolRegistry" /\ ToolNext
     /\ UNCHANGED <<part, vars, settingsVars, plugVars, manifestVars,
                    mcpVars, callVars, cacheVars,
                    streamVars, turnVars, wireVars,
                    talkVars, promptVars, slashVars,
                    shellVars>>
  \/ /\ part = "McpManager" /\ McpNext
     /\ UNCHANGED <<part, vars, settingsVars, plugVars, manifestVars,
                    toolVars, callVars, cacheVars,
                    streamVars, turnVars, wireVars,
                    talkVars, promptVars, slashVars,
                    shellVars>>
  \/ /\ part = "ProviderCalls" /\ ProviderNext
     /\ UNCHANGED <<part, vars, settingsVars, plugVars, manifestVars,
                    toolVars, mcpVars, cacheVars,
                    streamVars, turnVars, wireVars,
                    talkVars, promptVars, slashVars,
                    shellVars>>
  \/ /\ part = "PromptCache" /\ CacheNext
     /\ UNCHANGED <<part, vars, settingsVars, plugVars, manifestVars,
                    toolVars, mcpVars, callVars,
                    streamVars, turnVars, wireVars,
                    talkVars, promptVars, slashVars,
                    shellVars>>
  \/ /\ part = "OpenAiStream" /\ StreamNext
     /\ UNCHANGED <<part, vars, settingsVars, plugVars, manifestVars,
                    toolVars, mcpVars, callVars, cacheVars,
                    turnVars, wireVars, talkVars,
                    promptVars, slashVars, shellVars>>
  \/ /\ part = "TurnStream" /\ TurnNext
     /\ UNCHANGED <<part, vars, settingsVars, plugVars, manifestVars,
                    toolVars, mcpVars, callVars, cacheVars,
                    streamVars, wireVars, talkVars,
                    promptVars, slashVars, shellVars>>
  \/ /\ part = "WireMessages" /\ WireNext
     /\ UNCHANGED <<part, vars, settingsVars, plugVars, manifestVars,
                    toolVars, mcpVars, callVars, cacheVars,
                    streamVars, turnVars, talkVars,
                    promptVars, slashVars, shellVars>>
  \/ /\ part = "CompactSummaries" /\ TalkNext
     /\ UNCHANGED <<part, vars, settingsVars, plugVars, manifestVars,
                    toolVars, mcpVars, callVars, cacheVars,
                    streamVars, turnVars, wireVars,
                    promptVars, slashVars, shellVars>>
  \/ /\ part = "SystemPrompts" /\ PromptNext
     /\ UNCHANGED <<part, vars, settingsVars, plugVars, manifestVars,
                    toolVars, mcpVars, callVars, cacheVars,
                    streamVars, turnVars, wireVars,
                    talkVars, slashVars, shellVars>>
  \/ /\ part = "SlashCommands" /\ SlashNext
     /\ UNCHANGED <<part, vars, settingsVars, plugVars, manifestVars,
                    toolVars, mcpVars, callVars, cacheVars,
                    streamVars, turnVars, wireVars,
                    talkVars, promptVars, shellVars>>
  \/ /\ part = "ShellCommands" /\ ShellNext
     /\ UNCHANGED <<part, vars, settingsVars, plugVars, manifestVars,
                    toolVars, mcpVars, callVars, cacheVars,
                    streamVars, turnVars, wireVars,
                    talkVars, promptVars, slashVars>>

PartSpec ==
  /\ PartInit /\ [][PartNext]_partVars

-----------------------------------------------------------------------------
(* What is checked of each component while it runs. *)

\* A session file replays to the session in memory except where a crash cut an
\* append, acknowledged messages are in it or in a rotated copy, and the copies
\* are bounded.
SessionFileChecked == part = "SessionFile" => SessionFileSound

\* Plugins follow what the user was told: an acknowledged flag lasts, a removed
\* plugin stays away, bundled plugins are the bundled ones, shutdown mirrors
\* initialisation, and a tool has one owner.
PluginManagerChecked == part = "PluginManager" => PluginManagerSound

\* The MCP manager keeps its servers in hand: no process escapes it, request
\* and answer stay in step on every pipe, tools are routed as the last listings
\* said, retries spawn a bounded number of processes, and a call is sent once.
McpManagerChecked == part = "McpManager" => McpManagerSound

\* The call asks no more than it may, returns one answer or the error that ended it, and
\* reaches the provider the name of the model means.
ProviderCallsChecked == part = "ProviderCalls" => ProviderCallsSound

\* The cache serves nothing stale and raises no false alarm of a cache break.
PromptCacheChecked == part = "PromptCache" => PromptCacheSound

\* The stream a reader sees is right whatever the cuts between its chunks.
OpenAiStreamChecked == part = "OpenAiStream" => OpenAiStreamSound

\* Of what a turn streams nothing is lost, shown twice or mistaken for something else.
TurnStreamChecked == part = "TurnStream" => TurnStreamSound

\* Requests to OpenAI-compatible providers: pairs are whole, the sanitizing
\* step is harmless, content is passed on.
WireMessagesChecked == part = "WireMessages" => WireMessagesSound

\* The texts the model is given say what they stand for.  Summaries: scopes and tools
\* add up over any number of compactions, told files stay told, the timeline is the
\* latest, what is not summarised is kept.  System prompts: nothing is cut silently,
\* complete when nothing interferes, sessions keep their segments, dates are right.
PromptTextsChecked ==
  /\ part = "CompactSummaries" => CompactSummariesSound
  /\ part = "SystemPrompts" => SystemPromptsSound

\* What the help lists can be typed, what is marked as fit for resuming runs
\* there and only there what also runs in the REPL, and a completion that is
\* offered runs.
SlashCommandsChecked == part = "SlashCommands" => SlashCommandsSound

\* The shell tools: whole output or an interruption, no command outlives its
\* call unnoticed, and the sandbox status tells how the command was started.
ShellCommandsChecked == part = "ShellCommands" => ShellCommandsSound

\* The tools plugins bring: what a manifest declares is checked before it loads,
\* and a tool that is shown can be called under the name that was allowed.
PluginToolsSound ==
  /\ part = "PluginManifests" => PluginManifestsSound
  /\ part = "ToolRegistry" => ToolRegistrySound
=============================================================================
