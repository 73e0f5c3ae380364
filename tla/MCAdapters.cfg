\* One instance of each component.
SPECIFICATION PartSpec
CONSTANTS
  MaxMessages = 3
  MaxFaults = 3
  ROTATE_AFTER = 2
  MAX_ROTATED_FILES = 1
  MaxEdits = 2
  MaxSettingsOps = 3
  MaxPluginOps = 4
  MaxManifestEntries = 2
  MaxToolChanges = 2
  McpServers = {"s1", "s2"}
  RawTools = {"t"}
  Colliding = {"t"}
  MaxMcpOps = 2
  MaxMcpFaults = 2
  MaxRetries = 1
  InitialBackoff = 1
  MaxBackoff = 128
  ShiftWidth = 32
  CacheProcesses = {c1, c2}
  CompletionTtl = 2
  PromptTtl = 2
  BreakMinDrop = 1
  MaxTime = 4
  MaxCacheCalls = 2
  MaxFrames = 2
  MaxWire = 4
  MaxRequests = 2
  SinkSlots = 1
  MaxPaste = 1
  MaxHistory = 3
  KeepRecent = 1
  MaxTalk = 5
  MaxCompactions = 3
  MaxPromptEdits = 2
  MaxShellCalls = 2
  PipeSize = 1
  OutputLimit = 1
INVARIANTS
  SessionFileChecked
  PluginManagerChecked
  McpManagerChecked
  ProviderCallsChecked
  PromptCacheChecked
  OpenAiStreamChecked
  TurnStreamChecked
  WireMessagesChecked
  PromptTextsChecked
  SlashCommandsChecked
  ShellCommandsChecked
  PluginToolsSound
PROPERTIES
  SettingsFilesSound
CHECK_DEADLOCK FALSE
