\* One instance of each component.
SPECIFICATION PartSpec
CONSTANTS
  Sids = {a}
  Users = {u}
  NoUser = NoUser
  Steps = {0, 1}
  MaxOps = 5
  MaxTokens = 3
  MaxCliSessions = 2
  MaxCliTurns = 2
  BatchMessages = {"m1", "m2"}
  MaxCommands = 3
  MaxMillis = 1
  Callers = {c1, c2}
  MaxFileSteps = 3
  MaxWords = 3
  CalledTools = {"bash", "plugin_tool"}
  RuledTools = {"bash"}
  MaxHooks = 2
  Workers = {c1, c2}
  MaxDocSteps = 3
  MaxWorkspaceChanges = 2
  Installers = {c1, c2}
  MaxSkillEdits = 2
  TaskIds = {ta, tb}
  TeamIds = {m1, m2}
  NoTeam = NoTeam
  MaxTaskMessages = 1
  Tokens = {tok}
  Scopes = {sc1, sc2}
  Actors = {ann, bob}
  MaxNow = 2
  MaxUses = 2
  MaxLaneEvents = 3
  MaxLaneDeliveries = 3
SYMMETRY Alike
INVARIANTS
  SessionBackendsChecked
  CommandLineChecked
  CliSessionsChecked
  FileToolsChecked
  BashValidationChecked
  ToolCallsChecked
  WorkspaceDocumentsChecked
  SkillRootsChecked
  TaskRegistriesChecked
  LaneEventsChecked
PROPERTIES
  ResumeBatchSound
  ApprovalTokensSound
CHECK_DEADLOCK FALSE
