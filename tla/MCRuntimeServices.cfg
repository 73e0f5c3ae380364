\* One instance of each component.
SPECIFICATION PartSpec
CONSTANTS
  MaxTurns = 3
  MaxBatch = 2
  MaxIterations = 2
  Preserve = 2
  AgentIds = {g1, g2}
  CronIds = {c1}
  AgentErrors = {{"mcp", "transport"}, {"mcp", "background"}, {"test"}}
  AgentResults = {{}, {"text", "long"}, {"text", "recovery", "long"}}
  MaxIoFaults = 1
  WorkerIds = {w1}
  WorkerPrompts = {p, q}
  NoPrompt = NoPrompt
  MaxDeliveries = 2
  MaxCues = 2
  MaxRecoveryEvents = 4
  MaxCommits = 2
  PathNames = {"p", "q"}
  MaxIntents = 2
  MaxRules = 3
  MaxPriority = 10
INVARIANTS
  WorkerBootChecked
  RecoveryRecipesChecked
  BranchesSound
PROPERTIES
  ConversationSound
  AgentJobsSound
  MergePolicyChecked
  ServicesMakeProgress
CHECK_DEADLOCK FALSE
