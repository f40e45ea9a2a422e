SPECIFICATION WorkSpec
CONSTANTS
  c1 = c1  c2 = c2  w1 = w1  openai = openai  gemini = gemini
  Parts = {"goals", "secrets", "harness", "k8s", "embeddings"}
  Titles = {"t"}
  GoalUsers = {"u"}
  Workers = {c1, c2}
  GoalCalls = {c1, c2}
  Codes = {"x"}
  DefaultCode = "mcp"
  Unbilled = ""
  Trees <- MCTrees
  MaxSlug = 2
  MaxRows = 3
  MaxSpend = 1
  GoalMoves = {"completed"}
  TaskMoves = {"claimed", "awaiting_verification", "done"}
  Server = "server"
  Processes = {"server", "cli"}
  SecretNames = {"N"}
  MaxSecrets = 3
  HxCalls = {c1, c2}
  MaxHxRuns = 2
  KeepWorkdir = FALSE
  InCluster = TRUE
  Images = {TRUE, FALSE}
  Edits <- MCEdits
  KhAgents = {"p", "q"}
  OwnedBy <- MCOwnedBy
  KhImages = {"i", "j"}
  KhMessages = {1}
  KhCalls = {c1, c2}
  MaxHandlersPerAgent = 1
  MaxHandlers = 3
  EmMessages = {c1, c2}
  EmWorkers = {w1}
  Providers = {openai, gemini}
  EmBatch = 2
  RetryMaxAttempts = 2
  MaxStarts = 3
INVARIANT GoalsHold
INVARIANT SecretsHold
INVARIANT HarnessHolds
INVARIANT K8sHolds
 
PROPERTY OverForGood
SYMMETRY Symmetry
CHECK_DEADLOCK FALSE
