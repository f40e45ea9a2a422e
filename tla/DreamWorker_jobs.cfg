SPECIFICATION FairSpec
CONSTANTS
  o1 = o1  a1 = a1  Worker = Worker
  NoJob = 0
  Owners = {o1}
  JobIds = {1, 2}
  JobTypes = {"reflection", "core_rewrite"}
  Admins = {a1}
  MaxParallel = 2
  DreamMaxConcurrent = 1
  DreamDailyJobLimit = 1
  TokenLimits = TRUE
  MaxDays = 1
  MaxRestarts = 1
INVARIANT OneRewrite
INVARIANT UsageAccounted
PROPERTY JobLifecycle
PROPERTY DispatchedSettles
CHECK_DEADLOCK FALSE
