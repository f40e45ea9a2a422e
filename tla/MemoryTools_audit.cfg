SPECIFICATION Spec
CONSTANTS
  o1 = o1  o2 = o2  m1 = m1  m2 = m2  m3 = m3  r1 = r1  c1 = c1  c2 = c2
  Worker = Worker  NoMessage = NoMessage  Human = Human  NoBlob = NoBlob
  NoJob = 0
  Owners = {o1, o2}
  JobIds = {1}
  JobTypes = {"reflection"}
  Admins = {}
  MaxParallel = 1
  DreamMaxConcurrent = 1
  DreamDailyJobLimit = 0
  TokenLimits = FALSE
  MaxDays = 0
  MaxRestarts = 1
  Memories = {m1, m2, m3}
  Author <- MCAuthor
  Reflections = {r1}
  Calls = {c1, c2}
  RelTypes = {"refines"}
  Editors = {o1}
  MaxActions = 2
SYMMETRY Symmetry
INVARIANT AuditWithinOwner
INVARIANT WritesAudited
PROPERTY ExcludedStays
CHECK_DEADLOCK FALSE
