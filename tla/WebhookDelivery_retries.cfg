SPECIFICATION MCSpec
CONSTANTS
  m1 = m1  m2 = m2  w1 = w1  k1 = k1  k2 = k2  g1 = g1  o1 = o1
  None = None
  Messages = {m1, m2}
  Webhooks = {w1}
  Registered = {}
  Registrars = {g1}
  Owners = {o1}
  Workers = {k1, k2}
  QueueSize = 1
  RequeueLimit = 1
  maxAttempts = 2
  MaxWebhooksPerAgent = 1
  AutoDisableThreshold = 2
  MaxRestarts = 1
INVARIANT DeadLetterEarned
INVARIANT AutoDisabled
PROPERTY RetriesSettle
PROPERTY PendingSettles
CHECK_DEADLOCK FALSE
