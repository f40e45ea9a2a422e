SPECIFICATION FairSpec
CONSTANTS
  m1 = m1  m2 = m2  m3 = m3  r1 = r1  r2 = r2  r3 = r3
  Poller = Poller
  Coalesced = Coalesced
  Messages = {m1, m2}
  RunIds = {r1, r2}
  Retries = {}
  Backend = "k8s"
  Budget = 2
  MaxDepth = 1
  HasCooldown = TRUE
  LongOutages = TRUE
  MaxDays = 0
  MaxRestarts = 1
INVARIANT RunningHasJob
PROPERTY OutcomeOnce
PROPERTY RunsComplete
