SPECIFICATION Spec
CONSTANTS
  m1 = m1  m2 = m2  m3 = m3  r1 = r1  r2 = r2  r3 = r3
  Poller = Poller
  Coalesced = Coalesced
  Messages = {m1, m2, m3}
  RunIds = {r1, r2, r3}
  Retries = {q1}
  Backend = "harness"
  Budget = 3
  MaxDepth = 1
  HasCooldown = TRUE
  LongOutages = FALSE
  MaxDays = 1
  MaxRestarts = 0
SYMMETRY Symmetry
INVARIANT NotForgotten
