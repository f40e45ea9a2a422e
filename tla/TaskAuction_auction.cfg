SPECIFICATION Spec
CONSTANTS
  t1 = t1  t2 = t2  p = p  a = a  b = b  d1 = d1
  b1 = b1  b2 = b2  w1 = w1  f1 = f1
  None = None
  Tasks = {t1, t2}
  Agents = {p, a, b}
  Members = {p, a, b}
  Domains = {d1}
  BidCalls = {b1, b2}
  AwardCalls = {w1}
  DoneCalls = {f1}
  Marketplace = {w1, f1}
  BatchSize = 1
  MaxRestarts = 1
SYMMETRY Symmetry
INVARIANT AssigneeHasBid
INVARIANT AwardConsistent
INVARIANT ReputationEarned
CHECK_DEADLOCK FALSE
