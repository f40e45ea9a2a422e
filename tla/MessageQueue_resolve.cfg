SPECIFICATION FairSpec
CONSTANTS
  a1 = a1  a2 = a2  s1 = s1  s2 = s2  s3 = s3
  NoAgent = NoAgent
  Agents = {a1}
  Sessions = {}
  Handlers = {h1}
  AgentOf <- MCAgentOf
  Messages <- TwoMessages
  Priorities = {1}
  Limits = {1}
  BatchSize = 1
  MaxRestarts = 1
PROPERTY ClaimsResolve
CHECK_DEADLOCK FALSE
