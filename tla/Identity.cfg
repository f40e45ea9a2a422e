SPECIFICATION IdentitySpec
CONSTANTS
  c1 = c1  c2 = c2
  Requests = {c1, c2}
  IPs = {i1}
  Names = {n1}
  Passwords = {"p"}
  Externals = {x1}
  ExternalName <- MCExternalName
  ExternalEmail <- MCExternalEmail
  NoEmail = "none"
  AllowedDomain = {x1}
  maxLoginFailures = 2
  MaxUsers = 2
  MaxSessions = 2
  MaxUnasked = 1
  TokenRequests = {c1, c2}
  OAuthClients = {k1, k2}
  OAuthUsers = {u1}
  NoUser = nobody
  MaxCodes = 1
  MaxTokens = 4
  AgentCalls = {c1, c2}
  Owners = {1}
  AgentNames = {"u", "uh"}
  HumanName <- MCHumanName
  HumanAltName <- MCHumanAltName
  Letters = {l1}
  MaxKey = 2
  KeyAgents = {"u"}
  ChAgents = {"h", "a"}
  ChHuman = "h"
  ChOwned = {"h"}
  ChNames = {"my"}
  MyAgents = "my"
  ChCalls = {c1, c2}
  MaxPosts = 2
INVARIANT AccountsHold
INVARIANT OAuthHolds
INVARIANT AgentsHold
INVARIANT ChannelsHold
PROPERTY TakenBackForGood
SYMMETRY Symmetry
CHECK_DEADLOCK FALSE
