SPECIFICATION StoreSpec
CONSTANTS
  c1 = c1  c2 = c2  m1 = m1  m2 = m2
  Speakers = {"h", "a"}
  Owned = {"h"}
  Human = "h"
  Rooms = {1}
  Topics = {"s"}
  Posts = {c1, c2}
  RoomMembers <- MCRoomMembers
  MaxMessages = 2
  MaxLast = 2
  MaxConversations = 2
  Humans = {"h"}
  Bots = {"b"}
  RxMessages = {1}
  RxAuthor <- MCRxAuthor
  RxCalls = {c1, c2}
  Verdicts = {"approve", "reject", "in_progress", "awarded"}
  MaxReactionsPerMessage = 2
  TopScore = 2
  MaxAdjustments = 2
  Hashes = {"h"}
  AttMessages = {m1, m2}
  Uploaders = {c1, c2}
  Cleaners = {"retention", "purge"}
  MaxAttachments = 3
  Writers = {c1, c2}
  BatchSize = 1
  Warned = 1
  Expired = 2
  MaxRtMessages = 2
  MaxRtConvs = 1
  Thinkers = {"a", "c"}
  ThinkerOwner <- MCThinkerOwner
  Sizes = {40}
  NamedIds = {0, 2}
  TriedSizes = {1, 4, 9, 40}
  TriedBudgets = {1, 2, 3, 4, 5, 6, 12, 15, 24, 25, 36}
  Overhead = 8
  BudgetTokens = 15
  MaxItems = 2
  CoreMaxBytes = 8
  CoreSizes = {8}
  MaxPool = 2
  MaxPackets = 1
INVARIANT ConversationsHold
INVARIANT ReactionsHold
 
INVARIANT InjectionHolds
PROPERTY ReadStaysRead
SYMMETRY Symmetry
CHECK_DEADLOCK FALSE
