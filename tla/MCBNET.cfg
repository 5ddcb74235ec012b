SPECIFICATION FairSpec
CONSTANTS
  MaxNames = 2
  MaxQueued = 2
  MaxChat = 1
  MaxDrops = 1
  MaxReplies = 2
INVARIANTS
  TypeOK
  QueueIsCurrent
PROPERTIES
  BotComesBack
CHECK_DEADLOCK FALSE
