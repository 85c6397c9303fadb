CONSTANTS
  Clients = {"a", "b"}
  Kinds <- AllKinds
  SmoothLines = 2
  RoughLines = 1
  Interruptible <- Both
SPECIFICATION FairSpec
INVARIANTS
  EchoAnswersLine
  ServerLeavesOnExit
  TalkInv
PROPERTIES
  ConversationGoesOn
  ServerFollows
