SPECIFICATION Spec
CONSTANTS
  Configs = {"none", "no_topic", "full"}
  realtime_chat_enabled = FALSE
  MaxKeys = 2
  MaxServerMsgs = 2
  MaxDrops = 1
INVARIANTS
  IInv
  MicFollowsState
  ListensAfterTelling
  
  AnswerIsToThisHello
PROPERTIES
  ConnectingEnds
  CloseLeadsToIdle
  LegalTransitions
\* The environment's moves are bounded: a behaviour may end with all quiet.
CHECK_DEADLOCK FALSE
