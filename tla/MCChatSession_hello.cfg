SPECIFICATION Spec
CONSTANTS
  Configs = {"full"}
  realtime_chat_enabled = FALSE
  MaxKeys = 2
  MaxServerMsgs = 1
  MaxDrops = 1
INVARIANTS
  HelloAnswersThisAttempt
\* The environment's moves are bounded: a behaviour may end with all quiet.
CHECK_DEADLOCK FALSE
