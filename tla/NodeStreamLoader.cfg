SPECIFICATION ResponseFairSpec
CONSTANTS
  MaxChunks = 3
INVARIANTS AnswerIsTrue NoReadableForgotten
PROPERTIES DeadIsSilent Completes
CHECK_DEADLOCK FALSE
