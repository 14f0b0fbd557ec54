CONSTANTS
    MaxRounds = 1
    Recreates = TRUE
SPECIFICATION Spec
PROPERTY FutureEventsWait
CHECK_DEADLOCK FALSE
