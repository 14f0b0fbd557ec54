CONSTANTS
    MaxRounds = 4
    Recreates = FALSE
SPECIFICATION Spec
INVARIANTS EventsInOrder ClientAgrees OneQuestion HeldIsAwaited FactoryStaysForRequest
PROPERTIES FutureEventsWait RequestEnds
CHECK_DEADLOCK FALSE
