SPECIFICATION FairSpec
CONSTANTS
  MaxStarts = 3
  MaxCrashes = 1
INVARIANT AnswersFindTheirPromise
PROPERTIES PromisesSettle ResolvedMeansRecording
CHECK_DEADLOCK FALSE
