SPECIFICATION FairSpec
CONSTANTS
  w1 = w1
  w2 = w2
  w3 = w3
  Windows <- MixedWindows
  PlainWindows <- MixedPlain
  FixedWindows <- MixedFixed
  NoWindow = NoWindow
  MaxCalls = 3
INVARIANTS WindowListExact NoStuckQuit QuitReachesEveryWindow ExitDestroysAll
PROPERTIES ExitSkipsWillQuit QuitConcludes
CHECK_DEADLOCK FALSE
