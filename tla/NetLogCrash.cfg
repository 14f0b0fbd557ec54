SPECIFICATION Spec
CONSTANTS
  MaxStarts = 2
  MaxCrashes = 1
INVARIANT PromiseIsThere
CHECK_DEADLOCK FALSE
