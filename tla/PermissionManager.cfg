SPECIFICATION Spec
CONSTANTS
  Requests = {r1, r2}
  WebContents = {w1, w2}
  MaxBatch = 2
  MaxDepth = 5
SYMMETRY Symmetry
INVARIANTS AnsweredOnce DecidedByItsOwn CountsUndecided DecidedIsHeard
CHECK_DEADLOCK FALSE
