SPECIFICATION Spec
CONSTANTS
  Requests = {r1, r2}
  WebContents = {w1}
  MaxBatch = 2
  MaxDepth = 3
INVARIANTS HandlerIsThere
CHECK_DEADLOCK FALSE
