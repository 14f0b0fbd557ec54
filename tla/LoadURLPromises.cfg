SPECIFICATION FairSpec
CONSTANTS
  Promises = {p1, p2}
  Page = Page
  MaxActs = 3
INVARIANTS NoneLeftBehind ReplacedAreAborted
PROPERTIES RoutingSettlesNoLoad EveryPromiseSettles
CHECK_DEADLOCK FALSE
