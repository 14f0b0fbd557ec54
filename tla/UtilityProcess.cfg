SPECIFICATION FairSpec
CONSTANTS
  Messages = {m1, m2}
  MaxPosts = 2
INVARIANTS DeathWillBeReported
PROPERTIES KeepsPromise PostedIsHeard ExitComes
CHECK_DEADLOCK FALSE
