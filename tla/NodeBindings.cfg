SPECIFICATION FairSpec
CONSTANTS
  Hosts <- AllHosts
  MaxEpoch = 3
INVARIANTS Lockstep NeverStalls
PROPERTIES StopReturns EventsServed
CHECK_DEADLOCK FALSE
