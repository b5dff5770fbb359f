SPECIFICATION Spec
CONSTANTS
  Waiters = {"w1", "w2"}
  Setters = {"s1", "s2"}
  Nanosecs <- Waits
  NsPerSec = 2
  MaxTime = 4
  MaxCalls = 4
  MaxSpurious = 1
CHECK_DEADLOCK FALSE
INVARIANTS EventTypeOK NoLostWakeup
PROPERTIES SignalledWaitEnds SetReturns KeepsPromise
