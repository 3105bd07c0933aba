SPECIFICATION Spec
CONSTANTS
  t1 = t1
  t2 = t2
  t3 = t3
  hi = hi
  lo = lo
  TimerThread = TimerThread
  NoTimer = NoTimer
  Timers <- MCTwo
  Periodic <- MCPeriodic
  InitTick <- MCInitTick
  Higher <- MCHigher
  Lower <- MCLower
  Starts <- MCStarts
  Stops <- MCStops
  CallbackCalls <- MCNone
  Blocking <- MCAll
  Ticks = 10
  MaxLate = 1
INVARIANTS
  TypeOK
  NeverLinkedTwice
  SortedByTimeout
  ActiveIsListed
  StoppedNeverListed
