SPECIFICATION Spec
CONSTANTS
  t1 = t1
  t2 = t2
  t3 = t3
  hi = hi
  lo = lo
  TimerThread = TimerThread
  NoTimer = NoTimer
  Timers <- MCOneShots
  Periodic <- MCNone
  InitTick <- MCInitTick
  Higher <- MCHigher
  Lower <- MCLower
  Starts <- MCLoStartsOne
  Stops <- MCNone
  CallbackCalls <- MCChain
  Blocking <- MCNone
  Ticks = 10
  MaxLate = 1
PROPERTIES
  TimerFires
