SPECIFICATION Spec
CONSTANTS
  t1 = t1
  t2 = t2
  t3 = t3
  hi = hi
  lo = lo
  TimerThread = TimerThread
  NoTimer = NoTimer
  Timers <- MCTwo
  Periodic <- MCNone
  InitTick <- MCInitTick
  Higher <- MCHigher
  Lower <- MCLower
  Starts <- MCHiStarts
  Stops <- MCStops
  CallbackCalls <- MCNone
  Blocking <- MCAll
  Ticks = 16
  MaxLate = 2
PROPERTIES
  StoppedFallsSilent
