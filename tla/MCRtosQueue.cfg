SPECIFICATION Spec
CONSTANTS
  p1 = p1
  p2 = p2
  core = core
  reader = reader
  a = a
  b = b
  b1 = b1
  b2 = b2
  NoMail = NoMail
  NoMessage = NoMessage
  Size = 2
  MaxPended = 3
  Threads <- MCThreads
  Senders <- MCSenders
  Receivers <- MCReceivers
  Mail <- MCBlocks
  Blocks <- MCBlocks
  FreeOrder <- MCFreeOrder
  Messages <- MCMessages
  PushTimes <- MCPush
  PopTimes <- MCPopTimed
INVARIANTS
  TypeOK
  FullMeansExhausted
  AllocNoLostWakeup
  ListsExact
  PendedCounted
PROPERTIES
  IsBoundedQueue
CHECK_DEADLOCK FALSE
