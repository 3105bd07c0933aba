SPECIFICATION FairSpec
CONSTANTS
  p1 = p1
  p2 = p2
  core = core
  reader = reader
  a = a
  b = b
  b1 = b1
  b2 = b2
  NoMail = NoMail
  NoMessage = NoMessage
  Size = 1
  MaxPended = 3
  Threads <- MCThreads2
  Senders <- MCSenders2
  Receivers <- MCReceivers2
  Mail <- MCBlocks
  Blocks <- MCBlocks
  FreeOrder <- MCFreeOrder
  Messages <- MCMessages
  PushTimes <- MCPushForever
  PopTimes <- MCPop
INVARIANTS
  BlocksConserved
PROPERTIES
  Delivered
