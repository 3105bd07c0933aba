SPECIFICATION MbSpec
CONSTANTS
  s1 = s1
  s2 = s2
  r1 = r1
  r2 = r2
  a = a
  b = b
  NoMail = NoMail
  Size = 2
  Threads <- MCThreads
  Senders <- MCSenders
  Receivers <- MCReceivers
  Mail <- MCMail
SYMMETRY MCSymmetry
INVARIANTS
  NoLostWakeup
  MbListsExact
PROPERTIES
  MbIsBoundedQueue
