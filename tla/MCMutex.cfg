SPECIFICATION FairSpec
CONSTANTS
  Threads = {"t1", "t2", "t3"}
  Mutexes = {1, 2, 3}
  Flag <- MCFlag
  Priority <- MCPriority
  Nesting = {"t1"}
  MaxTakes = 2
  HoldRange = 3
  None = None
INVARIANTS
  TypeOK
  OwnershipExact
  AvailableExact
  PriorityRestored
  OwnerInherits
PROPERTIES
  FifoTakesReturn
