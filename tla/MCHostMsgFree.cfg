SPECIFICATION HmSpec
CONSTANTS
  r1 = r1
  r2 = r2
  r3 = r3
  i1 = i1
  i2 = i2
  Reqs <- MCReqs
  Ids <- MCIds
  IdOf <- MCIdOf
  NeedCfm <- MCNeedCfm
  Priority <- MCPriority
  NoReq = NoReq
  NoMsg = NoMsg
  QItems = 2
  InHand = 1
  MaxFrames = 0
  Pbufs = {}
INVARIANTS
  FreesWholeBlocks
