SPECIFICATION CoreSpec
CONSTANTS
  p1 = p1
  p2 = p2
  NoMsg = NoMsg
  QItems = 4
  InHand = 1
  MaxFrames = 2
  Pbufs <- MCPbufs
INVARIANTS
  CoreTypeOK
  RxCountExact
  FramesCovered
  RefsExact
PROPERTIES
  FramesServed
