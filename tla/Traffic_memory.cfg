SPECIFICATION Spec
CONSTANTS
  Node <- MCNode
  NameStacks <- TwoLevels
  Sizes = {1}
  AveragingTime = 1
  NodeTimeout = 2
  GuiNodeTimeout = 1
  LinkTimeout = 1
  ProtoNodeTimeout = 1
  ProtoLinkTimeout = 1
  ProtoTimeout = 2
  MaxLag = 1
  MaxTime = 2
  MaxPackets = 3
INVARIANTS
  TypeOK
  RefCountExact
  NewNodesValid
  ActiveNodeShown
  CanvasLoopSound
  AccuMatchesQueue
