SPECIFICATION Spec
CONSTANTS
  Node <- MCNode
  NameStacks <- TwoStacks
  Sizes = {1, 2}
  AveragingTime = 2
  NodeTimeout = 2
  GuiNodeTimeout = 1
  LinkTimeout = 1
  ProtoNodeTimeout = 1
  ProtoLinkTimeout = 1
  ProtoTimeout = 2
  MaxLag = 0
  MaxTime = 3
  MaxPackets = 2
INVARIANTS
  AccuMatchesQueue
  ViewsAgree
PROPERTIES
  UpdateDropsAllExpired
