SPECIFICATION Spec
CONSTANTS
  Node = {1, 2}
  Link <- OneLink
  Prot = {1, 2}
  MaxTraffic = 1
  SortColumns = {"name"}
  FastRefresh = TRUE
  MaxOpen = 1
INVARIANTS
  StoppedShowsNothing
PROPERTIES
  NodeTableExact
  ProtocolTableExact
  WindowsCloseOnStop
