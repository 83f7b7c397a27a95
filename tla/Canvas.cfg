SPECIFICATION Spec
CONSTANTS
  Node = {1, 2}
  Link <- OneLink
  Levels = {1}
  Stacks <- OneStack
  Options <- MCOptions
  Fonts = {"sans"}
  Sizes = {1, 2}
  MaxSpots = 4
INVARIANTS
  TypeOK
  EvenlySpread
  LinksFollowNodes
PROPERTIES
  HeardHostAppears
