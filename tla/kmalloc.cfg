CONSTANTS
  PAGE_SIZE = 6
  Slot_size <- MCSlots
  NodeSize = 2
  NPages = 4
  Sizes = {2, 3, 7}
  MaxLive = 5
SPECIFICATION Spec
INVARIANTS
  BlocksDisjoint
  BigBlocksKnown
  PagesAccounted
