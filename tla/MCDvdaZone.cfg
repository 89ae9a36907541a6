CONSTANTS
  BLK = 2
  NAobs = 3
  Sizes = {1, 2, 3, 4}
  Placeholder = 2
  Layouts <- MCLayouts
  MaxFirst = 7
  MaxReq = 3
  UIntMax = 1000
SPECIFICATION Spec
INVARIANTS
  TypeOK
  BlockAddressing
  GetBlocksInOrder
  TrackRangesDisjoint
