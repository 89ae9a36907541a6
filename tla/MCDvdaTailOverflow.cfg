\* The tail over-read after a refill that left little room.
CONSTANTS
  Kinds = {"mlp"}
  BLK <- MCBLK
  P <- MCP
  Cap <- MCCap
  G <- MCGroup
  M <- MCFrame
  MlpPhase <- MCPhase
  TrackBlocks <- MCTrack
  TailBlocks <- MCTailBlocks
  MaxSeeks <- MCTwoSeeks
SPECIFICATION Spec
\* file_decode returns: the state with pc = "done" has no successor.
CHECK_DEADLOCK FALSE
INVARIANT TailReadFits
