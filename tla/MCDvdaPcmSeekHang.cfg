\* A PCM track with a seek to a block that starts inside a group.
CONSTANTS
  Kinds = {"pcm"}
  BLK <- MCBLK
  P <- MCP
  Cap <- MCCap
  G <- MCGroup
  M <- MCFrame
  MlpPhase <- MCPhase
  TrackBlocks <- MCTrack
  TailBlocks <- MCTailBlocks
  MaxSeeks <- MCOneSeek
SPECIFICATION Spec
\* file_decode returns: the state with pc = "done" has no successor.
CHECK_DEADLOCK FALSE
PROPERTY Termination
