\* A PCM track, an MLP track, or one whose stream id has no decoder, with
\* seeks: buffer bounds, MLP frame alignment, termination of the resyncing kinds.
CONSTANTS
  Kinds = {"pcm", "mlp", "other"}
  BLK <- MCBLK
  P <- MCP
  Cap <- MCCap
  G <- MCGroup
  M <- MCFrame
  MlpPhase <- MCPhase
  TrackBlocks <- MCTrack
  TailBlocks <- MCTailBlocks
  MaxSeeks <- MCTwoSeeks
SPECIFICATION Spec
\* file_decode returns: the state with pc = "done" has no successor.
CHECK_DEADLOCK FALSE
INVARIANTS TypeOK BufferBound MlpFrameAligned
PROPERTY SyncedTermination
