\* Frames in flight at a seek.
CONSTANTS
  NoFrame = NoFrame
  NoSeek = NoSeek
  N <- MCSlotCount
  TrackFrames <- MCTrackFrames
  MaxSeeks <- MCMaxSeeks
SPECIFICATION Spec
CHECK_DEADLOCK FALSE
INVARIANT NoStaleFrameAfterSeek
