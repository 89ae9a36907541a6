\* A DST track of fewer frames than the pipeline holds in flight.
CONSTANTS
  NoFrame = NoFrame
  NoSeek = NoSeek
  N <- MCSlotCount
  TrackFrames <- MCShortTrackFrames
  MaxSeeks <- MCMaxSeeks
SPECIFICATION Spec
CHECK_DEADLOCK FALSE
INVARIANT AllFramesDelivered
