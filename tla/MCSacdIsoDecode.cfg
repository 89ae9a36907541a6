\* Safety, termination and the DelayLine refinement of the SACD decode loop driving the DST engine.
CONSTANTS
  NoFrame = NoFrame
  NoSeek = NoSeek
  N <- MCSlotCount
  TrackFrames <- MCTrackFrames
  MaxSeeks <- MCMaxSeeks
SPECIFICATION Spec
\* file_decode returns: the state with pc = "done" has no successor.
CHECK_DEADLOCK FALSE
INVARIANT TypeOK
INVARIANT NoBufferRace
INVARIANT FifoDelivery
PROPERTY Termination
PROPERTY DelayRefinement
