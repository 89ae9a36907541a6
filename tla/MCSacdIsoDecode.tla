------------------------- MODULE MCSacdIsoDecode -------------------------
(***************************************************************************)
(* SacdIsoDecode instantiated for TLC.  Three workers give the pipeline   *)
(* two frames in flight, so a worker can finish ahead of an older one;   *)
(* four frames fill the pipeline and drain it; one seek is enough to     *)
(* move the reader while frames are in flight.                           *)
(***************************************************************************)
EXTENDS SacdIsoDecode

MCSlotCount == 3
MCTrackFrames == 4
MCMaxSeeks == 1

(* A track shorter than the pipeline's latency: at most N-2 frames.     *)
MCShortTrackFrames == 1

=============================================================================
