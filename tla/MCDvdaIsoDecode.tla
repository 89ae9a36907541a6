-------------------------- MODULE MCDvdaIsoDecode --------------------------
(***************************************************************************)
(* DvdaIsoDecode instantiated for TLC.  A block of 4 units carries 3      *)
(* units of payload and the ring buffer holds 3 blocks, so a refill can   *)
(* fill it and later refills take one block at a time.  The track is      *)
(* longer than the buffer; two tail blocks follow it in the titleset.     *)
(***************************************************************************)
EXTENDS DvdaIsoDecode

MCBLK == 4
MCP == 3
MCCap == 12
MCTailBlocks == 2

(* MLP: 5 blocks, 15 units; frames of 2 units from offset 0, so the last *)
(* frame straddles block_last and ends in the tail.                      *)
MCFrame == 2
MCPhase == 0

(* PCM: 4 blocks, 12 units; groups of 2 units, so a block's payload does *)
(* not always start at a group, but the whole track is whole groups.     *)
MCGroup == 2

(* A track with no decoder is as long as the MLP one. *)
MCTrack == [k \in {"pcm", "mlp", "other"} |-> IF k = "pcm" THEN 4 ELSE 5]

MCNoSeek == 0
MCOneSeek == 1
MCTwoSeeks == 2

=============================================================================
