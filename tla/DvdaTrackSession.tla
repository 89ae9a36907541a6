-------------------------- MODULE DvdaTrackSession --------------------------
(***************************************************************************)
(* The DVD-Audio track session of src/src/lib/dvdaiso/dvda_disc.cpp:      *)
(* read_frame() with its goto retry loop, stream_buffer_read() with the   *)
(* tail over-read, create_audio_stream() and seek(), together with the    *)
(* byte accounting of the PCM and MLP substream decoders                  *)
(* (pcm_audio_stream.cpp, mlp_audio_stream.cpp).                          *)
(*                                                                         *)
(* Data is counted in units.  A raw disc block is BLK units, of which P   *)
(* are the PS1 payload that stream_buffer_read() copies into the ring     *)
(* buffer track_stream.  The titleset's payload is one stream: unit u of  *)
(* it lies in block u \div P.  Blocks are numbered from the track's       *)
(* block_first = 0.  A PCM sample group is G units; an MLP frame is M     *)
(* units and MLP frames start at the units MlpPhase + k*M.                *)
(*                                                                         *)
(* track_stream (stream_buffer.h) is not part of the sources; it is       *)
(* modelled from the spec as a FIFO of capacity Cap whose readable bytes  *)
(* are contiguous and that is ready to be written when it has room for a *)
(* whole block.                                                           *)
(***************************************************************************)
EXTENDS Integers

CONSTANTS
  Kinds,        \* the substreams a track may carry
  BLK,          \* DVD_BLOCK_SIZE
  P,            \* PS1 payload of a block
  Cap,          \* size of track_stream
  G,            \* PCM: raw_group1_size + raw_group2_size
  M,            \* MLP: frame length
  MlpPhase,     \* MLP: stream offset of the first frame start
  TrackBlocks,  \* TrackBlocks[k]: block_last + 1 - block_first of a track of kind k
  TailBlocks,   \* blocks of the titleset after block_last
  MaxSeeks      \* bound on SEEK commands

ASSUME
  /\ Kinds \subseteq {"pcm", "mlp", "other"}
  /\ \A c \in {BLK, P, Cap, G, M} \cup {TrackBlocks[k] : k \in Kinds} : c \in Nat \ {0}
  /\ P <= BLK /\ G <= BLK /\ BLK <= Cap
  /\ MlpPhase \in 0 .. M - 1 /\ TailBlocks \in Nat /\ MaxSeeks \in Nat

(* blocks_to_sync: at most 8 blocks after the track, within the titleset *)
BlocksToSync == IF TailBlocks < 8 THEN TailBlocks ELSE 8

(* The first MLP frame start at or after stream unit u.                  *)
NextSync(u) ==
  IF u <= MlpPhase THEN MlpPhase
  ELSE MlpPhase + ((u - MlpPhase + M - 1) \div M) * M

VARIABLES
  kind,           \* the track's substream (stream_ps1_info's stream id)
  pc,             \* "fill": top of read_frame; "decode": after the refill;
                  \* "submit": read_frame returned a frame; "done"
  cur,            \* stream_block_current
  rpos,           \* stream offset of track_stream's read pointer
  wpos,           \* stream offset of track_stream's write pointer
  stream,         \* audio_stream: "none" or "open"
  ps1_known,      \* stream_ps1_info.header.stream_id != UNK_STREAM_ID
  held,           \* MLP: units the parser has taken of the current frame
  major_sync_0,   \* dvda_disc_t::major_sync_0
  ret,            \* what the last read_frame returned: "data", "stale"
  seeks,          \* SEEK commands served
  tail_overflow   \* history: a tail read wrote more raw bytes than
                  \* track_stream had free

session_vars == <<kind, pc, cur, rpos, wpos, stream, ps1_known, held,
                  major_sync_0, ret, seeks, tail_overflow>>

BlockLast == TrackBlocks[kind] - 1  \* block_last, from block_first = 0

Buffered == wpos - rpos            \* track_stream.get_read_size()
Free == Cap - Buffered             \* track_stream.get_write_size()
ReadyToWrite == Free >= BLK        \* track_stream.is_ready_to_write()

(* select_track(): an empty buffer at block_first, no decoder yet.       *)
Init ==
  /\ kind \in Kinds
  /\ pc = "fill"
  /\ cur = 0
  /\ rpos = 0
  /\ wpos = 0
  /\ stream = "none"
  /\ ps1_known = FALSE
  /\ held = 0
  /\ major_sync_0 = FALSE
  /\ ret = "data"
  /\ seeks = 0
  /\ tail_overflow = FALSE

-----------------------------------------------------------------------------
(* stream_buffer_read(), called at the top of read_frame when the buffer *)
(* has room.                                                             *)

(* Nothing to read: no room, or the track and its tail are read.         *)
FillNone ==
  /\ pc = "fill"
  /\ ~ReadyToWrite \/ cur > BlockLast
  /\ pc' = "decode"
  /\ UNCHANGED <<kind, cur, rpos, wpos, stream, ps1_known, held, major_sync_0,
                 ret, seeks, tail_overflow>>

(* blocks_to_read whole blocks of the track, as many as fit; the first  *)
(* read after a reset records the stream id.                             *)
ToRead == LET k == Free \div BLK IN
          IF cur + k > BlockLast + 1 THEN BlockLast + 1 - cur ELSE k

FillTrack ==
  /\ pc = "fill"
  /\ ReadyToWrite /\ cur <= BlockLast
  /\ cur + ToRead <= BlockLast \/ BlocksToSync = 0
  /\ wpos' = wpos + ToRead * P
  /\ cur' = cur + ToRead
  /\ ps1_known' = TRUE
  /\ pc' = "decode"
  /\ UNCHANGED <<kind, rpos, stream, held, major_sync_0, ret, seeks, tail_overflow>>

(* The read reaches block_last: read up to blocks_to_read more blocks of *)
(* the titleset's tail at the write pointer, and keep their payload up   *)
(* to the next frame start the decoder's resync() finds in it (none for  *)
(* PCM, whose resync() returns 0).                                       *)
TailKept(w, n) ==
  IF stream = "open" /\ kind = "mlp"
     /\ NextSync(w) > w /\ NextSync(w) < w + n * P
  THEN NextSync(w) - w ELSE 0

(* Fault variant: the tail read not clamped to blocks_to_sync.          *)
FillTrackAndTailNoClamp ==
  /\ pc = "fill"
  /\ ReadyToWrite /\ cur <= BlockLast
  /\ cur + ToRead > BlockLast /\ BlocksToSync > 0
  /\ LET k == ToRead
         w1 == wpos + k * P
     IN /\ wpos' = w1 + TailKept(w1, k)
        /\ cur' = cur + k + k
        /\ tail_overflow' = (tail_overflow \/ k * BLK > Cap - (w1 - rpos))
  /\ ps1_known' = TRUE
  /\ pc' = "decode"
  /\ UNCHANGED <<kind, rpos, stream, held, major_sync_0, ret, seeks>>

FillTrackAndTail ==
  /\ pc = "fill"
  /\ ReadyToWrite /\ cur <= BlockLast
  /\ cur + ToRead > BlockLast /\ BlocksToSync > 0
  /\ LET k == ToRead
         w1 == wpos + k * P
         c1 == cur + k
         n == IF c1 + k > BlockLast + 1 + BlocksToSync
              THEN BlockLast + 1 + BlocksToSync - c1 ELSE k
     IN /\ wpos' = w1 + TailKept(w1, n)
        /\ cur' = c1 + n
        /\ tail_overflow' = (tail_overflow \/ n * BLK > Cap - (w1 - rpos))
  /\ ps1_known' = TRUE
  /\ pc' = "decode"
  /\ UNCHANGED <<kind, rpos, stream, held, major_sync_0, ret, seeks>>

-----------------------------------------------------------------------------
(* The decode call of read_frame and what follows it.                    *)

(* PCM decode(): whole groups from at most DVD_BLOCK_SIZE bytes.         *)
(* Fault variant: the block-size cap applied without the buffered size. *)
PcmConsumedUncapped == (BLK \div G) * G

PcmConsumed ==
  LET n == IF Buffered > BLK THEN BLK ELSE Buffered IN (n \div G) * G

(* MLP decode(): the parser takes the rest of the current frame if it is *)
(* buffered, otherwise everything, and completes no packet.              *)
MlpComplete == held + Buffered >= M
MlpConsumed == IF MlpComplete THEN M - held ELSE Buffered

Consumed == IF kind = "pcm" THEN PcmConsumed ELSE MlpConsumed

(* bytes_decoded > 0: move the read pointer, return true.  When the MLP *)
(* parser completes no packet, *data_size keeps the caller's capacity.  *)
DecodeFrame ==
  /\ pc = "decode"
  /\ stream = "open"
  /\ Consumed > 0
  /\ rpos' = rpos + Consumed
  /\ held' = IF kind = "mlp" /\ ~MlpComplete THEN held + Buffered ELSE 0
  /\ ret' = IF kind = "mlp" /\ ~MlpComplete THEN "stale" ELSE "data"
  /\ major_sync_0' = FALSE
  /\ pc' = "submit"
  /\ UNCHANGED <<kind, cur, wpos, stream, ps1_known, seeks, tail_overflow>>

(* Nothing decoded and nothing buffered: return false.                   *)
DecodeEnd ==
  /\ pc = "decode"
  /\ stream = "none" \/ Consumed = 0
  /\ Buffered = 0
  /\ pc' = "done"
  /\ UNCHANGED <<kind, cur, rpos, wpos, stream, ps1_known, held, major_sync_0,
                 ret, seeks, tail_overflow>>

(* Nothing decoded with bytes buffered (only PCM gets here: the MLP      *)
(* parser takes whatever it is given).  PCM resync() returns 0: the     *)
(* first time major_sync_0 is set, later the retry at offset 1 returns  *)
(* 0 again; nothing is skipped and the loop restarts.                    *)
Resync ==
  /\ pc = "decode"
  /\ stream = "open"
  /\ Consumed = 0
  /\ Buffered > 0
  /\ major_sync_0' = TRUE
  /\ pc' = "fill"
  /\ UNCHANGED <<kind, cur, rpos, wpos, stream, ps1_known, held, ret, seeks,
                 tail_overflow>>

(* create_audio_stream(): PCM needs a known stream id, MLP a frame start *)
(* within the buffered bytes (get_info's sync_offset); any other stream *)
(* id has no decoder.                                                    *)
CreateOk ==
  CASE kind = "pcm" -> ps1_known
    [] kind = "mlp" -> ps1_known /\ NextSync(rpos) < wpos
    [] OTHER -> FALSE

(* Fault variant: the decoder starts at the read pointer, not the sync. *)
SyncOffsetNone == 0

SyncOffset == IF kind = "pcm" THEN 0 ELSE NextSync(rpos) - rpos

CreateStream ==
  /\ pc = "decode"
  /\ stream = "none"
  /\ Buffered > 0
  /\ CreateOk
  /\ stream' = "open"
  /\ rpos' = rpos + SyncOffset
  /\ held' = 0
  /\ pc' = "fill"
  /\ UNCHANGED <<kind, cur, wpos, ps1_known, major_sync_0, ret, seeks,
                 tail_overflow>>

(* Failure: skip DVD_BLOCK_SIZE bytes (no further than the buffered     *)
(* ones) and forget the stream id.                                       *)
(* Fault variant: the failed bytes are not skipped.                    *)
CreateFailedNoSkip ==
  /\ pc = "decode"
  /\ stream = "none"
  /\ Buffered > 0
  /\ ~CreateOk
  /\ ps1_known' = FALSE
  /\ pc' = "fill"
  /\ UNCHANGED <<kind, cur, rpos, wpos, stream, held, major_sync_0, ret, seeks,
                 tail_overflow>>

(* Fault variant: the skip of DVD_BLOCK_SIZE not bounded by the        *)
(* buffered bytes.                                                      *)
CreateFailedUnbounded ==
  /\ pc = "decode"
  /\ stream = "none"
  /\ Buffered > 0
  /\ ~CreateOk
  /\ rpos' = rpos + BLK
  /\ ps1_known' = FALSE
  /\ pc' = "fill"
  /\ UNCHANGED <<kind, cur, wpos, stream, held, major_sync_0, ret, seeks,
                 tail_overflow>>

CreateFailed ==
  /\ pc = "decode"
  /\ stream = "none"
  /\ Buffered > 0
  /\ ~CreateOk
  /\ rpos' = IF Buffered > BLK THEN rpos + BLK ELSE wpos
  /\ ps1_known' = FALSE
  /\ pc' = "fill"
  /\ UNCHANGED <<kind, cur, wpos, stream, held, major_sync_0, ret, seeks,
                 tail_overflow>>

-----------------------------------------------------------------------------
(* seek(seconds): the block offset for the time, clamped with unsigned   *)
(* arithmetic to block_last - block_first - 1; empty buffer, no decoder. *)
(* For a one-block track the bound wraps to UINT_MAX, above every offset *)
(* (TLC's integers stop at 2^31, so the wrapped value is stood for by   *)
(* BlockLast + 1, which every offset is below as well).                  *)
SeekClamp == IF BlockLast >= 1 THEN BlockLast - 1 ELSE BlockLast + 1

SeekTo(offset) ==
  LET o == IF offset > SeekClamp THEN SeekClamp ELSE offset IN
  /\ cur' = o
  /\ rpos' = o * P
  /\ wpos' = o * P
  /\ stream' = "none"
  /\ held' = 0
  /\ ps1_known' = FALSE

ReadFrameNext ==
  \/ FillNone \/ FillTrack \/ FillTrackAndTail
  \/ DecodeFrame \/ DecodeEnd \/ Resync \/ CreateStream \/ CreateFailed

-----------------------------------------------------------------------------
TypeOK ==
  /\ kind \in Kinds
  /\ pc \in {"fill", "decode", "submit", "done"}
  /\ cur \in 0 .. BlockLast + 1 + BlocksToSync
  /\ rpos \in Nat /\ wpos \in Nat
  /\ stream \in {"none", "open"}
  /\ ps1_known \in BOOLEAN
  /\ held \in 0 .. M
  /\ major_sync_0 \in BOOLEAN
  /\ ret \in {"data", "stale"}
  /\ seeks \in 0 .. MaxSeeks
  /\ tail_overflow \in BOOLEAN

=============================================================================
