--------------------------- MODULE DvdaIsoDecode ---------------------------
(***************************************************************************)
(* The decode loop of the DVD-Audio ISO plugin, file_decode() in          *)
(* src/src/decoder/plugins/DvdaIsoDecoderPlugin.cxx, composed with the    *)
(* track session it drives (DvdaTrackSession).  The loop calls            *)
(* read_frame() until it returns false, submits every non-empty frame,   *)
(* and serves SEEK (dvda_disc_t::seek always succeeds) and STOP.  One    *)
(* thread runs all of it.                                                *)
(***************************************************************************)
EXTENDS DvdaTrackSession

vars == session_vars

(* SubmitAudio returns NONE or STOP.                                     *)
Submit ==
  /\ pc = "submit"
  /\ \E stop \in BOOLEAN : pc' = IF stop THEN "done" ELSE "fill"
  /\ UNCHANGED <<kind, cur, rpos, wpos, stream, ps1_known, held, major_sync_0,
                 ret, seeks, tail_overflow>>

(* SubmitAudio returns SEEK to a time within the track: seek() always    *)
(* succeeds, CommandFinished(); the command fetched next is not looked  *)
(* at, so the loop goes on to read_frame whatever it is.                 *)
SubmitSeek ==
  /\ pc = "submit"
  /\ seeks < MaxSeeks
  /\ seeks' = seeks + 1
  /\ \E offset \in 0 .. BlockLast : SeekTo(offset)
  /\ pc' = "fill"
  /\ UNCHANGED <<kind, major_sync_0, ret, tail_overflow>>

Next == ReadFrameNext \/ Submit \/ SubmitSeek

(* One thread, which keeps running while it can.                         *)
Spec == Init /\ [][Next]_vars /\ WF_vars(Next)

-----------------------------------------------------------------------------
(* The ring buffer never holds more than its size and never reads ahead *)
(* of what was written: every refill, including the tail kept after     *)
(* resync, fits the free space.                                          *)
BufferBound == 0 <= Buffered /\ Buffered <= Cap

(* An open MLP decoder is always fed from a frame start: what its parser *)
(* holds plus the unread bytes begin at a sync, after every seek,       *)
(* decoder creation and partial parse.                                   *)
MlpFrameAligned ==
  (kind = "mlp" /\ stream = "open") => (rpos - held - MlpPhase) % M = 0

(* read_frame never returns a frame whose bytes the decoder did not     *)
(* produce in that call: the tail over-read completes the frame that     *)
(* straddles block_last.                                                 *)
NoStaleFrame == pc = "submit" => ret = "data"

(* file_decode returns: every read_frame call returns, and the track    *)
(* ends.                                                                 *)
Termination == <>(pc = "done")

(* file_decode returns for an MLP track and for one with no decoder,    *)
(* whatever the seeks: resync finds a frame start, or the end of the    *)
(* track and its tail is reached.  (A PCM track after a seek into a     *)
(* sample group is the dvda_pcm_seek_hang case of Termination.)         *)
SyncedTermination == kind # "pcm" => <>(pc = "done")

(* The raw blocks of the tail over-read fit into the free space that the *)
(* main read left (spec 4.2: refills never overwrite unread bytes).      *)
TailReadFits == ~tail_overflow

=============================================================================
