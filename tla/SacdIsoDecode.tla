--------------------------- MODULE SacdIsoDecode ---------------------------
(***************************************************************************)
(* The decode loop of the SACD ISO plugin, file_decode() in               *)
(* src/src/decoder/plugins/SacdIsoDecoderPlugin.cxx, composed with the DST *)
(* engine it drives through dst_decoder_t (dst_decoder.cpp) and the       *)
(* engine's worker threads (DstEngine).                                   *)
(*                                                                         *)
(* The loop reads one frame of the selected track per pass, initialises   *)
(* the DST decoder lazily on the first DST frame, passes every frame      *)
(* through dst_decoder.run() once it is initialised, submits what comes   *)
(* back to the player, and serves the player's SEEK and STOP commands.    *)
(* When the reader is exhausted it keeps feeding empty buffers to drain   *)
(* the pipeline and leaves the loop at the first empty result.  Leaving   *)
(* the function destroys dst_decoder, which stops and joins the workers.  *)
(*                                                                         *)
(* A frame is its position 1..TrackFrames in the track.  The reader       *)
(* (sacd_disc_t, not part of the sources) is abstracted to a cursor: a   *)
(* read returns the frame at the cursor, a successful seek moves it.     *)
(***************************************************************************)
EXTENDS DstEngine, SequencesExt

CONSTANTS
  TrackFrames,  \* number of frames of the selected track
  MaxSeeks,     \* bound on the SEEK commands the player issues
  NoSeek        \* last_seek before any successful seek

ASSUME TrackFrames \in Nat \ {0} /\ MaxSeeks \in Nat

Frames == 1 .. TrackFrames

(* The frame_type the reader reports for the area: plain DSD or DST.     *)
(* An unknown type is replaced by a silence pattern of the same size and *)
(* takes the DSD path.                                                   *)
FrameTypes == {"DSD", "DST"}

Pcs == {"read", "load", "collect", "check", "teardown", "td_release",
        "td_join", "done"}

VARIABLES
  pc,               \* where file_decode is
  frame_type,       \* the area's frame type
  dsx_buf,          \* dsx_buf: NoFrame or [pos, st], st "raw" before DST
  frame_read,       \* frame_read (sticky: once FALSE, never read again)
  cursor,           \* next frame the reader returns
  dst_initialized,  \* dst_decoder_initialized
  seeks,            \* SEEK commands served so far
  stopped,          \* the loop left on STOP
  read_log,         \* history: positions of the frames read, in order
  delivered,        \* history: frames handed to SubmitAudio, in order
  last_seek         \* history: lengths of read_log and delivered at the
                    \* last successful seek

decode_vars == <<pc, frame_type, dsx_buf, frame_read, cursor,
                 dst_initialized, seeks, stopped, read_log, delivered,
                 last_seek>>

vars == <<engine_vars, decode_vars>>

Raw(p) == [pos |-> p, st |-> "raw"]

Positions(s) == [i \in 1 .. Len(s) |-> s[i].pos]

Init ==
  /\ EngineInit
  /\ pc = "read"
  /\ frame_type \in FrameTypes
  /\ dsx_buf = NoFrame
  /\ frame_read = TRUE
  /\ cursor = 1
  /\ dst_initialized = FALSE
  /\ seeks = 0
  /\ stopped = FALSE
  /\ read_log = << >>
  /\ delivered = << >>
  /\ last_seek = NoSeek

EngineAbsent == wpc[0] = "absent"

-----------------------------------------------------------------------------
(* One pass of the for(;;) loop up to dst_decoder.run().                   *)

(* frame_read = frame_read && read_frame(): the reader fails at the end  *)
(* of the track.  A DST frame with the decoder not yet initialised calls *)
(* dst_decoder.init(), which creates the engine (and its threads) on its *)
(* first call and may fail, in which case the raw frame goes on as is    *)
(* and the next DST frame tries again.                                   *)
ReadFrame ==
  LET got == frame_read /\ cursor \in Frames
      tryInit == got /\ frame_type = "DST" /\ ~dst_initialized
  IN
  /\ pc = "read"
  /\ frame_read' = got
  /\ cursor' = IF got THEN cursor + 1 ELSE cursor
  /\ read_log' = IF got THEN Append(read_log, cursor) ELSE read_log
  /\ dsx_buf' = IF got THEN Raw(cursor) ELSE NoFrame
  /\ IF tryInit
     THEN /\ IF EngineAbsent THEN EngineCreate ELSE UNCHANGED wpc
          /\ dst_initialized' \in BOOLEAN
     ELSE UNCHANGED <<wpc, dst_initialized>>
  /\ pc' = IF dst_initialized' THEN "load" ELSE "check"
  /\ UNCHANGED <<slot_index, state, inp_data, out_data, inp_sem, out_sem,
                 run_threads, td_index, buffer_race, frame_type, seeks,
                 stopped, delivered, last_seek>>

(* dst_decoder.run(dsx_buf): load the current slot ...                   *)
Load ==
  /\ pc = "load"
  /\ RunLoad(IF dsx_buf = NoFrame THEN NoFrame ELSE dsx_buf.pos)
  /\ dsx_buf' = NoFrame
  /\ pc' = "collect"
  /\ UNCHANGED <<frame_type, frame_read, cursor, dst_initialized, seeks,
                 stopped, read_log, delivered, last_seek>>

(* ... and take the result of the oldest slot.                           *)
CollectEmpty ==
  /\ pc = "collect"
  /\ RunCollectEmpty
  /\ dsx_buf' = NoFrame
  /\ pc' = "check"
  /\ UNCHANGED <<frame_type, frame_read, cursor, dst_initialized, seeks,
                 stopped, read_log, delivered, last_seek>>

CollectReady ==
  /\ pc = "collect"
  /\ RunCollectReady
  /\ dsx_buf' = Collected
  /\ pc' = "check"
  /\ UNCHANGED <<frame_type, frame_read, cursor, dst_initialized, seeks,
                 stopped, read_log, delivered, last_seek>>

-----------------------------------------------------------------------------
(* The rest of the pass: break on an empty buffer once the reader is     *)
(* exhausted, otherwise submit a non-empty buffer and serve the command. *)

EndOfTrack ==
  /\ pc = "check"
  /\ dsx_buf = NoFrame
  /\ ~frame_read
  /\ pc' = "teardown"
  /\ UNCHANGED <<engine_vars, frame_type, dsx_buf, frame_read, cursor,
                 dst_initialized, seeks, stopped, read_log, delivered,
                 last_seek>>

(* An empty buffer while frames still come: the pipeline is filling.    *)
NextPass ==
  /\ pc = "check"
  /\ dsx_buf = NoFrame
  /\ frame_read
  /\ pc' = "read"
  /\ UNCHANGED <<engine_vars, frame_type, dsx_buf, frame_read, cursor,
                 dst_initialized, seeks, stopped, read_log, delivered,
                 last_seek>>

(* SubmitAudio returns NONE or STOP.                                     *)
Submit ==
  /\ pc = "check"
  /\ dsx_buf # NoFrame
  /\ delivered' = Append(delivered, dsx_buf)
  /\ \E stop \in BOOLEAN :
       /\ stopped' = stop
       /\ pc' = IF stop THEN "teardown" ELSE "read"
  /\ UNCHANGED <<engine_vars, frame_type, dsx_buf, frame_read, cursor,
                 dst_initialized, seeks, read_log, last_seek>>

(* SubmitAudio returns SEEK: sacd_reader->seek() moves the reader or     *)
(* fails; then GetCommand() is NONE or STOP.  Nothing else is reset.     *)
SubmitSeek ==
  /\ pc = "check"
  /\ dsx_buf # NoFrame
  /\ seeks < MaxSeeks
  /\ seeks' = seeks + 1
  /\ delivered' = Append(delivered, dsx_buf)
  /\ \E target \in Frames, ok \in BOOLEAN :
       /\ cursor' = IF ok THEN target ELSE cursor
       /\ last_seek' = IF ok THEN [read |-> Len(read_log),
                                   delivered |-> Len(delivered')]
                             ELSE last_seek
  /\ \E stop \in BOOLEAN :
       /\ stopped' = stop
       /\ pc' = IF stop THEN "teardown" ELSE "read"
  /\ UNCHANGED <<engine_vars, frame_type, dsx_buf, frame_read,
                 dst_initialized, read_log>>

-----------------------------------------------------------------------------
(* Leaving file_decode: ~dst_decoder_t() deletes the engine, if any.     *)

TeardownNoEngine ==
  /\ pc = "teardown"
  /\ EngineAbsent
  /\ pc' = "done"
  /\ UNCHANGED <<engine_vars, frame_type, dsx_buf, frame_read, cursor,
                 dst_initialized, seeks, stopped, read_log, delivered,
                 last_seek>>

TeardownStart ==
  /\ pc = "teardown"
  /\ ~EngineAbsent
  /\ DestructStart
  /\ pc' = "td_release"
  /\ UNCHANGED <<frame_type, dsx_buf, frame_read, cursor, dst_initialized,
                 seeks, stopped, read_log, delivered, last_seek>>

TeardownRelease ==
  /\ pc = "td_release"
  /\ DestructRelease
  /\ pc' = "td_join"
  /\ UNCHANGED <<frame_type, dsx_buf, frame_read, cursor, dst_initialized,
                 seeks, stopped, read_log, delivered, last_seek>>

TeardownJoin ==
  /\ pc = "td_join"
  /\ DestructJoin
  /\ pc' = IF td_index' = N THEN "done" ELSE "td_release"
  /\ UNCHANGED <<frame_type, dsx_buf, frame_read, cursor, dst_initialized,
                 seeks, stopped, read_log, delivered, last_seek>>

-----------------------------------------------------------------------------
DecodeNext ==
  \/ ReadFrame \/ Load \/ CollectEmpty \/ CollectReady
  \/ EndOfTrack \/ NextPass \/ Submit \/ SubmitSeek
  \/ TeardownNoEngine \/ TeardownStart \/ TeardownRelease \/ TeardownJoin

Worker(j) ==
  /\ WorkerStart(j) \/ WorkerSkip(j) \/ WorkerFinish(j)
  /\ UNCHANGED decode_vars

Next == DecodeNext \/ \E j \in Slots : Worker(j)

(* Every OS thread, the decoding thread and each worker, keeps running   *)
(* while it can: weak fairness per thread.                               *)
Spec ==
  /\ Init
  /\ [][Next]_vars
  /\ WF_vars(DecodeNext)
  /\ \A j \in Slots : WF_vars(Worker(j))

-----------------------------------------------------------------------------
TypeOK ==
  /\ EngineTypeOK(Frames)
  /\ pc \in Pcs
  /\ frame_type \in FrameTypes
  /\ dsx_buf \in [pos : Frames, st : {"raw", "ok", "err"}] \cup {NoFrame}
  /\ frame_read \in BOOLEAN
  /\ cursor \in 1 .. TrackFrames + 1
  /\ dst_initialized \in BOOLEAN
  /\ seeks \in 0 .. MaxSeeks
  /\ stopped \in BOOLEAN
  /\ read_log \in Seq(Frames)
  /\ delivered \in Seq([pos : Frames, st : {"raw", "ok", "err"}])
  /\ last_seek \in [read : Nat, delivered : Nat] \cup {NoSeek}

(* The one-behind protocol of dst_engine_t::run never lets the decoding  *)
(* thread write a slot's buffers (the load into slot_index, the move out *)
(* of the oldest slot) while that slot's worker is inside codec.run().   *)
NoBufferRace == ~buffer_race

(* Frames reach SubmitAudio in the order they were read, none twice and *)
(* none skipped ahead of an earlier one, whichever worker finishes      *)
(* first: what was delivered is a prefix of what was read.              *)
FifoDelivery == IsPrefix(Positions(delivered), read_log)

(* file_decode always returns: the drain loop ends and the destructor   *)
(* joins every worker it started.                                       *)
Termination ==
  <>(pc = "done" /\ \A j \in Slots : wpc[j] \in {"absent", "exited"})

(* When the loop ends at the end of the track (not on STOP), every frame *)
(* read has been submitted: the pipeline has been drained.               *)
AllFramesDelivered ==
  (pc = "done" /\ ~stopped) => Positions(delivered) = read_log

(* After a successful seek, no frame read before the seek is submitted. *)
NoStaleFrameAfterSeek ==
  (last_seek # NoSeek /\ Len(delivered) > last_seek.delivered)
    => last_seek.delivered >= last_seek.read

(* The engine, seen through the decoding thread's steps, is a delay line *)
(* of length N-1: the oldest slot holds the frame loaded N-1 calls ago.   *)
(* Between RunLoad and the collect the window still starts at the oldest *)
(* slot; once the destructor has started, nothing is in flight.          *)
SlotContent(j) == IF state[j] = "EMPTY" THEN NoFrame ELSE inp_data[j]

TornDown == pc \in {"td_release", "td_join", "done"}

WindowStart == IF pc = "collect" THEN slot_index ELSE (slot_index + 1) % N

DL == INSTANCE DelayLine WITH
        L <- N - 1,
        Inputs <- Frames,
        line <- IF TornDown THEN << >>
                ELSE [k \in 1 .. N - 1 |-> SlotContent((WindowStart + k - 1) % N)],
        result <- IF pc = "check" /\ dsx_buf # NoFrame /\ dsx_buf.st # "raw"
                  THEN dsx_buf.pos ELSE NoFrame,
        open <- ~TornDown

(* Every run() hands back exactly the frame loaded N-1 calls earlier,    *)
(* or an empty buffer if that call loaded none, whatever order the      *)
(* workers finish in: dst_engine_t implements DelayLine.                *)
DelayRefinement == DL!Spec

=============================================================================
