----------------------------- MODULE DstEngine -----------------------------
(***************************************************************************)
(* The multi-threaded DST decoding engine dst_engine_t<codec_t, MT> of     *)
(* src/src/lib/sacdiso/libdstdec/binding/dst_engine.h.                     *)
(*                                                                         *)
(* N slots, each with its own worker thread, an input and an output        *)
(* semaphore, a state and an input/output buffer.  The caller thread       *)
(* drives run(): it loads the frame into slot slot_index, releases that    *)
(* slot's worker, advances slot_index and collects the oldest slot,        *)
(* waiting on its output semaphore.  The destructor stops and joins every  *)
(* worker.                                                                 *)
(*                                                                         *)
(* This module holds the engine state, the worker threads' actions and the *)
(* caller-side steps of run() and of the destructor as operators; the      *)
(* module of the caller (SacdIsoDecode) sequences those steps with its own *)
(* program counter.  A frame is abstracted to its position in the track;  *)
(* a decoded frame is a record of that position and the codec's verdict.  *)
(***************************************************************************)
EXTENDS Naturals

CONSTANTS
  N,        \* slots.size(): number of worker threads
  NoFrame   \* an empty dsx_buffer_t

ASSUME N \in Nat \ {0}

Slots == 0 .. N - 1

SlotStates ==
  {"EMPTY", "LOADED", "RUNNING", "READY", "READY_WITH_ERROR", "TERMINATING"}

(* Worker thread program counter: not yet created, blocked on             *)
(* inp_semaphore.acquire(), inside codec.run(), returned from run().      *)
WorkerPcs == {"absent", "wait", "decoding", "exited"}

VARIABLES
  slot_index,   \* dst_engine_t::slot_index
  state,        \* slots[j].state
  inp_data,     \* slots[j].inp_data: a frame position or NoFrame
  out_data,     \* slots[j].out_data: a decoded frame record or NoFrame
  inp_sem,      \* slots[j].inp_semaphore count
  out_sem,      \* slots[j].out_semaphore count
  run_threads,  \* dst_engine_t::run_threads, read by every worker
  wpc,          \* program counter of worker thread j
  td_index,     \* slot the destructor's loop is at
  buffer_race   \* history: the caller touched a slot buffer while its
                \* worker was inside codec.run()

engine_vars == <<slot_index, state, inp_data, out_data, inp_sem, out_sem,
                 run_threads, wpc, td_index, buffer_race>>

DecodedFrame(p, ok) == [pos |-> p, st |-> IF ok THEN "ok" ELSE "err"]

(* Top of `while (running)` in dst_slot_t::run after a pass of the loop. *)
LoopTop == IF run_threads THEN "wait" ELSE "exited"

EngineInit ==
  /\ slot_index = 0
  /\ state = [j \in Slots |-> "EMPTY"]
  /\ inp_data = [j \in Slots |-> NoFrame]
  /\ out_data = [j \in Slots |-> NoFrame]
  /\ inp_sem = [j \in Slots |-> 0]
  /\ out_sem = [j \in Slots |-> 0]
  /\ run_threads = TRUE
  /\ wpc = [j \in Slots |-> "absent"]
  /\ td_index = 0
  /\ buffer_race = FALSE

(* dst_engine_t constructor: one thread per slot starts running          *)
(* dst_slot_t::run.  The rest of the state is EngineInit's.              *)
EngineCreate ==
  wpc' = [j \in Slots |-> "wait"]

-----------------------------------------------------------------------------
(* Worker thread j (dst_slot_t::run).                                      *)

(* inp_semaphore.acquire() returns with running set and a non-empty input *)
WorkerStart(j) ==
  /\ wpc[j] = "wait"
  /\ inp_sem[j] > 0
  /\ run_threads
  /\ inp_data[j] # NoFrame
  /\ inp_sem' = [inp_sem EXCEPT ![j] = @ - 1]
  /\ state' = [state EXCEPT ![j] = "RUNNING"]
  /\ wpc' = [wpc EXCEPT ![j] = "decoding"]
  /\ UNCHANGED <<slot_index, inp_data, out_data, out_sem, run_threads,
                 td_index, buffer_race>>

(* inp_semaphore.acquire() returns while stopping or with no input:     *)
(* out_data.clear(); out_semaphore.release(); back to the loop test.    *)
WorkerSkip(j) ==
  /\ wpc[j] = "wait"
  /\ inp_sem[j] > 0
  /\ ~run_threads \/ inp_data[j] = NoFrame
  /\ inp_sem' = [inp_sem EXCEPT ![j] = @ - 1]
  /\ out_data' = [out_data EXCEPT ![j] = NoFrame]
  /\ out_sem' = [out_sem EXCEPT ![j] = @ + 1]
  /\ wpc' = [wpc EXCEPT ![j] = LoopTop]
  /\ UNCHANGED <<slot_index, state, inp_data, run_threads, td_index,
                 buffer_race>>

(* codec.run() returns, with or without an error; the state records it, *)
(* out_semaphore.release(), back to the loop test.                      *)
WorkerFinish(j) ==
  /\ wpc[j] = "decoding"
  /\ \E ok \in BOOLEAN :
       /\ state' = [state EXCEPT ![j] = IF ok THEN "READY"
                                              ELSE "READY_WITH_ERROR"]
       /\ out_data' = [out_data EXCEPT ![j] = DecodedFrame(inp_data[j], ok)]
  /\ out_sem' = [out_sem EXCEPT ![j] = @ + 1]
  /\ wpc' = [wpc EXCEPT ![j] = LoopTop]
  /\ UNCHANGED <<slot_index, inp_data, inp_sem, run_threads, td_index,
                 buffer_race>>


-----------------------------------------------------------------------------
(* Caller-side steps of run(dsx_data).                                     *)

(* Load the frame x into slots[slot_index] (inp_data = move(dsx_data)),   *)
(* mark it LOADED and release its worker, or EMPTY when x is empty; then  *)
(* move slot_index to the oldest slot.                                    *)
(* Fault variant: slot_index advanced without the wrap-around.         *)
RunLoadNoWrap(x) ==
  LET i == slot_index IN
  /\ inp_data' = [inp_data EXCEPT ![i] = x]
  /\ out_data' = [out_data EXCEPT ![i] = NoFrame]
  /\ state' = [state EXCEPT ![i] = IF x # NoFrame THEN "LOADED" ELSE "EMPTY"]
  /\ inp_sem' = IF x # NoFrame THEN [inp_sem EXCEPT ![i] = @ + 1] ELSE inp_sem
  /\ slot_index' = i + 1
  /\ buffer_race' = (buffer_race \/ wpc[i] = "decoding")
  /\ UNCHANGED <<out_sem, run_threads, wpc, td_index>>

(* Fault variant: slot_index not advanced before the collect.         *)
RunLoadNoAdvance(x) ==
  LET i == slot_index IN
  /\ inp_data' = [inp_data EXCEPT ![i] = x]
  /\ out_data' = [out_data EXCEPT ![i] = NoFrame]
  /\ state' = [state EXCEPT ![i] = IF x # NoFrame THEN "LOADED" ELSE "EMPTY"]
  /\ inp_sem' = IF x # NoFrame THEN [inp_sem EXCEPT ![i] = @ + 1] ELSE inp_sem
  /\ buffer_race' = (buffer_race \/ wpc[i] = "decoding")
  /\ UNCHANGED <<slot_index, out_sem, run_threads, wpc, td_index>>

RunLoad(x) ==
  LET i == slot_index IN
  /\ inp_data' = [inp_data EXCEPT ![i] = x]
  /\ out_data' = [out_data EXCEPT ![i] = NoFrame]
  /\ state' = [state EXCEPT ![i] = IF x # NoFrame THEN "LOADED" ELSE "EMPTY"]
  /\ inp_sem' = IF x # NoFrame THEN [inp_sem EXCEPT ![i] = @ + 1] ELSE inp_sem
  /\ slot_index' = (i + 1) % N
  /\ buffer_race' = (buffer_race \/ wpc[i] = "decoding")
  /\ UNCHANGED <<out_sem, run_threads, wpc, td_index>>

(* The oldest slot is EMPTY: no wait, dsx_data.clear().                   *)
RunCollectEmpty ==
  /\ state[slot_index] = "EMPTY"
  /\ UNCHANGED engine_vars

(* The oldest slot is not EMPTY: out_semaphore.acquire(), then take its   *)
(* output (dsx_data = move(out_data)) when READY or READY_WITH_ERROR.     *)
(* Fault variant: try_acquire instead of acquire, no wait for the worker *)
RunCollectNoWait ==
  LET j == slot_index IN
  /\ state[j] # "EMPTY"
  /\ out_sem' = [out_sem EXCEPT ![j] = IF @ > 0 THEN @ - 1 ELSE @]
  /\ out_data' = [out_data EXCEPT ![j] = NoFrame]
  /\ buffer_race' = (buffer_race \/ wpc[j] = "decoding")
  /\ UNCHANGED <<slot_index, state, inp_data, inp_sem, run_threads, wpc,
                 td_index>>

RunCollectReady ==
  LET j == slot_index IN
  /\ state[j] # "EMPTY"
  /\ out_sem[j] > 0
  /\ out_sem' = [out_sem EXCEPT ![j] = @ - 1]
  /\ out_data' = [out_data EXCEPT ![j] = NoFrame]
  /\ buffer_race' = (buffer_race \/ wpc[j] = "decoding")
  /\ UNCHANGED <<slot_index, state, inp_data, inp_sem, run_threads, wpc,
                 td_index>>

(* Fault variant: only SLOT_READY hands its output back.               *)
CollectedReadyOnly ==
  IF state[slot_index] = "READY" THEN out_data[slot_index] ELSE NoFrame

(* What run() hands back to its caller after RunCollectReady.            *)
Collected ==
  IF state[slot_index] \in {"READY", "READY_WITH_ERROR"}
  THEN out_data[slot_index] ELSE NoFrame

-----------------------------------------------------------------------------
(* Caller-side steps of ~dst_engine_t().                                   *)

DestructStart ==
  /\ run_threads' = FALSE
  /\ td_index' = 0
  /\ UNCHANGED <<slot_index, state, inp_data, out_data, inp_sem, out_sem,
                 wpc, buffer_race>>

(* slot.state = SLOT_TERMINATING; slot.inp_semaphore.release();         *)
(* Fault variant: the worker is not woken before the join.             *)
DestructNoRelease ==
  /\ state' = [state EXCEPT ![td_index] = "TERMINATING"]
  /\ UNCHANGED <<slot_index, inp_data, out_data, inp_sem, out_sem,
                 run_threads, wpc, td_index, buffer_race>>

DestructRelease ==
  /\ state' = [state EXCEPT ![td_index] = "TERMINATING"]
  /\ inp_sem' = [inp_sem EXCEPT ![td_index] = @ + 1]
  /\ UNCHANGED <<slot_index, inp_data, out_data, out_sem, run_threads, wpc,
                 td_index, buffer_race>>

(* slot.thread.join(); slot.codec.close(); next slot.                    *)
DestructJoin ==
  /\ wpc[td_index] = "exited"
  /\ td_index' = td_index + 1
  /\ UNCHANGED <<slot_index, state, inp_data, out_data, inp_sem, out_sem,
                 run_threads, wpc, buffer_race>>

-----------------------------------------------------------------------------
EngineTypeOK(Frames) ==
  /\ slot_index \in Slots
  /\ state \in [Slots -> SlotStates]
  /\ inp_data \in [Slots -> Frames \cup {NoFrame}]
  /\ out_data \in [Slots -> [pos : Frames, st : {"ok", "err"}] \cup {NoFrame}]
  /\ inp_sem \in [Slots -> Nat]
  /\ out_sem \in [Slots -> Nat]
  /\ run_threads \in BOOLEAN
  /\ wpc \in [Slots -> WorkerPcs]
  /\ td_index \in 0 .. N
  /\ buffer_race \in BOOLEAN

=============================================================================
