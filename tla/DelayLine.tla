----------------------------- MODULE DelayLine -----------------------------
(***************************************************************************)
(* What dst_engine_t::run() promises its caller, without threads: a delay *)
(* line of length L.  Each call takes a frame (or an empty buffer) and    *)
(* hands back the one it was given L calls earlier; the first L calls     *)
(* hand back empty buffers.  The caller then takes the result away, and  *)
(* the destructor closes the line, dropping what is still in it.         *)
(***************************************************************************)
EXTENDS Sequences, Naturals

CONSTANTS
  L,        \* the latency in calls
  Inputs,   \* the frames a caller may pass
  NoFrame   \* an empty buffer

VARIABLES
  line,     \* the frames in flight, oldest first
  result,   \* what the last call handed back and the caller still holds
  open      \* the engine has not been destroyed

Init ==
  /\ line = [k \in 1 .. L |-> NoFrame]
  /\ result = NoFrame
  /\ open = TRUE

Run(x) ==
  /\ open
  /\ LET w == line \o <<x>> IN
       /\ result' = Head(w)
       /\ line' = Tail(w)
  /\ UNCHANGED open

Take ==
  /\ result' = NoFrame
  /\ UNCHANGED <<line, open>>

Close ==
  /\ open
  /\ open' = FALSE
  /\ line' = << >>
  /\ UNCHANGED result

Next == Close \/ Take \/ \E x \in Inputs \cup {NoFrame} : Run(x)

Spec == Init /\ [][Next]_<<line, result, open>>

=============================================================================
