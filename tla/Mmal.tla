--------------------------------- MODULE Mmal ---------------------------------
(***************************************************************************)
(* The MMAL renderer of the Raspberry Pi (src/src/video/mmal.c).  A        *)
(* semaphore of one lets the receiving thread fill one input buffer at a   *)
(* time; output buffers travel from their pool to the decoder, to the      *)
(* renderer and back.  The cleanup destroys the decoder first.             *)
(*                                                                         *)
(* The components are external: the decoder takes every input buffer in    *)
(* time, whether or not it has an output buffer, and reports it by the     *)
(* callback, as does the renderer.  Bound: the decoder keeps no more       *)
(* pictures than it has output buffers.                                    *)
(***************************************************************************)
EXTENDS Integers, Sequences

CONSTANTS
  Units,       \* decode units: sequences of entries, "SPS", "PPS" or "PICDATA"
  InBuffers,   \* buffer_num of the decoder's input: 5 in the code
  OutBuffers   \* buffer_num of its output: 3 in the code

VARIABLES
  spc,         \* receiving thread: "idle", "entries", "outputs", "ended"
  mpc,         \* main thread: "cleanup", "renderer", "done", or "exited"
  unit,        \* entries of the unit that are not sent
  held,        \* buf: the receiving thread has an input buffer
  poolIn,      \* buffers in pool_in
  inDecoder,   \* buffers in the decoder's input
  semaphore,
  posting,     \* input_callback has released a buffer and not posted yet
  poolOut,     \* buffers in pool_out
  outDecoder,  \* ... in the decoder's output
  inRenderer,  \* ... in the renderer
  pictures     \* pictures the decoder has and has no buffer for yet

inputVars == <<unit, held, poolIn, inDecoder>>
mmalVars == <<semaphore, posting, poolOut, outDecoder, inRenderer, pictures>>

InputsInit == unit = <<>> /\ held = FALSE /\ poolIn = InBuffers /\ inDecoder = 0
MmalInit ==
  /\ semaphore = 1 /\ posting = FALSE
  /\ poolOut = OutBuffers /\ outDecoder = 0 /\ inRenderer = 0 /\ pictures = 0

-----------------------------------------------------------------------------
(* decoder_renderer_submit_decode_unit.                                    *)

BeginUnit(u) ==
  /\ spc = "idle" /\ spc' = "entries" /\ unit' = u
  /\ UNCHANGED <<held, poolIn, inDecoder, mmalVars>>

\* The semaphore, and a buffer of the pool; without one the unit is given up.
GetBuffer ==
  /\ spc = "entries" /\ unit # <<>> /\ ~held
  /\ semaphore > 0 /\ semaphore' = semaphore - 1
  /\ IF poolIn > 0 THEN held' = TRUE /\ poolIn' = poolIn - 1 /\ UNCHANGED <<spc, unit>>
     ELSE spc' = "idle" /\ unit' = <<>> /\ UNCHANGED <<held, poolIn>>
  /\ UNCHANGED <<inDecoder, posting, poolOut, outDecoder, inRenderer, pictures>>

\* A buffer holds an entry that is not picture data, or the picture data that follow
\* one another.
EndsBuffer == ~(Len(unit) > 1 /\ Head(unit) = "PICDATA" /\ unit[2] = "PICDATA")

CopyEntry ==
  /\ spc = "entries" /\ held
  /\ IF EndsBuffer THEN held' = FALSE /\ inDecoder' = inDecoder + 1
                   ELSE UNCHANGED <<held, inDecoder>>
  /\ unit' = Tail(unit)
  /\ UNCHANGED <<spc, poolIn, mmalVars>>

\* The buffer is too small or not accepted: it is released, and the unit given up.
\* The semaphore stays taken.
CopyFails ==
  /\ spc = "entries" /\ held
  /\ held' = FALSE /\ poolIn' = poolIn + 1
  /\ spc' = "idle" /\ unit' = <<>>
  /\ UNCHANGED <<inDecoder, mmalVars>>

AllSent ==
  /\ spc = "entries" /\ unit = <<>> /\ spc' = "outputs"
  /\ UNCHANGED <<inputVars, mmalVars>>

\* The output buffers there are go to the decoder; one that is refused is back in
\* the pool, and tried again.
GiveOutput ==
  /\ spc = "outputs"
  /\ IF poolOut > 0
     THEN poolOut' = poolOut - 1 /\ outDecoder' = outDecoder + 1 /\ UNCHANGED spc
     ELSE spc' = "idle" /\ UNCHANGED <<poolOut, outDecoder>>
  /\ UNCHANGED <<inputVars, semaphore, posting, inRenderer, pictures>>

-----------------------------------------------------------------------------
(* The callbacks, in a thread of the library.                              *)

\* input_callback of the decoder: release, ...  The buffer may have held a picture.
ReleaseInput ==
  /\ inDecoder > 0 /\ ~posting
  /\ pictures' \in {pictures, pictures + 1} /\ pictures' <= OutBuffers
  /\ inDecoder' = inDecoder - 1 /\ poolIn' = poolIn + 1 /\ posting' = TRUE
  /\ UNCHANGED <<spc, unit, held, semaphore, poolOut, outDecoder, inRenderer>>

\* ... then post.
PostSemaphore ==
  /\ posting /\ posting' = FALSE /\ semaphore' = semaphore + 1
  /\ UNCHANGED <<spc, inputVars, poolOut, outDecoder, inRenderer, pictures>>

\* output_callback: a frame for the renderer, which may refuse it.
OutputCallback ==
  /\ pictures > 0 /\ pictures' = pictures - 1
  /\ outDecoder > 0 /\ outDecoder' = outDecoder - 1
  /\ \/ inRenderer' = inRenderer + 1 /\ UNCHANGED poolOut
     \/ poolOut' = poolOut + 1 /\ UNCHANGED inRenderer
  /\ UNCHANGED <<spc, inputVars, semaphore, posting>>

ReleaseAndPost ==            \* variant: posts for the renderer's port as well
  /\ inRenderer > 0 /\ inRenderer' = inRenderer - 1 /\ poolOut' = poolOut + 1
  /\ semaphore' = semaphore + 1
  /\ UNCHANGED <<spc, inputVars, posting, outDecoder, pictures>>

\* input_callback of the renderer: the port is not the decoder's.
ReleaseOutput ==
  /\ mpc # "renderer"
  /\ inRenderer > 0 /\ inRenderer' = inRenderer - 1 /\ poolOut' = poolOut + 1
  /\ UNCHANGED <<spc, inputVars, semaphore, posting, outDecoder, pictures>>

-----------------------------------------------------------------------------
(* decoder_renderer_cleanup.  A component that is destroyed hands back the *)
(* buffers of its ports by their callbacks, and waits for that.            *)

\* mmal_component_destroy(decoder): output_callback sends the empty buffers on.
HandBack ==
  /\ mpc = "cleanup" /\ outDecoder > 0 /\ outDecoder' = outDecoder - 1
  /\ \/ inRenderer' = inRenderer + 1 /\ UNCHANGED poolOut
     \/ poolOut' = poolOut + 1 /\ UNCHANGED inRenderer
  /\ UNCHANGED <<spc, mpc, inputVars, semaphore, posting, pictures>>

DestroyDecoder ==
  /\ mpc = "cleanup" /\ inDecoder = 0 /\ ~posting /\ outDecoder = 0
  /\ mpc' = "renderer" /\ pictures' = 0
  /\ UNCHANGED <<spc, inputVars, semaphore, posting, poolOut, outDecoder, inRenderer>>

\* input_callback of the renderer compares with decoder->input[0], which is freed: it
\* may find its own port there, or no memory at all.
ReleaseLate ==
  /\ mpc = "renderer"
  /\ inRenderer > 0 /\ inRenderer' = inRenderer - 1 /\ poolOut' = poolOut + 1
  /\ \/ semaphore' \in {semaphore, semaphore + 1} /\ UNCHANGED mpc
     \/ mpc' = "exited" /\ UNCHANGED semaphore
  /\ UNCHANGED <<spc, inputVars, posting, outDecoder, pictures>>

\* mmal_component_destroy(renderer), the pools and the semaphore.
DestroyRenderer ==
  /\ mpc = "renderer" /\ inRenderer = 0 /\ mpc' = "done"
  /\ UNCHANGED <<spc, inputVars, mmalVars>>

-----------------------------------------------------------------------------
MmalCleanUp == HandBack \/ DestroyDecoder \/ ReleaseLate \/ DestroyRenderer
MmalSubmit == GetBuffer \/ CopyEntry \/ AllSent \/ GiveOutput
Callbacks == ReleaseInput \/ PostSemaphore
OutputCallbacks == OutputCallback \/ ReleaseOutput

InUse(c) == IF c THEN 1 ELSE 0

\* An error took the semaphore for good: nobody is left to post.
TokenLost == semaphore = 0 /\ ~held /\ inDecoder = 0 /\ ~posting

\* No buffer is lost or in two places, and the semaphore is free only when a buffer
\* is: "Video buffer full" (mmal.c:242) is not reached.  Once the decoder is destroyed
\* nothing is said of the semaphore, which ReleaseLate may post.
MmalAccountedFor ==
  /\ spc \in {"idle", "entries", "outputs", "ended"}
  /\ poolIn + inDecoder + InUse(held) = InBuffers
  /\ poolOut + outDecoder + inRenderer = OutBuffers
  /\ mpc \notin {"renderer", "done", "exited"} =>
       /\ semaphore + inDecoder + InUse(held) + InUse(posting) \in 0 .. 1
       /\ semaphore > 0 => poolIn > 0
=============================================================================
