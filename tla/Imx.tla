--------------------------------- MODULE Imx ---------------------------------
(***************************************************************************)
(* The i.MX6 renderer (src/src/video/imx.c, imx_vpu.c).  The decoder fills *)
(* the buffers of the V4L2 output device.  Their numbers go round: through *)
(* a pipe to the main loop, to the device, and through the clear pipe back *)
(* to the receiving thread, which lets the decoder use them again.         *)
(*                                                                         *)
(* The decoder and the device are external: a packet yields one picture or *)
(* none, and a buffer can be dequeued when the one after it is shown.      *)
(***************************************************************************)
EXTENDS Integers, Sequences, SequencesExt, FiniteSets

CONSTANTS
  BufferCount,  \* regfbcount: MIN_FRAME_BUFFER_COUNT + 2 in the code
  THRESHOLD,
  MaxFrames     \* bound: frames decoded

VARIABLES
  spc,        \* receiving thread: "idle", "decode", "write", "ended", "exited"
  mpc,        \* main thread: "loop", "read", "dequeue", "exited", then as the program ends
  decoded,    \* frames decoded
  shown,      \* the frame on the screen
  content,    \* the frame in each buffer
  vpu,        \* buffers the decoder may fill
  currentFrame,
  framepipe,  \* pipefd
  clearpipe,  \* clearpipefd
  frame,      \* frame of frame_handle, or -1
  v4l,        \* buffers queued in the device, queued_count of them
  onScreen    \* how many of these have been shown, the last of them still is

imxVars == <<content, vpu, currentFrame, framepipe, clearpipe, frame, v4l, onScreen>>
threads == <<spc, mpc, decoded, shown>>

Buffers == 0 .. BufferCount - 1

ImxInit ==
  /\ content = [b \in Buffers |-> 0] /\ vpu = Buffers /\ currentFrame = 0
  /\ framepipe = <<>> /\ clearpipe = <<>> /\ frame = -1
  /\ v4l = <<>> /\ onScreen = 0

-----------------------------------------------------------------------------
(* decoder_renderer_submit_decode_unit.                                    *)

\* The numbers in the clear pipe, then vpu_decode.
ClearFrames ==
  /\ spc = "idle" /\ decoded < MaxFrames
  /\ vpu' = vpu \cup Range(clearpipe) /\ clearpipe' = <<>>
  /\ spc' = "decode"
  /\ UNCHANGED <<mpc, decoded, shown, content, currentFrame, framepipe, frame, v4l, onScreen>>

Picture(b) ==
  /\ vpu' = vpu \ {b} /\ currentFrame' = b
  /\ decoded' = decoded + 1 /\ content' = [content EXCEPT ![b] = decoded + 1]
  /\ spc' = "write"

\* vpu_decode: a picture, none, or the program ends: the decoder fails or has no
\* buffer.
VpuDecode ==
  /\ spc = "decode"
  /\ \/ \E b \in vpu : Picture(b)
     \/ spc' = "idle" /\ UNCHANGED <<vpu, currentFrame, decoded, content>>
     \/ spc' = "exited" /\ UNCHANGED <<vpu, currentFrame, decoded, content>>
  /\ UNCHANGED <<mpc, shown, framepipe, clearpipe, frame, v4l, onScreen>>

\* The pipe holds more numbers than there are buffers.
WriteFrame ==
  /\ spc = "write"
  /\ framepipe' = Append(framepipe, currentFrame)
  /\ spc' = "idle"
  /\ UNCHANGED <<mpc, decoded, shown, content, vpu, currentFrame, clearpipe, frame, v4l, onScreen>>

-----------------------------------------------------------------------------
(* frame_handle.                                                           *)

DropFrame ==                 \* variant: the number of a skipped frame is lost
  /\ mpc \in {"loop", "read"} /\ framepipe # <<>>
  /\ frame' = Head(framepipe) /\ framepipe' = Tail(framepipe) /\ mpc' = "read"
  /\ UNCHANGED <<spc, decoded, shown, content, vpu, currentFrame, clearpipe, v4l, onScreen>>

\* One number of the pipe; the one before it is skipped.
ReadFrame ==
  /\ mpc \in {"loop", "read"} /\ framepipe # <<>>
  /\ frame' = Head(framepipe) /\ framepipe' = Tail(framepipe)
  /\ clearpipe' = IF frame = -1 THEN clearpipe ELSE Append(clearpipe, frame)
  /\ mpc' = "read"
  /\ UNCHANGED <<spc, decoded, shown, content, vpu, currentFrame, v4l, onScreen>>

\* The pipe is empty: VIDIOC_QBUF, and VIDIOC_STREAMON the first time.
QueueFrame ==
  /\ mpc = "read" /\ framepipe = <<>>
  /\ v4l' = Append(v4l, frame) /\ frame' = -1
  /\ mpc' = IF Len(v4l') > THRESHOLD THEN "dequeue" ELSE "loop"
  /\ UNCHANGED <<spc, decoded, shown, content, vpu, currentFrame, framepipe, clearpipe, onScreen>>

\* VIDIOC_DQBUF waits for a buffer that has been shown.
DequeueFrame ==
  /\ mpc = "dequeue" /\ onScreen > 1
  /\ clearpipe' = Append(clearpipe, Head(v4l)) /\ v4l' = Tail(v4l) /\ onScreen' = onScreen - 1
  /\ mpc' = "loop"
  /\ UNCHANGED <<spc, decoded, shown, content, vpu, currentFrame, framepipe, frame>>

\* VIDIOC_QUERYBUF, QBUF, STREAMON or DQBUF fails: exit().
DeviceFails ==
  /\ (mpc = "read" /\ framepipe = <<>>) \/ mpc = "dequeue"
  /\ mpc' = "exited"
  /\ UNCHANGED <<spc, decoded, shown, imxVars>>

\* The device shows the next buffer.
ShowNext ==
  /\ onScreen < Len(v4l)
  /\ onScreen' = onScreen + 1 /\ shown' = content[v4l[onScreen + 1]]
  /\ UNCHANGED <<spc, mpc, decoded, content, vpu, currentFrame, framepipe, clearpipe, frame, v4l>>

-----------------------------------------------------------------------------
ImxSubmit == ClearFrames \/ VpuDecode \/ WriteFrame
ImxHandle == ReadFrame \/ QueueFrame \/ DequeueFrame

IsIn(b, S) == IF b \in S THEN 1 ELSE 0
Occurrences(s, b) == Cardinality({i \in DOMAIN s : s[i] = b})

\* Places buffer b is in: it must be one.
Places(b) ==
  IsIn(b, vpu) + IsIn(b, IF spc = "write" THEN {currentFrame} ELSE {}) + IsIn(b, {frame})
  + Occurrences(framepipe, b) + Occurrences(v4l, b) + Occurrences(clearpipe, b)

\* Every buffer is in one place, and the picture on the screen is never decoded
\* over.  (And types hold.)
ImxAccountedFor ==
  /\ content \in [Buffers -> 0 .. MaxFrames] /\ currentFrame \in Buffers
  /\ frame \in Buffers \cup {-1} /\ onScreen \in 0 .. Len(v4l)
  /\ \A b \in Buffers : Places(b) = 1
  /\ onScreen > 0 => shown = content[v4l[onScreen]]
=============================================================================
