----------------------------- MODULE FfmpegFrames -----------------------------
(***************************************************************************)
(* The ring of decoded frames of src/src/video/ffmpeg.c.  A renderer       *)
(* submits packets, takes frames with ffmpeg_get_frame and passes pointers *)
(* to the ring's entries to another thread.                                *)
(***************************************************************************)
EXTENDS Integers, Sequences

CONSTANTS
  FrameCount,  \* buffer_count: the entries of dec_frames
  MaxFrames,   \* bound: frames decoded
  MayFail      \* packets may yield no frame (EAGAIN, a broken packet)

VARIABLES
  dec_frames,  \* the frame each entry holds: frames are numbered from 1
  next_frame,  \* the entry the next frame goes to
  decoded      \* the number of frames decoded

frameVars == <<dec_frames, next_frame, decoded>>

Entries == 0 .. FrameCount - 1
NoFrame == 0      \* the content of an entry that was unreferenced

FramesTypeOK ==
  /\ dec_frames \in [Entries -> 0 .. MaxFrames]
  /\ next_frame \in Entries
  /\ decoded \in 0 .. MaxFrames

FramesInit ==
  /\ dec_frames = [e \in Entries |-> NoFrame]
  /\ next_frame = 0
  /\ decoded = 0

\* current_frame, the entry the last frame went to.
current_frame == (next_frame - 1) % FrameCount

NextEntry == (next_frame + 1) % FrameCount

\* avcodec_receive_frame fills the entry and the ring advances.
GetFrame ==
  /\ decoded < MaxFrames
  /\ decoded' = decoded + 1
  /\ dec_frames' = [dec_frames EXCEPT ![next_frame] = decoded + 1]
  /\ next_frame' = NextEntry

\* avcodec_receive_frame unreferences the entry it was given even when it has no
\* frame to put there.
GetNoFrame ==
  /\ MayFail
  /\ dec_frames' = [dec_frames EXCEPT ![next_frame] = NoFrame]
  /\ UNCHANGED <<next_frame, decoded>>
=============================================================================
