------------------------------ MODULE X11Frames ------------------------------
(***************************************************************************)
(* The x11 renderer (src/src/video/x11.c): the receiving thread decodes    *)
(* and writes a pointer to the frame into a pipe, the main loop reads the  *)
(* pipe until it is empty and draws the last frame it got.                 *)
(***************************************************************************)
EXTENDS FfmpegFrames

CONSTANT PipeSize      \* pointers the pipe holds

VARIABLES
  spc,      \* receiving thread: "idle" between packets, "write" or "ended"
  pipe,     \* the entries whose pointers are in the pipe
  mpc,      \* main thread: "loop", "draw", "sample", then as the program ends
  entry,    \* the entry frame_handle draws
  drawn,    \* what it held when drawing began
  shown     \* the frame on the screen

vars == <<frameVars, spc, pipe, mpc, entry, drawn, shown>>

TypeOK ==
  /\ FramesTypeOK
  /\ spc \in {"idle", "write", "ended"}
  /\ pipe \in Seq(Entries) /\ Len(pipe) <= PipeSize
  /\ mpc \in {"loop", "draw", "sample", "stopping", "cleanup", "done"}
  /\ entry \in Entries
  /\ drawn \in 0 .. MaxFrames
  /\ shown \in 0 .. MaxFrames

Init ==
  /\ FramesInit
  /\ spc = "idle" /\ pipe = <<>>
  /\ mpc = "loop" /\ entry = 0 /\ drawn = 0 /\ shown = 0

-----------------------------------------------------------------------------
(* x11_submit_decode_unit.                                                 *)

Decode ==
  /\ spc = "idle"
  /\ GetFrame
  /\ spc' = "write"
  /\ UNCHANGED <<pipe, mpc, entry, drawn, shown>>

DecodeNothing ==
  /\ spc = "idle"
  /\ GetNoFrame
  /\ UNCHANGED <<spc, pipe, mpc, entry, drawn, shown>>

\* The writing end of the pipe blocks when the pipe is full.
WritePipe ==
  /\ spc = "write"
  /\ Len(pipe) < PipeSize
  /\ pipe' = Append(pipe, current_frame)
  /\ spc' = "idle"
  /\ UNCHANGED <<frameVars, mpc, entry, drawn, shown>>

-----------------------------------------------------------------------------
(* frame_handle, called by the main loop when the pipe has something.      *)

ReadPipeAfterTwo ==          \* variant: waits for a second frame
  /\ mpc = "loop" /\ Len(pipe) >= 2
  /\ entry' = pipe[Len(pipe)] /\ pipe' = <<>> /\ mpc' = "draw"
  /\ UNCHANGED <<frameVars, spc, drawn, shown>>

ReadPipe ==
  /\ mpc = "loop"
  /\ pipe # <<>>
  /\ entry' = pipe[Len(pipe)]
  /\ pipe' = <<>>
  /\ mpc' = "draw"
  /\ UNCHANGED <<frameVars, spc, drawn, shown>>

\* Drawing takes time: it starts with what the entry holds now, ...
DrawBegin ==
  /\ mpc = "draw"
  /\ drawn' = dec_frames[entry]
  /\ mpc' = "sample"
  /\ UNCHANGED <<frameVars, spc, pipe, entry, shown>>

\* ... and has been reading the entry until here.
DrawEnd ==
  /\ mpc = "sample"
  /\ shown' = dec_frames[entry]
  /\ mpc' = "loop"
  /\ UNCHANGED <<frameVars, spc, pipe, entry, drawn>>

-----------------------------------------------------------------------------
(* x11_cleanup frees the frames.                                           *)

CleanUp == dec_frames' = [e \in Entries |-> NoFrame]

-----------------------------------------------------------------------------
Submit == Decode \/ DecodeNothing \/ WritePipe
FrameHandle == ReadPipe \/ DrawBegin \/ DrawEnd
=============================================================================
