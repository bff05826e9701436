------------------------------ MODULE Streaming ------------------------------
(***************************************************************************)
(* A program from its start to the end of its stream: the configuration,   *)
(* the platform, and then one of the renderers with the two threads that   *)
(* use it, the main thread and the receiving thread of the streaming       *)
(* library.  (The Rockchip renderer is RkDisplay's; platform fake has      *)
(* none.)                                                                  *)
(*                                                                         *)
(* Nothing reads the configuration once the stream runs, and this program  *)
(* is the last of a behaviour: what was read is forgotten then.            *)
(***************************************************************************)
EXTENDS Startup

CONSTANTS
  FrameCount, MaxFrames, MayFail, PipeSize,                            \* X11Frames
  QueueSize, MAX_GAMEPADS, MaxPlugs, Buttons, QUIT_BUTTONS, MaxWork,   \* SdlDisplay
  BufferCount, THRESHOLD,                                              \* Imx
  Units, InBuffers, OutBuffers,                                        \* Mmal, Pi
  MAX_WRITE_ATTEMPTS, CodecSize, VideoBuffers                          \* Aml

ASSUME StreamingAssumption ==
  /\ {FrameCount, PipeSize, QueueSize, MAX_GAMEPADS, BufferCount, InBuffers, MAX_WRITE_ATTEMPTS}
       \subseteq Nat \ {0}
  /\ {MaxFrames, MaxPlugs, MaxWork, THRESHOLD, OutBuffers, CodecSize, VideoBuffers} \subseteq Nat
  /\ MayFail \in BOOLEAN /\ QUIT_BUTTONS \subseteq Buttons /\ QUIT_BUTTONS # {}

VARIABLES
  renderer,                                                 \* in use: "none", "x11", ...
  spc, mpc, decoded, shown,                                 \* shared by the renderers
  dec_frames, next_frame, pipe, entry, drawn,               \* X11Frames
  queue, lost, plugs, attached, refs, gamepads, activeGamepadMask, sdl_gamepads, host,
  sdlCurrentFrame, sdlNextFrame, lpc, conn,                 \* SdlDisplay
  content, vpu, currentFrame, framepipe, clearpipe, frame, v4l, onScreen,  \* Imx
  unit, held, poolIn, inDecoder,                            \* Mmal, Pi
  semaphore, posting, poolOut, outDecoder, inRenderer,      \* Mmal
  announced, event, port_settings_changed,                  \* Pi
  length, errCounter, codec, pictures, dpc, done            \* Aml

X == INSTANCE X11Frames
D == INSTANCE SdlDisplay
I == INSTANCE Imx
M == INSTANCE Mmal
P == INSTANCE Pi
A == INSTANCE Aml

startVars == <<settingsVars, startupVars, renderer>>
x11Vars == <<dec_frames, next_frame, pipe, entry, drawn>>
sdlVars == <<queue, lost, plugs, attached, refs, gamepads, activeGamepadMask, sdl_gamepads, host,
             sdlCurrentFrame, sdlNextFrame, lpc, conn>>
imxVars == <<content, vpu, currentFrame, framepipe, clearpipe, frame, v4l, onScreen>>
bufferVars == <<unit, held, poolIn, inDecoder>>
mmalVars == <<semaphore, posting, poolOut, outDecoder, inRenderer>>
piVars == <<announced, event, port_settings_changed>>
amlVars == <<length, errCounter, codec, dpc, done>>
streamVars == <<spc, mpc, decoded, shown, x11Vars, sdlVars, imxVars, bufferVars, mmalVars, piVars,
                amlVars, pictures>>
vars == <<startVars, streamVars>>

Init ==
  /\ StartupInit /\ renderer = "none"
  /\ X!Init /\ D!Init /\ I!ImxInit /\ M!InputsInit /\ M!MmalInit /\ P!PiInit /\ A!AmlInit

-----------------------------------------------------------------------------
(* The stream begins.                                                      *)

RendererOf == [s \in {"X11", "X11_VAAPI", "SDL", "IMX", "MMAL", "PI", "AML"} |->
                 IF s \in {"X11", "X11_VAAPI"} THEN "x11" ELSE s]

Start ==
  /\ StartupNext
  /\ UNCHANGED <<renderer, streamVars>>

\* The host chooses a format and the renderer accepts it: what else LiStartConnection
\* may come to is Session's matter.
Connect ==
  /\ AboutToStream /\ system \in DOMAIN RendererOf
  /\ \E f \in formats : Accepts(system, f, machine)
  /\ renderer' = RendererOf[system]
  /\ IF system = "AML" THEN A!aml_setup ELSE UNCHANGED dpc
  /\ files' = [f \in {} |-> <<>>] /\ config' = Default
  /\ args' = <<>> /\ arg' = 0 /\ open' = <<>> /\ handles' = 0 /\ programs' = 0
  /\ saved' = [file |-> Unset, config |-> Default]
  /\ machine' = CHOOSE m \in Machines : TRUE
  /\ system' = "NONE" /\ formats' = {}
  /\ UNCHANGED <<stage, spc, mpc, decoded, shown, x11Vars, sdlVars, imxVars, bufferVars, mmalVars,
                 piVars, length, errCounter, codec, done, pictures>>

-----------------------------------------------------------------------------
(* The renderers.  Packets come until LiStopConnection.                    *)

Receiving == mpc \notin {"stopping", "cleanup", "renderer", "join", "done"}

X11 == renderer = "x11" /\ UNCHANGED <<startVars, sdlVars, imxVars, bufferVars, mmalVars, piVars, amlVars, pictures>>
SDL == renderer = "SDL" /\ UNCHANGED <<startVars, spc, mpc, pipe, drawn, imxVars, bufferVars, mmalVars,
                                       piVars, amlVars, pictures>>
IMX == renderer = "IMX" /\ UNCHANGED <<startVars, x11Vars, sdlVars, bufferVars, mmalVars, piVars, amlVars, pictures>>
MMAL == renderer = "MMAL" /\ UNCHANGED <<startVars, mpc, decoded, shown, x11Vars, sdlVars, imxVars,
                                         piVars, amlVars>>
PI == renderer = "PI" /\ UNCHANGED <<startVars, mpc, decoded, shown, x11Vars, sdlVars, imxVars, mmalVars,
                                     amlVars, pictures>>
AML == renderer = "AML" /\ UNCHANGED <<startVars, decoded, shown, x11Vars, sdlVars, imxVars, bufferVars,
                                       mmalVars, piVars>>

\* The receiving thread: what it begins and what it owes once it has begun.
Packet ==
  \/ X11 /\ Receiving /\ (X!Decode \/ X!DecodeNothing)
  \/ SDL /\ (D!Submit \/ D!SubmitNothing)
  \/ IMX /\ Receiving /\ I!ClearFrames
  \/ MMAL /\ Receiving /\ \E u \in Units : M!BeginUnit(u)
  \/ PI /\ Receiving /\ \E u \in Units : P!BeginUnit(u)
  \/ AML /\ Receiving /\ A!BeginPacket

Submit ==
  \/ X11 /\ X!WritePipe
  \/ IMX /\ (I!VpuDecode \/ I!WriteFrame)
  \/ MMAL /\ M!MmalSubmit
  \/ PI /\ P!PiSubmit
  \/ AML /\ A!AmlSubmit

Failure ==
  \/ MMAL /\ M!CopyFails
  \/ PI /\ P!SendFails
  \/ IMX /\ I!DeviceFails
  \/ AML /\ (A!WriteFails \/ A!DisplayFails)

\* The main thread in its loop.
Handle ==
  \/ X11 /\ X!FrameHandle
  \/ IMX /\ I!ImxHandle
  \/ SDL /\ (D!SetUp \/ D!Loop)

\* Decoders, devices and the threads of libraries.
Devices ==
  \/ IMX /\ I!ShowNext
  \/ MMAL /\ M!Callbacks
  \/ PI /\ mpc # "done" /\ P!Decoder
  \/ AML /\ A!Display

Others ==
  \/ MMAL /\ M!OutputCallbacks
  \/ AML /\ A!CodecDecodes
  \/ SDL /\ (D!ConnectionTerminated \/ D!Input \/ D!PadsMove)

-----------------------------------------------------------------------------
(* The end of the stream, but for SDL's.                                   *)

\* A signal or the quit combo.
LeaveLoop ==
  /\ renderer \notin {"none", "SDL"} /\ mpc = "loop"
  /\ mpc' = "stopping"
  /\ UNCHANGED <<startVars, spc, decoded, shown, x11Vars, sdlVars, imxVars, bufferVars, mmalVars, piVars,
                 amlVars, pictures>>

\* LiStopConnection joins the receiving thread.
EndSubmit ==
  /\ mpc = "stopping" /\ spc = "idle"
  /\ spc' = "ended" /\ mpc' = "cleanup"
  /\ UNCHANGED <<startVars, decoded, shown, x11Vars, sdlVars, imxVars, bufferVars, mmalVars, piVars,
                 amlVars, pictures>>

\* The renderer's cleanup.
X11CleanUp ==
  /\ X11 /\ mpc = "cleanup" /\ X!CleanUp /\ mpc' = "done"
  /\ UNCHANGED <<spc, decoded, shown, next_frame, pipe, entry, drawn>>

ImxCleanUp == IMX /\ mpc = "cleanup" /\ mpc' = "done" /\ UNCHANGED <<spc, decoded, shown, imxVars>>

BoardCleanUp ==
  /\ \/ renderer = "MMAL" /\ M!MmalCleanUp /\ UNCHANGED piVars
     \/ renderer = "PI" /\ P!PiCleanUp /\ UNCHANGED <<mmalVars, pictures>>
  /\ UNCHANGED <<startVars, decoded, shown, x11Vars, sdlVars, imxVars, amlVars>>

CleanUp ==
  \/ X11CleanUp
  \/ ImxCleanUp
  \/ AML /\ (A!AmlCleanUp \/ A!Join)
  \/ BoardCleanUp

-----------------------------------------------------------------------------
\* pi.c, imx.c and imx_vpu.c call exit() when something fails: nothing runs any more.
Running == spc # "exited" /\ mpc # "exited"

Next ==
  \/ Start
  \/ Connect
  \/ Running /\ (Packet \/ Submit \/ Failure \/ Handle \/ Devices \/ Others)
  \/ Running /\ (LeaveLoop \/ EndSubmit \/ CleanUp)

Spec == Init /\ [][Next]_vars

\* The threads run and the devices go on; the host owes no packet and the user
\* nothing.
FairSpec ==
  /\ Spec
  /\ WF_vars(Running /\ Submit)
  /\ WF_vars(Running /\ (Handle \/ EndSubmit \/ CleanUp))
  /\ WF_vars(Running /\ Devices)

-----------------------------------------------------------------------------
(* Properties.                                                             *)

HostSeesPads == renderer = "SDL" => D!HostSeesPads
SkipsOnlyOverwritten == D!SkipsOnlyOverwritten

\* Buffers that travel between the threads, the decoder and the display are neither
\* lost nor in two hands, no token is posted for a buffer that is not there, and the
\* codec and the video device of AMLogic are open while one of its threads uses them.
\* (Of MMAL's cleanup that is not so: it destroys the decoder, which the callback of
\* the renderer still looks at, mmal.c:60 and 214-218.)
BuffersAccountedFor ==
  /\ renderer = "x11" => X!TypeOK
  /\ renderer = "IMX" => I!ImxAccountedFor
  /\ renderer = "MMAL" => M!MmalAccountedFor
  /\ renderer = "PI" => P!PiAccountedFor
  /\ renderer = "AML" => A!AmlOpenInUse

\* When a stream of x11, SDL or i.MX6 pauses, its last frame gets to the screen, unless
\* SDL had no room for an event.  (Every stream of the model pauses for good sooner or
\* later: at MaxFrames.)  The Raspberry Pi and AMLogic decode and show in one: their
\* frames are not counted here.  MMAL's last picture may wait, since output buffers go
\* back to the decoder with the next packet only (mmal.c:279-283).
ShowsItself == {"x11", "SDL", "IMX"}
Ended == mpc \in {"stopping", "cleanup", "done"} \/ lpc = "done" \/ ~Running
LastFrameShown == []<>(renderer \in ShowsItself => shown = decoded \/ Ended \/ lost)

\* The receiving thread is stuck for good: the pipe is full and nobody reads it, an
\* error of MMAL took the semaphore with it, or the decoder of OpenMAX waits for a
\* tunnel and has all the buffers.
Stuck ==
  \/ renderer = "x11" /\ spc = "write" /\ Len(pipe) = PipeSize
  \/ renderer = "MMAL" /\ M!TokenLost
  \/ renderer = "PI" /\ P!Starved

\* A program that leaves its loop ends, whatever the receiving thread and the
\* devices are doing.  Not so when that thread is stuck.
StreamEnds == mpc = "stopping" ~> (mpc = "done" \/ ~Running \/ Stuck)
=============================================================================
