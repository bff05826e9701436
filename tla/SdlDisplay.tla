------------------------------ MODULE SdlDisplay ------------------------------
(***************************************************************************)
(* The SDL platform: the receiving thread decodes                          *)
(* (src/src/video/sdl.c), pushes an event for every frame, and sdl_loop    *)
(* (src/src/sdl.c) shows the frame of each event, or skips it when its     *)
(* buffer has been reused.  The end of the connection (src/src/            *)
(* connection.c) is an event as well.                                      *)
(*                                                                         *)
(* Both critical sections of `mutex' are one step each; the comparison     *)
(* that decides to skip is made outside.                                   *)
(***************************************************************************)
EXTENDS FfmpegFrames, SdlInput

CONSTANT MaxWork  \* bound: frames decoded, and gamepads plugged in, which weigh two

VARIABLES
  sdlCurrentFrame,
  sdlNextFrame,
  lpc,              \* main thread: "setup", then sdl_loop: "wait", "upload", "done"
  entry,            \* the entry of the event that is handled
  shown,            \* the frame on the screen
  conn              \* the connection: "up", "terminated", "closed"

loopVars == <<lpc, entry, shown>>
counters == <<sdlCurrentFrame, sdlNextFrame>>
vars == <<frameVars, inputVars, counters, loopVars, conn>>

SDL_BUFFER_FRAMES == FrameCount

Event == [type : {"frame"}, entry : Entries] \cup [type : {"quit", "input"}] \cup PadEvent

TypeOK ==
  /\ FramesTypeOK /\ InputTypeOK
  /\ queue \in Seq(Event) /\ Len(queue) <= QueueSize
  /\ sdlCurrentFrame \in 0 .. MaxFrames /\ sdlNextFrame \in 0 .. MaxFrames
  /\ lpc \in {"setup", "wait", "upload", "done"}
  /\ entry \in Entries
  /\ shown \in 0 .. MaxFrames
  /\ conn \in {"up", "terminated", "closed"} /\ lost \in BOOLEAN

Init ==
  /\ FramesInit /\ InputInit
  /\ sdlCurrentFrame = 0 /\ sdlNextFrame = 0
  /\ lpc = "setup" /\ entry = 0 /\ shown = 0
  /\ conn = "up"

\* What SDL and the world have to do with gamepads.
pads == <<plugs, attached, padVars>>

\* sdl_init and sdlinput_init; the connection follows.
SetUp ==
  /\ lpc = "setup" /\ lpc' = "wait"
  /\ \E n \in Pads \cup {0} : 2 * n <= MaxWork /\ sdlinput_init(n)
  /\ UNCHANGED <<frameVars, counters, entry, shown, conn>>

-----------------------------------------------------------------------------
(* sdl_submit_decode_unit: decode, then count and announce under the mutex. *)

Submit ==
  /\ lpc # "setup" /\ conn = "up" /\ decoded + 2 * plugs < MaxWork
  /\ GetFrame
  /\ sdlNextFrame' = sdlNextFrame + 1
  /\ PushEvent([type |-> "frame", entry |-> next_frame])
  /\ UNCHANGED <<pads, sdlCurrentFrame, loopVars, conn>>

SubmitNothing ==
  /\ lpc # "setup" /\ conn = "up"
  /\ GetNoFrame
  /\ UNCHANGED <<pads, queue, lost, counters, loopVars, conn>>

-----------------------------------------------------------------------------
(* Other events.                                                           *)

\* connection_terminated.
ConnectionTerminated ==
  /\ lpc # "setup" /\ conn = "up"
  /\ conn' = "terminated"
  /\ PushEvent([type |-> "quit"])
  /\ UNCHANGED <<pads, frameVars, counters, loopVars>>

\* The user: keys and the mouse.  Bound: SDL has at most one unread event of the
\* user, this or a gamepad's.
Input ==
  /\ lpc # "setup"
  /\ \A k \in DOMAIN queue : queue[k].type \notin {"input", "button"}
  /\ PushEvent([type |-> "input"])
  /\ UNCHANGED <<pads, frameVars, counters, loopVars, conn>>

-----------------------------------------------------------------------------
(* sdl_loop.                                                               *)

First(type) == lpc = "wait" /\ queue # <<>> /\ Head(queue).type = type

SkippedLate(k) == k <= sdlNextFrame - SDL_BUFFER_FRAMES - 1  \* variant: < for <=

Skipped(k) == k <= sdlNextFrame - SDL_BUFFER_FRAMES

FrameEvent ==
  /\ First("frame")
  /\ queue' = Tail(queue)
  /\ sdlCurrentFrame' = sdlCurrentFrame + 1
  /\ \/ Skipped(sdlCurrentFrame + 1) /\ UNCHANGED <<lpc, entry>>
     \/ ~Skipped(sdlCurrentFrame + 1) /\ lpc' = "upload" /\ entry' = Head(queue).entry
  /\ UNCHANGED <<pads, lost, frameVars, sdlNextFrame, shown, conn>>

\* SDL_UpdateYUVTexture under the mutex, which takes nothing from an empty buffer, and
\* SDL_RenderPresent.
Upload ==
  /\ lpc = "upload"
  /\ shown' = IF dec_frames[entry] = NoFrame THEN shown ELSE dec_frames[entry]
  /\ lpc' = "wait"
  /\ UNCHANGED <<pads, lost, frameVars, queue, counters, entry, conn>>

\* SDL_QUIT.
QuitEvent ==
  /\ First("quit")
  /\ queue' = Tail(queue)
  /\ lpc' = "done"
  /\ UNCHANGED <<pads, lost, frameVars, counters, entry, shown, conn>>

\* sdlinput_handle_event for a gamepad; the quit combo ends the loop.
PadEventRead ==
  /\ lpc = "wait" /\ queue # <<>>
  /\ queue' = Tail(queue)
  /\ HandlePad(Head(queue))
  /\ lpc' = IF Quits(Head(queue)) THEN "done" ELSE "wait"
  /\ UNCHANGED <<plugs, attached, lost, frameVars, counters, entry, shown, conn>>

PadNotOpened ==
  /\ First("added")
  /\ queue' = Tail(queue)
  /\ OpenFails(Head(queue).pad)
  /\ UNCHANGED <<lost, frameVars, counters, loopVars, conn>>

\* The same for a key: its quit combo is the user's choice.
InputEvent ==
  /\ First("input")
  /\ queue' = Tail(queue)
  /\ lpc' \in {"wait", "done"}
  /\ UNCHANGED <<pads, lost, frameVars, counters, entry, shown, conn>>

\* LiStopConnection.
Close ==
  /\ lpc = "done"
  /\ conn' = "closed"
  /\ UNCHANGED <<pads, lost, frameVars, queue, counters, loopVars>>

-----------------------------------------------------------------------------

Loop == FrameEvent \/ Upload \/ QuitEvent \/ InputEvent \/ PadEventRead \/ PadNotOpened \/ Close

\* SDL_Quit follows the loop.
PadsMove ==
  /\ lpc \notin {"setup", "done"}
  /\ World /\ decoded + 2 * plugs' <= MaxWork
  /\ UNCHANGED <<frameVars, counters, loopVars, conn>>

Next == SetUp \/ Submit \/ SubmitNothing \/ ConnectionTerminated \/ Input \/ PadsMove \/ Loop

-----------------------------------------------------------------------------
(* Properties.                                                             *)

FramesQueued == Cardinality({k \in DOMAIN queue : queue[k].type = "frame"})

\* The host sees the gamepads that are plugged in, under the numbers of the table
\* and with the buttons that are held, once the program has read everything: no
\* number of a gamepad that left stays taken or pressed, whichever gamepad takes
\* its entry (input/sdl.c:421, "disconnection of the virtual controller").  Every controller
\* is open exactly once as long as its gamepad has an entry, and closed after that,
\* though sdlinput_init has opened what SDL announces later.  Only more gamepads
\* than entries, and events for which SDL had no room, break that; a gamepad SDL could
\* not open counts as not plugged in (OpenFails).  (And types hold.)
HostSeesPads ==
  /\ TypeOK
  /\ PadsRead /\ lpc \notin {"setup", "done"} /\ ~lost =>
       /\ host.mask = Initialized
       /\ \A i \in Initialized : LET p == gamepads[i].sdl_id IN
            p \in DOMAIN attached /\ host.buttons[i] = attached[p]
       /\ Overflown \/ \A p \in DOMAIN attached : Holding(p) # {}
  /\ Overflown \/ \A p \in Pads : refs[p] = Cardinality(Holding(p))

\* A frame that is still in its buffer is never skipped, and at the check that decides
\* it the buffer holds the frame of the event: the number sdl_loop gives an event is
\* that of its frame, the frames in the queue being the difference of the two counters,
\* and agrees with the ring of ffmpeg_get_frame, though packets may yield no frame and
\* empty a buffer.  The upload shows that frame, too, unless the receiving thread has
\* decoded FrameCount frames more by then: the check is made before the mutex is taken,
\* and a frame that came between the two (sdl.c:99-101) is shown in the event's place,
\* a later one, so that the picture of the next event may be an older one.  An event
\* that SDL had no room for leaves the counters apart for good.
NumbersAgree == sdlNextFrame = sdlCurrentFrame + FramesQueued

SkipsOnlyOverwritten ==
  [][~lost' =>
       /\ NumbersAgree'
       /\ sdlCurrentFrame' = sdlCurrentFrame + 1 =>
            LET there == dec_frames[Head(queue).entry] IN
            IF lpc' = "upload" THEN there \in {sdlCurrentFrame', NoFrame}
                               ELSE there # sdlCurrentFrame'
       /\ lpc = "upload" /\ lpc' # "upload" /\ dec_frames[entry] # NoFrame =>
            IF decoded < sdlCurrentFrame + FrameCount THEN shown' = sdlCurrentFrame
                                                      ELSE shown' > sdlCurrentFrame]_vars

=============================================================================
