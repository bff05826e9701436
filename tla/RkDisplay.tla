------------------------------ MODULE RkDisplay ------------------------------
(***************************************************************************)
(* The Rockchip renderer (src/src/video/rk.c): packets go into the MPP     *)
(* decoder, the frame thread takes decoded frames out and hands the last   *)
(* one over in fb_id, the display thread puts it on the screen, and        *)
(* rk_cleanup ends both threads.                                           *)
(*                                                                         *)
(* The critical sections of `mutex' are one step each; frm_eos is read and *)
(* written outside of them.  So is drm_request, to which three threads add *)
(* properties when the stream has 10 bits: the plane's place, its rotation *)
(* and the frame to show are left out of it.                               *)
(***************************************************************************)
EXTENDS Naturals, Sequences

CONSTANTS
  MaxFrames,     \* bound: packets submitted, each decodes to one frame
  QueueSize,     \* bound: packets, and frames, the decoder can hold
  MaxRetries,    \* the 3 of frame_thread: its retries without a frame
  ColourSpaces,  \* COLORSPACE_* of the decode units
  MaxToggles     \* bound: changes of HDR or colour space in the stream

ASSUME RkAssumption ==
  /\ {MaxFrames, MaxRetries, MaxToggles} \subseteq Nat /\ QueueSize \in Nat \ {0}
  /\ "unknown" \notin ColourSpaces

VARIABLES
  fbId,     \* fb_id: the frame to display next, 0 for none
  eos,      \* frm_eos
  mutexOk,  \* mutex and cond are initialised
  grp,      \* mpi_frm_grp and the framebuffers exist
  dpc,      \* display thread
  taken,    \* its _fb_id
  shown,    \* the frame on the screen
  fpc,      \* frame thread
  frame,    \* its frame, 0 for none
  retries,  \* its count
  spc,      \* the thread that submits decode units
  sent,     \* packets submitted
  inq,      \* packets in the decoder
  outq,     \* frames it has decoded; 0 announces a (new) resolution
  mpc,      \* main thread
  atomic,    \* properties and frames go to the kernel in atomic commits
  look, toggles,     \* last_hdr_state and last_colorspace; times they changed
  request, garbled,  \* drm_request, and whether a race has damaged it
  screen     \* the properties the connector and the plane have

drmVars == <<atomic, look, toggles, request, garbled, screen>>
vars == <<fbId, eos, mutexOk, grp, dpc, taken, shown, fpc, frame, retries,
          spc, sent, inq, outq, mpc, drmVars>>

displayVars == <<dpc, taken, shown>>
frameVars == <<fpc, frame, retries>>
inputVars == <<spc, sent>>

Frames == 0 .. MaxFrames
Info == 0           \* what mpp_frame_get_info_change tells from a frame

Looks == [hdr : BOOLEAN, colours : ColourSpaces]
NoLook == [hdr |-> FALSE, colours |-> "unknown"]
ColorspaceFor(l) == IF l.hdr THEN "bt2020" ELSE "default"
EotfFor(l) == IF l.hdr THEN "pq" ELSE "sdr"

\* HDR_OUTPUT_METADATA (with the blob it names), allm_enable and Colorspace of
\* the connector, EOTF and COLOR_SPACE of the plane.
Properties == [meta : BOOLEAN, allm : BOOLEAN, colorspace : {"default", "bt2020"},
               eotf : {"unknown", "sdr", "pq"}, colours : ColourSpaces \cup {"unknown"}]
ConnectorDefaults == [meta |-> FALSE, allm |-> FALSE, colorspace |-> "default"]

\* Properties ps over those of s.
Over(ps, s) == [p \in DOMAIN ps \cup DOMAIN s |-> IF p \in DOMAIN ps THEN ps[p] ELSE s[p]]

Packet == [n : 1 .. MaxFrames, changes : BOOLEAN]

TypeOK ==
  /\ fbId \in Frames /\ taken \in Frames /\ shown \in Frames /\ frame \in Frames
  /\ eos \in BOOLEAN /\ mutexOk \in BOOLEAN /\ grp \in BOOLEAN
  /\ dpc \in {"top", "lock", "waiting", "woken", "commit", "ended"}
  /\ fpc \in {"top", "get", "info", "send", "eos", "ended"}
  /\ retries \in 0 .. MaxRetries
  /\ spc \in {"idle", "properties", "put"} /\ sent \in Frames
  /\ inq \in Seq(Packet) /\ Len(inq) <= QueueSize
  /\ outq \in Seq(Frames) /\ Len(outq) <= QueueSize
  /\ mpc \in {"setup", "plane", "mpi", "failed", "streaming", "stopping", "cleanup",
              "signal", "joinDisplay", "destroy", "reset", "joinFrame", "free", "restore",
              "done", "unrestored", "aborted"}
  /\ {atomic, garbled} \subseteq BOOLEAN
  /\ look \in Looks \cup {NoLook} /\ toggles \in 0 .. MaxToggles
  /\ screen \in Properties
  /\ Over(request, screen) \in Properties

\* What an earlier program has left the plane with is not known.
Init ==
  /\ fbId = 0 /\ eos = FALSE /\ mutexOk = TRUE /\ grp = FALSE
  /\ dpc = "top" /\ taken = 0 /\ shown = 0
  /\ fpc = "top" /\ frame = 0 /\ retries = 0
  /\ spc = "idle" /\ sent = 0
  /\ inq = <<>> /\ outq = <<>>
  /\ mpc = "setup"
  /\ atomic = FALSE
  /\ look = NoLook /\ toggles = 0
  /\ request = <<>> /\ garbled = FALSE
  /\ screen = Over(ConnectorDefaults, [eotf |-> "unknown", colours |-> "unknown"])

\* The threads have been started, and the program has not been aborted.
Alive == mpc \notin {"setup", "plane", "mpi", "failed", "aborted"}

\* set_property: into the request, or at once.  s is the screen besides.
SetProperties(ps, s) ==
  IF atomic THEN request' = Over(ps, request) /\ screen' = s
            ELSE screen' = Over(ps, s) /\ UNCHANGED request

\* What a successful drmModeAtomicCommit can make of the screen: nobody can say which
\* part of a damaged request the kernel sees.
Commits(req, damaged) == {Over(req, screen)} \cup (IF damaged THEN {screen} ELSE {})

-----------------------------------------------------------------------------
(* rk_setup: the output, the plane, the decoder and the threads.           *)

setupUnchanged == UNCHANGED <<fbId, eos, mutexOk, grp, displayVars, frameVars, inputVars,
                              inq, outq, look, toggles, request, garbled, screen>>

\* The format must be supported and a monitor connected.  Atomic commits are for
\* 10-bit streams, if the device can do them.
ChooseOutput ==
  /\ mpc = "setup"
  /\ \/ mpc' \in {"failed", "aborted"} /\ UNCHANGED atomic
     \/ mpc' = "plane" /\ atomic' \in BOOLEAN
  /\ setupUnchanged

ChoosePlane ==
  /\ mpc = "plane"
  /\ mpc' \in {"failed", "mpi"}
  /\ UNCHANGED atomic /\ setupUnchanged

StartThreads ==
  /\ mpc = "mpi"
  /\ mpc' \in {"failed", "aborted", "streaming"}
  /\ UNCHANGED atomic /\ setupUnchanged

-----------------------------------------------------------------------------
(* Submitting, and the decoder (external).                                 *)

\* The first unit always differs: last_colorspace starts with no colour space.
Submit ==
  /\ mpc = "streaming"
  /\ spc = "idle"
  /\ sent < MaxFrames
  /\ sent' = sent + 1
  /\ \/ look # NoLook /\ spc' = "put" /\ UNCHANGED toggles
     \/ look = NoLook /\ spc' = "properties" /\ UNCHANGED toggles
     \/ /\ look # NoLook /\ toggles < MaxToggles
        /\ spc' = "properties" /\ toggles' = toggles + 1
  /\ UNCHANGED <<fbId, eos, mutexOk, grp, displayVars, frameVars, inq, outq, mpc,
                 atomic, look, request, garbled, screen>>

PlaneProperties(l) ==
  [p \in {q \in {"eotf", "colours"} : CASE q = "eotf" -> l.hdr # look.hdr
                                      [] q = "colours" -> l.colours # look.colours} |->
     IF p = "eotf" THEN EotfFor(l) ELSE l.colours]

\* The metadata goes to the connector directly, atomic or not; it may lack the
\* property, and making the blob may fail.
SetLook ==
  /\ Alive
  /\ spc = "properties"
  /\ \E l \in Looks :
       /\ l # look
       /\ \E meta \in IF l.hdr # look.hdr THEN {FALSE, l.hdr} ELSE {screen.meta} :
            SetProperties(PlaneProperties(l), [screen EXCEPT !.meta = meta])
       /\ look' = l
  /\ spc' = "put"
  /\ UNCHANGED <<fbId, eos, mutexOk, grp, displayVars, frameVars, sent, inq, outq, mpc,
                 atomic, toggles, garbled>>

\* The request has no lock.  Another thread uses it while this one adds to it:
\* additions are lost, a slot is left unwritten, or freed memory is used.
RequestRace ==
  /\ Alive
  /\ atomic /\ spc = "properties"
  /\ dpc = "commit" \/ (fpc = "info" /\ ~grp)
  /\ \/ garbled' = TRUE /\ UNCHANGED mpc
     \/ mpc' = "aborted" /\ UNCHANGED garbled
  /\ UNCHANGED <<fbId, eos, mutexOk, grp, displayVars, frameVars, inputVars, inq, outq,
                 atomic, look, toggles, request, screen>>

\* decode_put_packet is retried until the decoder has room.
PutPacket ==
  /\ Alive
  /\ spc = "put"
  /\ Len(inq) < QueueSize
  /\ \E changes \in BOOLEAN :
       /\ sent = 1 => changes
       /\ inq' = Append(inq, [n |-> sent, changes |-> changes])
  /\ spc' = "idle"
  /\ UNCHANGED <<fbId, eos, mutexOk, grp, displayVars, frameVars, sent, outq, mpc, drmVars>>

\* A new resolution is announced before the first frame that has it, which waits
\* until the frame thread has provided buffers.
Decode ==
  /\ Alive
  /\ inq # <<>>
  /\ Len(outq) < QueueSize
  /\ \/ /\ Head(inq).changes
        /\ inq' = <<[Head(inq) EXCEPT !.changes = FALSE]>> \o Tail(inq)
        /\ outq' = Append(outq, Info)
     \/ /\ ~Head(inq).changes
        /\ grp
        /\ inq' = Tail(inq)
        /\ outq' = Append(outq, Head(inq).n)
  /\ UNCHANGED <<fbId, eos, mutexOk, grp, displayVars, frameVars, inputVars, mpc, drmVars>>

-----------------------------------------------------------------------------
(* frame_thread.                                                           *)

FrameTop ==
  /\ Alive
  /\ fpc = "top"
  /\ fpc' = IF eos THEN "ended" ELSE "get"
  /\ UNCHANGED <<fbId, eos, mutexOk, grp, displayVars, frame, retries, inputVars, inq, outq, mpc, drmVars>>

GetFrame ==
  /\ Alive
  /\ fpc = "get"
  /\ outq # <<>>
  /\ frame' = Head(outq)
  /\ outq' = Tail(outq)
  /\ fpc' = IF Head(outq) = Info THEN "info" ELSE "send"
  /\ UNCHANGED <<fbId, eos, mutexOk, grp, displayVars, retries, inputVars, inq, mpc, drmVars>>

\* The read blocks; mpp's reset makes it return without a frame.
GetNoFrame ==
  /\ Alive
  /\ fpc = "get"
  /\ outq = <<>>
  /\ mpc \in {"joinFrame", "free"}
  /\ fpc' = "ended"
  /\ UNCHANGED <<fbId, eos, mutexOk, grp, displayVars, frame, retries, inputVars, inq, outq, mpc, drmVars>>

\* An error without a frame: retried so many times in the life of the thread.
GetError ==
  /\ Alive
  /\ fpc = "get"
  /\ \/ retries < MaxRetries /\ retries' = retries + 1 /\ fpc' = "top"
     \/ retries = MaxRetries /\ fpc' = "ended" /\ UNCHANGED retries
  /\ UNCHANGED <<fbId, eos, mutexOk, grp, displayVars, frame, inputVars, inq, outq, mpc, drmVars>>

InfoChangeNotReady ==        \* variant: the buffers are never registered
  /\ Alive /\ fpc = "info" /\ ~grp
  /\ fpc' = "eos"
  /\ UNCHANGED <<fbId, eos, mutexOk, grp, mpc, displayVars, frame, retries, inputVars, inq, outq, drmVars>>

ConnectorPropertiesSdr ==    \* variant: the colour space of the stream is not asked for
  [allm |-> TRUE, colorspace |-> "default"]

ConnectorProperties == [allm |-> TRUE, colorspace |-> ColorspaceFor(look)]

\* Buffers and framebuffers are made for the resolution; the assertion that
\* there are none yet aborts the program.
InfoChange ==
  /\ Alive
  /\ fpc = "info"
  /\ \/ grp /\ mpc' = "aborted" /\ UNCHANGED <<grp, fpc>>
        /\ UNCHANGED <<request, screen>>
     \/ /\ ~grp /\ grp' = TRUE /\ fpc' = "eos" /\ UNCHANGED mpc
        /\ SetProperties(ConnectorProperties, screen)
  /\ UNCHANGED <<fbId, eos, mutexOk, displayVars, frame, retries, inputVars, inq, outq,
                 atomic, look, toggles, garbled>>

\* pthread_cond_signal: a waiting display thread wakes up.
Signalled == dpc' = IF dpc = "waiting" THEN "woken" ELSE dpc

SendFrameSilently ==         \* variant: the condition is not signalled
  /\ Alive /\ fpc = "send"
  /\ fbId' = frame /\ fpc' = "eos"
  /\ UNCHANGED <<eos, mutexOk, grp, displayVars, frame, retries, inputVars, inq, outq, mpc, drmVars>>

\* Locking a destroyed mutex is undefined; the pthread library locks it all the same.
SendFrame ==
  /\ Alive
  /\ fpc = "send"
  /\ fbId' = frame
  /\ Signalled
  /\ fpc' = "eos"
  /\ UNCHANGED <<eos, mutexOk, grp, taken, shown, frame, retries, inputVars, inq, outq, mpc, drmVars>>

\* "Frame no buff": the decoder has nothing to show for the frame.
DropFrame ==
  /\ Alive
  /\ fpc = "send"
  /\ fpc' = "eos"
  /\ UNCHANGED <<fbId, eos, mutexOk, grp, displayVars, frame, retries, inputVars, inq, outq, mpc, drmVars>>

\* frm_eos is overwritten with the frame's own flag; no packet ever sets it.
FrameEos ==
  /\ Alive
  /\ fpc = "eos"
  /\ eos' = FALSE
  /\ frame' = Info
  /\ fpc' = "top"
  /\ UNCHANGED <<fbId, mutexOk, grp, displayVars, retries, inputVars, inq, outq, mpc, drmVars>>

-----------------------------------------------------------------------------
(* display_thread.                                                         *)

DisplayTop ==
  /\ Alive
  /\ dpc = "top"
  /\ dpc' = IF eos THEN "ended" ELSE "lock"
  /\ UNCHANGED <<fbId, eos, mutexOk, grp, taken, shown, frameVars, inputVars, inq, outq, mpc, drmVars>>

Take ==
  /\ taken' = fbId
  /\ fbId' = 0
  /\ dpc' = "commit"

DisplayLock ==
  /\ Alive
  /\ dpc = "lock"
  /\ \/ fbId = 0 /\ dpc' = "waiting" /\ UNCHANGED <<fbId, taken, drmVars>>
     \/ fbId # 0 /\ Take
  /\ UNCHANGED <<eos, mutexOk, grp, shown, frameVars, inputVars, inq, outq, mpc, drmVars>>

\* pthread_cond_wait may return without a signal.
SpuriousWake ==
  /\ Alive
  /\ dpc = "waiting"
  /\ dpc' = "woken"
  /\ UNCHANGED <<fbId, eos, mutexOk, grp, taken, shown, frameVars, inputVars, inq, outq, mpc, drmVars>>

\* The wait returns: the end is only looked for here.
DisplayWake ==
  /\ Alive
  /\ dpc = "woken"
  /\ \/ fbId = 0 /\ dpc' = (IF eos THEN "ended" ELSE "waiting") /\ UNCHANGED <<fbId, taken, drmVars>>
     \/ fbId # 0 /\ Take
  /\ UNCHANGED <<eos, mutexOk, grp, shown, frameVars, inputVars, inq, outq, mpc, drmVars>>

\* drmModeAtomicCommit or drmModeSetPlane; when it fails, for whatever reason, that
\* is printed and the frame is lost.
DisplayCommit ==
  /\ Alive
  /\ dpc = "commit"
  /\ \/ /\ shown' = taken
        /\ screen' \in IF atomic THEN Commits(request, garbled) ELSE {screen}
     \/ /\ UNCHANGED shown
        /\ screen' \in IF atomic /\ garbled THEN Commits(request, garbled) ELSE {screen}
  /\ dpc' = "top"
  /\ UNCHANGED <<fbId, eos, mutexOk, grp, taken, frameVars, inputVars, inq, outq, mpc,
                 atomic, look, toggles, request, garbled>>

-----------------------------------------------------------------------------
(* The main thread: LiStopConnection, then rk_cleanup.                     *)

Quiet == dpc = "waiting" /\ fpc = "get" /\ outq = <<>> /\ inq = <<>> /\ spc = "idle"

\* The loop has ended: no further decode unit is submitted.
StopStream ==
  /\ mpc = "streaming"
  /\ mpc' = "stopping"
  /\ UNCHANGED <<fbId, eos, mutexOk, grp, displayVars, frameVars, inputVars, inq, outq, drmVars>>

JoinSubmit ==
  /\ mpc = "stopping"
  /\ spc = "idle"
  /\ mpc' = "cleanup"
  /\ UNCHANGED <<fbId, eos, mutexOk, grp, displayVars, frameVars, inputVars, inq, outq, drmVars>>

SetEos ==
  /\ mpc = "cleanup"
  /\ eos' = TRUE
  /\ mpc' = "signal"
  /\ UNCHANGED <<fbId, mutexOk, grp, displayVars, frameVars, inputVars, inq, outq, drmVars>>

SignalNobody ==              \* variant: the condition is not signalled
  /\ mpc = "signal" /\ mpc' = "joinDisplay"
  /\ UNCHANGED <<fbId, eos, mutexOk, grp, displayVars, frameVars, inputVars, inq, outq, drmVars>>

SignalEnd ==
  /\ mpc = "signal"
  /\ Signalled
  /\ mpc' = "joinDisplay"
  /\ UNCHANGED <<fbId, eos, mutexOk, grp, taken, shown, frameVars, inputVars, inq, outq, drmVars>>

JoinDisplayNot ==            \* variant: the display thread is left to itself
  /\ mpc = "joinDisplay" /\ mpc' = "destroy"
  /\ UNCHANGED <<fbId, eos, mutexOk, grp, displayVars, frameVars, inputVars, inq, outq, drmVars>>

JoinDisplay ==
  /\ mpc = "joinDisplay"
  /\ dpc = "ended"
  /\ mpc' = "destroy"
  /\ UNCHANGED <<fbId, eos, mutexOk, grp, displayVars, frameVars, inputVars, inq, outq, drmVars>>

DestroyMutex ==
  /\ mpc = "destroy"
  /\ mutexOk' = FALSE
  /\ mpc' = "reset"
  /\ UNCHANGED <<fbId, eos, grp, displayVars, frameVars, inputVars, inq, outq, drmVars>>

ResetDecoder ==
  /\ mpc = "reset"
  /\ inq' = <<>>
  /\ outq' = <<>>
  /\ mpc' = "joinFrame"
  /\ UNCHANGED <<fbId, eos, mutexOk, grp, displayVars, frameVars, inputVars, drmVars>>

JoinFrame ==
  /\ mpc = "joinFrame"
  /\ fpc = "ended"
  /\ mpc' = "free"
  /\ UNCHANGED <<fbId, eos, mutexOk, grp, displayVars, frameVars, inputVars, inq, outq, drmVars>>

FreeBuffers ==
  /\ mpc = "free"
  /\ grp' = FALSE
  /\ mpc' = "restore"
  /\ UNCHANGED <<fbId, eos, mutexOk, displayVars, frameVars, inputVars, inq, outq, drmVars>>

RestoreOnTop ==              \* variant: the request is not emptied first
  /\ mpc = "restore" /\ mpc' = "done"
  /\ screen' \in Commits(Over(ConnectorDefaults, request), garbled)
  /\ request' = <<>>
  /\ UNCHANGED <<fbId, eos, mutexOk, grp, displayVars, frameVars, inputVars, inq, outq,
                 atomic, look, toggles, garbled>>

\* drmModeAtomicSetCursor empties the request, which also forgets any damage.  What
\* the last commit returns is not looked at, nor what each property set at once does.
Restore ==
  /\ mpc = "restore"
  /\ \/ screen' = Over(ConnectorDefaults, screen) /\ mpc' = "done"
     \/ /\ \E ps \in IF atomic THEN {{}} ELSE SUBSET DOMAIN ConnectorDefaults :
             screen' = Over([p \in ps |-> ConnectorDefaults[p]], screen)
        /\ mpc' = "unrestored"
  /\ request' = <<>> /\ garbled' = FALSE
  /\ UNCHANGED <<fbId, eos, mutexOk, grp, displayVars, frameVars, inputVars, inq, outq,
                 atomic, look, toggles>>

-----------------------------------------------------------------------------

FrameThread ==
  FrameTop \/ GetFrame \/ GetNoFrame \/ InfoChange \/ SendFrame \/ DropFrame \/ FrameEos
DisplayThread == DisplayTop \/ DisplayLock \/ DisplayWake \/ DisplayCommit
Cleanup ==
  \/ JoinSubmit \/ SetEos \/ SignalEnd \/ JoinDisplay \/ DestroyMutex
  \/ ResetDecoder \/ JoinFrame \/ FreeBuffers \/ Restore

\* The program has ended, or every thread waits for a packet the bound excludes.
Idle ==
  /\ mpc \in {"done", "unrestored", "failed", "aborted"} \/ (mpc = "streaming" /\ sent = MaxFrames /\ Quiet)
  /\ UNCHANGED vars

Next ==
  \/ ChooseOutput \/ ChoosePlane \/ StartThreads
  \/ Submit \/ SetLook \/ PutPacket \/ RequestRace \/ Decode
  \/ FrameThread \/ GetError
  \/ DisplayThread \/ SpuriousWake
  \/ StopStream \/ Cleanup
  \/ Idle

Spec == Init /\ [][Next]_vars

\* Threads are scheduled and the decoder works; nobody owes packets or a stop.
FairSpec ==
  /\ Spec
  /\ WF_vars(SetLook \/ PutPacket) /\ WF_vars(Decode)
  /\ WF_vars(FrameThread) /\ WF_vars(DisplayThread) /\ WF_vars(Cleanup)

-----------------------------------------------------------------------------
(* Properties.                                                             *)

\* The framebuffer the display thread is about to show exists: rk_cleanup frees
\* the buffers only when no thread can use them any more.  (And types hold.)
ShownBufferExists == TypeOK /\ (dpc = "commit" => grp)

\* What the display thread took last is not on the screen: its commit has failed.
CommitFailed == dpc # "commit" /\ taken # shown

\* Every commit shows a frame decoded later than the one on the screen, or fails and
\* leaves the old one: the hand-over through fb_id may skip a frame, but neither
\* repeats nor reorders.
ShowsLater ==
  dpc = "commit" /\ dpc' = "top" => shown < shown' \/ (UNCHANGED shown /\ CommitFailed')

\* Frames get to the screen in their order.  And a frame that was handed over is
\* shown, or a later one in its place, while the stream lasts: it is lost only when
\* the commit of the one that was taken fails (rk.c:177-187), for whatever reason.
FrameReachesScreen ==
  /\ [][ShowsLater]_vars
  /\ \A n \in 1 .. MaxFrames :
       fbId = n ~> (shown >= n \/ (CommitFailed /\ taken >= n) \/ mpc # "streaming")

\* A stream that is HDR, or is not, from its first unit on is shown in its colour
\* space, although one thread learns of it and another tells the connector.  (The
\* plane keeps an earlier program's PQ: nothing is set for a stream that is SDR.)
SteadyStreamIsFaithful ==
  shown > 0 /\ toggles = 0 /\ mpc \notin {"done", "unrestored"} =>
    /\ screen.colorspace = ColorspaceFor(look)
    /\ screen.colours = look.colours
    /\ look.hdr => screen.eotf = "pq"

\* rk_cleanup leaves the connector as it found it (rk.c:631: "Undo the
\* connector-wide changes we performed"), whatever the threads had left in the
\* request, unless the kernel refuses its last commit (rk.c:638), or a property it
\* sets without one.
ConnectorRestored ==
  mpc = "done" => \A p \in DOMAIN ConnectorDefaults : screen[p] = ConnectorDefaults[p]

\* The thread that receives the stream does not spin in decode_put_packet for
\* ever, unless the frame thread has given up or a second resolution has aborted
\* the program.
SubmitReturns == spc = "put" ~> (spc = "idle" \/ fpc = "ended" \/ mpc = "aborted")

\* When both threads wait at the moment the stream stops, rk_cleanup ends them
\* and returns.
QuietCleanupReturns == mpc = "stopping" /\ Quiet ~> mpc \in {"done", "unrestored"}

\* The session can be exited (the help text: "Use Ctrl+Alt+Shift+Q ... to exit
\* streaming session"): once stopped, rk_cleanup returns.
CleanupReturns == mpc = "stopping" ~> mpc \in {"done", "unrestored", "aborted"}

=============================================================================
