------------------------------- MODULE Session -------------------------------
(***************************************************************************)
(* A streaming session: stream() of src/src/main.c in the main thread, the *)
(* callbacks of src/src/connection.c in the threads of the streaming       *)
(* library, and the signals that may arrive at any moment.  What the loop  *)
(* does in between is EventLoop's (or SdlDisplay's) matter: here it only   *)
(* waits for a reason to return.                                           *)
(***************************************************************************)
EXTENDS Naturals, FiniteSets

CONSTANT Options  \* the options and hosts a session may have, records of:
                  \*   embedded      IS_EMBEDDED(system): any platform but SDL
                  \*   viewOnly      -viewonly: no input, no feedback handlers
                  \*   quitAppAfter  -quitappafter
                  \*   triggers      the host asks for trigger rumble
                  \*   cec           built with libCEC, and an adapter was found

Handlers == {"rumble", "rumble_triggers", "set_motion_event_state", "set_controller_led"}

VARIABLES
  opt,        \* the options of this session
  pc,         \* where the main thread is
  conn,       \* the connection: "none", "starting", "up", "failed", "terminated", "stopped"
  main_thread_id,  \* loop_init has stored the main thread
  blocked,    \* the main thread blocks the signals, and the loop reads them
  pending,    \* a signal is waiting for the loop
  sdlQuit,    \* SDL_QUIT is in SDL's queue
  app,        \* the application on the host: "none", "running", "quitSent"
  platform    \* "unchanged", "started", "stopped"

vars == <<opt, pc, conn, main_thread_id, blocked, pending, sdlQuit, app, platform>>

\* The order in which main and stream() install things.
Init ==
  /\ opt \in Options
  /\ pc = "startApp"
  /\ conn = "none"
  /\ main_thread_id = FALSE
  /\ blocked = FALSE
  /\ pending = FALSE
  /\ sdlQuit = FALSE
  /\ app = "none"
  /\ platform = "unchanged"

Running == pc \notin {"exited", "failed", "killed", "crashed"}

-----------------------------------------------------------------------------
(* stream().                                                               *)

StartApp ==
  /\ pc = "startApp"
  /\ \/ pc' = "loopInit" /\ app' = "running"
     \/ pc' = "failed" /\ UNCHANGED app
  /\ UNCHANGED <<opt, conn, main_thread_id, blocked, pending, sdlQuit, platform>>

\* Variants of LoopInit: the thread is not stored, or nothing is blocked.
LoopInitNoThread ==
  /\ pc = "loopInit"
  /\ pc' = "connect"
  /\ blocked' = (blocked \/ opt.embedded)
  /\ UNCHANGED <<opt, conn, main_thread_id, pending, sdlQuit, app, platform>>

LoopInitUnblocked ==
  /\ pc = "loopInit"
  /\ pc' = "connect"
  /\ main_thread_id' = opt.embedded
  /\ UNCHANGED <<opt, conn, blocked, pending, sdlQuit, app, platform>>

LoopInit ==
  /\ pc = "loopInit"
  /\ pc' = "connect"
  /\ main_thread_id' = opt.embedded
  /\ blocked' = opt.embedded
  /\ UNCHANGED <<opt, conn, pending, sdlQuit, app, platform>>

\* platform_start, and LiStartConnection begins.
Connect ==
  /\ pc = "connect"
  /\ platform' = "started"
  /\ conn' = "starting"
  /\ pc' = "connecting"
  /\ UNCHANGED <<opt, main_thread_id, blocked, pending, sdlQuit, app>>

\* LiStartConnection returns, and what it returns is not looked at.
Connected ==
  /\ pc = "connecting"
  /\ pc' = "loop"
  /\ \/ conn' = IF conn = "starting" THEN "up" ELSE conn
     \/ conn' = "failed"
  /\ UNCHANGED <<opt, main_thread_id, blocked, pending, sdlQuit, app, platform>>

\* loop_main returns when it reads a signal, sdl_loop when it sees SDL_QUIT,
\* and both when the user quits.
LoopReturns ==
  /\ pc = "loop"
  /\ IF opt.embedded THEN pending ELSE sdlQuit
  /\ pc' = "stop"
  /\ UNCHANGED <<opt, conn, main_thread_id, blocked, pending, sdlQuit, app, platform>>

UserQuits ==
  /\ pc = "loop"
  /\ pc' = "stop"
  /\ UNCHANGED <<opt, conn, main_thread_id, blocked, pending, sdlQuit, app, platform>>

StopConnection ==
  /\ pc = "stop"
  /\ conn' = "stopped"
  /\ pc' = IF opt.quitAppAfter THEN "quitApp" ELSE "platformStop"
  /\ UNCHANGED <<opt, main_thread_id, blocked, pending, sdlQuit, app, platform>>

\* Variant: the application is quit only while it still streams.
QuitAppWhenUp ==
  /\ pc = "quitApp"
  /\ app' = IF conn = "up" THEN "quitSent" ELSE app
  /\ pc' = "platformStop"
  /\ UNCHANGED <<opt, conn, main_thread_id, blocked, pending, sdlQuit, platform>>

QuitApp ==
  /\ pc = "quitApp"
  /\ app' = "quitSent"
  /\ pc' = "platformStop"
  /\ UNCHANGED <<opt, conn, main_thread_id, blocked, pending, sdlQuit, platform>>

PlatformStop ==
  /\ pc = "platformStop"
  /\ platform' = "stopped"
  /\ pc' = "exited"
  /\ UNCHANGED <<opt, conn, main_thread_id, blocked, pending, sdlQuit, app>>

-----------------------------------------------------------------------------
(* Signals: those that loop_init blocks, and SIGINT and SIGTERM, which SDL *)
(* turns into SDL_QUIT.                                                    *)

\* A signal for the main thread.
Delivered ==
  IF blocked THEN pending' = TRUE /\ UNCHANGED <<pc, sdlQuit>>
  ELSE IF ~opt.embedded THEN sdlQuit' = TRUE /\ UNCHANGED <<pc, pending>>
  ELSE pc' = "killed" /\ UNCHANGED <<pending, sdlQuit>>

\* cec_init comes before loop_init, whose mask is the main thread's and of the threads
\* it starts from then on: those of libCEC do not block the signals.
Unmasked == opt.embedded /\ ~opt.viewOnly /\ opt.cec

\* A signal for the process goes to any thread that does not block it.
Signal ==
  /\ Running
  /\ IF Unmasked THEN pc' = "killed" /\ UNCHANGED <<pending, sdlQuit>> ELSE Delivered
  /\ UNCHANGED <<opt, conn, main_thread_id, blocked, app, platform>>

-----------------------------------------------------------------------------
(* connection.c.                                                           *)

\* Variant: only the loop of the embedded platforms is told.
TerminatedNoEvent ==
  IF main_thread_id THEN Delivered ELSE UNCHANGED <<pc, pending, sdlQuit>>

\* SDL_QUIT is pushed, and the main thread signalled if it is known.
Terminated ==
  IF main_thread_id THEN Delivered
  ELSE sdlQuit' = TRUE /\ UNCHANGED <<pc, pending>>

ConnectionTerminated ==
  /\ Running
  /\ conn \in {"starting", "up"}
  /\ conn' = "terminated"
  /\ Terminated
  /\ UNCHANGED <<opt, main_thread_id, blocked, app, platform>>

\* The handlers main installs.
Installed ==
  IF opt.viewOnly THEN {} ELSE IF opt.embedded THEN {"rumble"} ELSE Handlers

\* The handler a callback looks at before it calls its own: rumble_triggers
\* looks at rumble's.
Checked(h) == IF h = "rumble_triggers" THEN "rumble" ELSE h

Callback(h) ==
  /\ Running
  /\ conn \in {"starting", "up"}
  /\ h = "rumble_triggers" => opt.triggers
  /\ Checked(h) \in Installed
  /\ pc' = IF h \in Installed THEN pc ELSE "crashed"
  /\ UNCHANGED <<opt, conn, main_thread_id, blocked, pending, sdlQuit, app, platform>>

\* Sessions in which the host asks for what only SDL installs.
Unhandled == opt.embedded /\ ~opt.viewOnly /\ opt.triggers

-----------------------------------------------------------------------------
Main == StartApp \/ LoopInit \/ Connect \/ Connected \/ LoopReturns \/ StopConnection
          \/ QuitApp \/ PlatformStop

Finished == ~Running /\ UNCHANGED vars

Next ==
  \/ Main
  \/ UserQuits
  \/ Signal
  \/ ConnectionTerminated
  \/ \E h \in Handlers : Callback(h)
  \/ Finished

\* The main thread is scheduled; LiStartConnection and LiStopConnection return.
Spec == Init /\ [][Next]_vars /\ WF_vars(Main)

-----------------------------------------------------------------------------
TypeOK ==
  /\ opt \in Options
  /\ pc \in {"startApp", "loopInit", "connect", "connecting", "loop", "stop",
             "quitApp", "platformStop", "exited", "failed", "killed", "crashed"}
  /\ conn \in {"none", "starting", "up", "failed", "terminated", "stopped"}
  /\ {blocked, pending, sdlQuit} \subseteq BOOLEAN
  /\ main_thread_id = blocked
  /\ app \in {"none", "running", "quitSent"}
  /\ platform \in {"unchanged", "started", "stopped"}

\* However early the host ends the connection or a signal comes, the session ends
\* by the front door: the signal or the SDL event waits for the loop, and then the
\* connection is stopped and the platform restored (or the application never
\* started).  The two ways out that NotKilledWhileConnected names may come first.
SessionEnds ==
  (conn = "terminated" \/ pending \/ sdlQuit)
    ~> \/ pc \in {"exited", "failed"}
       \/ pc = "killed" /\ Unmasked
       \/ pc = "crashed" /\ Unhandled

\* While there is a connection a signal ends the process, and leaves the host connected,
\* only where threads of libCEC run (cec_init, main.c:376, comes before the mask of
\* loop.c:100); and a callback only where an embedded platform with input is asked
\* for trigger rumble (connection.c:82 looks at one handler and calls another).
NotKilledWhileConnected ==
  /\ TypeOK
  /\ pc = "killed" => conn = "none" \/ Unmasked
  /\ pc = "crashed" => Unhandled

\* -quitappafter: a session that ends has sent the request, and after the
\* connection was stopped (README.pod:149).
QuitAppIsSent ==
  /\ pc = "exited" /\ opt.quitAppAfter => app = "quitSent"
  /\ app = "quitSent" => conn = "stopped"
=============================================================================
