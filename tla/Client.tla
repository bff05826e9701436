------------------------------- MODULE Client -------------------------------
(***************************************************************************)
(* The whole program: the requests of GameStream and, when a stream was    *)
(* asked for and the host agreed, the session of Session.  The two move    *)
(* together where main() does: the application is asked for before the     *)
(* session exists, and quit from within it.  One program follows another,  *)
(* whatever became of the first.                                           *)
(***************************************************************************)
EXTENDS GameStream, FiniteSets

CONSTANT Options  \* the options of a session, see Session

ASSUME OptionsAssumption ==
  /\ Options # {}
  /\ Options \subseteq [embedded : BOOLEAN, viewOnly : BOOLEAN,
                        quitAppAfter : BOOLEAN, triggers : BOOLEAN, cec : BOOLEAN]

VARIABLES opt, pc, conn, main_thread_id, blocked, pending, sdlQuit, app, platform

S == INSTANCE Session

sessionVars == <<opt, pc, conn, main_thread_id, blocked, pending, sdlQuit, app, platform>>
vars == <<gsVars, sessionVars>>

Init == GSInit /\ S!Init

\* What a session starts from.
Reset ==
  /\ opt' \in Options
  /\ pc' = "startApp" /\ conn' = "none" /\ app' = "none" /\ platform' = "unchanged"
  /\ main_thread_id' = FALSE /\ blocked' = FALSE /\ pending' = FALSE /\ sdlQuit' = FALSE

Streams == proc.order # NoApp /\ proc.order.action = "stream"

\* gs_init and the checks of main come before SDL and before stream().
InStream == Streams /\ proc.pc \in {"applist", "start", "streaming"}

BeginProgram ==
  /\ \E o \in Orders : Begin(o)
  /\ Reset
  /\ ~Streams' => opt' = CHOOSE o \in Options : TRUE

Request == (GSInitialise \/ Ask) /\ UNCHANGED sessionVars

\* gs_applist and gs_start_app are the first part of stream().
StartStream ==
  /\ pc = "startApp"
  /\ Start
  /\ CASE At("streaming")' -> S!StartApp /\ pc' = "loopInit"
       [] At("idle")' /\ Streams -> S!StartApp /\ pc' = "failed"
       [] OTHER -> UNCHANGED sessionVars

\* gs_quit_app of a stream: whether the request was answered matters to nobody.
QuitStreamedApp ==
  /\ S!QuitApp
  /\ \/ CancelAnswered /\ UNCHANGED proc
     \/ CancelFails /\ proc' = [proc EXCEPT !.lost = TRUE]
  /\ UNCHANGED <<identity, server>>

SessionStep ==
  /\ At("streaming")
  /\ \/ QuitStreamedApp
     \/ /\ \/ S!LoopInit \/ S!Connect \/ S!Connected \/ S!LoopReturns
           \/ S!StopConnection \/ S!PlatformStop
        /\ UNCHANGED gsVars

\* What may happen to a session at any time.
SessionEvent ==
  /\ InStream
  /\ S!UserQuits \/ S!Signal \/ S!ConnectionTerminated \/ \E h \in S!Handlers : S!Callback(h)
  /\ UNCHANGED gsVars

\* The process is gone; its session was its own.
EndProgram ==
  /\ ~S!Running
  /\ IF At("idle") THEN UNCHANGED proc ELSE Exit("nothing")
  /\ Reset
  /\ opt' = CHOOSE o \in Options : TRUE
  /\ UNCHANGED <<identity, host, server>>

KillEarly ==
  /\ Kill /\ ~InStream
  /\ UNCHANGED sessionVars

MeddleAtHost == Meddle /\ UNCHANGED sessionVars

Main == Request \/ StartStream \/ SessionStep

Next ==
  \/ BeginProgram
  \/ Main
  \/ SessionEvent
  \/ EndProgram
  \/ KillEarly
  \/ MeddleAtHost

(***************************************************************************)
(* The program runs and its requests return (http.c sets no timeout: one   *)
(* that does not return holds everything up); LiStartConnection and        *)
(* LiStopConnection return.  Nobody has to type in a PIN.                  *)
(***************************************************************************)
Spec == Init /\ [][Next]_vars /\ WF_vars(StartStream \/ SessionStep)

-----------------------------------------------------------------------------
\* A running program whose host nobody changed.
Undisturbed == ~proc.meddled

\* What the program believes of its pairing is right.  It never takes itself for
\* paired when it is not; and unless a request was lost it knows that it is, which
\* is why load_server_status asks over HTTPS first (client.c:288-291).
PairingKnown ==
  /\ GSTypeOK
  /\ ~At("idle") /\ Undisturbed /\ server.paired => host.paired
  /\ At("act") /\ Undisturbed /\ ~proc.lost /\ KnowsUs => server.paired

\* What `pair' prints is true, whichever of its five requests were lost: after
\* "Succesfully paired" the host knows this client, after "Failed to pair" it does
\* not, unless the unpair request at the end did not get through.
PairReportsTruth ==
  Undisturbed => /\ proc.said = "paired" => KnowsUs
                 /\ proc.said = "failed" /\ ~proc.lost => ~host.paired

\* While there is a connection, neither a signal nor a callback without its handler ends
\* the process and leaves the host connected, but in the two cases Session names: a
\* signal where threads of libCEC run, trigger rumble on an embedded platform.
NotKilledWhileConnected == S!NotKilledWhileConnected

\* -quitappafter: a session that ends has sent the request, and after the
\* connection was stopped (README.pod:149); when it was answered and nobody else
\* started anything, no application is left running.
QuitAppIsSent ==
  /\ S!QuitAppIsSent
  /\ pc = "exited" /\ opt.quitAppAfter /\ Undisturbed /\ ~proc.lost => host.game = NoApp

\* However early the host ends the connection or a signal comes, the session ends
\* by the front door, but in these two cases: the signal or the SDL event waits for the
\* loop.
SessionEnds == S!SessionEnds
=============================================================================
