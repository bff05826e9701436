---------------------------- MODULE ClientProofs ----------------------------
(***************************************************************************)
(* What Client guarantees of a pairing, for any applications, orders and   *)
(* options.                                                                *)
(***************************************************************************)
EXTENDS Client, TLAPS

\* A program's record, which every step changes field by field.
Places == {"idle", "loadCert", "saveCert", "saveKey", "infoPort", "infoHttps", "infoHttp", "act",
           "pair", "unpair", "applist", "start", "streaming", "cancel"}

Proc == [pc : Places, order : Orders \cup {NoApp}, phase : 0 .. 5,
         said : {"nothing", "paired", "failed"}, lost : BOOLEAN, meddled : BOOLEAN]

Server == [paired : BOOLEAN, game : Apps \cup {NoApp}]

\* The inductive form of the two properties.  A program says nothing before it
\* ends, asks for the pairing over HTTP the second time only when the first request
\* was lost or the host does not know it, and asks for an application of the list
\* only.
PairInv ==
  /\ identity \in {"none", "opened", "certOnly", "whole"}
  /\ host \in Server /\ server \in Server /\ proc \in Proc
  /\ proc.pc = "pair" => proc.phase \in 1 .. 5
  /\ proc.pc = "start" => proc.order.app \in Apps
  /\ proc.said # "nothing" => At("idle")
  /\ PairReportsTruth
  /\ ~At("idle") /\ Undisturbed /\ server.paired => host.paired
  /\ At("infoHttp") /\ Undisturbed /\ ~proc.lost => ~KnowsUs
  /\ At("act") /\ Undisturbed /\ ~proc.lost /\ KnowsUs => server.paired

\* The record of a program that has ended.
LEMMA IdleFields ==
  /\ Idle \in Proc
  /\ Idle.pc = "idle" /\ Idle.said = "nothing" /\ ~Idle.lost /\ ~Idle.meddled
BY DEF Idle, Proc, Places

LEMMA PairPhases == \A p \in Proc : [p EXCEPT !.pc = "pair", !.phase = 1] \in Proc
<1>1. \A p \in Proc, c \in Places : [p EXCEPT !.pc = c] \in Proc
  BY DEF Proc
<1>2. \A p \in Proc, n \in 0 .. 5 : [p EXCEPT !.phase = n] \in Proc
  BY DEF Proc
<1>3. "pair" \in Places /\ 1 \in 0 .. 5
  BY DEF Places
<1> QED BY <1>1, <1>2, <1>3

LEMMA PairInit == Init => PairInv
BY DEF Init, GSInit, Nothing, Idle, PairInv, Server, Proc, Places, PairReportsTruth, Undisturbed,
   KnowsUs, At

\* A step of the session leaves everything of a pairing alone.
LEMMA PairUnchanged == PairInv /\ UNCHANGED gsVars => PairInv'
BY DEF PairInv, gsVars, PairReportsTruth, Undisturbed, KnowsUs, At

LEMMA PairStep == PairInv /\ [Next]_vars => PairInv'
<1> SUFFICES ASSUME PairInv, [Next]_vars PROVE PairInv'
  OBVIOUS
<1> USE IdleFields DEF PairInv, PairReportsTruth, Undisturbed, KnowsUs, At
<1>1. ASSUME NEW o \in Orders, Begin(o) PROVE PairInv'
  BY <1>1 DEF Begin, Idle, Nothing, Proc, Places, Server
<1>2. CASE LoadCert \/ SaveCert \/ SaveKey
  BY <1>2 DEF LoadCert, SaveCert, SaveKey, Goto, Exit, Proc, Places
<1>3. CASE InfoPort
  BY <1>3 DEF InfoPort, InfoAnswered, InfoFailed, Answer, Goto, Exit, Proc, Places, Server
<1>4. CASE InfoHttps
  <2>1. CASE InfoAnswered(TRUE) /\ GotoAct
    BY <1>4, <2>1 DEF InfoHttps, InfoAnswered, Answer, Goto, GotoAct, Exit, Proc, Places, Server
  <2>2. CASE InfoFailed(TRUE) /\ GotoFailed(TRUE, "infoHttp")
    BY <1>4, <2>2 DEF InfoHttps, InfoFailed, Goto, GotoFailed, GotoLost, Proc, Places
  <2> QED BY <1>4, <2>1, <2>2 DEF InfoHttps
<1>5. CASE InfoHttp
  BY <1>5 DEF InfoHttp, InfoAnswered, InfoFailed, Answer, Goto, GotoAct, Exit, Proc, Places, Server
<1>6. CASE PairCheck \/ PairOrUnpair
  <2>1. CASE PairCheck
    BY <2>1 DEF PairCheck, Goto, Exit, Proc, Places
  <2>2. CASE PairOrUnpair
    <3>1. \/ proc' = [proc EXCEPT !.pc = "pair", !.phase = 1]
          \/ proc' = [proc EXCEPT !.pc = "unpair"]
      BY <2>2 DEF PairOrUnpair, Goto
    <3>2. [proc EXCEPT !.pc = "pair", !.phase = 1] \in Proc
      BY PairPhases
    <3>3. [proc EXCEPT !.pc = "unpair"] \in Proc
      BY DEF Proc, Places
    <3>4. /\ proc' \in Proc
          /\ proc'.pc \in {"pair", "unpair"}
          /\ proc'.pc = "pair" => proc'.phase = 1
          /\ proc'.said = "nothing"
          /\ proc'.meddled = proc.meddled
      BY <2>2, <3>1, <3>2, <3>3 DEF PairOrUnpair, Proc
    <3> QED BY <2>2, <3>4 DEF PairOrUnpair
  <2> QED BY <1>6, <2>1, <2>2
<1>7. CASE PairAnswered
  <2>1. CASE proc.phase = 5
    BY <1>7, <2>1 DEF PairAnswered, Accepted, Exit, Proc, Places, Server
  <2>2. CASE proc.phase # 5
    <3>1. proc' = [proc EXCEPT !.phase = @ + 1] /\ proc.phase \in 1 .. 4
      BY <1>7, <2>2 DEF PairAnswered
    <3>2. proc' \in Proc /\ proc'.phase \in 1 .. 5
      BY <3>1 DEF Proc
    <3>3. proc'.pc = "pair" /\ proc'.said = "nothing" /\ proc'.meddled = proc.meddled
      BY <1>7, <3>1 DEF PairAnswered, Proc
    <3>4. host' \in Server /\ (host.paired => host'.paired) /\ UNCHANGED <<server, identity>>
      BY <1>7, <2>2 DEF PairAnswered, Accepted, Server
    <3>5. proc' \in Proc /\ host' \in Server /\ server' \in Server
      BY <3>2, <3>4
    <3>6. PairReportsTruth'
      BY <3>3
    <3>7. identity' \in {"none", "opened", "certOnly", "whole"}
      BY <3>4
    <3>8. proc'.pc # "idle" /\ Undisturbed' /\ server'.paired => host'.paired
      BY <1>7, <3>3, <3>4 DEF PairAnswered
    <3>9. proc'.pc \notin {"start", "infoHttp", "act", "idle"}
      BY <3>3
    <3> QED BY ONLY <3>2, <3>3, <3>5, <3>6, <3>7, <3>8, <3>9 DEF PairInv, At
  <2> QED BY <2>1, <2>2
<1>8. CASE PairRefused \/ PairLost
  BY <1>8 DEF PairRefused, PairLost, LostWith, Accepted, Goto, GotoLost, Proc, Places, Server
<1>9. CASE Unpair
  BY <1>9 DEF Unpair, LostWith, Forget, Proc, Places, Server
<1>10. CASE Quit
  BY <1>10 DEF Quit, CancelAnswered, CancelFails, Exit, Proc, Places, Server
<1>11. CASE Start
  BY <1>11 DEF Start, AppListed, AppListFails, StartAccepted, StartFails, Resuming, Runs,
     LostWith, Goto, Exit, Proc, Places, Server
<1>12. CASE At("streaming") /\ QuitStreamedApp
  BY <1>12 DEF QuitStreamedApp, CancelAnswered, CancelFails, Proc, Places, Server
<1>13. CASE EndProgram
  BY <1>13 DEF EndProgram, Exit, Proc, Places
<1>14. CASE Kill
  BY <1>14 DEF Kill, Exit, Proc, Places
<1>15. CASE Meddle
  BY <1>15 DEF Meddle, Forget, Proc, Places, Server
<1>16. CASE UNCHANGED gsVars
  BY <1>16, PairUnchanged
<1> QED
  BY <1>1, <1>2, <1>3, <1>4, <1>5, <1>6, <1>7, <1>8, <1>9, <1>10, <1>11, <1>12, <1>13, <1>14,
     <1>15, <1>16
  DEF Next, BeginProgram, Main, Request, GSInitialise, Ask, StartStream, SessionStep,
      SessionEvent, KillEarly, MeddleAtHost, vars

LEMMA PairInvariant == Spec => []PairInv
BY PairInit, PairStep, PTL DEF Spec

\* However many requests are lost and wherever a program is killed, what the
\* program prints of a pairing is what the host holds.
THEOREM PairAlwaysReportsTruth == Spec => []PairReportsTruth
<1>1. PairInv => PairReportsTruth
  BY DEF PairInv
<1> QED BY <1>1, PairInvariant, PTL

\* A program never takes itself for paired when the host does not know it, and
\* misses a pairing only when a request was lost.
THEOREM PairingAlwaysKnown == Spec => []PairingKnown
<1>1. PairInv => PairingKnown
  BY DEF PairInv, PairingKnown, GSTypeOK, Server, Proc
<1> QED BY <1>1, PairInvariant, PTL

-----------------------------------------------------------------------------
(* The session.                                                            *)

\* stream() after gs_start_app, and where it has stopped the connection.
InLoop == {"connecting", "loop", "stop", "quitApp", "platformStop", "exited"}
Stopped == {"quitApp", "platformStop", "exited"}
AfterQuit == {"platformStop", "exited"}

\* No signal can kill the main thread once the connection begins: it blocks them by
\* then, or SDL takes them.
Guarded == conn # "none" => blocked = opt.embedded

\* The inductive form of the two properties of the session.  What has been asked of
\* the host stays true of it because only the session moves while it streams.
SessionInv ==
  /\ S!TypeOK
  /\ Guarded
  /\ pc \in {"connect"} \cup InLoop => blocked = opt.embedded
  /\ pc \in {"loopInit", "connect"} \cup InLoop => At("streaming")
  /\ conn # "none" => pc \in InLoop \cup {"crashed", "killed"}
  /\ pc = "killed" => conn = "none" \/ S!Unmasked
  /\ pc = "crashed" => S!Unhandled
  /\ pc \in Stopped => conn = "stopped"
  /\ app = "quitSent" => pc \in AfterQuit \cup {"killed"} /\ conn = "stopped"
  /\ pc \in AfterQuit /\ opt.quitAppAfter =>
       /\ app = "quitSent"
       /\ Undisturbed /\ ~proc.lost => host.game = NoApp

LEMMA SomeOptions == (CHOOSE o \in Options : TRUE) \in Options
BY OptionsAssumption

\* What a new session starts from.
LEMMA ResetInv == Reset => SessionInv'
BY DEF Reset, SessionInv, S!TypeOK, S!Unmasked, S!Unhandled, Guarded, InLoop, Stopped, AfterQuit

LEMMA SessionInit == Init => SessionInv
BY DEF Init, S!Init, SessionInv, S!TypeOK, S!Unmasked, S!Unhandled, Guarded, InLoop, Stopped, AfterQuit

\* The requests before a stream, and what others do at the host.
LEMMA RequestKeeps ==
  ASSUME PairInv, SessionInv, UNCHANGED sessionVars, ~At("streaming"),
         GSInitialise \/ Ask \/ Kill
  PROVE  SessionInv'
BY DEF SessionInv, sessionVars, S!TypeOK, S!Unmasked, S!Unhandled, Guarded, InLoop, Stopped, AfterQuit

LEMMA MeddleKeeps == ASSUME PairInv, SessionInv, MeddleAtHost PROVE SessionInv'
<1>1. proc'.meddled /\ proc'.pc = proc.pc
  BY DEF MeddleAtHost, Meddle, PairInv, Proc
<1> QED
  BY <1>1 DEF MeddleAtHost, Meddle, SessionInv, sessionVars, S!TypeOK, S!Unmasked, S!Unhandled, Guarded, InLoop, Stopped, AfterQuit,
     Undisturbed, At

LEMMA StartKeeps == ASSUME PairInv, SessionInv, StartStream PROVE SessionInv'
<1>1. CASE At("streaming")'
  BY <1>1 DEF StartStream, S!StartApp, SessionInv, S!TypeOK, S!Unmasked, S!Unhandled, Guarded, InLoop, Stopped, AfterQuit, At
<1>2. CASE ~At("streaming")'
  BY <1>2 DEF StartStream, S!StartApp, sessionVars, SessionInv, S!TypeOK, S!Unmasked, S!Unhandled, Guarded, InLoop, Stopped, AfterQuit, At
<1> QED BY <1>1, <1>2

LEMMA QuitKeeps == ASSUME PairInv, SessionInv, QuitStreamedApp PROVE SessionInv'
<1>1. \/ host'.game = NoApp /\ UNCHANGED proc
      \/ proc' = [proc EXCEPT !.lost = TRUE]
  BY DEF QuitStreamedApp, CancelAnswered, PairInv, Server
<1>2. proc'.pc = proc.pc /\ (proc'.lost \/ host'.game = NoApp)
  BY <1>1 DEF PairInv, Proc
<1> QED
  BY <1>2 DEF QuitStreamedApp, S!QuitApp, SessionInv, S!TypeOK, S!Unmasked, S!Unhandled, Guarded, InLoop, Stopped, AfterQuit, At

LEMMA MainThreadKeeps ==
  ASSUME SessionInv, At("streaming"), UNCHANGED gsVars,
         \/ S!LoopInit \/ S!Connect \/ S!Connected \/ S!LoopReturns
         \/ S!StopConnection \/ S!PlatformStop
  PROVE  SessionInv'
<1> USE DEF SessionInv, S!TypeOK, S!Unmasked, S!Unhandled, Guarded, InLoop, Stopped, AfterQuit, At, gsVars, Undisturbed
<1>1. CASE S!LoopInit
  BY <1>1, OptionsAssumption DEF S!LoopInit
<1>2. CASE S!Connect
  BY <1>2 DEF S!Connect
<1>3. CASE S!Connected
  BY <1>3 DEF S!Connected
<1>4. CASE S!LoopReturns
  BY <1>4 DEF S!LoopReturns
<1>5. CASE S!StopConnection
  BY <1>5 DEF S!StopConnection
<1>6. CASE S!PlatformStop
  BY <1>6 DEF S!PlatformStop
<1> QED BY <1>1, <1>2, <1>3, <1>4, <1>5, <1>6

LEMMA SignalKeeps == ASSUME SessionInv, S!Signal, UNCHANGED gsVars PROVE SessionInv'
<1>1. CASE S!Unmasked
  <2>1. /\ pc' = "killed" /\ S!Unmasked'
        /\ UNCHANGED <<opt, conn, main_thread_id, blocked, pending, sdlQuit, app, platform>>
    BY <1>1 DEF S!Signal, S!Unmasked
  <2>2. S!TypeOK'
    BY <2>1 DEF SessionInv, S!TypeOK
  <2>3. app = "quitSent" => conn = "stopped"
    BY DEF SessionInv
  <2> QED BY <2>1, <2>2, <2>3 DEF SessionInv, Guarded, InLoop, Stopped, AfterQuit
<1>2. CASE ~S!Unmasked
  <2>1. S!Delivered /\ UNCHANGED <<opt, conn, main_thread_id, blocked, app, platform>>
        /\ pc \notin {"exited", "failed", "killed", "crashed"}
    BY <1>2 DEF S!Signal, S!Running
  <2> QED BY <1>2, <2>1 DEF S!Delivered, SessionInv, S!TypeOK, S!Unmasked, S!Unhandled, Guarded,
             InLoop, Stopped, AfterQuit, At, gsVars, Undisturbed
<1> QED BY <1>1, <1>2

LEMMA EventKeeps == ASSUME SessionInv, SessionEvent PROVE SessionInv'
<1> USE DEF SessionInv, S!TypeOK, S!Unmasked, S!Unhandled, Guarded, InLoop, Stopped, AfterQuit, At, gsVars, Undisturbed
<1>1. CASE S!UserQuits /\ UNCHANGED gsVars
  BY <1>1 DEF S!UserQuits
<1>2. CASE S!Signal /\ UNCHANGED gsVars
  BY <1>2, SignalKeeps
<1>3. CASE S!ConnectionTerminated /\ UNCHANGED gsVars
  BY <1>3 DEF S!ConnectionTerminated, S!Terminated, S!Delivered, S!Running
<1>4. ASSUME NEW h \in S!Handlers, S!Callback(h), UNCHANGED gsVars PROVE SessionInv'
  BY <1>4 DEF S!Callback, S!Running, S!Checked, S!Installed, S!Handlers
<1> QED BY <1>1, <1>2, <1>3, <1>4 DEF SessionEvent

LEMMA SessionStepKeeps == ASSUME PairInv, SessionInv, [Next]_vars PROVE SessionInv'
<1>1. CASE BeginProgram
  BY <1>1, ResetInv DEF BeginProgram
<1>2. CASE Request
  BY <1>2, RequestKeeps
  DEF Request, GSInitialise, Ask, LoadCert, SaveCert, SaveKey, InfoPort, InfoHttps, InfoHttp, PairCheck,
      PairOrUnpair, PairAnswered, PairRefused, PairLost, Unpair, Quit, At
<1>3. CASE StartStream
  BY <1>3, StartKeeps
<1>4. CASE SessionStep
  BY <1>4, QuitKeeps, MainThreadKeeps DEF SessionStep
<1>5. CASE SessionEvent
  BY <1>5, EventKeeps
<1>6. CASE EndProgram
  BY <1>6, ResetInv, SomeOptions DEF EndProgram
<1>7. CASE KillEarly
  BY <1>7, RequestKeeps DEF KillEarly, Kill
<1>8. CASE MeddleAtHost
  BY <1>8, MeddleKeeps
<1>9. CASE UNCHANGED vars
  BY <1>9 DEF vars, gsVars, sessionVars, SessionInv, S!TypeOK, S!Unmasked, S!Unhandled, Guarded, InLoop, Stopped, AfterQuit, At,
              Undisturbed
<1> QED BY <1>1, <1>2, <1>3, <1>4, <1>5, <1>6, <1>7, <1>8, <1>9 DEF Next, Main

LEMMA SessionInvariant == Spec => [](PairInv /\ SessionInv)
<1>1. Init => SessionInv
  BY SessionInit
<1> QED BY <1>1, PairInit, PairStep, SessionStepKeeps, PTL DEF Spec

\* A session that ends has quit the application when it was told to, after the
\* connection was stopped; when the request got through and nobody else started
\* anything, no application is left running.
THEOREM QuitAppAlwaysSent == Spec => []QuitAppIsSent
<1>1. SessionInv => QuitAppIsSent
  BY DEF SessionInv, QuitAppIsSent, S!QuitAppIsSent, Stopped, AfterQuit
<1> QED BY <1>1, SessionInvariant, PTL

\* With any options, neither a signal nor a callback ends a process that is connected,
\* but where libCEC has threads, or an embedded platform is asked for trigger rumble.
THEOREM NeverKilledWhileConnected == Spec => []NotKilledWhileConnected
<1>1. SessionInv => NotKilledWhileConnected
  BY DEF SessionInv, NotKilledWhileConnected, S!NotKilledWhileConnected
<1> QED BY <1>1, SessionInvariant, PTL
=============================================================================
