---------------------------- MODULE RkDisplayProofs ----------------------------
(***************************************************************************)
(* What the threads of RkDisplay keep for any number of frames, colour     *)
(* spaces and changes, and queues of any size: the order of the frames,    *)
(* the look of a steady stream, and what rk_cleanup leaves behind.         *)
(***************************************************************************)
EXTENDS RkDisplay, SequenceTheorems, TLAPS

-----------------------------------------------------------------------------
(* Properties of connector and plane, as functions of their names.         *)

Names == {"meta", "allm", "colorspace", "eotf", "colours"}
Values(p) ==
  CASE p = "meta" -> BOOLEAN
    [] p = "allm" -> BOOLEAN
    [] p = "colorspace" -> {"default", "bt2020"}
    [] p = "eotf" -> {"unknown", "sdr", "pq"}
    [] p = "colours" -> ColourSpaces \cup {"unknown"}

\* Some of the properties, as SetProperties is given them and requests hold them.
Some(ps) == /\ ps = [p \in DOMAIN ps |-> ps[p]]
            /\ DOMAIN ps \subseteq Names
            /\ \A p \in DOMAIN ps : ps[p] \in Values(p)

LEMMA AllProperties == \A r : r \in Properties <=> Some(r) /\ DOMAIN r = Names
<1> TAKE r
<1>1. ASSUME r \in Properties PROVE Some(r) /\ DOMAIN r = Names
  BY <1>1 DEF Properties, Some, Names, Values
<1>2. ASSUME Some(r), DOMAIN r = Names PROVE r \in Properties
  <2>1. /\ r["meta"] \in BOOLEAN /\ r["allm"] \in BOOLEAN
        /\ r["colorspace"] \in {"default", "bt2020"}
        /\ r["eotf"] \in {"unknown", "sdr", "pq"}
        /\ r["colours"] \in ColourSpaces \cup {"unknown"}
    BY <1>2 DEF Some, Names, Values
  <2> QED BY <1>2, <2>1 DEF Properties, Some, Names
<1> QED BY <1>1, <1>2

LEMMA SomeOnTop ==
  ASSUME NEW a, NEW b, Some(a), Some(b)
  PROVE  Some(Over(a, b)) /\ DOMAIN (Over(a, b)) = DOMAIN a \cup DOMAIN b
BY DEF Some, Over

LEMMA OverScreen ==
  ASSUME NEW a, NEW s, Some(a), s \in Properties
  PROVE  Over(a, s) \in Properties
<1>1. Some(s) /\ DOMAIN s = Names BY AllProperties
<1>2. Some(Over(a, s)) /\ DOMAIN (Over(a, s)) = DOMAIN a \cup DOMAIN s BY <1>1, SomeOnTop
<1>3. DOMAIN a \subseteq Names BY DEF Some
<1> QED BY <1>1, <1>2, <1>3, AllProperties

\* What the threads put into the request, and what rk_cleanup does.
LEMMA PlaneSome ==
  ASSUME NEW l \in Looks
  PROVE  Some(PlaneProperties(l))
<1> DEFINE asked == {q \in {"eotf", "colours"} : CASE q = "eotf" -> l.hdr # look.hdr
                                                 [] q = "colours" -> l.colours # look.colours}
           ps == PlaneProperties(l)
<1>1. ps = [p \in asked |-> IF p = "eotf" THEN EotfFor(l) ELSE l.colours] BY DEF PlaneProperties
<1>2. asked \subseteq {"eotf", "colours"} OBVIOUS
<1> HIDE DEF asked
<1>3. DOMAIN ps = asked BY <1>1
<1>4. EotfFor(l) \in Values("eotf") BY DEF EotfFor, Values
<1>5. l.colours \in Values("colours") BY DEF Looks, Values
<1>6. \A p \in asked : ps[p] \in Values(p) BY <1>1, <1>2, <1>4, <1>5
<1>7. ps = [p \in DOMAIN ps |-> ps[p]] BY <1>1
<1> HIDE DEF ps
<1> QED BY <1>2, <1>3, <1>6, <1>7 DEF Some, Names, ps

LEMMA ConnectorSome == Some(ConnectorProperties) /\ Some(ConnectorDefaults)
<1>1. ConnectorDefaults \in [meta : BOOLEAN, allm : BOOLEAN, colorspace : {"default", "bt2020"}]
  BY DEF ConnectorDefaults
<1>2. ConnectorProperties \in [allm : BOOLEAN, colorspace : {"default", "bt2020"}]
  BY DEF ConnectorProperties, ColorspaceFor
<1>3. \A r \in [meta : BOOLEAN, allm : BOOLEAN, colorspace : {"default", "bt2020"}] : Some(r)
  BY DEF Some, Names, Values
<1>4. \A r \in [allm : BOOLEAN, colorspace : {"default", "bt2020"}] : Some(r)
  BY DEF Some, Names, Values
<1> QED BY <1>1, <1>2, <1>3, <1>4

LEMMA PartSome ==
  ASSUME NEW ps \in SUBSET DOMAIN ConnectorDefaults
  PROVE  Some([p \in ps |-> ConnectorDefaults[p]])
<1>1. Some(ConnectorDefaults)
  BY ConnectorSome
<1> HIDE DEF ConnectorDefaults
<1> QED BY <1>1 DEF Some

-----------------------------------------------------------------------------
(* The invariant.                                                          *)

\* A unit is submitted before it is put; the request holds properties.
Requested == /\ spc # "idle" => sent > 0
             /\ Some(request)

\* Who has ended once rk_cleanup has got so far, and that nothing is left to do.
Phases ==
  /\ mpc \in {"cleanup", "signal", "joinDisplay", "destroy", "reset", "joinFrame", "free",
             "restore", "done", "unrestored"} => spc = "idle"
  /\ mpc \in {"destroy", "reset", "joinFrame", "free", "restore", "done", "unrestored"} => dpc = "ended"
  /\ mpc \in {"joinFrame", "free", "restore", "done", "unrestored"} => inq = <<>> /\ outq = <<>>
  /\ mpc \in {"free", "restore", "done", "unrestored"} => fpc = "ended"

\* Whatever a frame is on its way through exists until the buffers are freed.
FrameUnderway == \/ fbId # 0 \/ fpc = "send" \/ dpc = "commit"
                 \/ \E k \in 1 .. Len(outq) : outq[k] # 0
Buffers == FrameUnderway /\ mpc \notin {"restore", "done", "unrestored"} => grp

RkInv == TypeOK /\ Requested /\ Phases /\ Buffers /\ ConnectorRestored

-----------------------------------------------------------------------------

LEMMA RkInit == Init => RkInv
<1> SUFFICES ASSUME Init PROVE RkInv OBVIOUS
<1>1. Some(<<>>) BY DEF Some
<1>2. screen \in Properties
  BY DEF Init, Over, ConnectorDefaults, Properties
<1>3. Over(request, screen) \in Properties BY <1>1, <1>2, OverScreen DEF Init
<1>4. inq \in Seq(Packet) /\ Len(inq) = 0 /\ outq \in Seq(Frames) /\ Len(outq) = 0
  BY DEF Init
<1>5. TypeOK
  <2>1. look \in Looks \cup {NoLook} BY DEF Init
  <2>2. 0 \in 0 .. MaxRetries /\ 0 \in 0 .. MaxToggles /\ 0 \in Frames /\ 0 <= QueueSize
    BY RkAssumption DEF Frames
  <2> QED BY <1>2, <1>3, <1>4, <2>1, <2>2 DEF Init, TypeOK
<1> QED BY <1>1, <1>4, <1>5 DEF RkInv, Requested, Phases, Buffers, FrameUnderway,
        ConnectorRestored, Init

\* SetProperties keeps request and screen properties.
LEMMA PropertiesKept ==
  ASSUME RkInv, NEW ps, NEW s, Some(ps), s \in Properties, SetProperties(ps, s)
  PROVE  /\ Some(request') /\ screen' \in Properties
         /\ Over(request, screen)' \in Properties
<1>1. CASE atomic
  <2>1. request' = Over(ps, request) /\ screen' = s BY <1>1 DEF SetProperties
  <2>2. Some(request') BY <2>1, SomeOnTop DEF RkInv, Requested
  <2>3. Over(request', screen') \in Properties BY <2>1, <2>2, OverScreen
  <2> QED BY <2>1, <2>2, <2>3
<1>2. CASE ~atomic
  <2>1. request' = request /\ screen' = Over(ps, s) BY <1>2 DEF SetProperties
  <2>2. Some(request') BY <2>1 DEF RkInv, Requested
  <2>3. screen' \in Properties BY <2>1, OverScreen
  <2>4. Over(request', screen') \in Properties BY <2>2, <2>3, OverScreen
  <2> QED BY <2>2, <2>3, <2>4
<1> QED BY <1>1, <1>2

\* What a commit makes of the screen are properties again.
LEMMA CommitKept ==
  ASSUME RkInv, NEW req, NEW damaged, Some(req), screen' \in Commits(req, damaged)
  PROVE  screen' \in Properties
<1>1. screen \in Properties BY DEF RkInv, TypeOK
<1>2. Over(req, screen) \in Properties BY <1>1, OverScreen
<1> QED BY <1>1, <1>2 DEF Commits

\* The properties take part in few steps; the others leave their types alone.
Drawn == look \in Looks \cup {NoLook} /\ toggles \in 0 .. MaxToggles /\ screen \in Properties
         /\ Over(request, screen) \in Properties /\ Some(request)
         /\ atomic \in BOOLEAN /\ garbled \in BOOLEAN

LEMMA DrawnStep == ASSUME RkInv, [Next]_vars PROVE Drawn'
<1> USE DEF RkInv, TypeOK, Requested, Drawn
<1>1. CASE UNCHANGED drmVars BY <1>1 DEF drmVars
<1>2. CASE ChooseOutput BY <1>2 DEF ChooseOutput, setupUnchanged
<1>3. CASE ChoosePlane \/ StartThreads
  BY <1>3 DEF ChoosePlane, StartThreads, setupUnchanged
<1>4. CASE Submit BY <1>4, RkAssumption DEF Submit
<1>5. CASE SetLook
  <2>1. PICK l \in Looks :
          /\ l # look
          /\ \E meta \in IF l.hdr # look.hdr THEN {FALSE, l.hdr} ELSE {screen.meta} :
               SetProperties(PlaneProperties(l), [screen EXCEPT !.meta = meta])
          /\ look' = l
    BY <1>5 DEF SetLook
  <2>2. PICK meta \in IF l.hdr # look.hdr THEN {FALSE, l.hdr} ELSE {screen.meta} :
               SetProperties(PlaneProperties(l), [screen EXCEPT !.meta = meta])
    BY <2>1
  <2>3. meta \in BOOLEAN BY <2>2 DEF Looks, Properties
  <2>4. [screen EXCEPT !.meta = meta] \in Properties BY <2>3 DEF Properties
  <2>5. Some(PlaneProperties(l)) BY PlaneSome
  <2>6. /\ Some(request') /\ screen' \in Properties
        /\ Over(request, screen)' \in Properties
    BY <2>2, <2>4, <2>5, PropertiesKept
  <2> QED BY <1>5, <2>1, <2>6 DEF SetLook
<1>6. CASE RequestRace BY <1>6 DEF RequestRace
<1>7. CASE InfoChange
  <2>1. CASE UNCHANGED <<request, screen>> BY <1>7, <2>1 DEF InfoChange
  <2>2. CASE SetProperties(ConnectorProperties, screen)
    <3>1. /\ Some(request') /\ screen' \in Properties
          /\ Over(request, screen)' \in Properties
      BY <2>2, ConnectorSome, PropertiesKept
    <3> QED BY <1>7, <3>1 DEF InfoChange
  <2> QED BY <1>7, <2>1, <2>2 DEF InfoChange
<1>8. CASE DisplayCommit
  <2>1. screen' \in Properties
    <3>1. screen' = screen \/ screen' \in Commits(request, garbled)
      BY <1>8 DEF DisplayCommit
    <3> QED BY <3>1, CommitKept
  <2>2. Over(request', screen') \in Properties BY <1>8, <2>1, OverScreen DEF DisplayCommit
  <2> QED BY <1>8, <2>1, <2>2 DEF DisplayCommit
<1>9. CASE Restore
  <2>1. screen' \in Properties
    <3>1. screen \in Properties OBVIOUS
    <3>2. CASE screen' = Over(ConnectorDefaults, screen)
      BY <3>1, <3>2, ConnectorSome, OverScreen
    <3>3. ASSUME NEW ps \in SUBSET DOMAIN ConnectorDefaults,
                 screen' = Over([p \in ps |-> ConnectorDefaults[p]], screen)
          PROVE  screen' \in Properties
      BY <3>1, <3>3, PartSome, OverScreen
    <3> QED BY <1>9, <3>2, <3>3 DEF Restore
  <2>2. Some(request') BY <1>9 DEF Restore, Some
  <2>3. Over(request', screen') \in Properties BY <2>1, <2>2, OverScreen
  <2> QED BY <1>9, <2>1, <2>2, <2>3 DEF Restore
<1>10. Next => \/ UNCHANGED drmVars \/ ChooseOutput \/ ChoosePlane \/ StartThreads \/ Submit
              \/ SetLook \/ RequestRace \/ InfoChange \/ DisplayCommit \/ Restore
  BY DEF Next, PutPacket, Decode, FrameThread, FrameTop, GetFrame, GetNoFrame, SendFrame, DropFrame,
     FrameEos, GetError, DisplayThread, DisplayTop, DisplayLock, DisplayWake, Take,
     SpuriousWake, StopStream, Cleanup, JoinSubmit, SetEos, SignalEnd, JoinDisplay,
     DestroyMutex, ResetDecoder, JoinFrame, FreeBuffers, Idle, vars, drmVars
<1> QED BY <1>1, <1>2, <1>3, <1>4, <1>5, <1>6, <1>7, <1>8, <1>9, <1>10 DEF vars, drmVars

\* The decoder's queues.
LEMMA QueuesStep ==
  ASSUME RkInv, [Next]_vars
  PROVE  /\ inq' \in Seq(Packet) /\ Len(inq') <= QueueSize
         /\ outq' \in Seq(Frames) /\ Len(outq') <= QueueSize
<1> USE DEF RkInv, TypeOK, Requested
<1>1. CASE UNCHANGED <<inq, outq>> BY <1>1
<1>2. CASE PutPacket
  <2>1. sent \in 1 .. MaxFrames BY <1>2, RkAssumption DEF PutPacket, Frames
  <2>2. PICK changes \in BOOLEAN : inq' = Append(inq, [n |-> sent, changes |-> changes])
    BY <1>2 DEF PutPacket
  <2>3. [n |-> sent, changes |-> changes] \in Packet BY <2>1, <2>2 DEF Packet
  <2> QED BY <1>2, <2>2, <2>3, RkAssumption DEF PutPacket
<1>3. CASE Decode
  <2>1. inq # <<>> /\ Len(outq) < QueueSize BY <1>3 DEF Decode
  <2>2. Head(inq) \in Packet /\ Tail(inq) \in Seq(Packet) /\ Len(Tail(inq)) = Len(inq) - 1
    BY <2>1
  <2>3. Info \in Frames /\ Head(inq).n \in Frames
    BY <2>2, RkAssumption DEF Packet, Info, Frames
  <2>4. CASE /\ inq' = <<[Head(inq) EXCEPT !.changes = FALSE]>> \o Tail(inq)
             /\ outq' = Append(outq, Info)
    <3>1. [Head(inq) EXCEPT !.changes = FALSE] \in Packet BY <2>2 DEF Packet
    <3>2. <<[Head(inq) EXCEPT !.changes = FALSE]>> \in Seq(Packet) BY <3>1
    <3>3. inq' \in Seq(Packet) /\ Len(inq') = 1 + Len(Tail(inq))
      BY <2>2, <2>4, <3>2
    <3> QED BY <2>1, <2>2, <2>3, <2>4, <3>3, RkAssumption
  <2>5. CASE inq' = Tail(inq) /\ outq' = Append(outq, Head(inq).n)
    BY <2>1, <2>2, <2>3, <2>5, RkAssumption
  <2> QED BY <1>3, <2>4, <2>5 DEF Decode
<1>4. CASE GetFrame BY <1>4, RkAssumption DEF GetFrame
<1>5. CASE ResetDecoder BY <1>5, RkAssumption DEF ResetDecoder
<1>6. Next => \/ UNCHANGED <<inq, outq>> \/ PutPacket \/ Decode \/ GetFrame \/ ResetDecoder
  BY DEF Next, ChooseOutput, ChoosePlane, StartThreads, setupUnchanged, Submit, SetLook,
     RequestRace, FrameThread, FrameTop, GetNoFrame, InfoChange, SendFrame, DropFrame, FrameEos,
     GetError, DisplayThread, DisplayTop, DisplayLock, DisplayWake, DisplayCommit,
     SpuriousWake, StopStream, Cleanup, JoinSubmit, SetEos, SignalEnd, JoinDisplay,
     DestroyMutex, JoinFrame, FreeBuffers, Restore, Idle, vars
<1> QED BY <1>1, <1>2, <1>3, <1>4, <1>5, <1>6 DEF vars

\* The rest of the types, and that a unit has been submitted before it is put.
Plain ==
  /\ fbId \in Frames /\ taken \in Frames /\ shown \in Frames
  /\ frame \in Frames /\ sent \in Frames
  /\ eos \in BOOLEAN /\ mutexOk \in BOOLEAN /\ grp \in BOOLEAN
  /\ dpc \in {"top", "lock", "waiting", "woken", "commit", "ended"}
  /\ fpc \in {"top", "get", "info", "send", "eos", "ended"}
  /\ retries \in 0 .. MaxRetries
  /\ spc \in {"idle", "properties", "put"}
  /\ mpc \in {"setup", "plane", "mpi", "failed", "streaming", "stopping", "cleanup",
             "signal", "joinDisplay", "destroy", "reset", "joinFrame", "free",
             "restore", "done", "unrestored", "aborted"}
  /\ spc # "idle" => sent > 0

LEMMA PlainStep == ASSUME RkInv, [Next]_vars PROVE Plain'
<1> DEFINE queued == outq # <<>> => Head(outq) \in Frames
<1>1. Plain BY DEF RkInv, TypeOK, Requested, Plain
<1>2. queued BY DEF RkInv, TypeOK
<1>3. 0 \in Frames /\ MaxRetries \in Nat /\ MaxFrames \in Nat BY RkAssumption DEF Frames
<1> SUFFICES ASSUME Plain, queued PROVE [Next]_vars => Plain' BY <1>1, <1>2
<1> USE <1>3 DEF Plain
<1>4. CASE UNCHANGED vars BY <1>4 DEF vars
<1>5. ASSUME ChooseOutput \/ ChoosePlane \/ StartThreads PROVE Plain'
  BY <1>5 DEF ChooseOutput, ChoosePlane, StartThreads, setupUnchanged, displayVars,
     frameVars, inputVars
<1>6. ASSUME Submit PROVE Plain' BY <1>6 DEF Submit, displayVars, frameVars, Frames
<1>7. ASSUME SetLook PROVE Plain'
  <2>1. spc' = "put" /\ spc # "idle" /\ UNCHANGED <<fbId, eos, mutexOk, grp, displayVars,
                      frameVars, sent, mpc>>
    BY <1>7 DEF SetLook
  <2> QED BY <2>1 DEF displayVars, frameVars
<1>8. ASSUME PutPacket PROVE Plain'
  <2>1. spc' = "idle" /\ UNCHANGED <<fbId, eos, mutexOk, grp, displayVars, frameVars, sent, mpc>>
    BY <1>8 DEF PutPacket
  <2> QED BY <2>1 DEF displayVars, frameVars
<1>9. ASSUME RequestRace \/ StopStream PROVE Plain'
  BY <1>9 DEF RequestRace, StopStream, displayVars, frameVars, inputVars
<1>10. ASSUME Decode PROVE Plain'
  <2>1. UNCHANGED <<fbId, eos, mutexOk, grp, displayVars, frameVars, inputVars, mpc>>
    BY <1>10 DEF Decode
  <2> QED BY <2>1 DEF displayVars, frameVars, inputVars
<1>11. ASSUME FrameThread \/ GetError PROVE Plain'
  <2>1. ASSUME FrameTop \/ GetNoFrame PROVE Plain'
    BY <2>1 DEF FrameTop, GetNoFrame, displayVars, frameVars, inputVars
  <2>2. ASSUME InfoChange PROVE Plain'
    <3>1. /\ \/ mpc' = "aborted" /\ UNCHANGED <<grp, fpc>>
             \/ grp' = TRUE /\ fpc' = "eos" /\ UNCHANGED mpc
          /\ UNCHANGED <<fbId, eos, mutexOk, displayVars, frame, retries, inputVars>>
      BY <2>2 DEF InfoChange
    <3> QED BY <3>1 DEF displayVars, inputVars
  <2>3. ASSUME GetFrame PROVE Plain'
    <3>1. Head(outq) \in Frames BY <2>3 DEF GetFrame
    <3>2. frame' \in Frames /\ fpc' \in {"info", "send"}
          /\ UNCHANGED <<fbId, eos, mutexOk, grp, displayVars, retries, inputVars, mpc>>
      BY <2>3, <3>1 DEF GetFrame
    <3> QED BY <3>2 DEF displayVars, inputVars
  <2>4. ASSUME SendFrame \/ DropFrame \/ FrameEos PROVE Plain'
    BY <2>4 DEF SendFrame, DropFrame, FrameEos, Signalled, Info, displayVars, inputVars
  <2>5. ASSUME GetError PROVE Plain'
    BY <2>5 DEF GetError, displayVars, inputVars
  <2> QED BY <1>11, <2>1, <2>2, <2>3, <2>4, <2>5 DEF FrameThread
<1>12. ASSUME DisplayThread \/ SpuriousWake PROVE Plain'
  <2>1. ASSUME DisplayCommit PROVE Plain'
    <3>1. shown' \in {shown, taken} /\ dpc' = "top"
          /\ UNCHANGED <<fbId, eos, mutexOk, grp, taken, frameVars, inputVars, mpc>>
      BY <2>1 DEF DisplayCommit
    <3> QED BY <3>1 DEF frameVars, inputVars
  <2> QED BY <1>12, <2>1 DEF DisplayThread, DisplayTop, DisplayLock, DisplayWake,
             SpuriousWake, Take, frameVars, inputVars
<1>13. ASSUME Cleanup PROVE Plain'
  <2>1. ASSUME Restore PROVE Plain'
    <3>1. mpc' \in {"done", "unrestored"} /\ UNCHANGED <<fbId, eos, mutexOk, grp, displayVars, frameVars, inputVars>>
      BY <2>1 DEF Restore
    <3> QED BY <3>1 DEF displayVars, frameVars, inputVars
  <2>2. ASSUME JoinSubmit \/ SetEos \/ SignalEnd \/ JoinDisplay \/ DestroyMutex PROVE Plain'
    BY <2>2 DEF JoinSubmit, SetEos, SignalEnd, JoinDisplay, DestroyMutex, Signalled,
       displayVars, frameVars, inputVars
  <2>3. ASSUME ResetDecoder \/ JoinFrame \/ FreeBuffers PROVE Plain'
    BY <2>3 DEF ResetDecoder, JoinFrame, FreeBuffers, displayVars, frameVars, inputVars
  <2> QED BY <1>13, <2>1, <2>2, <2>3 DEF Cleanup
<1> QED BY <1>4, <1>5, <1>6, <1>7, <1>8, <1>9, <1>10, <1>11, <1>12, <1>13 DEF Next, Idle

LEMMA PhasesStep == ASSUME RkInv, [Next]_vars PROVE Phases'
<1> USE DEF RkInv, Phases
<1>1. CASE UNCHANGED vars BY <1>1 DEF vars
<1>2. CASE ChooseOutput \/ ChoosePlane \/ StartThreads
  BY <1>2 DEF ChooseOutput, ChoosePlane, StartThreads, setupUnchanged
<1>3. CASE Submit \/ SetLook \/ PutPacket
  BY <1>3 DEF Submit, SetLook, PutPacket
<1>4. CASE RequestRace \/ Decode \/ StopStream
  BY <1>4 DEF RequestRace, Decode, StopStream, displayVars, frameVars, inputVars
<1>5. CASE FrameThread \/ GetError
  BY <1>5 DEF FrameThread, GetError, FrameTop, GetFrame, GetNoFrame, InfoChange, SendFrame, DropFrame,
     FrameEos, Signalled, displayVars, inputVars
<1>6. CASE DisplayThread \/ SpuriousWake
  BY <1>6 DEF DisplayThread, DisplayTop, DisplayLock, DisplayWake, DisplayCommit,
     SpuriousWake, Take, frameVars, inputVars
<1>7. CASE Cleanup
  BY <1>7 DEF Cleanup, JoinSubmit, SetEos, SignalEnd, JoinDisplay, DestroyMutex,
     ResetDecoder, JoinFrame, FreeBuffers, Restore, Signalled, displayVars, frameVars,
     inputVars
<1> QED BY <1>1, <1>2, <1>3, <1>4, <1>5, <1>6, <1>7 DEF Next, Idle

\* A frame only gets under way where buffers are, and they go when none can be.
LEMMA BuffersStep == ASSUME RkInv, [Next]_vars PROVE Buffers'
<1> USE DEF RkInv, Buffers, FrameUnderway
<1>1. CASE UNCHANGED <<fbId, dpc, fpc, outq, mpc, grp>> BY <1>1
<1>2. CASE ChooseOutput \/ ChoosePlane \/ StartThreads
  BY <1>2 DEF ChooseOutput, ChoosePlane, StartThreads, setupUnchanged, displayVars, frameVars
<1>3. CASE RequestRace BY <1>3 DEF RequestRace, displayVars, frameVars, Phases
<1>4. CASE Decode
  <2>1. UNCHANGED <<fbId, dpc, fpc, mpc, grp>> BY <1>4 DEF Decode, displayVars, frameVars
  <2>2. outq \in Seq(Frames) BY DEF TypeOK
  <2>3. CASE grp BY <2>1, <2>3
  <2>4. CASE ~grp
    <3>1. outq' = Append(outq, 0) BY <1>4, <2>4 DEF Decode, Info
    <3>2. (\E k \in 1 .. Len(outq') : outq'[k] # 0) => \E k \in 1 .. Len(outq) : outq[k] # 0
      BY <2>2, <3>1
    <3> QED BY <2>1, <3>2
  <2> QED BY <2>3, <2>4
<1>5. CASE GetFrame
  <2>1. outq \in Seq(Frames) /\ outq # <<>> /\ outq' = Tail(outq) BY <1>5 DEF GetFrame, TypeOK
  <2>2. fpc' = "send" => outq[1] # 0 BY <1>5, <2>1 DEF GetFrame, Info
  <2>3. fpc' = "send" => \E k \in 1 .. Len(outq) : outq[k] # 0 BY <2>1, <2>2
  <2>4. \A k \in 1 .. Len(outq') : outq'[k] = outq[k + 1] /\ k + 1 \in 1 .. Len(outq)
    BY <2>1
  <2>5. (\E k \in 1 .. Len(outq') : outq'[k] # 0) => \E k \in 1 .. Len(outq) : outq[k] # 0
    BY <2>4
  <2> QED BY <1>5, <2>3, <2>5 DEF GetFrame, displayVars
<1>6. CASE FrameTop \/ GetNoFrame \/ GetError
  BY <1>6 DEF FrameTop, GetNoFrame, GetError, displayVars
<1>7. CASE InfoChange BY <1>7 DEF InfoChange, displayVars
<1>8. CASE SendFrame \/ DropFrame \/ FrameEos BY <1>8 DEF SendFrame, DropFrame, FrameEos, Signalled, displayVars
<1>9. CASE DisplayThread \/ SpuriousWake
  BY <1>9 DEF DisplayThread, DisplayTop, DisplayLock, DisplayWake, DisplayCommit,
     SpuriousWake, Take, frameVars
<1>10. CASE StopStream \/ JoinSubmit \/ SetEos \/ SignalEnd \/ JoinDisplay \/ DestroyMutex
  BY <1>10 DEF StopStream, JoinSubmit, SetEos, SignalEnd, JoinDisplay, DestroyMutex,
     Signalled, displayVars, frameVars
<1>11. CASE ResetDecoder BY <1>11 DEF ResetDecoder, displayVars, frameVars
<1>12. CASE JoinFrame \/ FreeBuffers \/ Restore
  BY <1>12 DEF JoinFrame, FreeBuffers, Restore, displayVars, frameVars
<1>13. CASE Submit \/ SetLook \/ PutPacket
  <2>1. UNCHANGED <<fbId, dpc, fpc, outq, mpc, grp>>
    BY <1>13 DEF Submit, SetLook, PutPacket, displayVars, frameVars
  <2> QED BY <1>1, <2>1
<1>14. CASE Idle \/ UNCHANGED vars
  <2>1. UNCHANGED <<fbId, dpc, fpc, outq, mpc, grp>>
    BY <1>14 DEF Idle, vars, displayVars, frameVars
  <2> QED BY <1>1, <2>1
<1> QED BY <1>2, <1>3, <1>4, <1>5, <1>6, <1>7, <1>8, <1>9, <1>10, <1>11, <1>12, <1>13,
        <1>14 DEF Next, FrameThread, Cleanup

\* Only rk_cleanup's last commit leads to the end, and after it nobody is left who
\* could touch the connector.
LEMMA RestoredStep == ASSUME RkInv, [Next]_vars PROVE ConnectorRestored'
<1> USE DEF RkInv
<1>1. CASE Restore
  <2>1. CASE screen' = Over(ConnectorDefaults, screen)
    <3>1. \A p \in DOMAIN ConnectorDefaults : screen'[p] = ConnectorDefaults[p]
      BY <2>1 DEF Over
    <3> QED BY <3>1 DEF ConnectorRestored
  <2>2. CASE mpc' = "unrestored"
    BY <2>2 DEF ConnectorRestored
  <2> QED BY <1>1, <2>1, <2>2 DEF Restore
<1>2. CASE mpc = "done"
  <2>1. spc = "idle" /\ dpc = "ended" /\ fpc = "ended" /\ inq = <<>> BY <1>2 DEF Phases
  <2>2. ~ (\/ ChooseOutput \/ ChoosePlane \/ StartThreads \/ Submit \/ SetLook \/ PutPacket
           \/ RequestRace \/ Decode \/ FrameThread \/ GetError \/ DisplayThread
           \/ SpuriousWake \/ StopStream \/ Cleanup)
    BY <1>2, <2>1 DEF ChooseOutput, ChoosePlane, StartThreads, Submit, SetLook, PutPacket,
       RequestRace, Decode, FrameThread, FrameTop, GetFrame, GetNoFrame, InfoChange,
       SendFrame, DropFrame, FrameEos, GetError, DisplayThread, DisplayTop, DisplayLock, DisplayWake,
       DisplayCommit, SpuriousWake, StopStream, Cleanup, JoinSubmit, SetEos, SignalEnd,
       JoinDisplay, DestroyMutex, ResetDecoder, JoinFrame, FreeBuffers, Restore
  <2>3. UNCHANGED vars BY <2>2 DEF Next, Idle
  <2> QED BY <2>3 DEF vars, drmVars, ConnectorRestored
<1>3. CASE mpc # "done" /\ ~Restore
  <2>1. mpc' # "done"
    BY <1>3 DEF Next, ChooseOutput, ChoosePlane, StartThreads, setupUnchanged, Submit, SetLook,
       PutPacket, RequestRace, Decode, FrameThread, FrameTop, GetFrame, GetNoFrame,
       InfoChange, SendFrame, DropFrame, FrameEos, GetError, DisplayThread, DisplayTop, DisplayLock,
       DisplayWake, DisplayCommit, SpuriousWake, StopStream, Cleanup, JoinSubmit, SetEos,
       SignalEnd, JoinDisplay, DestroyMutex, ResetDecoder, JoinFrame, FreeBuffers, Idle, vars
  <2> QED BY <2>1 DEF ConnectorRestored
<1> QED BY <1>1, <1>2, <1>3

-----------------------------------------------------------------------------
(* The theorems.                                                           *)

LEMMA RkStep == RkInv /\ [Next]_vars => RkInv'
<1> SUFFICES ASSUME RkInv, [Next]_vars PROVE RkInv' OBVIOUS
<1>1. Drawn' BY DrawnStep
<1>2. Plain' BY PlainStep
<1>3. /\ inq' \in Seq(Packet) /\ Len(inq') <= QueueSize
      /\ outq' \in Seq(Frames) /\ Len(outq') <= QueueSize
  BY QueuesStep
<1>4. TypeOK' /\ Requested' BY <1>1, <1>2, <1>3 DEF Drawn, Plain, TypeOK, Requested
<1> QED BY <1>4, PhasesStep, BuffersStep, RestoredStep DEF RkInv

LEMMA RkAlways == Spec => []RkInv
BY RkInit, RkStep, PTL DEF Spec

\* rk_cleanup (rk.c:589) frees the framebuffers only when no frame is on its way
\* to the screen, whatever the threads were doing when the stream stopped.
THEOREM BuffersOutliveTheThreads == Spec => []ShownBufferExists
<1>1. RkInv => ShownBufferExists
  <2> SUFFICES ASSUME RkInv, dpc = "commit" PROVE grp BY DEF RkInv, ShownBufferExists
  <2>1. mpc \notin {"restore", "done", "unrestored"} BY DEF RkInv, Phases
  <2> QED BY <2>1 DEF RkInv, Buffers, FrameUnderway
<1> QED BY <1>1, RkAlways, PTL

\* When rk_cleanup returns the connector has its defaults (rk.c:630-644), whatever
\* races there were over the request, unless the kernel refused the last of them.
THEOREM ConnectorAlwaysRestored == Spec => []ConnectorRestored
<1>1. RkInv => ConnectorRestored BY DEF RkInv
<1> QED BY <1>1, RkAlways, PTL

-----------------------------------------------------------------------------
(* A stream that never changes: one look, set before anything is decoded,  *)
(* then the connector's properties with the buffers, then the frames.      *)

\* What the screen will have after the next commit.
Effective == Over(request, screen)
PlaneShows(s) == s["colours"] = look.colours /\ (look.hdr => s["eotf"] = "pq")
ConnectorShows(s) == s["colorspace"] = ColorspaceFor(look)

\* Nothing has been put into the decoder, so nothing has come out of it.
Early ==
  /\ inq = <<>> /\ outq = <<>> /\ fbId = 0
  /\ fpc \in {"top", "get", "ended"} /\ dpc # "commit" /\ spc # "put"
  /\ shown = 0 /\ ~grp

RequestPlain ==
  /\ mpc = "setup" => ~atomic
  /\ ~atomic => DOMAIN request = {}
ShownFromBuffers == shown > 0 => grp \/ mpc \in {"restore", "done", "unrestored"}
Undisturbed ==
  /\ ~garbled
  /\ spc = "properties" => look = NoLook
  /\ look = NoLook => Early
Faithful ==
  look # NoLook /\ mpc \notin {"done", "unrestored"} =>
    /\ PlaneShows(Effective)
    /\ grp \/ shown > 0 => ConnectorShows(Effective)
    /\ shown > 0 => PlaneShows(screen) /\ ConnectorShows(screen)

SteadyInv == RequestPlain /\ ShownFromBuffers /\ (toggles = 0 => Undisturbed /\ Faithful)

LEMMA OverAt ==
  ASSUME NEW a, NEW s, s \in Properties, NEW p \in Names
  PROVE  Over(a, s)[p] = IF p \in DOMAIN a THEN a[p] ELSE s[p]
<1>1. p \in DOMAIN s
  BY AllProperties
<1> QED BY <1>1 DEF Over

LEMMA RequestPlainStep == ASSUME RkInv, SteadyInv, [Next]_vars PROVE RequestPlain'
<1>1. RequestPlain
  BY DEF SteadyInv
<1>2. CASE UNCHANGED <<atomic, request>> /\ (mpc' = "setup" => mpc = "setup")
  BY <1>1, <1>2 DEF RequestPlain
<1>3. CASE ChooseOutput
  BY <1>1, <1>3 DEF RequestPlain, ChooseOutput, setupUnchanged
<1>4. CASE SetLook \/ InfoChange
  <2>1. UNCHANGED atomic /\ mpc # "setup" /\ mpc' # "setup" /\ (~atomic => UNCHANGED request)
    BY <1>4 DEF SetLook, InfoChange, SetProperties, Alive
  <2> QED BY <1>1, <2>1 DEF RequestPlain
<1>5. CASE Restore
  BY <1>5 DEF RequestPlain, Restore
<1>6. [Next]_vars => \/ UNCHANGED <<atomic, request>> /\ (mpc' = "setup" => mpc = "setup")
                     \/ ChooseOutput \/ SetLook \/ InfoChange \/ Restore
  BY DEF Next, ChoosePlane, StartThreads, setupUnchanged, Submit, PutPacket, RequestRace, Decode, FrameThread,
     FrameTop, GetFrame, GetNoFrame, SendFrame, DropFrame, FrameEos, GetError, DisplayThread, DisplayTop, DisplayLock,
     DisplayWake, DisplayCommit, Take, SpuriousWake, StopStream, Cleanup, JoinSubmit, SetEos, SignalEnd, JoinDisplay,
     DestroyMutex, ResetDecoder, JoinFrame, FreeBuffers, Idle, vars, drmVars
<1> QED BY <1>2, <1>3, <1>4, <1>5, <1>6

\* A frame is committed while there are buffers, and they are freed by rk_cleanup only.
LEMMA ShownFromBuffersStep == ASSUME RkInv, SteadyInv, [Next]_vars PROVE ShownFromBuffers'
<1>1. ShownFromBuffers
  BY DEF SteadyInv
<1>2. CASE DisplayCommit
  <2>1. mpc \notin {"restore", "done", "unrestored"} => grp
    BY <1>2 DEF RkInv, Buffers, FrameUnderway, DisplayCommit
  <2> QED BY <1>2, <2>1 DEF DisplayCommit, ShownFromBuffers
<1>3. CASE UNCHANGED shown /\ (grp => grp') /\ (mpc' = mpc \/ mpc \notin {"restore", "done", "unrestored"})
  BY <1>1, <1>3 DEF ShownFromBuffers
<1>4. CASE FreeBuffers \/ Restore
  BY <1>4 DEF FreeBuffers, Restore, ShownFromBuffers
<1>5. [Next]_vars => \/ DisplayCommit \/ FreeBuffers \/ Restore
                     \/ UNCHANGED shown /\ (grp => grp') /\ (mpc' = mpc \/ mpc \notin {"restore", "done", "unrestored"})
  <2>1. mpc = "restore" => fpc = "ended" /\ dpc = "ended" /\ spc = "idle"
    BY DEF RkInv, Phases
  <2>2. mpc \in {"done", "unrestored"} => fpc = "ended" /\ dpc = "ended" /\ spc = "idle"
    BY DEF RkInv, Phases
  <2> QED BY <2>1, <2>2 DEF Next, ChooseOutput, ChoosePlane, StartThreads, setupUnchanged, Submit, SetLook, PutPacket,
       RequestRace, Decode, FrameThread, FrameTop, GetFrame, GetNoFrame, InfoChange, SendFrame, DropFrame, FrameEos, GetError,
       DisplayThread, DisplayTop, DisplayLock, DisplayWake, SpuriousWake, StopStream, Cleanup, JoinSubmit, SetEos,
       SignalEnd, JoinDisplay, DestroyMutex, ResetDecoder, JoinFrame, Idle, vars, displayVars
<1> QED BY <1>2, <1>3, <1>4, <1>5

\* Until the first unit has told its look nothing runs that could race over the request,
\* and then no unit changes it.
LEMMA UndisturbedStep ==
  ASSUME RkInv, SteadyInv, [Next]_vars, toggles' = 0
  PROVE  toggles = 0 /\ Undisturbed'
<1>1. toggles = 0 /\ Undisturbed
  <2>1. toggles' = toggles \/ toggles' = toggles + 1
    BY DEF Next, ChooseOutput, ChoosePlane, StartThreads, setupUnchanged, Submit, SetLook, PutPacket, RequestRace,
       Decode, FrameThread, FrameTop, GetFrame, GetNoFrame, InfoChange, SendFrame, DropFrame, FrameEos, GetError, DisplayThread,
       DisplayTop, DisplayLock, DisplayWake, DisplayCommit, Take, SpuriousWake, StopStream, Cleanup, JoinSubmit,
       SetEos, SignalEnd, JoinDisplay, DestroyMutex, ResetDecoder, JoinFrame, FreeBuffers, Restore, Idle, vars, drmVars
  <2>2. toggles \in Nat
    BY RkAssumption DEF RkInv, TypeOK
  <2> QED BY <2>1, <2>2 DEF SteadyInv
<1> USE <1>1 DEF Undisturbed, Early
<1>2. CASE UNCHANGED vars
  BY <1>2 DEF vars, drmVars, displayVars, frameVars, inputVars
<1>3. CASE ChooseOutput \/ ChoosePlane \/ StartThreads
  BY <1>3 DEF ChooseOutput, ChoosePlane, StartThreads, setupUnchanged, displayVars, frameVars, inputVars
<1>4. CASE Submit
  BY <1>4 DEF Submit, displayVars, frameVars
<1>5. CASE SetLook
  <2>1. look' # NoLook /\ spc' = "put" /\ garbled' = garbled
    BY <1>5, RkAssumption DEF SetLook, Looks, NoLook
  <2> QED BY <2>1
<1>6. CASE RequestRace
  BY <1>6 DEF RequestRace
<1>7. CASE PutPacket \/ Decode
  BY <1>7 DEF PutPacket, Decode, drmVars, displayVars, frameVars, inputVars
<1>8. CASE FrameThread \/ GetError
  BY <1>8 DEF FrameThread, FrameTop, GetFrame, GetNoFrame, InfoChange, SendFrame, DropFrame, FrameEos, Signalled, GetError,
     drmVars, displayVars, inputVars
<1>9. CASE DisplayThread \/ SpuriousWake
  BY <1>9 DEF DisplayThread, DisplayTop, DisplayLock, DisplayWake, DisplayCommit, Take, SpuriousWake, drmVars,
     frameVars, inputVars
<1>10. CASE StopStream \/ Cleanup
  <2>1. CASE StopStream \/ JoinSubmit \/ SetEos \/ SignalEnd \/ JoinDisplay \/ DestroyMutex
    BY <2>1 DEF StopStream, JoinSubmit, SetEos, SignalEnd, Signalled, JoinDisplay, DestroyMutex, drmVars, displayVars,
       frameVars, inputVars
  <2>2. CASE ResetDecoder \/ JoinFrame \/ FreeBuffers
    BY <2>2 DEF ResetDecoder, JoinFrame, FreeBuffers, drmVars, displayVars, frameVars, inputVars
  <2>3. CASE Restore
    BY <2>3 DEF Restore, displayVars, frameVars, inputVars
  <2> QED BY <1>10, <2>1, <2>2, <2>3 DEF Cleanup
<1> QED BY <1>2, <1>3, <1>4, <1>5, <1>6, <1>7, <1>8, <1>9, <1>10 DEF Next, Idle

\* The first unit's look is what the plane is asked for, on top of nothing.
LEMMA LookAsked ==
  ASSUME RkInv, SteadyInv, look = NoLook, NEW l \in Looks, l # look, NEW s \in Properties,
         SetProperties(PlaneProperties(l), s), look' = l
  PROVE  PlaneShows(Effective)'
<1> DEFINE ps == PlaneProperties(l)
<1>1. Some(ps) /\ request \in [DOMAIN request -> {request[p] : p \in DOMAIN request}]
  BY PlaneSome DEF RkInv, Requested, Some
<1>2. /\ "colours" \in DOMAIN ps /\ ps["colours"] = l.colours
      /\ l.hdr => "eotf" \in DOMAIN ps /\ ps["eotf"] = "pq"
  <2>1. l.colours # look.colours /\ l.hdr \in BOOLEAN /\ look.hdr = FALSE
    BY RkAssumption DEF Looks, NoLook
  <2> QED BY <2>1 DEF PlaneProperties, EotfFor
<1> HIDE DEF ps
<1>3. screen' \in Properties
  BY <1>1, PropertiesKept DEF ps
<1>4. \A p \in Names : p \in DOMAIN ps => Over(request', screen')[p] = ps[p]
  <2>1. CASE atomic
    <3>1. request' = Over(ps, request)
      BY <2>1 DEF SetProperties, ps
    <3>2. \A p \in DOMAIN ps : p \in DOMAIN request' /\ request'[p] = ps[p]
      BY <3>1 DEF Over
    <3> QED BY <1>3, <3>2, OverAt
  <2>2. CASE ~atomic
    <3>1. request' = request /\ screen' = Over(ps, s) /\ DOMAIN request = {}
      BY <2>2 DEF SetProperties, SteadyInv, RequestPlain, ps
    <3>2. \A p \in Names : Over(ps, s)[p] = IF p \in DOMAIN ps THEN ps[p] ELSE s[p]
      BY OverAt
    <3> QED BY <1>3, <3>1, <3>2, OverAt
  <2> QED BY <2>1, <2>2
<1> QED BY <1>2, <1>4 DEF PlaneShows, Effective, Names

\* The connector's properties come with the buffers.
LEMMA ConnectorAsked ==
  ASSUME RkInv, SteadyInv, SetProperties(ConnectorProperties, screen), look' = look
  PROVE  /\ ConnectorShows(Effective)'
         /\ PlaneShows(Effective) => PlaneShows(Effective)'
<1> DEFINE ps == ConnectorProperties
<1>1. /\ "colorspace" \in DOMAIN ps /\ ps["colorspace"] = ColorspaceFor(look)
      /\ "eotf" \notin DOMAIN ps /\ "colours" \notin DOMAIN ps
  BY DEF ConnectorProperties
<1> HIDE DEF ps
<1>2. Some(ps) /\ screen \in Properties /\ screen' \in Properties
  BY ConnectorSome, PropertiesKept DEF RkInv, TypeOK, ps
<1>3. \A p \in Names : Over(request', screen')[p] = IF p \in DOMAIN ps THEN ps[p] ELSE Over(request, screen)[p]
  <2>1. CASE atomic
    <3>1. request' = Over(ps, request) /\ screen' = screen
      BY <2>1 DEF SetProperties, ps
    <3>2. \A p \in DOMAIN ps \cup DOMAIN request :
            p \in DOMAIN request' /\ request'[p] = IF p \in DOMAIN ps THEN ps[p] ELSE request[p]
      BY <3>1 DEF Over
    <3>3. DOMAIN request' = DOMAIN ps \cup DOMAIN request
      BY <3>1 DEF Over
    <3> QED BY <1>2, <3>1, <3>2, <3>3, OverAt
  <2>2. CASE ~atomic
    <3>1. request' = request /\ screen' = Over(ps, screen) /\ DOMAIN request = {}
      BY <2>2 DEF SetProperties, SteadyInv, RequestPlain, ps
    <3>2. \A p \in Names : Over(ps, screen)[p] = IF p \in DOMAIN ps THEN ps[p] ELSE screen[p]
      BY <1>2, OverAt
    <3> QED BY <1>2, <3>1, <3>2, OverAt
  <2> QED BY <2>1, <2>2
<1> QED BY <1>1, <1>3 DEF PlaneShows, ConnectorShows, Effective, Names, ColorspaceFor

LEMMA FaithfulStep ==
  ASSUME RkInv, SteadyInv, [Next]_vars, toggles' = 0
  PROVE  Faithful'
<1>1. toggles = 0 /\ Undisturbed /\ Faithful /\ RequestPlain /\ ShownFromBuffers
  BY UndisturbedStep DEF SteadyInv
<1>2. screen \in Properties
  BY DEF RkInv, TypeOK
<1>3. CASE UNCHANGED <<look, request, screen, shown>> /\ (grp' => grp) /\ (mpc \in {"done", "unrestored"} => mpc' = mpc)
  BY <1>1, <1>3 DEF Faithful, PlaneShows, ConnectorShows, Effective, ColorspaceFor
<1>4. CASE SetLook
  <2>1. look = NoLook /\ shown' = 0 /\ ~grp'
    BY <1>1, <1>4 DEF SetLook, Undisturbed, Early, displayVars
  <2>2. PICK l \in Looks, meta \in IF look'.hdr # look.hdr THEN {FALSE, look'.hdr} ELSE {screen.meta} :
          l # look /\ look' = l /\ SetProperties(PlaneProperties(l), [screen EXCEPT !.meta = meta])
    BY <1>4 DEF SetLook
  <2>3. meta \in BOOLEAN
    BY <1>2, <2>2 DEF Looks, Properties
  <2>4. [screen EXCEPT !.meta = meta] \in Properties
    BY <1>2, <2>3 DEF Properties
  <2>5. PlaneShows(Effective)'
    BY <2>1, <2>2, <2>4, LookAsked
  <2> QED BY <2>1, <2>5 DEF Faithful
<1>5. CASE InfoChange
  <2>1. CASE UNCHANGED <<request, screen, grp>> /\ mpc' = "aborted"
    <3>1. mpc \notin {"done", "unrestored"} /\ UNCHANGED <<look, shown>>
      BY <1>1, <1>5 DEF InfoChange, displayVars, RkInv, Phases
    <3> QED BY <1>1, <2>1, <3>1 DEF Faithful, PlaneShows, ConnectorShows, Effective, ColorspaceFor
  <2>2. CASE ~grp /\ mpc' = mpc /\ SetProperties(ConnectorProperties, screen)
    <3>1. look' = look /\ mpc \notin {"restore", "done", "unrestored"} /\ shown' = shown
      BY <1>5 DEF InfoChange, displayVars, RkInv, Phases
    <3>2. ~(shown' > 0)
      BY <1>1, <2>2, <3>1 DEF ShownFromBuffers
    <3>3. ConnectorShows(Effective)' /\ (PlaneShows(Effective) => PlaneShows(Effective)')
      BY <2>2, <3>1, ConnectorAsked
    <3> QED BY <1>1, <2>2, <3>1, <3>2, <3>3 DEF Faithful
  <2> QED BY <1>5, <2>1, <2>2 DEF InfoChange
<1>6. CASE DisplayCommit
  <2>0. CASE UNCHANGED <<shown, screen>>
    BY <1>1, <1>6, <2>0 DEF DisplayCommit, Faithful, PlaneShows, ConnectorShows, Effective, ColorspaceFor
  <2>1. CASE screen' \in IF atomic THEN Commits(request, garbled) ELSE {screen}
    <3>1. UNCHANGED <<look, request, grp, mpc, atomic>> /\ mpc \notin {"restore", "done", "unrestored"} /\ grp
      BY <1>6 DEF DisplayCommit, RkInv, Phases, Buffers, FrameUnderway
    <3>2. \A p \in Names : screen'[p] = Over(request, screen)[p]
      <4>1. CASE atomic
        BY <1>1, <2>1, <4>1 DEF Commits, Undisturbed
      <4>2. CASE ~atomic
        <5>1. screen' = screen /\ DOMAIN request = {}
          BY <1>1, <2>1, <4>2 DEF RequestPlain
        <5> QED BY <1>2, <5>1, OverAt
      <4> QED BY <4>1, <4>2
    <3>3. screen' \in Properties
      BY DrawnStep DEF Drawn
    <3>4. \A p \in Names : Over(request', screen')[p] = Over(request, screen)[p]
      BY <1>2, <3>1, <3>2, <3>3, OverAt
    <3> QED BY <1>1, <3>1, <3>2, <3>4 DEF Faithful, PlaneShows, ConnectorShows, Effective, ColorspaceFor, Names
  <2> QED BY <1>1, <1>6, <2>0, <2>1 DEF DisplayCommit, Undisturbed
<1>7. CASE Restore
  BY <1>7 DEF Restore, Faithful
<1>8. \/ UNCHANGED <<look, request, screen, shown>> /\ (grp' => grp) /\ (mpc \in {"done", "unrestored"} => mpc' = mpc)
      \/ SetLook \/ InfoChange \/ DisplayCommit \/ Restore
  <2>1. ~RequestRace
    BY <1>1 DEF RequestRace, Undisturbed, Early
  <2> QED BY <2>1 DEF Next, ChooseOutput, ChoosePlane, StartThreads, setupUnchanged, Submit, PutPacket, Decode, FrameThread,
       FrameTop, GetFrame, GetNoFrame, SendFrame, DropFrame, FrameEos, GetError, DisplayThread, DisplayTop, DisplayLock,
       DisplayWake, Take, SpuriousWake, StopStream, Cleanup, JoinSubmit, SetEos, SignalEnd, JoinDisplay,
       DestroyMutex, ResetDecoder, JoinFrame, FreeBuffers, Idle, vars, drmVars, displayVars
<1> QED BY <1>3, <1>4, <1>5, <1>6, <1>7, <1>8

\* A stream that never changes is shown as what it is, for all colour spaces and any
\* number of frames: its look is set by one thread before another asks the connector for
\* it, and both before a third commits the first frame; no race damages the request.
THEOREM SteadyAlwaysFaithful == Spec => []SteadyStreamIsFaithful
<1>1. Init => SteadyInv
  <2>1. ASSUME Init PROVE RequestPlain /\ ShownFromBuffers /\ Undisturbed
    BY <2>1 DEF Init, RequestPlain, ShownFromBuffers, Undisturbed, Early
  <2>2. Init => look = NoLook
    BY DEF Init
  <2> QED BY <2>1, <2>2 DEF SteadyInv, Faithful
<1>2. RkInv /\ SteadyInv /\ [Next]_vars => SteadyInv'
  BY RequestPlainStep, ShownFromBuffersStep, UndisturbedStep, FaithfulStep DEF SteadyInv
<1>3. RkInv /\ SteadyInv => SteadyStreamIsFaithful
  <2> SUFFICES ASSUME RkInv, SteadyInv, shown > 0, toggles = 0, mpc \notin {"done", "unrestored"}
               PROVE  SteadyStreamIsFaithful
    BY DEF SteadyStreamIsFaithful
  <2>1. look # NoLook
    BY DEF SteadyInv, Undisturbed, Early
  <2> QED BY <2>1 DEF SteadyInv, Faithful, PlaneShows, ConnectorShows, SteadyStreamIsFaithful
<1> QED BY <1>1, <1>2, <1>3, RkAlways, PTL DEF Spec

-----------------------------------------------------------------------------
(* The frames under way, from the screen back to the packet that is being  *)
(* submitted, are in the order they were submitted in.                     *)

\* A frame that is later than all that have left the decoder.
Below(n) ==
  /\ shown < n
  /\ dpc = "commit" => taken < n
  /\ fbId # 0 => fbId < n
  /\ fpc = "send" => frame < n

\* A frame whose packet has been submitted.
Sent(n) == n <= sent /\ (spc # "idle" => n < sent)

TakenInOrder == Sent(shown) /\ (dpc = "commit" => shown < taken /\ Sent(taken))
FbIdInOrder == fbId # 0 => /\ shown < fbId /\ Sent(fbId)
                           /\ dpc = "commit" => taken < fbId
FrameInOrder == fpc = "send" => /\ shown < frame /\ Sent(frame)
                                /\ dpc = "commit" => taken < frame
                                /\ fbId # 0 => fbId < frame
OutqInOrder ==
  /\ \A k \in 1 .. Len(outq) : Sent(outq[k]) /\ (outq[k] # 0 => Below(outq[k]))
  /\ \A j, k \in 1 .. Len(outq) : j < k /\ outq[k] # 0 => outq[j] < outq[k]
InqInOrder ==
  /\ \A k \in 1 .. Len(inq) : Sent(inq[k].n) /\ Below(inq[k].n)
  /\ \A j, k \in 1 .. Len(inq) : j < k => inq[j].n < inq[k].n
  /\ \A j \in 1 .. Len(outq), k \in 1 .. Len(inq) : outq[j] < inq[k].n

OrderInv == TakenInOrder /\ FbIdInOrder /\ FrameInOrder /\ OutqInOrder /\ InqInOrder

FrameNumbers ==
  /\ fbId \in Nat /\ taken \in Nat /\ shown \in Nat /\ frame \in Nat /\ sent \in Nat
  /\ inq \in Seq(Packet) /\ Len(inq) \in Nat /\ \A k \in 1 .. Len(inq) : inq[k].n \in Nat \ {0}
  /\ outq \in Seq(Frames) /\ Len(outq) \in Nat /\ \A k \in 1 .. Len(outq) : outq[k] \in Nat

LEMMA FramesAreNumbers == ASSUME RkInv PROVE FrameNumbers
<1>1. /\ fbId \in Nat /\ taken \in Nat /\ shown \in Nat /\ frame \in Nat /\ sent \in Nat
  BY RkAssumption DEF RkInv, TypeOK, Frames
<1>2. inq \in Seq(Packet) /\ outq \in Seq(Frames)
  BY DEF RkInv, TypeOK
<1>3. (\A p \in Packet : p.n \in Nat \ {0}) /\ (\A n \in Frames : n \in Nat)
  BY RkAssumption DEF Packet, Frames
<1> QED BY <1>1, <1>2, <1>3 DEF FrameNumbers

\* What does not move a frame out of the decoder or into it.
Elsewhere == UNCHANGED <<fbId, dpc, taken, shown, fpc, frame, sent>>

LEMMA SameElsewhere ==
  ASSUME Elsewhere, spc' = spc
  PROVE  /\ \A n : (Below(n)' <=> Below(n)) /\ (Sent(n)' <=> Sent(n))
         /\ TakenInOrder' = TakenInOrder /\ FbIdInOrder' = FbIdInOrder /\ FrameInOrder' = FrameInOrder
BY DEF Elsewhere, Below, Sent, TakenInOrder, FbIdInOrder, FrameInOrder

\* Enough that the last frame and the first packet are in order with the rest.
LEMMA PutKeepsOrder == ASSUME RkInv, OrderInv, PutPacket PROVE OrderInv'
<1>0. FrameNumbers
  BY FramesAreNumbers
<1>1. PICK changes \in BOOLEAN : inq' = Append(inq, [n |-> sent, changes |-> changes])
  BY DEF PutPacket
<1>2. Elsewhere /\ outq' = outq /\ spc = "put" /\ spc' = "idle" /\ sent \in Nat
  BY <1>0 DEF PutPacket, Elsewhere, displayVars, frameVars, FrameNumbers
<1>3. /\ Len(inq') = Len(inq) + 1 /\ Len(inq) \in Nat
      /\ \A k \in 1 .. Len(inq) : inq'[k] = inq[k] /\ inq'[k].n < sent /\ inq'[k].n \in Nat
  BY <1>0, <1>1, <1>2 DEF FrameNumbers, OrderInv, InqInOrder, Sent
<1>4. inq'[Len(inq) + 1].n = sent
  BY <1>0, <1>1 DEF FrameNumbers
<1>5. \A k \in 1 .. Len(inq') : k \in 1 .. Len(inq) \/ k = Len(inq) + 1
  BY <1>3
<1>6. /\ \A n : Below(n)' <=> Below(n)
      /\ \A n : Sent(n) => Sent(n)'
      /\ Sent(sent)'
  BY <1>2 DEF Elsewhere, Below, Sent
<1>7. TakenInOrder' /\ FbIdInOrder' /\ FrameInOrder'
  BY <1>2, <1>6 DEF OrderInv, TakenInOrder, FbIdInOrder, FrameInOrder, Elsewhere
<1>8. OutqInOrder'
  BY <1>2, <1>6 DEF OrderInv, OutqInOrder
<1>9. Below(sent)
  BY <1>0, <1>2 DEF FrameNumbers, OrderInv, TakenInOrder, FbIdInOrder, FrameInOrder, Below, Sent
<1>10. \A j \in 1 .. Len(outq) : outq[j] < sent
  BY <1>2 DEF OrderInv, OutqInOrder, Sent
<1>11. ASSUME NEW k \in 1 .. Len(inq')
       PROVE  Sent(inq[k].n)' /\ Below(inq[k].n)'
  <2>1. CASE k \in 1 .. Len(inq)
    <3>1. inq'[k] = inq[k] /\ Sent(inq[k].n) /\ Below(inq[k].n)
      BY <1>3, <2>1 DEF OrderInv, InqInOrder
    <3> DEFINE n == inq[k].n
    <3>2. inq'[k].n = n /\ Sent(n)' /\ Below(n)'
      BY <1>6, <3>1
    <3> QED BY <3>2 DEF Sent, Below
  <2>2. CASE k = Len(inq) + 1
    BY <1>2, <1>4, <1>6, <1>9, <2>2 DEF Sent, Below, Elsewhere
  <2> QED BY <1>5, <2>1, <2>2
<1>12. ASSUME NEW j \in 1 .. Len(inq'), NEW k \in 1 .. Len(inq'), j < k PROVE inq'[j].n < inq'[k].n
  <2>1. j \in 1 .. Len(inq)
    BY <1>3, <1>12
  <2>2. CASE k \in 1 .. Len(inq)
    BY <1>3, <1>12, <2>1, <2>2 DEF OrderInv, InqInOrder
  <2>3. CASE k = Len(inq) + 1
    BY <1>3, <1>4, <2>1, <2>3
  <2> QED BY <1>5, <2>2, <2>3
<1>13. ASSUME NEW j \in 1 .. Len(outq'), NEW k \in 1 .. Len(inq') PROVE outq'[j] < inq'[k].n
  <2>1. CASE k \in 1 .. Len(inq)
    BY <1>2, <1>3, <2>1 DEF OrderInv, InqInOrder
  <2>2. CASE k = Len(inq) + 1
    BY <1>2, <1>4, <1>10, <2>2
  <2> QED BY <1>5, <2>1, <2>2
<1>14. InqInOrder'
  BY <1>11, <1>12, <1>13 DEF InqInOrder
<1> QED BY <1>7, <1>8, <1>14 DEF OrderInv

LEMMA DecodeKeepsOrder == ASSUME RkInv, OrderInv, Decode PROVE OrderInv'
<1>0. FrameNumbers
  BY FramesAreNumbers
<1>1. Elsewhere /\ spc' = spc /\ inq # <<>>
  BY DEF Decode, Elsewhere, displayVars, frameVars, inputVars
<1>2. inq \in Seq(Packet) /\ outq \in Seq(Frames) /\ Len(inq) \in Nat \ {0} /\ Len(outq) \in Nat
  BY <1>0, <1>1 DEF FrameNumbers
<1>3. /\ Head(inq) \in Packet /\ Head(inq) = inq[1]
      /\ Tail(inq) \in Seq(Packet) /\ Len(Tail(inq)) = Len(inq) - 1
      /\ \A k \in 1 .. Len(inq) - 1 : Tail(inq)[k] = inq[k + 1]
  BY <1>1, <1>2
<1>4. ASSUME NEW n \in Frames, outq' = Append(outq, n)
      PROVE  /\ Len(outq') = Len(outq) + 1 /\ outq'[Len(outq) + 1] = n
             /\ \A k \in 1 .. Len(outq) : outq'[k] = outq[k]
             /\ \A k \in 1 .. Len(outq') : k \in 1 .. Len(outq) \/ k = Len(outq) + 1
  BY <1>2, <1>4
<1>5. TakenInOrder' /\ FbIdInOrder' /\ FrameInOrder'
  BY <1>1, SameElsewhere DEF OrderInv
<1>6. CASE inq' = <<[Head(inq) EXCEPT !.changes = FALSE]>> \o Tail(inq) /\ outq' = Append(outq, Info)
  <2> DEFINE p == [Head(inq) EXCEPT !.changes = FALSE]
  <2>1. p \in Packet /\ p.n = inq[1].n
    BY <1>3 DEF Packet
  <2>2. inq' = <<p>> \o Tail(inq)
    BY <1>6
  <2> HIDE DEF p
  <2>3. <<p>> \in Seq(Packet) /\ Len(<<p>>) = 1 /\ <<p>>[1] = p
    BY <2>1
  <2>4. Len(inq') = Len(inq) /\ inq'[1] = p /\ \A k \in 2 .. Len(inq) : inq'[k] = Tail(inq)[k - 1]
    BY <1>2, <1>3, <2>2, <2>3
  <2>5. \A k \in 2 .. Len(inq) : k - 1 \in 1 .. Len(inq) - 1 /\ (k - 1) + 1 = k
    BY <1>2
  <2>6. \A k \in 2 .. Len(inq) : inq'[k] = inq[k]
    BY <1>3, <2>4, <2>5
  <2>7. Len(inq') = Len(inq) /\ \A k \in 1 .. Len(inq) : inq'[k].n = inq[k].n
    <3>1. \A k \in 1 .. Len(inq) : k = 1 \/ k \in 2 .. Len(inq)
      BY <1>2
    <3> QED BY <2>1, <2>4, <2>6, <3>1
  <2>8. /\ Len(outq') = Len(outq) + 1 /\ outq'[Len(outq) + 1] = 0
        /\ \A k \in 1 .. Len(outq) : outq'[k] = outq[k]
        /\ \A k \in 1 .. Len(outq') : k \in 1 .. Len(outq) \/ k = Len(outq) + 1
    BY <1>4, <1>6, RkAssumption DEF Info, Frames
  <2>9. Sent(0) /\ \A k \in 1 .. Len(inq) : 0 < inq[k].n
    BY <1>0 DEF FrameNumbers, OrderInv, TakenInOrder, Sent
  <2>10. \A k \in 1 .. Len(outq') : Sent(outq'[k]) /\ (outq'[k] # 0 => Below(outq'[k]))
    BY <2>8, <2>9 DEF OrderInv, OutqInOrder
  <2>11. ASSUME NEW j \in 1 .. Len(outq'), NEW k \in 1 .. Len(outq'), j < k, outq'[k] # 0
         PROVE  outq'[j] < outq'[k]
    <3>1. k \in 1 .. Len(outq)
      BY <2>8, <2>11
    <3>2. j \in 1 .. Len(outq)
      BY <1>2, <2>11, <3>1
    <3> QED BY <2>8, <2>11, <3>1, <3>2 DEF OrderInv, OutqInOrder
  <2>12. OutqInOrder'
    BY <1>1, <2>10, <2>11, SameElsewhere DEF OutqInOrder
  <2>13. \A j \in 1 .. Len(outq'), k \in 1 .. Len(inq) : outq'[j] < inq[k].n
    BY <2>8, <2>9 DEF OrderInv, InqInOrder
  <2>14. InqInOrder'
    BY <1>1, <2>7, <2>13, SameElsewhere DEF OrderInv, InqInOrder
  <2> QED BY <1>5, <2>12, <2>14 DEF OrderInv
<1>7. CASE inq' = Tail(inq) /\ outq' = Append(outq, Head(inq).n)
  <2>1. Head(inq).n \in Frames /\ 1 \in 1 .. Len(inq)
    BY <1>2, <1>3, RkAssumption DEF Packet, Frames
  <2>2. /\ Len(outq') = Len(outq) + 1 /\ outq'[Len(outq) + 1] = inq[1].n
        /\ \A k \in 1 .. Len(outq) : outq'[k] = outq[k]
        /\ \A k \in 1 .. Len(outq') : k \in 1 .. Len(outq) \/ k = Len(outq) + 1
    BY <1>3, <1>4, <1>7, <2>1
  <2>3. Len(inq') = Len(inq) - 1 /\ \A k \in 1 .. Len(inq') : inq'[k] = inq[k + 1] /\ k + 1 \in 1 .. Len(inq) /\ 1 < k + 1
    BY <1>2, <1>3, <1>7
  <2>4. Sent(inq[1].n) /\ Below(inq[1].n) /\ \A j \in 1 .. Len(outq) : outq[j] < inq[1].n
    BY <2>1 DEF OrderInv, InqInOrder
  <2>5. \A k \in 1 .. Len(outq') : Sent(outq'[k]) /\ (outq'[k] # 0 => Below(outq'[k]))
    BY <2>2, <2>4 DEF OrderInv, OutqInOrder
  <2>6. ASSUME NEW j \in 1 .. Len(outq'), NEW k \in 1 .. Len(outq'), j < k, outq'[k] # 0
        PROVE  outq'[j] < outq'[k]
    <3>1. j \in 1 .. Len(outq)
      BY <1>2, <2>2, <2>6
    <3>2. CASE k \in 1 .. Len(outq)
      BY <2>2, <2>6, <3>1, <3>2 DEF OrderInv, OutqInOrder
    <3>3. CASE k = Len(outq) + 1
      BY <2>2, <2>4, <3>1, <3>3
    <3> QED BY <2>2, <3>2, <3>3
  <2>7. OutqInOrder'
    BY <1>1, <2>5, <2>6, SameElsewhere DEF OutqInOrder
  <2>8. \A k \in 1 .. Len(inq') : Sent(inq'[k].n) /\ Below(inq'[k].n) /\ inq[1].n < inq'[k].n
    BY <2>1, <2>3 DEF OrderInv, InqInOrder
  <2>9. ASSUME NEW j \in 1 .. Len(inq'), NEW k \in 1 .. Len(inq'), j < k
        PROVE  inq'[j].n < inq'[k].n
    <3>1. j + 1 < k + 1
      BY <1>2, <2>3, <2>9
    <3> QED BY <2>3, <3>1 DEF OrderInv, InqInOrder
  <2>10. ASSUME NEW j \in 1 .. Len(outq'), NEW k \in 1 .. Len(inq')
         PROVE  outq'[j] < inq'[k].n
    <3>1. CASE j \in 1 .. Len(outq)
      BY <2>2, <2>3, <3>1 DEF OrderInv, InqInOrder
    <3>2. CASE j = Len(outq) + 1
      BY <2>2, <2>8, <3>2
    <3> QED BY <2>2, <3>1, <3>2
  <2>11. InqInOrder'
    BY <1>1, <2>8, <2>9, <2>10, SameElsewhere DEF InqInOrder
  <2> QED BY <1>5, <2>7, <2>11 DEF OrderInv
<1> QED BY <1>6, <1>7 DEF Decode

LEMMA GetFrameKeepsOrder == ASSUME RkInv, OrderInv, GetFrame PROVE OrderInv'
<1>0. FrameNumbers
  BY FramesAreNumbers
<1>1. UNCHANGED <<fbId, dpc, taken, shown, sent, spc, inq>> /\ outq # <<>> /\ fpc = "get"
  BY DEF GetFrame, displayVars, inputVars
<1>2. /\ Len(outq) \in Nat \ {0} /\ 1 \in 1 .. Len(outq) /\ frame' = outq[1]
      /\ fpc' \in {"info", "send"} /\ (fpc' = "send" => outq[1] # 0)
      /\ Len(outq') = Len(outq) - 1 /\ \A k \in 1 .. Len(outq) - 1 : outq'[k] = outq[k + 1]
  BY <1>0, <1>1 DEF FrameNumbers, GetFrame, Info
<1>3. \A k \in 1 .. Len(outq') : outq'[k] = outq[k + 1] /\ k + 1 \in 1 .. Len(outq) /\ 1 < k + 1
  BY <1>2
<1>4. \A n : Sent(n)' <=> Sent(n)
  BY <1>1 DEF Sent
<1>5. \A n : Below(n) /\ frame' < n => Below(n)'
  BY <1>1 DEF Below
<1>6. TakenInOrder' /\ FbIdInOrder'
  BY <1>1, <1>4 DEF OrderInv, TakenInOrder, FbIdInOrder
<1>7. FrameInOrder'
  <2>1. outq[1] # 0 => Sent(outq[1]) /\ Below(outq[1])
    BY <1>2 DEF OrderInv, OutqInOrder
  <2> QED BY <1>1, <1>2, <1>4, <2>1 DEF FrameInOrder, Below
<1>8. OutqInOrder'
  <2>1. ASSUME NEW k \in 1 .. Len(outq')
        PROVE  Sent(outq'[k]) /\ (outq'[k] # 0 => Below(outq'[k]) /\ frame' < outq'[k])
    BY <1>2, <1>3 DEF OrderInv, OutqInOrder
  <2>2. ASSUME NEW j \in 1 .. Len(outq'), NEW k \in 1 .. Len(outq'), j < k, outq'[k] # 0
        PROVE  outq'[j] < outq'[k]
    <3>1. j + 1 < k + 1
      BY <1>2, <2>2
    <3> QED BY <1>3, <2>2, <3>1 DEF OrderInv, OutqInOrder
  <2> QED BY <1>4, <1>5, <2>1, <2>2 DEF OutqInOrder
<1>9. InqInOrder'
  <2>1. \A k \in 1 .. Len(inq) : Below(inq[k].n) /\ frame' < inq[k].n
    BY <1>2 DEF OrderInv, InqInOrder
  <2> QED BY <1>1, <1>3, <1>4, <1>5, <2>1 DEF OrderInv, InqInOrder
<1> QED BY <1>6, <1>7, <1>8, <1>9 DEF OrderInv

LEMMA OrderStep == ASSUME RkInv, OrderInv, [Next]_vars PROVE OrderInv'
<1>0. FrameNumbers
  BY FramesAreNumbers
<1> USE DEF OrderInv, TakenInOrder, FbIdInOrder, FrameInOrder, OutqInOrder, InqInOrder, Below, Sent
<1>1. CASE UNCHANGED <<fbId, taken, shown, frame, sent, spc, inq, outq>> /\ (dpc' = "commit" => dpc = "commit")
           /\ (fpc' = "send" => fpc = "send")
  BY <1>1
<1>2. CASE Submit
  BY <1>0, <1>2 DEF Submit, FrameNumbers, displayVars, frameVars
<1>3. CASE SetLook
  <2>1. UNCHANGED <<fbId, dpc, taken, shown, fpc, frame, sent, inq, outq>> /\ spc = "properties" /\ spc' = "put"
    BY <1>3 DEF SetLook, displayVars, frameVars
  <2> QED BY <2>1
<1>4. CASE PutPacket
  BY <1>4, PutKeepsOrder
<1>5. CASE Decode
  BY <1>5, DecodeKeepsOrder
<1>6. CASE GetFrame
  BY <1>6, GetFrameKeepsOrder
<1>7. CASE SendFrame
  <2>1. UNCHANGED <<taken, shown, frame, sent, spc, inq, outq>> /\ (dpc' = "commit" <=> dpc = "commit")
        /\ fpc = "send" /\ fpc' = "eos" /\ fbId' = frame
    BY <1>7 DEF SendFrame, Signalled, inputVars
  <2> QED BY <1>0, <2>1 DEF FrameNumbers
<1>8. CASE FrameEos
  <2>1. UNCHANGED <<fbId, dpc, taken, shown, sent, spc, inq, outq>> /\ fpc' = "top"
    BY <1>8 DEF FrameEos, displayVars, inputVars
  <2> QED BY <2>1
<1>9. CASE DisplayLock \/ DisplayWake
  <2>1. UNCHANGED <<shown, fpc, frame, sent, spc, inq, outq>> /\ dpc # "commit"
    BY <1>9 DEF DisplayLock, DisplayWake, frameVars, inputVars
  <2>2. \/ UNCHANGED <<fbId, taken>> /\ dpc' # "commit"
        \/ fbId # 0 /\ taken' = fbId /\ fbId' = 0 /\ dpc' = "commit"
    BY <1>9 DEF DisplayLock, DisplayWake, Take
  <2> QED BY <1>0, <2>1, <2>2 DEF FrameNumbers
<1>10. CASE DisplayCommit
  <2>1. UNCHANGED <<fbId, taken, fpc, frame, sent, spc, inq, outq>> /\ dpc = "commit" /\ dpc' = "top"
        /\ shown' \in {shown, taken}
    BY <1>10 DEF DisplayCommit, frameVars, inputVars
  <2> QED BY <1>0, <2>1 DEF FrameNumbers
<1>11. CASE ResetDecoder
  <2>1. UNCHANGED <<fbId, dpc, taken, shown, fpc, frame, sent, spc>> /\ Len(inq') = 0 /\ Len(outq') = 0
    BY <1>11 DEF ResetDecoder, displayVars, frameVars, inputVars
  <2>2. \A k : k \notin 1 .. 0
    OBVIOUS
  <2> QED BY <2>1, <2>2
<1>12. \/ UNCHANGED <<fbId, taken, shown, frame, sent, spc, inq, outq>> /\ (dpc' = "commit" => dpc = "commit")
          /\ (fpc' = "send" => fpc = "send")
       \/ Submit \/ SetLook \/ PutPacket \/ Decode \/ GetFrame \/ SendFrame \/ FrameEos \/ DisplayLock
       \/ DisplayWake \/ DisplayCommit \/ ResetDecoder
  BY DEF Next, ChooseOutput, ChoosePlane, StartThreads, setupUnchanged, RequestRace, FrameThread, FrameTop, GetNoFrame,
     InfoChange, DropFrame, GetError, DisplayThread, DisplayTop, SpuriousWake, StopStream, Cleanup, JoinSubmit, SetEos, SignalEnd,
     Signalled, JoinDisplay, DestroyMutex, JoinFrame, FreeBuffers, Restore, Idle, vars, displayVars, frameVars, inputVars
<1> QED BY <1>1, <1>2, <1>3, <1>4, <1>5, <1>6, <1>7, <1>8, <1>9, <1>10, <1>11, <1>12

\* For any number of frames and any queues: every commit shows a frame that was submitted
\* after the one on the screen, though frames are handed over through one variable that
\* is overwritten, or fails and leaves the old one there.  (The first half of
\* FrameReachesScreen.)
THEOREM FramesNeverReordered == Spec => [][ShowsLater]_vars
<1>1. Init => OrderInv
  <2> SUFFICES ASSUME Init PROVE OrderInv
    OBVIOUS
  <2>1. Len(inq) = 0 /\ Len(outq) = 0 /\ \A k : k \notin 1 .. 0
    BY DEF Init
  <2> QED BY <2>1 DEF Init, OrderInv, TakenInOrder, FbIdInOrder, FrameInOrder, OutqInOrder, InqInOrder, Sent
<1>2. RkInv /\ OrderInv /\ [Next]_vars => OrderInv'
  BY OrderStep
<1>3. RkInv /\ OrderInv /\ [Next]_vars => [ShowsLater]_vars
  <2> SUFFICES ASSUME RkInv, OrderInv, Next, dpc = "commit", dpc' = "top" PROVE ShowsLater
    BY DEF ShowsLater
  <2>1. DisplayCommit
    BY DEF Next, ChooseOutput, ChoosePlane, StartThreads, setupUnchanged, Submit, SetLook, PutPacket, RequestRace, Decode,
       FrameThread, FrameTop, GetFrame, GetNoFrame, InfoChange, SendFrame, DropFrame, FrameEos, GetError, DisplayThread,
       DisplayTop, DisplayLock, DisplayWake, SpuriousWake, StopStream, Cleanup, JoinSubmit, SetEos, SignalEnd,
       Signalled, JoinDisplay, DestroyMutex, ResetDecoder, JoinFrame, FreeBuffers, Restore, Idle, vars, displayVars
  <2>2. shown < taken /\ shown \in Nat /\ taken \in Nat
    BY FramesAreNumbers DEF OrderInv, TakenInOrder, FrameNumbers
  <2> QED BY <2>1, <2>2 DEF DisplayCommit, ShowsLater, CommitFailed
<1> QED BY <1>1, <1>2, <1>3, RkAlways, PTL DEF Spec
=============================================================================
