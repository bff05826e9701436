--------------------------------- MODULE Aml ---------------------------------
(***************************************************************************)
(* The AMLogic renderer (src/src/video/aml.c).  The receiving thread       *)
(* writes each packet to the codec, which may take a part of it or nothing *)
(* for the moment; in some pipelines a thread of its own has to pass the   *)
(* pictures on.  The codec and the video device are external.              *)
(***************************************************************************)
EXTENDS Integers

CONSTANTS
  MAX_WRITE_ATTEMPTS,
  CodecSize,    \* parts of packets the codec takes before it is full
  VideoBuffers  \* pictures the video device holds before the codec has to wait

VARIABLES
  spc,         \* receiving thread: "idle", "codec", "ended"
  mpc,         \* main thread: "loop", then "stopping", "cleanup", "join", "done"
  length,      \* parts of the packet that are not written
  errCounter,
  codec,       \* parts in the codec
  pictures,    \* pictures in the video device
  dpc,         \* aml_display_thread: "none", "look", "dequeue", "queue", "ended"
  done

amlVars == <<length, errCounter, codec, pictures, dpc, done>>

AmlInit ==
  /\ length = 0 /\ errCounter = 0 /\ codec = 0 /\ pictures = 0 /\ done = FALSE
  /\ dpc = "none"

\* aml_setup, with amlvideo in the pipeline or without.
aml_setup == dpc' \in {"none", "look"}

-----------------------------------------------------------------------------
(* aml_submit_decode_unit.                                                 *)

BeginPacket ==
  /\ spc = "idle" /\ spc' = "codec"
  /\ length' \in 1 .. 2 /\ errCounter' = 0
  /\ UNCHANGED <<mpc, codec, pictures, dpc, done>>

\* The codec takes a part of the packet.
Write ==
  /\ spc = "codec" /\ length > 0 /\ codec < CodecSize
  /\ codec' = codec + 1 /\ length' = length - 1
  /\ UNCHANGED <<spc, mpc, errCounter, pictures, dpc, done>>

WriteForEver ==              \* variant: attempts are not counted
  /\ spc = "codec" /\ length > 0 /\ codec = CodecSize
  /\ UNCHANGED <<spc, mpc, amlVars>>

\* EAGAIN: after the last attempt the rest of the packet is dropped.
WriteAgain ==
  /\ spc = "codec" /\ length > 0 /\ codec = CodecSize
  /\ errCounter' = errCounter + 1
  /\ spc' = IF errCounter' = MAX_WRITE_ATTEMPTS THEN "idle" ELSE "codec"
  /\ UNCHANGED <<mpc, length, codec, pictures, dpc, done>>

\* Any other error: codec_reset.
WriteFails ==
  /\ spc = "codec" /\ length > 0
  /\ codec' = 0 /\ spc' = "idle"
  /\ UNCHANGED <<mpc, length, errCounter, pictures, dpc, done>>

Written ==
  /\ spc = "codec" /\ length = 0 /\ spc' = "idle"
  /\ UNCHANGED <<mpc, amlVars>>

\* The codec: without amlvideo its pictures go to the screen.
CodecDecodes ==
  /\ codec > 0 /\ codec' = codec - 1
  /\ IF dpc = "none" THEN UNCHANGED pictures
     ELSE pictures < VideoBuffers /\ pictures' = pictures + 1
  /\ UNCHANGED <<spc, mpc, length, errCounter, dpc, done>>

-----------------------------------------------------------------------------
(* aml_display_thread.  The device is opened O_NONBLOCK, so the thread     *)
(* looks at done again when there is no picture.                           *)

Look ==
  /\ dpc = "look"
  /\ dpc' = IF done THEN "ended" ELSE "dequeue"
  /\ UNCHANGED <<spc, mpc, length, errCounter, codec, pictures, done>>

DequeuePicture ==
  /\ dpc = "dequeue"
  /\ IF pictures > 0 THEN pictures' = pictures - 1 /\ dpc' = "queue"
                     ELSE dpc' = "look" /\ UNCHANGED pictures
  /\ UNCHANGED <<spc, mpc, length, errCounter, codec, done>>

QueuePicture ==
  /\ dpc = "queue" /\ dpc' = "look"
  /\ UNCHANGED <<spc, mpc, length, errCounter, codec, pictures, done>>

\* Any error but EAGAIN.
DisplayFails ==
  /\ dpc \in {"dequeue", "queue"} /\ dpc' = "ended"
  /\ UNCHANGED <<spc, mpc, length, errCounter, codec, pictures, done>>

-----------------------------------------------------------------------------
(* aml_cleanup.                                                            *)

AmlCleanUp ==
  /\ mpc = "cleanup"
  /\ IF dpc = "none" THEN mpc' = "done" /\ UNCHANGED done
                     ELSE mpc' = "join" /\ done' = TRUE
  /\ UNCHANGED <<spc, length, errCounter, codec, pictures, dpc>>

\* pthread_join, the device and the codec are closed.
Join ==
  /\ mpc = "join" /\ dpc = "ended"
  /\ mpc' = "done"
  /\ UNCHANGED <<spc, amlVars>>

-----------------------------------------------------------------------------
AmlSubmit == Write \/ WriteAgain \/ Written
Display == Look \/ DequeuePicture \/ QueuePicture

\* Nothing is written to a codec, and no picture dequeued from a device, that are
\* closed.  (And types hold.)
AmlOpenInUse ==
  /\ spc \in {"idle", "codec", "ended"} /\ codec \in 0 .. CodecSize
  /\ pictures \in 0 .. VideoBuffers /\ errCounter \in 0 .. MAX_WRITE_ATTEMPTS
  /\ mpc = "done" => spc = "ended" /\ dpc \in {"none", "ended"}
=============================================================================
