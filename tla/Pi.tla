---------------------------------- MODULE Pi ----------------------------------
(***************************************************************************)
(* The OpenMAX renderer of the Raspberry Pi (src/src/video/pi.c).  The     *)
(* receiving thread fills input buffers of the decoder, and connects the   *)
(* decoder to the renderer when it finds the event that the decoder knows  *)
(* the size of the picture.                                                *)
(*                                                                         *)
(* The components are external: the decoder announces the size once, some  *)
(* time after it got its first buffer, and then keeps its input until it   *)
(* is connected.                                                           *)
(***************************************************************************)
EXTENDS Integers, Sequences

CONSTANTS
  Units,       \* decode units: sequences of entries, "SPS", "PPS" or "PICDATA"
  InBuffers    \* input buffers of the decoder

VARIABLES
  spc,         \* receiving thread: "idle", "entries", "ended", "exited"
  mpc,         \* main thread: "cleanup", "done"
  unit,        \* entries of the unit that are not sent
  held,        \* the receiving thread has a buffer
  poolIn,      \* buffers ilclient_get_input_buffer can return
  inDecoder,   \* buffers the decoder has
  announced,   \* the decoder knows the size of the picture
  event,       \* OMX_EventPortSettingsChanged is in the list of events
  port_settings_changed  \* set when the tunnel is

inputVars == <<unit, held, poolIn, inDecoder>>
piVars == <<announced, event, port_settings_changed>>

PiInit == announced = FALSE /\ event = FALSE /\ port_settings_changed = 0

-----------------------------------------------------------------------------
(* decoder_renderer_submit_decode_unit.                                    *)

BeginUnit(u) ==
  /\ spc = "idle" /\ spc' = "entries" /\ unit' = u
  /\ UNCHANGED <<held, poolIn, inDecoder, piVars>>

\* ilclient_get_input_buffer waits for a buffer.
GetInput ==
  /\ spc = "entries" /\ unit # <<>> /\ ~held
  /\ poolIn > 0 /\ poolIn' = poolIn - 1 /\ held' = TRUE
  /\ UNCHANGED <<spc, unit, inDecoder, piVars>>

\* A buffer holds an entry that is not picture data, or the picture data that follow
\* one another.
EndsBuffer == ~(Len(unit) > 1 /\ Head(unit) = "PICDATA" /\ unit[2] = "PICDATA")

CopyEntry ==
  /\ spc = "entries" /\ held /\ ~EndsBuffer
  /\ unit' = Tail(unit)
  /\ UNCHANGED <<spc, held, poolIn, inDecoder, piVars>>

\* The event, if it is there by now, and OMX_EmptyThisBuffer.
SendInput ==
  /\ spc = "entries" /\ held /\ EndsBuffer
  /\ IF port_settings_changed = 0 /\ event
     THEN event' = FALSE /\ port_settings_changed' = 1
     ELSE UNCHANGED <<event, port_settings_changed>>
  /\ held' = FALSE /\ inDecoder' = inDecoder + 1 /\ unit' = Tail(unit)
  /\ UNCHANGED <<spc, poolIn, announced>>

\* A buffer is refused or the tunnel fails: exit().
SendFails ==
  /\ spc = "entries" /\ held /\ EndsBuffer
  /\ spc' = "exited"
  /\ UNCHANGED <<inputVars, piVars>>

UnitSent ==
  /\ spc = "entries" /\ unit = <<>> /\ spc' = "idle"
  /\ UNCHANGED <<inputVars, piVars>>

-----------------------------------------------------------------------------
(* The decoder.                                                            *)

Announce ==
  /\ ~announced /\ inDecoder > 0
  /\ announced' = TRUE /\ event' = TRUE
  /\ UNCHANGED <<spc, inputVars, port_settings_changed>>

TakeInput ==
  /\ inDecoder > 0
  /\ ~announced \/ port_settings_changed = 1
  /\ inDecoder' = inDecoder - 1 /\ poolIn' = poolIn + 1
  /\ UNCHANGED <<spc, unit, held, piVars>>

-----------------------------------------------------------------------------
\* decoder_renderer_cleanup waits for a buffer, which carries the end of the stream; one
\* that is refused is nobody's, and nothing is closed.
PiCleanUp ==
  /\ mpc = "cleanup" /\ mpc' = "done"
  /\ poolIn > 0 /\ poolIn' = poolIn - 1
  /\ inDecoder' \in {inDecoder, inDecoder + 1}
  /\ UNCHANGED <<spc, unit, held, piVars>>

-----------------------------------------------------------------------------
PiSubmit == GetInput \/ CopyEntry \/ SendInput \/ UnitSent
Decoder == Announce \/ TakeInput

\* The decoder waits to be connected, and whoever would do it waits for a buffer
\* that the decoder has.
Starved == announced /\ port_settings_changed = 0 /\ poolIn = 0 /\ ~held

InUse(c) == IF c THEN 1 ELSE 0

\* No buffer is lost while the stream runs, and the decoder is connected at most once,
\* after it announced the size.
PiAccountedFor ==
  /\ spc \in {"idle", "entries", "ended", "exited"}
  /\ mpc # "done" => poolIn + inDecoder + InUse(held) = InBuffers
  /\ event \/ port_settings_changed = 1 <=> announced
=============================================================================
