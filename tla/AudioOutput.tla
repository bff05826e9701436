----------------------------- MODULE AudioOutput -----------------------------
(***************************************************************************)
(* Which audio output a platform gets (platform_get_audio), and to which   *)
(* speakers each of them sends the channels of the stream: the mapping it  *)
(* gives the Opus decoder, and the order it declares or its library has.   *)
(* The callbacks decode a packet and pass it on, and keep no state.        *)
(***************************************************************************)
EXTENDS Naturals, Sequences

Outputs == {"sdl", "omx", "pulse", "alsa"}

\* platform_get_audio.  The name of the device selects OpenMAX on the Pi only;
\* Pulseaudio is used when a test connection works.
platform_get_audio(system, device, local, pulse) ==
  IF system = "FAKE" THEN "none"
  ELSE IF system = "SDL" THEN "sdl"
  ELSE IF system = "PI" /\ device \in local THEN "omx"
  ELSE IF pulse THEN "pulse" ELSE "alsa"

\* The channels of the stream, in the order of its mapping.
Supplied == <<"FL", "FR", "C", "LFE", "RL", "RR", "SL", "SR">>
ChannelCounts == {2, 6, 8}

\* The order an output expects of its n channels.
Expected(output) ==
  IF output \in {"alsa", "pulse"} THEN <<"FL", "FR", "RL", "RR", "C", "LFE", "SL", "SR">>
  ELSE Supplied

SwapLate(mapping, n) ==      \* variant: 5.1 is left as it is
  IF n > 6 THEN [mapping EXCEPT ![3] = mapping[5], ![4] = mapping[6], ![5] = mapping[3], ![6] = mapping[4]]
  ELSE mapping

\* alsaMapping, of alsa.c and pulse.c.
AlsaMapping(mapping, n) ==
  IF n >= 6 THEN [mapping EXCEPT ![3] = mapping[5], ![4] = mapping[6], ![5] = mapping[3], ![6] = mapping[4]]
  ELSE mapping

\* omxMapping.
OmxMapping(mapping, n) ==
  IF n > 2 THEN [mapping EXCEPT ![3] = mapping[4], ![4] = mapping[3]] ELSE mapping

Mapped(output, mapping, n) ==
  IF output \in {"alsa", "pulse"} THEN AlsaMapping(mapping, n)
  ELSE IF output = "omx" THEN OmxMapping(mapping, n)
  ELSE mapping
=============================================================================
