------------------------------- MODULE Startup -------------------------------
(***************************************************************************)
(* From the configuration to the start of a stream, in main() and stream() *)
(* of src/src/main.c: which platform is used (src/src/platform.c), which   *)
(* video formats the host may choose from, and whether the renderer and    *)
(* the FFmpeg decoder accept the one it chooses.                           *)
(***************************************************************************)
EXTENDS Settings, AudioOutput

CONSTANT Machines  \* what the program may run on, and was built with, records of:
                   \*   found    libraries of platforms that load and whose hardware is there
                   \*   x11      what x11_init finds: "none", "vaapi" or "egl"; "unbuilt" without X11
                   \*   sdl      SDL is built in
                   \*   pulse    a Pulseaudio server answers
                   \*   mapping  there is a file of gamepad mappings
                   \*   ffmpeg   the decoders FFmpeg has
                   \*   broken   ... of these the ones that cannot be opened

VARIABLES
  machine,   \* of the present program
  system,    \* the platform, or "NONE"
  formats    \* config.stream.supportedVideoFormats

startupVars == <<machine, system, formats>>

-----------------------------------------------------------------------------
Platforms == <<"imx", "pi", "mmal", "aml", "rk">>
SystemOf == [p \in {"imx", "pi", "mmal", "aml", "rk"} |->
               CASE p = "imx" -> "IMX" [] p = "pi" -> "PI" [] p = "mmal" -> "MMAL"
                 [] p = "aml" -> "AML" [] p = "rk" -> "RK"]

\* platform_check: the first that fits the name and is there.  x11_init never finds
\* VDPAU, and with SDL built in SDL takes the place of X11.
platform_check(name, m) ==
  LET Fits(i) == name \in {"auto", Platforms[i]} /\ Platforms[i] \in m.found
      First == CHOOSE i \in 1 .. Len(Platforms) : Fits(i) /\ \A j \in 1 .. i - 1 : ~Fits(j)
      x11 == name \in {"auto", "x11", "x11_vdpau", "x11_vaapi"} /\ m.x11 # "unbuilt"
  IN IF \E i \in 1 .. Len(Platforms) : Fits(i) THEN SystemOf[Platforms[First]]
     ELSE IF x11 /\ name \in {"auto", "x11_vaapi"} /\ m.x11 = "vaapi" THEN "X11_VAAPI"
     ELSE IF x11 THEN IF m.sdl THEN "SDL" ELSE "X11"
     ELSE IF m.sdl /\ name \in {"auto", "sdl"} THEN "SDL"
     ELSE IF name = "fake" THEN "FAKE" ELSE "NONE"

PrefersHevcOnPi(s_, codec) ==        \* variant: the table names the Pi too
  codec = "hevc" /\ s_ \in {"AML", "RK", "X11_VAAPI", "X11_VDPAU", "PI"}

platform_prefers_codec(s_, codec) ==
  codec = "hevc" /\ s_ \in {"AML", "RK", "X11_VAAPI", "X11_VDPAU"}

\* The formats main() offers.
Uses(c, s, codec) == c.codec = codec \/ (c.codec = "auto" /\ platform_prefers_codec(s, codec))
Offered(c, s) ==
  {"H264"}
  \cup (IF Uses(c, s, "hevc") THEN {"H265"} \cup IF c.hdr THEN {"H265_MAIN10"} ELSE {} ELSE {})
  \cup (IF Uses(c, s, "av1") THEN {"AV1_MAIN8"} \cup IF c.hdr THEN {"AV1_MAIN10"} ELSE {} ELSE {})
TenBit == {"H265_MAIN10", "AV1_MAIN10"}

-----------------------------------------------------------------------------
(* ffmpeg_init: six attempts, each of which may look up another decoder and *)
(* opens the one there is.  Unset ends the search.                          *)

\* FFmpeg's decoders are pairs of a codec and an implementation.
CodecOfFormat(format) ==
  IF format = "H264" THEN "h264" ELSE IF format \in {"H265", "H265_MAIN10"} THEN "hevc" ELSE "av1"
Generic(format) == <<CodecOfFormat(format), "generic">>

\* What each attempt looks up, if anything.
Lookups(format, hardware) ==
  LET c == CodecOfFormat(format)
      Unless(i) == IF hardware THEN {} ELSE {<<c, i>>}
  IN IF c = "av1" THEN <<Unless("dav1d"), {Generic(format)}, {}, {}, {}, {}>>
     ELSE <<Unless("nvv4l2"), Unless("nvmpi"), Unless("omx"), Unless("v4l2m2m"), {Generic(format)}, {}>>

Decoder(r, names, m) ==
  IF names = {} THEN r.decoder ELSE IF names \subseteq m.ffmpeg THEN names ELSE {}

OpenDecoder(r, d, m) ==
  IF d = {} THEN [decoder |-> {}, ctx |-> r.ctx, opened |-> r.opened]
  ELSE IF d \subseteq m.broken THEN [decoder |-> d, ctx |-> {}, opened |-> r.opened]
  ELSE [decoder |-> d, ctx |-> d, opened |-> r.opened + 1]

OneTry(r, names, m) == OpenDecoder(r, Decoder(r, names, m), m)

\* decoder and decoder_ctx at the end, and the contexts opened on the way, of which
\* only the last is ever freed.
ffmpeg_init(format, hardware, m) ==
  LET names == Lookups(format, hardware)
      Try(r, i) == OneTry(r, names[i], m)
  IN Try(Try(Try(Try(Try(Try([decoder |-> {}, ctx |-> {}, opened |-> 0], 1), 2), 3), 4), 5), 6)

\* The renderers' setup: the formats they take.
Accepts(s, format, m) ==
  IF s \in {"IMX", "PI", "MMAL"} THEN format = "H264"
  ELSE IF s \in {"X11", "X11_VAAPI", "SDL"} THEN ffmpeg_init(format, s = "X11_VAAPI", m).decoder # {}
  ELSE s # "AML" \/ format \notin {"AV1_MAIN8", "AV1_MAIN10"}

-----------------------------------------------------------------------------
StartupInit == SettingsInit /\ machine \in Machines /\ system = "NONE" /\ formats = {}

\* main() with the action stream, up to stream(): otherwise the program ends.
ChoosePlatform ==
  LET s == platform_check(config.platform, machine) IN
  /\ stage = "ready" /\ config.action = "stream" /\ s # "NONE"
  /\ ~(s = "SDL" /\ config.audio # Unset)
  /\ config.hdr => Offered(config, s) \cap TenBit # {}
  /\ s = "SDL" \/ config.viewonly \/ machine.mapping
  /\ system' = s /\ formats' = Offered(config, s)
  /\ stage' = "stream"
  /\ UNCHANGED <<files, config, args, arg, open, handles, saved, programs, machine>>

\* The same program is done, and the next one may run on another machine's build.
StartupNext ==
  \/ (\E a \in CommandLines : BeginParse(a)) /\ UNCHANGED startupVars
  \/ Parse /\ UNCHANGED startupVars
  \/ KillParse /\ UNCHANGED startupVars
  \/ EndParse /\ UNCHANGED startupVars
  \/ ChoosePlatform

-----------------------------------------------------------------------------
(* Properties.                                                             *)

AboutToStream == stage = "stream" /\ system # "NONE"

\* A program that leaves the choice of the codec to the platform never ends up with
\* a format its renderer refuses, and a decoder that is found is open.  Not so without
\* FFmpeg's own decoder for the format, the last one looked up: one that was opened
\* before it is forgotten (ffmpeg.c:64-99); and not when that one cannot be opened
\* (ffmpeg.c:123-128), which ffmpeg_init does not report.
DefaultFormatAccepted ==
  AboutToStream =>
    /\ config.codec = "auto" => \A f \in formats :
         \/ Accepts(system, f, machine)
         \/ Generic(f) \notin machine.ffmpeg
    /\ system \in {"X11", "X11_VAAPI", "SDL"} => \A f \in formats :
         LET r == ffmpeg_init(f, system = "X11_VAAPI", machine) IN
         r.decoder # {} => r.ctx = r.decoder \/ r.decoder \subseteq machine.broken

\* Each channel is played by its own speaker, whichever output is used.  Not so with
\* OpenMAX and more than two channels: the mapping has LFE before C (omx.c:52-55),
\* the order it declares is C before LFE (omx.c:114-117).
ChannelsReachSpeakers ==
  AboutToStream =>
    LET output == platform_get_audio(system, config.audio, {Unset, "local", "hdmi"}, machine.pulse) IN
    output # "none" => \A n \in ChannelCounts :
      \/ output = "omx" /\ n > 2
      \/ LET played == Mapped(output, Supplied, n)
         IN \A k \in 1 .. n : played[k] = Expected(output)[k]
=============================================================================
