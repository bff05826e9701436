------------------------------ MODULE MCStreaming ------------------------------
\* A moonlight.conf, a file of the host, a file a program saves to, one that names
\* itself; machines with each of the platforms, and FFmpeg with and without its own
\* decoders.
EXTENDS Streaming

MCCommandLines ==
  { <<Line("action", "saved")>>,
    <<Line("action", "stream"), Line("save", "saved")>>,
    <<Line("action", "stream"), Line("packetsize", 1024), Line("nosops", ""),
      Line("fps", 30), Line("viewonly", ""), Line("save", "saved")>>,
    <<Line("1080", ""), Line("windowed", ""), Line("codec", "h265"), Line("hdr", ""),
      Line("action", "stream"), Line("save", "saved")>>,
    <<Line("action", "stream"), Line("config", "loop")>>,
    <<Line("action", "stream"), Line("audio", "hdmi"), Line("platform", "x11_vaapi")>>,
    <<Line("action", "stream"), Line("action", "host"), Line("action", "more")>> }

MCContents ==
  LET base == [f \in {"loop"} |-> <<Line("config", "loop")>>]
      With(c, f, lines) == [g \in DOMAIN c \cup {f} |-> IF g = f THEN lines ELSE c[g]]
      conf == <<Line("packetsize", 1400), Line("sops", "false"), Line("localaudio", "true"),
                Line("app", "Desktop")>>
  IN { base, With(base, "conf", conf), With(base, "host", <<Line("bitrate", 9000)>>),
       With(With(base, "conf", conf), "saved", <<Line("1080", "true"), Line("viewonly", "false")>>) }

MCMachines ==
  LET All == {<<c, "generic">> : c \in {"h264", "hevc", "av1"}}
      PC == [found |-> {}, x11 |-> "egl", sdl |-> TRUE, pulse |-> TRUE, mapping |-> TRUE,
             ffmpeg |-> All, broken |-> {}]
      Board(p) == [PC EXCEPT !.found = {p}, !.x11 = "none", !.pulse = FALSE]
  IN { PC, [PC EXCEPT !.x11 = "vaapi", !.broken = {<<"hevc", "generic">>}],
       [PC EXCEPT !.sdl = FALSE, !.mapping = FALSE],
       [PC EXCEPT !.sdl = FALSE, !.ffmpeg = {<<"h264", "nvmpi">>, <<"hevc", "generic">>}] }
     \cup {Board(p) : p \in {"imx", "pi", "mmal", "aml"}}

MCUnits == {<<"SPS", "PPS", "PICDATA">>, <<"PICDATA", "PICDATA">>}
=============================================================================
