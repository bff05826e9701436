------------------------------ MODULE MCSettings ------------------------------
\* A moonlight.conf, a file of the host, a file a game is saved to and one that
\* names another in its place.
EXTENDS Settings

MCCommandLines ==
  { <<Line("action", "saved")>>,
    <<Line("action", "stream"), Line("save", "saved")>>,
    <<Line("action", "stream"), Line("packetsize", 1024), Line("nosops", ""),
      Line("fps", 30), Line("viewonly", ""), Line("save", "saved")>>,
    <<Line("1080", ""), Line("windowed", ""), Line("codec", "h265"), Line("action", "stream"),
      Line("save", "saved")>>,
    <<Line("action", "stream"), Line("config", "loop")>>,
    <<Line("action", "stream"), Line("action", "host"), Line("action", "more")>> }

MCContents ==
  LET base == [f \in {"loop"} |-> <<Line("config", "loop")>>]
      with(c, f, lines) == [g \in DOMAIN c \cup {f} |-> IF g = f THEN lines ELSE c[g]]
      conf == <<Line("packetsize", 1400), Line("sops", "false"), Line("localaudio", "true"),
                Line("app", "Desktop")>>
  IN { base, with(base, "conf", conf), with(base, "host", <<Line("bitrate", 9000)>>),
       with(with(base, "conf", conf), "saved", <<Line("1080", "true"), Line("viewonly", "false")>>) }
=============================================================================
