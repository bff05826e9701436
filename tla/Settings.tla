------------------------------- MODULE Settings -------------------------------
(***************************************************************************)
(* The configuration of a program (src/src/config.c): the built-in values, *)
(* moonlight.conf, the options or the one file that is named instead of    *)
(* them, what -save writes, and the file of the host, which main() reads   *)
(* last.  Programs follow one another and share the files.                 *)
(*                                                                         *)
(* A file is a sequence of lines, a command line a sequence of options;    *)
(* both are records of a key and a value.  Files are read line by line,    *)
(* and a file may name further files to read in its place.                 *)
(***************************************************************************)
EXTENDS Integers, Sequences

CONSTANTS
  Unset,           \* no file, no address
  MoonlightConf,  \* the moonlight.conf that get_path finds
  HostFile,       \* hosts/<address>.conf, of the one host there is
  CommandLines,   \* command lines that are given
  Contents,       \* what the files hold at first, a file that is not there has no entry
  MaxOpen,        \* files a program can have open
  MaxPrograms     \* bound: programs that run one after another

ASSUME SettingsAssumption ==
  /\ MaxOpen \in Nat \ {0} /\ MaxPrograms \in Nat
  /\ \A c \in Contents : Unset \notin DOMAIN c
  /\ \A a \in CommandLines : Len(a) \in Nat

VARIABLES
  files,     \* the contents of the files
  config,
  args,      \* argv
  arg,       \* the options that were read
  open,      \* the files that are read: file and line reached, innermost last
  handles,   \* files opened: config_file_parse closes none
  stage,     \* "idle", "defaults", "options", "save", "write", "host", "ready" or "exited";
             \* "stream" as main() goes on
  saved,     \* what the last -save that ended wrote, the file and the configuration,
             \* until the next one begins to write it again
  programs   \* programs begun

settingsVars == <<files, config, args, arg, open, handles, stage, saved, programs>>

-----------------------------------------------------------------------------
Default ==
  [width |-> 1280, height |-> 720, fps |-> 60, bitrate |-> -1, packetsize |-> 1392,
   app |-> "Steam", platform |-> "auto", codec |-> "auto", rotate |-> 0, audio |-> Unset,
   sops |-> TRUE, localaudio |-> FALSE, fullscreen |-> TRUE, unsupported |-> TRUE,
   quitappafter |-> FALSE, viewonly |-> FALSE, mouse_emulation |-> TRUE, hdr |-> FALSE,
   action |-> Unset, address |-> Unset, config_file |-> Unset]

\* Options with an argument that is taken as it is, and options without one.
Valued == {"width", "height", "fps", "bitrate", "packetsize", "app", "platform", "rotate", "audio"}
Size == [s \in {"720", "1080", "4k"} |->
           IF s = "720" THEN <<1280, 720>> ELSE IF s = "1080" THEN <<1920, 1080>> ELSE <<3840, 2160>>]
SwitchesOn == {"localaudio", "quitappafter", "viewonly", "hdr"}
SwitchesOff == [o \in {"nosops", "windowed", "nounsupported", "nomouseemulation"} |->
                  IF o = "nosops" THEN "sops" ELSE IF o = "windowed" THEN "fullscreen"
                  ELSE IF o = "nounsupported" THEN "unsupported" ELSE "mouse_emulation"]
Switches == DOMAIN Size \cup SwitchesOn \cup DOMAIN SwitchesOff
CodecOf == [v \in {"auto", "h264", "h265", "hevc", "av1"} |-> IF v = "h265" THEN "hevc" ELSE v]

\* parse_argument, apart from what reads a file or ends the program.
parse_argument(o, c) ==
  IF o.key \in Valued THEN [c EXCEPT ![o.key] = o.value]
  ELSE IF o.key \in DOMAIN Size THEN [[c EXCEPT !.width = Size[o.key][1]] EXCEPT !.height = Size[o.key][2]]
  ELSE IF o.key \in SwitchesOn THEN [c EXCEPT ![o.key] = TRUE]
  ELSE IF o.key \in DOMAIN SwitchesOff THEN [c EXCEPT ![SwitchesOff[o.key]] = FALSE]
  ELSE IF o.key = "codec" /\ o.value \in DOMAIN CodecOf THEN [c EXCEPT !.codec = CodecOf[o.value]]
  ELSE IF o.key = "save" THEN [c EXCEPT !.config_file = o.value]
  ELSE IF o.key = "action" /\ c.action = Unset THEN [c EXCEPT !.action = o.value]
  ELSE IF o.key = "action" THEN [c EXCEPT !.address = o.value]
  ELSE c

\* Variant: sops is a switch like the others.
ParseLineSwitch(l, c) ==
  IF l.key = "address" THEN [c EXCEPT !.address = l.value]
  ELSE IF l.key \in Switches \cup {"sops"} /\ l.value # "true" THEN c
  ELSE parse_argument(l, c)

\* A line of a file: switches can be turned on only, but for sops.
ParseLine(l, c) ==
  IF l.key = "address" THEN [c EXCEPT !.address = l.value]
  ELSE IF l.key = "sops" THEN [c EXCEPT !.sops = (l.value = "true")]
  ELSE IF l.key \in Switches /\ l.value # "true" THEN c
  ELSE parse_argument(l, c)

Line(key, value) == [key |-> key, value |-> value]

\* What config_save writes, in its order, each unless it has the value at the right.
Written(c) ==
  LET Unless(k, v) == IF c[k] = v THEN <<>> ELSE <<Line(k, c[k])>>
      Switch(k, v) == IF c[k] = v THEN <<>> ELSE <<Line(k, IF c[k] THEN "true" ELSE "false")>>
  IN Unless("width", 1280) \o Unless("height", 720) \o Unless("fps", 60) \o Unless("bitrate", -1)
     \o Unless("packetsize", 1024) \o Switch("sops", TRUE) \o Switch("localaudio", FALSE)
     \o Switch("quitappafter", FALSE) \o Switch("viewonly", FALSE) \o Unless("rotate", 0)
     \o Unless("app", "Steam")

\* kbit/s at 30 frames per second.
Rate(pixels) ==
  IF pixels <= 640 * 360 THEN 1000
  ELSE IF pixels <= 854 * 480 THEN 1500
  ELSE IF pixels <= 1366 * 768 THEN 5000
  ELSE IF pixels <= 1920 * 1200 THEN 10000
  ELSE IF pixels <= 2560 * 1600 THEN 20000
  ELSE 40000

DefaultBitrate(c) == (Rate(c.width * c.height) * c.fps) \div 30

-----------------------------------------------------------------------------
SettingsInit ==
  /\ files \in Contents
  /\ config = Default
  /\ args = <<>> /\ arg = 0
  /\ open = <<>> /\ handles = 0
  /\ stage = "idle"
  /\ saved = [file |-> Unset, config |-> Default]
  /\ programs = 0

Exit == stage' = "exited" /\ UNCHANGED <<files, config, args, arg, open, handles, saved, programs>>

\* config_file_parse begins, or the program ends for want of the file.
OpenFile(f) ==
  IF f \in DOMAIN files /\ handles < MaxOpen
  THEN /\ open' = Append(open, [file |-> f, line |-> 0]) /\ handles' = handles + 1
       /\ UNCHANGED stage
  ELSE stage' = "exited" /\ UNCHANGED <<open, handles>>

BeginParse(a) ==
  /\ stage = "idle" /\ programs < MaxPrograms
  /\ programs' = programs + 1
  /\ config' = Default
  /\ args' = a /\ arg' = 0
  /\ stage' = "defaults"
  /\ IF MoonlightConf \in DOMAIN files
     THEN open' = <<[file |-> MoonlightConf, line |-> 0]>> /\ handles' = 1
     ELSE open' = <<>> /\ handles' = 0
  /\ UNCHANGED <<files, saved>>

Reading == open # <<>> /\ stage \in {"defaults", "options", "host"}
Top == open[Len(open)]

\* One line of the file that is read, or the end of it.
ReadLine ==
  /\ Reading
  /\ IF Top.line = Len(files[Top.file])
     THEN /\ open' = SubSeq(open, 1, Len(open) - 1)
          /\ UNCHANGED <<config, handles, stage>>
     ELSE LET l == files[Top.file][Top.line + 1]
              next == [open EXCEPT ![Len(open)].line = @ + 1]
          IN IF l.key # "config"
             THEN /\ config' = ParseLine(l, config) /\ open' = next
                  /\ UNCHANGED <<handles, stage>>
             ELSE /\ IF l.value \in DOMAIN files /\ handles < MaxOpen
                     THEN /\ open' = Append(next, [file |-> l.value, line |-> 0])
                          /\ handles' = handles + 1 /\ UNCHANGED stage
                     ELSE stage' = "exited" /\ UNCHANGED <<open, handles>>
                  /\ UNCHANGED config
  /\ UNCHANGED <<files, args, arg, saved, programs>>

\* moonlight.conf is read; `moonlight FILE' streams with the settings of FILE.
DefaultsRead ==
  /\ stage = "defaults" /\ open = <<>>
  /\ IF Len(args) = 1 /\ args[1].value \in DOMAIN files
     THEN /\ config' = [config EXCEPT !.action = "stream"]
          /\ arg' = 1
          /\ IF handles < MaxOpen
             THEN /\ stage' = "options"
                  /\ open' = <<[file |-> args[1].value, line |-> 0]>> /\ handles' = handles + 1
             ELSE stage' = "exited" /\ UNCHANGED <<open, handles>>
     ELSE stage' = "options" /\ UNCHANGED <<config, arg, open, handles>>
  /\ UNCHANGED <<files, args, saved, programs>>

\* The next option of the command line.
ReadOption ==
  /\ stage = "options" /\ open = <<>> /\ arg < Len(args)
  /\ arg' = arg + 1
  /\ LET o == args[arg + 1] IN
     IF o.key = "config" THEN OpenFile(o.value) /\ UNCHANGED config
     ELSE IF o.key = "action" /\ config.action # Unset /\ config.address # Unset
     THEN stage' = "exited" /\ UNCHANGED <<config, open, handles>>
     ELSE config' = parse_argument(o, config) /\ UNCHANGED <<stage, open, handles>>
  /\ UNCHANGED <<files, args, saved, programs>>

\* config_parse ends: the default bitrate is worked out, and main goes on to the
\* file of the host.
Finish ==
  /\ config' = [config EXCEPT !.bitrate = IF @ = -1 THEN DefaultBitrate(config) ELSE @]
  /\ stage' = "host"
  /\ IF HostFile \in DOMAIN files /\ handles < MaxOpen
     THEN open' = <<[file |-> HostFile, line |-> 0]>> /\ handles' = handles + 1
     ELSE UNCHANGED <<open, handles>>

OptionsRead ==
  /\ stage = "options" /\ open = <<>> /\ arg = Len(args)
  /\ IF config.config_file # Unset
     THEN stage' = "save" /\ UNCHANGED <<config, open, handles>>
     ELSE Finish
  /\ UNCHANGED <<files, args, arg, saved, programs>>

\* config_save: opening the file empties it; what is written gets there when it
\* is closed.  A program that is killed in between leaves nothing of either.
SaveOpen ==
  /\ stage = "save"
  /\ IF handles < MaxOpen
     THEN /\ stage' = "write"
          /\ files' = [f \in DOMAIN files \cup {config.config_file} |->
                         IF f = config.config_file THEN <<>> ELSE files[f]]
          /\ saved' = IF saved.file = config.config_file THEN [saved EXCEPT !.file = Unset] ELSE saved
     ELSE stage' = "exited" /\ UNCHANGED <<files, saved>>
  /\ UNCHANGED <<config, args, arg, open, handles, programs>>

SaveClose ==
  /\ stage = "write"
  /\ files' = [files EXCEPT ![config.config_file] = Written(config)]
  /\ saved' = [file |-> config.config_file, config |-> config]
  /\ Finish
  /\ UNCHANGED <<args, arg, programs>>

HostRead ==
  /\ stage = "host" /\ open = <<>>
  /\ stage' = "ready"
  /\ UNCHANGED <<files, config, args, arg, open, handles, saved, programs>>

\* A signal: its default action, at any moment.
KillParse ==
  /\ stage \notin {"idle", "exited", "ready", "stream"}
  /\ Exit

\* The program is over, and its memory is gone.
Over ==
  /\ stage' = "idle" /\ config' = Default /\ args' = <<>> /\ arg' = 0
  /\ open' = <<>> /\ handles' = 0
  /\ UNCHANGED <<files, saved, programs>>

EndParse == stage \in {"exited", "ready"} /\ Over

Parse == ReadLine \/ DefaultsRead \/ ReadOption \/ OptionsRead \/ SaveOpen \/ SaveClose \/ HostRead

SettingsNext == (\E a \in CommandLines : BeginParse(a)) \/ Parse \/ KillParse \/ EndParse
SettingsSpec == SettingsInit /\ [][SettingsNext]_settingsVars

-----------------------------------------------------------------------------
SettingsTypeOK ==
  /\ DOMAIN config = DOMAIN Default
  /\ arg \in 0 .. Len(args)
  /\ handles \in 0 .. MaxOpen /\ Len(open) <= handles
  /\ stage \in {"idle", "defaults", "options", "save", "write", "host", "ready", "exited", "stream"}
  /\ programs \in 0 .. MaxPrograms

\* The settings config_save knows of.
SavedSettings == {"width", "height", "fps", "bitrate", "packetsize", "sops", "localaudio",
                  "quitappafter", "viewonly", "rotate", "app"}

\* A program was started with nothing but a file that was saved, and no file of the
\* host interferes.
LoadedSaved ==
  /\ stage = "ready" /\ HostFile \notin DOMAIN files
  /\ saved.file # Unset /\ args = <<Line("action", saved.file)>>

\* What it has for a setting is what the program that saved had for it.
SameAsSaved(k) ==
  config[k] = IF k = "bitrate" /\ saved.config[k] = -1 THEN DefaultBitrate(config)
              ELSE saved.config[k]

\* The settings of the stream survive -save and a later start from the file.  Not
\* so a packet size of 1024, which is left out though the built-in one is 1392
\* (config.c:322, 348), and a setting with the built-in value, which is left out
\* as well and gives way to a moonlight.conf that has another.
SavedSettingsReturn ==
  /\ SettingsTypeOK
  /\ LoadedSaved => \A k \in SavedSettings :
       \/ SameAsSaved(k)
       \/ k = "packetsize" /\ saved.config[k] = 1024
       \/ MoonlightConf \in DOMAIN files /\ saved.config[k] = Default[k]

\* README.pod:56, of -save CONFIG: "Save the configuration provided by the options
\* on the command line and all loaded configuration files to the file CONFIG."
SavedAsDocumented ==
  LoadedSaved => \A k \in DOMAIN Default \ {"action", "address", "config_file"} : SameAsSaved(k)
=============================================================================
