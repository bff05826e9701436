---------------------------- MODULE GamepadMapping ----------------------------
(***************************************************************************)
(* From the controls of a gamepad to what the host is told of them: the    *)
(* dialogue of `moonlight map' (evdev_map in src/src/input/evdev.c), the   *)
(* line it prints and the lines a stream reads (src/src/input/mapping.c),  *)
(* and the events of a stream (evdev_handle_event).  A mapping names       *)
(* buttons and axes by their index, in the order of the kernel's codes.    *)
(*                                                                         *)
(* The user does what is asked, one control after the other; how long each *)
(* is held is the user's choice.  Buttons have codes that are neither a    *)
(* key of a keyboard nor a button of a mouse.  Button events that emulate  *)
(* a mouse, and what EV_SYN sends, are EvdevDevices's; a fourth hat, for   *)
(* which hats_state has no row, is left out.                               *)
(***************************************************************************)
EXTENDS Integers, SequencesExt

CONSTANTS
  Pads,           \* the gamepads: wire, axes, keys, parms, and files with mappings for it
  Steps,          \* what evdev_map asks for: <<kind, control>>
  BTN_JOYSTICK,   \* codes below it are counted last
  ABS_HAT0X       \* the first code of a hat, two of each

Sticks == {"leftx", "lefty", "rightx", "righty"}
Triggers == {"lefttrigger", "righttrigger"}
Dpad == {"dpup", "dpdown", "dpleft", "dpright"}

\* The order in which evdev_handle_event looks for a button.
ButtonOrder == <<"a", "x", "y", "b", "dpup", "dpdown", "dpright", "dpleft", "leftstick",
  "rightstick", "leftshoulder", "rightshoulder", "start", "back", "guide", "misc1", "paddle1",
  "paddle2", "paddle3", "paddle4", "touchpad", "lefttrigger", "righttrigger">>
Keyed == ToSet(ButtonOrder)
StickOrder == <<"leftx", "lefty", "rightx", "righty">>
Axial == Sticks \cup Triggers \cup Dpad
NeverAsked == {"misc1", "paddle1", "paddle2", "paddle3", "paddle4", "touchpad"}

VARIABLES
  pad,      \* the gamepad
  source,   \* of the mapping: "wizard" or "file"
  phase,    \* "ask": in loop_main; "drain": 250 ms and evdev_drain; "stream"; "killed"
  step,     \* the step of the dialogue
  map,      \* struct mapping: the one the dialogue fills, then the one loaded
  hats,     \* hats_state
  pos,      \* where each control is
  dev       \* buttonFlags, leftTrigger ..., leftStickX ...

vars == <<pad, source, phase, step, map, hats, pos, dev>>

-----------------------------------------------------------------------------
(* struct mapping and its text.  A direction of a hat is a set of bits, -1  *)
(* all of them, with one no hat has.                                       *)

AllBits == {"up", "right", "down", "left", "more"}

Nothing ==
  [btn |-> [c \in Keyed |-> -1], abs |-> [c \in Axial |-> -1], hat |-> [c \in Dpad |-> -1],
   dir |-> [c \in Dpad |-> AllBits],
   reverse |-> [c \in Sticks |-> FALSE], half |-> [c \in Axial |-> ""]]

Button(c, n) == [key |-> c, kind |-> "b", n |-> n]
Axis(c, n, half, flag) == [key |-> c, kind |-> "a", n |-> n, half |-> half, flag |-> flag]
Hat(c, n, dir) == [key |-> c, kind |-> "h", n |-> n, dir |-> dir]

PrintTurned(m) ==   \* variant: two directions of the D-pad change places
  LET Turned(c) == IF c = "dpleft" THEN "dpdown" ELSE IF c = "dpdown" THEN "dpleft" ELSE c
  IN {Button(Turned(c), m.btn[c]) : c \in {k \in Keyed : m.btn[k] > -1}}
     \cup {Axis(c, m.abs[c], "", "") : c \in {k \in Sticks \cup Triggers : m.abs[k] > -1}}
     \cup {Hat(Turned(c), m.hat[c], m.dir[c]) : c \in {k \in Dpad : m.hat[k] > -1}}

\* Neither the direction of an axis nor one half of it is written.
mapping_print(m) ==
  {Button(c, m.btn[c]) : c \in {k \in Keyed : m.btn[k] > -1}}
  \cup {Axis(c, m.abs[c], "", "") : c \in {k \in Sticks \cup Triggers : m.abs[k] > -1}}
  \cup {Hat(c, m.hat[c], m.dir[c]) : c \in {k \in Dpad : m.hat[k] > -1}}

mapping_parse(entries) ==
  LET Has(c, kind) == \E e \in entries : e.key = c /\ e.kind = kind
      The(c, kind) == CHOOSE e \in entries : e.key = c /\ e.kind = kind
  IN [btn |-> [c \in Keyed |-> IF Has(c, "b") THEN The(c, "b").n ELSE -1],
      abs |-> [c \in Axial |-> IF Has(c, "a") THEN The(c, "a").n ELSE -1],
      hat |-> [c \in Dpad |-> IF Has(c, "h") THEN The(c, "h").n ELSE -1],
      dir |-> [c \in Dpad |-> IF Has(c, "h") THEN The(c, "h").dir ELSE Nothing.dir[c]],
      reverse |-> [c \in Sticks |-> Has(c, "a") /\ The(c, "a").flag = "~"],
      half |-> [c \in Axial |-> IF Has(c, "a") /\ c \notin Sticks THEN The(c, "a").half ELSE ""]]

-----------------------------------------------------------------------------
(* The device (evdev_create).                                              *)

KeyBefore(k, code) ==
  IF code < BTN_JOYSTICK THEN k >= BTN_JOYSTICK \/ k < code ELSE k >= BTN_JOYSTICK /\ k < code
KeyIndexOf(keys, code) == Cardinality({k \in keys : KeyBefore(k, code)})

\* Hats have none.
AxisIndexOf(axes, code) ==
  IF code \in axes THEN Cardinality({a \in axes : a < code}) ELSE -2

KeyIndex(code) == KeyIndexOf(pad.keys, code)
AxisIndex(code) == AxisIndexOf(pad.axes, code)

\* evdev_init_parms: the parameters of the axis with this index, if there is one.
HasParms(index) == \E a \in pad.axes : AxisIndex(a) = index

\* A division drops what is left over, on either side of zero.
Halved(x) == IF x >= 0 THEN x \div 2 ELSE -((-x) \div 2)
Avg(p) == Halved(p.min + p.max)
HalfRange(p) == p.max - Avg(p)
Rest == [flags |-> {}, trigger |-> [c \in Triggers |-> 0], stick |-> [c \in Sticks |-> 0]]

IsHat(code) == code >= ABS_HAT0X
HatNumber(code) == (code - ABS_HAT0X) \div 2
CentredHats == [code \in ABS_HAT0X .. ABS_HAT0X + 5 |-> 0]

\* hat_constants.
HatState(state, code) ==
  LET x == state[ABS_HAT0X + 2 * HatNumber(code)]
      y == state[ABS_HAT0X + 2 * HatNumber(code) + 1]
  IN (IF x < 0 THEN {"left"} ELSE IF x > 0 THEN {"right"} ELSE {})
     \cup (IF y < 0 THEN {"up"} ELSE IF y > 0 THEN {"down"} ELSE {})

-----------------------------------------------------------------------------
(* The controls.                                                           *)

Controls == DOMAIN pad.wire
Opposite(c) ==
  CASE c = "dpup" -> "dpdown" [] c = "dpdown" -> "dpup"
    [] c = "dpleft" -> "dpright" [] c = "dpright" -> "dpleft" [] OTHER -> ""

\* A trigger rests at one end of its axis.
AxisValue(c, p) ==
  LET w == pad.wire[c] IN
  IF p = "full" THEN IF w.sign = 1 THEN pad.parms.max ELSE pad.parms.min
  ELSE IF p = "back" THEN IF w.sign = 1 THEN pad.parms.min ELSE pad.parms.max
  ELSE IF c \in Triggers THEN IF p = "rest" THEN pad.parms.min ELSE Avg(pad.parms)
  ELSE IF p = "rest" THEN Avg(pad.parms) ELSE Avg(pad.parms) + w.sign * pad.parms.flat

Value(c, p) ==
  IF pad.wire[c].kind = "axis" THEN AxisValue(c, p) ELSE IF p = "full" THEN pad.wire[c].sign ELSE 0

Positions(c) ==
  IF pad.wire[c].kind # "axis" THEN {"rest", "full"}
  ELSE IF c \in Sticks THEN {"rest", "half", "full", "back"} ELSE {"rest", "half", "full"}

\* The direction of an axis that is not reversed: down is the upper end.
Natural(c) == IF c \in {"lefty", "righty"} THEN -1 ELSE 1

\* Opposite directions of a D-pad, or of one axis, are not pushed together.
CanMove(c, p) ==
  /\ p \in Positions(c) \ {pos[c]}
  /\ p # "rest" =>
       \A o \in Controls \ {c} :
         pos[o] # "rest" => o # Opposite(c) /\ pad.wire[o].code # pad.wire[c].code

-----------------------------------------------------------------------------
(* The gamepads there are.  What a file says of one is what its controls    *)
(* do; axes that come after the hats are left out.                         *)

Kind(n) == Steps[n][1]
Asked(n) == Steps[n][2]

\* The way a control of a hat pushes it.
Direction(code, sign) ==
  IF code % 2 = ABS_HAT0X % 2 THEN IF sign < 0 THEN "left" ELSE "right"
                              ELSE IF sign < 0 THEN "up" ELSE "down"

\* What a file says of a control.
Entry(p, c) ==
  LET w == p.wire[c] n == AxisIndexOf(p.axes, w.code) IN
  IF w.kind = "key" THEN Button(c, KeyIndexOf(p.keys, w.code))
  ELSE IF w.kind = "hat" THEN Hat(c, HatNumber(w.code), {Direction(w.code, w.sign)})
  ELSE IF c \in Dpad THEN Axis(c, n, IF w.sign = 1 THEN "+" ELSE "-", "")
  ELSE Axis(c, n, "", IF c \in Sticks /\ w.sign # Natural(c) THEN "~" ELSE "")

\* A dialogue asks for a control once, in the way that is meant for it.
GoodSteps ==
  /\ Steps \in Seq(STRING \X STRING) /\ Steps # << >>
  /\ \A n \in DOMAIN Steps :
       /\ \/ Kind(n) = "abs" /\ Asked(n) \in Sticks
          \/ Kind(n) = "hatkey" /\ Asked(n) \in Dpad
          \/ Kind(n) = "abskey" /\ Asked(n) \in Triggers
          \/ Kind(n) = "key" /\ Asked(n) \in Keyed \ (Dpad \cup Triggers \cup NeverAsked)
       /\ \A k \in DOMAIN Steps : Asked(k) = Asked(n) => k = n

GoodWire(p, c) ==
  LET w == p.wire[c] IN
  \/ w.kind = "key" /\ c \in Keyed /\ w.code \in p.keys /\ w.sign = 1
  \/ w.kind = "hat" /\ c \in Dpad /\ w.code \in ABS_HAT0X .. ABS_HAT0X + 5 /\ w.sign \in {-1, 1}
  \/ /\ w.kind = "axis" /\ c \in Axial /\ w.code \in p.axes
     /\ w.sign \in (IF c \in Triggers THEN {1} ELSE {-1, 1})

\* Two controls share an axis or a hat only as the opposite directions of a D-pad.
GoodPad(p) ==
  /\ IsFiniteSet(p.keys) /\ p.keys \subseteq Int
  /\ p.axes \subseteq 0 .. ABS_HAT0X - 1
  /\ p.parms.min \in Int /\ p.parms.max \in Int /\ p.parms.flat \in Nat
  /\ p.parms.min < p.parms.max /\ 2 * p.parms.flat < p.parms.max - p.parms.min
  /\ DOMAIN p.wire \subseteq {Asked(n) : n \in DOMAIN Steps}
  /\ \A c \in DOMAIN p.wire :
       /\ GoodWire(p, c)
       /\ \A d \in DOMAIN p.wire \ {c} :
            p.wire[d].kind = p.wire[c].kind /\ p.wire[d].code = p.wire[c].code =>
              {c, d} \subseteq Dpad /\ p.wire[c].kind # "key" /\ p.wire[d].sign = -p.wire[c].sign
  /\ p.files \subseteq {{Entry(p, c) : c \in DOMAIN p.wire}}

-----------------------------------------------------------------------------
(* evdev_map: each step clears what it asks for and waits in loop_main.    *)

\* The stick whose direction was asked for last: currentReverse still points to it.
LastReverse(n) == {c \in Sticks : \E k \in 1 .. n : Steps[k] = <<"abs", c>>
                     /\ \A j \in k + 1 .. n : Kind(j) \notin {"abs", "abskey"}}

\* The mapping starts as zeroes, where the buttons that are never asked for stay;
\* what `Steps' leaves out of the dialogue counts as asked for.
Zeroed == [Nothing EXCEPT !.btn = [c \in Keyed |-> IF c \in NeverAsked THEN 0 ELSE -1]]

BeginStep(m, n) ==
  LET c == Asked(n)
      keyed == IF Kind(n) = "abs" THEN m ELSE [m EXCEPT !.btn[c] = -1]
      axed == IF Kind(n) \in {"abs", "abskey"} THEN [keyed EXCEPT !.abs[c] = -1] ELSE keyed
  IN IF Kind(n) = "hatkey"
     THEN [axed EXCEPT !.hat[c] = -1, !.dir[c] = AllBits,
                       !.reverse = [s \in Sticks |-> @[s] /\ s \notin LastReverse(n)]]
     ELSE axed

Init ==
  /\ pad \in Pads
  /\ \/ /\ source = "wizard" /\ phase = "ask" /\ map = BeginStep(Zeroed, 1)
     \/ /\ source = "file" /\ phase = "stream" /\ map \in {mapping_parse(f) : f \in pad.files}
  /\ step = 1
  /\ hats = CentredHats
  /\ pos = [c \in Controls |-> "rest"]
  /\ dev = Rest

\* evdev_handle_mapping_event, EV_KEY.
MapKey(code, down) ==
  LET c == Asked(step) index == KeyIndex(code) IN
  IF Kind(step) = "abs" THEN UNCHANGED <<phase, map>>
  ELSE IF down THEN map' = [map EXCEPT !.btn[c] = index] /\ UNCHANGED phase
  ELSE /\ phase' = IF map.btn[c] = index THEN "drain" ELSE "ask"
       /\ UNCHANGED map

\* EV_ABS while an axis is asked for.  The parameters are looked for under the code
\* as if it were an index, and the axis at rest is compared with the index as if that
\* were a code; without parameters any of the three branches may be taken.
MapAbs(code, value) ==
  LET c == Asked(step)
      p == pad.parms
      Towards == {w \in {"up", "down", "rest"} :
        HasParms(code) =>
          w = IF value > Avg(p) + HalfRange(p) \div 2 THEN "up"
              ELSE IF value < Avg(p) - HalfRange(p) \div 2 THEN "down" ELSE "rest"}
  IN \E w \in Towards :
       IF w = "rest"
       THEN phase' = (IF code = map.abs[c] THEN "drain" ELSE "ask") /\ UNCHANGED map
       ELSE /\ map' = [map EXCEPT !.abs[c] = AxisIndex(code),
                         !.reverse = [s \in Sticks |-> IF s = c THEN w = "down" ELSE @[s]]]
            /\ UNCHANGED phase

\* EV_ABS of a hat while a direction of it is asked for.
MapHat(code, state) ==
  LET c == Asked(step) IN
  /\ map' = [map EXCEPT !.hat[c] = HatNumber(code), !.dir[c] = HatState(state, code)]
  /\ phase' = "drain"

\* One event of the dialogue.  (pos' is where the control is now.)
MapEvent(c, value) ==
  LET w == pad.wire[c] IN
  IF w.kind = "key" THEN MapKey(w.code, value # 0) /\ UNCHANGED hats
  ELSE /\ hats' = IF IsHat(w.code) THEN [hats EXCEPT ![w.code] = value] ELSE hats
       /\ IF Kind(step) \in {"abs", "abskey"} THEN MapAbs(w.code, value)
          ELSE IF Kind(step) = "hatkey" /\ IsHat(w.code) THEN MapHat(w.code, hats')
          ELSE UNCHANGED <<phase, map>>

\* The user moves the control that was asked for, or lets go of any.
Answer(c, p) ==
  /\ phase = "ask" /\ CanMove(c, p)
  /\ p # "rest" => c = Asked(step) /\ \A o \in Controls \ {c} : pos[o] = "rest"
  /\ p # "back"
  /\ pos' = [pos EXCEPT ![c] = p]
  /\ MapEvent(c, Value(c, p))
  /\ UNCHANGED <<pad, source, step, dev>>

\* usleep, then evdev_drain: what happens meanwhile is thrown away, and the handler
\* does not see it.
LetGo(c) ==
  /\ phase = "drain" /\ pos[c] # "rest"
  /\ pos' = [pos EXCEPT ![c] = "rest"]
  /\ UNCHANGED <<pad, source, phase, step, map, hats, dev>>

\* The next step, or the mapping is printed; a stream is started with it, on a device
\* that is opened again.
Drain ==
  /\ phase = "drain"
  /\ \/ /\ step < Len(Steps)
        /\ step' = step + 1
        /\ map' = BeginStep(map, step + 1)
        /\ phase' = "ask"
        /\ UNCHANGED hats
     \/ /\ step = Len(Steps) /\ \A c \in Controls : pos[c] = "rest"
        /\ map' = mapping_parse(mapping_print(map))
        /\ phase' = "stream" /\ hats' = CentredHats
        /\ UNCHANGED step
  /\ UNCHANGED <<pad, source, pos, dev>>

\* The dialogue has no signal handler.
Kill ==
  /\ phase = "ask"
  /\ phase' = "killed"
  /\ UNCHANGED <<pad, source, step, map, hats, pos, dev>>

-----------------------------------------------------------------------------
(* The stream (evdev_handle_event).                                        *)

SHRT_MAX == 32767
SHRT_MIN == -32768
UCHAR_MAX == 255

Distance(a, b) == IF a < b THEN b - a ELSE a - b

evdev_convert_value(v, p, reverse) ==
  LET Scaled(x) == (x * (SHRT_MAX - SHRT_MIN)) \div (p.max - p.min - 2 * p.flat) + SHRT_MIN IN
  IF Distance(v, Avg(p)) < p.flat THEN 0
  ELSE IF v > p.max THEN IF reverse THEN SHRT_MIN ELSE SHRT_MAX
  ELSE IF v < p.min THEN IF reverse THEN SHRT_MAX ELSE SHRT_MIN
  ELSE IF reverse
  THEN Scaled(p.max - (IF v < Avg(p) THEN 2 * p.flat ELSE 0) - v)
  ELSE Scaled(v - (IF v > Avg(p) THEN 2 * p.flat ELSE 0) - p.min)

evdev_convert_value_byte(v, p, half) ==
  LET whole == evdev_convert_value(v, p, FALSE) IN
  IF half = "" THEN IF Distance(v, p.min) < p.flat THEN 0
                    ELSE IF v > p.max THEN UCHAR_MAX
                    ELSE ((v - p.flat - p.min) * UCHAR_MAX) \div (p.max - p.min - p.flat)
  ELSE IF half = "-" /\ whole < 0 THEN ((-whole) * UCHAR_MAX) \div (SHRT_MAX - SHRT_MIN)
  ELSE IF half = "+" /\ whole > 0 THEN (whole * UCHAR_MAX) \div (SHRT_MAX - SHRT_MIN)
  ELSE 0

WithFlags(on, off) == [dev EXCEPT !.flags = (@ \cup on) \ off]

\* EV_KEY: the first name that has this index.
KeyEvent(code, down) ==
  LET mine == {i \in DOMAIN ButtonOrder : map.btn[ButtonOrder[i]] = KeyIndex(code)}
      b == ButtonOrder[Min(mine)]
  IN IF mine = {} THEN dev
     ELSE IF b \in Triggers THEN [dev EXCEPT !.trigger[b] = IF down THEN UCHAR_MAX ELSE 0]
     ELSE IF down THEN WithFlags({b}, {}) ELSE WithFlags({}, {b})

\* EV_ABS of a hat: every direction the mapping takes from it.
HatEvent(code, state) ==
  LET mine == {c \in Dpad : map.hat[c] = HatNumber(code)}
      on == {c \in mine : map.dir[c] \subseteq HatState(state, code)}
  IN WithFlags(on, mine \ on)

\* EV_ABS of another axis: one stick at most, each trigger and direction.
AbsEvent(code, v) ==
  LET mine(c) == map.abs[c] = AxisIndex(code)
      first(c) == mine(c) /\ \A i, j \in DOMAIN StickOrder :
                                StickOrder[i] = c /\ j < i => ~mine(StickOrder[j])
      Stick(c) == evdev_convert_value(v, pad.parms, (Natural(c) = -1) # map.reverse[c])
      Byte(c) == evdev_convert_value_byte(v, pad.parms, map.half[c])
      pushed == {c \in Dpad : mine(c) /\ Byte(c) > 127}
  IN [flags |-> (dev.flags \ {c \in Dpad : mine(c)}) \cup pushed,
      trigger |-> [c \in Triggers |-> IF mine(c) THEN Byte(c) ELSE dev.trigger[c]],
      stick |-> [c \in Sticks |-> IF first(c) THEN Stick(c) ELSE dev.stick[c]]]

Play(c, p) ==
  /\ phase = "stream" /\ CanMove(c, p)
  /\ pos' = [pos EXCEPT ![c] = p]
  /\ LET w == pad.wire[c] v == Value(c, p) IN
       /\ hats' = IF w.kind = "hat" THEN [hats EXCEPT ![w.code] = v] ELSE hats
       /\ dev' = IF w.kind = "key" THEN KeyEvent(w.code, v # 0)
                 ELSE IF w.kind = "hat" THEN HatEvent(w.code, hats') ELSE AbsEvent(w.code, v)
  /\ UNCHANGED <<pad, source, phase, step, map>>

Next ==
  \/ \E c \in Controls : LetGo(c) \/ \E p \in Positions(c) : Answer(c, p) \/ Play(c, p)
  \/ Drain \/ Kill
  \/ phase = "killed" /\ UNCHANGED vars

Spec == Init /\ [][Next]_vars

-----------------------------------------------------------------------------
TypeOK ==
  /\ phase \in {"ask", "drain", "stream", "killed"} /\ source \in {"wizard", "file"}
  /\ step \in 1 .. Len(Steps)
  /\ pos \in [Controls -> {"rest", "half", "full", "back"}]
  /\ dev.flags \subseteq Keyed \ Triggers
  /\ dev.trigger \in [Triggers -> 0 .. UCHAR_MAX] /\ dev.stick \in [Sticks -> SHRT_MIN .. SHRT_MAX]

\* The host is told where the control is: at rest, or all the way.  (An axis without a
\* dead zone is a little off zero at rest.)
Told(c) ==
  CASE c \in Sticks -> /\ pos[c] = "rest" /\ pad.parms.flat > 0 => dev.stick[c] = 0
                       /\ pos[c] = "full" => dev.stick[c] = SHRT_MAX
                       /\ pos[c] = "back" => dev.stick[c] = SHRT_MIN
    [] c \in Triggers -> /\ pos[c] = "rest" => dev.trigger[c] = 0
                         /\ pos[c] = "full" => dev.trigger[c] = UCHAR_MAX
    [] OTHER -> /\ pos[c] = "rest" => c \notin dev.flags
                /\ pos[c] = "full" => c \in dev.flags

NothingElse == dev.flags \subseteq Controls

AskedBefore(d, c) == \E j, k \in DOMAIN Steps : Asked(j) = d /\ Asked(k) = c /\ j < k

\* A mapping of the dialogue loses: a direction that is asked for after one of a hat,
\* since a hat's direction is that of all its events so far (748) but for the release
\* nobody saw, and a release that comes late is an answer; an axis that runs the other
\* way, which is not printed; and a trigger that is a button, when it is button 0, which
\* the extra buttons the dialogue leaves at 0 are tried before, or when the other
\* trigger, let go late, was taken for it too.
WizardLoses ==
  {c \in Dpad : \E h \in Controls : pad.wire[h].kind = "hat" /\ AskedBefore(h, c)}
  \cup {c \in Controls : pad.wire[c].kind = "axis" /\ pad.wire[c].sign # Natural(c)}
  \cup {c \in Controls \cap Triggers :
          /\ pad.wire[c].kind = "key"
          /\ \/ KeyIndex(pad.wire[c].code) = 0
             \/ \E t \in Controls \cap Triggers : pad.wire[t].kind = "axis" /\ AskedBefore(t, c)}

\* One of a file: half an axis, which only reaches 127 (217-222).
FileLoses == {c \in Controls \cap Axial : map.half[c] # ""}

\* Whatever is held together, pushed or let go, the host is told of each control what
\* its mapping says, and of nothing else.  (But for what is lost on the way.)
ControlsReachHost ==
  /\ TypeOK
  /\ phase = "stream" =>
       LET lost == IF source = "wizard" THEN WizardLoses ELSE FileLoses IN
       /\ \A c \in Controls \ lost : Told(c)
       /\ lost = {} => NothingElse

\* A mapping that was created for this gamepad serves all its controls ("Create a
\* mapping for the specified INPUT device", README.pod:36).
WizardMappingWorks ==
  phase = "stream" /\ source = "wizard" => NothingElse /\ \A c \in Controls : Told(c)
=============================================================================
