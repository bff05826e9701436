---------------------------- MODULE EvdevPointer ----------------------------
(***************************************************************************)
(* A mouse and a touch screen read through evdev (evdev_handle_event in    *)
(* src/src/input/evdev.c): movements collected until EV_SYN and turned     *)
(* like the picture, and taps that click.  The buttons of a mouse and its  *)
(* wheel are passed on as they are.                                        *)
(*                                                                         *)
(* The kernel delivers events up to an EV_SYN together, so a report is a   *)
(* step.  It sends a coordinate only when it differs from the last it sent.*)
(***************************************************************************)
EXTENDS Integers, FiniteSets

CONSTANTS
  Moves,               \* how far a mouse moves along an axis in a report
  Places,              \* coordinates of the touch screen
  TOUCH_CLICK_RADIUS

VARIABLES
  device, rotate,   \* "mouse" or "touch"; degrees
  finger,           \* where the finger is, and where it was put down
  kernel,           \* the coordinates the kernel has sent last
  touchDown,        \* touchDownX and touchDownY
  touch,            \* touchX and touchY
  untold,           \* how far the pointer should have moved since and did not
  clicked, due,     \* the last touch was sent as a click, and was meant as one
  unreported        \* where it began a coordinate was not sent, being the last touch's

touchVars == <<finger, kernel, touchDown, touch, clicked, due, unreported>>

Axes == {"x", "y"}
TOUCH_UP == -1
Up == [x |-> TOUCH_UP, y |-> TOUCH_UP]
Still == [x |-> 0, y |-> 0]
Off == [at |-> Up, from |-> Up]

Add(a, b) == [x |-> a.x + b.x, y |-> a.y + b.y]
Sub(a, b) == [x |-> a.x - b.x, y |-> a.y - b.y]

\* A quarter of a turn, and as many as the picture is turned by.
Quarter(d) == [x |-> d.y, y |-> -d.x]
Turned(d) ==
  CASE rotate = 0 -> d
    [] rotate = 90 -> Quarter(d)
    [] rotate = 180 -> Quarter(Quarter(d))
    [] rotate = 270 -> Quarter(Quarter(Quarter(d)))

Init ==
  /\ device \in {"mouse", "touch"} /\ rotate \in {0, 90, 180, 270}
  /\ finger = Off
  /\ kernel \in [Axes -> IF device = "touch" THEN Places ELSE {0}]
  /\ touchDown = Up /\ touch = Still
  /\ untold = Still /\ clicked = FALSE /\ due = FALSE /\ unreported = FALSE

-----------------------------------------------------------------------------
(* evdev_handle_event.                                                     *)

\* EV_SYN: LiSendMouseMoveEvent(mouseDeltaX, mouseDeltaY).
Sent(delta) ==
  CASE rotate = 90 -> [x |-> delta.y, y |-> -delta.x]
    [] rotate = 180 -> [x |-> -delta.x, y |-> -delta.y]
    [] rotate = 270 -> [x |-> -delta.y, y |-> delta.x]
    [] OTHER -> delta

Missed(moved, delta) == Sub(Turned(moved), Sent(delta))

MouseMove(d) ==
  /\ device = "mouse"
  /\ untold' = Add(untold, Missed(d, d))
  /\ UNCHANGED <<device, rotate, touchVars>>

\* EV_ABS of the axes in which the place differs: the first is where the touch begins,
\* the others are movements.
Reported(place) == {a \in Axes : place[a] # kernel[a]}

Coordinates(place, down) ==
  LET first == {a \in Reported(place) : down[a] = TOUCH_UP}
      next == Reported(place) \ first
  IN /\ kernel' = place
     /\ touchDown' = [a \in Axes |-> IF a \in first THEN place[a] ELSE down[a]]
     /\ touch' = [a \in Axes |-> IF a \in first \cup next THEN place[a] ELSE touch[a]]
     /\ LET delta == [a \in Axes |-> IF a \in next THEN place[a] - touch[a] ELSE 0] IN
          untold' = IF finger = Off THEN Missed(Still, delta)
                    ELSE Add(untold, Missed(Sub(place, finger.at), delta))

\* BTN_TOUCH and the coordinates of the place.
TouchDown(place) ==
  /\ device = "touch" /\ finger = Off
  /\ finger' = [at |-> place, from |-> place]
  /\ unreported' = (Reported(place) # Axes)
  /\ Coordinates(place, touchDown)
  /\ clicked' = FALSE /\ due' = FALSE
  /\ UNCHANGED <<device, rotate>>

TouchMove(place) ==
  /\ device = "touch" /\ finger # Off /\ place # finger.at
  /\ finger' = [finger EXCEPT !.at = place]
  /\ Coordinates(place, touchDown)
  /\ UNCHANGED <<device, rotate, clicked, due, unreported>>

Near(d) == d.x * d.x + d.y * d.y < TOUCH_CLICK_RADIUS * TOUCH_CLICK_RADIUS

TouchUpKeepsX ==             \* variant: only one coordinate is forgotten
  /\ device = "touch" /\ finger # Off
  /\ due' = Near(Sub(finger.at, finger.from))
  /\ clicked' = (TOUCH_UP \notin {touchDown.x, touchDown.y} /\ Near(Sub(touch, touchDown)))
  /\ finger' = Off /\ touchDown' = [touchDown EXCEPT !.y = TOUCH_UP]
  /\ UNCHANGED <<device, rotate, kernel, touch, untold, unreported>>

\* BTN_TOUCH again: a click, left or right by how long it took, unless the finger has
\* gone away from where it was.
TouchUp ==
  /\ device = "touch" /\ finger # Off
  /\ due' = Near(Sub(finger.at, finger.from))
  /\ clicked' = (TOUCH_UP \notin {touchDown.x, touchDown.y} /\ Near(Sub(touch, touchDown)))
  /\ finger' = Off /\ touchDown' = Up
  /\ UNCHANGED <<device, rotate, kernel, touch, untold, unreported>>

Next ==
  \/ \E d \in [Axes -> Moves] : MouseMove(d)
  \/ \E place \in [Axes -> Places] : TouchDown(place) \/ TouchMove(place)
  \/ TouchUp

-----------------------------------------------------------------------------
TypeOK ==
  /\ kernel \in [Axes -> Places \cup {0}] /\ touch \in [Axes -> Places \cup {0}]
  /\ touchDown \in [Axes -> Places \cup {TOUCH_UP}]
  /\ unreported \in BOOLEAN

\* The host's pointer moves with the mouse or the finger, turned like the picture, and
\* stays where it is when the finger is lifted and put down elsewhere; a touch that
\* stays near its place clicks, and no other does.  Not so for a touch that begins at a
\* coordinate of the one before it, which the kernel does not send again.
PointerFollows ==
  /\ TypeOK
  /\ ~unreported => untold = Still /\ clicked = due
=============================================================================
