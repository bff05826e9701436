------------------------------- MODULE HostInput -------------------------------
(***************************************************************************)
(* What the user does and the host is told of: evdev (evdev_handle in      *)
(* src/src/input/evdev.c) reads gamepads, while the host asks them to      *)
(* rumble (EvdevRumble), keyboards (EvdevKeyboard), a mouse or a touch     *)
(* screen (EvdevPointer) and a gamepad whose mapping is made or loaded     *)
(* (GamepadMapping); on X11 the window gives keys and movements            *)
(* (WindowInput).  They share no state: a device is one or the other, a    *)
(* mapping is made without a stream, and what evdev could open it grabs,   *)
(* so that a window hears of other devices.  A behaviour is one of them,   *)
(* or of gamepads alone, of which there may then be more.                  *)
(***************************************************************************)
EXTENDS EvdevRumble, Sequences

CONSTANTS
  Keyboards, ModifierKeys, Bit, ActionModifiers, QuitKey, OtherKeys, QueueSize, Troubles,
  Pads, Steps, BTN_JOYSTICK, ABS_HAT0X,
  Moves, Places, TOUCH_CLICK_RADIUS,
  WindowModifierKeys, UngrabKey, Centre, MaxInputs, MaxPending,
  MaxRumblers      \* bound: gamepads at a time while the host has them rumble

VARIABLES
  kind,    \* what is read: "gamepads", "rumble", "keyboards", "pointer", "window" or "mapping"
  trouble, keysPhase, plugged, held, queue, modifiers, waiting, hostDown, unsent,
  pad, source, mapPhase, step, map, hats, pos, dev,
  device, rotate, finger, kernel, touchDown, touch, untold, clicked, due, unreported,
  running, keys, pressed, position, inputs, pending, requested, warps, keyboard_modifiers,
  grabbed, last_x, button, hostKeys, hostPressed, behind, mixed, unheard

K == INSTANCE EvdevKeyboard WITH phase <- keysPhase
M == INSTANCE GamepadMapping WITH phase <- mapPhase
P == INSTANCE EvdevPointer
W == INSTANCE WindowInput WITH ModifierKeys <- WindowModifierKeys,
                               ActionModifiers <- {Bit[k] : k \in WindowModifierKeys}

keysVars == <<trouble, keysPhase, plugged, held, queue, modifiers, waiting, hostDown, unsent>>
mappingVars == <<pad, source, mapPhase, step, map, hats, pos, dev>>
pointerVars == <<device, rotate, finger, kernel, touchDown, touch, untold, clicked, due, unreported>>
windowVars == <<running, keys, pressed, position, inputs, pending, requested, warps,
                keyboard_modifiers, grabbed, last_x, button, hostKeys, hostPressed, behind, mixed,
                unheard>>
inputVars == <<kind, allVars, keysVars, mappingVars, pointerVars, windowVars>>

ASSUME KeysAssumption ==
  /\ Bit \in [ModifierKeys -> K!Bits] /\ ActionModifiers \subseteq K!Bits
  /\ ActionModifiers # {}
  /\ QuitKey \notin ModifierKeys
  /\ QueueSize \in Nat \ {0}
  /\ Troubles \subseteq SUBSET {"unplug", "drop"}

ASSUME PointersAssumption ==
  /\ Moves \subseteq Int /\ Places \subseteq Nat /\ TOUCH_CLICK_RADIUS \in Nat
  /\ WindowModifierKeys \subseteq ModifierKeys /\ WindowModifierKeys # {}
  /\ UngrabKey \notin ModifierKeys \cup {QuitKey}
  /\ Centre \in Nat
  /\ MaxInputs \in Nat /\ MaxPending \in Nat

\* Gamepads that can be asked for what the dialogue asks, and whose controls differ.
ASSUME MappingAssumption ==
  /\ BTN_JOYSTICK \in Int /\ ABS_HAT0X \in Nat
  /\ M!GoodSteps /\ \A p \in Pads : M!GoodPad(p)

Absent == "absent"

NoKeyboards ==
  /\ trouble = Absent /\ keysPhase = Absent /\ plugged = Absent /\ held = Absent
  /\ queue = Absent /\ modifiers = Absent /\ waiting = Absent /\ hostDown = Absent
  /\ unsent = Absent

NoMapping ==
  /\ pad = Absent /\ source = Absent /\ mapPhase = Absent /\ step = Absent
  /\ map = Absent /\ hats = Absent /\ pos = Absent /\ dev = Absent

NoPointer ==
  /\ device = Absent /\ rotate = Absent /\ finger = Absent /\ kernel = Absent
  /\ touchDown = Absent /\ touch = Absent /\ untold = Absent /\ clicked = Absent
  /\ due = Absent /\ unreported = Absent

NoWindow ==
  /\ running = Absent /\ keys = Absent /\ pressed = Absent /\ position = Absent
  /\ inputs = Absent /\ pending = Absent /\ requested = Absent /\ warps = Absent
  /\ keyboard_modifiers = Absent /\ grabbed = Absent /\ last_x = Absent /\ button = Absent
  /\ hostKeys = Absent /\ hostPressed = Absent /\ behind = Absent /\ mixed = Absent
  /\ unheard = Absent

InputInit ==
  /\ RumbleInit
  /\ kind \in {"gamepads", "rumble", "keyboards", "pointer", "window", "mapping"}
  /\ IF kind = "keyboards" THEN K!Init ELSE NoKeyboards
  /\ IF kind = "mapping" THEN M!Init ELSE NoMapping
  /\ IF kind = "pointer" THEN P!Init ELSE NoPointer
  /\ IF kind = "window" THEN W!Init ELSE NoWindow

\* The handler does not look at requests: gamepads alone get none, and those that
\* rumble are few, with no button held.
GamepadsNext ==
  /\ RumbleNext
  /\ kind = "gamepads" => requests' = 0
  /\ kind = "rumble" => /\ Cardinality(open') <= MaxRumblers
                        /\ \A s \in Slots : mem'[s].btns = {}

InputNext ==
  /\ \/ /\ kind \in {"gamepads", "rumble"} /\ GamepadsNext
        /\ UNCHANGED <<keysVars, mappingVars, pointerVars, windowVars>>
     \/ /\ kind = "keyboards" /\ K!Next
        /\ UNCHANGED <<allVars, mappingVars, pointerVars, windowVars>>
     \/ /\ kind = "mapping" /\ M!Next
        /\ UNCHANGED <<allVars, keysVars, pointerVars, windowVars>>
     \/ /\ kind = "pointer" /\ P!Next
        /\ UNCHANGED <<allVars, keysVars, mappingVars, windowVars>>
     \/ /\ kind = "window" /\ W!Next
        /\ UNCHANGED <<allVars, keysVars, mappingVars, pointerVars>>
  /\ UNCHANGED kind

InputSpec == InputInit /\ [][InputNext]_inputVars

-----------------------------------------------------------------------------
\* Once the quit combo was pressed the loop does not outlive the moment when all keys
\* are up (evdev.c:409), while no keyboard goes away and no event is lost.
UndisturbedQuits == kind = "keyboards" => K!UndisturbedQuits

\* While the loop runs no key stays down on the host when none is down here, in the same
\* case; and none in a window, unless another window saw it go up.  Once the loop was
\* left a key is down there only if it still is here, or its release was not sent: the
\* handlers return before they send the event that ends the loop (evdev.c:415, x11.c:62).
HostKeysReleased ==
  /\ kind = "keyboards" => K!HostKeysReleased
  /\ kind = "window" => W!HostKeysReleased

\* The host's pointer goes as far as the user's, and clicks with it, but for the events
\* of a mouse, a touch screen or a window that PointerFollows of each module lists: in a
\* window the movement after one past the left edge, say (x11.c:135).
PointerReachesHost ==
  /\ kind = "pointer" => P!PointerFollows
  /\ kind = "window" => W!PointerFollows

\* Whatever is held together, pushed or let go, the host is told of each control what
\* its mapping says, and of nothing else, but for what GamepadMapping lists as lost.
ControlsReachHost == kind = "mapping" => M!ControlsReachHost
=============================================================================
