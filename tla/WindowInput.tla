----------------------------- MODULE WindowInput -----------------------------
(***************************************************************************)
(* Keys, buttons and movements in the window (src/src/input/x11.c), which  *)
(* on X11 take the place of evdev.  X queues what the user does; a call of *)
(* x11_handler takes events until none is pending.  While the pointer is   *)
(* grabbed each movement is followed by a request to put it back in the    *)
(* middle, which the X server carries out when it gets there.              *)
(*                                                                         *)
(* Movements have one dimension: the window begins at 0, and the pointer   *)
(* is followed past that edge while a button is down.  The middle and the  *)
(* right button behave as the left one, a wheel is Button4.                *)
(***************************************************************************)
EXTENDS Integers, Sequences

CONSTANTS
  ModifierKeys,    \* codes of shift, alt and control, left and right
  Bit,             \* the modifier each of them sets
  ActionModifiers, \* ACTION_MODIFIERS
  QuitKey,         \* QUIT_KEY
  UngrabKey,       \* any other key
  Centre,          \* where the grabbed pointer is put, 640 in the code
  MaxInputs,       \* bound: what the user does
  MaxPending       \* bound: of that not yet taken

VARIABLES
  running,            \* the loop
  keys, pressed,      \* the user: keys that are down, the left button is
  position, inputs,   \* where the pointer is; what was done so far
  pending,            \* the events X has queued
  requested, warps,       \* XWarpPointer: requests, and how many were carried out
  keyboard_modifiers, grabbed, last_x,
  button,             \* of the call of x11_handler
  hostKeys, hostPressed,   \* what the host was told is down
  behind,             \* how far the user moved and the host's pointer did not
  mixed,              \* what went wrong: "focus", "wheel", "warp", "edge"
  unheard             \* keys let go whose event was pending when the loop was left

vars == <<running, keys, pressed, position, inputs, pending, requested, warps, keyboard_modifiers,
          grabbed, last_x, button, hostKeys, hostPressed, behind, mixed, unheard>>
userVars == <<keys, pressed, position, inputs>>
programVars == <<keyboard_modifiers, grabbed, last_x, button>>
hostVars == <<hostKeys, hostPressed>>

Keys == ModifierKeys \cup {QuitKey, UngrabKey}
Bits == {Bit[k] : k \in ModifierKeys}

Init ==
  /\ running = TRUE
  /\ keys = {} /\ pressed = FALSE /\ position \in {0, Centre} /\ inputs = 0
  /\ pending = <<>> /\ requested = 0 /\ warps = 0
  /\ keyboard_modifiers = {} /\ grabbed = TRUE /\ last_x = -1 /\ button = FALSE
  /\ hostKeys = {} /\ hostPressed = FALSE /\ behind = 0
  /\ mixed = {} /\ unheard = {}

-----------------------------------------------------------------------------
(* The user and the X server.                                              *)

KeyEvent(k, down) == [type |-> "key", key |-> k, down |-> down]
ButtonEvent(wheel, down) == [type |-> "button", wheel |-> wheel, down |-> down]
\* before: the requests that were carried out before it.
Motion(x, before) == [type |-> "motion", x |-> x, before |-> before]

Does(events) ==
  /\ running /\ inputs < MaxInputs /\ Len(pending) < MaxPending
  /\ inputs' = inputs + 1
  /\ pending' = pending \o events
  /\ UNCHANGED <<running, requested, programVars, hostVars, unheard>>

Press(k) ==
  /\ k \notin keys /\ keys' = keys \cup {k}
  /\ Does(<<KeyEvent(k, TRUE)>>)
  /\ UNCHANGED <<pressed, position, warps, behind, mixed>>

Release(k) ==
  /\ k \in keys /\ keys' = keys \ {k}
  /\ Does(<<KeyEvent(k, FALSE)>>)
  /\ UNCHANGED <<pressed, position, warps, behind, mixed>>

\* X repeats a key as if it was let go and pressed.
Repeat(k) ==
  /\ k \in keys
  /\ Does(<<KeyEvent(k, FALSE), KeyEvent(k, TRUE)>>)
  /\ UNCHANGED <<keys, pressed, position, warps, behind, mixed>>

\* Another window has the focus when the key is let go.
ReleaseElsewhere(k) ==
  /\ k \in keys /\ keys' = keys \ {k}
  /\ Does(<<>>)
  /\ mixed' = mixed \cup {"focus"}
  /\ UNCHANGED <<pressed, position, warps, behind>>

\* X tells the window what happens outside it while a button is down.
Reported(x) == x >= 0 \/ pressed

Click ==
  /\ Reported(position)
  /\ pressed' = ~pressed
  /\ Does(<<ButtonEvent(FALSE, ~pressed)>>)
  /\ UNCHANGED <<keys, position, warps, behind, mixed>>

Scroll ==
  /\ Reported(position)
  /\ Does(<<ButtonEvent(TRUE, TRUE), ButtonEvent(TRUE, FALSE)>>)
  /\ UNCHANGED <<keys, pressed, position, warps, behind, mixed>>

\* last_x is a place of the window, as the code tests it.
Known == last_x >= 0

\* The first movement only tells the program where the pointer is.
Move(d) ==
  /\ Reported(position + d)
  /\ position' = position + d
  /\ behind' = IF ~Known /\ \A n \in DOMAIN pending : pending[n].type # "motion"
               THEN behind ELSE behind + d
  /\ Does(<<Motion(position + d, warps)>>)
  /\ UNCHANGED <<keys, pressed, warps, mixed>>

\* The server carries out the requests it has got.
Warp ==
  /\ running /\ warps < requested /\ warps' = requested
  /\ position' = Centre
  /\ pending' = IF position = Centre THEN pending ELSE Append(pending, Motion(Centre, requested))
  /\ UNCHANGED <<running, keys, pressed, inputs, requested, programVars, hostVars, behind, mixed,
                 unheard>>

-----------------------------------------------------------------------------
(* x11_handler.                                                            *)

Takes(type) == running /\ pending # <<>> /\ Head(pending).type = type /\ pending' = Tail(pending)

\* All modifiers are down, and a key is let go.
Combo(e) == ActionModifiers \subseteq keyboard_modifiers /\ ~e.down

\* Keys whose release X has queued.
Releases == {k \in Keys : \E n \in DOMAIN pending : pending[n] = KeyEvent(k, FALSE)}

\* LOOP_RETURN: neither the event that ended the loop nor those behind it are sent.  Of
\* a stream that has ended only the keys are kept.
End ==
  /\ running' = FALSE
  /\ unheard' = Releases
  /\ mixed' = mixed \cap {"focus"}
  /\ pressed' = FALSE /\ position' = 0 /\ inputs' = 0
  /\ pending' = <<>> /\ requested' = 0 /\ warps' = 0
  /\ keyboard_modifiers' = {} /\ grabbed' = TRUE /\ last_x' = -1 /\ button' = FALSE
  /\ hostPressed' = FALSE /\ behind' = 0
  /\ UNCHANGED <<keys, hostKeys>>

QuitCombo ==
  /\ running /\ pending # <<>> /\ Head(pending).type = "key"
  /\ Combo(Head(pending)) /\ Head(pending).key = QuitKey
  /\ End

HandleKey ==
  /\ Takes("key") /\ ~(Combo(Head(pending)) /\ Head(pending).key = QuitKey)
  /\ LET e == Head(pending) IN
       /\ grabbed' = IF Combo(e) THEN ~grabbed ELSE grabbed
       /\ keyboard_modifiers' = IF e.key \notin ModifierKeys THEN keyboard_modifiers
                                ELSE IF e.down THEN keyboard_modifiers \cup {Bit[e.key]}
                                ELSE keyboard_modifiers \ {Bit[e.key]}
       /\ hostKeys' = IF e.down THEN hostKeys \cup {e.key} ELSE hostKeys \ {e.key}
  /\ UNCHANGED <<running, userVars, requested, warps, last_x, button, hostPressed, behind, mixed,
                 unheard>>

\* `button' is set by a button and not reset for the next event of the same call: a
\* wheel after it is sent as the button once more.
HandleButton ==
  /\ Takes("button")
  /\ LET e == Head(pending) IN
       /\ button' = (button \/ ~e.wheel)
       /\ hostPressed' = IF button' THEN e.down ELSE hostPressed
       /\ mixed' = IF e.wheel /\ button THEN mixed \cup {"wheel"} ELSE mixed
  /\ UNCHANGED <<running, userVars, requested, warps, keyboard_modifiers, grabbed, last_x, hostKeys,
                 behind, unheard>>

\* Grabbed, the pointer will be in the middle.
LastX(x) == IF grabbed THEN Centre ELSE x

\* A movement made before a request was carried out is measured from the middle all
\* the same; and after one past the edge, which leaves a negative last_x, the next is
\* taken for the first and not sent.
Mixes(e) == (IF e.before < requested THEN {"warp"} ELSE {})
              \cup (IF e.x < 0 /\ ~(grabbed /\ Known) THEN {"edge"} ELSE {})

HandleMotion ==
  /\ Takes("motion")
  /\ LET e == Head(pending) IN
       /\ behind' = IF Known THEN behind - (e.x - last_x) ELSE behind
       /\ requested' = IF e.x # last_x /\ grabbed THEN requested + 1 ELSE requested
       /\ last_x' = LastX(e.x)
       /\ mixed' = mixed \cup Mixes(e)
  /\ UNCHANGED <<running, userVars, warps, keyboard_modifiers, grabbed, button, hostVars, unheard>>

\* Nothing is pending: the call returns.
Return ==
  /\ running /\ pending = <<>> /\ button
  /\ button' = FALSE
  /\ UNCHANGED <<running, userVars, pending, requested, warps, keyboard_modifiers, grabbed, last_x,
                 hostVars, behind, mixed, unheard>>

\* WM_DELETE_WINDOW.
Close == running /\ End

User ==
  \/ \E k \in Keys : Press(k) \/ Release(k) \/ Repeat(k) \/ ReleaseElsewhere(k)
  \/ Click \/ Scroll \/ \E d \in {-1, 1} : Move(d)
x11_handler == QuitCombo \/ HandleKey \/ HandleButton \/ HandleMotion \/ Return \/ Close

Ended == ~running /\ UNCHANGED vars

Next == User \/ Warp \/ x11_handler \/ Ended

-----------------------------------------------------------------------------
TypeOK ==
  /\ keys \subseteq Keys /\ inputs \in 0 .. MaxInputs /\ warps \in 0 .. requested
  /\ keyboard_modifiers \subseteq Bits /\ hostKeys \subseteq Keys
  /\ mixed \subseteq {"focus", "wheel", "warp", "edge"} /\ unheard \subseteq Keys

\* All that happened has been told.
Told == running /\ pending = <<>> /\ warps = requested

\* While the loop runs no key and no modifier stays down for the host when none is down
\* here, however keys were repeated, unless one was let go in another window.  When the
\* loop is left a key is down there only if it is down here or its release was
\* pending, as that of the quit combo itself always is (x11.c:61 returns before 93).
HostKeysReleased ==
  /\ TypeOK
  /\ "focus" \notin mixed =>
       /\ Told /\ keys = {} => hostKeys = {} /\ keyboard_modifiers = {}
       /\ ~running => hostKeys \subseteq keys \cup unheard

\* The host's pointer has gone as far as the user's and the button is down with the
\* user's; not so when a wheel was turned in one call with the button, when a
\* movement was made before the pointer was put back after the last one, and when the
\* pointer that is not grabbed was dragged past the edge.
PointerFollows ==
  Told => /\ "wheel" \notin mixed => hostPressed = pressed
          /\ mixed \cap {"warp", "edge"} = {} => behind = 0
=============================================================================
