---------------------------- MODULE EvdevKeyboard ----------------------------
(***************************************************************************)
(* Keyboards read through evdev (src/src/input/evdev.c): the keys the host *)
(* believes to be down, the modifiers each device keeps, and the key combo *)
(* that ends the stream.  The kernel queues the events of an open device;  *)
(* a device that is unplugged loses its queue, and a full queue is thrown  *)
(* away as a whole (SYN_DROPPED, "cannot keep up").                        *)
(***************************************************************************)
EXTENDS Naturals, Sequences, FiniteSets

CONSTANTS
  Keyboards,       \* the keyboards there are
  ModifierKeys,    \* left and right shift, alt, control, meta
  Bit,             \* the modifier each of them sets: left and right share one
  ActionModifiers, \* ACTION_MODIFIERS
  QuitKey,         \* QUIT_KEY
  OtherKeys,       \* any other key
  QueueSize,       \* events the kernel keeps for a device
  Troubles         \* what may happen, sets of "unplug" and "drop"

Keys == ModifierKeys \cup {QuitKey} \cup OtherKeys
Bits == {Bit[key] : key \in ModifierKeys}

VARIABLES
  trouble,    \* keyboards are unplugged, queues overflow
  phase,      \* "setup", "loop", "done"
  plugged,    \* the keyboards in the table
  held,       \* the keys that are down on each keyboard
  queue,      \* the events each keyboard has for the process
  modifiers,  \* dev->modifiers
  waiting,    \* waitingToExitOnModifiersUp
  hostDown,   \* the keys the host believes to be down
  unsent      \* the keys whose release was read when the loop ended, and not sent

vars == <<trouble, phase, plugged, held, queue, modifiers, waiting, hostDown, unsent>>

Event(key, down) == [key |-> key, down |-> down]

Init ==
  /\ trouble \in Troubles
  /\ phase = "setup"
  /\ plugged = {}
  /\ held = [k \in Keyboards |-> {}]
  /\ queue = [k \in Keyboards |-> <<>>]
  /\ modifiers = [k \in Keyboards |-> {}]
  /\ waiting = FALSE
  /\ hostDown = {} /\ unsent = {}

-----------------------------------------------------------------------------
(* The devices.                                                            *)

Plug(k) ==
  /\ phase # "done" /\ k \notin plugged
  /\ plugged' = plugged \cup {k}
  /\ modifiers' = [modifiers EXCEPT ![k] = {}]
  /\ UNCHANGED <<trouble, phase, held, queue, waiting, hostDown, unsent>>

\* evdev_start: whatever was typed so far is still in the queues.
StartLoop ==
  /\ phase = "setup"
  /\ phase' = "loop"
  /\ UNCHANGED <<trouble, plugged, held, queue, modifiers, waiting, hostDown, unsent>>

\* The device is gone: reading it fails with ENODEV, and evdev_remove forgets
\* it.  Its keys are not reported to anybody.
Unplug(k) ==
  /\ "unplug" \in trouble
  /\ phase = "loop" /\ k \in plugged
  /\ plugged' = plugged \ {k}
  /\ held' = [held EXCEPT ![k] = {}]
  /\ queue' = [queue EXCEPT ![k] = <<>>]
  /\ UNCHANGED <<trouble, phase, modifiers, waiting, hostDown, unsent>>

-----------------------------------------------------------------------------
(* The keys: an event is queued, or a full queue is thrown away.           *)

Queued(k, event) ==
  /\ phase # "done" /\ k \in plugged
  /\ Len(queue[k]) = QueueSize => "drop" \in trouble
  /\ queue' = [queue EXCEPT ![k] = IF Len(@) < QueueSize THEN Append(@, event) ELSE <<>>]
  /\ UNCHANGED <<trouble, phase, plugged, modifiers, waiting, hostDown, unsent>>

Press(k, key) ==
  /\ key \notin held[k]
  /\ held' = [held EXCEPT ![k] = @ \cup {key}]
  /\ Queued(k, Event(key, TRUE))

\* Autorepeat: the value is 2, which the code does not tell from 1.
Repeat(k, key) ==
  /\ key \in held[k]
  /\ Queued(k, Event(key, TRUE))
  /\ UNCHANGED held

Release(k, key) ==
  /\ key \in held[k]
  /\ held' = [held EXCEPT ![k] = @ \ {key}]
  /\ Queued(k, Event(key, FALSE))

-----------------------------------------------------------------------------
(* evdev_handle_event, EV_KEY.                                             *)

\* Variants: the key's code is kept, or each event toggles the modifier.
ModifiersByCode(k, event) ==
  IF event.down THEN modifiers[k] \cup {event.key} ELSE modifiers[k] \ {event.key}

ModifiersToggled(k, event) ==
  IF event.key \notin ModifierKeys THEN modifiers[k]
  ELSE IF Bit[event.key] \in modifiers[k] THEN modifiers[k] \ {Bit[event.key]}
  ELSE modifiers[k] \cup {Bit[event.key]}

ModifiersAfter(k, event) ==
  IF event.key \notin ModifierKeys THEN modifiers[k]
  ELSE IF event.down THEN modifiers[k] \cup {Bit[event.key]}
  ELSE modifiers[k] \ {Bit[event.key]}

\* The quit combo is complete.
Combo(mods, event) ==
  /\ ActionModifiers \subseteq mods
  /\ event.key = QuitKey /\ event.down

\* The combo was pressed, and this device has no modifier left.
Exits(mods) == waiting /\ mods = {}

\* Variant: releases are not sent.
SentDownOnly(event) == IF event.down THEN hostDown \cup {event.key} ELSE hostDown

\* LiSendKeyboardEvent.
Sent(event) == IF event.down THEN hostDown \cup {event.key} ELSE hostDown \ {event.key}

\* The keys whose release is in a queue.
Releases == {key \in Keys : \E d \in Keyboards : \E n \in DOMAIN queue[d] : queue[d][n] = Event(key, FALSE)}

HandleKey(k) ==
  /\ phase = "loop" /\ k \in plugged /\ queue[k] # <<>>
  /\ LET event == Head(queue[k])
         mods  == ModifiersAfter(k, event)
     IN
       /\ modifiers' = [modifiers EXCEPT ![k] = mods]
       /\ \/ /\ Combo(mods, event)
             /\ waiting' = TRUE
             /\ queue' = [queue EXCEPT ![k] = Tail(@)]
             /\ UNCHANGED <<phase, hostDown, unsent>>
          \/ \* the loop is left, this event is not sent and evdev_stop drains every device
             /\ ~Combo(mods, event) /\ Exits(mods)
             /\ phase' = "done"
             /\ queue' = [d \in Keyboards |-> <<>>]
             /\ unsent' = Releases
             /\ UNCHANGED <<waiting, hostDown>>
          \/ /\ ~Combo(mods, event) /\ ~Exits(mods)
             /\ hostDown' = Sent(event)
             /\ queue' = [queue EXCEPT ![k] = Tail(@)]
             /\ UNCHANGED <<phase, waiting, unsent>>
  /\ UNCHANGED <<trouble, plugged, held>>

Finished == phase = "done" /\ UNCHANGED vars

Next ==
  \/ \E k \in Keyboards : Plug(k) \/ Unplug(k) \/ HandleKey(k)
  \/ \E k \in Keyboards, key \in Keys : Press(k, key) \/ Repeat(k, key) \/ Release(k, key)
  \/ StartLoop
  \/ Finished

Spec == Init /\ [][Next]_vars

-----------------------------------------------------------------------------
TypeOK ==
  /\ trouble \in Troubles
  /\ phase \in {"setup", "loop", "done"}
  /\ plugged \subseteq Keyboards
  /\ held \in [Keyboards -> SUBSET Keys]
  /\ queue \in [Keyboards -> Seq([key : Keys, down : BOOLEAN])]
  /\ \A k \in Keyboards : Len(queue[k]) <= QueueSize
  /\ modifiers \in [Keyboards -> SUBSET Bits]
  /\ waiting \in BOOLEAN
  /\ hostDown \subseteq Keys /\ unsent \subseteq Keys

\* Every key has been raised and the program knows.
AllRaised == \A k \in plugged : held[k] = {} /\ queue[k] = <<>>

\* Once the combo was pressed the loop does not outlive the moment when all
\* keys are up (evdev.c:409, "quit once all keys are raised").
RaisedQuits == phase = "loop" /\ waiting => ~AllRaised

\* The same while no keyboard goes away and no event is lost.
UndisturbedQuits == trouble = {} => RaisedQuits

\* No key stays down on the host when none is down here, while the loop runs, no keyboard
\* goes away and no event is lost.  When the combo has ended the loop a key is down there
\* only if it is held here or its release was read and not sent: the event that ended
\* the loop, the last modifier's as a rule (evdev.c:415 returns before 418), and those
\* that evdev_stop throws away.
HostKeysReleased ==
  /\ TypeOK
  /\ trouble = {} =>
       /\ phase = "loop" /\ AllRaised => hostDown = {}
       /\ phase = "done" => \A key \in hostDown : key \in unsent \/ \E k \in Keyboards : key \in held[k]
=============================================================================
