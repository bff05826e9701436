------------------------------- MODULE SdlInput -------------------------------
(***************************************************************************)
(* Gamepads read through SDL (src/src/input/sdl.c): the table of states,   *)
(* whose index is the host's number for a gamepad, the mask that goes with *)
(* every message, and the references the program holds to SDL's            *)
(* controllers.  SDL announces gamepads through the event queue it shares  *)
(* with the rest of the program; SdlDisplay takes the events out of it.    *)
(*                                                                         *)
(* SDL gives a gamepad a new instance id whenever it is plugged in; the    *)
(* model's gamepads are those ids.                                         *)
(***************************************************************************)
EXTENDS Integers, Sequences, SequencesExt, FiniteSets

CONSTANTS
  QueueSize,       \* events SDL queues before SDL_PushEvent fails
  MAX_GAMEPADS,
  MaxPlugs,        \* bound: gamepads plugged in altogether
  Buttons,
  QUIT_BUTTONS

VARIABLES
  queue,             \* SDL's event queue
  lost,              \* whether it ever had no room for an event
  plugs,             \* instance ids given so far
  attached,          \* the buttons held on each gamepad there is: plugged in, and not
                     \* one that SDL could not open
  refs,              \* how often the program has each controller open
  gamepads,          \* gamepads[], an unused entry has no sdl_id
  activeGamepadMask, \* as a set of indices
  sdl_gamepads,
  host               \* the mask the host knows, and the buttons of each index

padVars == <<refs, gamepads, activeGamepadMask, sdl_gamepads, host>>
inputVars == <<queue, lost, plugs, attached, padVars>>

Pads == 1 .. MaxPlugs
Indices == 0 .. MAX_GAMEPADS - 1
None == 0
Unused == [sdl_id |-> None, controller |-> None, buttons |-> {}]

PadEvent == [type : {"added", "removed"}, pad : Pads]
            \cup [type : {"button"}, pad : Pads, button : Buttons, down : BOOLEAN]

\* SDL_PushEvent; its failure is not looked at.
PushTo(events, e) ==
  \/ Len(events) < QueueSize /\ queue' = Append(events, e) /\ UNCHANGED lost
  \/ Len(events) >= QueueSize /\ queue' = events /\ lost' = TRUE
PushEvent(e) == PushTo(queue, e)

Added(p) == [type |-> "added", pad |-> p]

Initialized == {i \in Indices : gamepads[i].sdl_id # None}
Holding(p) == {i \in Initialized : gamepads[i].sdl_id = p}
Least(S) == CHOOSE i \in S : \A j \in S : i <= j

InputInit ==
  /\ plugs = 0 /\ attached = <<>> /\ queue = <<>> /\ lost = FALSE
  /\ refs = [p \in Pads |-> 0]
  /\ gamepads = [i \in Indices |-> Unused]
  /\ activeGamepadMask = {} /\ sdl_gamepads = 0
  /\ host = [mask |-> {}, buttons |-> [i \in Indices |-> {}]]

\* sdlinput_init opens the n gamepads there are, and SDL announces them anyway.
\* Their number is all that the host is told when the stream is started.
sdlinput_init(n) ==
  /\ plugs' = n
  /\ attached' = [p \in 1 .. n |-> {}]
  /\ queue' = [p \in {q \in 1 .. n : q <= QueueSize} |-> Added(p)]
  /\ lost' = (n > QueueSize)
  /\ refs' = [p \in Pads |-> IF p <= n THEN 1 ELSE 0]
  /\ gamepads' = [i \in Indices |->
       IF i >= n THEN Unused
       ELSE [sdl_id |-> i + 1, buttons |-> {},
             controller |-> IF i = 0 /\ n > MAX_GAMEPADS THEN n ELSE i + 1]]
  /\ activeGamepadMask' = {i \in Indices : i < n}
  /\ sdl_gamepads' = n
  /\ host' = [mask |-> {i \in Indices : i < n}, buttons |-> [i \in Indices |-> {}]]

-----------------------------------------------------------------------------
(* The world and SDL.                                                      *)

Attach ==
  /\ plugs < MaxPlugs
  /\ plugs' = plugs + 1
  /\ attached' = [p \in DOMAIN attached \cup {plugs + 1} |->
                    IF p = plugs + 1 THEN {} ELSE attached[p]]
  /\ PushEvent(Added(plugs + 1))
  /\ UNCHANGED padVars

\* SDL withdraws the announcement if nobody has read it, and reports the removal of
\* controllers that are open.
Withdrawn(p) ==
  IF \E k \in DOMAIN queue : queue[k] = Added(p)
    THEN RemoveAt(queue, CHOOSE k \in DOMAIN queue : queue[k] = Added(p))
    ELSE queue

Detach(p) ==
  /\ p \in DOMAIN attached
  /\ attached' = [q \in DOMAIN attached \ {p} |-> attached[q]]
  /\ \/ refs[p] > 0 /\ PushTo(Withdrawn(p), [type |-> "removed", pad |-> p])
     \/ refs[p] = 0 /\ queue' = Withdrawn(p) /\ UNCHANGED lost
  /\ UNCHANGED <<plugs, padVars>>

\* Bound: SDL has at most one unread event of the user.
Button(p, b) ==
  /\ p \in DOMAIN attached /\ refs[p] > 0
  /\ \A k \in DOMAIN queue : queue[k].type \notin {"input", "button"}
  /\ attached' = [attached EXCEPT ![p] = IF b \in @ THEN @ \ {b} ELSE @ \cup {b}]
  /\ PushEvent([type |-> "button", pad |-> p, button |-> b, down |-> b \notin attached[p]])
  /\ UNCHANGED <<plugs, padVars>>

World == Attach \/ \E p \in Pads : Detach(p) \/ \E b \in Buttons : Button(p, b)

-----------------------------------------------------------------------------
(* The messages of the program: the host drops what the mask leaves out.   *)

Tell(i, mask, buttons) ==
  host' = [mask |-> mask,
           buttons |-> [j \in Indices |-> IF j \notin mask THEN {}
                                          ELSE IF j = i THEN buttons ELSE host.buttons[j]]]

\* send_controller_arrival names no buttons.
Arrive(i, mask) == Tell(i, mask, host.buttons[i])

-----------------------------------------------------------------------------
(* sdlinput_handle_event.                                                  *)

\* get_gamepad: when all entries are taken, the newcomer gets the first.
Room == Indices \ Initialized

AddKnown(p) ==
  /\ Holding(p) # {}
  /\ Arrive(Least(Holding(p)), activeGamepadMask)
  /\ UNCHANGED <<refs, gamepads, activeGamepadMask, sdl_gamepads>>

AddNew(p) ==
  /\ Holding(p) = {}
  /\ refs' = [refs EXCEPT ![p] = @ + 1]
  /\ IF Room # {}
       THEN /\ gamepads' = [gamepads EXCEPT ![Least(Room)] =
                              [sdl_id |-> p, controller |-> p, buttons |-> {}]]
            /\ activeGamepadMask' = activeGamepadMask \cup {Least(Room)}
            /\ Arrive(Least(Room), activeGamepadMask')
       ELSE /\ gamepads' = [gamepads EXCEPT ![0].controller = p]
            /\ UNCHANGED activeGamepadMask
            /\ Arrive(0, activeGamepadMask)
  /\ sdl_gamepads' = sdl_gamepads + 1

add_gamepad(p) == AddKnown(p) \/ AddNew(p)

\* SDL_GameControllerOpen fails, for a controller that is not open yet: add_gamepad
\* returns, SDL reports nothing of that gamepad, and it is as if it had left.
OpenFails(p) ==
  /\ refs[p] = 0 /\ Holding(p) = {}
  /\ attached' = [q \in DOMAIN attached \ {p} |-> attached[q]]
  /\ UNCHANGED <<plugs, padVars>>

RemoveFrom(i, cleared) ==
  /\ refs' = [refs EXCEPT ![gamepads[i].controller] = @ - 1]
  /\ activeGamepadMask' = activeGamepadMask \ {i}
  /\ Tell(i, activeGamepadMask', {})
  /\ gamepads' = [gamepads EXCEPT ![i] = cleared]
  /\ sdl_gamepads' = sdl_gamepads - 1

\* Variant: the entry is marked as free but keeps its mask bit.
RemoveKeepsMask(p) ==
  \/ Holding(p) = {} /\ UNCHANGED padVars
  \/ /\ Holding(p) # {}
     /\ LET i == Least(Holding(p)) IN
          /\ refs' = [refs EXCEPT ![gamepads[i].controller] = @ - 1]
          /\ gamepads' = [gamepads EXCEPT ![i] = Unused]
          /\ Tell(i, activeGamepadMask \ {i}, {})
     /\ sdl_gamepads' = sdl_gamepads - 1
     /\ UNCHANGED activeGamepadMask

remove_gamepad(p) ==
  \/ Holding(p) = {} /\ UNCHANGED padVars
  \/ Holding(p) # {} /\ RemoveFrom(Least(Holding(p)), Unused)

ButtonsAfter(e) == LET was == gamepads[Least(Holding(e.pad))].buttons IN
  IF e.down THEN was \cup {e.button} ELSE was \ {e.button}

Quits(e) ==
  /\ e.type = "button" /\ Holding(e.pad) # {}
  /\ QUIT_BUTTONS \subseteq ButtonsAfter(e)

\* SDL_CONTROLLERBUTTONDOWN and UP: the combo that quits is not sent.
HandleButton(e) ==
  IF Holding(e.pad) = {} THEN UNCHANGED padVars
  ELSE LET i == Least(Holding(e.pad)) IN
       /\ gamepads' = [gamepads EXCEPT ![i].buttons = ButtonsAfter(e)]
       /\ IF Quits(e) THEN UNCHANGED host ELSE Tell(i, activeGamepadMask, ButtonsAfter(e))
       /\ UNCHANGED <<refs, activeGamepadMask, sdl_gamepads>>

HandlePad(e) ==
  \/ e.type = "added" /\ add_gamepad(e.pad)
  \/ e.type = "removed" /\ remove_gamepad(e.pad)
  \/ e.type = "button" /\ HandleButton(e)

-----------------------------------------------------------------------------
InputTypeOK ==
  /\ plugs \in 0 .. MaxPlugs /\ DOMAIN attached \subseteq 1 .. plugs
  /\ refs \in [Pads -> Nat]
  /\ gamepads \in [Indices -> [sdl_id : Pads \cup {None}, controller : Pads \cup {None},
                               buttons : SUBSET Buttons]]
  /\ activeGamepadMask \subseteq Indices /\ sdl_gamepads \in Nat
  /\ host.mask \subseteq Indices

\* The program has read all that SDL has to say about gamepads.
PadsRead == \A k \in DOMAIN queue : queue[k].type \notin {"added", "removed", "button"}

\* More gamepads than the table has entries were added: what sdl_gamepads counts
\* and the table does not hold.
Overflown == sdl_gamepads # Cardinality(Initialized)
=============================================================================
