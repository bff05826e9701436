----------------------------- MODULE EvdevRumble -----------------------------
(***************************************************************************)
(* Force feedback (evdev_rumble in src/src/input/evdev.c).  The host asks  *)
(* for it, and the control thread of the streaming library calls           *)
(* evdev_rumble; it looks a controller up in the table of EvdevDevices and *)
(* works on that entry, without a lock, while the main thread may add      *)
(* gamepads and remove them.                                               *)
(***************************************************************************)
EXTENDS EvdevDevices

CONSTANTS
  MaxEffects,    \* effects the kernel keeps for a gamepad
  MaxRequests    \* bound: requests the host sends

ASSUME RumbleAssumption == MaxEffects \in Nat \ {0} /\ MaxRequests \in Nat

Effects == 0 .. MaxEffects - 1
NoEffect == -1

VARIABLES
  haptic,      \* haptic_effect_id of every slot
  uploaded,    \* the effects of each gamepad the kernel knows
  playing,     \* those that run
  rumbler,     \* what the control thread is doing
  requests,    \* how many requests there were
  asked,       \* the controllers that should rumble, as far as requests are done
  disturbed    \* a request met a table that changed, or an id that two gamepads share

rumbleVars == <<haptic, uploaded, playing, rumbler, requests, asked, disturbed>>
allVars == <<vars, rumbleVars>>

Idle == [pc |-> "idle", cid |-> NoId, on |-> FALSE, slot |-> 0, id |-> NoEffect]

RumbleInit ==
  /\ Init
  /\ haptic = [s \in Slots |-> NoEffect]
  /\ uploaded = [d \in Devices |-> {}] /\ playing = [d \in Devices |-> {}]
  /\ rumbler = Idle /\ requests = 0
  /\ asked = {} /\ disturbed = FALSE

-----------------------------------------------------------------------------
(* The request (evdev_get_input_device, evdev_rumble).                     *)

\* The gamepads device->fd may belong to: any, once the block is freed, and none when
\* it was closed.
Reached == IF rumbler.slot = Freed THEN open \cup {NoDevice}
           ELSE {IF mem[rumbler.slot].dev \in open THEN mem[rumbler.slot].dev ELSE NoDevice}

Shared == {c \in ControllerIds : \E s, t \in Live : s # t /\ mem[s].cid = c /\ mem[t].cid = c}

\* The call returns: the host takes what it asked for as done.
Return ==
  /\ rumbler' = Idle
  /\ asked' = IF rumbler.on THEN asked \cup {rumbler.cid} ELSE asked \ {rumbler.cid}

Request(c, on) ==
  /\ main.pc \notin {"setup", "exit"} /\ rumbler.pc = "idle" /\ requests < MaxRequests
  /\ requests' = requests + 1
  /\ rumbler' = [Idle EXCEPT !.pc = "look", !.cid = c, !.on = on]
  /\ disturbed' = (disturbed \/ c \in Shared \/ main.pc = "joinRemove")
  /\ UNCHANGED <<vars, haptic, uploaded, playing, asked>>

Look ==
  /\ main.pc # "exit" /\ rumbler.pc = "look"
  /\ \/ rumbler.slot >= num /\ Return
     \/ /\ rumbler.slot < num /\ mem[rumbler.slot].cid = rumbler.cid
        /\ rumbler' = [rumbler EXCEPT !.pc = "stop"]
        /\ UNCHANGED asked
     \/ /\ rumbler.slot < num /\ mem[rumbler.slot].cid # rumbler.cid
        /\ rumbler' = [rumbler EXCEPT !.slot = @ + 1]
        /\ UNCHANGED asked
  /\ UNCHANGED <<vars, haptic, uploaded, playing, requests, disturbed>>

\* haptic_effect_id: any value, once the block is freed.
HapticSeen == IF rumbler.slot = Freed THEN Effects \cup {NoEffect} ELSE {haptic[rumbler.slot]}

HapticSet(id) ==
  haptic' = IF rumbler.slot = Freed THEN haptic ELSE [haptic EXCEPT ![rumbler.slot] = id]

Erased(effects, d, id) == [g \in Devices |-> IF g = d THEN effects[g] \ {id} ELSE effects[g]]

\* EVIOCRMFF for the effect that was started last; nothing else for a request that
\* both motors stop.
StopEffect ==
  /\ main.pc # "exit" /\ rumbler.pc = "stop"
  /\ \E id \in HapticSeen, d \in Reached :
       /\ uploaded' = Erased(uploaded, d, id) /\ playing' = Erased(playing, d, id)
       /\ IF id = NoEffect THEN UNCHANGED haptic ELSE HapticSet(NoEffect)
  /\ IF rumbler.on THEN rumbler' = [rumbler EXCEPT !.pc = "upload"] /\ UNCHANGED asked
     ELSE Return
  /\ UNCHANGED <<vars, requests, disturbed>>

\* EVIOCSFF: the kernel chooses the id, or has no room, or the gamepad no motor.
Upload ==
  /\ main.pc # "exit" /\ rumbler.pc = "upload"
  /\ \/ Return /\ UNCHANGED uploaded
     \/ \E d \in Reached \ {NoDevice} :
          \E id \in Effects \ uploaded[d] :
            /\ \A e \in Effects \ uploaded[d] : id <= e
            /\ uploaded' = [uploaded EXCEPT ![d] = @ \cup {id}]
            /\ rumbler' = [rumbler EXCEPT !.pc = "play", !.id = id]
            /\ UNCHANGED asked
  /\ UNCHANGED <<vars, haptic, playing, requests, disturbed>>

\* write: an effect the gamepad does not have is refused.
Play ==
  /\ main.pc # "exit" /\ rumbler.pc = "play"
  /\ \E d \in Reached :
       playing' = IF d # NoDevice /\ rumbler.id \in uploaded[d]
                  THEN [playing EXCEPT ![d] = @ \cup {rumbler.id}] ELSE playing
  /\ rumbler' = [rumbler EXCEPT !.pc = "store"]
  /\ UNCHANGED <<vars, haptic, uploaded, requests, asked, disturbed>>

Store ==
  /\ main.pc # "exit" /\ rumbler.pc = "store"
  /\ HapticSet(rumbler.id)
  /\ Return
  /\ UNCHANGED <<vars, uploaded, playing, requests, disturbed>>

-----------------------------------------------------------------------------
(* The table changes under it.                                             *)

\* Pointers into the block after realloc, as in EvdevDevices.
SlotAfterRealloc(moved) ==
  IF rumbler.pc \in {"stop", "upload", "play", "store"} /\ (moved \/ rumbler.slot > num)
  THEN [rumbler EXCEPT !.slot = Freed] ELSE rumbler

HapticLeft(s, n) == haptic       \* variant: the field is not moved

\* The last entry moves into the hole, this field with it.
HapticMoved(s, n) == IF s # n /\ n > 0 THEN [haptic EXCEPT ![s] = haptic[n]] ELSE haptic

\* evdev_create; the emulation threads have pointers into the same block.
EntryAdded ==
  /\ open' \ open # {}
  /\ haptic' = [haptic EXCEPT ![num] = NoEffect]
  /\ \E moved \in BOOLEAN :
       threads' = PointersAfterRealloc(moved) /\ rumbler' = SlotAfterRealloc(moved)
  /\ UNCHANGED <<uploaded, playing>>

\* evdev_remove: the descriptor is closed, which ends its effects, and an entry moves.
EntryRemoved ==
  \E d \in open \ open', s \in Live \cup {main.slot} :
    /\ s # Freed /\ mem[s].dev = d
    /\ haptic' = HapticMoved(s, num')
    /\ uploaded' = [uploaded EXCEPT ![d] = {}] /\ playing' = [playing EXCEPT ![d] = {}]
    /\ UNCHANGED rumbler

EntriesKept == open' = open /\ UNCHANGED <<haptic, uploaded, playing, rumbler>>

\* A request meets a table that changes, or two gamepads that share its id.
Disturbs ==
  \/ rumbler.pc # "idle" /\ (open' # open \/ num' # num)
  \/ Shared' \cap (asked \cup {rumbler.cid}) # {}

DevicesStep ==
  /\ Next
  /\ EntryAdded \/ EntryRemoved \/ EntriesKept
  /\ disturbed' = (disturbed \/ Disturbs)
  /\ UNCHANGED <<requests, asked>>

RumbleStep ==
  \/ \E c \in ControllerIds, on \in BOOLEAN : Request(c, on)
  \/ Look \/ StopEffect \/ Upload \/ Play \/ Store

RumbleNext == DevicesStep \/ RumbleStep
RumbleSpec == RumbleInit /\ [][RumbleNext]_allVars

-----------------------------------------------------------------------------
RumblerState ==
  [pc : {"idle", "look", "stop", "upload", "play", "store"},
   cid : ControllerIds \cup {NoId}, on : BOOLEAN,
   slot : 0 .. Capacity \cup {Freed}, id : Effects \cup {NoEffect}]

RumbleTypeOK ==
  /\ haptic \in [Slots -> Effects \cup {NoEffect}]
  /\ uploaded \in [Devices -> SUBSET Effects]
  /\ playing \in [Devices -> SUBSET Effects]
  /\ rumbler \in RumblerState
  /\ requests \in 0 .. MaxRequests
  /\ asked \subseteq ControllerIds /\ disturbed \in BOOLEAN

\* A gamepad only rumbles while the host wants its controller to, and an effect is
\* never left in it that no later request can stop, however gamepads moved in the
\* table between the requests.  (Not when one moved during a request, or shares id 0.)
RumbleFollowsHost ==
  /\ RumbleTypeOK
  /\ ~disturbed =>
       /\ \A s \in Live :
            /\ playing[mem[s].dev] \subseteq uploaded[mem[s].dev]
            /\ rumbler.pc = "idle" => uploaded[mem[s].dev] \subseteq {haptic[s]}
            /\ rumbler.pc = "idle" /\ playing[mem[s].dev] # {} => mem[s].cid \in asked
=============================================================================
