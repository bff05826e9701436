---------------------------- MODULE EvdevDevices ----------------------------
(***************************************************************************)
(* The table of evdev gamepads (src/src/input/evdev.c): hot-plug, the      *)
(* assignment of controller ids, the controller events sent to the host,   *)
(* and the mouse-emulation threads that keep a pointer into the table.     *)
(*                                                                         *)
(* `devices' is one malloc'd block that realloc may move; a removed entry  *)
(* is overwritten by the last one.  The main thread runs every handler;    *)
(* each emulating gamepad has a thread of its own, and the main thread     *)
(* blocks in pthread_join when it stops one.                               *)
(***************************************************************************)
EXTENDS Integers, FiniteSets

CONSTANTS
  Devices,               \* the gamepads that may be plugged in
  NoDevice,              \* the content of memory no device was ever stored in
  Capacity,              \* bound: slots the table may grow to
  MaxGamepads,           \* MAX_GAMEPADS
  Buttons,               \* the buttons modelled
  Start,                 \* the button whose long press toggles emulation
  QuitButtons,           \* QUIT_BUTTONS
  MouseEmulationEnabled, \* the option mouse_emulation
  AutoAdd,               \* udev adds devices plugged in while streaming
  Unpluggable            \* the devices that may disappear while streaming

ASSUME TableAssumption ==
  /\ NoDevice \notin Devices
  /\ Capacity \in Nat
  /\ MaxGamepads \in Nat \ {0}
  /\ Start \in QuitButtons /\ QuitButtons \subseteq Buttons
  /\ MouseEmulationEnabled \in BOOLEAN /\ AutoAdd \in BOOLEAN
  /\ Unpluggable \subseteq Devices

VARIABLES
  mem,       \* the block `devices' points to, stale entries included
  num,       \* numDevices
  assigned,  \* assignedControllerIds, as the set of its bits
  open,      \* the devices whose file descriptor is open
  threads,   \* the mouse-emulation thread of each device
  main,      \* what the main thread is doing
  host       \* what the controller events sent so far tell the host

vars == <<mem, num, assigned, open, threads, main, host>>

ControllerIds == 0 .. MaxGamepads - 1
NoId == -1
Slots == 0 .. Capacity - 1
Freed == -1          \* an address outside the current block

Entry == [dev : Devices \cup {NoDevice}, cid : ControllerIds \cup {NoId},
          btns : SUBSET Buttons, modified : BOOLEAN, emu : BOOLEAN]

ThreadState == [pc : {"none", "check", "body", "exited"}, ptr : Slots \cup {Freed}]

MainState == [pc : {"setup", "loop", "joinOff", "joinRemove", "done", "exit"},
              slot : Slots \cup {Freed}]

HostView == [mask : SUBSET ControllerIds, announced : SUBSET ControllerIds,
             btns : [ControllerIds -> SUBSET Buttons]]

NoEntry == [dev |-> NoDevice, cid |-> NoId, btns |-> {},
            modified |-> FALSE, emu |-> FALSE]

\* The entry evdev_create initialises.
Fresh(d) == [NoEntry EXCEPT !.dev = d]

NoThread == [pc |-> "none", ptr |-> Freed]

Running(d) == threads[d].pc \in {"check", "body"}

(***************************************************************************)
(* The slots that hold a connected device.  evdev_remove decrements        *)
(* numDevices first and fills the hole last: in between, the main thread   *)
(* may wait for the emulation thread of the entry it removes.              *)
(***************************************************************************)
Live == IF main.pc = "joinRemove" THEN (0 .. num) \ {main.slot} ELSE 0 .. num - 1

TypeOK ==
  /\ mem \in [Slots -> Entry]
  /\ num \in 0 .. Capacity
  /\ assigned \subseteq ControllerIds
  /\ open \subseteq Devices
  /\ threads \in [Devices -> ThreadState]
  /\ main \in MainState
  /\ host \in HostView

Init ==
  /\ mem = [s \in Slots |-> NoEntry]
  /\ num = 0
  /\ assigned = {}
  /\ open = {}
  /\ threads = [d \in Devices |-> NoThread]
  /\ main = [pc |-> "setup", slot |-> Freed]
  /\ host = [mask |-> {}, announced |-> {}, btns |-> [c \in ControllerIds |-> {}]]

-----------------------------------------------------------------------------
(* What the host learns.  Every event carries the mask of active pads, and *)
(* a pad that is not in the mask is gone.                                  *)

ControllerEvent(h, cid, mask, btns) ==
  [mask |-> mask,
   announced |-> h.announced \cap mask,
   btns |-> [c \in ControllerIds |->
               IF c \notin mask THEN {} ELSE IF c = cid THEN btns ELSE h.btns[c]]]

ControllerArrival(h, cid, mask) ==
  [h EXCEPT !.mask = mask, !.announced = (@ \cap mask) \cup {cid}]

-----------------------------------------------------------------------------
(* Plugging in.                                                            *)

\* The pointers into the block after realloc made room for `num' + 1 entries:
\* none survives when the block moves, nor one past the end of the new block.
PointersAfterRealloc(moved) ==
  [d \in Devices |-> IF moved \/ threads[d].ptr > num
                       THEN [threads[d] EXCEPT !.ptr = Freed]
                       ELSE threads[d]]

\* evdev_create for a gamepad with a mapping.
Create(d) ==
  /\ main.pc = "setup" \/ (main.pc = "loop" /\ AutoAdd)
  /\ d \notin open
  /\ num < Capacity
  /\ open' = open \cup {d}
  /\ num' = num + 1
  /\ mem' = [mem EXCEPT ![num] = Fresh(d)]
  /\ \E moved \in BOOLEAN : threads' = PointersAfterRealloc(moved)
  /\ UNCHANGED <<assigned, main, host>>

\* evdev_start, loop_main: from here on devices are read.
StartLoop ==
  /\ main.pc = "setup"
  /\ main' = [main EXCEPT !.pc = "loop"]
  /\ UNCHANGED <<mem, num, assigned, open, threads, host>>

\* loop_sig_handler: a signal, or the end of the connection, ends the loop.
Signal ==
  /\ main.pc = "loop"
  /\ main' = [main EXCEPT !.pc = "done"]
  /\ UNCHANGED <<mem, num, assigned, open, threads, host>>

-----------------------------------------------------------------------------
(* Reading events (evdev_handle, evdev_handle_event).                      *)

Reading(s) == main.pc = "loop" /\ s \in 0 .. num - 1

\* The end of evdev_handle_event for a gamepad event that left `e' in slot s:
\* the quit combination ends the loop, anything else waits for EV_SYN.
AfterGamepadEvent(s, e, h) ==
  \/ /\ QuitButtons \subseteq e.btns
     /\ mem' = [mem EXCEPT ![s] = e]
     /\ host' = ControllerEvent(h, e.cid, assigned, {})
     /\ main' = [main EXCEPT !.pc = "done"]
  \/ /\ ~(QuitButtons \subseteq e.btns)
     /\ mem' = [mem EXCEPT ![s] = [e EXCEPT !.modified = TRUE]]
     /\ host' = h
     /\ UNCHANGED main

Press(s, b) ==
  /\ Reading(s)
  /\ b \notin mem[s].btns
  /\ AfterGamepadEvent(s, [mem[s] EXCEPT !.btns = @ \cup {b}], host)
  /\ UNCHANGED <<num, assigned, open, threads>>

\* A stick, trigger or hat moved.
Axis(s) ==
  /\ Reading(s)
  /\ AfterGamepadEvent(s, mem[s], host)
  /\ UNCHANGED <<num, assigned, open, threads>>

Released(s, b) == [mem[s] EXCEPT !.btns = @ \ {b}]

\* A release that does not toggle mouse emulation.
Release(s, b) ==
  /\ Reading(s)
  /\ b \in mem[s].btns
  /\ AfterGamepadEvent(s, Released(s, b), host)
  /\ UNCHANGED <<num, assigned, open, threads>>

EmulationOnFirstPad(s) ==    \* variant: the thread is given the first entry
  /\ MouseEmulationEnabled /\ Reading(s) /\ Start \in mem[s].btns /\ ~mem[s].emu
  /\ threads' = [threads EXCEPT ![mem[s].dev] = [pc |-> "check", ptr |-> 0]]
  /\ AfterGamepadEvent(s, [Released(s, Start) EXCEPT !.emu = TRUE],
                       ControllerEvent(host, mem[s].cid, assigned, {}))
  /\ UNCHANGED <<num, assigned, open>>

\* Start released after 750 ms or more: emulation starts.
EmulationOn(s) ==
  /\ MouseEmulationEnabled
  /\ Reading(s)
  /\ Start \in mem[s].btns
  /\ ~mem[s].emu
  /\ threads' = [threads EXCEPT ![mem[s].dev] = [pc |-> "check", ptr |-> s]]
  /\ AfterGamepadEvent(s, [Released(s, Start) EXCEPT !.emu = TRUE],
                       ControllerEvent(host, mem[s].cid, assigned, {}))
  /\ UNCHANGED <<num, assigned, open>>

EmulationOffNoJoin(s) ==     \* variant: the thread is left to end by itself
  /\ MouseEmulationEnabled /\ Reading(s) /\ Start \in mem[s].btns /\ mem[s].emu
  /\ AfterGamepadEvent(s, [Released(s, Start) EXCEPT !.emu = FALSE],
                       ControllerEvent(host, mem[s].cid, assigned, {}))
  /\ UNCHANGED <<num, assigned, open, threads>>

\* The same when it is on: the flag is cleared and the thread joined.
EmulationOff(s) ==
  /\ MouseEmulationEnabled
  /\ Reading(s)
  /\ Start \in mem[s].btns
  /\ mem[s].emu
  /\ mem' = [mem EXCEPT ![s] = [Released(s, Start) EXCEPT !.emu = FALSE]]
  /\ main' = [pc |-> "joinOff", slot |-> s]
  /\ UNCHANGED <<num, assigned, open, threads, host>>

\* pthread_join returns: the handler goes on where it waited.
JoinedOff ==
  LET s == main.slot IN
  /\ main.pc = "joinOff"
  /\ threads[mem[s].dev].pc = "exited"
  /\ threads' = [threads EXCEPT ![mem[s].dev] = NoThread]
  /\ mem' = [mem EXCEPT ![s] = [@ EXCEPT !.modified = TRUE]]
  /\ host' = ControllerEvent(host, mem[s].cid, assigned, {})
  /\ main' = [pc |-> "loop", slot |-> Freed]
  /\ UNCHANGED <<num, assigned, open>>

FreeIds == ControllerIds \ assigned

\* The lowest free id, or 0 when there is none.
NextId ==
  IF FreeIds = {} THEN 0 ELSE CHOOSE c \in FreeIds : \A o \in FreeIds : c <= o

\* EV_SYN after the first event of a gamepad: it gets an id and is announced.
SynAssign(s) ==
  /\ Reading(s)
  /\ mem[s].modified
  /\ mem[s].cid = NoId
  /\ assigned' = IF FreeIds = {} THEN assigned ELSE assigned \cup {NextId}
  /\ mem' = [mem EXCEPT ![s] = [@ EXCEPT !.cid = NextId, !.modified = FALSE]]
  /\ LET announced == ControllerArrival(host, NextId, assigned') IN
       host' = IF mem[s].emu THEN announced
               ELSE ControllerEvent(announced, NextId, assigned', mem[s].btns)
  /\ UNCHANGED <<num, open, threads, main>>

\* EV_SYN of a gamepad that has an id: its state is sent unless it emulates.
SynReport(s) ==
  /\ Reading(s)
  /\ mem[s].modified
  /\ mem[s].cid # NoId
  /\ mem' = [mem EXCEPT ![s] = [@ EXCEPT !.modified = FALSE]]
  /\ host' = IF mem[s].emu THEN host
             ELSE ControllerEvent(host, mem[s].cid, assigned, mem[s].btns)
  /\ UNCHANGED <<num, assigned, open, threads, main>>

-----------------------------------------------------------------------------
(* Unplugging (evdev_remove, on -ENODEV) and read errors.                  *)

IdsKeptAfterRemove(cid) == assigned               \* variant: the bit is not cleared

IdsAfterRemove(cid) == assigned \ {cid}

CompactedNever(m, s, n) == m                      \* variant: the hole is left

\* variant: only the descriptor moves
CompactedFdOnly(m, s, n) ==
  IF s # n /\ n > 0 THEN [m EXCEPT ![s] = Fresh(m[n].dev)] ELSE m

\* numDevices is n already: the last entry moves into the hole.
Compacted(m, s, n) == IF s # n /\ n > 0 THEN [m EXCEPT ![s] = m[n]] ELSE m

ReturnIdEventFirst(s) ==     \* variant: the event goes out before the bit is cleared
  /\ num' = num - 1
  /\ assigned' = IdsAfterRemove(mem[s].cid)
  /\ host' = IF mem[s].cid = NoId THEN host
             ELSE ControllerEvent(host, mem[s].cid, assigned, {})

\* The part of evdev_remove before the join: the id is returned, the host told.
ReturnId(s) ==
  /\ num' = num - 1
  /\ assigned' = IdsAfterRemove(mem[s].cid)
  /\ host' = IF mem[s].cid = NoId THEN host
             ELSE ControllerEvent(host, mem[s].cid, assigned', {})

Remove(s) ==
  /\ Reading(s)
  /\ mem[s].dev \in Unpluggable
  /\ ~mem[s].emu
  /\ ReturnId(s)
  /\ open' = open \ {mem[s].dev}
  /\ mem' = Compacted(mem, s, num - 1)
  /\ UNCHANGED <<threads, main>>

RemoveEmulatingKeepsFlag(s) ==  \* variant: joins a thread nobody told to stop
  /\ Reading(s) /\ mem[s].dev \in Unpluggable /\ mem[s].emu
  /\ ReturnId(s)
  /\ main' = [pc |-> "joinRemove", slot |-> s]
  /\ UNCHANGED <<mem, open, threads>>

RemoveEmulating(s) ==
  /\ Reading(s)
  /\ mem[s].dev \in Unpluggable
  /\ mem[s].emu
  /\ ReturnId(s)
  /\ mem' = [mem EXCEPT ![s] = [@ EXCEPT !.emu = FALSE]]
  /\ main' = [pc |-> "joinRemove", slot |-> s]
  /\ UNCHANGED <<open, threads>>

JoinedRemove ==
  LET s == main.slot IN
  /\ main.pc = "joinRemove"
  /\ threads[mem[s].dev].pc = "exited"
  /\ threads' = [threads EXCEPT ![mem[s].dev] = NoThread]
  /\ open' = open \ {mem[s].dev}
  /\ mem' = Compacted(mem, s, num)
  /\ main' = [pc |-> "loop", slot |-> Freed]
  /\ UNCHANGED <<num, assigned, host>>

\* Any other read error ends the process.
ReadError(s) ==
  /\ Reading(s)
  /\ main' = [main EXCEPT !.pc = "exit"]
  /\ UNCHANGED <<mem, num, assigned, open, threads, host>>

-----------------------------------------------------------------------------
(* The emulation thread (HandleMouseEmulation).                            *)

\* What `dev->mouseEmulation' may read as: anything once the block is freed.
FlagSeen(d) == IF threads[d].ptr = Freed THEN BOOLEAN ELSE {mem[threads[d].ptr].emu}

ThreadCheck(d) ==
  /\ main.pc # "exit"
  /\ threads[d].pc = "check"
  /\ \E flag \in FlagSeen(d) :
       threads' = [threads EXCEPT ![d].pc = IF flag THEN "body" ELSE "exited"]
  /\ UNCHANGED <<mem, num, assigned, open, main, host>>

\* The sticks are read through the pointer and the motion is sent.
ThreadBody(d) ==
  /\ main.pc # "exit"
  /\ threads[d].pc = "body"
  /\ threads' = [threads EXCEPT ![d].pc = "check"]
  /\ UNCHANGED <<mem, num, assigned, open, main, host>>

-----------------------------------------------------------------------------

HandleEvent(s) ==
  \/ \E b \in Buttons : Press(s, b) \/ Release(s, b)
  \/ Axis(s)
  \/ EmulationOn(s)
  \/ EmulationOff(s)
  \/ SynAssign(s)
  \/ SynReport(s)
  \/ Remove(s)
  \/ RemoveEmulating(s)
  \/ ReadError(s)

Thread(d) == ThreadCheck(d) \/ ThreadBody(d)

\* The loop was left or the process ended: nothing more happens to the table.
Finished == main.pc \in {"done", "exit"} /\ UNCHANGED vars

Next ==
  \/ \E d \in Devices : Create(d) \/ Thread(d)
  \/ StartLoop
  \/ Signal
  \/ \E s \in Slots : HandleEvent(s)
  \/ JoinedOff
  \/ JoinedRemove
  \/ Finished

Spec == Init /\ [][Next]_vars

(***************************************************************************)
(* The kernel schedules every thread: an emulation thread keeps polling    *)
(* its flag, and a join whose thread has exited returns.  The user owes    *)
(* nothing.                                                                *)
(***************************************************************************)
Fairness ==
  /\ \A d \in Devices : WF_vars(Thread(d))
  /\ WF_vars(JoinedOff)
  /\ WF_vars(JoinedRemove)

FairSpec == Spec /\ Fairness

-----------------------------------------------------------------------------
(* Properties.                                                             *)

\* The table holds exactly the devices whose descriptor is open, each once,
\* whatever order devices are plugged in and removed (the swap in evdev_remove).
\* (And types hold.)
TableIsOpenDevices ==
  /\ TypeOK
  /\ \A d \in open : \E s \in Live \cup {main.slot} : s # Freed /\ mem[s].dev = d
  /\ \A s \in Live : mem[s].dev \in open
  /\ \A s, t \in Live : mem[s].dev = mem[t].dev => s = t

BitsHeld == \A c \in assigned : \E s \in Live : mem[s].cid = c
IdsHaveBit == \A s \in Live : mem[s].cid \notin {NoId, 0} => mem[s].cid \in assigned
IdsDistinct ==
  \A s, t \in Live : mem[s].cid = mem[t].cid /\ mem[s].cid \notin {NoId, 0} => s = t

\* A bit of assignedControllerIds always belongs to a connected gamepad, and two
\* gamepads share a controller id only if it is 0, the id handed out when no
\* other is left; an id other than 0 keeps its bit as long as it is held.
IdsConsistent == BitsHeld /\ IdsHaveBit /\ IdsDistinct

\* The mask the host saw last is the current one: no handler changes the ids
\* without telling the host in the same call.
HostMaskCurrent == host.mask = assigned

IdOf(d) == {mem[s].cid : s \in {t \in Live : mem[t].dev = d}} \ {NoId}

\* A gamepad keeps its controller id until it is unplugged, also when its entry
\* is moved into the place of another.
IdStable ==
  [][\A d \in Devices :
       IdOf(d) # {} /\ (\E s \in Live : mem[s].dev = d)' => IdOf(d)' = IdOf(d)]_vars

ReadsItsPad(d) == threads[d].ptr # Freed /\ mem[threads[d].ptr].dev = d

\* An emulation thread starts on the entry of its own gamepad, and what it was
\* given goes stale only when a device is added (realloc) or removed (the swap):
\* no event of another gamepad gets between them.
EmulationReadsItsPad ==
  [][\A d \in Devices :
       /\ Running(d)'
       /\ Running(d) => ReadsItsPad(d)
       /\ num' = num
       => ReadsItsPad(d)']_vars

\* Both: nothing that happens to a gamepad takes the id or the thread of another.
GamepadsKeepTheirOwn == IdStable /\ EmulationReadsItsPad

HasThread(d) == threads[d].pc # "none"
Emulates(d) ==
  \/ \E s \in Live : mem[s].dev = d /\ mem[s].emu
  \/ main.pc \in {"joinOff", "joinRemove"} /\ mem[main.slot].dev = d

\* A connected gamepad has a thread exactly when its flag is set, but for the one the
\* main thread is waiting for; and a gamepad that drives the mouse holds no button
\* down on the host, nor does one that has gone.
EmulationConsistent ==
  /\ \A d \in Devices : HasThread(d) <=> Emulates(d)
  /\ \A c \in ControllerIds :
       host.btns[c] # {} => \E s \in Live : mem[s].cid = c /\ ~mem[s].emu

\* Stopping emulation, by a long press or by unplugging, completes: the main
\* thread gets back to its loop.  (The comment at MOUSE_EMULATION_LONG_PRESS_TIME
\* and the manual promise the toggle without exception.)
JoinReturns == main.pc \in {"joinOff", "joinRemove"} ~> main.pc = "loop"

\* It completes as long as the gamepad's entry is where it was when its thread
\* was started.
JoinReturnsInPlace ==
  \A d \in Devices :
    (/\ main.pc \in {"joinOff", "joinRemove"}
     /\ mem[main.slot].dev = d
     /\ threads[d].ptr = main.slot) ~> main.pc = "loop"
=============================================================================
