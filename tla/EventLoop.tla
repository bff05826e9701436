------------------------------ MODULE EventLoop ------------------------------
(***************************************************************************)
(* The main loop (src/src/loop.c) and the sources it polls: the signal     *)
(* descriptor, the udev monitor (src/src/input/udev.c), the input devices, *)
(* and the window and frame pipe of the x11 platform.                      *)
(*                                                                         *)
(* Handlers add and remove descriptors while the array is being scanned:   *)
(* udev_handle opens devices, evdev_handle removes unplugged ones, and     *)
(* loop_remove_fd moves the last entry into the hole.                      *)
(***************************************************************************)
EXTENDS Integers, FiniteSets, Sequences, Functions

CONSTANTS
  Devices,   \* the input devices; each names its descriptor as well
  Sig,       \* sigFd
  Udev,      \* the descriptor of the udev monitor
  Windows    \* descriptors added by the platform, after sigFd

ASSUME LoopAssumption ==
  /\ IsFiniteSet(Devices)
  /\ Sig # Udev
  /\ {Sig, Udev} \cap (Devices \cup Windows) = {}
  /\ Devices \cap Windows = {}

VARIABLES
  fds,        \* the array of pollfds: descriptor and revents
  fdHandlers, \* the handlers, in an array of their own
  pc,         \* what the main thread is doing
  i,          \* the index of loop_main's scan
  present,    \* the devices that are plugged in
  open,       \* the devices with an open descriptor
  announced,  \* the devices udev has still to hand over, in order
  data        \* the sources that have something to read

vars == <<fds, fdHandlers, pc, i, present, open, announced, data>>

Sources == Devices \cup Windows \cup {Sig, Udev}
HandlerOf(fd) == CASE fd = Sig -> "loop_sig_handler"
                   [] fd = Udev -> "udev_handle"
                   [] fd \in Devices -> "evdev_handle"
                   [] OTHER -> "window_handler"

Watched == {fds[k].fd : k \in DOMAIN fds}

TypeOK ==
  /\ fds \in Seq([fd : Sources, rev : BOOLEAN])
  /\ fdHandlers \in Seq({HandlerOf(s) : s \in Sources})
  /\ Len(fdHandlers) = Len(fds)
  /\ pc \in {"start", "enumerate", "setup", "poll", "scan", "returned", "exited"}
  /\ i \in Nat \ {0}
  /\ present \subseteq Devices
  /\ open \subseteq Devices
  /\ announced \in Seq(Devices) /\ IsInjective(announced)
  /\ data \subseteq Sources \ {Udev}

Init ==
  /\ fds = <<>>
  /\ fdHandlers = <<>>
  /\ pc = "start"
  /\ i = 1
  /\ present \in SUBSET Devices
  /\ open = {}
  /\ announced = <<>>
  /\ data = {}

-----------------------------------------------------------------------------
(* The array.                                                              *)

\* The new entry's revents is not initialised: whatever the memory held.
AddFd(fd) ==
  /\ \E rev \in BOOLEAN : fds' = Append(fds, [fd |-> fd, rev |-> rev])
  /\ fdHandlers' = Append(fdHandlers, HandlerOf(fd))

\* loop_remove_fd looks for the first entry of fd; without one, the last goes.
IndexOf(fd) ==
  LET found == {k \in DOMAIN fds : fds[k].fd = fd} IN
  IF found = {} THEN Len(fds) ELSE CHOOSE k \in found : \A o \in found : k <= o

DroppedLast(s, k) == SubSeq(s, 1, Len(s) - 1)   \* variant: no entry is moved

Dropped(s, k) == [n \in 1 .. Len(s) - 1 |-> IF n = k THEN s[Len(s)] ELSE s[n]]

RemoveFdOnly(fd) ==          \* variant: the handlers are not moved along
  /\ fds' = Dropped(fds, IndexOf(fd))
  /\ fdHandlers' = SubSeq(fdHandlers, 1, Len(fdHandlers) - 1)

RemoveFd(fd) ==
  /\ fds' = Dropped(fds, IndexOf(fd))
  /\ fdHandlers' = Dropped(fdHandlers, IndexOf(fd))

-----------------------------------------------------------------------------
(* The world: devices come and go, events and signals arrive at any time.  *)

\* A device that comes back while its last addition is still announced is
\* another device.
Plug(d) ==
  /\ d \notin present \cup open \cup Range(announced)
  /\ present' = present \cup {d}
  /\ announced' = IF Udev \in Watched THEN Append(announced, d) ELSE announced
  /\ UNCHANGED <<fds, fdHandlers, pc, i, open, data>>

Unplug(d) ==
  /\ d \in present
  /\ present' = present \ {d}
  /\ UNCHANGED <<fds, fdHandlers, pc, i, open, announced, data>>

\* An event at an open device or a window, or a signal loop_init has blocked.
Happens(s) ==
  /\ s \in (open \cap present) \cup ((Windows \cup {Sig}) \cap Watched)
  /\ data' = data \cup {s}
  /\ UNCHANGED <<fds, fdHandlers, pc, i, present, open, announced>>

-----------------------------------------------------------------------------
(* Setting up: udev_init, loop_init and the platform's setup.              *)

\* udev_enumerate_scan_devices: the list of the devices plugged in now.
ScanDevices ==
  /\ pc = "start"
  /\ announced' \in Injection(1 .. Cardinality(present), present)
  /\ pc' = "enumerate"
  /\ UNCHANGED <<fds, fdHandlers, i, present, open, data>>

\* evdev_create; a device that is gone again cannot be opened.
CreateDevice(d) ==
  IF d \in present
    THEN open' = open \cup {d} /\ AddFd(d)
    ELSE UNCHANGED <<open, fds, fdHandlers>>

Enumerate ==
  /\ pc = "enumerate"
  /\ announced # <<>>
  /\ announced' = Tail(announced)
  /\ CreateDevice(Head(announced))
  /\ UNCHANGED <<pc, i, present, data>>

\* udev_monitor_enable_receiving: later additions are reported from here on.
EnableMonitor ==
  /\ pc = "enumerate"
  /\ announced = <<>>
  /\ AddFd(Udev)
  /\ pc' = "setup"
  /\ UNCHANGED <<i, present, open, announced, data>>

LoopInit ==
  /\ pc = "setup"
  /\ Sig \notin Watched
  /\ AddFd(Sig)
  /\ UNCHANGED <<pc, i, present, open, announced, data>>

AddWindow(w) ==
  /\ pc = "setup"
  /\ Sig \in Watched
  /\ w \in Windows \ Watched
  /\ AddFd(w)
  /\ UNCHANGED <<pc, i, present, open, announced, data>>

StartLoopScanning ==         \* variant: the first scan comes before the first poll
  /\ pc = "setup" /\ {Sig} \cup Windows \subseteq Watched
  /\ pc' = "scan"
  /\ UNCHANGED <<fds, fdHandlers, i, present, open, announced, data>>

StartLoop ==
  /\ pc = "setup"
  /\ {Sig} \cup Windows \subseteq Watched
  /\ pc' = "poll"
  /\ UNCHANGED <<fds, fdHandlers, i, present, open, announced, data>>

-----------------------------------------------------------------------------
(* loop_main.                                                              *)

\* A descriptor poll reports: data, a hang-up, or an addition to hand over.
Ready(fd) == \/ fd \in data
             \/ fd \in open \ present
             \/ fd = Udev /\ announced # <<>>

Poll ==
  /\ pc = "poll"
  /\ \E k \in DOMAIN fds : Ready(fds[k].fd)
  /\ fds' = [k \in DOMAIN fds |-> [fds[k] EXCEPT !.rev = Ready(fds[k].fd)]]
  /\ i' = 1
  /\ pc' = "scan"
  /\ UNCHANGED <<fdHandlers, present, open, announced, data>>

ScanEnd ==
  /\ pc = "scan"
  /\ i > Len(fds)
  /\ pc' = "poll"
  /\ UNCHANGED <<fds, fdHandlers, i, present, open, announced, data>>

Skip ==
  /\ pc = "scan" /\ i <= Len(fds)
  /\ ~fds[i].rev
  /\ i' = i + 1
  /\ UNCHANGED <<fds, fdHandlers, pc, present, open, announced, data>>

Calls(h) == pc = "scan" /\ i <= Len(fds) /\ fds[i].rev /\ fdHandlers[i] = h

\* What a handler returns: LOOP_OK goes on with the next entry.
LoopOk == i' = i + 1 /\ UNCHANGED pc
LoopReturn == pc' = "returned" /\ UNCHANGED i

HandleSignalIgnored ==       \* variant: the signal does not end the loop
  /\ Calls("loop_sig_handler") /\ fds[i].fd \in data
  /\ data' = data \ {fds[i].fd}
  /\ LoopOk
  /\ UNCHANGED <<fds, fdHandlers, present, open, announced>>

\* loop_sig_handler blocks in read when there is no signal to read.
HandleSignal ==
  /\ Calls("loop_sig_handler")
  /\ fds[i].fd \in data
  /\ data' = data \ {fds[i].fd}
  /\ LoopReturn
  /\ UNCHANGED <<fds, fdHandlers, present, open, announced>>

HandleUdevOnlyFirst ==       \* variant: the rest of the announcements is dropped
  /\ Calls("udev_handle")
  /\ \/ announced = <<>> /\ UNCHANGED <<fds, fdHandlers, open, announced>>
     \/ announced # <<>> /\ announced' = <<>> /\ CreateDevice(Head(announced))
  /\ LoopOk
  /\ UNCHANGED <<present, data>>

HandleUdev ==
  /\ Calls("udev_handle")
  /\ \/ announced = <<>> /\ UNCHANGED <<fds, fdHandlers, open, announced>>
     \/ announced # <<>> /\ announced' = Tail(announced) /\ CreateDevice(Head(announced))
  /\ LoopOk
  /\ UNCHANGED <<present, data>>

\* evdev_handle: events are read until there are none; the quit combination
\* leaves the loop, a read error the process.
HandleDevice ==
  LET d == fds[i].fd IN
  /\ Calls("evdev_handle")
  /\ d \notin open \ present
  /\ data' = data \ {d}
  /\ \/ LoopOk
     \/ d \in data /\ LoopReturn
     \/ d \in data /\ pc' = "exited" /\ UNCHANGED i
  /\ UNCHANGED <<fds, fdHandlers, present, open, announced>>

\* evdev_handle of a device that has been unplugged: what is left is read, then
\* -ENODEV: evdev_remove.
HandleUnplugged ==
  LET d == fds[i].fd IN
  /\ Calls("evdev_handle")
  /\ d \in open \ present
  /\ data' = data \ {d}
  /\ \/ RemoveFd(d) /\ open' = open \ {d} /\ LoopOk
     \/ d \in data /\ LoopReturn /\ UNCHANGED <<fds, fdHandlers, open>>
  /\ UNCHANGED <<present, announced>>

\* x11_handler and frame_handle; closing the window leaves the loop.
HandleWindow ==
  /\ Calls("window_handler")
  /\ data' = data \ {fds[i].fd}
  /\ LoopOk \/ (fds[i].fd \in data /\ LoopReturn)
  /\ UNCHANGED <<fds, fdHandlers, present, open, announced>>

-----------------------------------------------------------------------------

Setup ==
  \/ ScanDevices
  \/ Enumerate
  \/ EnableMonitor
  \/ LoopInit
  \/ \E w \in Windows : AddWindow(w)
  \/ StartLoop

Handle == HandleSignal \/ HandleUdev \/ HandleDevice \/ HandleUnplugged \/ HandleWindow

MainLoop == Poll \/ Skip \/ Handle \/ ScanEnd

World ==
  \/ \E d \in Devices : Plug(d) \/ Unplug(d)
  \/ \E s \in Sources : Happens(s)

Next == Setup \/ MainLoop \/ World

Spec == Init /\ [][Next]_vars

\* The main thread runs whenever it can; the world owes nothing.
FairSpec == Spec /\ WF_vars(Setup) /\ WF_vars(MainLoop)

-----------------------------------------------------------------------------
(* Properties.                                                             *)

\* What source s has to deliver: additions to hand over, or data and a hang-up.
Work(s) ==
  IF s = Udev
    THEN IF Udev \in Watched THEN Len(announced) ELSE 0
    ELSE Cardinality({s} \cap data) + Cardinality({s} \cap (open \ present))

Promise == INSTANCE WatchSet WITH
  MaxWork <- Cardinality(Devices) + 1,
  watched <- Watched,
  work <- [s \in Sources |-> Work(s)],
  running <- pc \notin {"returned", "exited"}

\* The array with its swaps behaves as a set of watched sources: no handler but
\* that of a source with work changes anything, and no source that has work is
\* passed over for ever, although an entry moved below the scan's index is
\* skipped in that round (loop_remove_fd).
ServesEverySource == Promise!WatchSpec

\* The variables have their types, and the array holds one entry for every open
\* source, with that source's handler, after any sequence of additions and removals.
ArrayMatchesSources ==
  /\ TypeOK
  /\ Watched \cap Devices = open
  /\ \A k, n \in DOMAIN fds : fds[k].fd = fds[n].fd => k = n
  /\ \A k \in DOMAIN fds : fdHandlers[k] = HandlerOf(fds[k].fd)

\* The signal handler, whose read blocks, is only called when there is a signal
\* to read, though revents of a new entry is garbage and entries move.
NeverBlocksOnSignal ==
  Calls("loop_sig_handler") => Sig \in data

\* A signal (the end of the connection is one) ends the loop in the end, however
\* devices come and go meanwhile.
SignalEndsLoop == Sig \in data ~> pc \in {"returned", "exited"}

\* A device that udev has announced and that stays plugged in is opened, also
\* when several are announced while the array is scanned ("By default all
\* available input devices are enabled", README.pod:170).
AnnouncedDevicesEnabled ==
  \A d \in Devices :
    d \in Range(announced) ~> (d \in open \/ d \notin present \/ pc \in {"returned", "exited"})
=============================================================================
