------------------------------ MODULE G2dDevice ------------------------------
(***************************************************************************)
(* The G2D kernel module (src/kernel/g2d/g2d_h616.c): /dev/g2d, whose      *)
(* ioctl imports two dma-bufs and releases them again, and the device's    *)
(* probe and removal.  Several processes use the device at once; any call  *)
(* into the rest of the kernel may fail.                                   *)
(*                                                                         *)
(* The block is never started yet ("for now G2D_IOC_BLT only imports and   *)
(* validates the buffers"), so it raises no interrupt.                     *)
(***************************************************************************)
EXTENDS Integers, FiniteSets

CONSTANTS
  Callers,      \* the files that may be open, each used by one thread
  Nobody,
  Buffers,      \* the dma-bufs there are
  Contiguous,   \* those of one physical span
  NotADmaBuf    \* a descriptor of anything else

ASSUME G2dAssumption ==
  /\ Nobody \notin Callers /\ IsFiniteSet(Callers)
  /\ Contiguous \subseteq Buffers
  /\ NotADmaBuf \notin Buffers

VARIABLES
  dev,         \* the platform device: where g2d_probe or g2d_remove is
  enabled,     \* how often the driver has each clock enabled
  open_count,
  lock,        \* the holder of g->lock
  pc,          \* where each caller is
  req,         \* the buffers of its request
  which,       \* the import it is at
  imp,         \* its two struct g2d_import: the fields that are set
  held         \* references, attachments and mappings of each buffer

deviceVars == <<dev, enabled>>
callVars == <<pc, req, which, imp, held>>
vars == <<deviceVars, open_count, lock, callVars>>

Clocks == {"bus", "g2d"}
Fields == {"dmabuf", "attach", "sgt"}
Nothing == [f \in Fields |-> 0]

\* misc_register publishes the device, misc_deregister withdraws it.
Published == dev = "bound"

\* The places of g2d_ioctl_blt and g2d_import at which g->lock is held.
Importing == {"get", "attach", "map", "span", "err_unmap", "err_detach", "err_put"}
Locked == Importing \cup {"out_dst", "out_src", "out_unlock"}

TypeOK ==
  /\ dev \in {"unbound", "bus", "g2d", "irq", "init", "register", "err_clk",
              "bound", "gate", "disable"}
  /\ enabled \in [Clocks -> Nat]
  /\ open_count \in Nat
  /\ lock \in Callers \cup {Nobody}
  /\ pc \in [Callers -> {"closed", "opening", "idle", "ping", "lock", "closing"} \cup Locked]
  /\ req \in [Callers -> [{"src", "dst"} -> Buffers \cup {NotADmaBuf}]]
  /\ which \in [Callers -> {"src", "dst"}]
  /\ imp \in [Callers -> [{"src", "dst"} -> SUBSET Fields]]
  /\ held \in [Buffers -> [Fields -> Nat]]

Init ==
  /\ dev = "unbound" /\ enabled = [clk \in Clocks |-> 0]
  /\ open_count = 0 /\ lock = Nobody
  /\ pc = [c \in Callers |-> "closed"]
  /\ req = [c \in Callers |-> [w \in {"src", "dst"} |-> NotADmaBuf]]
  /\ which = [c \in Callers |-> "src"]
  /\ imp = [c \in Callers |-> [w \in {"src", "dst"} |-> {}]]
  /\ held = [b \in Buffers |-> Nothing]

-----------------------------------------------------------------------------
(* g2d_probe.                                                              *)

fileVars == <<open_count, lock, callVars>>

\* Memory, registers and clocks are found, or the kernel frees what there is.
FindResources ==
  /\ dev = "unbound"
  /\ dev' = "bus"
  /\ UNCHANGED <<enabled, fileVars>>

EnableBusClock ==
  /\ dev = "bus"
  /\ \/ dev' = "g2d" /\ enabled' = [enabled EXCEPT !["bus"] = @ + 1]
     \/ dev' = "unbound" /\ UNCHANGED enabled
  /\ UNCHANGED fileVars

EnableClockKeepsBus == \* variant: the bus clock stays on
  /\ dev = "g2d"
  /\ \/ dev' = "irq" /\ enabled' = [enabled EXCEPT !["g2d"] = @ + 1]
     \/ dev' = "unbound" /\ UNCHANGED enabled
  /\ UNCHANGED fileVars

EnableClock ==
  /\ dev = "g2d"
  /\ \/ dev' = "irq" /\ enabled' = [enabled EXCEPT !["g2d"] = @ + 1]
     \/ dev' = "unbound" /\ enabled' = [enabled EXCEPT !["bus"] = @ - 1]
  /\ UNCHANGED fileVars

RequestIrq ==
  /\ dev = "irq"
  /\ dev' \in {"init", "err_clk"}
  /\ UNCHANGED <<enabled, fileVars>>

\* The reset is deasserted where the registers of the CCU can be mapped, and
\* g2d_hw_init writes to the block.
HwInit ==
  /\ dev = "init"
  /\ dev' = "register"
  /\ UNCHANGED <<enabled, fileVars>>

RegisterMisc ==
  /\ dev = "register"
  /\ dev' \in {"bound", "err_clk"}
  /\ UNCHANGED <<enabled, fileVars>>

\* The label err_clk of g2d_probe, and the end of g2d_remove.
DisableClocks ==
  /\ dev \in {"err_clk", "disable"}
  /\ dev' = "unbound"
  /\ enabled' = [clk \in Clocks |-> enabled[clk] - 1]
  /\ UNCHANGED fileVars

-----------------------------------------------------------------------------
(* g2d_remove.  rmmod waits until no file is open (.owner), and unbinding  *)
(* is suppressed.                                                          *)

Remove ==
  /\ dev = "bound"
  /\ \A c \in Callers : pc[c] = "closed"
  /\ dev' = "gate"
  /\ UNCHANGED <<enabled, fileVars>>

\* The writes to the block's gates and reset.
CloseGates ==
  /\ dev = "gate"
  /\ dev' = "disable"
  /\ UNCHANGED <<enabled, fileVars>>

-----------------------------------------------------------------------------
(* Files.  The kernel takes a reference to the module before g2d_open and  *)
(* drops it after g2d_release.                                             *)

Goto(c, place) == pc' = [pc EXCEPT ![c] = place]

bufferVars == <<req, which, imp, held>>

OpenFile(c) ==
  /\ Published /\ pc[c] = "closed"
  /\ Goto(c, "opening")
  /\ UNCHANGED <<deviceVars, open_count, lock, bufferVars>>

g2d_open(c) ==
  /\ pc[c] = "opening" /\ lock = Nobody
  /\ open_count' = open_count + 1
  /\ Goto(c, "idle")
  /\ UNCHANGED <<deviceVars, lock, bufferVars>>

CloseFile(c) ==
  /\ pc[c] = "idle"
  /\ Goto(c, "closing")
  /\ UNCHANGED <<deviceVars, open_count, lock, bufferVars>>

g2d_release(c) ==
  /\ pc[c] = "closing" /\ lock = Nobody
  /\ open_count' = open_count - 1
  /\ Goto(c, "closed")
  /\ UNCHANGED <<deviceVars, lock, bufferVars>>

\* G2D_IOC_PING reads a register, without the lock.
Ping(c) ==
  /\ \/ pc[c] = "idle" /\ Goto(c, "ping")
     \/ pc[c] = "ping" /\ Goto(c, "idle")
  /\ UNCHANGED <<deviceVars, open_count, lock, bufferVars>>

-----------------------------------------------------------------------------
(* g2d_ioctl_blt.                                                          *)

ioctlUnchanged == UNCHANGED <<deviceVars, open_count>>

\* A request that passes the checks of sizes, formats and descriptors.
Blt(c) ==
  /\ pc[c] = "idle"
  /\ \E r \in [{"src", "dst"} -> Buffers \cup {NotADmaBuf}] : req' = [req EXCEPT ![c] = r]
  /\ Goto(c, "lock")
  /\ ioctlUnchanged /\ UNCHANGED <<lock, which, imp, held>>

MutexLock(c) ==
  /\ pc[c] = "lock" /\ lock = Nobody
  /\ lock' = c
  /\ which' = [which EXCEPT ![c] = "src"]
  /\ Goto(c, "get")
  /\ ioctlUnchanged /\ UNCHANGED <<req, imp, held>>

Buffer(c) == req[c][which[c]]

\* A step of g2d_import that sets field f, and one that undoes it.
Acquire(c, f) ==
  /\ imp' = [imp EXCEPT ![c][which[c]] = @ \cup {f}]
  /\ held' = [held EXCEPT ![Buffer(c)][f] = @ + 1]

Undo(c, f) ==
  /\ imp' = [imp EXCEPT ![c][which[c]] = @ \ {f}]
  /\ held' = [held EXCEPT ![Buffer(c)][f] = @ - 1]

AfterFailure(c) == Goto(c, IF which[c] = "src" THEN "out_unlock" ELSE "out_src")

dma_buf_get(c) ==
  /\ pc[c] = "get"
  /\ \/ Buffer(c) \in Buffers /\ Acquire(c, "dmabuf") /\ Goto(c, "attach")
     \/ AfterFailure(c) /\ UNCHANGED <<imp, held>>
  /\ ioctlUnchanged /\ UNCHANGED <<lock, req, which>>

dma_buf_attach(c) ==
  /\ pc[c] = "attach"
  /\ \/ Acquire(c, "attach") /\ Goto(c, "map")
     \/ Goto(c, "err_put") /\ UNCHANGED <<imp, held>>
  /\ ioctlUnchanged /\ UNCHANGED <<lock, req, which>>

MapFailurePuts(c) == \* variant: the wrong label
  /\ pc[c] = "map"
  /\ \/ Acquire(c, "sgt") /\ Goto(c, "span")
     \/ Goto(c, "err_put") /\ UNCHANGED <<imp, held>>
  /\ ioctlUnchanged /\ UNCHANGED <<lock, req, which>>

dma_buf_map_attachment(c) ==
  /\ pc[c] = "map"
  /\ \/ Acquire(c, "sgt") /\ Goto(c, "span")
     \/ Goto(c, "err_detach") /\ UNCHANGED <<imp, held>>
  /\ ioctlUnchanged /\ UNCHANGED <<lock, req, which>>

\* The buffer must be one span; the destination follows the source.
CheckSpan(c) ==
  /\ pc[c] = "span"
  /\ IF Buffer(c) \notin Contiguous
       THEN Goto(c, "err_unmap") /\ UNCHANGED which
       ELSE IF which[c] = "src"
              THEN Goto(c, "get") /\ which' = [which EXCEPT ![c] = "dst"]
              ELSE Goto(c, "out_dst") /\ UNCHANGED which
  /\ ioctlUnchanged /\ UNCHANGED <<lock, req, imp, held>>

\* The labels of g2d_import, one falling through to the next.
Unwind(c) ==
  /\ \/ pc[c] = "err_unmap" /\ Undo(c, "sgt") /\ Goto(c, "err_detach")
     \/ pc[c] = "err_detach" /\ Undo(c, "attach") /\ Goto(c, "err_put")
     \/ pc[c] = "err_put" /\ Undo(c, "dmabuf") /\ AfterFailure(c)
  /\ ioctlUnchanged /\ UNCHANGED <<lock, req, which>>

\* g2d_release_import, for import w.
ReleaseImport(c, w) ==
  /\ imp' = [imp EXCEPT ![c][w] = {}]
  /\ held' = [b \in Buffers |-> [f \in Fields |->
       IF b = req[c][w] /\ f \in imp[c][w] THEN held[b][f] - 1 ELSE held[b][f]]]

ReleaseImports(c) ==
  /\ \/ pc[c] = "out_dst" /\ ReleaseImport(c, "dst") /\ Goto(c, "out_src")
     \/ pc[c] = "out_src" /\ ReleaseImport(c, "src") /\ Goto(c, "out_unlock")
  /\ ioctlUnchanged /\ UNCHANGED <<lock, req, which>>

MutexUnlock(c) ==
  /\ pc[c] = "out_unlock"
  /\ lock' = Nobody
  /\ Goto(c, "idle")
  /\ ioctlUnchanged /\ UNCHANGED bufferVars

-----------------------------------------------------------------------------

Probe ==
  FindResources \/ EnableBusClock \/ EnableClock \/ RequestIrq \/ HwInit \/ RegisterMisc

File(c) == OpenFile(c) \/ g2d_open(c) \/ CloseFile(c) \/ g2d_release(c) \/ Ping(c)

Ioctl(c) ==
  \/ Blt(c) \/ MutexLock(c)
  \/ dma_buf_get(c) \/ dma_buf_attach(c) \/ dma_buf_map_attachment(c) \/ CheckSpan(c)
  \/ Unwind(c) \/ ReleaseImports(c) \/ MutexUnlock(c)

Next ==
  \/ Probe \/ Remove \/ CloseGates \/ DisableClocks
  \/ \E c \in Callers : File(c) \/ Ioctl(c)

Spec == Init /\ [][Next]_vars

-----------------------------------------------------------------------------
(* Properties.                                                             *)

\* Whichever call fails for whichever of the two buffers, also when both are the
\* same one: a mapping never outlives its attachment, nor that the reference it
\* was made with, and a request that is over leaves nothing behind.
NothingLeaks ==
  /\ TypeOK
  /\ \A b \in Buffers : held[b]["sgt"] <= held[b]["attach"] /\ held[b]["attach"] <= held[b]["dmabuf"]
  /\ lock = Nobody => \A b \in Buffers : held[b] = Nothing

\* The block's registers are read and written.
Touched == dev \in {"init", "gate"} \/ \E c \in Callers : pc[c] = "ping"

\* No register is touched with a clock off, no clock is left on by a probe that
\* failed or a module that is gone, and the WARN_ON of g2d_remove never fires
\* ("an open fd here would be a driver bug").
ClocksFollowDevice ==
  /\ Touched => \A clk \in Clocks : enabled[clk] = 1
  /\ dev = "unbound" => \A clk \in Clocks : enabled[clk] = 0
  /\ dev = "gate" => open_count = 0
=============================================================================
