------------------------------ MODULE G2dProofs ------------------------------
(***************************************************************************)
(* What G2dDevice guarantees for any number of files and buffers.          *)
(***************************************************************************)
EXTENDS G2dDevice, FiniteSetTheorems, TLAPS

\* The fields of a struct g2d_import at each place of g2d_import.
Stage(place) ==
  CASE place \in {"attach", "err_put"}    -> {"dmabuf"}
    [] place \in {"map", "err_detach"}    -> {"dmabuf", "attach"}
    [] place \in {"span", "err_unmap"}    -> Fields
    [] OTHER                              -> {}

\* What caller c has of its source and of its destination.
Got(c, w) ==
  IF pc[c] \notin Locked \/ pc[c] = "out_unlock" \/ (w = "dst" /\ which[c] = "src") THEN {}
  ELSE IF pc[c] = "out_dst" \/ (w = "src" /\ which[c] = "dst") THEN Fields
  ELSE Stage(pc[c])

Has(c, w, b, f) == IF req[c][w] = b /\ f \in imp[c][w] THEN 1 ELSE 0

\* The inductive form of NothingLeaks: the place of a caller says which fields of
\* its imports are set, and what the kernel counts are the fields that the holder
\* of the lock has set.
LockInv == \A c \in Callers : pc[c] \in Locked <=> lock = c

ImportInv ==
  \A c \in Callers :
    /\ \A w \in {"src", "dst"} : /\ imp[c][w] = Got(c, w)
                                 /\ imp[c][w] # {} => req[c][w] \in Buffers
    /\ pc[c] \in {"out_dst", "out_src"} => which[c] = "dst"

HeldInv ==
  \A b \in Buffers, f \in Fields :
    held[b][f] = IF lock = Nobody THEN 0 ELSE Has(lock, "src", b, f) + Has(lock, "dst", b, f)

\* The inductive form of ClocksFollowDevice.
On(clk) == {"irq", "init", "register", "err_clk", "bound", "gate", "disable"}
             \cup (IF clk = "bus" THEN {"g2d"} ELSE {})

Opened == {c \in Callers : pc[c] \notin {"closed", "opening"}}

DeviceInv ==
  /\ enabled = [clk \in Clocks |-> IF dev \in On(clk) THEN 1 ELSE 0]
  /\ dev # "bound" => \A c \in Callers : pc[c] = "closed"
  /\ open_count = Cardinality(Opened)

Inv == TypeOK /\ LockInv /\ ImportInv /\ HeldInv /\ DeviceInv

LEMMA InvInit == Init => Inv
<1> SUFFICES ASSUME Init PROVE Inv
  OBVIOUS
<1>1. TypeOK
  BY DEF Init, TypeOK, Clocks, Fields, Nothing
<1>2. LockInv
  BY G2dAssumption DEF Init, LockInv, Locked, Importing
<1>3. ImportInv
  BY DEF Init, ImportInv, Got, Locked, Importing
<1>4. HeldInv
  BY DEF Init, HeldInv, Nothing
<1>5. Opened = {}
  BY DEF Init, Opened
<1>6. DeviceInv
  BY <1>5, FS_EmptySet DEF Init, DeviceInv, On, Clocks
<1> QED BY <1>1, <1>2, <1>3, <1>4, <1>6 DEF Inv

\* A request that is over leaves nothing, one that is not holds a prefix.
LEMMA InvImpliesNothingLeaks == Inv => NothingLeaks
<1> SUFFICES ASSUME Inv PROVE NothingLeaks
  OBVIOUS
<1>1. ASSUME NEW b \in Buffers
      PROVE  held[b]["sgt"] <= held[b]["attach"] /\ held[b]["attach"] <= held[b]["dmabuf"]
  <2>1. CASE lock = Nobody
    BY <2>1 DEF Inv, HeldInv, Fields
  <2>2. CASE lock # Nobody
    <3>1. lock \in Callers
      BY <2>2 DEF Inv, TypeOK
    <3>2. \A w \in {"src", "dst"} :
            /\ "sgt" \in imp[lock][w] => "attach" \in imp[lock][w]
            /\ "attach" \in imp[lock][w] => "dmabuf" \in imp[lock][w]
      BY <3>1 DEF Inv, ImportInv, Got, Stage, Fields
    <3>3. \A w \in {"src", "dst"} :
            /\ Has(lock, w, b, "sgt") <= Has(lock, w, b, "attach")
            /\ Has(lock, w, b, "attach") <= Has(lock, w, b, "dmabuf")
            /\ \A f \in Fields : Has(lock, w, b, f) \in {0, 1}
      BY <3>2 DEF Has
    <3>4. \A f \in Fields : held[b][f] = Has(lock, "src", b, f) + Has(lock, "dst", b, f)
      BY <2>2 DEF Inv, HeldInv
    <3> QED BY <3>3, <3>4 DEF Fields
  <2> QED BY <2>1, <2>2
<1>2. ASSUME lock = Nobody, NEW b \in Buffers PROVE held[b] = Nothing
  <2>1. \A f \in Fields : held[b][f] = 0
    BY <1>2 DEF Inv, HeldInv
  <2> QED BY <2>1 DEF Inv, TypeOK, Nothing
<1> QED BY <1>1, <1>2 DEF NothingLeaks, Inv

\* Registers are touched where both clocks are on.
LEMMA InvImpliesClocks == Inv => ClocksFollowDevice
<1> SUFFICES ASSUME Inv PROVE ClocksFollowDevice
  OBVIOUS
<1>1. ASSUME Touched PROVE dev \in {"init", "gate", "bound"}
  BY <1>1 DEF Inv, DeviceInv, Touched
<1>2. ASSUME Touched, NEW clk \in Clocks PROVE enabled[clk] = 1
  BY <1>1, <1>2 DEF Inv, DeviceInv, On
<1>3. dev = "unbound" => \A clk \in Clocks : enabled[clk] = 0
  BY DEF Inv, DeviceInv, On
<1>4. ASSUME dev = "gate" PROVE open_count = 0
  <2>1. Opened = {}
    BY <1>4 DEF Inv, DeviceInv, Opened
  <2> QED BY <2>1, FS_EmptySet DEF Inv, DeviceInv
<1> QED BY <1>2, <1>3, <1>4 DEF ClocksFollowDevice

-----------------------------------------------------------------------------
(* The device: no file is open while it comes and goes.                    *)

DeviceStep == Probe \/ Remove \/ CloseGates \/ DisableClocks

LEMMA DevicePreserves == Inv /\ DeviceStep => Inv'
<1> SUFFICES ASSUME Inv, DeviceStep PROVE Inv'
  OBVIOUS
<1>1. UNCHANGED <<open_count, lock, pc, req, which, imp, held>>
  BY DEF DeviceStep, Probe, FindResources, EnableBusClock, EnableClock, RequestIrq, HwInit,
     RegisterMisc, Remove, CloseGates, DisableClocks, fileVars, callVars
<1>2. dev' \in {"unbound", "bus", "g2d", "irq", "init", "register", "err_clk",
                "bound", "gate", "disable"}
  BY DEF DeviceStep, Probe, FindResources, EnableBusClock, EnableClock, RequestIrq, HwInit,
     RegisterMisc, Remove, CloseGates, DisableClocks
<1>3. enabled' = [clk \in Clocks |-> IF dev' \in On(clk) THEN 1 ELSE 0]
  BY DEF Inv, DeviceInv, DeviceStep, Probe, FindResources, EnableBusClock, EnableClock, RequestIrq,
     HwInit, RegisterMisc, Remove, CloseGates, DisableClocks, On, Clocks
<1>4. enabled' \in [Clocks -> Nat]
  BY <1>3
<1>5. dev' # "bound" => \A c \in Callers : pc[c] = "closed"
  BY DEF Inv, DeviceInv, DeviceStep, Probe, FindResources, EnableBusClock, EnableClock, RequestIrq,
     HwInit, RegisterMisc, Remove, CloseGates, DisableClocks
<1>6. TypeOK'
  BY <1>1, <1>2, <1>4 DEF Inv, TypeOK
<1>7. LockInv' /\ ImportInv' /\ HeldInv'
  BY <1>1 DEF Inv, LockInv, ImportInv, HeldInv, Got, Has
<1>8. DeviceInv'
  BY <1>1, <1>3, <1>5 DEF Inv, DeviceInv, Opened
<1> QED BY <1>6, <1>7, <1>8 DEF Inv

-----------------------------------------------------------------------------
(* Files: opening and closing one changes no import.                       *)

\* A caller outside of the locked region moves to another place outside of it.
Outside == {"closed", "opening", "idle", "ping", "lock", "closing"}

LEMMA MoveOutside ==
  ASSUME Inv, NEW c \in Callers, NEW place \in Outside, pc[c] \in Outside, Goto(c, place),
         UNCHANGED <<lock, which, imp, held>>,
         \A d \in Callers : d # c => req'[d] = req[d],
         lock # c
  PROVE  LockInv' /\ ImportInv' /\ HeldInv'
<1>1. \A d \in Callers : pc'[d] = IF d = c THEN place ELSE pc[d]
  BY DEF Goto, Inv, TypeOK
<1>2. \A d \in Callers : (pc'[d] \in Locked <=> pc[d] \in Locked) /\ (d # c => pc'[d] = pc[d])
  BY <1>1 DEF Outside, Locked, Importing
<1>3. LockInv'
  BY <1>2 DEF Inv, LockInv
<1>4. pc[c] \notin Locked /\ pc'[c] \notin Locked /\ pc'[c] \notin {"out_dst", "out_src"}
  BY <1>1 DEF Outside, Locked, Importing
<1>5. \A w \in {"src", "dst"} : imp[c][w] = {} /\ Got(c, w)' = {}
  BY <1>4 DEF Inv, ImportInv, Got
<1>6. ImportInv'
  <2> SUFFICES ASSUME NEW d \in Callers
               PROVE  /\ \A w \in {"src", "dst"} : /\ imp'[d][w] = Got(d, w)'
                                                   /\ imp'[d][w] # {} => req'[d][w] \in Buffers
                      /\ pc'[d] \in {"out_dst", "out_src"} => which'[d] = "dst"
    BY DEF ImportInv
  <2>1. CASE d = c
    BY <1>4, <1>5, <2>1
  <2>2. CASE d # c
    BY <1>2, <2>2 DEF Inv, ImportInv, Got
  <2> QED BY <2>1, <2>2
<1>7. HeldInv'
  <2>1. lock = Nobody \/ (lock \in Callers /\ req'[lock] = req[lock])
    BY DEF Inv, TypeOK
  <2> QED BY <2>1 DEF Inv, HeldInv, Has
<1> QED BY <1>3, <1>6, <1>7

\* Only a caller that has or had the file open in g2d_open changes the count.
LEMMA OpenedMoves ==
  ASSUME Inv, NEW c \in Callers, NEW place, Goto(c, place), place \in Outside \cup Locked
  PROVE  /\ IsFiniteSet(Opened)
         /\ Opened' = IF place \in {"closed", "opening"} THEN Opened \ {c} ELSE Opened \cup {c}
<1>1. \A d \in Callers : pc'[d] = IF d = c THEN place ELSE pc[d]
  BY DEF Goto, Inv, TypeOK
<1>2. Opened' = IF place \in {"closed", "opening"} THEN Opened \ {c} ELSE Opened \cup {c}
  BY <1>1 DEF Opened
<1>3. IsFiniteSet(Opened)
  BY G2dAssumption, FS_Subset DEF Opened
<1> QED BY <1>2, <1>3

LEMMA FilePreserves == ASSUME Inv, NEW c \in Callers, File(c) PROVE Inv'
<1>1. PICK place \in Outside : Goto(c, place)
  BY DEF File, OpenFile, g2d_open, CloseFile, g2d_release, Ping, Outside
<1>2. UNCHANGED <<dev, enabled, lock, req, which, imp, held>>
  BY DEF File, OpenFile, g2d_open, CloseFile, g2d_release, Ping, deviceVars, bufferVars
<1>3. pc[c] \in Outside
  BY DEF File, OpenFile, g2d_open, CloseFile, g2d_release, Ping, Outside
<1>4. lock # c
  BY <1>3 DEF Inv, LockInv, Outside, Locked, Importing
<1>5. LockInv' /\ ImportInv' /\ HeldInv'
  BY <1>1, <1>2, <1>3, <1>4, MoveOutside
<1>6. open_count' \in Nat /\ open_count' = Cardinality(Opened')
  <2>1. open_count = Cardinality(Opened) /\ IsFiniteSet(Opened) /\ open_count \in Nat
    BY <1>1, OpenedMoves DEF Inv, DeviceInv, TypeOK
  <2>2. CASE OpenFile(c)
    <3>1. Goto(c, "opening") /\ open_count' = open_count /\ pc[c] = "closed"
      BY <2>2 DEF OpenFile
    <3>2. Opened' = Opened \ {c} /\ c \notin Opened
      BY <3>1, OpenedMoves DEF Outside, Opened
    <3> QED BY <2>1, <3>1, <3>2
  <2>3. CASE g2d_open(c)
    <3>1. Goto(c, "idle") /\ open_count' = open_count + 1 /\ pc[c] = "opening"
      BY <2>3 DEF g2d_open
    <3>2. Opened' = Opened \cup {c} /\ c \notin Opened
      BY <3>1, OpenedMoves DEF Outside, Opened
    <3> QED BY <2>1, <3>1, <3>2, FS_AddElement
  <2>4. CASE g2d_release(c)
    <3>1. Goto(c, "closed") /\ open_count' = open_count - 1 /\ pc[c] = "closing"
      BY <2>4 DEF g2d_release
    <3>2. Opened' = Opened \ {c} /\ c \in Opened
      BY <3>1, OpenedMoves DEF Outside, Opened
    <3>3. Cardinality(Opened') = Cardinality(Opened) - 1
      BY <2>1, <3>2, FS_RemoveElement
    <3>4. IsFiniteSet(Opened')
      BY <2>1, <3>2, FS_RemoveElement
    <3>5. Cardinality(Opened') \in Nat
      BY <3>4, FS_CardinalityType
    <3> QED BY <2>1, <3>1, <3>3, <3>5
  <2>5. CASE CloseFile(c) \/ Ping(c)
    <3>1. PICK q \in {"closing", "ping", "idle"} : Goto(c, q)
      BY <2>5 DEF CloseFile, Ping
    <3>2. open_count' = open_count /\ c \in Opened
      BY <2>5 DEF CloseFile, Ping, Opened
    <3>3. Opened' = Opened
      BY <3>1, <3>2, OpenedMoves DEF Outside
    <3> QED BY <2>1, <3>2, <3>3
  <2> QED BY <2>2, <2>3, <2>4, <2>5 DEF File
<1>7. TypeOK'
  BY <1>1, <1>2, <1>6 DEF Inv, TypeOK, Goto, Outside
<1>8. dev # "bound" => \A d \in Callers : pc'[d] = "closed"
  BY DEF Inv, DeviceInv, File, OpenFile, g2d_open, CloseFile, g2d_release, Ping, Published
<1>9. DeviceInv'
  BY <1>2, <1>6, <1>8 DEF Inv, DeviceInv
<1> QED BY <1>5, <1>7, <1>9 DEF Inv

-----------------------------------------------------------------------------
(* Requests.                                                               *)

\* A caller in the middle of a request keeps its file, and with it the device.
Busy == {"idle", "lock"} \cup Locked

LEMMA RequestKeepsDevice ==
  ASSUME Inv, NEW c \in Callers, NEW place \in Busy, pc[c] \in Busy, Goto(c, place),
         UNCHANGED <<deviceVars, open_count>>
  PROVE  DeviceInv'
<1>1. pc[c] \notin {"closed", "opening"} /\ place \notin {"closed", "opening"}
  BY DEF Busy, Locked, Importing
<1>2. c \in Opened /\ Opened' = Opened
  <2>1. place \in Outside \cup Locked
    BY DEF Busy, Outside
  <2> QED BY <1>1, <2>1, OpenedMoves DEF Opened
<1>3. dev = "bound"
  BY <1>1 DEF Inv, DeviceInv
<1> QED BY <1>2, <1>3 DEF Inv, DeviceInv, deviceVars

\* What one caller does to its own imports leaves those of the others as they are.
LEMMA OtherImports ==
  ASSUME Inv, NEW c \in Callers, NEW place \in Busy, Goto(c, place), req' = req,
         \A d \in Callers : d # c => imp'[d] = imp[d] /\ which'[d] = which[d],
         \A w \in {"src", "dst"} : /\ imp'[c][w] = Got(c, w)'
                                   /\ imp'[c][w] # {} => req[c][w] \in Buffers,
         place \in {"out_dst", "out_src"} => which'[c] = "dst"
  PROVE  ImportInv'
<1> SUFFICES ASSUME NEW d \in Callers
             PROVE  /\ \A w \in {"src", "dst"} : /\ imp'[d][w] = Got(d, w)'
                                                 /\ imp'[d][w] # {} => req'[d][w] \in Buffers
                    /\ pc'[d] \in {"out_dst", "out_src"} => which'[d] = "dst"
  BY DEF ImportInv
<1>1. pc'[d] = IF d = c THEN place ELSE pc[d]
  BY DEF Goto, Inv, TypeOK
<1>2. CASE d = c
  BY <1>1, <1>2
<1>3. CASE d # c
  BY <1>1, <1>3 DEF Inv, ImportInv, Got
<1> QED BY <1>2, <1>3

\* The holder of the lock keeps it while it is in the locked region.
LEMMA HolderStays ==
  ASSUME Inv, NEW c \in Callers, lock = c, lock' = lock, NEW place \in Locked, Goto(c, place)
  PROVE  LockInv'
BY DEF Inv, LockInv, TypeOK, Goto

\* The kernel's counts follow the fields of the holder of the lock.
LEMMA AcquireHeld ==
  ASSUME Inv, NEW c \in Callers, lock = c, lock' = lock, req' = req, NEW f \in Fields,
         Buffer(c) \in Buffers, f \notin imp[c][which[c]], Acquire(c, f)
  PROVE  HeldInv' /\ held' \in [Buffers -> [Fields -> Nat]]
                  /\ imp' \in [Callers -> [{"src", "dst"} -> SUBSET Fields]]
<1>1. lock # Nobody
  BY G2dAssumption
<1>2. \A b \in Buffers, g \in Fields :
        held'[b][g] = IF b = Buffer(c) /\ g = f THEN held[b][g] + 1 ELSE held[b][g]
  BY DEF Acquire, Inv, TypeOK
<1>3. \A w \in {"src", "dst"} :
        imp'[c][w] = IF w = which[c] THEN imp[c][w] \cup {f} ELSE imp[c][w]
  BY DEF Acquire, Inv, TypeOK
<1>4. ASSUME NEW b \in Buffers, NEW g \in Fields
      PROVE  held'[b][g] = Has(c, "src", b, g)' + Has(c, "dst", b, g)'
  <2>1. held[b][g] = Has(c, "src", b, g) + Has(c, "dst", b, g)
    BY <1>1 DEF Inv, HeldInv
  <2>2. which[c] \in {"src", "dst"} /\ Buffer(c) = req[c][which[c]]
    BY DEF Inv, TypeOK, Buffer
  <2> QED BY <1>2, <1>3, <2>1, <2>2 DEF Has
<1>5. HeldInv'
  BY <1>1, <1>4 DEF HeldInv
<1>6. held' \in [Buffers -> [Fields -> Nat]] /\ imp' \in [Callers -> [{"src", "dst"} -> SUBSET Fields]]
  BY DEF Acquire, Inv, TypeOK
<1> QED BY <1>5, <1>6

LEMMA UndoHeld ==
  ASSUME Inv, NEW c \in Callers, lock = c, lock' = lock, req' = req, NEW f \in Fields,
         f \in imp[c][which[c]], Undo(c, f)
  PROVE  HeldInv' /\ held' \in [Buffers -> [Fields -> Nat]]
                  /\ imp' \in [Callers -> [{"src", "dst"} -> SUBSET Fields]]
<1>1. lock # Nobody
  BY G2dAssumption
<1>2. Buffer(c) \in Buffers /\ which[c] \in {"src", "dst"} /\ Buffer(c) = req[c][which[c]]
  BY DEF Inv, ImportInv, TypeOK, Buffer
<1>3. \A b \in Buffers, g \in Fields :
        held'[b][g] = IF b = Buffer(c) /\ g = f THEN held[b][g] - 1 ELSE held[b][g]
  BY <1>2 DEF Undo, Inv, TypeOK
<1>4. \A w \in {"src", "dst"} :
        imp'[c][w] = IF w = which[c] THEN imp[c][w] \ {f} ELSE imp[c][w]
  BY DEF Undo, Inv, TypeOK
<1>5. ASSUME NEW b \in Buffers, NEW g \in Fields
      PROVE  held'[b][g] = Has(c, "src", b, g)' + Has(c, "dst", b, g)'
  <2>1. held[b][g] = Has(c, "src", b, g) + Has(c, "dst", b, g)
    BY <1>1 DEF Inv, HeldInv
  <2> QED BY <1>2, <1>3, <1>4, <2>1 DEF Has
<1>6. HeldInv'
  BY <1>1, <1>5 DEF HeldInv
<1>7. imp' \in [Callers -> [{"src", "dst"} -> SUBSET Fields]]
  BY DEF Undo, Inv, TypeOK
<1>8. held' \in [Buffers -> [Fields -> Nat]]
  <2>1. \A b \in Buffers, g \in Fields : held'[b][g] \in Nat
    BY <1>5 DEF Has
  <2>2. held' = [b \in Buffers |-> [g \in Fields |-> held'[b][g]]]
    BY DEF Undo, Inv, TypeOK
  <2> QED BY <2>1, <2>2
<1> QED BY <1>6, <1>7, <1>8

LEMMA ReleaseHeld ==
  ASSUME Inv, NEW c \in Callers, lock = c, lock' = lock, req' = req, NEW w \in {"src", "dst"},
         ReleaseImport(c, w)
  PROVE  HeldInv' /\ held' \in [Buffers -> [Fields -> Nat]]
                  /\ imp' \in [Callers -> [{"src", "dst"} -> SUBSET Fields]]
<1>1. lock # Nobody
  BY G2dAssumption
<1>2. \A b \in Buffers, g \in Fields :
        held'[b][g] = IF b = req[c][w] /\ g \in imp[c][w] THEN held[b][g] - 1 ELSE held[b][g]
  BY DEF ReleaseImport
<1>3. \A v \in {"src", "dst"} : imp'[c][v] = IF v = w THEN {} ELSE imp[c][v]
  BY DEF ReleaseImport, Inv, TypeOK
<1>4. ASSUME NEW b \in Buffers, NEW g \in Fields
      PROVE  held'[b][g] = Has(c, "src", b, g)' + Has(c, "dst", b, g)'
  <2>1. held[b][g] = Has(c, "src", b, g) + Has(c, "dst", b, g)
    BY <1>1 DEF Inv, HeldInv
  <2> QED BY <1>2, <1>3, <2>1 DEF Has
<1>5. HeldInv'
  BY <1>1, <1>4 DEF HeldInv
<1>6. imp' \in [Callers -> [{"src", "dst"} -> SUBSET Fields]]
  BY DEF ReleaseImport, Inv, TypeOK
<1>7. held' \in [Buffers -> [Fields -> Nat]]
  <2>1. \A b \in Buffers, g \in Fields : held'[b][g] \in Nat
    BY <1>4 DEF Has
  <2>2. held' = [b \in Buffers |-> [g \in Fields |-> held'[b][g]]]
    BY DEF ReleaseImport
  <2> QED BY <2>1, <2>2
<1> QED BY <1>5, <1>6, <1>7

\* A step of the holder: everything but what it does to its imports.
LEMMA HolderStep ==
  ASSUME Inv, NEW c \in Callers, NEW place \in Locked, pc[c] \in Locked, Goto(c, place),
         UNCHANGED <<deviceVars, open_count, lock, req>>,
         which' \in [Callers -> {"src", "dst"}],
         imp' \in [Callers -> [{"src", "dst"} -> SUBSET Fields]],
         held' \in [Buffers -> [Fields -> Nat]],
         \A d \in Callers : d # c => imp'[d] = imp[d] /\ which'[d] = which[d],
         \A w \in {"src", "dst"} : /\ imp'[c][w] = Got(c, w)'
                                   /\ imp'[c][w] # {} => req[c][w] \in Buffers,
         place \in {"out_dst", "out_src"} => which'[c] = "dst",
         HeldInv'
  PROVE  Inv'
<1>1. place \in Busy /\ pc[c] \in Busy
  BY DEF Busy
<1>2. lock = c
  BY DEF Inv, LockInv
<1>3. LockInv'
  BY <1>2, HolderStays
<1>4. ImportInv'
  BY <1>1, OtherImports
<1>5. DeviceInv'
  BY <1>1, RequestKeepsDevice
<1>6. TypeOK'
  BY DEF Inv, TypeOK, Goto, Locked, deviceVars
<1> QED BY <1>3, <1>4, <1>5, <1>6 DEF Inv

\* A request is made, and waits for the lock.
LEMMA BltPreserves == ASSUME Inv, NEW c \in Callers, Blt(c) PROVE Inv'
<1>1. /\ pc[c] = "idle" /\ Goto(c, "lock")
      /\ UNCHANGED <<deviceVars, open_count, lock, which, imp, held>>
  BY DEF Blt, ioctlUnchanged
<1>2. /\ req' \in [Callers -> [{"src", "dst"} -> Buffers \cup {NotADmaBuf}]]
      /\ \A d \in Callers : d # c => req'[d] = req[d]
  BY DEF Blt, Inv, TypeOK
<1>3. pc[c] \in Outside /\ "lock" \in Outside /\ pc[c] \notin Locked
  BY <1>1 DEF Outside, Locked, Importing
<1>4. lock # c
  BY <1>3 DEF Inv, LockInv
<1>5. LockInv' /\ ImportInv' /\ HeldInv'
  BY <1>1, <1>2, <1>3, <1>4, MoveOutside
<1>6. DeviceInv'
  BY <1>1, RequestKeepsDevice DEF Busy
<1>7. TypeOK'
  BY <1>1, <1>2 DEF Inv, TypeOK, Goto, deviceVars
<1> QED BY <1>5, <1>6, <1>7 DEF Inv

LEMMA LockPreserves == ASSUME Inv, NEW c \in Callers, MutexLock(c) PROVE Inv'
<1>1. /\ pc[c] = "lock" /\ Goto(c, "get") /\ lock = Nobody /\ lock' = c
      /\ UNCHANGED <<deviceVars, open_count, req, imp, held>>
  BY DEF MutexLock, ioctlUnchanged
<1>2. \A d \in Callers : /\ pc'[d] = IF d = c THEN "get" ELSE pc[d]
                         /\ which'[d] = IF d = c THEN "src" ELSE which[d]
  BY DEF MutexLock, Goto, Inv, TypeOK
<1>3. \A d \in Callers : pc[d] \notin Locked
  BY <1>1, G2dAssumption DEF Inv, LockInv
<1>4. LockInv'
  BY <1>1, <1>2, <1>3 DEF LockInv, Locked, Importing
<1>5. \A w \in {"src", "dst"} : imp[c][w] = {} /\ Got(c, w)' = {}
  BY <1>2, <1>3 DEF Inv, ImportInv, Got, Stage
<1>6. ImportInv'
  <2>1. "get" \in Busy /\ "get" \notin {"out_dst", "out_src"}
    BY DEF Busy, Locked, Importing
  <2> QED BY <1>1, <1>2, <1>5, <2>1, OtherImports
<1>7. HeldInv'
  <2>1. \A b \in Buffers, f \in Fields : held[b][f] = 0
    BY <1>1 DEF Inv, HeldInv
  <2>2. \A w \in {"src", "dst"}, b \in Buffers, f \in Fields : Has(c, w, b, f)' = 0
    BY <1>1, <1>5 DEF Has
  <2> QED BY <1>1, <2>1, <2>2, G2dAssumption DEF HeldInv
<1>8. DeviceInv'
  BY <1>1, RequestKeepsDevice DEF Busy, Locked, Importing
<1>9. TypeOK'
  BY <1>1 DEF Inv, TypeOK, MutexLock, Goto, Locked, Importing, deviceVars
<1> QED BY <1>4, <1>6, <1>7, <1>8, <1>9 DEF Inv

LEMMA UnlockPreserves == ASSUME Inv, NEW c \in Callers, MutexUnlock(c) PROVE Inv'
<1>1. /\ pc[c] = "out_unlock" /\ Goto(c, "idle") /\ lock' = Nobody
      /\ UNCHANGED <<deviceVars, open_count, req, which, imp, held>>
  BY DEF MutexUnlock, ioctlUnchanged, bufferVars
<1>2. \A d \in Callers : pc'[d] = IF d = c THEN "idle" ELSE pc[d]
  BY DEF MutexUnlock, Goto, Inv, TypeOK
<1>3. lock = c /\ \A d \in Callers : d # c => pc[d] \notin Locked
  BY <1>1 DEF Inv, LockInv, Locked
<1>4. "idle" \notin Locked /\ "idle" \in Busy /\ "out_unlock" \in Busy
  BY DEF Busy, Locked, Importing
<1>5. LockInv'
  BY <1>1, <1>2, <1>3, <1>4, G2dAssumption DEF LockInv
<1>6. \A w \in {"src", "dst"} : imp[c][w] = {} /\ Got(c, w)' = {}
  BY <1>1, <1>2, <1>4 DEF Inv, ImportInv, Got
<1>7. ImportInv'
  BY <1>1, <1>4, <1>6, OtherImports
<1>8. HeldInv'
  <2>1. \A w \in {"src", "dst"}, b \in Buffers, f \in Fields : Has(c, w, b, f) = 0
    BY <1>6 DEF Has
  <2>2. \A b \in Buffers, f \in Fields : held[b][f] = 0
    BY <1>3, <2>1, G2dAssumption DEF Inv, HeldInv
  <2> QED BY <1>1, <2>2 DEF HeldInv
<1>9. DeviceInv'
  BY <1>1, <1>4, RequestKeepsDevice
<1>10. TypeOK'
  BY <1>1 DEF Inv, TypeOK, Goto, deviceVars
<1> QED BY <1>5, <1>7, <1>8, <1>9, <1>10 DEF Inv

\* Where g2d_import goes on after a failure.
LEMMA FailureGoes ==
  ASSUME Inv, NEW c \in Callers, AfterFailure(c)
  PROVE  \E place \in {"out_unlock", "out_src"} :
           /\ Goto(c, place)
           /\ which[c] = (IF place = "out_src" THEN "dst" ELSE "src")
BY DEF AfterFailure, Inv, TypeOK

\* A step within g2d_import changes what its own import has, and no more.
LEMMA GotWithin ==
  ASSUME Inv, NEW c \in Callers, pc[c] \in Importing, NEW place \in Importing, Goto(c, place),
         which'[c] = which[c], NEW w \in {"src", "dst"}
  PROVE  /\ Got(c, w)' = IF w = which[c] THEN Stage(place) ELSE Got(c, w)
         /\ imp[c][w] = IF w = which[c] THEN Stage(pc[c]) ELSE Got(c, w)
<1>1. pc'[c] = place
  BY DEF Goto, Inv, TypeOK
<1>2. \A q \in Importing : q \in Locked /\ q # "out_unlock" /\ q # "out_dst"
  BY DEF Locked, Importing
<1>3. which[c] \in {"src", "dst"}
  BY DEF Inv, TypeOK
<1>4. imp[c][w] = Got(c, w)
  BY DEF Inv, ImportInv
<1> QED BY <1>1, <1>2, <1>3, <1>4 DEF Got

\* One that has failed has nothing left.
LEMMA GotFailed ==
  ASSUME Inv, NEW c \in Callers, pc[c] \in Importing, AfterFailure(c),
         which'[c] = which[c], NEW w \in {"src", "dst"}
  PROVE  Got(c, w)' = IF w = which[c] THEN {} ELSE Got(c, w)
<1>1. pc'[c] = IF which[c] = "src" THEN "out_unlock" ELSE "out_src"
  BY DEF AfterFailure, Goto, Inv, TypeOK
<1>2. \A q \in Importing : q \in Locked /\ q # "out_unlock" /\ q # "out_dst"
  BY DEF Locked, Importing
<1>3. "out_src" \in Locked /\ Stage("out_src") = {}
  BY DEF Locked, Stage
<1>4. which[c] \in {"src", "dst"}
  BY DEF Inv, TypeOK
<1> QED BY <1>1, <1>2, <1>3, <1>4 DEF Got

\* A step that takes one more thing of the buffer.
LEMMA AcquirePreserves ==
  ASSUME Inv, NEW c \in Callers, pc[c] \in Importing, NEW place \in Importing, Goto(c, place),
         NEW f \in Fields, Acquire(c, f), Buffer(c) \in Buffers, f \notin Stage(pc[c]),
         Stage(place) = Stage(pc[c]) \cup {f},
         UNCHANGED <<deviceVars, open_count, lock, req, which>>
  PROVE  Inv'
<1>1. pc[c] \in Locked /\ place \in Locked /\ place \notin {"out_dst", "out_src"}
  BY DEF Locked, Importing
<1>2. lock = c /\ which[c] \in {"src", "dst"}
  BY <1>1 DEF Inv, LockInv, TypeOK
<1>3. f \notin imp[c][which[c]]
  BY <1>2, GotWithin
<1>4. /\ HeldInv' /\ held' \in [Buffers -> [Fields -> Nat]]
      /\ imp' \in [Callers -> [{"src", "dst"} -> SUBSET Fields]]
  BY <1>2, <1>3, AcquireHeld
<1>5. \A w \in {"src", "dst"} :
        imp'[c][w] = IF w = which[c] THEN imp[c][w] \cup {f} ELSE imp[c][w]
  BY DEF Acquire, Inv, TypeOK
<1>6. \A d \in Callers : d # c => imp'[d] = imp[d]
  BY DEF Acquire, Inv, TypeOK
<1>7. ASSUME NEW w \in {"src", "dst"}
      PROVE  imp'[c][w] = Got(c, w)' /\ (imp'[c][w] # {} => req[c][w] \in Buffers)
  <2>1. imp'[c][w] = Got(c, w)'
    BY <1>5, GotWithin
  <2>2. imp[c][w] # {} => req[c][w] \in Buffers
    BY DEF Inv, ImportInv
  <2> QED BY <1>5, <2>1, <2>2 DEF Buffer
<1> QED BY <1>1, <1>4, <1>6, <1>7, HolderStep DEF Inv, TypeOK

\* A step that takes nothing, and stays in g2d_import or leaves it after a failure.
LEMMA RefusalPreserves ==
  ASSUME Inv, NEW c \in Callers, pc[c] \in Importing,
         \/ \E place \in Importing : Goto(c, place) /\ Stage(place) = Stage(pc[c])
         \/ AfterFailure(c) /\ Stage(pc[c]) = {},
         UNCHANGED <<deviceVars, open_count, lock, req, which, imp, held>>
  PROVE  Inv'
<1>1. \A q \in Importing \cup {"out_unlock", "out_src"} : q \in Locked
  BY DEF Locked
<1>2. HeldInv' /\ \A w \in {"src", "dst"} : imp[c][w] # {} => req[c][w] \in Buffers
  BY DEF Inv, HeldInv, Has, ImportInv
<1>3. CASE \E place \in Importing : Goto(c, place) /\ Stage(place) = Stage(pc[c])
  <2>1. PICK place \in Importing : Goto(c, place) /\ Stage(place) = Stage(pc[c])
    BY <1>3
  <2>2. \A w \in {"src", "dst"} : imp'[c][w] = Got(c, w)'
    BY <2>1, GotWithin
  <2>3. place \notin {"out_dst", "out_src"}
    BY DEF Importing
  <2> QED BY <1>1, <1>2, <2>1, <2>2, <2>3, HolderStep DEF Inv, TypeOK
<1>4. CASE AfterFailure(c) /\ Stage(pc[c]) = {}
  <2>1. PICK place \in {"out_unlock", "out_src"} :
          Goto(c, place) /\ which[c] = (IF place = "out_src" THEN "dst" ELSE "src")
    BY <1>4, FailureGoes
  <2>2. \A w \in {"src", "dst"} : imp[c][w] = IF w = which[c] THEN {} ELSE Got(c, w)
    <3>1. PICK q \in Importing : q = pc[c]
      OBVIOUS
    <3>2. \A w \in {"src", "dst"} : imp[c][w] = Got(c, w)
      BY DEF Inv, ImportInv
    <3>3. Got(c, which[c]) = Stage(pc[c])
      BY DEF Got, Locked, Importing, Inv, TypeOK
    <3> QED BY <1>4, <3>2, <3>3
  <2>3. \A w \in {"src", "dst"} : imp'[c][w] = Got(c, w)'
    BY <1>4, <2>2, GotFailed
  <2> QED BY <1>1, <1>2, <2>1, <2>3, HolderStep DEF Inv, TypeOK
<1> QED BY <1>3, <1>4

\* A label that undoes a field and falls through to the next, or to the end.
LEMMA UndoPreserves ==
  ASSUME Inv, NEW c \in Callers, pc[c] \in Importing, NEW f \in Fields, Undo(c, f),
         f \in Stage(pc[c]),
         \/ \E place \in Importing : Goto(c, place) /\ Stage(place) = Stage(pc[c]) \ {f}
         \/ AfterFailure(c) /\ Stage(pc[c]) = {f},
         UNCHANGED <<deviceVars, open_count, lock, req, which>>
  PROVE  Inv'
<1>1. \A q \in Importing \cup {"out_unlock", "out_src"} : q \in Locked
  BY DEF Locked
<1>2. lock = c /\ which[c] \in {"src", "dst"}
  BY <1>1 DEF Inv, LockInv, TypeOK
<1>3. \A w \in {"src", "dst"} : imp[c][w] = IF w = which[c] THEN Stage(pc[c]) ELSE Got(c, w)
  <2>1. \A w \in {"src", "dst"} : imp[c][w] = Got(c, w)
    BY DEF Inv, ImportInv
  <2>2. Got(c, which[c]) = Stage(pc[c])
    BY DEF Got, Locked, Importing, Inv, TypeOK
  <2> QED BY <2>1, <2>2
<1>4. /\ HeldInv' /\ held' \in [Buffers -> [Fields -> Nat]]
      /\ imp' \in [Callers -> [{"src", "dst"} -> SUBSET Fields]]
  BY <1>2, <1>3, UndoHeld
<1>5. \A w \in {"src", "dst"} :
        imp'[c][w] = IF w = which[c] THEN imp[c][w] \ {f} ELSE imp[c][w]
  BY DEF Undo, Inv, TypeOK
<1>6. \A d \in Callers : d # c => imp'[d] = imp[d]
  BY DEF Undo, Inv, TypeOK
<1>7. \A w \in {"src", "dst"} : imp'[c][w] # {} => req[c][w] \in Buffers
  BY <1>5 DEF Inv, ImportInv
<1>8. CASE \E place \in Importing : Goto(c, place) /\ Stage(place) = Stage(pc[c]) \ {f}
  <2>1. PICK place \in Importing : Goto(c, place) /\ Stage(place) = Stage(pc[c]) \ {f}
    BY <1>8
  <2>2. \A w \in {"src", "dst"} : imp'[c][w] = Got(c, w)'
    BY <1>3, <1>5, <2>1, GotWithin
  <2>3. place \notin {"out_dst", "out_src"}
    BY DEF Importing
  <2> QED BY <1>1, <1>4, <1>6, <1>7, <2>1, <2>2, <2>3, HolderStep DEF Inv, TypeOK
<1>9. CASE AfterFailure(c) /\ Stage(pc[c]) = {f}
  <2>1. PICK place \in {"out_unlock", "out_src"} :
          Goto(c, place) /\ which[c] = (IF place = "out_src" THEN "dst" ELSE "src")
    BY <1>9, FailureGoes
  <2>2. \A w \in {"src", "dst"} : imp'[c][w] = Got(c, w)'
    BY <1>3, <1>5, <1>9, GotFailed
  <2> QED BY <1>1, <1>4, <1>6, <1>7, <2>1, <2>2, HolderStep DEF Inv, TypeOK
<1> QED BY <1>8, <1>9

\* The places of g2d_import with what they have, for the steps below.
LEMMA Stages ==
  /\ Stage("get") = {} /\ Stage("attach") = {"dmabuf"} /\ Stage("err_put") = {"dmabuf"}
  /\ Stage("map") = {"dmabuf", "attach"} /\ Stage("err_detach") = {"dmabuf", "attach"}
  /\ Stage("span") = Fields /\ Stage("err_unmap") = Fields
BY DEF Stage

LEMMA GetPreserves == ASSUME Inv, NEW c \in Callers, dma_buf_get(c) PROVE Inv'
<1>1. pc[c] = "get" /\ UNCHANGED <<deviceVars, open_count, lock, req, which>>
  BY DEF dma_buf_get, ioctlUnchanged
<1>2. CASE Buffer(c) \in Buffers /\ Acquire(c, "dmabuf") /\ Goto(c, "attach")
  BY <1>1, <1>2, Stages, AcquirePreserves DEF Importing, Fields
<1>3. CASE AfterFailure(c) /\ UNCHANGED <<imp, held>>
  BY <1>1, <1>3, Stages, RefusalPreserves DEF Importing
<1> QED BY <1>2, <1>3 DEF dma_buf_get

\* Past dma_buf_get the descriptor is a buffer's.
LEMMA IsBuffer ==
  ASSUME Inv, NEW c \in Callers, pc[c] \in {"attach", "map", "span"}
  PROVE  Buffer(c) \in Buffers
<1>1. which[c] \in {"src", "dst"} /\ pc[c] \in Importing
  BY DEF Inv, TypeOK, Importing
<1>2. imp[c][which[c]] = Stage(pc[c])
  BY <1>1 DEF Inv, ImportInv, Got, Locked, Importing
<1>3. Stage(pc[c]) # {}
  BY Stages DEF Fields
<1> QED BY <1>1, <1>2, <1>3 DEF Inv, ImportInv, Buffer

LEMMA AttachPreserves == ASSUME Inv, NEW c \in Callers, dma_buf_attach(c) PROVE Inv'
<1>1. pc[c] = "attach" /\ UNCHANGED <<deviceVars, open_count, lock, req, which>>
  BY DEF dma_buf_attach, ioctlUnchanged
<1>2. CASE Acquire(c, "attach") /\ Goto(c, "map")
  BY <1>1, <1>2, Stages, IsBuffer, AcquirePreserves DEF Importing, Fields
<1>3. CASE Goto(c, "err_put") /\ UNCHANGED <<imp, held>>
  BY <1>1, <1>3, Stages, RefusalPreserves DEF Importing
<1> QED BY <1>2, <1>3 DEF dma_buf_attach

LEMMA MapPreserves == ASSUME Inv, NEW c \in Callers, dma_buf_map_attachment(c) PROVE Inv'
<1>1. pc[c] = "map" /\ UNCHANGED <<deviceVars, open_count, lock, req, which>>
  BY DEF dma_buf_map_attachment, ioctlUnchanged
<1>2. CASE Acquire(c, "sgt") /\ Goto(c, "span")
  <2>1. Stage("span") = Stage("map") \cup {"sgt"} /\ "sgt" \notin Stage("map")
    BY Stages DEF Fields
  <2> QED BY <1>1, <1>2, <2>1, IsBuffer, AcquirePreserves DEF Importing, Fields
<1>3. CASE Goto(c, "err_detach") /\ UNCHANGED <<imp, held>>
  BY <1>1, <1>3, Stages, RefusalPreserves DEF Importing
<1> QED BY <1>2, <1>3 DEF dma_buf_map_attachment

LEMMA UnwindPreserves == ASSUME Inv, NEW c \in Callers, Unwind(c) PROVE Inv'
<1>1. UNCHANGED <<deviceVars, open_count, lock, req, which>>
  BY DEF Unwind, ioctlUnchanged
<1>2. CASE pc[c] = "err_unmap" /\ Undo(c, "sgt") /\ Goto(c, "err_detach")
  <2>1. Stage("err_detach") = Stage("err_unmap") \ {"sgt"} /\ "sgt" \in Stage("err_unmap")
    BY Stages DEF Fields
  <2> QED BY <1>1, <1>2, <2>1, UndoPreserves DEF Importing, Fields
<1>3. CASE pc[c] = "err_detach" /\ Undo(c, "attach") /\ Goto(c, "err_put")
  <2>1. Stage("err_put") = Stage("err_detach") \ {"attach"} /\ "attach" \in Stage("err_detach")
    BY Stages
  <2> QED BY <1>1, <1>3, <2>1, UndoPreserves DEF Importing, Fields
<1>4. CASE pc[c] = "err_put" /\ Undo(c, "dmabuf") /\ AfterFailure(c)
  BY <1>1, <1>4, Stages, UndoPreserves DEF Importing, Fields
<1> QED BY <1>2, <1>3, <1>4 DEF Unwind

LEMMA SpanPreserves == ASSUME Inv, NEW c \in Callers, CheckSpan(c) PROVE Inv'
<1>1. pc[c] = "span" /\ UNCHANGED <<deviceVars, open_count, lock, req, imp, held>>
  BY DEF CheckSpan, ioctlUnchanged
<1>2. CASE Goto(c, "err_unmap") /\ UNCHANGED which
  BY <1>1, <1>2, Stages, RefusalPreserves DEF Importing
<1>3. CASE \/ which[c] = "src" /\ Goto(c, "get") /\ which' = [which EXCEPT ![c] = "dst"]
           \/ which[c] = "dst" /\ Goto(c, "out_dst") /\ UNCHANGED which
  <2>1. PICK place \in {"get", "out_dst"} : Goto(c, place)
    BY <1>3
  <2>2. pc'[c] = place /\ which'[c] = "dst" /\ which[c] = (IF place = "get" THEN "src" ELSE "dst")
    BY <1>3, <2>1 DEF Goto, Inv, TypeOK
  <2>3. place \in Locked /\ pc[c] \in Locked /\ place # "out_unlock"
    BY <1>1 DEF Locked, Importing
  <2>4. /\ imp[c][which[c]] = Fields
        /\ which[c] = "src" => imp[c]["dst"] = {}
        /\ which[c] = "dst" => imp[c]["src"] = Fields
    BY <1>1, <2>3, Stages DEF Inv, ImportInv, Got, TypeOK
  <2>5. \A w \in {"src", "dst"} : imp'[c][w] = Got(c, w)'
    <3>1. Got(c, "src")' = Fields
      BY <2>2, <2>3 DEF Got
    <3>2. Got(c, "dst")' = IF place = "get" THEN {} ELSE Fields
      BY <2>2, <2>3, Stages DEF Got
    <3> QED BY <1>1, <2>2, <2>4, <3>1, <3>2
  <2>6. \A w \in {"src", "dst"} : imp'[c][w] # {} => req[c][w] \in Buffers
    BY <1>1 DEF Inv, ImportInv
  <2>7. HeldInv'
    BY <1>1 DEF Inv, HeldInv, Has
  <2>8. which' \in [Callers -> {"src", "dst"}] /\ \A d \in Callers : d # c => which'[d] = which[d]
    BY <1>3 DEF Inv, TypeOK
  <2>9. imp' \in [Callers -> [{"src", "dst"} -> SUBSET Fields]] /\ held' \in [Buffers -> [Fields -> Nat]]
    BY <1>1 DEF Inv, TypeOK
  <2> QED BY <1>1, <2>1, <2>2, <2>3, <2>5, <2>6, <2>7, <2>8, <2>9, HolderStep
<1> QED BY <1>2, <1>3 DEF CheckSpan, Inv, TypeOK

LEMMA ReleasePreserves == ASSUME Inv, NEW c \in Callers, ReleaseImports(c) PROVE Inv'
<1>1. UNCHANGED <<deviceVars, open_count, lock, req, which>>
  BY DEF ReleaseImports, ioctlUnchanged
<1>2. PICK w \in {"src", "dst"} :
        /\ ReleaseImport(c, w)
        /\ pc[c] = (IF w = "dst" THEN "out_dst" ELSE "out_src")
        /\ Goto(c, IF w = "dst" THEN "out_src" ELSE "out_unlock")
  BY DEF ReleaseImports
<1>3. PICK place \in {"out_src", "out_unlock"} :
        Goto(c, place) /\ pc'[c] = place /\ place = (IF w = "dst" THEN "out_src" ELSE "out_unlock")
  BY <1>2 DEF Goto, Inv, TypeOK
<1>4. place \in Locked /\ pc[c] \in Locked /\ which[c] = "dst"
  BY <1>2 DEF Locked, Inv, ImportInv
<1>5. lock = c
  BY <1>4 DEF Inv, LockInv
<1>6. /\ HeldInv' /\ held' \in [Buffers -> [Fields -> Nat]]
      /\ imp' \in [Callers -> [{"src", "dst"} -> SUBSET Fields]]
  BY <1>1, <1>2, <1>5, ReleaseHeld
<1>7. /\ \A v \in {"src", "dst"} : imp'[c][v] = IF v = w THEN {} ELSE imp[c][v]
      /\ \A d \in Callers : d # c => imp'[d] = imp[d]
  BY <1>2 DEF ReleaseImport, Inv, TypeOK
<1>8. \A v \in {"src", "dst"} : imp'[c][v] = Got(c, v)'
  <2>1. imp[c]["src"] = Fields /\ (w = "src" => imp[c]["dst"] = {})
    BY <1>2, <1>4 DEF Inv, ImportInv, Got, Stage
  <2>2. Got(c, "src")' = IF w = "dst" THEN Fields ELSE {}
    BY <1>1, <1>3, <1>4 DEF Got
  <2>3. Got(c, "dst")' = {}
    BY <1>1, <1>3, <1>4 DEF Got, Stage
  <2> QED BY <1>7, <2>1, <2>2, <2>3
<1>9. \A v \in {"src", "dst"} : imp'[c][v] # {} => req[c][v] \in Buffers
  BY <1>7 DEF Inv, ImportInv
<1> QED BY <1>1, <1>3, <1>4, <1>6, <1>7, <1>8, <1>9, HolderStep DEF Inv, TypeOK

-----------------------------------------------------------------------------

LEMMA InvStep == Inv /\ [Next]_vars => Inv'
<1> SUFFICES ASSUME Inv, [Next]_vars PROVE Inv'
  OBVIOUS
<1>1. CASE DeviceStep
  BY <1>1, DevicePreserves
<1>2. ASSUME NEW c \in Callers, File(c) PROVE Inv'
  BY <1>2, FilePreserves
<1>3. ASSUME NEW c \in Callers, Ioctl(c) PROVE Inv'
  BY <1>3, BltPreserves, LockPreserves, GetPreserves, AttachPreserves, MapPreserves, SpanPreserves,
     UnwindPreserves, ReleasePreserves, UnlockPreserves DEF Ioctl
<1>4. CASE UNCHANGED vars
  BY <1>4 DEF vars, deviceVars, callVars, Inv, TypeOK, LockInv, ImportInv, Got, HeldInv, Has,
     DeviceInv, Opened
<1> QED BY <1>1, <1>2, <1>3, <1>4 DEF Next, DeviceStep

LEMMA InvAlways == Spec => []Inv
BY InvInit, InvStep, PTL DEF Spec

\* Whichever call fails, of any number of requests for any buffers, a request that
\* is over has left no reference, attachment or mapping behind.
THEOREM NothingEverLeaks == Spec => []NothingLeaks
BY InvAlways, InvImpliesNothingLeaks, PTL

\* The block is used with its clocks on only, and the module never goes away under
\* an open file.
THEOREM ClocksAlwaysFollowDevice == Spec => []ClocksFollowDevice
BY InvAlways, InvImpliesClocks, PTL
=============================================================================
