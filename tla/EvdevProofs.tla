----------------------------- MODULE EvdevProofs -----------------------------
(***************************************************************************)
(* Theorems about the evdev gamepads, for any number of gamepads, slots,   *)
(* ids, effects and requests: the types, the table of devices and their    *)
(* ids; what no event of another gamepad takes from a gamepad, its         *)
(* controller id, its emulation thread, and the state the host has of it;  *)
(* and force feedback, which leaves the table alone and follows the host.  *)
(***************************************************************************)
EXTENDS EvdevRumble, FiniteSetTheorems, WellFoundedInduction, TLAPS

\* Every non-empty set of naturals has a least element: the search for a free
\* controller id finds one.
LEMMA MinimumExists ==
  ASSUME NEW S \in SUBSET Nat, S # {}
  PROVE  \E m \in S : \A o \in S : m <= o
<1> DEFINE R == OpToRel(<, Nat)
<1>1. IsWellFoundedOn(R, Nat)
  BY NatLessThanWellFounded
<1>2. \E x \in S : \A y \in S : ~(<<y, x>> \in R)
  <2> HIDE DEF R
  <2> QED BY <1>1, WFMin
<1>3. \A x, y \in S : ~(<<y, x>> \in R) => x <= y
  BY DEF OpToRel
<1> QED BY <1>2, <1>3

\* The id evdev_handle_event assigns is a free one, or 0 when none is free.
LEMMA NextIdIsFree ==
  /\ NextId \in ControllerIds
  /\ FreeIds # {} => NextId \in FreeIds
  /\ FreeIds = {} => NextId = 0
<1>1. 0 \in ControllerIds
  BY TableAssumption DEF ControllerIds
<1>2. ASSUME FreeIds # {} PROVE NextId \in FreeIds
  <2>1. FreeIds \in SUBSET Nat
    BY TableAssumption DEF FreeIds, ControllerIds
  <2>2. PICK m \in FreeIds : \A o \in FreeIds : m <= o
    BY <1>2, <2>1, MinimumExists
  <2> QED BY <1>2, <2>2 DEF NextId
<1>3. FreeIds \subseteq ControllerIds
  BY DEF FreeIds
<1> QED BY <1>1, <1>2, <1>3 DEF NextId

-----------------------------------------------------------------------------
(* Type correctness.                                                       *)

LEMMA ControllerEventType ==
  ASSUME TypeOK, NEW cid, NEW m \in SUBSET ControllerIds, NEW b \in SUBSET Buttons
  PROVE  \A h \in HostView :
           /\ ControllerEvent(h, cid, m, b) \in HostView
           /\ cid \in ControllerIds => ControllerArrival(h, cid, m) \in HostView
BY DEF ControllerEvent, ControllerArrival, HostView

LEMMA ReadingSlot ==
  ASSUME TypeOK, NEW s \in Slots, Reading(s)
  PROVE  /\ mem[s] \in Entry
         /\ num \in 1 .. Capacity
         /\ num - 1 \in Slots
BY TableAssumption DEF TypeOK, Reading, Slots

LEMMA AfterGamepadEventType ==
  ASSUME TypeOK, NEW s \in Slots, NEW e \in Entry,
         NEW h \in HostView,
         AfterGamepadEvent(s, e, h)
  PROVE  /\ mem' \in [Slots -> Entry]
         /\ host' \in HostView
         /\ main' \in MainState
<1>1. ControllerEvent(h, e.cid, assigned, {}) \in
        HostView
  BY ControllerEventType DEF TypeOK
<1>2. [e EXCEPT !.modified = TRUE] \in Entry
  BY DEF Entry
<1>3. [main EXCEPT !.pc = "done"] \in MainState
  BY DEF TypeOK, MainState
<1> QED BY <1>1, <1>2, <1>3 DEF AfterGamepadEvent, TypeOK

\* While the main thread waits in evdev_remove or in evdev_handle_event, the slot
\* it works on and the one that fills the hole are slots of the table.
JoinOK ==
  /\ main.pc = "joinOff" => main.slot \in 0 .. num - 1
  /\ main.pc = "joinRemove" => main.slot \in 0 .. num /\ num \in Slots

LEMMA TypeInit == Init => TypeOK /\ JoinOK
BY TableAssumption DEF Init, TypeOK, JoinOK, NoEntry, Entry, NoThread, ThreadState,
   MainState, HostView, ControllerIds, NoId, Slots, Freed

LEMMA TypeStep == TypeOK /\ JoinOK /\ [Next]_vars => TypeOK'
<1> SUFFICES ASSUME TypeOK, JoinOK, [Next]_vars PROVE TypeOK'
  OBVIOUS
<1>1. ASSUME NEW d \in Devices, Create(d) PROVE TypeOK'
  <2>1. num \in Slots /\ num + 1 \in 0 .. Capacity
    BY <1>1, TableAssumption DEF Create, TypeOK, Slots
  <2>2. Fresh(d) \in Entry
    BY DEF Fresh, NoEntry, Entry, NoId
  <2>3. \A moved \in BOOLEAN : PointersAfterRealloc(moved) \in
          [Devices -> ThreadState]
    BY DEF PointersAfterRealloc, TypeOK, ThreadState
  <2> QED BY <1>1, <2>1, <2>2, <2>3 DEF Create, TypeOK
<1>2. ASSUME NEW d \in Devices, Thread(d) PROVE TypeOK'
  BY <1>2 DEF Thread, ThreadCheck, ThreadBody, TypeOK, ThreadState
<1>3. CASE StartLoop
  BY <1>3 DEF StartLoop, TypeOK, MainState
<1>4. CASE Signal
  BY <1>4 DEF Signal, TypeOK, MainState
<1>5. ASSUME NEW s \in Slots, HandleEvent(s) PROVE TypeOK'
  <2> USE ReadingSlot
  <2>1. ASSUME NEW b \in Buttons, Press(s, b) PROVE TypeOK'
    <3>1. [mem[s] EXCEPT !.btns = @ \cup {b}] \in Entry
      BY <2>1 DEF Press, Entry
    <3> QED BY <2>1, <3>1, AfterGamepadEventType DEF Press, TypeOK
  <2>2. ASSUME NEW b \in Buttons, Release(s, b) PROVE TypeOK'
    <3>1. Released(s, b) \in Entry
      BY <2>2 DEF Release, Released, Entry
    <3> QED BY <2>2, <3>1, AfterGamepadEventType DEF Release, TypeOK
  <2>3. CASE Axis(s)
    BY <2>3, AfterGamepadEventType DEF Axis, TypeOK
  <2>4. CASE EmulationOn(s)
    <3>1. [Released(s, Start) EXCEPT !.emu = TRUE] \in Entry
      BY <2>4 DEF EmulationOn, Released, Entry
    <3>2. ControllerEvent(host, mem[s].cid, assigned, {}) \in
            HostView
      BY ControllerEventType DEF TypeOK
    <3> QED BY <2>4, <3>1, <3>2, AfterGamepadEventType DEF EmulationOn, TypeOK, ThreadState
  <2>5. CASE EmulationOff(s)
    <3>1. [Released(s, Start) EXCEPT !.emu = FALSE] \in Entry
      BY <2>5 DEF EmulationOff, Released, Entry
    <3> QED BY <2>5, <3>1 DEF EmulationOff, TypeOK, MainState
  <2>6. CASE SynAssign(s)
    <3>1. [mem[s] EXCEPT !.cid = NextId, !.modified = FALSE] \in Entry
      BY <2>6, NextIdIsFree DEF SynAssign, Entry
    <3>2. assigned' \in SUBSET ControllerIds
      BY <2>6, NextIdIsFree DEF SynAssign, TypeOK
    <3>3. host' \in HostView
      BY <2>6, <3>2, NextIdIsFree, ControllerEventType DEF SynAssign, TypeOK, Entry
    <3> QED BY <2>6, <3>1, <3>2, <3>3 DEF SynAssign, TypeOK
  <2>7. CASE SynReport(s)
    <3>1. [mem[s] EXCEPT !.modified = FALSE] \in Entry
      BY <2>7 DEF SynReport, Entry
    <3>2. host' \in HostView
      BY <2>7, ControllerEventType DEF SynReport, TypeOK, Entry
    <3> QED BY <2>7, <3>1, <3>2 DEF SynReport, TypeOK
  <2>8. ASSUME Reading(s), ReturnId(s)
        PROVE  /\ num' \in 0 .. Capacity
               /\ assigned' \in SUBSET ControllerIds
               /\ host' \in HostView
    <3>1. assigned' \in SUBSET ControllerIds
      BY <2>8 DEF ReturnId, IdsAfterRemove, TypeOK
    <3>2. num' \in 0 .. Capacity
      <4>1. num \in 1 .. Capacity
        BY <2>8, ReadingSlot
      <4> QED BY <2>8, <4>1, TableAssumption DEF ReturnId
    <3> QED BY <2>8, <3>1, <3>2, ControllerEventType DEF ReturnId, TypeOK
  <2>9. CASE Remove(s)
    <3>1. Compacted(mem, s, num - 1) \in [Slots -> Entry]
      BY <2>9 DEF Remove, Compacted, TypeOK
    <3> QED BY <2>8, <2>9, <3>1 DEF Remove, TypeOK
  <2>10. CASE RemoveEmulating(s)
    <3>1. [mem[s] EXCEPT !.emu = FALSE] \in Entry
      BY <2>10 DEF RemoveEmulating, Entry
    <3> QED BY <2>8, <2>10, <3>1 DEF RemoveEmulating, TypeOK, MainState
  <2>11. CASE ReadError(s)
    BY <2>11 DEF ReadError, TypeOK, MainState
  <2> QED BY <1>5, <2>1, <2>2, <2>3, <2>4, <2>5, <2>6, <2>7, <2>9, <2>10, <2>11 DEF HandleEvent
<1>6. CASE JoinedOff
  <2>1. main.slot \in Slots /\ mem[main.slot] \in Entry
    <3>1. main.slot \in Slots
      BY <1>6, TableAssumption DEF JoinedOff, JoinOK, TypeOK, Slots
    <3> QED BY <3>1 DEF TypeOK
  <2>2. [mem[main.slot] EXCEPT !.modified = TRUE] \in Entry
    BY <2>1 DEF Entry
  <2>3. ControllerEvent(host, mem[main.slot].cid, assigned, {}) \in HostView
    BY ControllerEventType DEF TypeOK
  <2> QED BY <1>6, <2>2, <2>3
        DEF JoinedOff, TypeOK, NoThread, ThreadState, MainState
<1>7. CASE JoinedRemove
  <2>1. Compacted(mem, main.slot, num) \in [Slots -> Entry]
    BY <1>7 DEF JoinedRemove, JoinOK, Compacted, TypeOK
  <2> QED BY <1>7, <2>1 DEF JoinedRemove, TypeOK, NoThread, ThreadState, MainState
<1>8. CASE Finished \/ UNCHANGED vars
  BY <1>8 DEF Finished, vars, TypeOK
<1> QED BY <1>1, <1>2, <1>3, <1>4, <1>5, <1>6, <1>7, <1>8 DEF Next

\* A join only ever waits for an entry of the table, and nothing but the join's
\* return changes the table meanwhile.
LEMMA JoinStep == TypeOK /\ JoinOK /\ [Next]_vars => JoinOK'
<1> SUFFICES ASSUME TypeOK, JoinOK, [Next]_vars PROVE JoinOK'
  OBVIOUS
<1> USE DEF JoinOK
<1>1. ASSUME NEW d \in Devices, Create(d) PROVE JoinOK'
  BY <1>1 DEF Create
<1>2. ASSUME NEW d \in Devices, Thread(d) PROVE JoinOK'
  BY <1>2 DEF Thread, ThreadCheck, ThreadBody
<1>3. CASE StartLoop
  BY <1>3 DEF StartLoop, TypeOK, MainState
<1>4. CASE Signal
  BY <1>4 DEF Signal, TypeOK, MainState
<1>5. ASSUME NEW s \in Slots, HandleEvent(s) PROVE JoinOK'
  <2>1. ASSUME main' = main \/ main'.pc \in {"done", "exit"}, main.pc = "loop" PROVE JoinOK'
    BY <2>1
  <2>2. \A e, h : AfterGamepadEvent(s, e, h) =>
          main' = main \/ main'.pc \in {"done", "exit"}
    BY DEF AfterGamepadEvent, TypeOK, MainState
  <2>3. CASE EmulationOff(s)
    BY <2>3 DEF EmulationOff, Reading
  <2>4. CASE RemoveEmulating(s)
    BY <2>4, ReadingSlot DEF RemoveEmulating, ReturnId, Reading
  <2>5. CASE ReadError(s)
    BY <2>1, <2>5 DEF ReadError, Reading, TypeOK, MainState
  <2> QED BY <1>5, <2>1, <2>2, <2>3, <2>4, <2>5
        DEF HandleEvent, Press, Release, Axis, EmulationOn, SynAssign, SynReport, Remove, Reading
<1>6. CASE JoinedOff
  BY <1>6 DEF JoinedOff
<1>7. CASE JoinedRemove
  BY <1>7 DEF JoinedRemove
<1>8. CASE Finished \/ UNCHANGED vars
  BY <1>8 DEF Finished, vars
<1> QED BY <1>1, <1>2, <1>3, <1>4, <1>5, <1>6, <1>7, <1>8 DEF Next

LEMMA TypeInvariant == Spec => [](TypeOK /\ JoinOK)
BY TypeInit, TypeStep, JoinStep, PTL DEF Spec

\* The table, the ids, the threads and what the host knows keep their types.
THEOREM TypeCorrect == Spec => []TypeOK
BY TypeInvariant, PTL

-----------------------------------------------------------------------------
(* Controller ids.                                                         *)

\* Where the entry that slot t holds after the hole s was filled comes from.
Origin(s, n, t) == IF t = s THEN n ELSE t

\* Filling the hole moves one entry and loses none: the slots below n hold what
\* the slots up to n, but for the hole, held before.
LEMMA CompactedMoves ==
  ASSUME NEW n \in Slots, NEW s \in 0 .. n, NEW m \in [Slots -> Entry]
  PROVE  /\ \A t \in 0 .. n - 1 :
              /\ Origin(s, n, t) \in (0 .. n) \ {s}
              /\ Compacted(m, s, n)[t] = m[Origin(s, n, t)]
         /\ \A t, u \in 0 .. n - 1 : Origin(s, n, t) = Origin(s, n, u) => t = u
         /\ \A u \in (0 .. n) \ {s} : \E t \in 0 .. n - 1 : Origin(s, n, t) = u
<1>1. s \in Slots /\ \A t \in 0 .. n : t \in Slots
  BY TableAssumption DEF Slots
<1>2. \A t \in 0 .. n - 1 : Origin(s, n, t) \in (0 .. n) \ {s}
  BY DEF Origin, Slots
<1>3. \A t \in 0 .. n - 1 : Compacted(m, s, n)[t] = m[Origin(s, n, t)]
  BY <1>1 DEF Origin, Compacted, Slots
<1>4. \A t, u \in 0 .. n - 1 : Origin(s, n, t) = Origin(s, n, u) => t = u
  BY DEF Origin, Slots
<1>5. \A u \in (0 .. n) \ {s} : \E t \in 0 .. n - 1 : Origin(s, n, t) = u
  <2> TAKE u \in (0 .. n) \ {s}
  <2>1. CASE u = n
    BY <2>1 DEF Origin, Slots
  <2>2. CASE u # n
    BY <2>2 DEF Origin, Slots
  <2> QED BY <2>1, <2>2
<1> QED BY <1>2, <1>3, <1>4, <1>5

\* The ids are consistent after a step that keeps the ids of the slots in use
\* and the bits, whatever else it changes.
LEMMA IdsKept ==
  ASSUME IdsConsistent, Live' = Live, assigned' = assigned,
         \A s \in Live : mem'[s].cid = mem[s].cid
  PROVE  IdsConsistent'
BY DEF IdsConsistent, BitsHeld, IdsHaveBit, IdsDistinct

\* The same after the last entry filled the hole s, be the bit of the removed
\* gamepad cleared in this step or before.
LEMMA IdsAfterCompaction ==
  ASSUME IdsConsistent, TypeOK,
         NEW n \in Slots, NEW s \in 0 .. n,
         \/ Live = 0 .. n /\ assigned' = assigned \ {mem[s].cid}
         \/ Live = (0 .. n) \ {s} /\ assigned' = assigned,
         Live' = 0 .. n - 1, mem' = Compacted(mem, s, n)
  PROVE  IdsConsistent'
<1>0. Live \ {s} = (0 .. n) \ {s} /\ mem \in [Slots -> Entry]
  BY DEF TypeOK
<1>1. \A t \in Live' : Origin(s, n, t) \in Live \ {s} /\ mem'[t] = mem[Origin(s, n, t)]
  BY <1>0, CompactedMoves
<1>2. \A t, u \in Live' : Origin(s, n, t) = Origin(s, n, u) => t = u
  BY <1>0, CompactedMoves
<1>3. \A u \in Live \ {s} : \E t \in Live' : Origin(s, n, t) = u
  BY <1>0, CompactedMoves
<1>4. BitsHeld'
  BY <1>1, <1>3 DEF IdsConsistent, BitsHeld
<1>5. IdsHaveBit'
  <2> SUFFICES ASSUME NEW t \in Live', mem'[t].cid \notin {NoId, 0}
               PROVE  mem'[t].cid \in assigned'
    BY DEF IdsHaveBit
  <2>1. mem'[t].cid \in assigned
    BY <1>1 DEF IdsConsistent, IdsHaveBit
  <2>2. s \in Live => mem'[t].cid # mem[s].cid
    BY <1>1 DEF IdsConsistent, IdsDistinct
  <2> QED BY <2>1, <2>2
<1>6. IdsDistinct'
  BY <1>1, <1>2 DEF IdsConsistent, IdsDistinct
<1> QED BY <1>4, <1>5, <1>6 DEF IdsConsistent

LEMMA IdsStep ==
  TypeOK /\ JoinOK /\ IdsConsistent /\ [Next]_vars => IdsConsistent'
<1> SUFFICES ASSUME TypeOK, JoinOK, IdsConsistent, [Next]_vars PROVE IdsConsistent'
  OBVIOUS
<1>a. num \in Nat /\ \A s \in 0 .. num - 1 : s \in Slots
  BY TableAssumption DEF TypeOK, Slots
<1>1. ASSUME NEW d \in Devices, Create(d) PROVE IdsConsistent'
  <2>1. num \in Slots
    BY <1>1, TableAssumption DEF Create, TypeOK, Slots
  <2>2. Live = 0 .. num - 1 /\ Live' = 0 .. num
    BY <1>1, <1>a DEF Create, Live
  <2>3. mem'[num].cid = NoId /\ \A s \in Live : mem'[s] = mem[s]
    BY <1>1, <1>a, <2>1, <2>2 DEF Create, Fresh, NoEntry, TypeOK
  <2>4. Live' = Live \cup {num} /\ num \notin Live
    <3> HIDE DEF Live
    <3>1. 0 .. num = (0 .. num - 1) \cup {num} /\ num \notin 0 .. num - 1
      BY <1>a
    <3> QED BY <2>2, <3>1
  <2> QED BY <1>1, <2>3, <2>4 DEF IdsConsistent, BitsHeld, IdsHaveBit, IdsDistinct, Create, NoId
<1>2. ASSUME NEW d \in Devices, Thread(d) PROVE IdsConsistent'
  BY <1>2, IdsKept DEF Thread, ThreadCheck, ThreadBody, Live
<1>3. CASE StartLoop \/ Signal
  BY <1>3, IdsKept DEF StartLoop, Signal, TypeOK, MainState, Live
<1>4. ASSUME NEW s \in Slots, HandleEvent(s) PROVE IdsConsistent'
  <2>a. Reading(s) /\ Live = 0 .. num - 1 /\ s \in Live
    BY <1>4 DEF HandleEvent, Press, Release, Axis, EmulationOn, EmulationOff, SynAssign,
       SynReport, Remove, RemoveEmulating, ReadError, Reading, Live
  <2>b. mem[s] \in Entry
    BY DEF TypeOK
  <2>1. ASSUME NEW e \in Entry, NEW h, AfterGamepadEvent(s, e, h),
               e.cid = mem[s].cid, UNCHANGED <<num, assigned>>
        PROVE IdsConsistent'
    <3>1. Live' = Live
      BY <2>1, <2>a DEF AfterGamepadEvent, Live, TypeOK, MainState
    <3>2. \A t \in Live : mem'[t].cid = mem[t].cid
      <4>1. [e EXCEPT !.modified = TRUE].cid = mem[s].cid
        BY <2>1 DEF Entry
      <4> QED BY <2>1, <4>1, <2>a, <1>a DEF AfterGamepadEvent, TypeOK
    <3> QED BY <2>1, <3>1, <3>2, IdsKept
  <2>2. ASSUME NEW b \in Buttons, Press(s, b) \/ Release(s, b) PROVE IdsConsistent'
    <3>1. /\ [mem[s] EXCEPT !.btns = @ \cup {b}] \in Entry
          /\ [mem[s] EXCEPT !.btns = @ \cup {b}].cid = mem[s].cid
          /\ Released(s, b) \in Entry
          /\ Released(s, b).cid = mem[s].cid
      BY <2>b DEF Released, Entry
    <3> QED BY <2>1, <2>2, <3>1 DEF Press, Release
  <2>3. CASE Axis(s)
    BY <2>1, <2>3, <2>b DEF Axis
  <2>4. CASE EmulationOn(s)
    <3>1. /\ [Released(s, Start) EXCEPT !.emu = TRUE] \in Entry
          /\ [Released(s, Start) EXCEPT !.emu = TRUE].cid = mem[s].cid
      BY <2>b DEF Released, Entry
    <3> QED BY <2>1, <2>4, <3>1 DEF EmulationOn
  <2>5. CASE EmulationOff(s)
    <3>1. [Released(s, Start) EXCEPT !.emu = FALSE].cid = mem[s].cid
      BY <2>b DEF Released, Entry
    <3> QED BY <2>5, <2>a, <1>a, <3>1, IdsKept DEF EmulationOff, Live, TypeOK
  <2>6. CASE SynAssign(s)
    <3>1. Live' = Live
      BY <2>6, <2>a DEF SynAssign, Live
    <3>2. mem'[s].cid = NextId /\ \A t \in Live \ {s} : mem'[t] = mem[t]
      <4>1. [mem[s] EXCEPT !.cid = NextId, !.modified = FALSE].cid = NextId
        BY <2>b DEF Entry
      <4> QED BY <2>6, <2>a, <1>a, <4>1 DEF SynAssign, TypeOK
    <3>3. mem[s].cid = NoId /\ NoId \notin assigned
      BY <2>6 DEF SynAssign, TypeOK, ControllerIds, NoId
    <3>4. \/ NextId = 0 /\ assigned' = assigned
          \/ NextId \notin assigned /\ assigned' = assigned \cup {NextId}
      BY <2>6, NextIdIsFree DEF SynAssign, FreeIds
    <3>5. BitsHeld'
      BY <2>a, <3>1, <3>2, <3>3, <3>4 DEF IdsConsistent, BitsHeld
    <3>6. IdsHaveBit'
      BY <2>a, <3>1, <3>2, <3>4 DEF IdsConsistent, IdsHaveBit
    <3>7. IdsDistinct'
      BY <2>a, <3>1, <3>2, <3>4 DEF IdsConsistent, IdsHaveBit, IdsDistinct
    <3> QED BY <3>5, <3>6, <3>7 DEF IdsConsistent
  <2>7. CASE SynReport(s)
    <3>1. [mem[s] EXCEPT !.modified = FALSE].cid = mem[s].cid
      BY <2>b DEF Entry
    <3> QED BY <2>7, <2>a, <1>a, <3>1, IdsKept DEF SynReport, Live, TypeOK
  <2>8. CASE Remove(s)
    <3>1. num - 1 \in Slots /\ s \in 0 .. num - 1
      BY <2>a, ReadingSlot
    <3>2. Live' = 0 .. num' - 1 /\ num' = num - 1 /\ mem' = Compacted(mem, s, num - 1)
      BY <2>8, <2>a DEF Remove, ReturnId, Reading, Live
    <3>3. \E n \in Slots :
            /\ s \in 0 .. n
            /\ Live = 0 .. n /\ Live' = 0 .. n - 1 /\ mem' = Compacted(mem, s, n)
      BY <2>a, <3>1, <3>2
    <3>4. assigned' = assigned \ {mem[s].cid}
      BY <2>8 DEF Remove, ReturnId, IdsAfterRemove
    <3> QED BY <3>3, <3>4, IdsAfterCompaction
  <2>9. CASE RemoveEmulating(s)
    <3>1. Live' = Live \ {s}
      <4>1. num' = num - 1 /\ Live' = (0 .. num') \ {s}
        BY <2>9 DEF RemoveEmulating, ReturnId, Live
      <4> QED BY <2>a, <4>1
    <3>2. \A t \in Live \ {s} : mem'[t] = mem[t]
      BY <2>9, <2>a, <1>a DEF RemoveEmulating, TypeOK
    <3>3. assigned' = assigned \ {mem[s].cid}
      BY <2>9 DEF RemoveEmulating, ReturnId, IdsAfterRemove
    <3> QED BY <2>a, <3>1, <3>2, <3>3
          DEF IdsConsistent, BitsHeld, IdsHaveBit, IdsDistinct
  <2>10. CASE ReadError(s)
    BY <2>10, <2>a, IdsKept DEF ReadError, Live, TypeOK, MainState
  <2> QED BY <1>4, <2>2, <2>3, <2>4, <2>5, <2>6, <2>7, <2>8, <2>9, <2>10 DEF HandleEvent
<1>5. CASE JoinedOff
  <2>1. Live' = Live
    BY <1>5 DEF JoinedOff, Live
  <2>2. main.slot \in Slots /\ mem[main.slot] \in Entry
    BY <1>5, <1>a DEF JoinedOff, JoinOK, TypeOK
  <2>3. [mem[main.slot] EXCEPT !.modified = TRUE].cid = mem[main.slot].cid
    BY <2>2 DEF Entry
  <2>4. \A t \in Live : mem'[t].cid = mem[t].cid
    BY <1>5, <1>a, <2>2, <2>3 DEF JoinedOff, Live, TypeOK
  <2> QED BY <1>5, <2>1, <2>4, IdsKept DEF JoinedOff
<1>6. CASE JoinedRemove
  <2>1. num \in Slots /\ main.slot \in 0 .. num
    BY <1>6 DEF JoinedRemove, JoinOK
  <2>2. Live = (0 .. num) \ {main.slot} /\ Live' = 0 .. num - 1
    BY <1>6 DEF JoinedRemove, Live
  <2>3. mem' = Compacted(mem, main.slot, num) /\ assigned' = assigned
    BY <1>6 DEF JoinedRemove
  <2> QED BY <2>1, <2>2, <2>3, IdsAfterCompaction
<1>7. CASE Finished \/ UNCHANGED vars
  BY <1>7, IdsKept DEF Finished, vars, Live
<1> QED BY <1>1, <1>2, <1>3, <1>4, <1>5, <1>6, <1>7 DEF Next

\* However gamepads come and go, two of them share a controller id only if it is 0,
\* and a bit of assignedControllerIds is never left behind by one that has gone.
THEOREM IdsAlwaysConsistent == Spec => []IdsConsistent
<1>1. Init => IdsConsistent
  BY DEF Init, IdsConsistent, BitsHeld, IdsHaveBit, IdsDistinct, Live
<1> QED BY <1>1, IdsStep, TypeInvariant, PTL DEF Spec

-----------------------------------------------------------------------------
(* The mask the host knows.                                                *)

LEMMA MaskStep ==
  TypeOK /\ HostMaskCurrent /\ [Next]_vars => HostMaskCurrent'
<1> SUFFICES ASSUME TypeOK, HostMaskCurrent, [Next]_vars PROVE HostMaskCurrent'
  OBVIOUS
<1> USE DEF HostMaskCurrent
<1>a. \A h, cid, b, m : ControllerEvent(h, cid, m, b).mask = m
  BY DEF ControllerEvent
<1>b. \A cid, m : ControllerArrival(host, cid, m).mask = m
  BY DEF ControllerArrival, TypeOK, HostView
<1>1. ASSUME NEW d \in Devices, Create(d) \/ Thread(d) PROVE HostMaskCurrent'
  BY <1>1 DEF Create, Thread, ThreadCheck, ThreadBody
<1>2. CASE StartLoop \/ Signal \/ JoinedRemove \/ Finished \/ UNCHANGED vars
  BY <1>2 DEF StartLoop, Signal, JoinedRemove, Finished, vars
<1>3. CASE JoinedOff
  BY <1>3, <1>a DEF JoinedOff
<1>4. ASSUME NEW s \in Slots, HandleEvent(s) PROVE HostMaskCurrent'
  <2>1. ASSUME NEW e, NEW h, AfterGamepadEvent(s, e, h), h.mask = assigned,
               assigned' = assigned
        PROVE  HostMaskCurrent'
    BY <2>1, <1>a DEF AfterGamepadEvent
  <2>2. CASE Axis(s) \/ (\E b \in Buttons : Press(s, b) \/ Release(s, b))
    BY <2>1, <2>2 DEF Press, Release, Axis
  <2>3. CASE EmulationOn(s)
    BY <2>1, <2>3, <1>a DEF EmulationOn
  <2>4. CASE EmulationOff(s) \/ ReadError(s)
    BY <2>4 DEF EmulationOff, ReadError
  <2>5. CASE SynAssign(s)
    BY <2>5, <1>a, <1>b DEF SynAssign
  <2>6. CASE SynReport(s)
    BY <2>6, <1>a DEF SynReport
  <2>7. ReturnId(s) => HostMaskCurrent'
    <3>1. mem[s].cid = NoId => IdsAfterRemove(mem[s].cid) = assigned
      BY DEF IdsAfterRemove, TypeOK, ControllerIds, NoId
    <3> QED BY <3>1, <1>a DEF ReturnId
  <2> QED BY <1>4, <2>2, <2>3, <2>4, <2>5, <2>6, <2>7
        DEF HandleEvent, Remove, RemoveEmulating
<1> QED BY <1>1, <1>2, <1>3, <1>4 DEF Next

\* No handler changes the controller ids without telling the host the new mask.
THEOREM HostMaskAlwaysCurrent == Spec => []HostMaskCurrent
<1>1. Init => HostMaskCurrent
  BY DEF Init, HostMaskCurrent
<1> QED BY <1>1, MaskStep, TypeInvariant, PTL DEF Spec

-----------------------------------------------------------------------------
(* The table and the open descriptors.                                     *)

\* The slots whose descriptor is open: the entry that is being removed is one of
\* them until the join returns.
InUse == IF main.pc = "joinRemove" THEN 0 .. num ELSE 0 .. num - 1

\* The inductive form of TableIsOpenDevices: it says of the entry being removed
\* what it says of the others, and that no slot is remembered outside of a join.
TableInv ==
  /\ \A d \in open : \E s \in InUse : mem[s].dev = d
  /\ \A s \in InUse : mem[s].dev \in open
  /\ \A s, t \in InUse : mem[s].dev = mem[t].dev => s = t
  /\ main.pc \notin {"joinOff", "joinRemove"} => main.slot = Freed

LEMMA TableInvImplies == TypeOK /\ JoinOK /\ TableInv => TableIsOpenDevices
<1> SUFFICES ASSUME TypeOK, JoinOK, TableInv PROVE TableIsOpenDevices
  OBVIOUS
<1>1. Live \subseteq InUse /\ InUse \subseteq Live \cup {main.slot}
  BY DEF Live, InUse
<1>2. Freed \notin InUse
  BY DEF InUse, Freed, TypeOK
<1> QED BY <1>1, <1>2 DEF TableInv, TableIsOpenDevices

\* The slots in use are slots of the block.
LEMMA InUseSlots == TypeOK /\ JoinOK => num \in Nat /\ InUse \subseteq Slots
BY TableAssumption DEF TypeOK, JoinOK, InUse, Slots

\* A step that keeps the slots in use, their devices and the descriptors.
LEMMA TableKept ==
  ASSUME TableInv, InUse' = InUse, open' = open,
         \A s \in InUse : mem'[s].dev = mem[s].dev,
         main'.pc \notin {"joinOff", "joinRemove"} => main'.slot = Freed
  PROVE  TableInv'
BY DEF TableInv

\* A step that closes a descriptor and fills the hole it leaves.
LEMMA TableCompacted ==
  ASSUME TypeOK, TableInv, NEW n \in Slots, NEW s \in 0 .. n,
         InUse = 0 .. n, InUse' = 0 .. n - 1,
         mem' = Compacted(mem, s, n), open' = open \ {mem[s].dev},
         main'.pc \notin {"joinOff", "joinRemove"} => main'.slot = Freed
  PROVE  TableInv'
<1>1. \A t \in InUse' :
        /\ Origin(s, n, t) \in InUse \ {s}
        /\ mem'[t] = mem[Origin(s, n, t)]
  BY CompactedMoves DEF TypeOK
<1>2. \A t, u \in InUse' : Origin(s, n, t) = Origin(s, n, u) => t = u
  BY CompactedMoves DEF TypeOK
<1>3. \A u \in InUse \ {s} : \E t \in InUse' : Origin(s, n, t) = u
  BY CompactedMoves DEF TypeOK
<1>4. \A t \in InUse' : mem'[t].dev \in open'
  BY <1>1 DEF TableInv
<1>5. \A t, u \in InUse' : mem'[t].dev = mem'[u].dev => t = u
  BY <1>1, <1>2 DEF TableInv
<1>6. \A d \in open' : \E t \in InUse' : mem'[t].dev = d
  BY <1>1, <1>3 DEF TableInv
<1> QED BY <1>4, <1>5, <1>6 DEF TableInv

LEMMA TableStep ==
  TypeOK /\ JoinOK /\ TableInv /\ [Next]_vars => TableInv'
<1> SUFFICES ASSUME TypeOK, JoinOK, TableInv, [Next]_vars PROVE TableInv'
  OBVIOUS
<1>a. num \in Nat /\ InUse \subseteq Slots
  BY InUseSlots
<1>1. ASSUME NEW d \in Devices, Create(d) PROVE TableInv'
  <2>1. num \in Slots /\ InUse = 0 .. num - 1 /\ InUse' = 0 .. num
    BY <1>1, <1>a, TableAssumption DEF Create, InUse, Slots, TypeOK
  <2>2. InUse' = InUse \cup {num} /\ num \notin InUse
    <3> HIDE DEF InUse
    <3>1. 0 .. num = (0 .. num - 1) \cup {num} /\ num \notin 0 .. num - 1
      BY <1>a
    <3> QED BY <2>1, <3>1
  <2>3. mem'[num].dev = d /\ \A s \in InUse : mem'[s] = mem[s]
    BY <1>1, <1>a, <2>1, <2>2 DEF Create, Fresh, NoEntry, TypeOK
  <2> QED BY <1>1, <2>2, <2>3 DEF TableInv, Create
<1>2. ASSUME NEW d \in Devices, Thread(d) PROVE TableInv'
  BY <1>2, TableKept DEF Thread, ThreadCheck, ThreadBody, InUse, TableInv
<1>3. CASE StartLoop \/ Signal
  BY <1>3, TableKept DEF StartLoop, Signal, InUse, TypeOK, MainState, TableInv
<1>4. ASSUME NEW s \in Slots, HandleEvent(s) PROVE TableInv'
  <2>a. Reading(s) /\ InUse = 0 .. num - 1 /\ s \in InUse /\ main.slot = Freed
    BY <1>4 DEF HandleEvent, Press, Release, Axis, EmulationOn, EmulationOff, SynAssign,
       SynReport, Remove, RemoveEmulating, ReadError, Reading, InUse, TableInv
  <2>b. mem[s] \in Entry /\ mem \in [Slots -> Entry]
    BY DEF TypeOK
  <2>c. \A b \in Buttons :
          /\ [mem[s] EXCEPT !.btns = @ \cup {b}] \in Entry
          /\ [mem[s] EXCEPT !.btns = @ \cup {b}].dev = mem[s].dev
          /\ Released(s, b) \in Entry
          /\ Released(s, b).dev = mem[s].dev
    BY <2>b DEF Released, Entry
  <2>1. ASSUME NEW e \in Entry, NEW h, AfterGamepadEvent(s, e, h),
               e.dev = mem[s].dev, UNCHANGED <<num, open>>
        PROVE  TableInv'
    <3>1. InUse' = InUse /\ main'.slot = Freed
      BY <2>1, <2>a DEF AfterGamepadEvent, InUse, TypeOK, MainState
    <3>2. \A t \in InUse : mem'[t].dev = mem[t].dev
      <4>1. [e EXCEPT !.modified = TRUE].dev = mem[s].dev
        BY <2>1 DEF Entry
      <4> QED BY <2>1, <4>1, <2>b, <1>a DEF AfterGamepadEvent
    <3> QED BY <2>1, <3>1, <3>2, TableKept
  <2>2. ASSUME NEW b \in Buttons, Press(s, b) \/ Release(s, b) PROVE TableInv'
    BY <2>1, <2>2, <2>c DEF Press, Release
  <2>3. CASE Axis(s)
    BY <2>1, <2>3, <2>b DEF Axis
  <2>4. CASE EmulationOn(s)
    <3>1. /\ [Released(s, Start) EXCEPT !.emu = TRUE] \in Entry
          /\ [Released(s, Start) EXCEPT !.emu = TRUE].dev = mem[s].dev
      BY <2>b, TableAssumption DEF Released, Entry
    <3> QED BY <2>1, <2>4, <3>1 DEF EmulationOn
  <2>5. CASE EmulationOff(s)
    <3>1. [Released(s, Start) EXCEPT !.emu = FALSE].dev = mem[s].dev
      BY <2>b DEF Released, Entry
    <3>2. InUse' = InUse
      BY <2>5, <2>a DEF EmulationOff, InUse
    <3>3. \A t \in InUse : mem'[t].dev = mem[t].dev
      BY <2>5, <2>b, <1>a, <3>1 DEF EmulationOff
    <3> QED BY <2>5, <3>2, <3>3, TableKept DEF EmulationOff
  <2>6. CASE SynAssign(s) \/ SynReport(s)
    <3>1. /\ [mem[s] EXCEPT !.cid = NextId, !.modified = FALSE].dev = mem[s].dev
          /\ [mem[s] EXCEPT !.modified = FALSE].dev = mem[s].dev
      BY <2>b DEF Entry
    <3>2. InUse' = InUse /\ open' = open /\ main' = main
      BY <2>6 DEF SynAssign, SynReport, InUse
    <3>3. \A t \in InUse : mem'[t].dev = mem[t].dev
      BY <2>6, <2>b, <1>a, <3>1 DEF SynAssign, SynReport
    <3> QED BY <2>a, <3>2, <3>3, TableKept
  <2>7. CASE Remove(s)
    <3>1. num - 1 \in Slots /\ s \in 0 .. num - 1 /\ num' = num - 1
      BY <2>7, <2>a, ReadingSlot DEF Remove, ReturnId
    <3>2. InUse' = 0 .. num' - 1 /\ main' = main
      BY <2>7, <2>a DEF Remove, Reading, InUse
    <3>3. mem' = Compacted(mem, s, num - 1) /\ open' = open \ {mem[s].dev}
      BY <2>7 DEF Remove
    <3>4. \E n \in Slots : /\ s \in 0 .. n /\ InUse = 0 .. n /\ InUse' = 0 .. n - 1
                           /\ mem' = Compacted(mem, s, n)
      BY <2>a, <3>1, <3>2, <3>3
    <3> QED BY <2>a, <3>2, <3>3, <3>4, TableCompacted
  <2>8. CASE RemoveEmulating(s)
    <3>1. InUse' = InUse
      <4>1. num' = num - 1 /\ InUse' = 0 .. num'
        BY <2>8 DEF RemoveEmulating, ReturnId, InUse
      <4> QED BY <2>a, <4>1
    <3>2. \A t \in InUse : mem'[t].dev = mem[t].dev
      <4>1. [mem[s] EXCEPT !.emu = FALSE].dev = mem[s].dev
        BY <2>b DEF Entry
      <4> QED BY <2>8, <2>b, <1>a, <4>1 DEF RemoveEmulating
    <3> QED BY <2>8, <3>1, <3>2, TableKept DEF RemoveEmulating
  <2>9. CASE ReadError(s)
    BY <2>9, <2>a, TableKept DEF ReadError, InUse, TypeOK, MainState
  <2> QED BY <1>4, <2>2, <2>3, <2>4, <2>5, <2>6, <2>7, <2>8, <2>9 DEF HandleEvent
<1>5. CASE JoinedOff
  <2>1. main.slot \in Slots /\ mem[main.slot] \in Entry /\ mem \in [Slots -> Entry]
    <3>1. main.slot \in Slots
      BY <1>5, TableAssumption DEF JoinedOff, JoinOK, TypeOK, Slots
    <3> QED BY <3>1 DEF TypeOK
  <2>2. [mem[main.slot] EXCEPT !.modified = TRUE].dev = mem[main.slot].dev
    BY <2>1 DEF Entry
  <2>3. InUse' = InUse
    BY <1>5 DEF JoinedOff, InUse
  <2>4. \A t \in InUse : mem'[t].dev = mem[t].dev
    BY <1>5, <1>a, <2>1, <2>2 DEF JoinedOff
  <2> QED BY <1>5, <2>3, <2>4, TableKept DEF JoinedOff
<1>6. CASE JoinedRemove
  <2>1. num \in Slots /\ main.slot \in 0 .. num
    BY <1>6 DEF JoinedRemove, JoinOK
  <2>2. InUse = 0 .. num /\ InUse' = 0 .. num - 1
    BY <1>6 DEF JoinedRemove, InUse
  <2> QED BY <1>6, <2>1, <2>2, TableCompacted DEF JoinedRemove
<1>7. CASE Finished \/ UNCHANGED vars
  BY <1>7, TableKept DEF Finished, vars, InUse, TableInv
<1> QED BY <1>1, <1>2, <1>3, <1>4, <1>5, <1>6, <1>7 DEF Next

\* However devices are plugged in and removed, the table and the open descriptors
\* stay one-to-one: the swap in evdev_remove loses none and doubles none.
THEOREM TableAlwaysOpenDevices == Spec => []TableIsOpenDevices
<1>1. Init => TableInv
  BY DEF Init, TableInv, InUse
<1> QED BY <1>1, TableStep, TableInvImplies, TypeInvariant, PTL DEF Spec

-----------------------------------------------------------------------------
(* What stays with a gamepad.                                              *)

LEMMA TableInvariant == Spec => [](TypeOK /\ JoinOK /\ TableInv)
<1>1. Init => TableInv
  BY DEF Init, TableInv, InUse
<1> QED BY <1>1, TableStep, TypeInvariant, PTL DEF Spec

-----------------------------------------------------------------------------
(* Controller ids stay with their gamepads.                                *)

\* Where the entries after a step come from: a device that was not open, or one that
\* was in the table and keeps the id it had.
Carried ==
  \A t \in Live' :
    \/ mem'[t].dev \notin open
    \/ \E u \in Live : /\ mem'[t].dev = mem[u].dev
                       /\ mem[u].cid \in {NoId, mem'[t].cid}

LEMMA CarriedInPlace ==
  ASSUME Live' \subseteq Live,
         \A t \in Live' : mem'[t].dev = mem[t].dev /\ mem[t].cid \in {NoId, mem'[t].cid}
  PROVE  Carried
BY DEF Carried

LEMMA CarriedByCompaction ==
  ASSUME TypeOK, NEW n \in Slots, NEW s \in 0 .. n,
         (0 .. n) \ {s} \subseteq Live, Live' = 0 .. n - 1, mem' = Compacted(mem, s, n)
  PROVE  Carried
<1>1. \A t \in Live' : Origin(s, n, t) \in Live /\ mem'[t] = mem[Origin(s, n, t)]
  BY CompactedMoves DEF TypeOK
<1> QED BY <1>1 DEF Carried

\* The index of the entry a handler works on, and the slots it may fill or leave.
LEMMA LiveSlots ==
  ASSUME TypeOK, JoinOK
  PROVE  /\ num \in Nat /\ Live \subseteq InUse /\ InUse \subseteq Slots
         /\ main.pc # "joinRemove" => Live = 0 .. num - 1 /\ InUse = Live
BY InUseSlots DEF Live, InUse

\* What the events of a gamepad do to its entry, but for those that remove it.
LEMMA EventKeepsEntry ==
  ASSUME TypeOK, NEW s \in Slots,
         \/ \E b \in Buttons : Press(s, b) \/ Release(s, b)
         \/ Axis(s) \/ EmulationOn(s) \/ EmulationOff(s) \/ SynAssign(s) \/ SynReport(s) \/ ReadError(s)
  PROVE  /\ main.pc = "loop" /\ main'.pc # "joinRemove" /\ UNCHANGED <<num, open>>
         /\ \E e \in Entry : /\ mem' = [mem EXCEPT ![s] = e]
                             /\ e.dev = mem[s].dev
                             /\ mem[s].cid \in {NoId, e.cid}
<1>1. /\ mem[s] \in Entry /\ mem \in [Slots -> Entry] /\ mem = [mem EXCEPT ![s] = mem[s]]
      /\ main \in MainState
  BY DEF TypeOK
<1>2. NextId \in ControllerIds /\ Start \in Buttons
  BY NextIdIsFree, TableAssumption
<1>3. ASSUME NEW e \in Entry, NEW h, AfterGamepadEvent(s, e, h), main.pc = "loop",
             e.dev = mem[s].dev, e.cid = mem[s].cid
      PROVE  /\ main'.pc # "joinRemove"
             /\ \E f \in Entry : mem' = [mem EXCEPT ![s] = f] /\ f.dev = mem[s].dev
                                 /\ mem[s].cid \in {NoId, f.cid}
  <2>1. [e EXCEPT !.modified = TRUE] \in Entry
    BY DEF Entry
  <2>2. [e EXCEPT !.modified = TRUE].dev = e.dev /\ [e EXCEPT !.modified = TRUE].cid = e.cid
    BY DEF Entry
  <2> QED BY <1>1, <1>3, <2>1, <2>2 DEF AfterGamepadEvent, MainState
<1> DEFINE Keeps(e) == e \in Entry /\ e.dev = mem[s].dev /\ e.cid = mem[s].cid
<1>4. \A b \in Buttons : Keeps([mem[s] EXCEPT !.btns = @ \cup {b}]) /\ Keeps(Released(s, b))
  BY <1>1 DEF Released, Entry
<1>5. \A f \in BOOLEAN : Keeps([Released(s, Start) EXCEPT !.emu = f])
  BY <1>1, <1>2 DEF Released, Entry
<1>6. Keeps(mem[s]) /\ Keeps([mem[s] EXCEPT !.modified = FALSE])
  BY <1>1 DEF Entry
<1>7. mem[s].cid = NoId =>
        /\ [mem[s] EXCEPT !.cid = NextId, !.modified = FALSE] \in Entry
        /\ [mem[s] EXCEPT !.cid = NextId, !.modified = FALSE].dev = mem[s].dev
  BY <1>1, <1>2 DEF Entry
<1>8. ASSUME NEW b \in Buttons, Press(s, b) \/ Release(s, b)
      PROVE  /\ main.pc = "loop" /\ main'.pc # "joinRemove" /\ UNCHANGED <<num, open>>
             /\ \E e \in Entry : mem' = [mem EXCEPT ![s] = e] /\ e.dev = mem[s].dev
                                 /\ mem[s].cid \in {NoId, e.cid}
  BY <1>3, <1>4, <1>8 DEF Press, Release, Reading
<1>9. CASE Axis(s)
  BY <1>3, <1>6, <1>9 DEF Axis, Reading
<1>10. CASE EmulationOn(s)
  BY <1>3, <1>5, <1>10 DEF EmulationOn, Reading
<1>11. CASE EmulationOff(s)
  BY <1>5, <1>11 DEF EmulationOff, Reading
<1>12. CASE SynAssign(s)
  BY <1>7, <1>12 DEF SynAssign, Reading
<1>13. CASE SynReport(s)
  BY <1>6, <1>13 DEF SynReport, Reading
<1>14. CASE ReadError(s)
  BY <1>1, <1>6, <1>14 DEF ReadError, Reading, MainState
<1> QED BY <1>8, <1>9, <1>10, <1>11, <1>12, <1>13, <1>14

LEMMA CarriedStep == TypeOK /\ JoinOK /\ TableInv /\ [Next]_vars => Carried
<1> SUFFICES ASSUME TypeOK, JoinOK, TableInv, [Next]_vars PROVE Carried
  OBVIOUS
<1>a. /\ num \in Nat /\ Live \subseteq InUse /\ InUse \subseteq Slots
      /\ main.pc # "joinRemove" => Live = 0 .. num - 1 /\ InUse = Live
  BY LiveSlots
<1>b. mem \in [Slots -> Entry]
  BY DEF TypeOK
<1>1. ASSUME NEW d \in Devices, Create(d) PROVE Carried
  <2>1. num \in Slots /\ Live = 0 .. num - 1 /\ Live' = 0 .. num
    <3>1. num \in Slots /\ num' = num + 1
      BY <1>1, <1>a, TableAssumption DEF Create, Slots
    <3>2. Live = 0 .. num - 1 /\ Live' = 0 .. num' - 1
      BY <1>1 DEF Create, Live
    <3> QED BY <1>a, <3>1, <3>2
  <2>2. mem'[num].dev = d /\ d \notin open /\ \A t \in Live : mem'[t] = mem[t]
    BY <1>1, <1>b, <2>1 DEF Create, Fresh, NoEntry
  <2>3. Live' = Live \cup {num}
    BY <1>a, <2>1
  <2> QED BY <2>2, <2>3 DEF Carried
<1>2. ASSUME NEW d \in Devices, Thread(d) PROVE Carried
  BY <1>2, CarriedInPlace DEF Thread, ThreadCheck, ThreadBody, Live
<1>3. CASE StartLoop \/ Signal
  <2>1. Live' = Live /\ mem' = mem
    BY <1>3 DEF StartLoop, Signal, Live, TypeOK, MainState
  <2> QED BY <2>1, CarriedInPlace
<1>4. ASSUME NEW s \in Slots, HandleEvent(s) PROVE Carried
  <2>1. CASE Remove(s)
    <3>1. num - 1 \in Slots /\ s \in 0 .. num - 1 /\ num' = num - 1 /\ main' = main
      BY <2>1, ReadingSlot DEF Remove, ReturnId, Reading
    <3>2. Live = 0 .. num - 1 /\ Live' = 0 .. (num - 1) - 1 /\ mem' = Compacted(mem, s, num - 1)
      BY <2>1, <3>1 DEF Remove, Reading, Live
    <3>3. (0 .. num - 1) \ {s} \subseteq Live
      BY <3>2
    <3> QED BY <3>1, <3>2, <3>3, CarriedByCompaction
  <2>2. CASE RemoveEmulating(s)
    <3>1. Live' \subseteq Live
      <4>1. num' = num - 1 /\ Live' = (0 .. num') \ {s} /\ Live = 0 .. num - 1
        BY <2>2, <1>a DEF RemoveEmulating, ReturnId, Reading, Live
      <4> QED BY <4>1
    <3>2. \A t \in Slots : mem'[t].dev = mem[t].dev /\ mem'[t].cid = mem[t].cid
      <4>1. /\ [mem[s] EXCEPT !.emu = FALSE].dev = mem[s].dev
            /\ [mem[s] EXCEPT !.emu = FALSE].cid = mem[s].cid
        BY <1>b DEF Entry
      <4> QED BY <2>2, <1>b, <4>1 DEF RemoveEmulating
    <3> QED BY <3>1, <3>2, <1>a, CarriedInPlace
  <2>3. CASE ~Remove(s) /\ ~RemoveEmulating(s)
    <3>1. /\ main.pc = "loop" /\ main'.pc # "joinRemove" /\ num' = num
          /\ \E e \in Entry : /\ mem' = [mem EXCEPT ![s] = e]
                              /\ e.dev = mem[s].dev
                              /\ mem[s].cid \in {NoId, e.cid}
      BY <1>4, <2>3, EventKeepsEntry DEF HandleEvent
    <3>2. Live' = Live
      BY <3>1 DEF Live
    <3> QED BY <3>1, <3>2, <1>a, <1>b, CarriedInPlace
  <2> QED BY <2>1, <2>2, <2>3
<1>5. CASE JoinedOff
  <2>1. main.slot \in Slots
    BY <1>5, TableAssumption DEF JoinedOff, JoinOK, TypeOK, Slots
  <2>2. /\ [mem[main.slot] EXCEPT !.modified = TRUE].dev = mem[main.slot].dev
        /\ [mem[main.slot] EXCEPT !.modified = TRUE].cid = mem[main.slot].cid
    BY <1>b, <2>1 DEF Entry
  <2>3. Live' = Live
    BY <1>5 DEF JoinedOff, Live
  <2>4. \A t \in Slots : mem'[t].dev = mem[t].dev /\ mem'[t].cid = mem[t].cid
    BY <1>5, <1>b, <2>1, <2>2 DEF JoinedOff
  <2> QED BY <2>3, <2>4, <1>a, CarriedInPlace
<1>6. CASE JoinedRemove
  <2>1. num \in Slots /\ main.slot \in 0 .. num /\ mem' = Compacted(mem, main.slot, num)
    BY <1>6 DEF JoinedRemove, JoinOK
  <2>2. Live = (0 .. num) \ {main.slot} /\ Live' = 0 .. num - 1
    BY <1>6 DEF JoinedRemove, Live
  <2> QED BY <2>1, <2>2, CarriedByCompaction
<1>7. CASE Finished \/ UNCHANGED vars
  BY <1>7, CarriedInPlace DEF Finished, vars, Live
<1> QED BY <1>1, <1>2, <1>3, <1>4, <1>5, <1>6, <1>7 DEF Next

\* The entry of a device is unique, so its id is a single one.
LEMMA OneId ==
  ASSUME TypeOK, JoinOK, TableInv, Carried, NEW d, IdOf(d) # {},
         NEW t \in Live', mem'[t].dev = d
  PROVE  IdOf(d)' = IdOf(d)
<1>1. PICK u \in Live : mem[u].dev = d /\ mem[u].cid # NoId
  BY DEF IdOf
<1>2. \A v \in Live : mem[v].dev = d => v = u
  BY <1>1, LiveSlots DEF TableInv
<1>3. d \in open
  BY <1>1, LiveSlots DEF TableInv
<1>4. \A v \in Live' : mem'[v].dev = d => mem'[v].cid = mem[u].cid
  BY <1>1, <1>2, <1>3 DEF Carried
<1>5. IdOf(d) = {mem[u].cid}
  BY <1>1, <1>2 DEF IdOf
<1>6. IdOf(d)' = {mem[u].cid}
  BY <1>1, <1>4 DEF IdOf
<1> QED BY <1>5, <1>6

\* A gamepad keeps the id it was given until it is unplugged, whatever is plugged
\* in or removed next to it.
THEOREM IdsAreStable == Spec => IdStable
<1>1. TypeOK /\ JoinOK /\ TableInv /\ [Next]_vars
        => [\A d \in Devices :
              IdOf(d) # {} /\ (\E s \in Live : mem[s].dev = d)' => IdOf(d)' = IdOf(d)]_vars
  BY CarriedStep, OneId
<1> QED BY <1>1, TableInvariant, PTL DEF Spec, IdStable

-----------------------------------------------------------------------------
(* Emulation threads.                                                      *)

\* A step after which thread d runs: it ran before with the pointer it has now, its
\* block was moved by a new device, or it starts on its gamepad's entry.
LEMMA ThreadStep ==
  ASSUME TypeOK, JoinOK, TableInv, Next, num' = num, NEW d \in Devices, Running(d)',
         Running(d) => ReadsItsPad(d)
  PROVE  ReadsItsPad(d)'
<1>a. threads \in [Devices -> ThreadState] /\ mem \in [Slots -> Entry] /\ num \in Nat
  BY LiveSlots DEF TypeOK
<1>b. Running(d) => threads[d].ptr \in Slots /\ mem[threads[d].ptr].dev = d
  BY <1>a DEF ReadsItsPad, ThreadState
<1>c. Freed \notin Slots
  BY DEF Freed, Slots
<1>1. ASSUME Running(d), threads'[d].ptr = threads[d].ptr,
             mem'[threads[d].ptr].dev = mem[threads[d].ptr].dev
      PROVE  ReadsItsPad(d)'
  BY <1>1, <1>b, <1>c DEF ReadsItsPad
<1>2. ASSUME NEW e \in Devices, Create(e) PROVE FALSE
  BY <1>2, <1>a DEF Create
<1>3. ASSUME NEW e \in Devices, Thread(e) PROVE ReadsItsPad(d)'
  <2>1. Running(d) /\ threads'[d].ptr = threads[d].ptr /\ mem' = mem
    BY <1>3, <1>a DEF Thread, ThreadCheck, ThreadBody, Running, ThreadState
  <2> QED BY <1>1, <2>1
<1>4. CASE StartLoop \/ Signal \/ Finished
  BY <1>1, <1>4 DEF StartLoop, Signal, Finished, vars, Running
<1>5. ASSUME NEW s \in Slots, HandleEvent(s) PROVE ReadsItsPad(d)'
  <2>1. ~Remove(s) /\ ~RemoveEmulating(s)
    BY <1>a DEF Remove, RemoveEmulating, ReturnId
  <2>2. PICK e \in Entry : mem' = [mem EXCEPT ![s] = e] /\ e.dev = mem[s].dev
    BY <1>5, <2>1, EventKeepsEntry DEF HandleEvent
  <2>3. \A t \in Slots : mem'[t].dev = mem[t].dev
    BY <1>a, <2>2
  <2>4. CASE threads' = threads
    BY <1>1, <1>b, <2>3, <2>4 DEF Running
  <2>5. CASE EmulationOn(s)
    <3>1. CASE d = mem[s].dev
      <4>1. threads'[d].ptr = s
        BY <1>a, <2>5, <3>1 DEF EmulationOn
      <4> QED BY <1>c, <2>3, <3>1, <4>1 DEF ReadsItsPad
    <3>2. CASE d # mem[s].dev
      <4>1. threads'[d] = threads[d]
        BY <1>a, <2>5, <3>2 DEF EmulationOn
      <4> QED BY <1>1, <1>b, <2>3, <4>1 DEF Running
    <3> QED BY <3>1, <3>2
  <2> QED
    BY <1>5, <2>1, <2>4, <2>5
    DEF HandleEvent, Press, Axis, Release, EmulationOff, SynAssign, SynReport, ReadError
<1>6. CASE JoinedOff \/ JoinedRemove
  <2>1. main.slot \in Slots
    BY <1>6, InUseSlots, TableAssumption DEF JoinedOff, JoinedRemove, JoinOK, TypeOK, Slots
  <2>2. threads'[d].pc = "none" \/ (d # mem[main.slot].dev /\ threads'[d] = threads[d])
    BY <1>6, <1>a DEF JoinedOff, JoinedRemove, NoThread
  <2>3. Running(d) /\ d # mem[main.slot].dev /\ threads'[d] = threads[d]
    BY <2>2 DEF Running
  <2>4. threads[d].ptr # main.slot
    BY <1>b, <2>3
  <2>5. \A t \in Slots \ {main.slot} : mem'[t] = mem[t]
    BY <1>6, <1>a, <2>1 DEF JoinedOff, JoinedRemove, Compacted
  <2> QED BY <1>1, <1>b, <2>3, <2>4, <2>5
<1> QED BY <1>2, <1>3, <1>4, <1>5, <1>6 DEF Next

\* Nothing that happens to a gamepad takes the id of another, nor the entry its
\* emulation thread reads, but for the moves of the table by realloc and the swap.
THEOREM GamepadsAlwaysKeepTheirOwn == Spec => GamepadsKeepTheirOwn
<1>1. TypeOK /\ JoinOK /\ TableInv /\ [Next]_vars
        => [\A d \in Devices :
              /\ Running(d)'
              /\ Running(d) => ReadsItsPad(d)
              /\ num' = num
              => ReadsItsPad(d)']_vars
  BY ThreadStep
<1> QED BY <1>1, IdsAreStable, TableInvariant, PTL DEF Spec, GamepadsKeepTheirOwn, EmulationReadsItsPad

-----------------------------------------------------------------------------
(* The thread of a gamepad and its flag.                                   *)

Joining == main.pc \in {"joinOff", "joinRemove"}
FlagSet == {mem[s].dev : s \in {t \in Live : mem[t].emu}}
Awaited == IF Joining THEN {mem[main.slot].dev} ELSE {}

\* A gamepad has a thread as long as its flag is set or its thread is waited for, and
\* it is waited for only once the flag is cleared.
FlagInv ==
  /\ \A d \in Devices : HasThread(d) <=> d \in FlagSet \cup Awaited
  /\ Joining => ~mem[main.slot].emu

LEMMA FlagInvEmulates == FlagInv => \A d \in Devices : HasThread(d) <=> Emulates(d)
BY DEF FlagInv, FlagSet, Awaited, Joining, Emulates

\* An event that does not toggle emulation.
Quiet(s) ==
  \/ \E b \in Buttons : Press(s, b) \/ Release(s, b)
  \/ Axis(s) \/ SynAssign(s) \/ SynReport(s) \/ ReadError(s)

LEMMA QuietKeepsFlag ==
  ASSUME TypeOK, NEW s \in Slots, Quiet(s)
  PROVE  /\ ~Joining /\ ~Joining' /\ threads' = threads /\ num' = num /\ Live' = Live
         /\ \A t \in Slots : mem'[t].dev = mem[t].dev /\ mem'[t].emu = mem[t].emu
<1>a. mem[s] \in Entry /\ mem \in [Slots -> Entry] /\ main \in MainState
  BY DEF TypeOK
<1>1. ASSUME NEW e \in Entry, NEW h, AfterGamepadEvent(s, e, h), main.pc = "loop",
             e.dev = mem[s].dev, e.emu = mem[s].emu, num' = num
      PROVE  /\ ~Joining' /\ Live' = Live
             /\ \A t \in Slots : mem'[t].dev = mem[t].dev /\ mem'[t].emu = mem[t].emu
  <2>1. /\ [e EXCEPT !.modified = TRUE].dev = e.dev
        /\ [e EXCEPT !.modified = TRUE].emu = e.emu
    BY DEF Entry
  <2> QED BY <1>a, <1>1, <2>1 DEF AfterGamepadEvent, MainState, Joining, Live
<1> DEFINE Keeps(e) == e \in Entry /\ e.dev = mem[s].dev /\ e.emu = mem[s].emu
<1>2. \A b \in Buttons : Keeps([mem[s] EXCEPT !.btns = @ \cup {b}]) /\ Keeps(Released(s, b))
  BY <1>a DEF Released, Entry
<1>3. /\ [mem[s] EXCEPT !.modified = FALSE].dev = mem[s].dev
      /\ [mem[s] EXCEPT !.modified = FALSE].emu = mem[s].emu
      /\ [mem[s] EXCEPT !.cid = NextId, !.modified = FALSE].dev = mem[s].dev
      /\ [mem[s] EXCEPT !.cid = NextId, !.modified = FALSE].emu = mem[s].emu
  BY <1>a DEF Entry
<1>4. CASE \E b \in Buttons : Press(s, b) \/ Release(s, b)
  BY <1>1, <1>2, <1>4 DEF Press, Release, Reading, Joining
<1>5. CASE Axis(s)
  BY <1>a, <1>1, <1>5 DEF Axis, Reading, Joining
<1>6. CASE SynAssign(s) \/ SynReport(s)
  BY <1>a, <1>3, <1>6 DEF SynAssign, SynReport, Reading, Joining, Live
<1>7. CASE ReadError(s)
  BY <1>a, <1>7 DEF ReadError, Reading, MainState, Joining, Live
<1> QED BY <1>4, <1>5, <1>6, <1>7 DEF Quiet

\* Filling the hole keeps the flags of the gamepads that stay.
LEMMA FlagsCompacted ==
  ASSUME TypeOK, NEW n \in Slots, NEW s \in 0 .. n, ~mem[s].emu,
         Live \cup {s} = 0 .. n, Live' = 0 .. n - 1, mem' = Compacted(mem, s, n)
  PROVE  FlagSet' = FlagSet
<1>1. \A t \in Live' : Origin(s, n, t) \in Live \ {s} /\ mem'[t] = mem[Origin(s, n, t)]
  <2>1. (0 .. n) \ {s} = Live \ {s}
    OBVIOUS
  <2> QED BY <2>1, CompactedMoves DEF TypeOK
<1>2. \A u \in Live \ {s} : \E t \in Live' : Origin(s, n, t) = u
  <2>1. (0 .. n) \ {s} = Live \ {s}
    OBVIOUS
  <2> QED BY <2>1, CompactedMoves DEF TypeOK
<1> QED BY <1>1, <1>2 DEF FlagSet

LEMMA FlagStep == TypeOK /\ JoinOK /\ TableInv /\ FlagInv /\ [Next]_vars => FlagInv'
<1> SUFFICES ASSUME TypeOK, JoinOK, TableInv, FlagInv, [Next]_vars PROVE FlagInv'
  OBVIOUS
<1>a. /\ num \in Nat /\ Live \subseteq InUse /\ InUse \subseteq Slots
      /\ main.pc # "joinRemove" => Live = 0 .. num - 1 /\ InUse = Live
  BY LiveSlots
<1>b. mem \in [Slots -> Entry] /\ threads \in [Devices -> ThreadState] /\ open \subseteq Devices
  BY DEF TypeOK
<1>c. ASSUME UNCHANGED <<mem, main, num>>, \A d \in Devices : HasThread(d)' <=> HasThread(d)
      PROVE  FlagInv'
  BY <1>c DEF FlagInv, FlagSet, Awaited, Joining, Live
<1>1. ASSUME NEW d \in Devices, Create(d) PROVE FlagInv'
  <2>1. num \in Slots /\ Live = 0 .. num - 1 /\ Live' = 0 .. num
    <3>1. num \in Slots /\ num' = num + 1
      BY <1>1, <1>a, TableAssumption DEF Create, Slots
    <3>2. Live = 0 .. num - 1 /\ Live' = 0 .. num' - 1
      BY <1>1 DEF Create, Live
    <3> QED BY <1>a, <3>1, <3>2
  <2>2. Live' = Live \cup {num} /\ num \notin Live
    BY <1>a, <2>1
  <2>3. ~mem'[num].emu /\ \A t \in Live : mem'[t] = mem[t]
    BY <1>1, <1>b, <2>1 DEF Create, Fresh, NoEntry
  <2>4. FlagSet' = FlagSet
    BY <2>2, <2>3 DEF FlagSet
  <2>5. Awaited = {} /\ Awaited' = {} /\ ~Joining'
    BY <1>1 DEF Create, Awaited, Joining
  <2>6. \A e \in Devices : HasThread(e)' <=> HasThread(e)
    BY <1>1, <1>b DEF Create, PointersAfterRealloc, HasThread, ThreadState
  <2> QED BY <2>4, <2>5, <2>6 DEF FlagInv
<1>2. ASSUME NEW d \in Devices, Thread(d) PROVE FlagInv'
  <2>1. \A e \in Devices : HasThread(e)' <=> HasThread(e)
    BY <1>2, <1>b DEF Thread, ThreadCheck, ThreadBody, HasThread, ThreadState
  <2> QED BY <1>2, <1>c, <2>1 DEF Thread, ThreadCheck, ThreadBody
<1>3. CASE StartLoop \/ Signal
  <2>1. Live' = Live /\ ~Joining /\ ~Joining' /\ UNCHANGED <<mem, threads>>
    BY <1>3 DEF StartLoop, Signal, Live, Joining, TypeOK, MainState
  <2> QED BY <2>1 DEF FlagInv, FlagSet, Awaited, HasThread
<1>4. ASSUME NEW s \in Slots, HandleEvent(s) PROVE FlagInv'
  <2>a. /\ main.pc = "loop" /\ s \in Live /\ Awaited = {} /\ mem[s].dev \in Devices
        /\ \A t \in Live : mem[t].dev = mem[s].dev => t = s
    <3>1. Reading(s)
      BY <1>4 DEF HandleEvent, Press, Release, Axis, EmulationOn, EmulationOff, SynAssign,
         SynReport, Remove, RemoveEmulating, ReadError
    <3> QED BY <1>a, <1>b, <3>1 DEF Reading, Awaited, Joining, TableInv
  <2>1. CASE Quiet(s)
    <3>1. FlagSet' = FlagSet /\ Awaited' = {} /\ ~Joining' /\ threads' = threads
      BY <1>a, <2>1, QuietKeepsFlag DEF FlagSet, Awaited
    <3> QED BY <2>a, <3>1 DEF FlagInv, HasThread
  <2>2. CASE EmulationOn(s)
    <3> DEFINE e == [Released(s, Start) EXCEPT !.emu = TRUE]
    <3>1. /\ e.dev = mem[s].dev /\ e.emu
          /\ [e EXCEPT !.modified = TRUE].dev = mem[s].dev /\ [e EXCEPT !.modified = TRUE].emu
      BY <1>a, <1>b DEF Released, Entry
    <3>2. /\ ~Joining' /\ Live' = Live
          /\ mem'[s].dev = mem[s].dev /\ mem'[s].emu
          /\ \A t \in Live \ {s} : mem'[t] = mem[t]
      BY <1>a, <1>b, <2>2, <2>a, <3>1 DEF EmulationOn, AfterGamepadEvent, Joining, Live, TypeOK, MainState
    <3>3. FlagSet' = FlagSet \cup {mem[s].dev} /\ Awaited' = {}
      BY <2>a, <3>2 DEF FlagSet, Awaited
    <3>4. \A d \in Devices : HasThread(d)' <=> (HasThread(d) \/ d = mem[s].dev)
      BY <1>b, <2>2, <2>a DEF EmulationOn, HasThread
    <3> QED BY <2>a, <3>2, <3>3, <3>4 DEF FlagInv
  <2>3. CASE EmulationOff(s) \/ RemoveEmulating(s)
    <3>1. ~mem'[s].emu /\ mem'[s].dev = mem[s].dev /\ mem[s].emu
      BY <1>a, <1>b, <2>3 DEF EmulationOff, RemoveEmulating, Released, Entry
    <3>2. Joining' /\ main'.slot = s /\ \A t \in Live \ {s} : mem'[t] = mem[t]
      BY <1>a, <1>b, <2>3 DEF EmulationOff, RemoveEmulating, Joining
    <3>3. Live' \cup {s} = Live
      <4>1. CASE EmulationOff(s)
        BY <2>a, <4>1 DEF EmulationOff, Live
      <4>2. CASE RemoveEmulating(s)
        <5>1. num' = num - 1 /\ Live' = (0 .. num') \ {s} /\ Live = 0 .. num - 1
          BY <1>a, <2>a, <4>2 DEF RemoveEmulating, ReturnId, Live
        <5> QED BY <2>a, <5>1
      <4> QED BY <2>3, <4>1, <4>2
    <3>4. FlagSet' \cup Awaited' = FlagSet
      BY <2>a, <3>1, <3>2, <3>3 DEF FlagSet, Awaited
    <3>5. threads' = threads
      BY <2>3 DEF EmulationOff, RemoveEmulating
    <3> QED BY <2>a, <3>1, <3>2, <3>4, <3>5 DEF FlagInv, HasThread
  <2>4. CASE Remove(s)
    <3>1. num - 1 \in Slots /\ s \in 0 .. num - 1 /\ num' = num - 1 /\ main' = main
      BY <2>4, ReadingSlot DEF Remove, ReturnId, Reading
    <3>2. Live = 0 .. num - 1 /\ Live' = 0 .. (num - 1) - 1 /\ mem' = Compacted(mem, s, num - 1)
      BY <2>4, <3>1 DEF Remove, Reading, Live
    <3>3. ~mem[s].emu /\ threads' = threads /\ ~Joining'
      BY <2>4, <2>a DEF Remove, Joining
    <3>4. Live \cup {s} = 0 .. num - 1
      BY <3>1, <3>2
    <3>5. FlagSet' = FlagSet
      BY <3>1, <3>2, <3>3, <3>4, FlagsCompacted
    <3> QED BY <2>a, <3>3, <3>5 DEF FlagInv, Awaited, HasThread
  <2> QED BY <1>4, <2>1, <2>2, <2>3, <2>4 DEF HandleEvent, Quiet
<1>5. CASE JoinedOff
  <2>1. main.slot \in Live /\ main.slot \in Slots
    BY <1>5, <1>a DEF JoinedOff, JoinOK
  <2>2. /\ [mem[main.slot] EXCEPT !.modified = TRUE].dev = mem[main.slot].dev
        /\ [mem[main.slot] EXCEPT !.modified = TRUE].emu = mem[main.slot].emu
    BY <1>b, <2>1 DEF Entry
  <2>3. \A t \in Slots : mem'[t].dev = mem[t].dev /\ mem'[t].emu = mem[t].emu
    BY <1>5, <1>b, <2>1, <2>2 DEF JoinedOff
  <2>4. Live' = Live /\ ~Joining' /\ Awaited' = {} /\ Joining /\ Awaited = {mem[main.slot].dev}
    BY <1>5 DEF JoinedOff, Live, Joining, Awaited
  <2>5. FlagSet' = FlagSet
    BY <1>a, <2>3, <2>4 DEF FlagSet
  <2>6. mem[main.slot].dev \notin FlagSet
    BY <1>5, <1>a, <2>1, <2>4 DEF FlagSet, FlagInv, TableInv, JoinedOff
  <2>7. \A d \in Devices : HasThread(d)' <=> (HasThread(d) /\ d # mem[main.slot].dev)
    BY <1>5, <1>b DEF JoinedOff, HasThread, NoThread
  <2> QED BY <2>4, <2>5, <2>6, <2>7 DEF FlagInv
<1>6. CASE JoinedRemove
  <2>1. num \in Slots /\ main.slot \in 0 .. num /\ mem' = Compacted(mem, main.slot, num)
    BY <1>6 DEF JoinedRemove, JoinOK
  <2>2. Live = (0 .. num) \ {main.slot} /\ Live' = 0 .. num - 1 /\ InUse = 0 .. num
    BY <1>6 DEF JoinedRemove, Live, InUse
  <2>3. ~Joining' /\ Awaited' = {} /\ Joining /\ Awaited = {mem[main.slot].dev}
    BY <1>6 DEF JoinedRemove, Joining, Awaited
  <2>4. Live \cup {main.slot} = 0 .. num
    BY <2>1, <2>2
  <2>5. FlagSet' = FlagSet
    BY <2>1, <2>2, <2>3, <2>4, FlagsCompacted DEF FlagInv
  <2>6. mem[main.slot].dev \notin FlagSet
    BY <2>1, <2>2 DEF FlagSet, TableInv
  <2>7. \A d \in Devices : HasThread(d)' <=> (HasThread(d) /\ d # mem[main.slot].dev)
    BY <1>6, <1>b DEF JoinedRemove, HasThread, NoThread
  <2> QED BY <2>3, <2>5, <2>6, <2>7 DEF FlagInv
<1>7. CASE Finished \/ UNCHANGED vars
  BY <1>7, <1>c DEF Finished, vars, HasThread
<1> QED BY <1>1, <1>2, <1>3, <1>4, <1>5, <1>6, <1>7 DEF Next

-----------------------------------------------------------------------------
(* The buttons the host believes to be down.                               *)

\* A gamepad in slot s speaks for controller c: what it does is what the host sees.
Speaks(s, c) == s \in Live /\ mem[s].cid = c /\ ~mem[s].emu

NoButtonLeft ==
  \A c \in ControllerIds : host.btns[c] # {} => \E s \in Live : mem[s].cid = c /\ ~mem[s].emu

\* A step that sets no button and takes no gamepad that speaks for a controller.
LEMMA ButtonsKept ==
  ASSUME NoButtonLeft,
         \A c \in ControllerIds : host'.btns[c] # {} =>
           /\ host.btns[c] # {}
           /\ \A u \in Live : Speaks(u, c) => \E t \in Live' : mem'[t].cid = c /\ ~mem'[t].emu
  PROVE  NoButtonLeft'
BY DEF NoButtonLeft, Speaks

\* The gamepad in slot s may stop speaking for its controller when its event carries
\* no button; the others stay where they are.
LEMMA ButtonsCleared ==
  ASSUME NoButtonLeft, TypeOK, NEW s \in Live,
         host' = ControllerEvent(host, mem[s].cid, assigned', {}),
         Live \ {s} \subseteq Live',
         \A t \in Live \ {s} : mem'[t] = mem[t]
  PROVE  NoButtonLeft'
<1>1. \A c \in ControllerIds : host'.btns[c] # {} => host.btns[c] # {} /\ c # mem[s].cid
  BY DEF ControllerEvent
<1>2. \A c \in ControllerIds : host'.btns[c] # {} =>
        \A u \in Live : Speaks(u, c) => u \in Live' /\ mem'[u].cid = c /\ ~mem'[u].emu
  BY <1>1 DEF Speaks
<1> QED BY <1>1, <1>2, ButtonsKept

LEMMA ButtonsCompacted ==
  ASSUME NoButtonLeft, TypeOK, NEW n \in Slots, NEW s \in 0 .. n,
         Live \ {s} = (0 .. n) \ {s}, Live' = 0 .. n - 1, mem' = Compacted(mem, s, n),
         \A c \in ControllerIds : host'.btns[c] # {} => host.btns[c] # {} /\ ~Speaks(s, c)
  PROVE  NoButtonLeft'
<1>1. \A u \in Live \ {s} : \E t \in Live' : mem'[t] = mem[u]
  <2>1. \A t \in Live' : mem'[t] = mem[Origin(s, n, t)]
    BY CompactedMoves DEF TypeOK
  <2>2. \A u \in Live \ {s} : \E t \in Live' : Origin(s, n, t) = u
    BY CompactedMoves DEF TypeOK
  <2> QED BY <2>1, <2>2
<1> QED BY <1>1, ButtonsKept DEF Speaks

LEMMA ButtonsStep == TypeOK /\ JoinOK /\ NoButtonLeft /\ [Next]_vars => NoButtonLeft'
<1> SUFFICES ASSUME TypeOK, JoinOK, NoButtonLeft, [Next]_vars PROVE NoButtonLeft'
  OBVIOUS
<1>a. /\ num \in Nat /\ Live \subseteq Slots
      /\ main.pc # "joinRemove" => Live = 0 .. num - 1
  BY LiveSlots
<1>b. mem \in [Slots -> Entry] /\ host \in HostView
  BY DEF TypeOK
<1>c. ASSUME host' = host, Live \subseteq Live',
             \A t \in Live : mem'[t].cid = mem[t].cid /\ (mem'[t].emu => mem[t].emu)
      PROVE  NoButtonLeft'
  BY <1>c, ButtonsKept DEF Speaks
<1>1. ASSUME NEW d \in Devices, Create(d) PROVE NoButtonLeft'
  <2>1. num \in Slots /\ Live = 0 .. num - 1 /\ Live \subseteq Live'
    <3>1. num \in Slots /\ num' = num + 1
      BY <1>1, <1>a, TableAssumption DEF Create, Slots
    <3>2. Live = 0 .. num - 1 /\ Live' = 0 .. num' - 1
      BY <1>1 DEF Create, Live
    <3> QED BY <1>a, <3>1, <3>2
  <2>2. \A t \in Live : mem'[t] = mem[t]
    BY <1>1, <1>b, <2>1 DEF Create
  <2> QED BY <1>1, <1>c, <2>1, <2>2 DEF Create
<1>2. ASSUME NEW d \in Devices, Thread(d) PROVE NoButtonLeft'
  BY <1>2, <1>c DEF Thread, ThreadCheck, ThreadBody, Live
<1>3. CASE StartLoop \/ Signal
  <2>1. Live' = Live /\ UNCHANGED <<mem, host>>
    BY <1>3 DEF StartLoop, Signal, Live, TypeOK, MainState
  <2> QED BY <2>1, <1>c
<1>4. ASSUME NEW s \in Slots, HandleEvent(s) PROVE NoButtonLeft'
  <2>a. main.pc = "loop" /\ s \in Live /\ Live = 0 .. num - 1 /\ mem[s] \in Entry
    <3>1. Reading(s)
      BY <1>4 DEF HandleEvent, Press, Release, Axis, EmulationOn, EmulationOff, SynAssign,
         SynReport, Remove, RemoveEmulating, ReadError
    <3> QED BY <1>a, <1>b, <3>1 DEF Reading
  <2>b. ASSUME main'.pc # "joinRemove", num' = num PROVE Live' = Live
    BY <2>a, <2>b DEF Live
  <2>1. ASSUME NEW e \in Entry, AfterGamepadEvent(s, e, host), num' = num, assigned' = assigned,
               e.cid = mem[s].cid, e.emu = mem[s].emu
        PROVE  NoButtonLeft'
    <3>1. /\ [e EXCEPT !.modified = TRUE].cid = mem[s].cid
          /\ [e EXCEPT !.modified = TRUE].emu = mem[s].emu
      BY <2>1 DEF Entry
    <3>2. \A t \in Live : mem'[t].cid = mem[t].cid /\ mem'[t].emu = mem[t].emu
      BY <1>a, <1>b, <2>1, <3>1 DEF AfterGamepadEvent
    <3>3. Live' = Live
      BY <2>1, <2>a, <2>b DEF AfterGamepadEvent, TypeOK, MainState
    <3>4. \A c \in ControllerIds : host'.btns[c] # {} => host.btns[c] # {}
      BY <2>1 DEF AfterGamepadEvent, ControllerEvent
    <3> QED BY <3>2, <3>3, <3>4, ButtonsKept DEF Speaks
  <2>2. CASE \E b \in Buttons : Press(s, b) \/ Release(s, b)
    <3>1. \A b \in Buttons :
            /\ [mem[s] EXCEPT !.btns = @ \cup {b}] \in Entry
            /\ [mem[s] EXCEPT !.btns = @ \cup {b}].cid = mem[s].cid
            /\ [mem[s] EXCEPT !.btns = @ \cup {b}].emu = mem[s].emu
            /\ Released(s, b) \in Entry
            /\ Released(s, b).cid = mem[s].cid
            /\ Released(s, b).emu = mem[s].emu
      BY <2>a DEF Released, Entry
    <3> QED BY <2>1, <2>2, <3>1 DEF Press, Release
  <2>3. CASE Axis(s)
    BY <2>1, <2>3, <2>a DEF Axis
  <2>4. CASE EmulationOn(s)
    <3> DEFINE e == [Released(s, Start) EXCEPT !.emu = TRUE]
    <3> DEFINE h == ControllerEvent(host, mem[s].cid, assigned, {})
    <3>1. e.cid = mem[s].cid
      BY <2>a DEF Released, Entry
    <3>2. \A c \in ControllerIds : host'.btns[c] # {} => host.btns[c] # {} /\ c # mem[s].cid
      <4>1. \A c \in ControllerIds : h.btns[c] # {} => host.btns[c] # {} /\ c # mem[s].cid
        BY DEF ControllerEvent
      <4>2. host' = h \/ host' = ControllerEvent(h, e.cid, assigned, {})
        BY <2>4 DEF EmulationOn, AfterGamepadEvent
      <4>3. \A c \in ControllerIds : ControllerEvent(h, e.cid, assigned, {}).btns[c] # {} => h.btns[c] # {}
        <5> HIDE DEF h, e
        <5> QED BY DEF ControllerEvent
      <4> HIDE DEF h, e
      <4> QED BY <4>1, <4>2, <4>3
    <3>3. \A t \in Live \ {s} : mem'[t] = mem[t]
      BY <1>a, <1>b, <2>4 DEF EmulationOn, AfterGamepadEvent
    <3>4. Live' = Live
      BY <2>a, <2>b, <2>4 DEF EmulationOn, AfterGamepadEvent, TypeOK, MainState
    <3> QED BY <3>2, <3>3, <3>4, ButtonsKept DEF Speaks
  <2>5. CASE EmulationOff(s)
    <3>1. [Released(s, Start) EXCEPT !.emu = FALSE].cid = mem[s].cid
          /\ ~[Released(s, Start) EXCEPT !.emu = FALSE].emu
      BY <2>a DEF Released, Entry
    <3>2. host' = host /\ Live' = Live
      BY <2>5, <2>b DEF EmulationOff
    <3>3. \A t \in Live : mem'[t].cid = mem[t].cid /\ (mem'[t].emu => mem[t].emu)
      BY <1>a, <1>b, <2>5, <3>1 DEF EmulationOff
    <3> QED BY <1>c, <3>2, <3>3
  <2>6. CASE SynAssign(s)
    <3> DEFINE e == [mem[s] EXCEPT !.cid = NextId, !.modified = FALSE]
    <3>1. e.cid = NextId /\ e.emu = mem[s].emu
      BY <2>a DEF Entry
    <3>2. Live' = Live /\ mem'[s] = e /\ \A t \in Live \ {s} : mem'[t] = mem[t]
      BY <1>a, <1>b, <2>a, <2>b, <2>6 DEF SynAssign
    <3>3. \A c \in ControllerIds :
            host'.btns[c] # {} => host.btns[c] # {} \/ (c = NextId /\ ~mem[s].emu)
      <4>1. ControllerArrival(host, NextId, assigned').btns = host.btns
        BY <1>b DEF ControllerArrival, HostView
      <4> QED BY <2>6, <4>1 DEF SynAssign, ControllerEvent
    <3>4. \A c \in ControllerIds : ~Speaks(s, c)
      BY <2>6 DEF SynAssign, Speaks, ControllerIds, NoId
    <3> HIDE DEF e
    <3> SUFFICES ASSUME NEW c \in ControllerIds, host'.btns[c] # {}
                 PROVE  \E t \in Live' : mem'[t].cid = c /\ ~mem'[t].emu
      BY DEF NoButtonLeft
    <3>5. CASE c = NextId /\ ~mem[s].emu
      BY <2>a, <3>1, <3>2, <3>5
    <3>6. CASE host.btns[c] # {}
      BY <3>2, <3>4, <3>6 DEF NoButtonLeft, Speaks
    <3> QED BY <3>3, <3>5, <3>6
  <2>7. CASE SynReport(s)
    <3>1. /\ [mem[s] EXCEPT !.modified = FALSE].cid = mem[s].cid
          /\ [mem[s] EXCEPT !.modified = FALSE].emu = mem[s].emu
      BY <2>a DEF Entry
    <3>2. Live' = Live /\ \A t \in Live : mem'[t].cid = mem[t].cid /\ mem'[t].emu = mem[t].emu
      BY <1>a, <1>b, <2>7, <2>a, <2>b, <3>1 DEF SynReport
    <3>3. \A c \in ControllerIds :
            host'.btns[c] # {} => host.btns[c] # {} \/ (c = mem[s].cid /\ ~mem[s].emu)
      BY <2>7 DEF SynReport, ControllerEvent
    <3> QED BY <2>a, <3>2, <3>3 DEF NoButtonLeft
  <2>8. CASE Remove(s)
    <3>1. num - 1 \in Slots /\ s \in 0 .. num - 1 /\ num' = num - 1
      BY <2>8, ReadingSlot DEF Remove, ReturnId, Reading
    <3>2. Live' = 0 .. (num - 1) - 1 /\ mem' = Compacted(mem, s, num - 1)
      BY <2>8, <2>a, <3>1 DEF Remove, Live
    <3>3. \A c \in ControllerIds : host'.btns[c] # {} => host.btns[c] # {} /\ ~Speaks(s, c)
      BY <2>8 DEF Remove, ReturnId, IdsAfterRemove, ControllerEvent, Speaks, ControllerIds, NoId
    <3> QED BY <2>a, <3>1, <3>2, <3>3, ButtonsCompacted
  <2>9. CASE RemoveEmulating(s)
    <3>1. num' = num - 1 /\ Live' = (0 .. num') \ {s}
      BY <2>9 DEF RemoveEmulating, ReturnId, Live
    <3>2. Live' = Live \ {s}
      BY <1>a, <2>a, <3>1
    <3>3. \A t \in Live \ {s} : mem'[t] = mem[t]
      BY <1>a, <1>b, <2>9 DEF RemoveEmulating
    <3>4. \A c \in ControllerIds : host'.btns[c] # {} => host.btns[c] # {} /\ ~Speaks(s, c)
      BY <2>9 DEF RemoveEmulating, ReturnId, ControllerEvent, Speaks
    <3> QED BY <3>2, <3>3, <3>4, ButtonsKept DEF Speaks
  <2>10. CASE ReadError(s)
    <3>1. Live' = Live /\ UNCHANGED <<mem, host>>
      BY <2>10, <2>b DEF ReadError, TypeOK, MainState
    <3> QED BY <1>c, <3>1
  <2> QED BY <1>4, <2>2, <2>3, <2>4, <2>5, <2>6, <2>7, <2>8, <2>9, <2>10 DEF HandleEvent
<1>5. CASE JoinedOff
  <2>1. main.slot \in Live
    BY <1>5, <1>a DEF JoinedOff, JoinOK
  <2>2. Live' = Live /\ assigned' = assigned
    BY <1>5 DEF JoinedOff, Live
  <2>3. \A t \in Live \ {main.slot} : mem'[t] = mem[t]
    BY <1>5, <1>a, <1>b, <2>1 DEF JoinedOff
  <2>4. host' = ControllerEvent(host, mem[main.slot].cid, assigned', {})
    BY <1>5, <2>2 DEF JoinedOff
  <2> QED BY <2>1, <2>2, <2>3, <2>4, ButtonsCleared
<1>6. CASE JoinedRemove
  <2>1. num \in Slots /\ main.slot \in 0 .. num /\ mem' = Compacted(mem, main.slot, num)
    BY <1>6 DEF JoinedRemove, JoinOK
  <2>2. Live = (0 .. num) \ {main.slot} /\ Live' = 0 .. num - 1 /\ host' = host
    BY <1>6 DEF JoinedRemove, Live
  <2>3. Live \ {main.slot} = (0 .. num) \ {main.slot} /\ \A c \in ControllerIds : ~Speaks(main.slot, c)
    BY <2>2 DEF Speaks
  <2> QED BY <2>1, <2>2, <2>3, ButtonsCompacted
<1>7. CASE Finished \/ UNCHANGED vars
  BY <1>7, <1>c DEF Finished, vars, Live
<1> QED BY <1>1, <1>2, <1>3, <1>4, <1>5, <1>6, <1>7 DEF Next

\* However gamepads come and go and emulation is toggled, each has a thread exactly
\* while its flag is set or its thread is waited for, and no button stays down on the
\* host for a gamepad that drives the mouse or has gone.
THEOREM EmulationAlwaysConsistent == Spec => []EmulationConsistent
<1>1. Init => FlagInv /\ NoButtonLeft
  BY DEF Init, FlagInv, FlagSet, Awaited, Joining, Live, HasThread, NoThread, NoButtonLeft
<1>2. FlagInv /\ NoButtonLeft => EmulationConsistent
  BY FlagInvEmulates DEF NoButtonLeft, EmulationConsistent
<1> QED BY <1>1, <1>2, FlagStep, ButtonsStep, TableInvariant, PTL DEF Spec

-----------------------------------------------------------------------------
(* Force feedback: the table.                                              *)

\* A step of the handlers with requests is a step of the handlers; a step of a request
\* changes nothing of the table.
LEMMA RumbleStepKeepsTable == RumbleStep => UNCHANGED vars
BY DEF RumbleStep, Request, Look, StopEffect, Upload, Play, Store

\* Requests of the host, in their own thread, never disturb the table, the ids, the
\* emulation threads or what the host knows of the gamepads: evdev_rumble only writes
\* haptic_effect_id.
THEOREM RumbleImplementsDevices == RumbleSpec => Spec
<1>1. RumbleInit => Init
  BY DEF RumbleInit
<1>2. [RumbleNext]_allVars => [Next]_vars
  BY RumbleStepKeepsTable DEF RumbleNext, DevicesStep, allVars
<1> QED BY <1>1, <1>2, PTL DEF RumbleSpec, Spec

\* What a handler does to the entries that stay, when it adds none and removes none.
EntriesStay ==
  /\ open' = open /\ Live' \subseteq Live
  /\ \A s \in Live' :
       /\ mem'[s].dev = mem[s].dev
       /\ mem'[s].cid = mem[s].cid \/ mem[s].cid = NoId
  /\ main'.pc = "joinRemove" => main.pc = "joinRemove" \/ num' # num

\* The entry in slot s goes and the one in slot n takes its place.
EntryGoes(s, n) ==
  /\ num' = n /\ mem' = Compacted(mem, s, n)
  /\ InUse = 0 .. n /\ Live' = 0 .. n - 1 /\ Live \ {s} = (0 .. n) \ {s}
  /\ open' = open \ {mem[s].dev}

LEMMA HandlerCases ==
  ASSUME TypeOK, JoinOK, TableInv, Next
  PROVE  \/ EntriesStay
         \/ \E d \in Devices : Create(d)
         \/ \E n \in Slots : \E s \in 0 .. n : EntryGoes(s, n)
<1>a. num \in Nat /\ Live \subseteq Slots
  BY InUseSlots DEF Live, InUse
<1>1. ASSUME NEW d \in Devices, Thread(d) PROVE EntriesStay
  BY <1>1 DEF Thread, ThreadCheck, ThreadBody, Live, EntriesStay
<1>2. CASE StartLoop \/ Signal
  BY <1>2 DEF StartLoop, Signal, TypeOK, MainState, Live, EntriesStay
<1>3. ASSUME NEW s \in Slots, HandleEvent(s)
      PROVE  EntriesStay \/ \E n \in Slots : s \in 0 .. n /\ EntryGoes(s, n)
  <2>a. Reading(s) /\ Live = 0 .. num - 1 /\ InUse = 0 .. num - 1 /\ s \in Live
    BY <1>3 DEF HandleEvent, Press, Release, Axis, EmulationOn, EmulationOff, SynAssign,
       SynReport, Remove, RemoveEmulating, ReadError, Reading, Live, InUse
  <2>b. mem[s] \in Entry /\ mem \in [Slots -> Entry]
    BY DEF TypeOK
  <2>c. ASSUME NEW e, e.dev = mem[s].dev, e.cid = mem[s].cid \/ mem[s].cid = NoId,
               mem' = [mem EXCEPT ![s] = e], open' = open, Live' \subseteq Live,
               main'.pc # "joinRemove" \/ num' # num
        PROVE  EntriesStay
    BY <2>b, <2>c, <1>a DEF EntriesStay
  <2>1. ASSUME NEW e \in Entry, NEW h, AfterGamepadEvent(s, e, h),
               e.dev = mem[s].dev, e.cid = mem[s].cid, UNCHANGED <<num, open>>
        PROVE  EntriesStay
    <3>1. Live' = Live /\ main'.pc # "joinRemove"
      BY <2>1, <2>a DEF AfterGamepadEvent, Live, Reading, TypeOK, MainState
    <3>2. PICK f \in {e, [e EXCEPT !.modified = TRUE]} : mem' = [mem EXCEPT ![s] = f]
      BY <2>1 DEF AfterGamepadEvent
    <3>3. f.dev = e.dev /\ f.cid = e.cid
      BY DEF Entry
    <3> QED BY <2>1, <2>c, <3>1, <3>2, <3>3
  <2>2. ASSUME NEW b \in Buttons, Press(s, b) \/ Release(s, b) PROVE EntriesStay
    <3>1. /\ [mem[s] EXCEPT !.btns = @ \cup {b}] \in Entry
          /\ [mem[s] EXCEPT !.btns = @ \cup {b}].dev = mem[s].dev
          /\ [mem[s] EXCEPT !.btns = @ \cup {b}].cid = mem[s].cid
          /\ Released(s, b) \in Entry
          /\ Released(s, b).dev = mem[s].dev /\ Released(s, b).cid = mem[s].cid
      BY <2>b DEF Released, Entry
    <3> QED BY <2>1, <2>2, <3>1 DEF Press, Release
  <2>3. CASE Axis(s)
    BY <2>1, <2>3, <2>b DEF Axis
  <2>4. CASE EmulationOn(s)
    <3>1. /\ [Released(s, Start) EXCEPT !.emu = TRUE] \in Entry
          /\ [Released(s, Start) EXCEPT !.emu = TRUE].dev = mem[s].dev
          /\ [Released(s, Start) EXCEPT !.emu = TRUE].cid = mem[s].cid
      BY <2>b, TableAssumption DEF Released, Entry
    <3> QED BY <2>1, <2>4, <3>1 DEF EmulationOn
  <2>5. CASE EmulationOff(s)
    <3>1. /\ [Released(s, Start) EXCEPT !.emu = FALSE].dev = mem[s].dev
          /\ [Released(s, Start) EXCEPT !.emu = FALSE].cid = mem[s].cid
      BY <2>b DEF Released, Entry
    <3>2. Live' = Live /\ main'.pc # "joinRemove"
      BY <2>5, <2>a DEF EmulationOff, Live
    <3> QED BY <2>5, <2>c, <3>1, <3>2 DEF EmulationOff
  <2>6. CASE SynAssign(s) \/ SynReport(s)
    <3>1. /\ [mem[s] EXCEPT !.cid = NextId, !.modified = FALSE].dev = mem[s].dev
          /\ [mem[s] EXCEPT !.modified = FALSE].dev = mem[s].dev
          /\ [mem[s] EXCEPT !.modified = FALSE].cid = mem[s].cid
      BY <2>b DEF Entry
    <3>2. Live' = Live /\ main'.pc # "joinRemove" /\ open' = open
      BY <2>6, <2>a DEF SynAssign, SynReport, Live, Reading
    <3> QED BY <2>6, <2>c, <3>1, <3>2 DEF SynAssign, SynReport
  <2>7. CASE Remove(s)
    <3>1. num - 1 \in Slots /\ s \in 0 .. num - 1 /\ num' = num - 1
      BY <2>7, <2>a, ReadingSlot DEF Remove, ReturnId
    <3>2. Live' = 0 .. num' - 1
      BY <2>7, <2>a DEF Remove, Reading, Live
    <3>3. EntryGoes(s, num - 1)
      BY <2>7, <2>a, <3>1, <3>2 DEF EntryGoes, Remove
    <3> QED BY <3>1, <3>3
  <2>8. CASE RemoveEmulating(s)
    <3>1. /\ [mem[s] EXCEPT !.emu = FALSE].dev = mem[s].dev
          /\ [mem[s] EXCEPT !.emu = FALSE].cid = mem[s].cid
      BY <2>b DEF Entry
    <3>2. num' = num - 1 /\ Live' = (0 .. num') \ {s}
      BY <2>8 DEF RemoveEmulating, ReturnId, Live
    <3>3. Live' \subseteq Live /\ num' # num
      BY <3>2, <2>a, <1>a
    <3> QED BY <2>8, <2>c, <3>1, <3>3 DEF RemoveEmulating
  <2>9. CASE ReadError(s)
    BY <2>9, <2>a DEF ReadError, Live, EntriesStay, TypeOK, MainState
  <2> QED BY <1>3, <2>2, <2>3, <2>4, <2>5, <2>6, <2>7, <2>8, <2>9 DEF HandleEvent
<1>4. CASE JoinedOff
  <2>1. main.slot \in Slots /\ mem[main.slot] \in Entry /\ mem \in [Slots -> Entry]
    <3>1. main.slot \in Slots
      BY <1>4, TableAssumption DEF JoinedOff, JoinOK, TypeOK, Slots
    <3> QED BY <3>1 DEF TypeOK
  <2>2. /\ [mem[main.slot] EXCEPT !.modified = TRUE].dev = mem[main.slot].dev
        /\ [mem[main.slot] EXCEPT !.modified = TRUE].cid = mem[main.slot].cid
    BY <2>1 DEF Entry
  <2>3. Live' = Live /\ main'.pc # "joinRemove"
    BY <1>4 DEF JoinedOff, Live
  <2> QED BY <1>4, <1>a, <2>1, <2>2, <2>3 DEF JoinedOff, EntriesStay
<1>5. CASE JoinedRemove
  <2>1. num \in Slots /\ main.slot \in 0 .. num
    BY <1>5 DEF JoinedRemove, JoinOK
  <2>2. EntryGoes(main.slot, num)
    BY <1>5 DEF JoinedRemove, EntryGoes, InUse, Live
  <2> QED BY <2>1, <2>2
<1>6. CASE Finished
  BY <1>6 DEF Finished, vars, Live, EntriesStay
<1> QED BY <1>1, <1>2, <1>3, <1>4, <1>5, <1>6 DEF Next

-----------------------------------------------------------------------------
(* Types.                                                                  *)

\* What is closed is the gamepad whose entry goes: EntryRemoved works on that entry.
LEMMA TheEntryThatGoes ==
  ASSUME TypeOK, JoinOK, TableInv, NEW n \in Slots, NEW s \in 0 .. n, EntryGoes(s, n),
         EntryAdded \/ EntryRemoved \/ EntriesKept
  PROVE  /\ mem[s].dev \in open
         /\ haptic' = HapticMoved(s, n)
         /\ uploaded' = [uploaded EXCEPT ![mem[s].dev] = {}]
         /\ playing' = [playing EXCEPT ![mem[s].dev] = {}]
         /\ rumbler' = rumbler
<1>1. mem[s].dev \in open /\ open' = open \ {mem[s].dev}
  BY DEF EntryGoes, TableInv
<1>2. EntryRemoved
  BY <1>1 DEF EntryAdded, EntriesKept
<1>3. PICK d \in open \ open', t \in Live \cup {main.slot} :
        /\ t # Freed /\ mem[t].dev = d
        /\ haptic' = HapticMoved(t, num')
        /\ uploaded' = [uploaded EXCEPT ![d] = {}] /\ playing' = [playing EXCEPT ![d] = {}]
        /\ UNCHANGED rumbler
  BY <1>2 DEF EntryRemoved
<1>4. d = mem[s].dev
  BY <1>1, <1>3
<1>5. t \in InUse
  BY <1>3 DEF InUse, Live, JoinOK, TableInv
<1>6. t = s
  BY <1>3, <1>4, <1>5 DEF TableInv, EntryGoes
<1> QED BY <1>1, <1>3, <1>4, <1>6 DEF EntryGoes

\* A handler adds an entry, or takes one out, or leaves haptic_effect_id alone.
LEMMA DevicesCases ==
  ASSUME TypeOK, JoinOK, TableInv, DevicesStep
  PROVE  \/ EntriesStay /\ EntriesKept
         \/ EntryAdded /\ \E d \in Devices : Create(d)
         \/ \E n \in Slots : \E s \in 0 .. n :
              /\ EntryGoes(s, n)
              /\ mem[s].dev \in open
              /\ haptic' = HapticMoved(s, n)
              /\ uploaded' = [uploaded EXCEPT ![mem[s].dev] = {}]
              /\ playing' = [playing EXCEPT ![mem[s].dev] = {}]
              /\ rumbler' = rumbler
<1>1. Next /\ (EntryAdded \/ EntryRemoved \/ EntriesKept)
  BY DEF DevicesStep
<1>2. CASE EntriesStay
  BY <1>1, <1>2 DEF EntriesStay, EntryAdded, EntryRemoved
<1>3. CASE \E d \in Devices : Create(d)
  BY <1>1, <1>3 DEF Create, EntryRemoved, EntriesKept
<1>4. CASE \E n \in Slots : \E s \in 0 .. n : EntryGoes(s, n)
  BY <1>1, <1>4, TheEntryThatGoes
<1> QED BY <1>1, <1>2, <1>3, <1>4, HandlerCases

\* The inductive form of RumbleTypeOK.
RumbleTypes ==
  /\ RumbleTypeOK
  /\ rumbler.pc # "idle" => rumbler.cid \in ControllerIds
  /\ rumbler.pc = "look" => rumbler.slot \in 0 .. Capacity
  /\ rumbler.pc \in {"play", "store"} => rumbler.id \in Effects

LEMMA IdleState ==
  /\ Idle \in RumblerState /\ Idle.pc = "idle"
  /\ \A c \in ControllerIds, on \in BOOLEAN :
       LET r == [Idle EXCEPT !.pc = "look", !.cid = c, !.on = on] IN
       r \in RumblerState /\ r.pc = "look" /\ r.cid = c /\ r.slot = 0
<1>1. 0 \in 0 .. Capacity
  BY TableAssumption
<1> QED BY <1>1 DEF Idle, RumblerState

LEMMA RumbleTypesInit == RumbleInit => RumbleTypes
<1> SUFFICES ASSUME RumbleInit PROVE RumbleTypes
  OBVIOUS
<1>1. Capacity \in Nat /\ MaxRequests \in Nat
  BY TableAssumption, RumbleAssumption
<1>2. /\ rumbler = Idle /\ requests = 0 /\ asked = {} /\ disturbed = FALSE
      /\ haptic = [s \in Slots |-> NoEffect]
      /\ uploaded = [d \in Devices |-> {}] /\ playing = [d \in Devices |-> {}]
  BY DEF RumbleInit
<1>3. /\ haptic \in [Slots -> Effects \cup {NoEffect}]
      /\ uploaded \in [Devices -> SUBSET Effects] /\ playing \in [Devices -> SUBSET Effects]
  BY <1>2
<1>4. requests \in 0 .. MaxRequests
  BY <1>1, <1>2
<1> QED BY <1>2, <1>3, <1>4, IdleState DEF RumbleTypes, RumbleTypeOK

LEMMA ReturnTypes ==
  ASSUME RumbleTypes, Return, rumbler.pc # "idle"
  PROVE  rumbler' = Idle /\ asked' \subseteq ControllerIds
BY DEF RumbleTypes, RumbleTypeOK, Return

LEMMA RumbleTypesStep ==
  TypeOK /\ JoinOK /\ TableInv /\ RumbleTypes /\ [RumbleNext]_allVars => RumbleTypes'
<1> SUFFICES ASSUME TypeOK, JoinOK, TableInv, RumbleTypes, [RumbleNext]_allVars
             PROVE  RumbleTypes'
  OBVIOUS
<1>a. num \in 0 .. Capacity /\ Capacity \in Nat /\ MaxRequests \in Nat
  BY TableAssumption, RumbleAssumption DEF TypeOK
<1>1. CASE DevicesStep
  <2>1. CASE EntriesKept
    BY <1>1, <2>1 DEF DevicesStep, EntriesKept, RumbleTypes, RumbleTypeOK, RumblerState
  <2>2. CASE EntryAdded
    <3>1. PICK moved \in BOOLEAN : rumbler' = SlotAfterRealloc(moved)
      BY <2>2 DEF EntryAdded
    <3>2. haptic' \in [Slots -> Effects \cup {NoEffect}]
      BY <2>2 DEF EntryAdded, RumbleTypes, RumbleTypeOK, RumblerState
    <3> QED BY <1>1, <2>2, <3>1, <3>2
          DEF DevicesStep, EntryAdded, SlotAfterRealloc, RumbleTypes, RumbleTypeOK, RumblerState
  <2>3. ASSUME NEW n \in Slots, NEW s \in 0 .. n,
               haptic' = HapticMoved(s, n),
               uploaded' = [uploaded EXCEPT ![mem[s].dev] = {}],
               playing' = [playing EXCEPT ![mem[s].dev] = {}],
               rumbler' = rumbler
        PROVE  RumbleTypes'
    <3>1. HapticMoved(s, n) \in [Slots -> Effects \cup {NoEffect}]
      BY DEF HapticMoved, RumbleTypes, RumbleTypeOK, RumblerState
    <3> QED BY <1>1, <2>3, <3>1 DEF DevicesStep, RumbleTypes, RumbleTypeOK, RumblerState
  <2> QED BY <1>1, <2>1, <2>2, <2>3, DevicesCases
<1>b. \A id : HapticSet(id) /\ id \in Effects \cup {NoEffect} =>
        haptic' \in [Slots -> Effects \cup {NoEffect}]
  BY DEF HapticSet, RumbleTypes, RumbleTypeOK, RumblerState
<1>2. ASSUME NEW c \in ControllerIds, NEW on \in BOOLEAN, Request(c, on) PROVE RumbleTypes'
  <2>1. rumbler' \in RumblerState /\ rumbler'.pc = "look" /\ rumbler'.cid = c /\ rumbler'.slot = 0
    BY <1>2, IdleState DEF Request
  <2>2. requests' \in 0 .. MaxRequests /\ disturbed' \in BOOLEAN
    BY <1>2, <1>a DEF Request, RumbleTypes, RumbleTypeOK, RumblerState
  <2> QED BY <1>2, <1>a, <2>1, <2>2 DEF Request, RumbleTypes, RumbleTypeOK, RumblerState
<1>i. Idle \in RumblerState /\ Idle.pc = "idle"
  BY IdleState
<1>3. CASE Look
  <2>1. CASE Return
    BY <1>3, <1>i, <2>1, ReturnTypes DEF Look, RumbleTypes, RumbleTypeOK, RumblerState
  <2>2. CASE ~Return
    BY <1>3, <1>a, <2>2 DEF Look, RumbleTypes, RumbleTypeOK, RumblerState
  <2> QED BY <2>1, <2>2
<1>4. CASE StopEffect
  <2>1. PICK id \in HapticSeen, d \in Reached :
          /\ uploaded' = Erased(uploaded, d, id) /\ playing' = Erased(playing, d, id)
          /\ IF id = NoEffect THEN UNCHANGED haptic ELSE HapticSet(NoEffect)
    BY <1>4 DEF StopEffect
  <2>2. /\ uploaded' \in [Devices -> SUBSET Effects] /\ playing' \in [Devices -> SUBSET Effects]
        /\ haptic' \in [Slots -> Effects \cup {NoEffect}]
    BY <2>1, <1>b DEF Erased, RumbleTypes, RumbleTypeOK, RumblerState
  <2>3. CASE rumbler.on
    BY <1>4, <2>2, <2>3 DEF StopEffect, RumbleTypes, RumbleTypeOK, RumblerState
  <2>4. CASE ~rumbler.on
    BY <1>4, <1>i, <2>2, <2>4, ReturnTypes DEF StopEffect, RumbleTypes, RumbleTypeOK, RumblerState
  <2> QED BY <2>3, <2>4
<1>5. CASE Upload
  <2>1. CASE Return /\ UNCHANGED uploaded
    BY <1>5, <1>i, <2>1, ReturnTypes DEF Upload, RumbleTypes, RumbleTypeOK, RumblerState
  <2>2. ASSUME NEW d \in Reached \ {NoDevice}, NEW id \in Effects \ uploaded[d],
               uploaded' = [uploaded EXCEPT ![d] = @ \cup {id}],
               rumbler' = [rumbler EXCEPT !.pc = "play", !.id = id], UNCHANGED asked
        PROVE  RumbleTypes'
    BY <1>5, <2>2 DEF Upload, RumbleTypes, RumbleTypeOK, RumblerState
  <2> QED BY <1>5, <2>1, <2>2 DEF Upload
<1>6. CASE Play
  <2>1. playing' \in [Devices -> SUBSET Effects]
    <3>1. rumbler.id \in Effects
      BY <1>6 DEF Play, RumbleTypes
    <3>2. PICK d \in Reached : playing' = IF d # NoDevice /\ rumbler.id \in uploaded[d]
                                          THEN [playing EXCEPT ![d] = @ \cup {rumbler.id}]
                                          ELSE playing
      BY <1>6 DEF Play
    <3> QED BY <3>1, <3>2 DEF RumbleTypes, RumbleTypeOK, RumblerState
  <2> QED BY <1>6, <2>1 DEF Play, RumbleTypes, RumbleTypeOK, RumblerState
<1>7. CASE Store
  BY <1>7, <1>b, <1>i, ReturnTypes DEF Store, RumbleTypes, RumbleTypeOK, RumblerState
<1>8. CASE UNCHANGED allVars
  BY <1>8 DEF allVars, rumbleVars, RumbleTypes, RumbleTypeOK, RumblerState
<1> QED BY <1>1, <1>2, <1>3, <1>4, <1>5, <1>6, <1>7, <1>8 DEF RumbleNext, RumbleStep

-----------------------------------------------------------------------------
(* The inductive invariant.                                                *)

At(s) == mem[s].dev

\* The entry in slot s between two requests: the kernel has no effect of its gamepad
\* but the one the entry remembers, which runs only if the host wants it to.
Settled(s) ==
  /\ uploaded[At(s)] \subseteq {haptic[s]}
  /\ playing[At(s)] # {} => mem[s].cid \in asked

\* How far a request has come with the entry it works on.
Worked ==
  LET d == At(rumbler.slot) IN
  /\ rumbler.pc \in {"stop", "upload", "play", "store"} =>
       rumbler.slot \in Live /\ mem[rumbler.slot].cid = rumbler.cid
  /\ rumbler.pc \in {"upload", "play", "store"} => rumbler.on
  /\ rumbler.pc = "upload" => uploaded[d] = {}
  /\ rumbler.pc \in {"play", "store"} => uploaded[d] \subseteq {rumbler.id}
  /\ rumbler.pc = "play" => playing[d] = {}

\* A request under way knows its controller by the id of one gamepad at most, no entry
\* is between two slots, and the entries it has passed over do not need it.
Underway ==
  rumbler.pc # "idle" =>
    /\ main.pc # "joinRemove"
    /\ rumbler.cid \in ControllerIds \ Shared
    /\ rumbler.slot \in Nat
    /\ rumbler.pc = "look" =>
         \A s \in Live : s < rumbler.slot /\ mem[s].cid = rumbler.cid => playing[At(s)] = {}

\* The inductive form of RumbleFollowsHost.
RumbleInv ==
  /\ \A d \in Devices \ open : uploaded[d] = {} /\ playing[d] = {}
  /\ ~disturbed =>
       /\ asked \cap Shared = {}
       /\ \A s \in Live : playing[At(s)] \subseteq uploaded[At(s)]
       /\ \A s \in Live :
            \/ Settled(s)
            \/ rumbler.pc \in {"upload", "play", "store"} /\ s = rumbler.slot
       /\ Worked /\ Underway

LEMMA RumbleInvInit == RumbleInit => RumbleInv
<1> SUFFICES ASSUME RumbleInit PROVE RumbleInv
  OBVIOUS
<1>1. Live = {} /\ rumbler.pc = "idle" /\ asked = {}
  BY DEF RumbleInit, Init, Live, Idle
<1>2. \A d \in Devices : uploaded[d] = {} /\ playing[d] = {}
  BY DEF RumbleInit
<1> QED BY <1>1, <1>2 DEF RumbleInv, Worked, Underway

\* A handler that leaves the entries where they are.
LEMMA StayStep ==
  ASSUME TypeOK, RumbleTypes, RumbleInv, EntriesStay, EntriesKept,
         disturbed' = (disturbed \/ Disturbs), asked' = asked
  PROVE  RumbleInv'
<1>1. \A d \in Devices \ open' : uploaded'[d] = {} /\ playing'[d] = {}
  BY DEF EntriesKept, RumbleInv
<1>2. ASSUME ~disturbed'
      PROVE  /\ asked' \cap Shared' = {}
             /\ \A s \in Live' : playing'[At(s)'] \subseteq uploaded'[At(s)']
             /\ \A s \in Live' :
                  \/ Settled(s)'
                  \/ rumbler'.pc \in {"upload", "play", "store"} /\ s = rumbler'.slot
             /\ Worked' /\ Underway'
  <2>a. ~disturbed /\ ~Disturbs
    BY <1>2
  <2>b. UNCHANGED <<haptic, uploaded, playing, rumbler, asked>>
    BY DEF EntriesKept
  <2>c. Shared' \cap (asked \cup {rumbler.cid}) = {} /\ (rumbler.pc # "idle" => num' = num)
    BY <2>a DEF Disturbs
  <2>d. NoId \notin asked /\ NoId \notin ControllerIds
    BY DEF RumbleTypes, RumbleTypeOK, NoId, ControllerIds
  <2>1. \A s \in Live' : s \in Live /\ At(s)' = At(s)
    BY DEF EntriesStay, At
  <2>2. ASSUME NEW s \in Live', Settled(s) PROVE Settled(s)'
    BY <2>1, <2>2, <2>b, <2>d DEF Settled, EntriesStay
  <2>3. ASSUME rumbler.pc # "idle"
        PROVE  Live' = Live /\ main'.pc # "joinRemove"
    <3>1. main.pc # "joinRemove" /\ main'.pc # "joinRemove"
      BY <2>a, <2>c, <2>3 DEF RumbleInv, Underway, EntriesStay
    <3> QED BY <2>c, <2>3, <3>1 DEF Live
  <2>4. Worked'
    <3>1. ASSUME rumbler.pc \in {"stop", "upload", "play", "store"}
          PROVE  /\ rumbler.slot \in Live /\ rumbler.slot \in Live'
                 /\ mem'[rumbler.slot].cid = rumbler.cid
                 /\ mem'[rumbler.slot].dev = mem[rumbler.slot].dev
      <4>1. /\ rumbler.slot \in Live /\ rumbler.slot \in Live'
            /\ mem[rumbler.slot].cid = rumbler.cid /\ rumbler.cid \in ControllerIds
        BY <3>1, <2>3, <2>a DEF RumbleInv, Worked, RumbleTypes
      <4> QED BY <2>d, <4>1 DEF EntriesStay
    <3>2. Worked
      BY <2>a DEF RumbleInv
    <3> QED BY <3>1, <3>2, <2>b DEF Worked, At
  <2>5. Underway'
    <3> SUFFICES ASSUME rumbler.pc # "idle" PROVE Underway'
      BY <2>b DEF Underway
    <3>1. main'.pc # "joinRemove" /\ rumbler.cid \in ControllerIds \ Shared' /\ rumbler.slot \in Nat
      BY <2>3, <2>c, <2>a DEF RumbleInv, Underway, RumbleTypes
    <3>2. ASSUME rumbler.pc = "look", NEW s \in Live', s < rumbler.slot,
                 mem'[s].cid = rumbler.cid
          PROVE  playing[At(s)] = {}
      <4>1. s \in Live /\ (mem[s].cid = rumbler.cid \/ mem[s].cid = NoId)
        BY <2>1, <3>2 DEF EntriesStay
      <4>2. Settled(s)
        BY <2>a, <3>2, <4>1 DEF RumbleInv
      <4> QED BY <2>a, <2>d, <3>2, <4>1, <4>2 DEF RumbleInv, Underway, Settled
    <3> QED BY <2>1, <2>b, <3>1, <3>2 DEF Underway
  <2>6. \A s \in Live' : playing'[At(s)'] \subseteq uploaded'[At(s)']
    BY <2>1, <2>a, <2>b DEF RumbleInv
  <2>7. \A s \in Live' :
          \/ Settled(s)'
          \/ rumbler'.pc \in {"upload", "play", "store"} /\ s = rumbler'.slot
    BY <2>1, <2>2, <2>a, <2>b DEF RumbleInv
  <2> QED BY <2>b, <2>c, <2>4, <2>5, <2>6, <2>7
<1> QED BY <1>1, <1>2 DEF RumbleInv

\* Between requests, RumbleInv says this of the table.
LEMMA BetweenRequests ==
  ASSUME rumbler'.pc = "idle" \/ disturbed',
         \A d \in Devices \ open' : uploaded'[d] = {} /\ playing'[d] = {},
         ~disturbed' =>
           /\ asked' \cap Shared' = {}
           /\ \A s \in Live' : playing'[At(s)'] \subseteq uploaded'[At(s)'] /\ Settled(s)'
  PROVE  RumbleInv'
BY DEF RumbleInv, Worked, Underway

\* A new entry: its gamepad has no effect yet.
LEMMA AddedStep ==
  ASSUME TypeOK, RumbleTypes, RumbleInv, NEW d \in Devices, Create(d), EntryAdded,
         disturbed' = (disturbed \/ Disturbs), asked' = asked
  PROVE  RumbleInv'
<1>1. open' = open \cup {d} /\ d \notin open /\ UNCHANGED <<uploaded, playing>>
  BY DEF Create, EntryAdded
<1>2. ASSUME ~disturbed'
      PROVE  /\ asked' \cap Shared' = {}
             /\ \A s \in Live' : playing'[At(s)'] \subseteq uploaded'[At(s)'] /\ Settled(s)'
  <2>1. ~disturbed /\ rumbler.pc = "idle" /\ Shared' \cap asked = {}
    BY <1>1, <1>2 DEF Disturbs
  <2>2. num \in Slots /\ Live = 0 .. num - 1 /\ Live' = 0 .. num
    BY TableAssumption DEF Create, TypeOK, Live, Slots
  <2>3. mem' = [mem EXCEPT ![num] = Fresh(d)] /\ haptic' = [haptic EXCEPT ![num] = NoEffect]
    BY DEF Create, EntryAdded
  <2>4. ASSUME NEW s \in Live', s # num
        PROVE  s \in Live /\ mem'[s] = mem[s] /\ haptic'[s] = haptic[s]
    BY <2>2, <2>3, <2>4 DEF TypeOK, RumbleTypes, RumbleTypeOK, Slots
  <2>5. mem'[num].dev = d /\ uploaded[d] = {} /\ playing[d] = {}
    BY <1>1, <2>2, <2>3 DEF TypeOK, Fresh, NoEntry, RumbleInv
  <2>6. ASSUME NEW s \in Live' PROVE playing'[At(s)'] \subseteq uploaded'[At(s)'] /\ Settled(s)'
    <3>1. CASE s = num
      BY <1>1, <2>5, <3>1 DEF At, Settled
    <3>2. CASE s # num
      BY <1>1, <2>1, <2>4, <3>2 DEF At, Settled, RumbleInv
    <3> QED BY <3>1, <3>2
  <2> QED BY <2>1, <2>6
<1>3. rumbler'.pc = "idle" \/ disturbed'
  <2>1. PICK moved \in BOOLEAN : rumbler' = SlotAfterRealloc(moved)
    BY DEF EntryAdded
  <2> QED BY <1>1, <2>1 DEF Disturbs, SlotAfterRealloc
<1>4. \A e \in Devices \ open' : uploaded'[e] = {} /\ playing'[e] = {}
  BY <1>1 DEF RumbleInv
<1> QED BY <1>2, <1>3, <1>4, BetweenRequests

\* An entry goes, and its effects with it; the one that takes its place keeps its own.
LEMMA GoneStep ==
  ASSUME TypeOK, TableInv, RumbleTypes, RumbleInv,
         NEW n \in Slots, NEW s \in 0 .. n, EntryGoes(s, n),
         mem[s].dev \in open, haptic' = HapticMoved(s, n),
         uploaded' = [uploaded EXCEPT ![mem[s].dev] = {}],
         playing' = [playing EXCEPT ![mem[s].dev] = {}],
         rumbler' = rumbler,
         disturbed' = (disturbed \/ Disturbs), asked' = asked
  PROVE  RumbleInv'
<1>a. uploaded \in [Devices -> SUBSET Effects] /\ playing \in [Devices -> SUBSET Effects]
  BY DEF RumbleTypes, RumbleTypeOK
<1>b. mem[s].dev \in Devices /\ open' = open \ {mem[s].dev}
  BY DEF TypeOK, EntryGoes
<1>1. \A e \in Devices \ open' : uploaded'[e] = {} /\ playing'[e] = {}
  BY <1>a, <1>b DEF RumbleInv
<1>2. ASSUME ~disturbed'
      PROVE  /\ asked' \cap Shared' = {}
             /\ \A t \in Live' : playing'[At(t)'] \subseteq uploaded'[At(t)'] /\ Settled(t)'
  <2>1. ~disturbed /\ rumbler.pc = "idle" /\ Shared' \cap asked = {}
    BY <1>b, <1>2 DEF Disturbs
  <2>2. ASSUME NEW t \in Live' PROVE playing'[At(t)'] \subseteq uploaded'[At(t)'] /\ Settled(t)'
    <3> DEFINE u == Origin(s, n, t)
    <3>1. t \in 0 .. n - 1
      BY DEF EntryGoes
    <3>2. u \in Live /\ u \in InUse /\ u # s /\ mem'[t] = mem[u]
      BY <3>1, CompactedMoves DEF EntryGoes, TypeOK
    <3>3. haptic'[t] = haptic[u]
      <4>1. t \in Slots
        BY <3>1, TableAssumption DEF Slots
      <4> QED BY <3>1, <4>1 DEF HapticMoved, Origin, RumbleTypes, RumbleTypeOK, Slots
    <3>4. At(u) # mem[s].dev
      BY <3>2 DEF At, TableInv, EntryGoes
    <3>5. uploaded'[At(u)] = uploaded[At(u)] /\ playing'[At(u)] = playing[At(u)]
      <4>1. At(u) \in Devices
        BY <3>2 DEF At, TableInv, TypeOK
      <4> QED BY <3>4, <4>1, <1>a
    <3>6. playing[At(u)] \subseteq uploaded[At(u)] /\ Settled(u)
      BY <2>1, <3>2 DEF RumbleInv
    <3>7. At(t)' = At(u)
      BY <3>2 DEF At
    <3> HIDE DEF u
    <3> QED BY <3>2, <3>3, <3>5, <3>6, <3>7 DEF Settled
  <2> QED BY <2>1, <2>2
<1>3. rumbler'.pc = "idle" \/ disturbed'
  BY <1>b DEF Disturbs
<1> QED BY <1>1, <1>2, <1>3, BetweenRequests

\* A step of a request keeps the table, and with it the slots and the shared ids.
LEMMA SameTable ==
  ASSUME UNCHANGED vars
  PROVE  /\ Live' = Live /\ Shared' = Shared /\ open' = open /\ mem' = mem /\ main' = main
         /\ num' = num
         /\ \A s : At(s)' = At(s)
BY DEF vars, Live, Shared, At

\* The entry an undisturbed request works on is the only one with its gamepad and its id.
LEMMA TheEntry ==
  ASSUME TypeOK, JoinOK, TableInv, RumbleTypes, RumbleInv, ~disturbed,
         rumbler.pc \in {"stop", "upload", "play", "store"}
  PROVE  /\ rumbler.slot \in Live /\ rumbler.slot \in Slots /\ rumbler.slot # Freed
         /\ At(rumbler.slot) \in Devices /\ Reached = {At(rumbler.slot)}
         /\ HapticSeen = {haptic[rumbler.slot]}
         /\ \A s \in Live \ {rumbler.slot} :
              At(s) # At(rumbler.slot) /\ mem[s].cid # rumbler.cid
         /\ Live \subseteq Slots /\ \A s \in Live : At(s) \in Devices
<1>1. rumbler.slot \in Live /\ mem[rumbler.slot].cid = rumbler.cid
      /\ rumbler.cid \in ControllerIds \ Shared
  BY DEF RumbleInv, Worked, Underway
<1>2. Live \subseteq InUse /\ Live \subseteq Slots
  BY InUseSlots DEF Live, InUse
<1>3. rumbler.slot # Freed /\ \A s \in Live : At(s) \in open /\ At(s) \in Devices
  BY <1>1, <1>2 DEF TableInv, At, TypeOK, Slots, Freed
<1>4. \A s \in Live \ {rumbler.slot} : At(s) # At(rumbler.slot)
  BY <1>1, <1>2 DEF TableInv, At
<1>5. \A s \in Live \ {rumbler.slot} : mem[s].cid # rumbler.cid
  BY <1>1 DEF Shared
<1> QED BY <1>1, <1>2, <1>3, <1>4, <1>5 DEF Reached, HapticSeen, At

\* The end of a request.
LEMMA ReturnStep ==
  ASSUME RumbleInv, Return, UNCHANGED vars, disturbed' = disturbed, rumbler.pc # "idle",
         \A d \in Devices \ open : uploaded'[d] = {} /\ playing'[d] = {},
         ~disturbed => \A s \in Live :
           /\ playing'[At(s)] \subseteq uploaded'[At(s)]
           /\ uploaded'[At(s)] \subseteq {haptic'[s]}
           /\ playing'[At(s)] # {} => mem[s].cid \in asked'
  PROVE  RumbleInv'
<1>1. rumbler'.pc = "idle"
  BY DEF Return, Idle
<1>2. ASSUME ~disturbed' PROVE asked' \cap Shared' = {}
  BY <1>2, SameTable DEF RumbleInv, Underway, Return
<1>3. ASSUME ~disturbed', NEW s \in Live'
      PROVE  playing'[At(s)'] \subseteq uploaded'[At(s)'] /\ Settled(s)'
  BY <1>3, SameTable DEF Settled
<1> QED BY <1>1, <1>2, <1>3, SameTable, BetweenRequests

LEMMA RequestStep ==
  ASSUME RumbleTypes, RumbleInv,
         NEW c \in ControllerIds, NEW on \in BOOLEAN, Request(c, on)
  PROVE  RumbleInv'
<1>0. UNCHANGED <<vars, haptic, uploaded, playing, asked>> /\ rumbler.pc = "idle"
  BY DEF Request
<1>1. rumbler' \in RumblerState /\ rumbler'.pc = "look" /\ rumbler'.cid = c /\ rumbler'.slot = 0
  BY IdleState DEF Request
<1>2. ASSUME ~disturbed'
      PROVE  ~disturbed /\ c \notin Shared /\ main.pc # "joinRemove"
  BY <1>2 DEF Request
<1>3. \A s \in Live : ~(s < 0)
  BY DEF Live
<1>4. ASSUME ~disturbed' PROVE Worked' /\ Underway'
  <2>1. rumbler'.pc # "idle" /\ rumbler'.pc \notin {"stop", "upload", "play", "store"}
    BY <1>1
  <2>2. Worked'
    BY <2>1 DEF Worked
  <2>3. Underway'
    BY <1>0, <1>1, <1>2, <1>3, <1>4, SameTable DEF Underway
  <2> QED BY <2>2, <2>3
<1>5. ASSUME ~disturbed', NEW s \in Live'
      PROVE  playing'[At(s)'] \subseteq uploaded'[At(s)'] /\ Settled(s)'
  BY <1>0, <1>2, <1>5, SameTable DEF RumbleInv, Settled
<1>6. ~disturbed' => asked' \cap Shared' = {}
  BY <1>0, <1>2, SameTable DEF RumbleInv
<1>7. \A d \in Devices \ open' : uploaded'[d] = {} /\ playing'[d] = {}
  BY <1>0, SameTable DEF RumbleInv
<1> QED BY <1>4, <1>5, <1>6, <1>7 DEF RumbleInv

\* A request goes on: what it may not disturb is the rest.
LEMMA GoesOn ==
  ASSUME UNCHANGED vars, UNCHANGED <<asked, disturbed>>, RumbleInv,
         \A d \in Devices \ open : uploaded'[d] = {} /\ playing'[d] = {},
         rumbler'.pc # "idle", rumbler'.cid = rumbler.cid, rumbler.pc # "idle",
         rumbler'.slot \in Nat \/ disturbed,
         ~disturbed =>
           /\ \A s \in Live : playing'[At(s)] \subseteq uploaded'[At(s)]
           /\ \A s \in Live :
                \/ /\ uploaded'[At(s)] \subseteq {haptic'[s]}
                   /\ playing'[At(s)] # {} => mem[s].cid \in asked
                \/ rumbler'.pc \in {"upload", "play", "store"} /\ s = rumbler'.slot
           /\ Worked'
           /\ rumbler'.pc = "look" =>
                \A s \in Live : s < rumbler'.slot /\ mem[s].cid = rumbler.cid
                                => playing'[At(s)] = {}
  PROVE  RumbleInv'
<1>1. ~disturbed' => Underway'
  BY SameTable DEF RumbleInv, Underway
<1>2. ASSUME ~disturbed', NEW s \in Live'
      PROVE  /\ playing'[At(s)'] \subseteq uploaded'[At(s)']
             /\ \/ Settled(s)'
                \/ rumbler'.pc \in {"upload", "play", "store"} /\ s = rumbler'.slot
  BY <1>2, SameTable DEF Settled
<1>3. ~disturbed' => asked' \cap Shared' = {} /\ Worked'
  BY SameTable DEF RumbleInv
<1>4. \A d \in Devices \ open' : uploaded'[d] = {} /\ playing'[d] = {}
  BY SameTable
<1> QED BY <1>1, <1>2, <1>3, <1>4 DEF RumbleInv

\* What RumbleInv says of the entries when no request has stopped an effect yet.
LEMMA AllSettled ==
  ASSUME RumbleInv, ~disturbed, rumbler.pc \notin {"upload", "play", "store"}
  PROVE  \A s \in Live : playing[At(s)] \subseteq uploaded[At(s)] /\ Settled(s)
BY DEF RumbleInv

LEMMA LookStep ==
  ASSUME TypeOK, RumbleTypes, RumbleInv, Look
  PROVE  RumbleInv'
<1>1. UNCHANGED <<vars, haptic, uploaded, playing, requests, disturbed>> /\ rumbler.pc = "look"
  BY DEF Look
<1>2. rumbler.slot \in 0 .. Capacity /\ num \in 0 .. Capacity /\ rumbler \in RumblerState
  BY <1>1 DEF TypeOK, RumbleTypes, RumbleTypeOK
<1>3. \A d \in Devices \ open : uploaded'[d] = {} /\ playing'[d] = {}
  BY <1>1 DEF RumbleInv
<1>4. ASSUME ~disturbed
      PROVE  /\ Live = 0 .. num - 1
             /\ \A s \in Live : s < rumbler.slot /\ mem[s].cid = rumbler.cid => playing[At(s)] = {}
             /\ \A s \in Live : playing[At(s)] \subseteq uploaded[At(s)] /\ Settled(s)
  <2>1. Underway
    BY <1>4 DEF RumbleInv
  <2> QED BY <1>1, <1>4, <2>1, AllSettled DEF Underway, Live
<1>5. CASE rumbler.slot >= num /\ Return
  <2>1. ASSUME ~disturbed, NEW s \in Live
        PROVE  /\ playing'[At(s)] \subseteq uploaded'[At(s)]
               /\ uploaded'[At(s)] \subseteq {haptic'[s]}
               /\ playing'[At(s)] # {} => mem[s].cid \in asked'
    <3>1. s < rumbler.slot
      BY <1>2, <1>4, <1>5, <2>1 DEF TypeOK
    <3> QED BY <1>1, <1>4, <1>5, <2>1, <3>1 DEF Settled, Return
  <2> QED BY <1>1, <1>3, <1>5, <2>1, ReturnStep
<1>6. CASE /\ rumbler.slot < num /\ mem[rumbler.slot].cid = rumbler.cid
           /\ rumbler' = [rumbler EXCEPT !.pc = "stop"] /\ UNCHANGED asked
  <2>1. rumbler'.pc = "stop" /\ rumbler'.slot = rumbler.slot /\ rumbler'.cid = rumbler.cid
    BY <1>2, <1>6 DEF RumblerState
  <2>2. ASSUME ~disturbed PROVE Worked'
    <3>1. rumbler.slot \in Live' /\ mem' = mem
      BY <1>1, <1>2, <1>4, <1>6, <2>2, SameTable
    <3> QED BY <1>6, <2>1, <3>1 DEF Worked
  <2> QED BY <1>1, <1>2, <1>3, <1>4, <1>6, <2>1, <2>2, GoesOn DEF Settled
<1>7. CASE /\ rumbler.slot < num /\ mem[rumbler.slot].cid # rumbler.cid
           /\ rumbler' = [rumbler EXCEPT !.slot = @ + 1] /\ UNCHANGED asked
  <2>1. rumbler'.pc = "look" /\ rumbler'.slot = rumbler.slot + 1 /\ rumbler'.cid = rumbler.cid
    BY <1>1, <1>2, <1>7 DEF RumblerState
  <2>2. Worked'
    BY <2>1 DEF Worked
  <2>3. ASSUME ~disturbed, NEW s \in Live, s < rumbler'.slot, mem[s].cid = rumbler.cid
        PROVE  playing'[At(s)] = {}
    <3>1. s < rumbler.slot
      BY <1>2, <1>4, <1>7, <2>1, <2>3
    <3> QED BY <1>1, <1>4, <2>3, <3>1
  <2> QED BY <1>1, <1>2, <1>3, <1>4, <1>7, <2>1, <2>2, <2>3, GoesOn DEF Settled
<1> QED BY <1>5, <1>6, <1>7 DEF Look

LEMMA StopStep ==
  ASSUME TypeOK, JoinOK, TableInv, RumbleTypes, RumbleInv, StopEffect
  PROVE  RumbleInv'
<1>1. UNCHANGED <<vars, requests, disturbed>> /\ rumbler.pc = "stop" /\ rumbler \in RumblerState
  BY DEF StopEffect, RumbleTypes, RumbleTypeOK
<1>2. PICK id \in HapticSeen, d \in Reached :
        /\ uploaded' = Erased(uploaded, d, id) /\ playing' = Erased(playing, d, id)
        /\ IF id = NoEffect THEN UNCHANGED haptic ELSE HapticSet(NoEffect)
  BY DEF StopEffect
<1>3. \A e \in Devices \ open : uploaded'[e] = {} /\ playing'[e] = {}
  BY <1>2 DEF Erased, RumbleInv
<1>4. ASSUME ~disturbed
      PROVE  /\ uploaded'[At(rumbler.slot)] = {} /\ playing'[At(rumbler.slot)] = {}
             /\ \A s \in Live \ {rumbler.slot} :
                  /\ uploaded'[At(s)] = uploaded[At(s)] /\ playing'[At(s)] = playing[At(s)]
                  /\ haptic'[s] = haptic[s] /\ mem[s].cid # rumbler.cid
  <2>1. d = At(rumbler.slot) /\ id = haptic[rumbler.slot]
    BY <1>1, <1>2, <1>4, TheEntry
  <2>2. uploaded[d] \subseteq {id} /\ playing[d] \subseteq uploaded[d] /\ d \in Devices
    BY <1>1, <1>4, <2>1, TheEntry, AllSettled DEF Settled
  <2>3. ASSUME NEW s \in Live \ {rumbler.slot}
        PROVE  At(s) # d /\ At(s) \in Devices /\ s \in Slots /\ mem[s].cid # rumbler.cid
    BY <1>1, <1>4, <2>1, TheEntry
  <2>4. \A s \in Live \ {rumbler.slot} : haptic'[s] = haptic[s]
    BY <1>2, <2>3 DEF HapticSet, RumbleTypes, RumbleTypeOK
  <2> QED BY <1>2, <2>1, <2>2, <2>3, <2>4 DEF Erased
<1>5. CASE ~rumbler.on
  <2>1. Return
    BY <1>5 DEF StopEffect
  <2>2. ASSUME ~disturbed, NEW s \in Live
        PROVE  /\ playing'[At(s)] \subseteq uploaded'[At(s)]
               /\ uploaded'[At(s)] \subseteq {haptic'[s]}
               /\ playing'[At(s)] # {} => mem[s].cid \in asked'
    <3>1. CASE s = rumbler.slot
      BY <1>4, <2>2, <3>1
    <3>2. CASE s # rumbler.slot
      BY <1>1, <1>4, <1>5, <2>1, <2>2, <3>2, AllSettled DEF Settled, Return
    <3> QED BY <3>1, <3>2
  <2> QED BY <1>1, <1>3, <2>1, <2>2, ReturnStep
<1>6. CASE rumbler.on
  <2>1. rumbler' = [rumbler EXCEPT !.pc = "upload"] /\ UNCHANGED asked
    BY <1>6 DEF StopEffect
  <2>2. rumbler'.pc = "upload" /\ rumbler'.slot = rumbler.slot /\ rumbler'.cid = rumbler.cid
        /\ rumbler'.on
    BY <1>1, <1>6, <2>1 DEF RumblerState
  <2>3. ASSUME ~disturbed PROVE Worked' /\ rumbler.slot \in Nat
    <3>1. rumbler.slot \in Live' /\ mem'[rumbler.slot].cid = rumbler.cid /\ rumbler.slot \in Nat
      BY <1>1, <2>3, SameTable DEF RumbleInv, Worked, Underway
    <3>2. mem'[rumbler'.slot].dev = At(rumbler.slot)
      BY <1>1, <2>2, SameTable DEF At
    <3> QED BY <1>4, <2>2, <2>3, <3>1, <3>2 DEF Worked, At
  <2>4. ASSUME ~disturbed, NEW s \in Live
        PROVE  /\ playing'[At(s)] \subseteq uploaded'[At(s)]
               /\ \/ /\ uploaded'[At(s)] \subseteq {haptic'[s]}
                     /\ playing'[At(s)] # {} => mem[s].cid \in asked
                  \/ rumbler'.pc \in {"upload", "play", "store"} /\ s = rumbler'.slot
    <3>1. CASE s = rumbler.slot
      BY <1>4, <2>2, <2>4, <3>1
    <3>2. CASE s # rumbler.slot
      BY <1>1, <1>4, <2>4, <3>2, AllSettled DEF Settled
    <3> QED BY <3>1, <3>2
  <2> QED BY <1>1, <1>3, <2>1, <2>2, <2>3, <2>4, GoesOn
<1> QED BY <1>5, <1>6

LEMMA UploadStep ==
  ASSUME TypeOK, JoinOK, TableInv, RumbleTypes, RumbleInv, Upload
  PROVE  RumbleInv'
<1>1. /\ UNCHANGED <<vars, haptic, playing, requests, disturbed>>
      /\ rumbler.pc = "upload" /\ rumbler \in RumblerState
      /\ uploaded \in [Devices -> SUBSET Effects]
  BY DEF Upload, RumbleTypes, RumbleTypeOK
<1>2. ASSUME ~disturbed
      PROVE  /\ rumbler.on /\ uploaded[At(rumbler.slot)] = {}
             /\ \A s \in Live : playing[At(s)] \subseteq uploaded[At(s)]
             /\ \A s \in Live \ {rumbler.slot} : Settled(s)
  BY <1>1, <1>2 DEF RumbleInv, Worked
<1>3. CASE Return /\ UNCHANGED uploaded
  <2>1. \A d \in Devices \ open : uploaded'[d] = {} /\ playing'[d] = {}
    BY <1>1, <1>3 DEF RumbleInv
  <2>2. ASSUME ~disturbed, NEW s \in Live
        PROVE  /\ playing'[At(s)] \subseteq uploaded'[At(s)]
               /\ uploaded'[At(s)] \subseteq {haptic'[s]}
               /\ playing'[At(s)] # {} => mem[s].cid \in asked'
    <3>1. CASE s = rumbler.slot
      BY <1>1, <1>2, <1>3, <2>2, <3>1
    <3>2. CASE s # rumbler.slot
      BY <1>1, <1>2, <1>3, <2>2, <3>2 DEF Settled, Return
    <3> QED BY <3>1, <3>2
  <2> QED BY <1>1, <1>3, <2>1, <2>2, ReturnStep
<1>4. ASSUME NEW d \in Reached \ {NoDevice}, NEW id \in Effects \ uploaded[d],
             uploaded' = [uploaded EXCEPT ![d] = @ \cup {id}],
             rumbler' = [rumbler EXCEPT !.pc = "play", !.id = id], UNCHANGED asked
      PROVE  RumbleInv'
  <2>1. d \in open
    BY <1>4 DEF Reached
  <2>2. \A e \in Devices \ open : uploaded'[e] = {} /\ playing'[e] = {}
    BY <1>1, <1>4, <2>1 DEF RumbleInv
  <2>3. /\ rumbler'.pc = "play" /\ rumbler'.slot = rumbler.slot /\ rumbler'.cid = rumbler.cid
        /\ rumbler'.on = rumbler.on /\ rumbler'.id = id
    BY <1>1, <1>4 DEF RumblerState
  <2>4. ASSUME ~disturbed
        PROVE  /\ uploaded'[At(rumbler.slot)] = {id} /\ playing'[At(rumbler.slot)] = {}
               /\ \A s \in Live \ {rumbler.slot} : uploaded'[At(s)] = uploaded[At(s)]
    <3>1. d = At(rumbler.slot) /\ d \in Devices
      BY <1>1, <2>4, TheEntry
    <3>2. \A s \in Live \ {rumbler.slot} : At(s) # d /\ At(s) \in Devices
      BY <1>1, <2>4, <3>1, TheEntry
    <3>3. playing[d] = {}
      BY <1>1, <1>2, <2>4, <3>1, TheEntry
    <3> QED BY <1>1, <1>2, <1>4, <2>4, <3>1, <3>2, <3>3
  <2>5. ASSUME ~disturbed PROVE Worked' /\ rumbler.slot \in Nat
    <3>1. rumbler.slot \in Live' /\ mem'[rumbler.slot].cid = rumbler.cid /\ rumbler.slot \in Nat
      BY <1>1, <2>5, SameTable DEF RumbleInv, Worked, Underway
    <3>2. mem'[rumbler'.slot].dev = At(rumbler.slot)
      BY <1>1, <2>3, SameTable DEF At
    <3> QED BY <1>2, <2>3, <2>4, <2>5, <3>1, <3>2 DEF Worked, At
  <2>6. ASSUME ~disturbed, NEW s \in Live
        PROVE  /\ playing'[At(s)] \subseteq uploaded'[At(s)]
               /\ \/ /\ uploaded'[At(s)] \subseteq {haptic'[s]}
                     /\ playing'[At(s)] # {} => mem[s].cid \in asked
                  \/ rumbler'.pc \in {"upload", "play", "store"} /\ s = rumbler'.slot
    <3>1. CASE s = rumbler.slot
      BY <2>3, <2>4, <2>6, <3>1
    <3>2. CASE s # rumbler.slot
      BY <1>1, <1>2, <2>4, <2>6, <3>2 DEF Settled
    <3> QED BY <3>1, <3>2
  <2> QED BY <1>1, <1>4, <2>2, <2>3, <2>5, <2>6, GoesOn
<1> QED BY <1>3, <1>4 DEF Upload

LEMMA PlayStep ==
  ASSUME TypeOK, JoinOK, TableInv, RumbleTypes, RumbleInv, Play
  PROVE  RumbleInv'
<1>1. /\ UNCHANGED <<vars, haptic, uploaded, requests, asked, disturbed>>
      /\ rumbler.pc = "play" /\ rumbler' = [rumbler EXCEPT !.pc = "store"]
      /\ rumbler \in RumblerState /\ playing \in [Devices -> SUBSET Effects]
  BY DEF Play, RumbleTypes, RumbleTypeOK
<1>2. PICK d \in Reached : playing' = IF d # NoDevice /\ rumbler.id \in uploaded[d]
                                      THEN [playing EXCEPT ![d] = @ \cup {rumbler.id}]
                                      ELSE playing
  BY DEF Play
<1>3. d # NoDevice => d \in open
  BY DEF Reached
<1>4. \A e \in Devices \ open : uploaded'[e] = {} /\ playing'[e] = {}
  BY <1>1, <1>2, <1>3 DEF RumbleInv
<1>5. /\ rumbler'.pc = "store" /\ rumbler'.slot = rumbler.slot /\ rumbler'.cid = rumbler.cid
      /\ rumbler'.on = rumbler.on /\ rumbler'.id = rumbler.id
  BY <1>1 DEF RumblerState
<1>6. ASSUME ~disturbed
      PROVE  /\ playing'[At(rumbler.slot)] \subseteq uploaded[At(rumbler.slot)]
             /\ \A s \in Live \ {rumbler.slot} : playing'[At(s)] = playing[At(s)]
  <2>1. d = At(rumbler.slot) /\ playing[d] \subseteq uploaded[d] /\ d \in Devices
    BY <1>1, <1>6, TheEntry DEF RumbleInv
  <2>2. \A s \in Live \ {rumbler.slot} : At(s) # d
    BY <1>1, <1>6, <2>1, TheEntry
  <2> QED BY <1>1, <1>2, <2>1, <2>2
<1>7. ASSUME ~disturbed PROVE Worked' /\ rumbler.slot \in Nat
  <2>1. /\ rumbler.slot \in Live' /\ mem'[rumbler.slot].cid = rumbler.cid /\ rumbler.slot \in Nat
        /\ rumbler.on /\ uploaded[At(rumbler.slot)] \subseteq {rumbler.id}
    BY <1>1, <1>7, SameTable DEF RumbleInv, Worked, Underway
  <2>2. mem'[rumbler'.slot].dev = At(rumbler.slot)
    BY <1>1, <1>5, SameTable DEF At
  <2> QED BY <1>1, <1>5, <2>1, <2>2 DEF Worked, At
<1>8. ASSUME ~disturbed, NEW s \in Live
      PROVE  /\ playing'[At(s)] \subseteq uploaded'[At(s)]
             /\ \/ /\ uploaded'[At(s)] \subseteq {haptic'[s]}
                   /\ playing'[At(s)] # {} => mem[s].cid \in asked
                \/ rumbler'.pc \in {"upload", "play", "store"} /\ s = rumbler'.slot
  <2>1. CASE s = rumbler.slot
    BY <1>1, <1>5, <1>6, <1>8, <2>1
  <2>2. CASE s # rumbler.slot
    BY <1>1, <1>6, <1>8, <2>2 DEF RumbleInv, Settled
  <2> QED BY <2>1, <2>2
<1> QED BY <1>1, <1>4, <1>5, <1>7, <1>8, GoesOn

LEMMA StoreStep ==
  ASSUME TypeOK, JoinOK, TableInv, RumbleTypes, RumbleInv, Store
  PROVE  RumbleInv'
<1>1. /\ UNCHANGED <<vars, uploaded, playing, requests, disturbed>>
      /\ rumbler.pc = "store" /\ HapticSet(rumbler.id) /\ Return
      /\ haptic \in [Slots -> Effects \cup {NoEffect}]
  BY DEF Store, RumbleTypes, RumbleTypeOK
<1>2. \A d \in Devices \ open : uploaded'[d] = {} /\ playing'[d] = {}
  BY <1>1 DEF RumbleInv
<1>3. ASSUME ~disturbed, NEW s \in Live
      PROVE  /\ playing'[At(s)] \subseteq uploaded'[At(s)]
             /\ uploaded'[At(s)] \subseteq {haptic'[s]}
             /\ playing'[At(s)] # {} => mem[s].cid \in asked'
  <2>1. /\ rumbler.on /\ uploaded[At(rumbler.slot)] \subseteq {rumbler.id}
        /\ mem[rumbler.slot].cid = rumbler.cid
        /\ playing[At(s)] \subseteq uploaded[At(s)]
    BY <1>1, <1>3 DEF RumbleInv, Worked
  <2>2. rumbler.slot \in Slots /\ rumbler.slot # Freed /\ s \in Slots
    BY <1>1, <1>3, TheEntry
  <2>3. asked' = asked \cup {rumbler.cid} /\ haptic' = [haptic EXCEPT ![rumbler.slot] = rumbler.id]
    BY <1>1, <2>1, <2>2 DEF Return, HapticSet
  <2>4. CASE s = rumbler.slot
    BY <1>1, <2>1, <2>2, <2>3, <2>4
  <2>5. CASE s # rumbler.slot
    <3>1. Settled(s)
      BY <1>3, <2>5 DEF RumbleInv
    <3> QED BY <1>1, <2>1, <2>2, <2>3, <2>5, <3>1 DEF Settled
  <2> QED BY <2>4, <2>5
<1> QED BY <1>1, <1>2, <1>3, ReturnStep

LEMMA RumbleInvStep ==
  TypeOK /\ JoinOK /\ TableInv /\ RumbleTypes /\ RumbleInv /\ [RumbleNext]_allVars => RumbleInv'
<1> SUFFICES ASSUME TypeOK, JoinOK, TableInv, RumbleTypes, RumbleInv, [RumbleNext]_allVars
             PROVE  RumbleInv'
  OBVIOUS
<1>1. CASE DevicesStep
  <2>1. disturbed' = (disturbed \/ Disturbs) /\ asked' = asked
    BY <1>1 DEF DevicesStep
  <2>2. CASE EntriesStay /\ EntriesKept
    BY <2>1, <2>2, StayStep
  <2>3. ASSUME EntryAdded, NEW d \in Devices, Create(d) PROVE RumbleInv'
    BY <2>1, <2>3, AddedStep
  <2>4. ASSUME NEW n \in Slots, NEW s \in 0 .. n,
               EntryGoes(s, n), mem[s].dev \in open, haptic' = HapticMoved(s, n),
               uploaded' = [uploaded EXCEPT ![mem[s].dev] = {}],
               playing' = [playing EXCEPT ![mem[s].dev] = {}], rumbler' = rumbler
        PROVE  RumbleInv'
    BY <2>1, <2>4, GoneStep
  <2> QED BY <1>1, <2>2, <2>3, <2>4, DevicesCases
<1>2. CASE RumbleStep
  BY <1>2, RequestStep, LookStep, StopStep, UploadStep, PlayStep, StoreStep DEF RumbleStep
<1>3. CASE UNCHANGED allVars
  BY <1>3 DEF allVars, vars, rumbleVars, RumbleInv, Settled, Worked, Underway, At, Live, Shared
<1> QED BY <1>1, <1>2, <1>3 DEF RumbleNext

\* What the table, the types and the invariant say together.
LEMMA FollowsHost == RumbleTypes /\ RumbleInv => RumbleFollowsHost
BY DEF RumbleTypes, RumbleInv, RumbleFollowsHost, Settled, At

\* The table is consistent under requests too.
LEMMA TableUnderRequests == RumbleSpec => [](TypeOK /\ JoinOK /\ TableInv)
<1>1. Init => TableInv
  BY DEF Init, TableInv, InUse
<1> QED BY <1>1, TableStep, TypeInvariant, RumbleImplementsDevices, PTL DEF Spec

\* Whatever gamepads come and go between the requests of the host, each one rumbles
\* only while the host wants its controller to, and keeps no effect that no later
\* request can stop: the entry that evdev_remove moves keeps its effect's id, and the
\* kernel forgets the effects of a descriptor that is closed.
THEOREM RumbleAlwaysFollowsHost == RumbleSpec => []RumbleFollowsHost
<1>1. RumbleInit => RumbleTypes /\ RumbleInv
  BY RumbleTypesInit, RumbleInvInit
<1>2. TypeOK /\ JoinOK /\ TableInv /\ RumbleTypes /\ RumbleInv /\ [RumbleNext]_allVars
      => RumbleTypes' /\ RumbleInv'
  BY RumbleTypesStep, RumbleInvStep
<1> QED BY <1>1, <1>2, FollowsHost, TableUnderRequests, PTL DEF RumbleSpec

=============================================================================
