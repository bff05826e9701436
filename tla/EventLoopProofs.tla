---------------------------- MODULE EventLoopProofs ----------------------------
(***************************************************************************)
(* The array of EventLoop for any number of devices and windows: it holds  *)
(* the open sources, its handlers are called for work that is there, and   *)
(* each step is one of WatchSet.                                           *)
(***************************************************************************)
EXTENDS EventLoop, SequenceTheorems, FiniteSetTheorems, TLAPS

Pollfds == [fd : Sources, rev : BOOLEAN]
Handlers == {HandlerOf(s) : s \in Sources}

LEMMA HandlerNames ==
  ASSUME NEW s \in Sources
  PROVE  /\ HandlerOf(s) = "loop_sig_handler" <=> s = Sig
         /\ HandlerOf(s) = "udev_handle" <=> s = Udev
         /\ HandlerOf(s) = "evdev_handle" <=> s \in Devices
         /\ HandlerOf(s) = "window_handler" <=> s \in Windows
BY LoopAssumption DEF HandlerOf, Sources

-----------------------------------------------------------------------------
(* The array, whatever is open.                                            *)

ArrayOK ==
  /\ fds \in Seq(Pollfds) /\ fdHandlers \in Seq(Handlers)
  /\ Len(fdHandlers) = Len(fds)
  /\ \A k, n \in DOMAIN fds : fds[k].fd = fds[n].fd => k = n
  /\ \A k \in DOMAIN fds : fdHandlers[k] = HandlerOf(fds[k].fd)

LEMMA EntryTypes ==
  ASSUME ArrayOK, NEW k \in DOMAIN fds
  PROVE  fds[k] \in Pollfds /\ fds[k].fd \in Sources /\ fds[k].fd \in Watched
<1>1. fds \in Seq(Pollfds) /\ k \in 1 .. Len(fds)
  BY DEF ArrayOK
<1>2. fds[k] \in Pollfds
  BY <1>1, ElementOfSeq
<1> QED BY <1>2 DEF Pollfds, Watched

\* loop_add_fd appends one entry and leaves the others where they are.
LEMMA AddedFd ==
  ASSUME ArrayOK, NEW s \in Sources \ Watched, AddFd(s)
  PROVE  /\ ArrayOK' /\ Watched' = Watched \cup {s}
         /\ \A k \in DOMAIN fds' : (k \in DOMAIN fds /\ fds'[k] = fds[k]) \/ fds'[k].fd = s
<1>1. PICK rev \in BOOLEAN : fds' = Append(fds, [fd |-> s, rev |-> rev])
  BY DEF AddFd
<1>2. /\ [fd |-> s, rev |-> rev] \in Pollfds /\ HandlerOf(s) \in Handlers
      /\ fds \in Seq(Pollfds) /\ fdHandlers \in Seq(Handlers)
  BY DEF Pollfds, Handlers, ArrayOK
<1>3. /\ fds' \in Seq(Pollfds) /\ Len(fds') = Len(fds) + 1
      /\ \A k \in 1 .. Len(fds) : fds'[k] = fds[k]
      /\ fds'[Len(fds) + 1] = [fd |-> s, rev |-> rev]
  BY <1>1, <1>2, AppendProperties
<1>4. /\ fdHandlers' \in Seq(Handlers) /\ Len(fdHandlers') = Len(fdHandlers) + 1
      /\ \A k \in 1 .. Len(fdHandlers) : fdHandlers'[k] = fdHandlers[k]
      /\ fdHandlers'[Len(fdHandlers) + 1] = HandlerOf(s)
  BY <1>2, AppendProperties DEF AddFd
<1>5. DOMAIN fds = 1 .. Len(fds) /\ DOMAIN fds' = 1 .. Len(fds) + 1 /\ Len(fds) \in Nat
  BY <1>2, <1>3
<1>6. \A k \in DOMAIN fds : fds[k].fd # s
  BY DEF Watched
<1>7. \A k, n \in DOMAIN fds' : fds'[k].fd = fds'[n].fd => k = n
  BY <1>3, <1>5, <1>6 DEF ArrayOK
<1>8. \A k \in DOMAIN fds' : fdHandlers'[k] = HandlerOf(fds'[k].fd)
  BY <1>3, <1>4, <1>5 DEF ArrayOK
<1>9. ArrayOK'
  BY <1>3, <1>4, <1>7, <1>8 DEF ArrayOK
<1>10. Watched' = Watched \cup {s}
  BY <1>3, <1>5 DEF Watched
<1> QED BY <1>3, <1>5, <1>9, <1>10

\* loop_remove_fd finds the entry, as there is only one of the descriptor.
LEMMA FoundFd ==
  ASSUME ArrayOK, NEW k \in DOMAIN fds
  PROVE  IndexOf(fds[k].fd) = k
<1> DEFINE found == {n \in DOMAIN fds : fds[n].fd = fds[k].fd}
<1>1. found = {k}
  BY DEF ArrayOK
<1>2. DOMAIN fds \subseteq Int
  BY DEF ArrayOK
<1>3. (CHOOSE n \in found : \A o \in found : n <= o) = k
  BY <1>1, <1>2
<1> QED BY <1>1, <1>3 DEF IndexOf

\* What is left is the other entries, each with its handler.
LEMMA RemovedFd ==
  ASSUME ArrayOK, NEW k \in DOMAIN fds, RemoveFd(fds[k].fd)
  PROVE  /\ ArrayOK' /\ Watched' = Watched \ {fds[k].fd}
         /\ \A n \in DOMAIN fds' : \E m \in DOMAIN fds : fds'[n] = fds[m]
<1> DEFINE L == Len(fds)
           From(n) == IF n = k THEN L ELSE n
<1>1. L \in Nat /\ DOMAIN fds = 1 .. L /\ L >= 1 /\ Len(fdHandlers) = L /\ k \in 1 .. L
  BY DEF ArrayOK
<1>a. L \in Nat
  BY <1>1
<1>2. /\ fds' = [n \in 1 .. L - 1 |-> fds[From(n)]]
      /\ fdHandlers' = [n \in 1 .. L - 1 |-> fdHandlers[From(n)]]
  <2>1. fds' = Dropped(fds, k) /\ fdHandlers' = Dropped(fdHandlers, k)
    BY FoundFd DEF RemoveFd
  <2> QED BY <2>1, <1>1 DEF Dropped
<1>3. \A n \in 1 .. L - 1 : From(n) \in 1 .. L /\ From(n) # k
  BY <1>1
<1>4. \A n, m \in 1 .. L - 1 : From(n) = From(m) => n = m
  BY <1>1
<1>5. \A m \in 1 .. L : m # k => \E n \in 1 .. L - 1 : From(n) = m
  <2> SUFFICES ASSUME NEW m \in 1 .. L, m # k PROVE \E n \in 1 .. L - 1 : From(n) = m
    OBVIOUS
  <2>1. CASE m = L
    <3>1. k \in 1 .. L - 1 /\ From(k) = m
      BY <1>1, <2>1
    <3> QED BY <3>1
  <2>2. CASE m # L
    <3>1. m \in 1 .. L - 1
      <4> HIDE DEF L
      <4> QED BY <1>a, <2>2
    <3>2. From(m) = m
      OBVIOUS
    <3> QED BY <3>1, <3>2
  <2> QED BY <2>1, <2>2
<1>6. /\ \A n \in 1 .. L : fds[n] \in Pollfds
      /\ \A n \in 1 .. L : fdHandlers[n] \in Handlers
  BY <1>1, ElementOfSeq DEF ArrayOK
<1> HIDE DEF From, L
<1>7. fds' \in Seq(Pollfds) /\ fdHandlers' \in Seq(Handlers)
  <2>1. L - 1 \in Nat
    BY <1>1
  <2>2. fds' \in [1 .. L - 1 -> Pollfds] /\ fdHandlers' \in [1 .. L - 1 -> Handlers]
    BY <1>2, <1>3, <1>6
  <2> QED BY <2>1, <2>2, SeqDef
<1>8. Len(fds') = L - 1 /\ Len(fdHandlers') = L - 1 /\ DOMAIN fds' = 1 .. L - 1
  BY <1>1, <1>2, <1>7
<1>9. ArrayOK'
  <2>1. \A n, m \in DOMAIN fds' : fds'[n].fd = fds'[m].fd => n = m
    BY <1>1, <1>2, <1>3, <1>4, <1>8 DEF ArrayOK
  <2>2. \A n \in DOMAIN fds' : fdHandlers'[n] = HandlerOf(fds'[n].fd)
    BY <1>1, <1>2, <1>3, <1>8 DEF ArrayOK
  <2> QED BY <1>7, <1>8, <2>1, <2>2 DEF ArrayOK
<1>10. Watched' = Watched \ {fds[k].fd}
  <2>1. ASSUME NEW s \in Watched' PROVE s \in Watched /\ s # fds[k].fd
    BY <2>1, <1>1, <1>2, <1>3, <1>8 DEF Watched, ArrayOK
  <2>2. ASSUME NEW s \in Watched, s # fds[k].fd PROVE s \in Watched'
    <3>1. PICK m \in 1 .. L : fds[m].fd = s /\ m # k
      BY <2>2, <1>1 DEF Watched
    <3>2. PICK n \in 1 .. L - 1 : From(n) = m
      BY <3>1, <1>5
    <3> QED BY <3>1, <3>2, <1>2, <1>8 DEF Watched
  <2> QED BY <2>1, <2>2
<1> QED BY <1>1, <1>2, <1>3, <1>8, <1>9, <1>10

-----------------------------------------------------------------------------
(* The announcements.                                                      *)

\* Udev hands over devices that are not open, each once.
AnnouncedOK ==
  /\ announced \in Seq(Devices) /\ IsInjective(announced)
  /\ Range(announced) \cap open = {}

LEMMA FirstAnnounced ==
  ASSUME AnnouncedOK, announced # <<>>
  PROVE  /\ Head(announced) \in Devices \ open
         /\ Tail(announced) \in Seq(Devices) /\ IsInjective(Tail(announced))
         /\ Range(Tail(announced)) \subseteq Range(announced) \ {Head(announced)}
         /\ Len(Tail(announced)) = Len(announced) - 1
<1> DEFINE T == Tail(announced)
<1>1. /\ announced \in Seq(Devices) /\ Len(announced) \in Nat /\ Len(announced) # 0
      /\ DOMAIN announced = 1 .. Len(announced)
  BY DEF AnnouncedOK
<1>2. /\ Head(announced) \in Devices /\ T \in Seq(Devices)
      /\ Len(T) = Len(announced) - 1
      /\ \A n \in 1 .. Len(T) : T[n] = announced[n + 1]
  BY <1>1, HeadTailProperties DEF AnnouncedOK
<1>3. DOMAIN T = 1 .. Len(T)
  BY <1>2
<1>4. Head(announced) = announced[1] /\ 1 \in DOMAIN announced
  BY <1>1
<1> HIDE DEF T
<1>5. \A n \in DOMAIN T : n + 1 \in DOMAIN announced /\ n + 1 # 1 /\ T[n] = announced[n + 1]
  BY <1>1, <1>2, <1>3
<1>6. IsInjective(T)
  <2> SUFFICES ASSUME NEW a \in DOMAIN T, NEW b \in DOMAIN T, T[a] = T[b] PROVE a = b
    BY DEF IsInjective
  <2>1. a + 1 = b + 1
    BY <1>5 DEF AnnouncedOK, IsInjective
  <2> QED BY <2>1, <1>3
<1>7. ASSUME NEW x \in Range(T) PROVE x \in Range(announced) /\ x # Head(announced)
  <2>1. PICK n \in DOMAIN T : x = T[n]
    BY <1>7 DEF Range
  <2>2. x = announced[n + 1] /\ n + 1 \in DOMAIN announced /\ n + 1 # 1
    BY <2>1, <1>5
  <2> QED BY <2>2, <1>4 DEF Range, AnnouncedOK, IsInjective
<1>8. Head(announced) \notin open
  BY <1>4 DEF Range, AnnouncedOK
<1> QED BY <1>2, <1>6, <1>7, <1>8 DEF T

LEMMA OneMoreAnnounced ==
  ASSUME AnnouncedOK, NEW d \in Devices \ (open \cup Range(announced))
  PROVE  /\ Append(announced, d) \in Seq(Devices) /\ IsInjective(Append(announced, d))
         /\ Range(Append(announced, d)) \cap open = {}
         /\ Len(Append(announced, d)) = Len(announced) + 1
<1> DEFINE A == Append(announced, d)
<1>1. announced \in Seq(Devices) /\ Len(announced) \in Nat /\ DOMAIN announced = 1 .. Len(announced)
  BY DEF AnnouncedOK
<1>2. /\ A \in Seq(Devices) /\ Len(A) = Len(announced) + 1
      /\ \A n \in 1 .. Len(announced) : A[n] = announced[n]
      /\ A[Len(announced) + 1] = d
  BY <1>1, AppendProperties
<1>3. DOMAIN A = 1 .. Len(announced) + 1
  BY <1>2
<1> HIDE DEF A
<1>4. \A n \in DOMAIN A : (n \in DOMAIN announced /\ A[n] = announced[n])
                          \/ (n = Len(announced) + 1 /\ A[n] = d)
  BY <1>1, <1>2, <1>3
<1>5. \A n \in DOMAIN announced : announced[n] # d /\ announced[n] \notin open
  BY DEF Range, AnnouncedOK
<1>6. IsInjective(A)
  BY <1>4, <1>5 DEF IsInjective, AnnouncedOK
<1>7. Range(A) \cap open = {}
  BY <1>4, <1>5 DEF Range
<1> QED BY <1>2, <1>6, <1>7 DEF A

-----------------------------------------------------------------------------
(* The inductive invariant.                                                *)

\* What is known while things are set up.
SetUpOK ==
  /\ pc = "start" => announced = <<>> /\ open = {}
  /\ pc \in {"start", "enumerate"} => Udev \notin Watched

\* In a scan, what poll said of the signal descriptor still holds.
SignalSeen ==
  pc = "scan" => \A k \in DOMAIN fds : fds[k].fd = Sig /\ fds[k].rev => Sig \in data

PlainTypes ==
  /\ pc \in {"start", "enumerate", "setup", "poll", "scan", "returned", "exited"}
  /\ i \in Nat \ {0}
  /\ present \subseteq Devices /\ open \subseteq Devices
  /\ data \subseteq Sources \ {Udev}

LoopInv ==
  /\ PlainTypes /\ ArrayOK /\ AnnouncedOK
  /\ Watched \cap Devices = open
  /\ SetUpOK /\ SignalSeen

LEMMA InvInit == Init => LoopInv
<1> SUFFICES ASSUME Init PROVE LoopInv
  OBVIOUS
<1>1. PlainTypes /\ SetUpOK /\ SignalSeen /\ Watched = {} /\ open = {}
  BY DEF Init, PlainTypes, SetUpOK, SignalSeen, Watched
<1>2. ArrayOK
  BY EmptySeq DEF Init, ArrayOK
<1>3. AnnouncedOK
  BY EmptySeq DEF Init, AnnouncedOK, IsInjective, Range
<1> QED BY <1>1, <1>2, <1>3 DEF LoopInv

LEMMA InvImplies == LoopInv => ArrayMatchesSources /\ NeverBlocksOnSignal
<1> SUFFICES ASSUME LoopInv PROVE ArrayMatchesSources /\ NeverBlocksOnSignal
  OBVIOUS
<1>1. ArrayMatchesSources
  BY DEF LoopInv, PlainTypes, ArrayOK, AnnouncedOK, ArrayMatchesSources, TypeOK, Pollfds, Handlers
<1>2. ASSUME Calls("loop_sig_handler") PROVE Sig \in data
  <2>1. i \in DOMAIN fds /\ fds[i].rev /\ pc = "scan" /\ HandlerOf(fds[i].fd) = "loop_sig_handler"
    BY <1>2 DEF Calls, LoopInv, PlainTypes, ArrayOK
  <2>2. fds[i].fd \in Sources
    BY <2>1, EntryTypes DEF LoopInv
  <2> QED BY <2>1, <2>2, HandlerNames DEF LoopInv, SignalSeen
<1> QED BY <1>1, <1>2 DEF NeverBlocksOnSignal

\* A descriptor poll reports a signal for is one that has a signal.
LEMMA SignalReady == PlainTypes /\ Ready(Sig) => Sig \in data
BY LoopAssumption DEF PlainTypes, Ready

LEMMA SameArray ==
  ASSUME ArrayOK, UNCHANGED <<fds, fdHandlers>> PROVE ArrayOK' /\ Watched' = Watched
BY DEF ArrayOK, Watched

\* evdev_create for what udev hands over, at the start or in udev_handle.
LEMMA CreateStep ==
  ASSUME LoopInv, announced # <<>>, announced' = Tail(announced), CreateDevice(Head(announced))
  PROVE  /\ ArrayOK' /\ AnnouncedOK' /\ open' \subseteq Devices
         /\ Watched' \cap Devices = open' /\ Watched' \subseteq Watched \cup Devices
         /\ \A k \in DOMAIN fds' : (k \in DOMAIN fds /\ fds'[k] = fds[k]) \/ fds'[k].fd # Sig
<1> DEFINE d == Head(announced)
<1>1. /\ d \in Devices \ open /\ d \notin Watched /\ d \in Sources /\ d # Sig
      /\ announced' \in Seq(Devices) /\ IsInjective(announced')
      /\ Range(announced') \cap (open \cup {d}) = {}
  BY FirstAnnounced, LoopAssumption DEF LoopInv, AnnouncedOK, Sources
<1>2. CASE d \in present
  <2>1. open' = open \cup {d} /\ AddFd(d)
    BY <1>2 DEF CreateDevice
  <2>2. /\ ArrayOK' /\ Watched' = Watched \cup {d}
        /\ \A k \in DOMAIN fds' : (k \in DOMAIN fds /\ fds'[k] = fds[k]) \/ fds'[k].fd = d
    BY <2>1, <1>1, AddedFd DEF LoopInv
  <2> QED BY <1>1, <2>1, <2>2 DEF LoopInv, PlainTypes, AnnouncedOK
<1>3. CASE d \notin present
  <2>1. UNCHANGED <<open, fds, fdHandlers>>
    BY <1>3 DEF CreateDevice
  <2> QED BY <1>1, <2>1, SameArray DEF LoopInv, PlainTypes, AnnouncedOK
<1> QED BY <1>2, <1>3

\* A handler that reads from its own descriptor leaves signals alone.
LEMMA OtherRead ==
  ASSUME LoopInv, NEW h \in {"evdev_handle", "window_handler"}, Calls(h)
  PROVE  /\ i \in DOMAIN fds /\ fds[i].fd \in Sources \cap Watched /\ fds[i].fd \notin {Sig, Udev}
         /\ h = "evdev_handle" => fds[i].fd \in open
<1>1. i \in DOMAIN fds /\ HandlerOf(fds[i].fd) = h
  BY DEF Calls, LoopInv, PlainTypes, ArrayOK
<1>2. fds[i].fd \in Sources \cap Watched
  BY <1>1, EntryTypes DEF LoopInv
<1>3. /\ h = "evdev_handle" => fds[i].fd \in Devices
      /\ h = "window_handler" => fds[i].fd \in Windows
  BY <1>1, <1>2, HandlerNames
<1> QED BY <1>1, <1>2, <1>3, LoopAssumption DEF LoopInv

LEMMA SetupStep == LoopInv /\ Setup => LoopInv'
<1> SUFFICES ASSUME LoopInv, Setup PROVE LoopInv'
  OBVIOUS
<1> USE DEF LoopInv
<1>1. CASE ScanDevices
  <2>1. IsFiniteSet(present) /\ Cardinality(present) \in Nat /\ present \subseteq Devices
    BY LoopAssumption, FS_Subset, FS_CardinalityType DEF PlainTypes
  <2>2. announced' \in [1 .. Cardinality(present) -> Devices] /\ IsInjective(announced')
    BY <1>1, <2>1 DEF ScanDevices, Injection
  <2>3. announced' \in Seq(Devices)
    BY <2>1, <2>2, SeqDef
  <2>4. open = {} /\ Udev \notin Watched /\ pc' = "enumerate"
        /\ UNCHANGED <<fds, fdHandlers, i, present, open, data>>
    BY <1>1 DEF ScanDevices, SetUpOK
  <2> QED BY <2>2, <2>3, <2>4, SameArray DEF PlainTypes, AnnouncedOK, SetUpOK, SignalSeen
<1>2. CASE Enumerate
  <2>1. UNCHANGED <<pc, i, present, data>> /\ pc = "enumerate"
    BY <1>2 DEF Enumerate
  <2>2. /\ ArrayOK' /\ AnnouncedOK' /\ open' \subseteq Devices
        /\ Watched' \cap Devices = open' /\ Watched' \subseteq Watched \cup Devices
    BY <1>2, CreateStep DEF Enumerate
  <2>3. Udev \notin Watched'
    BY <2>1, <2>2, LoopAssumption DEF SetUpOK
  <2> QED BY <2>1, <2>2, <2>3 DEF PlainTypes, SetUpOK, SignalSeen
<1>3. CASE EnableMonitor
  <2>1. /\ AddFd(Udev) /\ Udev \in Sources \ Watched /\ pc' = "setup"
        /\ UNCHANGED <<i, present, open, announced, data>>
    BY <1>3 DEF EnableMonitor, SetUpOK, Sources
  <2>2. ArrayOK' /\ Watched' = Watched \cup {Udev}
    BY <2>1, AddedFd
  <2>3. Udev \notin Devices
    BY LoopAssumption
  <2> QED BY <2>1, <2>2, <2>3 DEF PlainTypes, AnnouncedOK, SetUpOK, SignalSeen
<1>4. ASSUME NEW s \in Windows \cup {Sig}, s \notin Watched, AddFd(s), pc = "setup",
             UNCHANGED <<pc, i, present, open, announced, data>>
      PROVE  LoopInv'
  <2>1. ArrayOK' /\ Watched' = Watched \cup {s}
    BY <1>4, AddedFd DEF Sources
  <2>2. s \notin Devices
    BY LoopAssumption
  <2> QED BY <1>4, <2>1, <2>2 DEF PlainTypes, AnnouncedOK, SetUpOK, SignalSeen
<1>5. CASE LoopInit
  BY <1>4, <1>5 DEF LoopInit
<1>6. ASSUME NEW w \in Windows, AddWindow(w) PROVE LoopInv'
  BY <1>4, <1>6 DEF AddWindow
<1>7. CASE StartLoop
  BY <1>7, SameArray DEF StartLoop, PlainTypes, AnnouncedOK, SetUpOK, SignalSeen
<1> QED BY <1>1, <1>2, <1>3, <1>5, <1>6, <1>7 DEF Setup

LEMMA ScanStep == LoopInv /\ (Poll \/ Skip \/ ScanEnd) => LoopInv'
<1> SUFFICES ASSUME LoopInv, Poll \/ Skip \/ ScanEnd PROVE LoopInv'
  OBVIOUS
<1> USE DEF LoopInv
<1>1. CASE Poll
  <2>1. /\ fds' = [k \in DOMAIN fds |-> [fds[k] EXCEPT !.rev = Ready(fds[k].fd)]]
        /\ i' = 1 /\ pc' = "scan"
        /\ UNCHANGED <<fdHandlers, present, open, announced, data>>
    BY <1>1 DEF Poll
  <2>2. DOMAIN fds = 1 .. Len(fds) /\ Len(fds) \in Nat
    BY DEF ArrayOK
  <2>3. \A k \in DOMAIN fds : Ready(fds[k].fd) \in BOOLEAN
    BY DEF Ready
  <2>4. \A k \in DOMAIN fds : /\ fds'[k] \in Pollfds
                              /\ fds'[k].fd = fds[k].fd /\ fds'[k].rev = Ready(fds[k].fd)
    BY <2>1, <2>3, EntryTypes DEF Pollfds
  <2>5. fds' \in Seq(Pollfds) /\ DOMAIN fds' = DOMAIN fds /\ Len(fds') = Len(fds)
    <3>1. fds' \in [1 .. Len(fds) -> Pollfds]
      BY <2>1, <2>2, <2>4
    <3>2. fds' \in Seq(Pollfds)
      BY <2>2, <3>1, SeqDef
    <3> QED BY <2>2, <3>1, <3>2
  <2>6. ArrayOK' /\ Watched' = Watched
    BY <2>1, <2>4, <2>5 DEF ArrayOK, Watched
  <2>7. SignalSeen'
    BY <2>1, <2>4, <2>5, SignalReady DEF SignalSeen
  <2> QED BY <2>1, <2>6, <2>7 DEF PlainTypes, AnnouncedOK, SetUpOK
<1>2. CASE Skip
  BY <1>2, SameArray DEF Skip, PlainTypes, AnnouncedOK, SetUpOK, SignalSeen
<1>3. CASE ScanEnd
  BY <1>3, SameArray DEF ScanEnd, PlainTypes, AnnouncedOK, SetUpOK, SignalSeen
<1> QED BY <1>1, <1>2, <1>3

LEMMA HandleStep == LoopInv /\ Handle => LoopInv'
<1> SUFFICES ASSUME LoopInv, Handle PROVE LoopInv'
  OBVIOUS
<1> USE DEF LoopInv
<1>a. /\ i + 1 \in Nat \ {0}
      /\ LoopOk => i' \in Nat \ {0} /\ pc' = pc
      /\ LoopReturn => i' \in Nat \ {0} /\ pc' = "returned"
  BY DEF PlainTypes, LoopOk, LoopReturn
\* A handler that only reads, and returns.
<1>b. ASSUME UNCHANGED <<fds, fdHandlers, present, open, announced>>, pc = "scan",
             data' \subseteq data, Sig \in data => Sig \in data' \/ pc' # "scan",
             i' \in Nat \ {0}, pc' \in {"scan", "returned", "exited"}
      PROVE  LoopInv'
  BY <1>b, SameArray DEF PlainTypes, AnnouncedOK, SetUpOK, SignalSeen
<1>1. CASE HandleSignal
  BY <1>1, <1>a, <1>b DEF HandleSignal, Calls
<1>2. CASE HandleUdev
  <2>1. UNCHANGED <<present, data>> /\ pc = "scan" /\ pc' = "scan" /\ i' \in Nat \ {0}
    BY <1>2, <1>a DEF HandleUdev, Calls
  <2>2. CASE announced = <<>> /\ UNCHANGED <<fds, fdHandlers, open, announced>>
    BY <1>b, <2>1, <2>2
  <2>3. CASE announced # <<>> /\ announced' = Tail(announced) /\ CreateDevice(Head(announced))
    BY <2>1, <2>3, CreateStep DEF PlainTypes, SetUpOK, SignalSeen
  <2> QED BY <1>2, <2>2, <2>3 DEF HandleUdev
<1>3. CASE HandleDevice
  <2>1. fds[i].fd # Sig /\ pc = "scan" /\ data' = data \ {fds[i].fd}
        /\ UNCHANGED <<fds, fdHandlers, present, open, announced>>
    BY <1>3, OtherRead DEF HandleDevice, Calls
  <2>2. i' \in Nat \ {0} /\ pc' \in {"scan", "returned", "exited"}
    BY <1>3, <2>1, <1>a DEF HandleDevice, PlainTypes
  <2> QED BY <2>1, <2>2, <1>b
<1>4. CASE HandleUnplugged
  <2>1. i \in DOMAIN fds /\ fds[i].fd # Sig /\ pc = "scan" /\ fds[i].fd \in open
    BY <1>4, OtherRead DEF HandleUnplugged, Calls
  <2>2. data' = data \ {fds[i].fd} /\ UNCHANGED <<present, announced>>
    BY <1>4 DEF HandleUnplugged
  <2>3. CASE RemoveFd(fds[i].fd) /\ open' = open \ {fds[i].fd} /\ LoopOk
    <3>1. /\ ArrayOK' /\ Watched' = Watched \ {fds[i].fd}
          /\ \A n \in DOMAIN fds' : \E m \in DOMAIN fds : fds'[n] = fds[m]
      BY <2>1, <2>3, RemovedFd
    <3>2. SignalSeen'
      BY <2>1, <2>2, <2>3, <3>1, <1>a DEF SignalSeen
    <3>3. AnnouncedOK' /\ Watched' \cap Devices = open'
      BY <2>2, <2>3, <3>1 DEF AnnouncedOK
    <3> QED BY <2>1, <2>2, <2>3, <3>1, <3>2, <3>3, <1>a DEF PlainTypes, SetUpOK
  <2>4. CASE LoopReturn /\ UNCHANGED <<fds, fdHandlers, open>>
    BY <2>1, <2>2, <2>4, <1>a, <1>b
  <2> QED BY <1>4, <2>3, <2>4 DEF HandleUnplugged
<1>5. CASE HandleWindow
  <2>1. fds[i].fd # Sig
    BY <1>5, OtherRead DEF HandleWindow
  <2> QED BY <1>5, <2>1, <1>a, <1>b DEF HandleWindow, Calls
<1> QED BY <1>1, <1>2, <1>3, <1>4, <1>5 DEF Handle

LEMMA WorldStep == LoopInv /\ World => LoopInv'
<1> SUFFICES ASSUME LoopInv, World PROVE LoopInv'
  OBVIOUS
<1> USE DEF LoopInv
<1>1. ASSUME NEW d \in Devices, Plug(d) PROVE LoopInv'
  <2>1. /\ d \notin open \cup Range(announced) /\ present' = present \cup {d}
        /\ announced' = IF Udev \in Watched THEN Append(announced, d) ELSE announced
        /\ UNCHANGED <<fds, fdHandlers, pc, i, open, data>>
    BY <1>1 DEF Plug
  <2>2. AnnouncedOK'
    BY <2>1, OneMoreAnnounced DEF AnnouncedOK
  <2>3. SetUpOK'
    BY <2>1, SameArray DEF SetUpOK
  <2> QED BY <2>1, <2>2, <2>3, SameArray DEF PlainTypes, SignalSeen
<1>2. ASSUME NEW d \in Devices, Unplug(d) PROVE LoopInv'
  BY <1>2, SameArray DEF Unplug, PlainTypes, AnnouncedOK, SetUpOK, SignalSeen
<1>3. ASSUME NEW s \in Sources, Happens(s) PROVE LoopInv'
  <2>1. s # Udev /\ data' = data \cup {s}
    BY <1>3, LoopAssumption DEF Happens, PlainTypes
  <2> QED BY <1>3, <2>1, SameArray DEF Happens, PlainTypes, AnnouncedOK, SetUpOK, SignalSeen
<1> QED BY <1>1, <1>2, <1>3 DEF World

LEMMA InvStep == LoopInv /\ [Next]_vars => LoopInv'
<1>1. LoopInv /\ UNCHANGED vars => LoopInv'
  BY SameArray DEF vars, LoopInv, PlainTypes, AnnouncedOK, SetUpOK, SignalSeen
<1> QED BY <1>1, SetupStep, ScanStep, HandleStep, WorldStep DEF Next, MainLoop

LEMMA InvAlways == Spec => []LoopInv
BY InvInit, InvStep, PTL DEF Spec

\* Whatever handlers add to the array and remove from it while it is scanned, it has
\* one entry for each open source, with that source's handler (loop_add_fd,
\* loop_remove_fd).
THEOREM ArrayAlwaysMatchesSources == Spec => []ArrayMatchesSources
BY InvAlways, InvImplies, PTL

\* loop_main calls the handler of signals, whose read blocks, only when there is a
\* signal.
THEOREM SignalReadNeverBlocks == Spec => []NeverBlocksOnSignal
BY InvAlways, InvImplies, PTL

-----------------------------------------------------------------------------
(* Every step is one of WatchSet.                                          *)

Runs == pc \notin {"returned", "exited"}

\* Work, without cardinalities.
Load(s) ==
  IF s = Udev THEN IF Udev \in Watched THEN Len(announced) ELSE 0
  ELSE (IF s \in data THEN 1 ELSE 0) + IF s \in open \ present THEN 1 ELSE 0

Loads == [s \in Sources |-> Work(s)]

LEMMA LoadsAreWork == Loads = [s \in Sources |-> Load(s)] /\ Loads' = [s \in Sources |-> Load(s)']
<1>1. \A s, A : Cardinality({s} \cap A) = IF s \in A THEN 1 ELSE 0
  <2> TAKE s, A
  <2>1. CASE s \in A
    <3>1. {s} \cap A = {s}
      BY <2>1
    <3> QED BY <2>1, <3>1, FS_Singleton
  <2>2. CASE s \notin A
    <3>1. {s} \cap A = {}
      BY <2>2
    <3> QED BY <2>2, <3>1, FS_EmptySet
  <2> QED BY <2>1, <2>2
<1>2. \A s \in Sources : Work(s) = Load(s) /\ Work(s)' = Load(s)'
  BY <1>1 DEF Work, Load
<1> QED BY <1>2 DEF Loads

\* A step that WatchSet takes or does not see.
Simulated == [Promise!WatchNext]_(Promise!watchVars)

LEMMA Stutters ==
  ASSUME \A t \in Sources : Load(t)' = Load(t), Watched' = Watched, Runs' = Runs
  PROVE  Simulated
<1>1. Loads' = Loads
  BY LoadsAreWork
<1> QED BY <1>1 DEF Simulated, Promise!watchVars, Loads, Runs

LEMMA Arrives ==
  ASSUME NEW s \in Sources, Load(s) < Cardinality(Devices) + 1, Load(s)' = Load(s) + 1,
         \A t \in Sources \ {s} : Load(t)' = Load(t), Watched' = Watched, Runs' = Runs
  PROVE  Simulated
<1>1. Loads' = [Loads EXCEPT ![s] = @ + 1] /\ Loads[s] < Cardinality(Devices) + 1
  BY LoadsAreWork
<1>2. Promise!Arrive(s)
  BY <1>1 DEF Promise!Arrive, Loads, Runs
<1> QED BY <1>2 DEF Simulated, Promise!WatchNext

LEMMA WatchesFirst ==
  ASSUME NEW s \in Sources, \A t \in Sources : Load(t)' = Load(t),
         Watched' = Watched \cup {s}, Runs' = Runs
  PROVE  Simulated
<1>1. Loads' = Loads
  BY LoadsAreWork
<1>2. Promise!WatchFirst(s)
  BY <1>1 DEF Promise!WatchFirst, Loads, Runs
<1> QED BY <1>2 DEF Simulated, Promise!WatchNext

LEMMA Serves ==
  ASSUME NEW s \in Sources \cap Watched, Runs,
         Load(s)' \in 0 .. Load(s) - 1, \A t \in Sources \ {s} : Load(t)' = Load(t),
         \/ Watched' \in {Watched, Watched \ {s}}
         \/ (\E n \in Sources \ Watched : Watched' = Watched \cup {n}) /\ Runs' = Runs
  PROVE  Simulated
<1>1. Loads' = [Loads EXCEPT ![s] = Load(s)'] /\ Load(s)' \in 0 .. Loads[s] - 1
  BY LoadsAreWork
<1>2. \E left \in 0 .. Loads[s] - 1 : Loads' = [Loads EXCEPT ![s] = left]
  BY <1>1
<1>3. Promise!Serve(s)
  <2>1. Runs' \in BOOLEAN
    BY DEF Runs
  <2> QED BY <1>2, <2>1 DEF Promise!Serve, Loads, Runs
<1> QED BY <1>3 DEF Simulated, Promise!WatchNext

\* Udev announces no more devices than there are.
LEMMA AnnouncedBound ==
  ASSUME AnnouncedOK
  PROVE  /\ Len(announced) \in Nat /\ Cardinality(Devices) \in Nat
         /\ Len(announced) <= Cardinality(Devices)
         /\ \A d \in Devices : Cardinality(Devices) > 0
<1>1. /\ Len(announced) \in Nat
      /\ announced \in [1 .. Len(announced) -> Devices]
      /\ announced \in Injection(1 .. Len(announced), Devices)
  BY DEF AnnouncedOK, Injection
<1>2. Cardinality(1 .. Len(announced)) = Len(announced)
  BY <1>1, FS_Interval
<1>3. Cardinality(1 .. Len(announced)) <= Cardinality(Devices)
  BY <1>1, FS_Injection, LoopAssumption
<1>4. Cardinality(Devices) \in Nat /\ (Cardinality(Devices) = 0 <=> Devices = {})
  BY LoopAssumption, FS_CardinalityType, FS_EmptySet
<1> QED BY <1>1, <1>2, <1>3, <1>4

LEMMA LoadTypes ==
  ASSUME LoopInv, NEW s \in Sources
  PROVE  /\ Load(s) \in Nat
         /\ s \notin Devices \cup {Udev} => Load(s) = IF s \in data THEN 1 ELSE 0
BY AnnouncedBound, LoopAssumption DEF LoopInv, PlainTypes, Load

\* evdev_create changes the work of no other source; its device is watched from now on.
LEMMA CreateLoads ==
  ASSUME LoopInv, announced # <<>>, announced' = Tail(announced), CreateDevice(Head(announced)),
         UNCHANGED <<present, data>>
  PROVE  /\ \A t \in Sources \ {Udev} : Load(t)' = Load(t)
         /\ Udev \in Watched' <=> Udev \in Watched
         /\ \/ Watched' = Watched
            \/ \E n \in Sources \ Watched : Watched' = Watched \cup {n}
<1> DEFINE d == Head(announced)
<1>1. d \in Devices \ open /\ d \in Sources \ Watched /\ d # Udev
  BY FirstAnnounced, LoopAssumption DEF LoopInv, Sources
<1>2. CASE d \in present
  <2>1. open' = open \cup {d} /\ Watched' = Watched \cup {d}
    BY <1>1, <1>2, AddedFd DEF CreateDevice, LoopInv
  <2> QED BY <1>1, <1>2, <2>1 DEF Load
<1>3. CASE d \notin present
  <2>1. UNCHANGED <<open, fds>> /\ Watched' = Watched
    BY <1>3 DEF CreateDevice, Watched
  <2> QED BY <1>1, <2>1 DEF Load
<1> QED BY <1>2, <1>3

LEMMA SetupSimulated == LoopInv /\ Setup => Simulated
<1> SUFFICES ASSUME LoopInv, Setup PROVE Simulated
  OBVIOUS
<1>a. ASSUME UNCHANGED <<fds, present, open, data>>, announced' = announced \/ Udev \notin Watched,
             Runs' = Runs
      PROVE  Simulated
  <2>1. Watched' = Watched /\ \A t \in Sources : Load(t)' = Load(t)
    BY <1>a DEF Watched, Load
  <2> QED BY <1>a, <2>1, Stutters
<1>1. CASE ScanDevices
  BY <1>1, <1>a DEF ScanDevices, LoopInv, SetUpOK, Runs
<1>2. CASE Enumerate
  <2>1. /\ announced # <<>> /\ announced' = Tail(announced) /\ CreateDevice(Head(announced))
        /\ UNCHANGED <<present, data>> /\ Udev \notin Watched /\ Runs' = Runs
    BY <1>2 DEF Enumerate, LoopInv, SetUpOK, Runs
  <2>2. /\ \A t \in Sources \ {Udev} : Load(t)' = Load(t)
        /\ Udev \notin Watched'
        /\ \/ Watched' = Watched
           \/ \E n \in Sources \ Watched : Watched' = Watched \cup {n}
    BY <2>1, CreateLoads
  <2>3. \A t \in Sources : Load(t)' = Load(t)
    BY <2>1, <2>2 DEF Load
  <2> QED BY <2>1, <2>2, <2>3, Stutters, WatchesFirst
<1>3. ASSUME NEW s \in Sources \ Watched, AddFd(s), s = Udev => announced = <<>>,
             UNCHANGED <<present, open, announced, data>>, Runs' = Runs
      PROVE  Simulated
  <2>1. Watched' = Watched \cup {s}
    BY <1>3, AddedFd DEF LoopInv
  <2>2. \A t \in Sources : Load(t)' = Load(t)
    BY <1>3, <2>1 DEF Load
  <2> QED BY <1>3, <2>1, <2>2, WatchesFirst
<1>4. CASE EnableMonitor
  BY <1>3, <1>4 DEF EnableMonitor, LoopInv, SetUpOK, Sources, Runs
<1>5. CASE LoopInit
  BY <1>3, <1>5, LoopAssumption DEF LoopInit, Sources, Runs
<1>6. ASSUME NEW w \in Windows, AddWindow(w) PROVE Simulated
  <2>1. w \in Sources \ Watched /\ w # Udev
    BY <1>6, LoopAssumption DEF AddWindow, Sources
  <2> QED BY <1>3, <1>6, <2>1 DEF AddWindow, Runs
<1>7. CASE StartLoop
  BY <1>7, <1>a DEF StartLoop, Runs
<1> QED BY <1>1, <1>2, <1>4, <1>5, <1>6, <1>7 DEF Setup

LEMMA ScanSimulated == LoopInv /\ (Poll \/ Skip \/ ScanEnd) => Simulated
<1> SUFFICES ASSUME LoopInv, Poll \/ Skip \/ ScanEnd PROVE Simulated
  OBVIOUS
<1>1. UNCHANGED <<present, open, announced, data>> /\ Runs' = Runs
  BY DEF Poll, Skip, ScanEnd, Runs
<1>2. Watched' = Watched
  <2>1. CASE Poll
    <3>1. /\ DOMAIN fds' = DOMAIN fds
          /\ \A k \in DOMAIN fds : fds'[k] = [fds[k] EXCEPT !.rev = Ready(fds[k].fd)]
      BY <2>1 DEF Poll
    <3>2. \A k \in DOMAIN fds : fds'[k].fd = fds[k].fd
      BY <3>1, EntryTypes DEF LoopInv, Pollfds
    <3> QED BY <3>1, <3>2 DEF Watched
  <2>2. CASE Skip \/ ScanEnd
    BY <2>2 DEF Skip, ScanEnd, Watched
  <2> QED BY <2>1, <2>2
<1>3. \A t \in Sources : Load(t)' = Load(t)
  BY <1>1, <1>2 DEF Load
<1> QED BY <1>1, <1>2, <1>3, Stutters

LEMMA HandleSimulated == LoopInv /\ Handle => Simulated
<1> SUFFICES ASSUME LoopInv, Handle PROVE Simulated
  OBVIOUS
<1>a. pc = "scan" /\ Runs /\ i \in DOMAIN fds /\ fds[i].fd \in Sources \cap Watched
  <2>1. pc = "scan" /\ i \in DOMAIN fds
    BY DEF Handle, HandleSignal, HandleUdev, HandleDevice, HandleUnplugged, HandleWindow, Calls,
       LoopInv, PlainTypes, ArrayOK
  <2> QED BY <2>1, EntryTypes DEF Runs, LoopInv
\* A handler that reads what its own source has, or finds nothing to read.
<1>b. ASSUME NEW s \in Sources \cap Watched, s # Udev, data' = data \ {s},
             UNCHANGED <<fds, present, open, announced>>,
             s \in data \/ Runs' = Runs
      PROVE  Simulated
  <2>1. Watched' = Watched /\ \A t \in Sources \ {s} : Load(t)' = Load(t)
    BY <1>b DEF Watched, Load
  <2>2. CASE s \in data
    <3>1. Load(s) = (IF s \in open \ present THEN 2 ELSE 1)
          /\ Load(s)' = IF s \in open \ present THEN 1 ELSE 0
      BY <1>b, <2>2 DEF Load
    <3>2. Load(s)' \in 0 .. Load(s) - 1
      BY <3>1
    <3> QED BY <1>a, <1>b, <2>1, <3>2, Serves
  <2>3. CASE s \notin data
    <3>1. Load(s)' = Load(s)
      BY <1>b, <2>3 DEF Load
    <3> QED BY <1>b, <2>1, <2>3, <3>1, Stutters
  <2> QED BY <2>2, <2>3
<1>c. LoopOk => Runs' = Runs
  BY DEF LoopOk, Runs
<1>1. CASE HandleSignal
  <2>1. fds[i].fd # Udev
    BY <1>1, <1>a, HandlerNames, LoopAssumption DEF HandleSignal, Calls, LoopInv, ArrayOK
  <2> QED BY <1>1, <1>a, <1>b, <2>1 DEF HandleSignal
<1>2. CASE HandleUdev
  <2>1. fds[i].fd = Udev /\ Udev \in Sources \cap Watched
    BY <1>2, <1>a, HandlerNames DEF HandleUdev, Calls, LoopInv, ArrayOK
  <2>2. UNCHANGED <<present, data>> /\ Runs' = Runs
    BY <1>2, <1>c DEF HandleUdev
  <2>3. CASE announced = <<>> /\ UNCHANGED <<fds, fdHandlers, open, announced>>
    <3>1. Watched' = Watched /\ \A t \in Sources : Load(t)' = Load(t)
      BY <2>2, <2>3 DEF Watched, Load
    <3> QED BY <2>2, <3>1, Stutters
  <2>4. CASE announced # <<>> /\ announced' = Tail(announced) /\ CreateDevice(Head(announced))
    <3>1. /\ \A t \in Sources \ {Udev} : Load(t)' = Load(t)
          /\ Udev \in Watched'
          /\ \/ Watched' = Watched
             \/ \E n \in Sources \ Watched : Watched' = Watched \cup {n}
      BY <2>1, <2>2, <2>4, CreateLoads
    <3>2. Load(Udev)' = Len(announced) - 1 /\ Load(Udev) = Len(announced)
      BY <2>1, <2>4, <3>1, FirstAnnounced DEF Load, LoopInv
    <3>3. Len(announced) \in Nat /\ Len(announced) # 0
      BY <2>4 DEF LoopInv, AnnouncedOK
    <3>4. Load(Udev)' \in 0 .. Load(Udev) - 1
      BY <3>2, <3>3
    <3> QED BY <1>a, <2>1, <2>2, <3>1, <3>4, Serves
  <2> QED BY <1>2, <2>3, <2>4 DEF HandleUdev
<1>3. CASE HandleDevice
  <2>1. fds[i].fd # Udev
    BY <1>3, OtherRead DEF HandleDevice
  <2>2. fds[i].fd \in data \/ Runs' = Runs
    BY <1>3, <1>c DEF HandleDevice
  <2> QED BY <1>3, <1>a, <1>b, <2>1, <2>2 DEF HandleDevice
<1>4. CASE HandleUnplugged
  <2>a. PICK s \in Sources \cap Watched : s = fds[i].fd
    BY <1>a
  <2>1. s # Udev /\ s \in open \ present /\ data' = data \ {s} /\ UNCHANGED <<present, announced>>
    BY <1>4, <2>a, OtherRead DEF HandleUnplugged
  <2>2. CASE RemoveFd(s) /\ open' = open \ {s} /\ LoopOk
    <3>1. Watched' = Watched \ {s}
      BY <1>a, <2>a, <2>2, RemovedFd DEF LoopInv
    <3>2. \A t \in Sources \ {s} : Load(t)' = Load(t)
      BY <2>1, <2>2, <3>1 DEF Load
    <3>3. Load(s)' = 0 /\ Load(s) = IF s \in data THEN 2 ELSE 1
      BY <2>1, <2>2 DEF Load
    <3>4. Load(s)' \in 0 .. Load(s) - 1
      BY <3>3
    <3> QED BY <1>a, <3>1, <3>2, <3>4, Serves
  <2>3. CASE s \in data /\ LoopReturn /\ UNCHANGED <<fds, fdHandlers, open>>
    BY <1>a, <1>b, <2>1, <2>3
  <2> QED BY <1>4, <2>a, <2>2, <2>3 DEF HandleUnplugged
<1>5. CASE HandleWindow
  <2>1. fds[i].fd # Udev
    BY <1>5, OtherRead DEF HandleWindow
  <2>2. fds[i].fd \in data \/ Runs' = Runs
    BY <1>5, <1>c DEF HandleWindow
  <2> QED BY <1>5, <1>a, <1>b, <2>1, <2>2 DEF HandleWindow
<1> QED BY <1>1, <1>2, <1>3, <1>4, <1>5 DEF Handle

LEMMA WorldSimulated == LoopInv /\ World => Simulated
<1> SUFFICES ASSUME LoopInv, World PROVE Simulated
  OBVIOUS
<1>a. /\ Len(announced) \in Nat /\ Len(announced) <= Cardinality(Devices)
      /\ Cardinality(Devices) \in Nat /\ \A d \in Devices : Cardinality(Devices) > 0
  BY AnnouncedBound DEF LoopInv
<1>1. ASSUME NEW d \in Devices, Plug(d) PROVE Simulated
  <2>1. /\ d \notin open \cup Range(announced) /\ present' = present \cup {d}
        /\ announced' = IF Udev \in Watched THEN Append(announced, d) ELSE announced
        /\ UNCHANGED <<fds, open, data>> /\ Runs' = Runs
    BY <1>1 DEF Plug, Runs
  <2>2. Watched' = Watched /\ \A t \in Sources \ {Udev} : Load(t)' = Load(t)
    BY <2>1 DEF Watched, Load
  <2>3. CASE Udev \in Watched
    <3>1. Load(Udev) = Len(announced) /\ Load(Udev)' = Len(announced) + 1
      BY <2>1, <2>2, <2>3, OneMoreAnnounced DEF Load, LoopInv
    <3>2. Load(Udev) < Cardinality(Devices) + 1 /\ Udev \in Sources
      BY <1>a, <3>1 DEF Sources
    <3> QED BY <2>1, <2>2, <3>1, <3>2, Arrives
  <2>4. CASE Udev \notin Watched
    <3>1. Load(Udev)' = Load(Udev)
      BY <2>2, <2>4 DEF Load
    <3> QED BY <2>1, <2>2, <3>1, Stutters
  <2> QED BY <2>3, <2>4
<1>b. ASSUME NEW s \in Sources, Load(s)' = Load(s) + 1, Load(s) = 0,
             \A t \in Sources \ {s} : Load(t)' = Load(t), Watched' = Watched, Runs' = Runs
      PROVE  Simulated
  BY <1>a, <1>b, Arrives
<1>2. ASSUME NEW d \in Devices, Unplug(d) PROVE Simulated
  <2>1. /\ d \in present /\ present' = present \ {d} /\ d # Udev /\ d \in Sources
        /\ UNCHANGED <<fds, open, announced, data>> /\ Runs' = Runs
    BY <1>2, LoopAssumption DEF Unplug, Runs, Sources
  <2>2. Watched' = Watched /\ \A t \in Sources \ {d} : Load(t)' = Load(t)
    BY <2>1 DEF Watched, Load
  <2>3. CASE d \in open
    <3>1. Load(d)' = Load(d) + 1 /\ Load(d) = IF d \in data THEN 1 ELSE 0
      BY <2>1, <2>3 DEF Load
    <3>2. Load(d) < Cardinality(Devices) + 1
      BY <1>a, <3>1
    <3> QED BY <2>1, <2>2, <3>1, <3>2, Arrives
  <2>4. CASE d \notin open
    <3>1. Load(d)' = Load(d)
      BY <2>1, <2>4 DEF Load
    <3> QED BY <2>1, <2>2, <3>1, Stutters
  <2> QED BY <2>3, <2>4
<1>3. ASSUME NEW s \in Sources, Happens(s) PROVE Simulated
  <2>1. /\ s # Udev /\ s \notin open \ present /\ data' = data \cup {s}
        /\ UNCHANGED <<fds, open, present, announced>> /\ Runs' = Runs
    BY <1>3, LoopAssumption DEF Happens, LoopInv, PlainTypes, Runs
  <2>2. Watched' = Watched /\ \A t \in Sources \ {s} : Load(t)' = Load(t)
    BY <2>1 DEF Watched, Load
  <2>3. CASE s \in data
    <3>1. Load(s)' = Load(s)
      BY <2>1, <2>3 DEF Load
    <3> QED BY <2>1, <2>2, <3>1, Stutters
  <2>4. CASE s \notin data
    <3>1. Load(s) = 0 /\ Load(s)' = Load(s) + 1
      BY <2>1, <2>4 DEF Load
    <3> QED BY <1>b, <2>1, <2>2, <3>1
  <2> QED BY <2>3, <2>4
<1> QED BY <1>1, <1>2, <1>3 DEF World

LEMMA NextSimulated == LoopInv /\ [Next]_vars => Simulated
<1>1. ASSUME LoopInv, UNCHANGED vars PROVE Simulated
  <2>1. /\ Watched' = Watched /\ Runs' = Runs
        /\ \A t \in Sources : Load(t)' = Load(t)
    BY <1>1 DEF vars, Watched, Runs, Load
  <2> QED BY <2>1, Stutters
<1> QED BY <1>1, SetupSimulated, ScanSimulated, HandleSimulated, WorldSimulated DEF Next, MainLoop

\* The array with its swaps, its skipped entries and its uninitialised revents is a set
\* of watched sources: no handler runs but that of a source with work, and each adds or
\* drops one source (loop_main, loop_add_fd, loop_remove_fd).  Together with the
\* fairness that TLC checks this is ServesEverySource.
THEOREM ArrayIsWatchSet ==
  Spec => Promise!WatchInit /\ [][Promise!WatchNext]_(Promise!watchVars)
<1>1. Init => Promise!WatchInit
  <2> SUFFICES ASSUME Init PROVE Promise!WatchInit
    OBVIOUS
  <2>1. Watched = {} /\ \A s \in Sources : Load(s) = 0
    BY DEF Init, Watched, Load
  <2>2. Loads = [s \in Sources |-> 0]
    BY <2>1, LoadsAreWork
  <2> QED BY <2>1, <2>2 DEF Promise!WatchInit, Loads, Init
<1>2. LoopInv /\ [Next]_vars => [Promise!WatchNext]_(Promise!watchVars)
  BY NextSimulated DEF Simulated
<1> QED BY <1>1, <1>2, InvAlways, PTL DEF Spec
=============================================================================
