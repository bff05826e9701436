---------------------------- MODULE HostInputProofs ----------------------------
(***************************************************************************)
(* What HostInput guarantees of what a user presses and moves, for any     *)
(* keyboards, keys, queues, movements, places and gamepads: no key stays   *)
(* down for the host, the combo ends the loop, the pointer follows, and    *)
(* the controls of a gamepad reach the host through its mapping.           *)
(***************************************************************************)
EXTENDS HostInput, SequenceTheorems, FiniteSetTheorems, WellFoundedInduction, TLAPS

-----------------------------------------------------------------------------
(* Queues of events, in which u raises the key x and d puts it down.       *)

\* The key is down here, or its release is in the queue.
Owed(q, down, x, u) == x \in down \/ \E i \in DOMAIN q : q[i] = u

\* Each event that puts the key down will be made good.
Covered(q, down, x, u, d) ==
  \A i \in DOMAIN q : q[i] = d => x \in down \/ \E j \in DOMAIN q : j > i /\ q[j] = u

LEMMA AppendOwed ==
  ASSUME NEW S, NEW q \in Seq(S), NEW e \in S, NEW u, NEW x, NEW B, NEW C,
         Owed(q, B, x, u), x \in B => x \in C \/ e = u
  PROVE  Owed(Append(q, e), C, x, u)
<1>1. /\ Len(q) \in Nat /\ DOMAIN q = 1 .. Len(q)
      /\ DOMAIN Append(q, e) = 1 .. Len(q) + 1
      /\ \A i \in 1 .. Len(q) : Append(q, e)[i] = q[i]
      /\ Append(q, e)[Len(q) + 1] = e
  OBVIOUS
<1>2. CASE x \in B /\ e = u
  BY <1>1, <1>2 DEF Owed
<1>3. CASE x \in C
  BY <1>3 DEF Owed
<1>4. CASE \E i \in DOMAIN q : q[i] = u
  <2>1. PICK i \in DOMAIN q : q[i] = u
    BY <1>4
  <2>2. i \in DOMAIN Append(q, e) /\ Append(q, e)[i] = u
    BY <1>1, <2>1
  <2> QED BY <2>2 DEF Owed
<1> QED BY <1>2, <1>3, <1>4 DEF Owed

LEMMA AppendCovered ==
  ASSUME NEW S, NEW q \in Seq(S), NEW e \in S, NEW u, NEW d, NEW x, NEW B, NEW C,
         Covered(q, B, x, u, d), x \in B => x \in C \/ e = u, e = d => x \in C
  PROVE  Covered(Append(q, e), C, x, u, d)
<1>1. /\ Len(q) \in Nat /\ DOMAIN q = 1 .. Len(q)
      /\ DOMAIN Append(q, e) = 1 .. Len(q) + 1
      /\ \A i \in 1 .. Len(q) : Append(q, e)[i] = q[i]
      /\ Append(q, e)[Len(q) + 1] = e
  OBVIOUS
<1> QED BY <1>1 DEF Covered

LEMMA TailOwed ==
  ASSUME NEW S, NEW q \in Seq(S), q # <<>>, NEW u, NEW x, NEW B, Owed(q, B, x, u), Head(q) # u
  PROVE  Owed(Tail(q), B, x, u)
<1>1. /\ Len(q) \in Nat \ {0} /\ DOMAIN q = 1 .. Len(q)
      /\ DOMAIN Tail(q) = 1 .. Len(q) - 1
      /\ \A i \in 1 .. Len(q) - 1 : Tail(q)[i] = q[i + 1]
      /\ Head(q) = q[1]
  OBVIOUS
<1>2. CASE x \in B
  BY <1>2 DEF Owed
<1>3. CASE \E i \in DOMAIN q : q[i] = u
  <2>1. PICK i \in 2 .. Len(q) : q[i] = u
    BY <1>1, <1>3
  <2>2. i - 1 \in DOMAIN Tail(q) /\ Tail(q)[i - 1] = u
    BY <1>1, <2>1
  <2> QED BY <2>2 DEF Owed
<1> QED BY <1>2, <1>3 DEF Owed

\* An event that is taken and puts the key down leaves its release owed.
LEMMA TailCovered ==
  ASSUME NEW S, NEW q \in Seq(S), q # <<>>, NEW u, NEW d, NEW x, NEW B, Covered(q, B, x, u, d)
  PROVE  /\ Covered(Tail(q), B, x, u, d)
         /\ Head(q) = d => Owed(Tail(q), B, x, u)
<1>1. /\ Len(q) \in Nat \ {0} /\ DOMAIN q = 1 .. Len(q)
      /\ DOMAIN Tail(q) = 1 .. Len(q) - 1
      /\ \A i \in 1 .. Len(q) - 1 : Tail(q)[i] = q[i + 1]
      /\ Head(q) = q[1]
  OBVIOUS
<1>2. \A i \in 1 .. Len(q) : q[i] = d =>
        x \in B \/ \E j \in 1 .. Len(q) - 1 : j > i - 1 /\ Tail(q)[j] = u
  <2> SUFFICES ASSUME NEW i \in 1 .. Len(q), q[i] = d, x \notin B
               PROVE  \E j \in 1 .. Len(q) - 1 : j > i - 1 /\ Tail(q)[j] = u
    OBVIOUS
  <2>1. PICK j \in 1 .. Len(q) : j > i /\ q[j] = u
    BY <1>1 DEF Covered
  <2>2. j - 1 \in 1 .. Len(q) - 1 /\ j - 1 > i - 1 /\ Tail(q)[j - 1] = u
    BY <1>1, <2>1
  <2> QED BY <2>2
<1>3. Covered(Tail(q), B, x, u, d)
  <2>1. ASSUME NEW i \in 1 .. Len(q) - 1, Tail(q)[i] = d, x \notin B
        PROVE  \E j \in 1 .. Len(q) - 1 : j > i /\ Tail(q)[j] = u
    <3>1. i + 1 \in 1 .. Len(q) /\ q[i + 1] = d /\ (i + 1) - 1 = i
      BY <1>1, <2>1
    <3> QED BY <1>2, <2>1, <3>1
  <2> QED BY <1>1, <2>1 DEF Covered
<1>4. ASSUME Head(q) = d PROVE Owed(Tail(q), B, x, u)
  <2>1. 1 \in 1 .. Len(q) /\ q[1] = d
    BY <1>1, <1>4
  <2>2. x \in B \/ \E j \in 1 .. Len(q) - 1 : Tail(q)[j] = u
    BY <1>2, <2>1
  <2> QED BY <1>1, <2>2 DEF Owed
<1> QED BY <1>3, <1>4

-----------------------------------------------------------------------------
(* Keyboards read through evdev.                                           *)

KeyUp(x) == K!Event(x, FALSE)
KeyDown(x) == K!Event(x, TRUE)
KeyEvents == [key : K!Keys, down : BOOLEAN]

\* What the host believes to be down, and each modifier, is owed a release by a
\* keyboard; and a combo that was pressed is remembered by the modifiers of one.
KeyDebts ==
  /\ \A k \in Keyboards, x \in K!Keys :
       Covered(queue[k], held[k], x, KeyUp(x), KeyDown(x))
  /\ keysPhase # "done" =>
       /\ \A x \in hostDown : \E k \in plugged : Owed(queue[k], held[k], x, KeyUp(x))
       /\ \A k \in Keyboards : \A b \in modifiers[k] :
            \E x \in ModifierKeys : Bit[x] = b /\ Owed(queue[k], held[k], x, KeyUp(x))
  /\ keysPhase = "done" => \A x \in hostDown : x \in unsent \/ \E k \in Keyboards : x \in held[k]
  /\ keysPhase = "setup" => ~waiting
  /\ keysPhase = "loop" /\ waiting => \E k \in plugged : modifiers[k] # {}

KeyInv == K!TypeOK /\ (trouble = {} => KeyDebts)

LEMMA KeyInvImplies == KeyInv => K!UndisturbedQuits /\ K!HostKeysReleased
<1> SUFFICES ASSUME KeyInv, trouble = {}, keysPhase = "loop", K!AllRaised
             PROVE  ~waiting /\ hostDown = {}
  BY DEF KeyInv, KeyDebts, K!UndisturbedQuits, K!RaisedQuits, K!HostKeysReleased
<1>1. \A k \in plugged : k \in Keyboards /\ \A x : ~Owed(queue[k], held[k], x, KeyUp(x))
  BY DEF KeyInv, K!TypeOK, K!AllRaised, Owed
<1> QED BY <1>1 DEF KeyInv, KeyDebts

LEMMA KeyInit == K!Init => KeyInv
<1> SUFFICES ASSUME K!Init PROVE KeyInv
  OBVIOUS
<1>1. \A k \in Keyboards : queue[k] = <<>> /\ held[k] = {} /\ modifiers[k] = {}
  BY DEF K!Init
<1>2. K!TypeOK
  <2>1. \A S : <<>> \in Seq(S) /\ Len(<<>>) = 0
    OBVIOUS
  <2>2. queue \in [Keyboards -> Seq([key : K!Keys, down : BOOLEAN])]
    BY <1>1, <2>1 DEF K!Init
  <2>3. \A k \in Keyboards : Len(queue[k]) <= QueueSize
    BY <1>1, <2>1, KeysAssumption
  <2> QED BY <2>2, <2>3 DEF K!Init, K!TypeOK
<1>3. KeyDebts
  BY <1>1 DEF K!Init, KeyDebts, Covered
<1> QED BY <1>2, <1>3 DEF KeyInv

\* An event is queued, and the keys of that keyboard are what it says.
LEMMA QueuedKeeps ==
  ASSUME KeyInv, NEW k \in Keyboards, NEW e \in KeyEvents, K!Queued(k, e),
         held' \in [Keyboards -> SUBSET K!Keys],
         \A m \in Keyboards \ {k} : held'[m] = held[m],
         \A x \in K!Keys : x \in held[k] => x \in held'[k] \/ e = KeyUp(x),
         \A x \in K!Keys : e = KeyDown(x) => x \in held'[k]
  PROVE  KeyInv'
<1>a. /\ queue \in [Keyboards -> Seq(KeyEvents)] /\ QueueSize \in Nat
      /\ Len(queue[k]) \in 0 .. QueueSize
      /\ hostDown \subseteq K!Keys /\ modifiers \in [Keyboards -> SUBSET K!Bits]
      /\ plugged \subseteq Keyboards
  <2>1. queue \in [Keyboards -> Seq(KeyEvents)] /\ Len(queue[k]) <= QueueSize
    BY DEF KeyInv, K!TypeOK, KeyEvents
  <2>2. queue[k] \in Seq(KeyEvents)
    BY <2>1
  <2>3. Len(queue[k]) \in Nat
    BY <2>2
  <2>4. QueueSize \in Nat
    BY KeysAssumption
  <2>5. Len(queue[k]) \in 0 .. QueueSize
    BY <2>1, <2>3, <2>4
  <2> QED BY <2>1, <2>4, <2>5 DEF KeyInv, K!TypeOK
<1>b. ModifierKeys \subseteq K!Keys
  BY DEF K!Keys
<1>1. K!TypeOK'
  <2>1. CASE Len(queue[k]) < QueueSize
    <3>1. /\ queue' = [queue EXCEPT ![k] = Append(queue[k], e)]
          /\ Append(queue[k], e) \in Seq(KeyEvents)
          /\ Len(Append(queue[k], e)) = Len(queue[k]) + 1
      BY <1>a, <2>1 DEF K!Queued
    <3>2. queue' \in [Keyboards -> Seq(KeyEvents)] /\ \A m \in Keyboards : Len(queue'[m]) <= QueueSize
      BY <1>a, <2>1, <3>1 DEF KeyInv, K!TypeOK
    <3> QED BY <3>2 DEF KeyInv, K!TypeOK, K!Queued, KeyEvents
  <2>2. CASE ~(Len(queue[k]) < QueueSize)
    <3>1. queue' = [queue EXCEPT ![k] = <<>>]
      BY <1>a, <2>2 DEF K!Queued
    <3>2. queue' \in [Keyboards -> Seq(KeyEvents)] /\ \A m \in Keyboards : Len(queue'[m]) <= QueueSize
      BY <1>a, <3>1 DEF KeyInv, K!TypeOK
    <3> QED BY <3>2 DEF KeyInv, K!TypeOK, K!Queued, KeyEvents
  <2> QED BY <2>1, <2>2
<1>2. ASSUME trouble = {} PROVE KeyDebts'
  <2>a. KeyDebts /\ queue[k] \in Seq(KeyEvents)
    BY <1>2, <1>a DEF KeyInv
  <2>1. queue'[k] = Append(queue[k], e) /\ \A m \in Keyboards \ {k} : queue'[m] = queue[m]
    BY <1>2, <1>a DEF K!Queued
  <2>2. \A x \in K!Keys, m \in Keyboards :
          Covered(queue[m], held[m], x, KeyUp(x), KeyDown(x))
            => Covered(queue'[m], held'[m], x, KeyUp(x), KeyDown(x))
    <3> TAKE x \in K!Keys, m \in Keyboards
    <3>1. CASE m = k
      <4> SUFFICES ASSUME Covered(queue[k], held[k], x, KeyUp(x), KeyDown(x))
                   PROVE  Covered(Append(queue[k], e), held'[k], x, KeyUp(x), KeyDown(x))
        BY <2>1, <3>1
      <4>1. /\ x \in held[k] => x \in held'[k] \/ e = KeyUp(x)
            /\ e = KeyDown(x) => x \in held'[k]
        OBVIOUS
      <4> QED BY ONLY <2>a, <4>1, e \in KeyEvents, Covered(queue[k], held[k], x, KeyUp(x), KeyDown(x)), AppendCovered
    <3>2. CASE m # k
      BY <2>1, <3>2
    <3> QED BY <3>1, <3>2
  <2>3. \A x \in K!Keys, m \in Keyboards :
          Owed(queue[m], held[m], x, KeyUp(x)) => Owed(queue'[m], held'[m], x, KeyUp(x))
    <3> TAKE x \in K!Keys, m \in Keyboards
    <3>1. CASE m = k
      <4> SUFFICES ASSUME Owed(queue[k], held[k], x, KeyUp(x))
                   PROVE  Owed(Append(queue[k], e), held'[k], x, KeyUp(x))
        BY <2>1, <3>1
      <4>1. x \in held[k] => x \in held'[k] \/ e = KeyUp(x)
        OBVIOUS
      <4> QED BY ONLY <2>a, <4>1, e \in KeyEvents, Owed(queue[k], held[k], x, KeyUp(x)), AppendOwed
    <3>2. CASE m # k
      BY <2>1, <3>2
    <3> QED BY <3>1, <3>2
  <2>4. UNCHANGED <<keysPhase, plugged, modifiers, waiting, hostDown>> /\ keysPhase # "done"
    BY DEF K!Queued
  <2> HIDE DEF KeyUp, KeyDown
  <2>5. \A m \in Keyboards, x \in K!Keys :
          Covered(queue'[m], held'[m], x, KeyUp(x), KeyDown(x))
    BY <2>a, <2>2 DEF KeyDebts
  <2>6. \A x \in hostDown' : \E m \in plugged' : Owed(queue'[m], held'[m], x, KeyUp(x))
    BY <1>a, <2>a, <2>3, <2>4 DEF KeyDebts
  <2>7. \A m \in Keyboards : \A b \in modifiers'[m] :
          \E x \in ModifierKeys : Bit[x] = b /\ Owed(queue'[m], held'[m], x, KeyUp(x))
    BY <1>a, <1>b, <2>a, <2>3, <2>4 DEF KeyDebts
  <2>8. /\ keysPhase' = "setup" => ~waiting'
        /\ keysPhase' = "loop" /\ waiting' => \E m \in plugged' : modifiers'[m] # {}
    BY <2>a, <2>4 DEF KeyDebts
  <2> QED BY <2>4, <2>5, <2>6, <2>7, <2>8 DEF KeyDebts
<1> QED BY <1>1, <1>2 DEF KeyInv, K!Queued

LEMMA PressKeeps ==
  ASSUME KeyInv, NEW k \in Keyboards, NEW key \in K!Keys,
         K!Press(k, key) \/ K!Repeat(k, key) \/ K!Release(k, key)
  PROVE  KeyInv'
<1>a. held \in [Keyboards -> SUBSET K!Keys]
  BY DEF KeyInv, K!TypeOK
<1>b. KeyUp(key) \in KeyEvents /\ KeyDown(key) \in KeyEvents
  BY DEF KeyUp, KeyDown, KeyEvents, K!Event
<1>c. \A x : /\ (KeyUp(x) = KeyUp(key) => x = key) /\ (KeyDown(x) = KeyDown(key) => x = key)
             /\ KeyDown(x) # KeyUp(key)
  BY DEF KeyUp, KeyDown, K!Event
<1>1. CASE K!Press(k, key)
  <2>1. K!Queued(k, KeyDown(key)) /\ held' = [held EXCEPT ![k] = @ \cup {key}]
    BY <1>1 DEF K!Press, KeyDown
  <2>2. /\ held' \in [Keyboards -> SUBSET K!Keys]
        /\ \A m \in Keyboards \ {k} : held'[m] = held[m]
        /\ held'[k] = held[k] \cup {key}
    BY <1>a, <2>1
  <2> QED BY <1>b, <1>c, <2>1, <2>2, QueuedKeeps
<1>2. CASE K!Repeat(k, key)
  <2>1. K!Queued(k, KeyDown(key)) /\ held' = held /\ key \in held[k]
    BY <1>2 DEF K!Repeat, KeyDown
  <2> QED BY <1>a, <1>b, <1>c, <2>1, QueuedKeeps
<1>3. CASE K!Release(k, key)
  <2>1. K!Queued(k, KeyUp(key)) /\ held' = [held EXCEPT ![k] = @ \ {key}]
    BY <1>3 DEF K!Release, KeyUp
  <2>2. /\ held' \in [Keyboards -> SUBSET K!Keys]
        /\ \A m \in Keyboards \ {k} : held'[m] = held[m]
        /\ held'[k] = held[k] \ {key}
    BY <1>a, <2>1
  <2> QED BY <1>b, <1>c, <2>1, <2>2, QueuedKeeps
<1> QED BY <1>1, <1>2, <1>3

LEMMA PlugKeeps ==
  ASSUME KeyInv, NEW k \in Keyboards, K!Plug(k) \/ K!Unplug(k)
  PROVE  KeyInv'
<1>1. K!TypeOK'
  <2>1. \A S : <<>> \in Seq(S) /\ Len(<<>>) = 0
    OBVIOUS
  <2>2. CASE K!Plug(k)
    BY <2>2 DEF KeyInv, K!TypeOK, K!Plug
  <2>3. CASE K!Unplug(k)
    <3>1. queue \in [Keyboards -> Seq([key : K!Keys, down : BOOLEAN])]
      BY DEF KeyInv, K!TypeOK
    <3>2. queue' \in [Keyboards -> Seq([key : K!Keys, down : BOOLEAN])]
      BY <2>1, <2>3, <3>1 DEF K!Unplug
    <3>3. \A m \in Keyboards : Len(queue'[m]) <= QueueSize
      BY <2>1, <2>3, <3>1, KeysAssumption DEF KeyInv, K!TypeOK, K!Unplug
    <3> QED BY <2>3, <3>2, <3>3 DEF KeyInv, K!TypeOK, K!Unplug
  <2> QED BY <2>2, <2>3
<1>2. ASSUME trouble = {} PROVE KeyDebts'
  <2>1. CASE K!Plug(k)
    <3>1. \A m \in Keyboards : modifiers'[m] \subseteq modifiers[m]
      BY <2>1 DEF KeyInv, K!TypeOK, K!Plug
    <3>2. \A m \in plugged : modifiers'[m] = modifiers[m]
      BY <2>1 DEF KeyInv, K!TypeOK, K!Plug
    <3> QED BY <1>2, <2>1, <3>1, <3>2 DEF KeyInv, KeyDebts, K!Plug, KeyUp, KeyDown
  <2>2. ~K!Unplug(k)
    BY <1>2 DEF K!Unplug
  <2> QED BY <2>1, <2>2
<1> QED BY <1>1, <1>2 DEF KeyInv, K!Plug, K!Unplug

LEMMA HandleKeyKeeps == ASSUME KeyInv, NEW k \in Keyboards, K!HandleKey(k) PROVE KeyInv'
<1> DEFINE e == Head(queue[k])
           mods == K!ModifiersAfter(k, e)
<1>a. /\ keysPhase = "loop" /\ k \in plugged /\ queue[k] # <<>>
      /\ queue \in [Keyboards -> Seq(KeyEvents)] /\ queue[k] \in Seq(KeyEvents)
      /\ UNCHANGED <<trouble, plugged, held>>
  BY DEF KeyInv, K!TypeOK, KeyEvents, K!HandleKey
<1>b. e \in KeyEvents /\ Tail(queue[k]) \in Seq(KeyEvents) /\ Len(Tail(queue[k])) = Len(queue[k]) - 1
  BY <1>a
<1>c. e = (IF e.down THEN KeyDown(e.key) ELSE KeyUp(e.key)) /\ e.key \in K!Keys
  BY <1>b DEF KeyEvents, KeyDown, KeyUp, K!Event
<1>d. /\ modifiers \in [Keyboards -> SUBSET K!Bits] /\ mods \subseteq K!Bits
      /\ modifiers' = [modifiers EXCEPT ![k] = mods]
      /\ modifiers' \in [Keyboards -> SUBSET K!Bits]
  <2>1. modifiers \in [Keyboards -> SUBSET K!Bits]
    BY DEF KeyInv, K!TypeOK
  <2>2. mods \subseteq K!Bits
    BY <2>1 DEF K!ModifiersAfter, K!Bits
  <2>3. modifiers' = [modifiers EXCEPT ![k] = mods]
    BY DEF K!HandleKey
  <2> QED BY <2>1, <2>2, <2>3
<1>e. \/ K!Combo(mods, e) /\ waiting' = TRUE /\ UNCHANGED <<keysPhase, hostDown, unsent>>
         /\ queue' = [queue EXCEPT ![k] = Tail(queue[k])]
      \/ /\ keysPhase' = "done" /\ queue' = [d \in Keyboards |-> <<>>] /\ unsent' = K!Releases
         /\ UNCHANGED <<waiting, hostDown>>
      \/ ~K!Combo(mods, e) /\ ~K!Exits(mods) /\ hostDown' = K!Sent(e) /\ UNCHANGED <<keysPhase, waiting, unsent>>
         /\ queue' = [queue EXCEPT ![k] = Tail(queue[k])]
  BY DEF K!HandleKey
<1> HIDE DEF e, mods
<1>1. K!TypeOK'
  <2>1. CASE queue' = [queue EXCEPT ![k] = Tail(queue[k])]
    <3>1. queue' \in [Keyboards -> Seq(KeyEvents)]
      BY <1>a, <1>b, <2>1
    <3>2. \A m \in Keyboards : Len(queue'[m]) <= QueueSize
      <4> TAKE m \in Keyboards
      <4>1. Len(queue[k]) \in Nat /\ Len(queue[k]) <= QueueSize /\ QueueSize \in Nat
        BY <1>a, KeysAssumption DEF KeyInv, K!TypeOK
      <4>2. Len(Tail(queue[k])) <= QueueSize
        BY <1>b, <4>1
      <4> QED BY <1>a, <2>1, <4>2 DEF KeyInv, K!TypeOK
    <3>3. hostDown' \subseteq K!Keys /\ waiting' \in BOOLEAN /\ unsent' \subseteq K!Keys
          /\ keysPhase' \in {"setup", "loop", "done"}
      BY <1>c, <1>e DEF KeyInv, K!TypeOK, K!Sent, K!Releases
    <3> QED BY <1>a, <1>d, <3>1, <3>2, <3>3 DEF KeyInv, K!TypeOK, KeyEvents
  <2>2. CASE /\ keysPhase' = "done" /\ queue' = [d \in Keyboards |-> <<>>] /\ unsent' = K!Releases
             /\ UNCHANGED <<waiting, hostDown>>
    <3>1. \A S : <<>> \in Seq(S) /\ Len(<<>>) = 0
      OBVIOUS
    <3>2. queue' \in [Keyboards -> Seq(KeyEvents)]
      BY <2>2, <3>1
    <3>3. \A m \in Keyboards : Len(queue'[m]) <= QueueSize
      BY <2>2, <3>1, KeysAssumption
    <3>4. unsent' \subseteq K!Keys
      BY <2>2 DEF K!Releases
    <3> QED BY <1>a, <1>d, <2>2, <3>2, <3>3, <3>4 DEF KeyInv, K!TypeOK, KeyEvents
  <2> QED BY <1>e, <2>1, <2>2
<1>2. CASE /\ keysPhase' = "done" /\ queue' = [d \in Keyboards |-> <<>>] /\ unsent' = K!Releases
           /\ UNCHANGED <<waiting, hostDown>>
  <2>1. \A m \in Keyboards, x \in K!Keys : Covered(queue'[m], held'[m], x, KeyUp(x), KeyDown(x))
    BY <1>2 DEF Covered
  <2>2. ASSUME trouble = {}, NEW x \in hostDown'
        PROVE  x \in unsent' \/ \E m \in Keyboards : x \in held'[m]
    <3>1. x \in hostDown /\ x \in K!Keys
      BY <1>2, <2>2 DEF KeyInv, K!TypeOK
    <3>2. PICK m \in plugged : Owed(queue[m], held[m], x, KeyUp(x))
      BY <1>a, <2>2, <3>1 DEF KeyInv, KeyDebts
    <3>3. m \in Keyboards
      BY DEF KeyInv, K!TypeOK
    <3>4. CASE x \in held[m]
      BY <1>a, <3>3, <3>4
    <3>5. CASE x \notin held[m]
      <4>1. \E i \in DOMAIN queue[m] : queue[m][i] = K!Event(x, FALSE)
        BY <3>2, <3>5 DEF Owed, KeyUp
      <4> QED BY <1>2, <3>1, <3>3, <4>1 DEF K!Releases
    <3> QED BY <3>4, <3>5
  <2> QED BY <1>a, <1>1, <1>2, <2>1, <2>2 DEF KeyInv, KeyDebts, KeyUp, KeyDown
<1>3. ASSUME trouble = {}, queue' = [queue EXCEPT ![k] = Tail(queue[k])], keysPhase' = "loop",
             \/ K!Combo(mods, e) /\ waiting' = TRUE /\ hostDown' = hostDown
             \/ ~K!Combo(mods, e) /\ ~K!Exits(mods) /\ hostDown' = K!Sent(e) /\ waiting' = waiting
      PROVE  KeyDebts'
  <2>a. KeyDebts
    BY <1>3 DEF KeyInv
  <2>b. queue'[k] = Tail(queue[k]) /\ \A m \in Keyboards \ {k} : queue'[m] = queue[m]
    BY <1>a, <1>3
  <2>c. \A x \in K!Keys :
          /\ Covered(Tail(queue[k]), held[k], x, KeyUp(x), KeyDown(x))
          /\ e = KeyDown(x) => Owed(Tail(queue[k]), held[k], x, KeyUp(x))
    <3> TAKE x \in K!Keys
    <3>1. Covered(queue[k], held[k], x, KeyUp(x), KeyDown(x))
      BY <2>a DEF KeyDebts
    <3>2. queue[k] \in Seq(KeyEvents) /\ queue[k] # <<>>
      BY <1>a
    <3> QED BY ONLY <3>1, <3>2, TailCovered DEF e
  <2>d. \A x \in K!Keys : Owed(queue[k], held[k], x, KeyUp(x)) /\ e # KeyUp(x)
          => Owed(Tail(queue[k]), held[k], x, KeyUp(x))
    <3> TAKE x \in K!Keys
    <3>2. queue[k] \in Seq(KeyEvents) /\ queue[k] # <<>>
      BY <1>a
    <3> QED BY ONLY <3>2, TailOwed DEF e
  <2>e. \A x : (e = KeyUp(x) <=> ~e.down /\ x = e.key) /\ (e = KeyDown(x) <=> e.down /\ x = e.key)
    BY <1>b, <1>c DEF KeyUp, KeyDown, K!Event, KeyEvents
  <2> HIDE DEF KeyUp, KeyDown
  <2>1. \A m \in Keyboards, x \in K!Keys : Covered(queue'[m], held'[m], x, KeyUp(x), KeyDown(x))
    BY <1>a, <2>a, <2>b, <2>c DEF KeyDebts
  <2>2. \A x \in hostDown' : \E m \in plugged' : Owed(queue'[m], held'[m], x, KeyUp(x))
    <3> TAKE x \in hostDown'
    <3>1. x \in K!Keys
      BY <1>1 DEF K!TypeOK
    <3>2. CASE e = KeyDown(x)
      BY <1>a, <2>b, <2>c, <3>1, <3>2
    <3>3. CASE e # KeyDown(x)
      <4>1. x \in hostDown /\ e # KeyUp(x)
        BY <1>3, <2>e, <3>3 DEF K!Sent, K!Combo
      <4>2. PICK m \in plugged : Owed(queue[m], held[m], x, KeyUp(x))
        BY <1>a, <2>a, <4>1 DEF KeyDebts
      <4>3. m \in Keyboards
        BY DEF KeyInv, K!TypeOK
      <4>4. Owed(queue'[m], held'[m], x, KeyUp(x))
        <5>1. CASE m = k
          BY <1>a, <2>b, <2>d, <3>1, <4>1, <4>2, <5>1
        <5>2. CASE m # k
          BY <1>a, <2>b, <4>2, <4>3, <5>2
        <5> QED BY <5>1, <5>2
      <4> QED BY <1>a, <4>4
    <3> QED BY <3>2, <3>3
  <2>3. \A m \in Keyboards : \A b \in modifiers'[m] :
          \E x \in ModifierKeys : Bit[x] = b /\ Owed(queue'[m], held'[m], x, KeyUp(x))
    <3> TAKE m \in Keyboards
    <3> TAKE b \in modifiers'[m]
    <3>a. ModifierKeys \subseteq K!Keys
      BY DEF K!Keys
    <3>1. CASE m # k
      BY <1>a, <1>d, <2>a, <2>b, <3>1 DEF KeyDebts
    <3>2. CASE m = k /\ b \in modifiers[k] /\ ~(\E x \in ModifierKeys : Bit[x] = b /\ e = KeyUp(x))
      <4>1. PICK x \in ModifierKeys : Bit[x] = b /\ Owed(queue[k], held[k], x, KeyUp(x))
        BY <1>a, <2>a, <3>2 DEF KeyDebts
      <4>2. Owed(Tail(queue[k]), held[k], x, KeyUp(x))
        BY <2>d, <3>a, <3>2, <4>1
      <4> QED BY <1>a, <2>b, <3>2, <4>1, <4>2
    <3>3. CASE m = k /\ ~(b \in modifiers[k] /\ ~(\E x \in ModifierKeys : Bit[x] = b /\ e = KeyUp(x)))
      <4>1. b \in mods
        BY <1>d, <3>3
      <4>2. e.key \in ModifierKeys /\ e.down /\ Bit[e.key] = b
        BY <2>e, <3>3, <4>1 DEF mods, K!ModifiersAfter
      <4>3. e = KeyDown(e.key)
        BY <2>e, <4>2
      <4>4. Owed(Tail(queue[k]), held[k], e.key, KeyUp(e.key))
        BY <1>c, <2>c, <4>3
      <4> QED BY <1>a, <2>b, <3>3, <4>2, <4>4
    <3> QED BY <3>1, <3>2, <3>3
  <2>4. waiting' => \E m \in plugged' : modifiers'[m] # {}
    <3>1. CASE K!Combo(mods, e)
      <4>1. mods # {}
        BY <3>1, KeysAssumption DEF K!Combo
      <4> QED BY <1>a, <1>d, <4>1
    <3>2. CASE ~K!Combo(mods, e)
      <4> SUFFICES ASSUME waiting' PROVE \E m \in plugged' : modifiers'[m] # {}
        OBVIOUS
      <4>1. mods # {}
        BY <1>3, <3>2 DEF K!Exits
      <4> QED BY <1>a, <1>d, <4>1
    <3> QED BY <3>1, <3>2
  <2> QED BY <1>3, <2>1, <2>2, <2>3, <2>4 DEF KeyDebts, KeyUp, KeyDown
<1> QED BY <1>1, <1>2, <1>3, <1>a, <1>e DEF KeyInv

LEMMA KeysStep == KeyInv /\ [K!Next]_keysVars => KeyInv'
<1> SUFFICES ASSUME KeyInv, [K!Next]_keysVars PROVE KeyInv'
  OBVIOUS
<1>1. CASE UNCHANGED keysVars
  BY <1>1 DEF keysVars, KeyInv, KeyDebts, K!TypeOK, KeyUp, KeyDown
<1>2. CASE K!Finished
  BY <1>1, <1>2 DEF K!Finished, K!vars, keysVars
<1>3. CASE K!StartLoop
  BY <1>3 DEF K!StartLoop, KeyInv, KeyDebts, K!TypeOK, KeyUp, KeyDown
<1> QED BY <1>1, <1>2, <1>3, PressKeeps, PlugKeeps, HandleKeyKeeps DEF K!Next

-----------------------------------------------------------------------------
(* Keys in the window on X11.                                              *)

WindowUp(x) == W!KeyEvent(x, FALSE)
WindowDown(x) == W!KeyEvent(x, TRUE)
WindowEvents ==
  [type : {"key"}, key : W!Keys, down : BOOLEAN]
    \cup [type : {"button"}, wheel : BOOLEAN, down : BOOLEAN]
    \cup [type : {"motion"}, x : Int, before : Nat]

\* The same for the one queue of the window.
WindowDebts ==
  /\ \A x \in W!Keys : Covered(pending, keys, x, WindowUp(x), WindowDown(x))
  /\ running => \A x \in hostKeys : Owed(pending, keys, x, WindowUp(x))
  /\ ~running => hostKeys \subseteq keys \cup unheard
  /\ \A b \in keyboard_modifiers :
       \E x \in WindowModifierKeys : Bit[x] = b /\ Owed(pending, keys, x, WindowUp(x))

WindowInv ==
  /\ W!TypeOK
  /\ pending \in Seq(WindowEvents) /\ position \in Int /\ requested \in Nat
  /\ "focus" \notin mixed => WindowDebts

LEMMA WindowInvImplies == WindowInv => W!HostKeysReleased
BY DEF WindowInv, WindowDebts, W!HostKeysReleased, W!Told, Owed

LEMMA EmptyQueue == \A S : <<>> \in Seq(S) /\ DOMAIN <<>> = {}
OBVIOUS

LEMMA WindowInit == W!Init => WindowInv
BY EmptyQueue, PointersAssumption DEF W!Init, WindowInv, WindowDebts, W!TypeOK, Covered, Owed

\* What the user does puts at most two events into the queue.
LEMMA EventsQueued ==
  ASSUME NEW S, NEW q \in Seq(S), NEW e \in S, NEW f \in S
  PROVE  /\ q \o <<>> = q
         /\ q \o <<e>> = Append(q, e)
         /\ q \o <<e, f>> = Append(Append(q, e), f)
OBVIOUS

\* What the queue q and the keys B owe, the queue r and the keys C owe as well.
Carries(q, B, r, C) ==
  \A x \in W!Keys :
    /\ Covered(q, B, x, WindowUp(x), WindowDown(x)) => Covered(r, C, x, WindowUp(x), WindowDown(x))
    /\ Owed(q, B, x, WindowUp(x)) => Owed(r, C, x, WindowUp(x))

LEMMA CarriesOn == ASSUME NEW q, NEW B, NEW r, NEW C, NEW s, NEW D, Carries(q, B, r, C), Carries(r, C, s, D)
                   PROVE  Carries(q, B, s, D)
<1> HIDE DEF WindowUp, WindowDown
<1> QED BY DEF Carries

LEMMA CarriesSame == \A q, B : Carries(q, B, q, B)
BY DEF Carries

\* An event is queued that says what has become of its key.
LEMMA AppendKeeps ==
  ASSUME NEW q \in Seq(WindowEvents), NEW e \in WindowEvents, NEW B, NEW C,
         \A x \in W!Keys : x \in B => x \in C \/ e = WindowUp(x),
         \A x \in W!Keys : e = WindowDown(x) => x \in C
  PROVE  Append(q, e) \in Seq(WindowEvents) /\ Carries(q, B, Append(q, e), C)
<1>1. ASSUME NEW x \in W!Keys, Covered(q, B, x, WindowUp(x), WindowDown(x))
      PROVE  Covered(Append(q, e), C, x, WindowUp(x), WindowDown(x))
  <2>1. (x \in B => x \in C \/ e = WindowUp(x)) /\ (e = WindowDown(x) => x \in C)
    OBVIOUS
  <2> QED BY ONLY <1>1, <2>1, q \in Seq(WindowEvents), e \in WindowEvents, AppendCovered
<1>2. ASSUME NEW x \in W!Keys, Owed(q, B, x, WindowUp(x)) PROVE Owed(Append(q, e), C, x, WindowUp(x))
  <2>1. x \in B => x \in C \/ e = WindowUp(x)
    OBVIOUS
  <2> QED BY ONLY <1>2, <2>1, q \in Seq(WindowEvents), e \in WindowEvents, AppendOwed
<1> QED BY <1>1, <1>2 DEF Carries

\* An event that is about no key.
LEMMA AppendOther ==
  ASSUME NEW q \in Seq(WindowEvents), NEW e \in WindowEvents, e.type # "key", NEW B
  PROVE  Append(q, e) \in Seq(WindowEvents) /\ Carries(q, B, Append(q, e), B)
<1>1. \A x : e # WindowUp(x) /\ e # WindowDown(x)
  BY DEF WindowUp, WindowDown, W!KeyEvent
<1> QED BY <1>1, AppendKeeps

\* The debts after something was queued and nothing taken.
LEMMA QueuedOwes ==
  ASSUME WindowInv, "focus" \notin mixed,
         Carries(pending, keys, pending', keys'),
         UNCHANGED <<running, hostKeys, keyboard_modifiers, unheard>>,
         running \/ keys' = keys
  PROVE  WindowDebts'
<1> HIDE DEF WindowUp, WindowDown
<1>1. hostKeys \subseteq W!Keys /\ WindowModifierKeys \subseteq W!Keys
  BY DEF WindowInv, W!TypeOK, W!Keys
<1>2. \A x \in W!Keys : Covered(pending', keys', x, WindowUp(x), WindowDown(x))
  BY DEF WindowInv, WindowDebts, Carries
<1>3. /\ running' => \A x \in hostKeys' : Owed(pending', keys', x, WindowUp(x))
      /\ ~running' => hostKeys' \subseteq keys' \cup unheard'
  BY <1>1 DEF WindowInv, WindowDebts, Carries
<1>4. \A b \in keyboard_modifiers' :
       \E x \in WindowModifierKeys : Bit[x] = b /\ Owed(pending', keys', x, WindowUp(x))
  BY <1>1 DEF WindowInv, WindowDebts, Carries
<1> QED BY <1>2, <1>3, <1>4 DEF WindowDebts, WindowUp, WindowDown

LEMMA UserKeeps == WindowInv /\ (W!User \/ W!Warp) => WindowInv'
<1> SUFFICES ASSUME WindowInv, W!User \/ W!Warp PROVE WindowInv'
  OBVIOUS
<1>a. /\ pending \in Seq(WindowEvents) /\ position \in Int /\ requested \in Nat
      /\ W!TypeOK
  BY DEF WindowInv
<1>b. \A k \in W!Keys : WindowUp(k) \in WindowEvents /\ WindowDown(k) \in WindowEvents
  BY DEF WindowUp, WindowDown, W!KeyEvent, WindowEvents
<1>c. \A x, k : /\ (WindowUp(x) = WindowUp(k) => x = k) /\ (WindowDown(x) = WindowDown(k) => x = k)
                /\ WindowDown(x) # WindowUp(k)
  BY DEF WindowUp, WindowDown, W!KeyEvent
<1>d. ASSUME NEW events, W!Does(events), warps' = warps, position' \in Int,
             keys' \subseteq W!Keys, mixed' = mixed, pending' \in Seq(WindowEvents),
             Carries(pending, keys, pending', keys')
      PROVE  WindowInv'
  <2>1. W!TypeOK' /\ running /\ UNCHANGED <<running, hostKeys, keyboard_modifiers, requested, unheard>>
    BY <1>a, <1>d, PointersAssumption DEF W!TypeOK, W!Does, W!programVars, W!hostVars
  <2> QED BY <1>a, <1>d, <2>1, QueuedOwes DEF WindowInv
<1>1. ASSUME NEW k \in W!Keys, W!Press(k) PROVE WindowInv'
  <2>1. W!Does(<<WindowDown(k)>>) /\ keys' = keys \cup {k} /\ UNCHANGED <<position, warps, mixed>>
    BY <1>1 DEF W!Press, WindowDown
  <2>2. pending' = Append(pending, WindowDown(k))
    BY <1>a, <1>b, <2>1, EventsQueued DEF W!Does
  <2>3. keys' \subseteq W!Keys
    BY <1>a, <2>1 DEF W!TypeOK
  <2>4. /\ pending' \in Seq(WindowEvents)
        /\ Carries(pending, keys, pending', keys')
    BY <1>a, <1>b, <1>c, <2>1, <2>2, AppendKeeps
  <2> QED BY <1>a, <1>d, <2>1, <2>3, <2>4
<1>2. ASSUME NEW k \in W!Keys, W!Release(k) PROVE WindowInv'
  <2>1. W!Does(<<WindowUp(k)>>) /\ keys' = keys \ {k} /\ UNCHANGED <<position, warps, mixed>>
    BY <1>2 DEF W!Release, WindowUp
  <2>2. pending' = Append(pending, WindowUp(k))
    BY <1>a, <1>b, <2>1, EventsQueued DEF W!Does
  <2>3. keys' \subseteq W!Keys
    BY <1>a, <2>1 DEF W!TypeOK
  <2>4. /\ pending' \in Seq(WindowEvents)
        /\ Carries(pending, keys, pending', keys')
    BY <1>a, <1>b, <1>c, <2>1, <2>2, AppendKeeps
  <2> QED BY <1>a, <1>d, <2>1, <2>3, <2>4
<1>3. ASSUME NEW k \in W!Keys, W!Repeat(k) PROVE WindowInv'
  <2>1. W!Does(<<WindowUp(k), WindowDown(k)>>) /\ k \in keys /\ UNCHANGED <<keys, position, warps, mixed>>
    BY <1>3 DEF W!Repeat, WindowUp, WindowDown
  <2> DEFINE q == Append(pending, WindowUp(k))
  <2>2. pending' = Append(q, WindowDown(k))
    BY <1>a, <1>b, <2>1, EventsQueued DEF W!Does
  <2>3. /\ q \in Seq(WindowEvents)
        /\ Carries(pending, keys, q, keys)
    BY <1>a, <1>b, <1>c, AppendKeeps
  <2> HIDE DEF q
  <2>4. /\ pending' \in Seq(WindowEvents)
        /\ Carries(q, keys, pending', keys')
    BY <1>b, <1>c, <2>1, <2>2, <2>3, AppendKeeps
  <2>5. Carries(pending, keys, pending', keys')
    BY <2>3, <2>4, CarriesOn
  <2> QED BY <1>a, <1>d, <2>1, <2>4, <2>5 DEF W!TypeOK
<1>4. ASSUME NEW k \in W!Keys, W!ReleaseElsewhere(k) PROVE WindowInv'
  <2>1. pending' = pending /\ "focus" \in mixed'
    BY <1>a, <1>4, <1>b, EventsQueued DEF W!ReleaseElsewhere, W!Does
  <2>2. W!TypeOK' /\ UNCHANGED <<position, requested>>
    BY <1>a, <1>4, PointersAssumption
    DEF W!ReleaseElsewhere, W!Does, W!TypeOK, W!programVars, W!hostVars
  <2> QED BY <1>a, <2>1, <2>2 DEF WindowInv
<1>5. CASE W!Click
  <2> DEFINE e == W!ButtonEvent(FALSE, ~pressed)
  <2>1. e \in WindowEvents /\ e.type # "key"
    BY DEF W!ButtonEvent, WindowEvents
  <2>2. W!Does(<<e>>) /\ UNCHANGED <<keys, position, warps, mixed>>
    BY <1>5 DEF W!Click
  <2> HIDE DEF e
  <2>3. pending' = Append(pending, e)
    BY <1>a, <2>1, <2>2, EventsQueued DEF W!Does
  <2>4. pending' \in Seq(WindowEvents) /\ Carries(pending, keys, pending', keys')
    BY <1>a, <2>1, <2>2, <2>3, AppendOther
  <2> QED BY <1>a, <1>d, <2>1, <2>2, <2>3, <2>4 DEF W!TypeOK
<1>6. CASE W!Scroll
  <2> DEFINE e == W!ButtonEvent(TRUE, TRUE)
             f == W!ButtonEvent(TRUE, FALSE)
             q == Append(pending, e)
  <2>1. e \in WindowEvents /\ e.type # "key" /\ f \in WindowEvents /\ f.type # "key"
    BY DEF W!ButtonEvent, WindowEvents
  <2>2. W!Does(<<e, f>>) /\ UNCHANGED <<keys, position, warps, mixed>>
    BY <1>6 DEF W!Scroll
  <2> HIDE DEF e, f
  <2>3. pending' = Append(q, f)
    BY <1>a, <2>1, <2>2, EventsQueued DEF W!Does
  <2>4. q \in Seq(WindowEvents) /\ Carries(pending, keys, q, keys)
    BY <1>a, <2>1, AppendOther
  <2> HIDE DEF q
  <2>5. pending' \in Seq(WindowEvents) /\ Carries(q, keys, pending', keys')
    BY <2>1, <2>2, <2>3, <2>4, AppendOther
  <2>6. Carries(pending, keys, pending', keys')
    BY <2>4, <2>5, CarriesOn
  <2> QED BY <1>a, <1>d, <2>2, <2>5, <2>6 DEF W!TypeOK
<1>7. ASSUME NEW d \in {-1, 1}, W!Move(d) PROVE WindowInv'
  <2> DEFINE e == W!Motion(position + d, warps)
  <2>1. e \in WindowEvents /\ e.type # "key" /\ position + d \in Int
    BY <1>a DEF W!Motion, WindowEvents, W!TypeOK
  <2>2. W!Does(<<e>>) /\ position' = position + d /\ UNCHANGED <<keys, warps, mixed>>
    BY <1>7 DEF W!Move
  <2> HIDE DEF e
  <2>3. pending' = Append(pending, e)
    BY <1>a, <2>1, <2>2, EventsQueued DEF W!Does
  <2>4. pending' \in Seq(WindowEvents) /\ Carries(pending, keys, pending', keys')
    BY <1>a, <2>1, <2>2, <2>3, AppendOther
  <2> QED BY <1>a, <1>d, <2>1, <2>2, <2>3, <2>4 DEF W!TypeOK
<1>8. CASE W!Warp
  <2>1. /\ requested' = requested /\ warps' = requested /\ position' = Centre /\ Centre \in Nat
        /\ UNCHANGED <<running, keys, inputs, keyboard_modifiers, hostKeys, mixed, unheard>>
        /\ pending' = pending \/ pending' = Append(pending, W!Motion(Centre, requested))
    BY <1>8, PointersAssumption DEF W!Warp, W!programVars, W!hostVars
  <2>2. W!TypeOK'
    BY <1>a, <2>1 DEF W!TypeOK
  <2>3. W!Motion(Centre, requested) \in WindowEvents /\ W!Motion(Centre, requested).type # "key"
    BY <1>a, <2>1 DEF W!Motion, WindowEvents
  <2>4. /\ pending' \in Seq(WindowEvents)
        /\ Carries(pending, keys, pending', keys')
    BY <1>a, <2>1, <2>3, AppendOther, CarriesSame
  <2> QED BY <1>a, <2>1, <2>2, <2>4, QueuedOwes DEF WindowInv
<1> QED BY <1>1, <1>2, <1>3, <1>4, <1>5, <1>6, <1>7, <1>8 DEF W!User

\* The event at the head is taken.
LEMMA TakenOwes ==
  ASSUME WindowInv, "focus" \notin mixed, pending # <<>>,
         pending' = Tail(pending), keys' = keys, NEW x \in W!Keys
  PROVE  /\ Covered(pending', keys', x, WindowUp(x), WindowDown(x))
         /\ Owed(pending, keys, x, WindowUp(x)) /\ Head(pending) # WindowUp(x)
              => Owed(pending', keys', x, WindowUp(x))
         /\ Head(pending) = WindowDown(x) => Owed(pending', keys', x, WindowUp(x))
<1>1. pending \in Seq(WindowEvents) /\ Covered(pending, keys, x, WindowUp(x), WindowDown(x))
  BY DEF WindowInv, WindowDebts
<1>2. /\ Covered(Tail(pending), keys, x, WindowUp(x), WindowDown(x))
      /\ Head(pending) = WindowDown(x) => Owed(Tail(pending), keys, x, WindowUp(x))
  BY ONLY <1>1, pending # <<>>, TailCovered
<1>3. Owed(pending, keys, x, WindowUp(x)) /\ Head(pending) # WindowUp(x)
        => Owed(Tail(pending), keys, x, WindowUp(x))
  BY ONLY <1>1, pending # <<>>, TailOwed
<1> QED BY <1>2, <1>3

\* What the host is owed when the loop is left is still held or was in the queue.
LEMMA EndKeeps == WindowInv /\ W!End /\ running => WindowInv'
<1> SUFFICES ASSUME WindowInv, W!End, running PROVE WindowInv'
  OBVIOUS
<1>1. /\ pending' = <<>> /\ position' = 0 /\ requested' = 0 /\ keyboard_modifiers' = {} /\ ~running'
      /\ unheard' = W!Releases /\ mixed' = mixed \cap {"focus"} /\ UNCHANGED <<keys, hostKeys>>
  BY DEF W!End
<1>2. pending' \in Seq(WindowEvents) /\ DOMAIN pending' = {}
  BY <1>1, EmptyQueue
<1>3. W!TypeOK'
  <2>1. W!Releases \subseteq W!Keys
    BY DEF W!Releases
  <2>2. warps' = 0 /\ inputs' = 0 /\ 0 \in 0 .. MaxInputs /\ 0 \in 0 .. 0
    BY PointersAssumption DEF W!End
  <2>3. keys' \subseteq W!Keys /\ hostKeys' \subseteq W!Keys
        /\ mixed' \subseteq {"focus", "wheel", "warp", "edge"}
    BY <1>1 DEF WindowInv, W!TypeOK
  <2> HIDE DEF W!Releases
  <2> QED BY <1>1, <2>1, <2>2, <2>3 DEF W!TypeOK
<1>4. ASSUME "focus" \notin mixed' PROVE WindowDebts'
  <2>1. ASSUME NEW x \in hostKeys PROVE x \in keys \cup W!Releases
    <3>1. x \in W!Keys /\ Owed(pending, keys, x, WindowUp(x))
      BY <1>1, <1>4 DEF WindowInv, WindowDebts, W!TypeOK
    <3> QED BY <3>1 DEF Owed, WindowUp, W!Releases
  <2>2. \A x \in W!Keys : Covered(pending', keys', x, WindowUp(x), WindowDown(x))
    BY <1>2 DEF Covered
  <2> HIDE DEF WindowUp, WindowDown
  <2> QED BY <1>1, <2>1, <2>2 DEF WindowDebts, WindowUp, WindowDown
<1> QED BY <1>1, <1>2, <1>3, <1>4 DEF WindowInv

\* An event that is about no key is taken, or none.
LEMMA OtherTaken ==
  ASSUME WindowInv,
         UNCHANGED <<running, keys, inputs, position, warps, keyboard_modifiers, hostKeys, unheard>>,
         requested' \in Nat, requested' >= requested,
         mixed' \subseteq {"focus", "wheel", "warp", "edge"}, mixed \subseteq mixed',
         \/ pending' = pending
         \/ pending # <<>> /\ pending' = Tail(pending) /\ Head(pending).type # "key"
  PROVE  WindowInv'
<1>1. W!TypeOK' /\ position' \in Int
  BY DEF WindowInv, W!TypeOK
<1>2. pending' \in Seq(WindowEvents)
  BY DEF WindowInv
<1>3. ASSUME "focus" \notin mixed PROVE Carries(pending, keys, pending', keys')
  <2>1. CASE pending' = pending
    BY <2>1, CarriesSame
  <2>2. CASE pending # <<>> /\ pending' = Tail(pending) /\ Head(pending).type # "key"
    <3>1. \A x \in W!Keys : Head(pending) # WindowUp(x)
      BY <2>2 DEF WindowUp, W!KeyEvent
    <3> QED BY <1>3, <2>2, <3>1, TakenOwes DEF Carries
  <2> QED BY <2>1, <2>2
<1> QED BY <1>1, <1>2, <1>3, QueuedOwes DEF WindowInv

LEMMA WindowKeyKeeps == WindowInv /\ W!HandleKey => WindowInv'
<1> SUFFICES ASSUME WindowInv, W!HandleKey PROVE WindowInv'
  OBVIOUS
<1> DEFINE e == Head(pending)
<1>1. /\ pending # <<>> /\ pending' = Tail(pending) /\ e.type = "key"
      /\ UNCHANGED <<running, keys, inputs, position, warps, requested, mixed, unheard>> /\ running
      /\ keyboard_modifiers' = IF e.key \notin WindowModifierKeys THEN keyboard_modifiers
                               ELSE IF e.down THEN keyboard_modifiers \cup {Bit[e.key]}
                               ELSE keyboard_modifiers \ {Bit[e.key]}
      /\ hostKeys' = IF e.down THEN hostKeys \cup {e.key} ELSE hostKeys \ {e.key}
  BY DEF W!HandleKey, W!Takes, W!userVars
<1>2. e \in WindowEvents /\ pending' \in Seq(WindowEvents)
  BY <1>1 DEF WindowInv
<1>3. e.key \in W!Keys /\ e.down \in BOOLEAN
      /\ \A x : (e = WindowUp(x) <=> ~e.down /\ x = e.key) /\ (e = WindowDown(x) <=> e.down /\ x = e.key)
  BY <1>1, <1>2 DEF WindowEvents, WindowUp, WindowDown, W!KeyEvent
<1> HIDE DEF e
<1>4. W!TypeOK'
  BY <1>1, <1>3 DEF WindowInv, W!TypeOK, W!Bits
<1>5. ASSUME "focus" \notin mixed PROVE WindowDebts'
  <2> HIDE DEF WindowUp, WindowDown
  <2>a. hostKeys \subseteq W!Keys /\ WindowModifierKeys \subseteq W!Keys
    BY DEF WindowInv, W!TypeOK, W!Keys
  <2>b. \A x \in W!Keys :
          /\ Covered(pending', keys', x, WindowUp(x), WindowDown(x))
          /\ Owed(pending, keys, x, WindowUp(x)) /\ e # WindowUp(x)
               => Owed(pending', keys', x, WindowUp(x))
          /\ e = WindowDown(x) => Owed(pending', keys', x, WindowUp(x))
    BY <1>1, <1>5, TakenOwes DEF e
  <2>1. ASSUME NEW x \in hostKeys' PROVE Owed(pending', keys', x, WindowUp(x))
    <3>1. x \in W!Keys
      BY <1>4 DEF W!TypeOK
    <3>2. CASE e = WindowDown(x)
      BY <2>b, <3>1, <3>2
    <3>3. CASE e # WindowDown(x)
      <4>1. x \in hostKeys /\ e # WindowUp(x)
        BY <1>1, <1>3, <2>1, <3>3
      <4> QED BY <1>1, <1>5, <2>b, <3>1, <4>1 DEF WindowInv, WindowDebts
    <3> QED BY <3>2, <3>3
  <2>2. ASSUME NEW b \in keyboard_modifiers'
        PROVE  \E x \in WindowModifierKeys : Bit[x] = b /\ Owed(pending', keys', x, WindowUp(x))
    <3>1. CASE e.down /\ e.key \in WindowModifierKeys /\ Bit[e.key] = b
      BY <1>3, <2>b, <3>1
    <3>2. CASE ~(e.down /\ e.key \in WindowModifierKeys /\ Bit[e.key] = b)
      <4>1. b \in keyboard_modifiers /\ ~(~e.down /\ e.key \in WindowModifierKeys /\ Bit[e.key] = b)
        BY <1>1, <2>2, <3>2
      <4>2. PICK x \in WindowModifierKeys : Bit[x] = b /\ Owed(pending, keys, x, WindowUp(x))
        BY <1>5, <4>1 DEF WindowInv, WindowDebts
      <4>3. e # WindowUp(x)
        BY <1>3, <4>1, <4>2
      <4> QED BY <2>a, <2>b, <4>2, <4>3
    <3> QED BY <3>1, <3>2
  <2> QED BY <1>1, <2>b, <2>1, <2>2 DEF WindowDebts
<1> QED BY <1>1, <1>2, <1>4, <1>5 DEF WindowInv

LEMMA WindowStep == WindowInv /\ [W!Next]_windowVars => WindowInv'
<1> SUFFICES ASSUME WindowInv, [W!Next]_windowVars PROVE WindowInv'
  OBVIOUS
<1>a. requested \in Nat /\ mixed \subseteq {"focus", "wheel", "warp", "edge"}
  BY DEF WindowInv, W!TypeOK
<1>1. CASE UNCHANGED windowVars
  BY <1>1, <1>a, OtherTaken DEF windowVars
<1>2. CASE W!Ended
  BY <1>2, <1>a, OtherTaken DEF W!Ended, W!vars
<1>3. CASE W!User \/ W!Warp
  BY <1>3, UserKeeps
<1>4. CASE W!QuitCombo \/ W!Close
  BY <1>4, EndKeeps DEF W!QuitCombo, W!Close
<1>5. CASE W!HandleKey
  BY <1>5, WindowKeyKeeps
<1>6. CASE W!HandleButton
  BY <1>6, <1>a, OtherTaken DEF W!HandleButton, W!Takes, W!userVars
<1>7. CASE W!HandleMotion
  BY <1>7, <1>a, OtherTaken DEF W!HandleMotion, W!Takes, W!userVars, W!hostVars, W!Mixes
<1>8. CASE W!Return
  BY <1>8, <1>a, OtherTaken DEF W!Return, W!userVars, W!hostVars
<1> QED BY <1>1, <1>2, <1>3, <1>4, <1>5, <1>6, <1>7, <1>8 DEF W!Next, W!x11_handler

-----------------------------------------------------------------------------
(* A mouse and a touch screen read through evdev.                          *)

\* While a finger is down, the program knows where it is and where it was put down,
\* unless a coordinate was not reported.
PointerInv ==
  /\ P!TypeOK
  /\ rotate \in {0, 90, 180, 270} /\ device \in {"mouse", "touch"}
  /\ finger = P!Off => touchDown = P!Up
  /\ finger # P!Off =>
       /\ finger = [at |-> finger.at, from |-> finger.from]
       /\ finger.at \in [P!Axes -> Places] /\ finger.from \in [P!Axes -> Places]
       /\ kernel = finger.at /\ clicked = due
       /\ ~unreported => touchDown = finger.from /\ touch = finger.at
  /\ ~unreported => untold = P!Still /\ clicked = due

\* A pair of numbers is turned by the picture's quarter turns as it is sent.
Deltas == [P!Axes -> Int]

LEMMA NothingMissed ==
  ASSUME rotate \in {0, 90, 180, 270}, NEW d \in Deltas
  PROVE  P!Missed(d, d) = P!Still
<1>1. d.x \in Int /\ d.y \in Int /\ d = [x |-> d.x, y |-> d.y]
  BY DEF Deltas, P!Axes
<1> DEFINE a == d.x
           b == d.y
<1>2. a \in Int /\ b \in Int /\ d = [x |-> a, y |-> b]
  BY <1>1
<1> HIDE DEF a, b
<1>3. P!Turned(d) = P!Sent(d) /\ P!Sent(d).x \in Int /\ P!Sent(d).y \in Int
  <2>1. CASE rotate = 0
    BY <1>2, <2>1 DEF P!Turned, P!Sent
  <2>2. CASE rotate = 90
    BY <1>2, <2>2 DEF P!Turned, P!Sent, P!Quarter
  <2>3. CASE rotate = 180
    BY <1>2, <2>3 DEF P!Turned, P!Sent, P!Quarter
  <2>4. CASE rotate = 270
    BY <1>2, <2>4 DEF P!Turned, P!Sent, P!Quarter
  <2> QED BY <2>1, <2>2, <2>3, <2>4
<1> QED BY <1>3 DEF P!Missed, P!Sub, P!Still

LEMMA PointerInit == P!Init => PointerInv
<1> SUFFICES ASSUME P!Init PROVE PointerInv
  OBVIOUS
<1>1. touchDown \in [P!Axes -> Places \cup {P!TOUCH_UP}] /\ touch \in [P!Axes -> Places \cup {0}]
  BY DEF P!Init, P!Up, P!Still, P!Axes
<1>2. kernel \in [P!Axes -> Places \cup {0}]
  BY DEF P!Init
<1> QED BY <1>1, <1>2 DEF P!Init, PointerInv, P!TypeOK

LEMMA PointerStep == PointerInv /\ [P!Next]_pointerVars => PointerInv'
<1> SUFFICES ASSUME PointerInv, [P!Next]_pointerVars PROVE PointerInv'
  OBVIOUS
<1>a. P!Still \in Deltas /\ P!Add(P!Still, P!Still) = P!Still
  BY DEF P!Still, Deltas, P!Axes, P!Add
<1>1. CASE UNCHANGED pointerVars
  BY <1>1 DEF PointerInv, P!TypeOK, pointerVars
<1>2. ASSUME NEW d \in [P!Axes -> Moves], P!MouseMove(d) PROVE PointerInv'
  <2>1. P!Missed(d, d) = P!Still
    BY NothingMissed, PointersAssumption DEF Deltas, PointerInv
  <2>2. UNCHANGED <<device, rotate, finger, kernel, touchDown, touch, clicked, due, unreported>>
        /\ untold' = P!Add(untold, P!Still)
    BY <1>2, <2>1 DEF P!MouseMove, P!touchVars
  <2>3. P!TypeOK'
    BY <2>2 DEF PointerInv, P!TypeOK
  <2> QED BY <1>a, <2>2, <2>3 DEF PointerInv
<1>3. ASSUME NEW place \in [P!Axes -> Places], P!TouchDown(place) PROVE PointerInv'
  <2>1. /\ finger = P!Off /\ touchDown = P!Up
        /\ finger' = [at |-> place, from |-> place]
        /\ unreported' = (P!Reported(place) # P!Axes)
        /\ UNCHANGED <<device, rotate>> /\ clicked' = FALSE /\ due' = FALSE
        /\ kernel' = place
    BY <1>3 DEF PointerInv, P!TouchDown, P!Coordinates
  <2>2. {a \in P!Reported(place) : P!Up[a] = P!TOUCH_UP} = P!Reported(place)
    BY DEF P!Reported, P!Up, P!Axes
  <2>3. /\ touchDown' = [a \in P!Axes |-> IF a \in P!Reported(place) THEN place[a] ELSE P!Up[a]]
        /\ touch' = [a \in P!Axes |-> IF a \in P!Reported(place) THEN place[a] ELSE touch[a]]
        /\ untold' = P!Missed(P!Still, [a \in P!Axes |-> 0])
    BY <1>3, <2>1, <2>2 DEF P!TouchDown, P!Coordinates
  <2>4. untold' = P!Still
    <3>1. [a \in P!Axes |-> 0] = P!Still
      BY DEF P!Still, P!Axes
    <3> QED BY <1>a, <2>3, <3>1, NothingMissed DEF PointerInv
  <2>5. ASSUME ~unreported' PROVE touchDown' = place /\ touch' = place
    BY <2>1, <2>3, <2>5
  <2>6. P!TypeOK'
    <3>1. /\ touch \in [P!Axes -> Places \cup {0}]
          /\ P!Reported(place) \subseteq P!Axes
      BY DEF PointerInv, P!TypeOK, P!Reported
    <3>2. touch' \in [P!Axes -> Places \cup {0}]
      BY <2>3, <3>1
    <3>3. touchDown' \in [P!Axes -> Places \cup {P!TOUCH_UP}]
      BY <2>3, <3>1 DEF P!Up, P!Axes
    <3> QED BY <2>1, <3>2, <3>3 DEF P!TypeOK
  <2>7. finger' # P!Off
    <3>1. finger'.at = place /\ place["x"] \in Nat /\ P!Off.at["x"] = -1
      BY <2>1, PointersAssumption DEF P!Axes, P!Off, P!Up, P!TOUCH_UP
    <3> QED BY <3>1
  <2> QED BY <2>1, <2>4, <2>5, <2>6, <2>7 DEF PointerInv
<1>4. ASSUME NEW place \in [P!Axes -> Places], P!TouchMove(place) PROVE PointerInv'
  <2>1. /\ finger # P!Off /\ finger' = [finger EXCEPT !.at = place]
        /\ UNCHANGED <<device, rotate, clicked, due, unreported>> /\ kernel' = place
        /\ finger = [at |-> finger.at, from |-> finger.from]
        /\ finger.at \in [P!Axes -> Places] /\ finger.from \in [P!Axes -> Places]
        /\ kernel = finger.at /\ clicked = due
        /\ P!TypeOK
    BY <1>4 DEF PointerInv, P!TouchMove, P!Coordinates
  <2>2. finger' = [at |-> place, from |-> finger.from] /\ finger'.at = place /\ finger'.from = finger.from
    BY <2>1
  <2>3. finger' # P!Off
    <3>1. place["x"] \in Nat /\ P!Off.at["x"] = -1
      BY PointersAssumption DEF P!Axes, P!Off, P!Up, P!TOUCH_UP
    <3> QED BY <2>2, <3>1
  <2> DEFINE first == {a \in P!Reported(place) : touchDown[a] = P!TOUCH_UP}
             next == P!Reported(place) \ first
             delta == [a \in P!Axes |-> IF a \in next THEN place[a] - touch[a] ELSE 0]
  <2>4. /\ touchDown' = [a \in P!Axes |-> IF a \in first THEN place[a] ELSE touchDown[a]]
        /\ touch' = [a \in P!Axes |-> IF a \in first \cup next THEN place[a] ELSE touch[a]]
        /\ untold' = P!Add(untold, P!Missed(P!Sub(place, finger.at), delta))
    BY <1>4, <2>1 DEF P!TouchMove, P!Coordinates
  <2>5. P!TypeOK'
    <3>1. first \subseteq P!Axes /\ next \subseteq P!Axes
      BY DEF P!Reported
    <3> HIDE DEF first, next
    <3>2. touch' \in [P!Axes -> Places \cup {0}]
      BY <2>1, <2>4, <3>1 DEF P!TypeOK
    <3>3. touchDown' \in [P!Axes -> Places \cup {P!TOUCH_UP}]
      BY <2>1, <2>4, <3>1 DEF P!TypeOK
    <3> QED BY <2>1, <3>2, <3>3 DEF P!TypeOK
  <2>6. ASSUME ~unreported
        PROVE  touchDown' = finger.from /\ touch' = place /\ untold' = P!Still
    <3>1. touchDown = finger.from /\ touch = finger.at /\ untold = P!Still
      BY <2>1, <2>6 DEF PointerInv
    <3>2. \A a \in P!Axes : finger.from[a] # P!TOUCH_UP
      BY <2>1, PointersAssumption DEF P!TOUCH_UP
    <3>3. first = {} /\ next = {a \in P!Axes : place[a] # touch[a]}
      BY <2>1, <3>1, <3>2 DEF P!Reported
    <3>4. touchDown' = finger.from /\ touch' = place
      BY <2>1, <2>4, <3>1, <3>3
    <3>5. \A a \in P!Axes : place[a] \in Int /\ finger.at[a] \in Int
      BY <2>1, PointersAssumption
    <3>6. delta = [a \in P!Axes |-> place[a] - finger.at[a]]
      BY <3>1, <3>3, <3>5
    <3>7. delta = P!Sub(place, finger.at) /\ delta \in Deltas
      BY <3>5, <3>6 DEF P!Sub, P!Axes, Deltas
    <3> HIDE DEF delta
    <3>8. P!Missed(P!Sub(place, finger.at), delta) = P!Still
      BY <3>7, NothingMissed DEF PointerInv
    <3> QED BY <1>a, <2>4, <3>1, <3>4, <3>8
  <2> HIDE DEF first, next, delta
  <2> QED BY <2>1, <2>2, <2>3, <2>5, <2>6 DEF PointerInv
<1>5. CASE P!TouchUp
  <2>1. /\ finger # P!Off /\ finger' = P!Off /\ touchDown' = P!Up
        /\ UNCHANGED <<device, rotate, kernel, touch, untold, unreported>>
        /\ due' = P!Near(P!Sub(finger.at, finger.from))
        /\ clicked' = (P!TOUCH_UP \notin {touchDown.x, touchDown.y} /\ P!Near(P!Sub(touch, touchDown)))
    BY <1>5 DEF P!TouchUp
  <2>2. P!TypeOK'
    BY <2>1 DEF PointerInv, P!TypeOK, P!Up, P!Axes
  <2>3. ASSUME ~unreported PROVE clicked' = due'
    <3>1. /\ touchDown = finger.from /\ touch = finger.at
          /\ finger.from \in [P!Axes -> Places]
      BY <2>1, <2>3 DEF PointerInv
    <3>2. P!TOUCH_UP \notin {touchDown.x, touchDown.y}
      BY <3>1, PointersAssumption DEF P!TOUCH_UP, P!Axes
    <3>3. P!Near(P!Sub(finger.at, finger.from)) \in BOOLEAN
      BY DEF P!Near
    <3> QED BY <2>1, <3>1, <3>2, <3>3
  <2> QED BY <2>1, <2>2, <2>3 DEF PointerInv
<1> QED BY <1>1, <1>2, <1>3, <1>4, <1>5 DEF P!Next

-----------------------------------------------------------------------------
(* The pointer of a window.                                                *)

MotionsOf(q) == {i \in DOMAIN q : q[i].type = "motion"}
LeftsOf(q) == {i \in DOMAIN q : q[i].type = "button" /\ ~q[i].wheel}

\* The events B of r are the events A of q, at other places.
Shifted(q, A, r, B) ==
  \E s \in Int : /\ \A i \in A : i + s \in B /\ r[i + s] = q[i]
                 /\ \A j \in B : j - s \in A

\* last_x before the first movement.
Nowhere == -1

\* No movement was, or waits to be, measured from a place where the pointer is not.
Clean == "warp" \notin mixed /\ \A i \in MotionsOf(pending) : pending[i].before = requested

IsFirst(i, A) == \A j \in A : i <= j
IsLast(i, A) == \A j \in A : j <= i
Neighbours(i, j, A) == i < j /\ \A k \in A : k <= i \/ j <= k

\* The movements in the queue lead to where the pointer is, and none stays in its place
\* but in the middle.
Chained ==
  /\ \A i \in MotionsOf(pending) : pending[i].before \in 0 .. warps
  /\ \A i \in MotionsOf(pending) : IsLast(i, MotionsOf(pending)) => pending[i].x = position
  /\ \A i, j \in MotionsOf(pending) :
       Neighbours(i, j, MotionsOf(pending)) => pending[j].x # pending[i].x \/ pending[j].x = Centre

\* What the host is behind is what the queue will tell it.
MovesOwed ==
  /\ last_x \in Nat \cup {Nowhere} /\ behind \in Int
  /\ last_x = Nowhere =>
       /\ requested = 0 /\ "warp" \notin mixed
       /\ MotionsOf(pending) = {} => behind = 0
       /\ \A i \in MotionsOf(pending) :
            IsFirst(i, MotionsOf(pending)) => behind = position - pending[i].x
  /\ Clean /\ last_x # Nowhere =>
       /\ warps = requested => behind = position - last_x
       /\ warps < requested => last_x = Centre
       /\ MotionsOf(pending) = {} => behind = 0
       /\ \A i \in MotionsOf(pending) :
            IsFirst(i, MotionsOf(pending)) => pending[i].x # last_x \/ pending[i].x = Centre

\* The last event of the button in the queue says how it is.
ButtonOwed ==
  /\ LeftsOf(pending) = {} => hostPressed = pressed
  /\ \A i \in LeftsOf(pending) : IsLast(i, LeftsOf(pending)) => pending[i].down = pressed

MovesInv == Chained /\ MovesOwed
ButtonInv == "wheel" \notin mixed => ButtonOwed
WindowPointerInv == ("edge" \notin mixed => MovesInv) /\ ButtonInv

\* Queues.
LEMMA AppendEvents ==
  ASSUME NEW q \in Seq(WindowEvents), NEW e \in WindowEvents
  PROVE  /\ Append(q, e) \in Seq(WindowEvents)
         /\ MotionsOf(Append(q, e)) =
              IF e.type = "motion" THEN MotionsOf(q) \cup {Len(q) + 1} ELSE MotionsOf(q)
         /\ LeftsOf(Append(q, e)) =
              IF e.type = "button" /\ ~e.wheel THEN LeftsOf(q) \cup {Len(q) + 1} ELSE LeftsOf(q)
         /\ Append(q, e)[Len(q) + 1] = e
         /\ \A i \in MotionsOf(q) \cup LeftsOf(q) : Append(q, e)[i] = q[i] /\ i < Len(q) + 1
         /\ MotionsOf(q) \cup LeftsOf(q) \subseteq Int /\ Len(q) \in Int
<1>1. /\ Len(q) \in Nat /\ DOMAIN q = 1 .. Len(q)
      /\ DOMAIN Append(q, e) = 1 .. Len(q) + 1
      /\ \A i \in 1 .. Len(q) : Append(q, e)[i] = q[i]
      /\ Append(q, e)[Len(q) + 1] = e
      /\ Append(q, e) \in Seq(WindowEvents)
  OBVIOUS
<1> DEFINE r == Append(q, e)
<1> HIDE DEF r
<1>2. MotionsOf(r) = IF e.type = "motion" THEN MotionsOf(q) \cup {Len(q) + 1} ELSE MotionsOf(q)
  BY <1>1 DEF MotionsOf, r
<1>3. LeftsOf(r) = IF e.type = "button" /\ ~e.wheel THEN LeftsOf(q) \cup {Len(q) + 1} ELSE LeftsOf(q)
  BY <1>1 DEF LeftsOf, r
<1>4. MotionsOf(q) \cup LeftsOf(q) \subseteq 1 .. Len(q)
  BY <1>1 DEF MotionsOf, LeftsOf
<1> QED BY <1>1, <1>2, <1>3, <1>4 DEF r

LEMMA TailEvents ==
  ASSUME NEW q \in Seq(WindowEvents), q # <<>>
  PROVE  /\ Tail(q) \in Seq(WindowEvents) /\ Head(q) \in WindowEvents /\ Head(q) = q[1]
         /\ MotionsOf(Tail(q)) = {i - 1 : i \in MotionsOf(q) \ {1}}
         /\ LeftsOf(Tail(q)) = {i - 1 : i \in LeftsOf(q) \ {1}}
         /\ 1 \in MotionsOf(q) <=> Head(q).type = "motion"
         /\ 1 \in LeftsOf(q) <=> Head(q).type = "button" /\ ~Head(q).wheel
         /\ \A i \in MotionsOf(q) \cup LeftsOf(q) : i = 1 \/ (Tail(q)[i - 1] = q[i] /\ 1 < i)
         /\ MotionsOf(q) \cup LeftsOf(q) \subseteq Int
<1>1. /\ Len(q) \in Nat \ {0} /\ DOMAIN q = 1 .. Len(q)
      /\ DOMAIN Tail(q) = 1 .. Len(q) - 1
      /\ \A i \in 1 .. Len(q) - 1 : Tail(q)[i] = q[i + 1]
      /\ Head(q) = q[1]
      /\ Tail(q) \in Seq(WindowEvents) /\ Head(q) \in WindowEvents
  OBVIOUS
<1> DEFINE r == Tail(q)
<1> HIDE DEF r
<1>2. MotionsOf(q) \subseteq 1 .. Len(q) /\ LeftsOf(q) \subseteq 1 .. Len(q)
  BY <1>1 DEF MotionsOf, LeftsOf
<1>3. \A i \in 2 .. Len(q) : i - 1 \in 1 .. Len(q) - 1 /\ (i - 1) + 1 = i /\ r[i - 1] = q[i]
  BY <1>1 DEF r
<1>4. \A i \in 1 .. Len(q) - 1 : i + 1 \in 2 .. Len(q) /\ (i + 1) - 1 = i /\ r[i] = q[i + 1]
  BY <1>1 DEF r
<1>5. MotionsOf(r) = {i - 1 : i \in MotionsOf(q) \ {1}}
  <2>1. ASSUME NEW i \in MotionsOf(q) \ {1} PROVE i - 1 \in MotionsOf(r)
    <3>1. i \in 2 .. Len(q) /\ q[i].type = "motion"
      BY <1>1, <1>2 DEF MotionsOf
    <3> QED BY <1>1, <1>3, <3>1 DEF MotionsOf, r
  <2>2. ASSUME NEW i \in MotionsOf(r) PROVE i + 1 \in MotionsOf(q) \ {1} /\ i = (i + 1) - 1
    <3>1. i \in 1 .. Len(q) - 1 /\ r[i].type = "motion"
      BY <1>1 DEF MotionsOf, r
    <3> QED BY <1>1, <1>4, <3>1 DEF MotionsOf
  <2> QED BY <2>1, <2>2
<1>6. LeftsOf(r) = {i - 1 : i \in LeftsOf(q) \ {1}}
  <2>1. ASSUME NEW i \in LeftsOf(q) \ {1} PROVE i - 1 \in LeftsOf(r)
    <3>1. i \in 2 .. Len(q) /\ q[i].type = "button" /\ ~q[i].wheel
      BY <1>1, <1>2 DEF LeftsOf
    <3> QED BY <1>1, <1>3, <3>1 DEF LeftsOf, r
  <2>2. ASSUME NEW i \in LeftsOf(r) PROVE i + 1 \in LeftsOf(q) \ {1} /\ i = (i + 1) - 1
    <3>1. i \in 1 .. Len(q) - 1 /\ r[i].type = "button" /\ ~r[i].wheel
      BY <1>1 DEF LeftsOf, r
    <3> QED BY <1>1, <1>4, <3>1 DEF LeftsOf
  <2> QED BY <2>1, <2>2
<1>7. (1 \in MotionsOf(q) <=> Head(q).type = "motion")
      /\ (1 \in LeftsOf(q) <=> Head(q).type = "button" /\ ~Head(q).wheel)
  BY <1>1 DEF MotionsOf, LeftsOf
<1>8. \A i \in MotionsOf(q) \cup LeftsOf(q) : i = 1 \/ (r[i - 1] = q[i] /\ 1 < i)
  BY <1>2, <1>3
<1> QED BY <1>1, <1>2, <1>5, <1>6, <1>7, <1>8 DEF r

\* The event at the head is of another kind, or one is appended that is.
LEMMA OthersShift ==
  ASSUME NEW q \in Seq(WindowEvents)
  PROVE  /\ Shifted(q, MotionsOf(q), q, MotionsOf(q)) /\ Shifted(q, LeftsOf(q), q, LeftsOf(q))
         /\ \A e \in WindowEvents :
              /\ e.type # "motion" => Shifted(q, MotionsOf(q), Append(q, e), MotionsOf(Append(q, e)))
              /\ ~(e.type = "button" /\ ~e.wheel)
                   => Shifted(q, LeftsOf(q), Append(q, e), LeftsOf(Append(q, e)))
         /\ q # <<>> =>
              /\ Head(q).type # "motion" => Shifted(q, MotionsOf(q), Tail(q), MotionsOf(Tail(q)))
              /\ ~(Head(q).type = "button" /\ ~Head(q).wheel)
                   => Shifted(q, LeftsOf(q), Tail(q), LeftsOf(Tail(q)))
<1>1. MotionsOf(q) \subseteq Int /\ LeftsOf(q) \subseteq Int
  BY DEF MotionsOf, LeftsOf
<1>2. \A r, A : A \subseteq Int /\ (\A i \in A : r[i] = q[i]) => Shifted(q, A, r, A)
  <2> SUFFICES ASSUME NEW r, NEW A, A \subseteq Int, \A i \in A : r[i] = q[i]
               PROVE  Shifted(q, A, r, A)
    OBVIOUS
  <2>1. /\ \A i \in A : i + 0 \in A /\ r[i + 0] = q[i]
        /\ \A j \in A : j - 0 \in A
    <3>1. \A i \in A : i + 0 = i /\ i - 0 = i
      BY ONLY A \subseteq Int
    <3> QED BY <3>1
  <2>2. 0 \in Int
    OBVIOUS
  <2> QED BY <2>1, <2>2 DEF Shifted
<1>3. ASSUME NEW e \in WindowEvents
      PROVE  /\ e.type # "motion" => Shifted(q, MotionsOf(q), Append(q, e), MotionsOf(Append(q, e)))
             /\ ~(e.type = "button" /\ ~e.wheel)
                  => Shifted(q, LeftsOf(q), Append(q, e), LeftsOf(Append(q, e)))
  <2> DEFINE r == Append(q, e)
  <2>1. /\ \A i \in MotionsOf(q) \cup LeftsOf(q) : r[i] = q[i]
        /\ e.type # "motion" => MotionsOf(r) = MotionsOf(q)
        /\ ~(e.type = "button" /\ ~e.wheel) => LeftsOf(r) = LeftsOf(q)
    BY AppendEvents
  <2> HIDE DEF r
  <2>2. Shifted(q, MotionsOf(q), r, MotionsOf(q)) /\ Shifted(q, LeftsOf(q), r, LeftsOf(q))
    BY <1>1, <1>2, <2>1
  <2>3. e.type # "motion" => Shifted(q, MotionsOf(q), r, MotionsOf(r))
    BY <2>1, <2>2
  <2>4. ~(e.type = "button" /\ ~e.wheel) => Shifted(q, LeftsOf(q), r, LeftsOf(r))
    BY <2>1, <2>2
  <2> QED BY <2>3, <2>4 DEF r
<1>4. ASSUME q # <<>>
      PROVE  /\ Head(q).type # "motion" => Shifted(q, MotionsOf(q), Tail(q), MotionsOf(Tail(q)))
             /\ ~(Head(q).type = "button" /\ ~Head(q).wheel)
                  => Shifted(q, LeftsOf(q), Tail(q), LeftsOf(Tail(q)))
  <2> DEFINE r == Tail(q)
  <2>2. /\ MotionsOf(r) = {i - 1 : i \in MotionsOf(q) \ {1}}
        /\ LeftsOf(r) = {i - 1 : i \in LeftsOf(q) \ {1}}
        /\ \A i \in MotionsOf(q) \cup LeftsOf(q) : i = 1 \/ r[i - 1] = q[i]
        /\ 1 \in MotionsOf(q) <=> Head(q).type = "motion"
        /\ 1 \in LeftsOf(q) <=> Head(q).type = "button" /\ ~Head(q).wheel
    BY <1>4, TailEvents
  <2> HIDE DEF r
  <2>3. ASSUME Head(q).type # "motion" PROVE Shifted(q, MotionsOf(q), r, MotionsOf(r))
    <3>1. \A i \in MotionsOf(q) : i \in Int /\ i # 1 /\ i + (-1) = i - 1 /\ r[i - 1] = q[i]
      BY <1>1, <2>2, <2>3
    <3>2. \A i \in MotionsOf(q) : i + (-1) \in MotionsOf(r) /\ r[i + (-1)] = q[i]
      BY <2>2, <3>1
    <3>3. \A j \in MotionsOf(r) : j - (-1) \in MotionsOf(q)
      <4> TAKE j \in MotionsOf(r)
      <4>1. PICK i \in MotionsOf(q) : j = i - 1
        BY <2>2
      <4>2. j - (-1) = i
        BY <3>1, <4>1
      <4> QED BY <4>2
    <3>4. -1 \in Int
      OBVIOUS
    <3> QED BY <3>2, <3>3, <3>4 DEF Shifted
  <2>4. ASSUME ~(Head(q).type = "button" /\ ~Head(q).wheel) PROVE Shifted(q, LeftsOf(q), r, LeftsOf(r))
    <3>1. \A i \in LeftsOf(q) : i \in Int /\ i # 1 /\ i + (-1) = i - 1 /\ r[i - 1] = q[i]
      BY <1>1, <2>2, <2>4
    <3>2. \A i \in LeftsOf(q) : i + (-1) \in LeftsOf(r) /\ r[i + (-1)] = q[i]
      BY <2>2, <3>1
    <3>3. \A j \in LeftsOf(r) : j - (-1) \in LeftsOf(q)
      <4> TAKE j \in LeftsOf(r)
      <4>1. PICK i \in LeftsOf(q) : j = i - 1
        BY <2>2
      <4>2. j - (-1) = i
        BY <3>1, <4>1
      <4> QED BY <4>2
    <3>4. -1 \in Int
      OBVIOUS
    <3> QED BY <3>2, <3>3, <3>4 DEF Shifted
  <2> QED BY <2>3, <2>4 DEF r
<1> QED BY <1>1, <1>2, <1>3, <1>4

\* What is said of first, last and neighbouring events is said of shifted ones.
LEMMA ShiftedPlaces ==
  ASSUME NEW q, NEW A \in SUBSET Int, NEW r, NEW B \in SUBSET Int, Shifted(q, A, r, B)
  PROVE  /\ A = {} <=> B = {}
         /\ \A j \in B : \E i \in A :
              /\ r[j] = q[i] /\ (IsFirst(j, B) => IsFirst(i, A)) /\ (IsLast(j, B) => IsLast(i, A))
         /\ \A j, m \in B : Neighbours(j, m, B) =>
              \E i, l \in A : r[j] = q[i] /\ r[m] = q[l] /\ Neighbours(i, l, A)
         /\ \A i \in A : \E j \in B : r[j] = q[i]
<1>1. PICK s \in Int : /\ \A i \in A : i + s \in B /\ r[i + s] = q[i]
                       /\ \A j \in B : j - s \in A
  BY DEF Shifted
<1>2. \A i \in A : i \in Int /\ i + s \in B
  BY <1>1
<1>3. ASSUME NEW j \in B PROVE j \in Int /\ \E i \in A : j = i + s /\ r[j] = q[i]
  <2>1. j - s \in A /\ j - s \in Int
    BY <1>1
  <2>2. j \in Int /\ j = (j - s) + s
    BY <1>1, <2>1
  <2> QED BY <1>1, <2>1, <2>2
<1>4. B \in SUBSET Int /\ (A = {} <=> B = {})
  BY <1>1, <1>3
<1>5. ASSUME NEW j \in B
      PROVE  \E i \in A :
               /\ r[j] = q[i] /\ (IsFirst(j, B) => IsFirst(i, A)) /\ (IsLast(j, B) => IsLast(i, A))
  <2>1. PICK i \in A : j = i + s /\ r[j] = q[i]
    BY <1>3
  <2>2. IsFirst(j, B) => IsFirst(i, A)
    BY <1>2, <2>1 DEF IsFirst
  <2>3. IsLast(j, B) => IsLast(i, A)
    BY <1>2, <2>1 DEF IsLast
  <2> QED BY <2>1, <2>2, <2>3
<1>6. ASSUME NEW j \in B, NEW m \in B, Neighbours(j, m, B)
      PROVE  \E i, l \in A : r[j] = q[i] /\ r[m] = q[l] /\ Neighbours(i, l, A)
  <2>1. PICK i \in A : j = i + s /\ r[j] = q[i]
    BY <1>3
  <2>2. PICK l \in A : m = l + s /\ r[m] = q[l]
    BY <1>3
  <2>3. Neighbours(i, l, A)
    BY <1>2, <1>6, <2>1, <2>2 DEF Neighbours
  <2> QED BY <2>1, <2>2, <2>3
<1> QED BY <1>1, <1>2, <1>4, <1>5, <1>6

LEMMA MotionFields ==
  ASSUME NEW q \in Seq(WindowEvents)
  PROVE  /\ \A i \in MotionsOf(q) : q[i].x \in Int /\ q[i].before \in Nat
         /\ MotionsOf(q) \in SUBSET Int /\ LeftsOf(q) \in SUBSET Int
         /\ \A i \in LeftsOf(q) : q[i].down \in BOOLEAN
<1>1. \A i \in DOMAIN q : i \in Int /\ q[i] \in WindowEvents
  OBVIOUS
<1> QED BY <1>1 DEF MotionsOf, LeftsOf, WindowEvents

\* Events of other kinds come and go.
LEMMA OthersKeepMoves ==
  ASSUME MovesInv, MotionsOf(pending) \in SUBSET Int, MotionsOf(pending') \in SUBSET Int,
         Shifted(pending, MotionsOf(pending), pending', MotionsOf(pending')),
         UNCHANGED <<position, warps, requested, last_x, behind>>,
         "warp" \in mixed' <=> "warp" \in mixed
  PROVE  MovesInv'
<1> DEFINE A == MotionsOf(pending)
           B == MotionsOf(pending')
<1>1. /\ A = {} <=> B = {}
      /\ \A j \in B : \E i \in A :
           /\ pending'[j] = pending[i] /\ (IsFirst(j, B) => IsFirst(i, A)) /\ (IsLast(j, B) => IsLast(i, A))
      /\ \A j, m \in B : Neighbours(j, m, B) =>
           \E i, l \in A : pending'[j] = pending[i] /\ pending'[m] = pending[l] /\ Neighbours(i, l, A)
      /\ \A i \in A : \E j \in B : pending'[j] = pending[i]
  <2>1. A \in SUBSET Int /\ B \in SUBSET Int /\ Shifted(pending, A, pending', B)
    OBVIOUS
  <2> HIDE DEF A, B
  <2> QED BY ONLY <2>1, ShiftedPlaces
<1>2. /\ \A i \in A : pending[i].before \in 0 .. warps
      /\ \A i \in A : IsLast(i, A) => pending[i].x = position
      /\ \A i, j \in A : Neighbours(i, j, A) => pending[j].x # pending[i].x \/ pending[j].x = Centre
      /\ last_x = Nowhere => \A i \in A : IsFirst(i, A) => behind = position - pending[i].x
      /\ Clean <=> "warp" \notin mixed /\ \A i \in A : pending[i].before = requested
      /\ Clean /\ last_x # Nowhere =>
           \A i \in A : IsFirst(i, A) => pending[i].x # last_x \/ pending[i].x = Centre
      /\ last_x = Nowhere /\ A = {} => behind = 0
      /\ Clean /\ last_x # Nowhere /\ A = {} => behind = 0
  BY DEF MovesInv, Chained, MovesOwed, Clean
<1>3. Clean' <=> "warp" \notin mixed' /\ \A j \in B : pending'[j].before = requested'
  BY DEF Clean
<1> HIDE DEF A, B
<1>4. Clean' <=> Clean
  BY <1>1, <1>2, <1>3
<1>5. /\ \A i \in B : pending'[i].before \in 0 .. warps'
      /\ \A i \in B : IsLast(i, B) => pending'[i].x = position'
      /\ \A i, j \in B : Neighbours(i, j, B) => pending'[j].x # pending'[i].x \/ pending'[j].x = Centre
  <2>1. \A i \in B : pending'[i].before \in 0 .. warps'
    BY <1>1, <1>2
  <2>2. \A i \in B : IsLast(i, B) => pending'[i].x = position'
    BY <1>1, <1>2
  <2>3. ASSUME NEW i \in B, NEW j \in B, Neighbours(i, j, B)
        PROVE  pending'[j].x # pending'[i].x \/ pending'[j].x = Centre
    <3>1. PICK k, l \in A : pending'[i] = pending[k] /\ pending'[j] = pending[l] /\ Neighbours(k, l, A)
      BY <1>1, <2>3
    <3> QED BY <1>2, <3>1
  <2> QED BY <2>1, <2>2, <2>3
<1>6. last_x' = Nowhere =>
        /\ requested' = 0 /\ "warp" \notin mixed'
        /\ B = {} => behind' = 0
        /\ \A i \in B : IsFirst(i, B) => behind' = position' - pending'[i].x
  BY <1>1, <1>2 DEF MovesInv, MovesOwed
<1>7. Clean' /\ last_x' # Nowhere =>
        /\ warps' = requested' => behind' = position' - last_x'
        /\ warps' < requested' => last_x' = Centre
        /\ B = {} => behind' = 0
        /\ \A i \in B : IsFirst(i, B) => pending'[i].x # last_x' \/ pending'[i].x = Centre
  BY <1>1, <1>2, <1>4 DEF MovesInv, MovesOwed
<1>8. last_x' \in Nat \cup {Nowhere} /\ behind' \in Int
  BY DEF MovesInv, MovesOwed
<1> QED BY <1>5, <1>6, <1>7, <1>8 DEF MovesInv, Chained, MovesOwed, B

LEMMA OthersKeepButton ==
  ASSUME ButtonInv, LeftsOf(pending) \in SUBSET Int, LeftsOf(pending') \in SUBSET Int,
         Shifted(pending, LeftsOf(pending), pending', LeftsOf(pending')),
         UNCHANGED pressed, "wheel" \in mixed => "wheel" \in mixed',
         "wheel" \notin mixed' => hostPressed' = hostPressed
  PROVE  ButtonInv'
<1> DEFINE A == LeftsOf(pending)
           B == LeftsOf(pending')
<1>1. /\ A = {} <=> B = {}
      /\ \A j \in B : \E i \in A : pending'[j] = pending[i] /\ (IsLast(j, B) => IsLast(i, A))
  <2>1. A \in SUBSET Int /\ B \in SUBSET Int /\ Shifted(pending, A, pending', B)
    OBVIOUS
  <2> HIDE DEF A, B
  <2>2. /\ A = {} <=> B = {}
        /\ \A j \in B : \E i \in A :
             /\ pending'[j] = pending[i] /\ (IsFirst(j, B) => IsFirst(i, A)) /\ (IsLast(j, B) => IsLast(i, A))
        /\ \A j, m \in B : Neighbours(j, m, B) =>
             \E i, l \in A : pending'[j] = pending[i] /\ pending'[m] = pending[l] /\ Neighbours(i, l, A)
        /\ \A i \in A : \E j \in B : pending'[j] = pending[i]
    BY ONLY <2>1, ShiftedPlaces
  <2>3. ASSUME NEW j \in B PROVE \E i \in A : pending'[j] = pending[i] /\ (IsLast(j, B) => IsLast(i, A))
    BY <2>2
  <2> QED BY <2>2, <2>3
<1>2. "wheel" \notin mixed =>
        (A = {} => hostPressed = pressed) /\ \A i \in A : IsLast(i, A) => pending[i].down = pressed
  BY DEF ButtonInv, ButtonOwed
<1> HIDE DEF A, B
<1>3. "wheel" \notin mixed' =>
        (B = {} => hostPressed' = pressed') /\ \A i \in B : IsLast(i, B) => pending'[i].down = pressed'
  <2> SUFFICES ASSUME "wheel" \notin mixed', NEW i \in B, IsLast(i, B) PROVE pending'[i].down = pressed
    BY <1>1, <1>2
  <2>1. PICK k \in A : pending'[i] = pending[k] /\ IsLast(k, A)
    BY <1>1
  <2>2. pending[k].down = pressed
    BY <1>2, <2>1
  <2> QED BY <2>1, <2>2
<1> QED BY <1>3 DEF ButtonInv, ButtonOwed, B

\* The pointer is moved by the user or put back (then d is minus its place): a movement
\* goes to the end of the queue.
LEMMA MotionQueued ==
  ASSUME MovesInv, NEW d \in Int \ {0}, NEW n \in Nat,
         position \in Int, requested \in Nat, warps \in 0 .. requested,
         position' = position + d, warps' = n, warps <= n, n <= requested,
         NEW A \in SUBSET Int, A = MotionsOf(pending),
         NEW B, B = MotionsOf(pending'), NEW m \in Int,
         B = A \cup {m}, pending'[m].x = position', pending'[m].before = n,
         \A i \in A : pending'[i] = pending[i] /\ i < m,
         \A i \in A : pending[i].x \in Int /\ pending[i].before \in Nat,
         \/ warps = n
         \/ n = requested /\ position + d = Centre,
         warps = n => behind' = IF last_x = Nowhere /\ A = {} THEN behind ELSE behind + d,
         warps # n => behind' = behind,
         UNCHANGED <<requested, last_x, mixed>>
  PROVE  MovesInv'
<1>a. position \in Int /\ requested \in Nat /\ warps \in 0 .. requested /\ warps \in Nat
  OBVIOUS
<1>1. /\ B = A \cup {m} /\ pending'[m].x = position' /\ pending'[m].before = n
      /\ \A i \in A : pending'[i] = pending[i] /\ i < m
      /\ A \subseteq Int /\ m \in Int
  OBVIOUS
<1>f. \A i \in A : pending[i].x \in Int /\ pending[i].before \in Nat
  OBVIOUS
<1>2. /\ \A i \in A : pending[i].before \in 0 .. warps
      /\ \A i \in A : IsLast(i, A) => pending[i].x = position
      /\ \A i, j \in A : Neighbours(i, j, A) => pending[j].x # pending[i].x \/ pending[j].x = Centre
      /\ last_x = Nowhere => \A i \in A : IsFirst(i, A) => behind = position - pending[i].x
      /\ Clean <=> "warp" \notin mixed /\ \A i \in A : pending[i].before = requested
      /\ Clean /\ last_x # Nowhere =>
           \A i \in A : IsFirst(i, A) => pending[i].x # last_x \/ pending[i].x = Centre
      /\ last_x = Nowhere /\ A = {} => behind = 0
      /\ Clean /\ last_x # Nowhere /\ A = {} => behind = 0
  BY DEF MovesInv, Chained, MovesOwed, Clean
<1>c. /\ last_x \in Nat \cup {Nowhere} /\ behind \in Int /\ Nowhere = -1 /\ Centre \in Nat
      /\ last_x = Nowhere => requested = 0 /\ "warp" \notin mixed
      /\ Clean /\ last_x # Nowhere => /\ warps = requested => behind = position - last_x
                                      /\ warps < requested => last_x = Centre
  BY PointersAssumption DEF MovesInv, MovesOwed, Nowhere
<1>3. Clean' <=> "warp" \notin mixed' /\ \A j \in B : pending'[j].before = requested'
  BY DEF Clean
<1>4. Clean' => Clean /\ n = requested
  BY <1>1, <1>2, <1>3
<1>x. pending'[m].x = position' /\ position' = position + d
  OBVIOUS
<1>5. /\ \A i \in B : pending'[i].before \in 0 .. n
      /\ \A i \in B : IsLast(i, B) => pending'[i].x = position'
  <2>1. ASSUME NEW i \in B PROVE pending'[i].before \in 0 .. n
    <3>1. CASE i \in A
      <4>1. pending[i].before \in 0 .. warps /\ pending'[i] = pending[i]
        BY <1>1, <1>2, <3>1
      <4> QED BY <1>a, <4>1
    <3> QED BY <1>1, <2>1, <3>1
  <2>2. \A i \in A : ~IsLast(i, B)
    BY <1>1 DEF IsLast
  <2> QED BY <1>1, <1>x, <2>1, <2>2
<1>6. ASSUME NEW i \in B, NEW j \in B, Neighbours(i, j, B)
      PROVE  pending'[j].x # pending'[i].x \/ pending'[j].x = Centre
  <2>1. i \in A
    BY <1>1, <1>6 DEF Neighbours
  <2>2. CASE j \in A
    <3>1. Neighbours(i, j, A)
      BY <1>1, <1>6 DEF Neighbours
    <3>2. pending[j].x # pending[i].x \/ pending[j].x = Centre
      BY <1>2, <2>1, <2>2, <3>1
    <3> QED BY <1>1, <2>1, <2>2, <3>2
  <2>3. CASE j = m
    <3>1. IsLast(i, A)
      <4> SUFFICES ASSUME NEW k \in A PROVE k <= i
        BY DEF IsLast
      <4>1. k <= i \/ m <= k
        BY <1>1, <1>6, <2>3 DEF Neighbours
      <4>2. k < m /\ k \in Int /\ m \in Int
        BY <1>1
      <4> QED BY <4>1, <4>2
    <3>2. pending'[i].x = position /\ pending'[j].x = position + d
      BY <1>1, <1>2, <1>x, <2>1, <2>3, <3>1
    <3> QED BY <1>a, <3>2
  <2> QED BY <1>1, <2>2, <2>3
<1>7. last_x' = Nowhere =>
        /\ requested' = 0 /\ "warp" \notin mixed'
        /\ B = {} => behind' = 0
        /\ \A i \in B : IsFirst(i, B) => behind' = position' - pending'[i].x
  <2> SUFFICES ASSUME last_x = Nowhere, NEW i \in B, IsFirst(i, B)
               PROVE  behind' = position' - pending'[i].x
    BY <1>1, <1>c
  <2>1. requested = 0 /\ n = 0 /\ warps = 0
    BY <1>a, <1>c
  <2>2. behind' = IF A = {} THEN behind ELSE behind + d
    BY <2>1
  <2>3. CASE i \in A
    <3>1. IsFirst(i, A)
      BY <1>1 DEF IsFirst
    <3>2. behind' = behind + d /\ behind = position - pending[i].x /\ pending'[i] = pending[i]
      BY <1>1, <1>2, <2>2, <2>3, <3>1
    <3>3. pending[i].x \in Int
      BY <1>f, <2>3
    <3> QED BY <1>a, <1>c, <3>2, <3>3
  <2>4. CASE i = m
    <3>1. A = {}
      BY <1>1, <2>4 DEF IsFirst
    <3>2. behind' = 0 /\ pending'[i].x = position'
      BY <1>2, <1>x, <2>2, <2>4, <3>1
    <3>3. position' \in Int
      BY <1>a
    <3> QED BY <3>2, <3>3
  <2> QED BY <1>1, <2>3, <2>4
<1>8. Clean' /\ last_x' # Nowhere =>
        /\ warps' = requested' => behind' = position' - last_x'
        /\ warps' < requested' => last_x' = Centre
        /\ B = {} => behind' = 0
        /\ \A i \in B : IsFirst(i, B) => pending'[i].x # last_x' \/ pending'[i].x = Centre
  <2>a. B # {} /\ (Clean' => ~(n < requested))
    BY <1>1, <1>4
  <2> SUFFICES ASSUME Clean', last_x # Nowhere
               PROVE  /\ behind' = position' - last_x
                      /\ \A i \in B : IsFirst(i, B) => pending'[i].x # last_x \/ pending'[i].x = Centre
    BY <2>a
  <2>1. Clean /\ n = requested /\ last_x \in Nat
    BY <1>4, <1>c
  <2>2. CASE warps = n
    <3>1. behind' = behind + d /\ behind = position - last_x
      BY <1>c, <2>1, <2>2
    <3>2. behind' = position' - last_x
      BY <1>a, <2>1, <3>1
    <3>3. ASSUME NEW i \in B, IsFirst(i, B) PROVE pending'[i].x # last_x \/ pending'[i].x = Centre
      <4>1. CASE i \in A
        <5>1. IsFirst(i, A)
          BY <1>1, <3>3 DEF IsFirst
        <5> QED BY <1>1, <1>2, <2>1, <4>1, <5>1
      <4>2. CASE i = m
        <5>1. A = {}
          BY <1>1, <3>3, <4>2 DEF IsFirst
        <5>2. behind = 0
          BY <1>2, <2>1, <5>1
        <5>3. pending'[i].x = position + d
          BY <1>x, <4>2
        <5> QED BY <1>a, <2>1, <3>1, <5>2, <5>3
      <4> QED BY <1>1, <4>1, <4>2
    <3> QED BY <3>2, <3>3
  <2>3. CASE warps # n
    <3>1. behind' = behind /\ position + d = Centre /\ warps < requested
      BY <1>a, <2>1, <2>3
    <3>2. A = {}
      <4>1. \A i \in A : pending[i].before \in 0 .. warps /\ pending[i].before = requested
        BY <1>2, <2>1
      <4> QED BY <1>a, <3>1, <4>1
    <3>3. behind = 0 /\ last_x = Centre
      BY <1>2, <1>c, <2>1, <3>1, <3>2
    <3>4. \A i \in B : pending'[i].x = Centre
      BY <1>1, <1>x, <3>1, <3>2
    <3> QED BY <3>1, <3>3, <3>4
  <2> QED BY <2>2, <2>3
<1>9. last_x' \in Nat \cup {Nowhere} /\ behind' \in Int
  BY <1>c
<1>10. Chained'
  BY <1>5, <1>6 DEF Chained
<1>11. MovesOwed'
  BY <1>7, <1>8, <1>9 DEF MovesOwed
<1> QED BY <1>10, <1>11 DEF MovesInv

\* A movement is taken.  Those that wait behind it and were made before the pointer was
\* put back are measured from the wrong place; otherwise it was the last one.
LEMMA MotionTaken ==
  ASSUME MovesInv, position \in Int, requested \in Nat, warps \in 0 .. requested,
         MotionsOf(pending) \in SUBSET Int,
         1 \in MotionsOf(pending),
         MotionsOf(pending') = {i - 1 : i \in MotionsOf(pending) \ {1}},
         \A i \in MotionsOf(pending) : i = 1 \/ (pending'[i - 1] = pending[i] /\ 1 < i),
         \A i \in MotionsOf(pending) : pending[i].x \in Int /\ pending[i].before \in Nat,
         last_x = Nowhere => behind' = behind,
         last_x # Nowhere => behind' = behind - (pending[1].x - last_x),
         last_x = Nowhere => pending[1].x # Nowhere,
         grabbed /\ last_x = pending[1].x => requested' = requested,
         grabbed /\ last_x # pending[1].x => requested' = requested + 1,
         ~grabbed => last_x' = pending[1].x /\ requested' = requested,
         UNCHANGED <<position, warps>>,
         last_x' \in Nat,
         grabbed => last_x' = Centre,
         "warp" \in mixed' <=> "warp" \in mixed \/ pending[1].before < requested
  PROVE  MovesInv'
<1>p. PICK A, B, x : A = MotionsOf(pending) /\ B = MotionsOf(pending') /\ x = pending[1].x
  OBVIOUS
<1>q. /\ A \in SUBSET Int
      /\ 1 \in A
      /\ B = {i - 1 : i \in A \ {1}}
      /\ \A i \in A : i = 1 \/ (pending'[i - 1] = pending[i] /\ 1 < i)
      /\ \A i \in A : pending[i].x \in Int /\ pending[i].before \in Nat
      /\ last_x = Nowhere => behind' = behind
      /\ last_x # Nowhere => behind' = behind - (x - last_x)
      /\ last_x = Nowhere => x # Nowhere
      /\ grabbed /\ last_x = x => requested' = requested
      /\ grabbed /\ last_x # x => requested' = requested + 1
      /\ ~grabbed => last_x' = x /\ requested' = requested
  BY <1>p
<1> USE <1>p, <1>q
<1>a. position \in Int /\ requested \in Nat /\ warps \in 0 .. requested /\ warps \in Nat /\ x \in Int
  OBVIOUS
<1>b. /\ last_x \in Nat \cup {Nowhere} /\ behind \in Int /\ Nowhere = -1 /\ Centre \in Nat
      /\ (last_x = Nowhere => x # Nowhere) /\ last_x' \in Nat
      /\ last_x = Nowhere => requested = 0 /\ "warp" \notin mixed
      /\ Clean /\ last_x # Nowhere => /\ warps = requested => behind = position - last_x
                                      /\ warps < requested => last_x = Centre
  BY PointersAssumption DEF MovesInv, MovesOwed, Nowhere
<1>1. /\ 1 \in A /\ A \subseteq Int /\ \A i \in A : 1 <= i
      /\ \A j \in B : j \in Int /\ j + 1 \in A /\ 1 < j + 1 /\ pending'[j] = pending[j + 1]
      /\ \A i \in A \ {1} : i - 1 \in B
      /\ IsFirst(1, A)
  <2>1. ASSUME NEW j \in B PROVE j \in Int /\ j + 1 \in A /\ 1 < j + 1 /\ pending'[j] = pending[j + 1]
    <3>1. PICK i \in A \ {1} : j = i - 1
      OBVIOUS
    <3>2. i \in Int /\ j + 1 = i /\ j \in Int
      BY <3>1
    <3> QED BY <3>1, <3>2
  <2>2. \A i \in A : 1 <= i
    OBVIOUS
  <2> QED BY <2>1, <2>2 DEF IsFirst
<1>2. /\ \A i \in A : pending[i].before \in 0 .. warps
      /\ \A i \in A : IsLast(i, A) => pending[i].x = position
      /\ \A i, j \in A : Neighbours(i, j, A) => pending[j].x # pending[i].x \/ pending[j].x = Centre
      /\ last_x = Nowhere => behind = position - x
      /\ Clean <=> "warp" \notin mixed /\ \A i \in A : pending[i].before = requested
      /\ Clean /\ last_x # Nowhere => x # last_x \/ x = Centre
  BY <1>1 DEF MovesInv, Chained, MovesOwed, Clean
<1>3. Clean' <=> "warp" \notin mixed' /\ \A j \in B : pending'[j].before = requested'
  BY DEF Clean
<1>g. /\ requested' \in Nat /\ requested <= requested'
      /\ last_x' = Centre \/ (last_x' = x /\ requested' = requested)
      /\ last_x' = x \/ (last_x' = Centre /\ (last_x = x \/ requested' = requested + 1))
      /\ last_x' \in Nat
      /\ last_x = Nowhere => behind' = behind
      /\ last_x # Nowhere => behind' = behind - (x - last_x)
      /\ position' = position /\ warps' = warps
  <2>1. requested' \in Nat /\ requested <= requested'
    BY <1>a
  <2>2. last_x' \in Nat
    OBVIOUS
  <2> QED BY <2>1, <2>2
<1>c. "warp" \in mixed' <=> "warp" \in mixed \/ pending[1].before < requested
  OBVIOUS
<1>d. pending[1].x = x /\ pending[1].before \in Nat /\ \A i \in A : pending[i].before \in Nat
  OBVIOUS
<1>4. ASSUME Clean'
      PROVE  /\ Clean /\ warps = requested
             /\ requested' = requested \/ B = {}
  <2>1. pending[1].before = requested
    BY <1>a, <1>c, <1>d, <1>1, <1>2, <1>3, <1>4
  <2>2. warps = requested
    BY <1>a, <1>1, <1>2, <2>1
  <2>3. ASSUME NEW i \in A \ {1} PROVE pending[i].before = requested /\ requested' = requested
    <3>1. pending'[i - 1] = pending[i] /\ i - 1 \in B
      BY <1>1, <2>3
    <3>2. pending[i].before = requested' /\ pending[i].before \in 0 .. warps
      BY <1>2, <1>3, <1>4, <2>3, <3>1
    <3> QED BY <1>a, <1>g, <2>2, <3>2
  <2>4. "warp" \notin mixed
    BY <1>c, <1>3, <1>4
  <2>5. Clean
    BY <1>2, <2>1, <2>3, <2>4
  <2>6. requested' = requested \/ B = {}
    <3>1. CASE B # {}
      <4>1. PICK j \in B : TRUE
        BY <3>1
      <4>2. j + 1 \in A \ {1}
        BY <1>1
      <4> QED BY <2>3, <4>2
    <3> QED BY <3>1
  <2> QED BY <2>2, <2>5, <2>6
<1>5. ASSUME NEW j \in B, IsLast(j, B) PROVE IsLast(j + 1, A)
  <2> SUFFICES ASSUME NEW k \in A PROVE k <= j + 1
    BY DEF IsLast
  <2>1. CASE k = 1
    BY <1>1, <2>1
  <2>2. CASE k # 1
    <3>1. k - 1 \in B /\ k \in Int /\ j \in Int
      BY <1>1, <2>2
    <3>2. k - 1 <= j
      BY <1>5, <3>1 DEF IsLast
    <3> QED BY <3>1, <3>2
  <2> QED BY <2>1, <2>2
<1>6. ASSUME NEW j \in B, NEW l \in B, Neighbours(j, l, B) PROVE Neighbours(j + 1, l + 1, A)
  <2>1. j \in Int /\ l \in Int /\ j < l /\ \A k \in B : k <= j \/ l <= k
    BY <1>1, <1>6 DEF Neighbours
  <2> SUFFICES ASSUME NEW k \in A PROVE k <= j + 1 \/ l + 1 <= k
    BY <2>1 DEF Neighbours
  <2>2. CASE k = 1
    BY <1>1, <2>2
  <2>3. CASE k # 1
    <3>1. k - 1 \in B /\ k \in Int
      BY <1>1, <2>3
    <3>2. k - 1 <= j \/ l <= k - 1
      BY <2>1, <3>1
    <3> QED BY <2>1, <3>1, <3>2
  <2> QED BY <2>2, <2>3
<1>7. ASSUME NEW j \in B, IsFirst(j, B) PROVE Neighbours(1, j + 1, A)
  <2>1. j \in Int /\ 1 < j + 1 /\ \A k \in B : j <= k
    BY <1>1, <1>7 DEF IsFirst
  <2> SUFFICES ASSUME NEW k \in A PROVE k <= 1 \/ j + 1 <= k
    BY <2>1 DEF Neighbours
  <2>2. CASE k = 1
    BY <2>2
  <2>3. CASE k # 1
    <3>1. k - 1 \in B /\ k \in Int
      BY <1>1, <2>3
    <3>2. j <= k - 1
      BY <2>1, <3>1
    <3> QED BY <2>1, <3>1, <3>2
  <2> QED BY <2>2, <2>3
<1>8. Chained'
  <2>1. ASSUME NEW j \in B PROVE pending'[j].before \in 0 .. warps
    BY <1>1, <1>2, <2>1
  <2>2. ASSUME NEW j \in B, IsLast(j, B) PROVE pending'[j].x = position
    BY <1>1, <1>2, <1>5, <2>2
  <2>3. ASSUME NEW j \in B, NEW l \in B, Neighbours(j, l, B)
        PROVE  pending'[l].x # pending'[j].x \/ pending'[l].x = Centre
    <3>1. Neighbours(j + 1, l + 1, A) /\ j + 1 \in A /\ l + 1 \in A
      BY <1>1, <1>6, <2>3
    <3> QED BY <1>1, <1>2, <2>3, <3>1
  <2> QED BY <1>g, <2>1, <2>2, <2>3 DEF Chained
<1>9. ASSUME B = {} PROVE position = x
  <2>1. A = {1}
    BY <1>1, <1>9
  <2>2. IsLast(1, A)
    BY <2>1 DEF IsLast
  <2> QED BY <1>d, <1>1, <1>2, <2>2
<1>10. ASSUME Clean'
       PROVE  /\ behind' = position - x
              /\ warps' = requested' => behind' = position' - last_x'
              /\ warps' < requested' => last_x' = Centre
              /\ B = {} => behind' = 0
              /\ \A j \in B : IsFirst(j, B) => pending'[j].x # last_x' \/ pending'[j].x = Centre
  <2>1. behind' = position - x
    <3>1. CASE last_x = Nowhere
      BY <1>2, <1>g, <3>1
    <3>2. CASE last_x # Nowhere
      <4>1. last_x \in Int /\ behind = position - last_x /\ behind' = behind - (x - last_x)
        BY <1>4, <1>10, <1>b, <1>g, <3>2
      <4> QED BY <1>a, <4>1
    <3> QED BY <3>1, <3>2
  <2>2. ASSUME warps' = requested' PROVE behind' = position' - last_x'
    <3>1. requested' = requested
      BY <1>4, <1>10, <1>g, <2>2
    <3>2. CASE last_x' = x
      BY <1>g, <2>1, <3>2
    <3>3. CASE last_x' # x
      <4>1. last_x # Nowhere /\ x = last_x /\ last_x' = Centre
        BY <1>a, <1>b, <1>g, <3>1, <3>3
      <4>2. x = Centre
        BY <1>2, <1>4, <1>10, <4>1
      <4> QED BY <3>3, <4>1, <4>2
    <3> QED BY <3>2, <3>3
  <2>3. ASSUME warps' < requested' PROVE last_x' = Centre
    <3>1. requested' # requested
      BY <1>a, <1>4, <1>10, <1>g, <2>3
    <3> QED BY <1>g, <3>1
  <2>4. B = {} => behind' = 0
    BY <1>a, <1>9, <2>1
  <2>5. ASSUME NEW j \in B, IsFirst(j, B) PROVE pending'[j].x # last_x' \/ pending'[j].x = Centre
    <3>1. pending[j + 1].x # x \/ pending[j + 1].x = Centre
      BY <1>d, <1>1, <1>2, <1>7, <2>5
    <3>2. pending'[j] = pending[j + 1]
      BY <1>1, <2>5
    <3> QED BY <1>g, <3>1, <3>2
  <2> QED BY <2>1, <2>2, <2>3, <2>4, <2>5
<1>11. last_x' # Nowhere /\ behind' \in Int
  BY <1>a, <1>b, <1>g
<1>12. MovesOwed'
  BY <1>10, <1>11, <1>g DEF MovesOwed
<1> QED BY <1>8, <1>12 DEF MovesInv

LEMMA ShiftedOn ==
  ASSUME NEW q, NEW A \in SUBSET Int, NEW r, NEW B \in SUBSET Int, NEW s, NEW C \in SUBSET Int,
         Shifted(q, A, r, B), Shifted(r, B, s, C)
  PROVE  Shifted(q, A, s, C)
<1>1. PICK k \in Int : /\ \A i \in A : i + k \in B /\ r[i + k] = q[i]
                       /\ \A j \in B : j - k \in A
  BY DEF Shifted
<1>2. PICK l \in Int : /\ \A i \in B : i + l \in C /\ s[i + l] = r[i]
                       /\ \A j \in C : j - l \in B
  BY DEF Shifted
<1>3. \A i \in A : i + (k + l) = (i + k) + l
  OBVIOUS
<1>4. \A j \in C : j - (k + l) = (j - l) - k
  OBVIOUS
<1> DEFINE n == k + l
<1>5. \A i \in A : i + n \in C /\ s[i + n] = q[i]
  BY <1>1, <1>2, <1>3
<1>6. \A j \in C : j - n \in A
  BY <1>1, <1>2, <1>4
<1>7. n \in Int
  OBVIOUS
<1> HIDE DEF n
<1> QED BY <1>5, <1>6, <1>7 DEF Shifted

\* Neither a movement nor the button: keys and the wheel.
Other(e) == e \in WindowEvents /\ e.type # "motion" /\ ~(e.type = "button" /\ ~e.wheel)

\* The queue changes by other events only.
SameButOthers(q, r) ==
  /\ r \in Seq(WindowEvents)
  /\ Shifted(q, MotionsOf(q), r, MotionsOf(r)) /\ Shifted(q, LeftsOf(q), r, LeftsOf(r))

LEMMA OthersQueued ==
  ASSUME NEW q \in Seq(WindowEvents)
  PROVE  /\ SameButOthers(q, q)
         /\ \A e : Other(e) => SameButOthers(q, Append(q, e))
         /\ \A e, f : Other(e) /\ Other(f) => SameButOthers(q, Append(Append(q, e), f))
         /\ q # <<>> /\ Other(Head(q)) => SameButOthers(q, Tail(q))
<1>1. \A r \in Seq(WindowEvents) : \A e : Other(e) => SameButOthers(r, Append(r, e))
  <2> TAKE r \in Seq(WindowEvents)
  <2> SUFFICES ASSUME NEW e, Other(e) PROVE SameButOthers(r, Append(r, e))
    OBVIOUS
  <2>1. Append(r, e) \in Seq(WindowEvents)
    BY DEF Other
  <2> QED BY <2>1, OthersShift DEF Other, SameButOthers
<1>2. ASSUME NEW e, NEW f, Other(e), Other(f) PROVE SameButOthers(q, Append(Append(q, e), f))
  <2> DEFINE r == Append(q, e)
             s == Append(r, f)
  <2>1. r \in Seq(WindowEvents) /\ s \in Seq(WindowEvents)
    BY <1>2 DEF Other
  <2>2. SameButOthers(q, r) /\ SameButOthers(r, s)
    BY <1>1, <1>2, <2>1
  <2> HIDE DEF r, s
  <2>3. \A u \in Seq(WindowEvents) : MotionsOf(u) \in SUBSET Int /\ LeftsOf(u) \in SUBSET Int
    BY MotionFields
  <2>4. Shifted(q, MotionsOf(q), s, MotionsOf(s))
    BY <2>1, <2>2, <2>3, ShiftedOn DEF SameButOthers
  <2>5. Shifted(q, LeftsOf(q), s, LeftsOf(s))
    BY <2>1, <2>2, <2>3, ShiftedOn DEF SameButOthers
  <2> QED BY <2>1, <2>4, <2>5 DEF SameButOthers, r, s
<1>3. q # <<>> /\ Other(Head(q)) => SameButOthers(q, Tail(q))
  <2>1. q # <<>> => Tail(q) \in Seq(WindowEvents)
    OBVIOUS
  <2> QED BY <2>1, OthersShift DEF Other, SameButOthers
<1> QED BY <1>1, <1>2, <1>3, OthersShift DEF SameButOthers

LEMMA OthersKeep ==
  ASSUME WindowInv, WindowPointerInv, SameButOthers(pending, pending'),
         UNCHANGED <<position, warps, requested, last_x, behind, pressed>>,
         "warp" \in mixed' <=> "warp" \in mixed, "edge" \in mixed => "edge" \in mixed',
         "wheel" \in mixed => "wheel" \in mixed',
         "wheel" \notin mixed' => hostPressed' = hostPressed
  PROVE  WindowPointerInv'
<1>1. pending \in Seq(WindowEvents) /\ pending' \in Seq(WindowEvents)
  BY DEF WindowInv, SameButOthers
<1>2. /\ MotionsOf(pending) \in SUBSET Int /\ LeftsOf(pending) \in SUBSET Int
      /\ MotionsOf(pending') \in SUBSET Int /\ LeftsOf(pending') \in SUBSET Int
  BY <1>1, MotionFields
<1>3. ASSUME "edge" \notin mixed' PROVE MovesInv'
  BY <1>2, <1>3, OthersKeepMoves DEF WindowPointerInv, SameButOthers
<1>4. ButtonInv'
  BY <1>2, OthersKeepButton DEF WindowPointerInv, SameButOthers
<1> QED BY <1>3, <1>4 DEF WindowPointerInv

LEMMA WindowPointerInit == W!Init => WindowPointerInv
<1> SUFFICES ASSUME W!Init PROVE WindowPointerInv
  OBVIOUS
<1>1. pending = <<>> /\ DOMAIN pending = {}
  BY EmptyQueue DEF W!Init
<1>2. MotionsOf(pending) = {} /\ LeftsOf(pending) = {}
  BY <1>1 DEF MotionsOf, LeftsOf
<1>3. last_x = -1 /\ behind = 0 /\ requested = 0 /\ mixed = {} /\ hostPressed = FALSE /\ pressed = FALSE
  BY DEF W!Init
<1>4. Chained
  BY <1>2 DEF Chained
<1>5. MovesOwed
  BY <1>2, <1>3 DEF MovesOwed, Nowhere
<1>6. ButtonInv
  BY <1>2, <1>3 DEF ButtonInv, ButtonOwed
<1> QED BY <1>4, <1>5, <1>6 DEF WindowPointerInv, MovesInv

LEMMA WindowPointerImplies == WindowInv /\ WindowPointerInv => W!PointerFollows
<1> SUFFICES ASSUME WindowInv, WindowPointerInv, W!Told
             PROVE  /\ "wheel" \notin mixed => hostPressed = pressed
                    /\ mixed \cap {"warp", "edge"} = {} => behind = 0
  BY DEF W!PointerFollows
<1>1. pending = <<>> /\ DOMAIN pending = {}
  BY EmptyQueue DEF W!Told
<1>2. MotionsOf(pending) = {} /\ LeftsOf(pending) = {}
  BY <1>1 DEF MotionsOf, LeftsOf
<1>3. "warp" \notin mixed => Clean
  BY <1>2 DEF Clean
<1> QED BY <1>2, <1>3 DEF WindowPointerInv, MovesInv, MovesOwed, ButtonInv, ButtonOwed

LEMMA PointerEndKeeps == W!End => WindowPointerInv'
<1> SUFFICES ASSUME W!End PROVE WindowPointerInv'
  OBVIOUS
<1>1. pending' = <<>> /\ DOMAIN pending' = {}
  BY EmptyQueue DEF W!End
<1>2. MotionsOf(pending') = {} /\ LeftsOf(pending') = {}
  BY <1>1 DEF MotionsOf, LeftsOf
<1>3. last_x' = -1 /\ behind' = 0 /\ requested' = 0 /\ mixed' = mixed \cap {"focus"} /\ hostPressed' = FALSE /\ pressed' = FALSE
  BY DEF W!End
<1>4. Chained'
  BY <1>2 DEF Chained
<1>5. MovesOwed'
  BY <1>2, <1>3 DEF MovesOwed, Nowhere
<1>6. ButtonInv'
  BY <1>2, <1>3 DEF ButtonInv, ButtonOwed
<1> QED BY <1>4, <1>5, <1>6 DEF WindowPointerInv, MovesInv

\* What the user does.
LEMMA ClickKeeps == WindowInv /\ WindowPointerInv /\ W!Click => WindowPointerInv'
<1> SUFFICES ASSUME WindowInv, WindowPointerInv, W!Click PROVE WindowPointerInv'
  OBVIOUS
<1> DEFINE e == W!ButtonEvent(FALSE, ~pressed)
           q == pending
<1>a. q \in Seq(WindowEvents)
  BY DEF WindowInv
<1>b. e \in WindowEvents /\ e.type = "button" /\ ~e.wheel /\ e.down = ~pressed
  BY DEF W!ButtonEvent, WindowEvents
<1>c. /\ pending' = q \o <<e>> /\ pressed' = ~pressed
      /\ UNCHANGED <<position, warps, requested, last_x, behind, mixed>>
  BY DEF W!Click, W!Does, W!programVars, W!hostVars
<1> HIDE DEF e
<1>d. pending' = Append(q, e)
  BY <1>a, <1>b, <1>c, EventsQueued
<1>1. ASSUME "edge" \notin mixed PROVE MovesInv'
  <2>1. Shifted(pending, MotionsOf(pending), pending', MotionsOf(pending')) /\ pending' \in Seq(WindowEvents)
    BY <1>a, <1>b, <1>d, OthersShift, AppendEvents
  <2>2. MotionsOf(pending) \in SUBSET Int /\ MotionsOf(pending') \in SUBSET Int
    BY <1>a, <2>1, MotionFields
  <2> QED BY <1>1, <1>c, <2>1, <2>2, OthersKeepMoves DEF WindowPointerInv
<1>2. ButtonInv'
  <2> DEFINE m == Len(q) + 1
  <2>1. /\ LeftsOf(Append(q, e)) = LeftsOf(q) \cup {m} /\ Append(q, e)[m] = e
        /\ \A i \in LeftsOf(q) : i < m
        /\ LeftsOf(q) \subseteq Int /\ m \in Int
    BY <1>a, <1>b, AppendEvents
  <2>2. LeftsOf(pending') = LeftsOf(q) \cup {m} /\ pending'[m] = e
    BY <1>d, <2>1
  <2> HIDE DEF m, q
  <2>3. ASSUME NEW i \in LeftsOf(q) PROVE ~IsLast(i, LeftsOf(pending'))
    <3>1. i < m /\ i \in Int /\ m \in Int
      BY <2>1
    <3>2. m \in LeftsOf(pending') /\ ~(m <= i)
      BY <2>2, <3>1
    <3> QED BY <3>2 DEF IsLast
  <2>4. \A i \in LeftsOf(pending') : IsLast(i, LeftsOf(pending')) => pending'[i] = e
    BY <2>2, <2>3
  <2>5. LeftsOf(pending') # {}
    BY <2>2
  <2> QED BY <1>b, <1>c, <2>4, <2>5 DEF ButtonInv, ButtonOwed
<1> QED BY <1>1, <1>2, <1>c DEF WindowPointerInv

\* The pointer is moved or put back.
LEMMA MotionKeeps ==
  ASSUME WindowInv, WindowPointerInv, NEW d \in Int \ {0}, NEW n \in Nat,
         position' = position + d, warps' = n, warps <= n, n <= requested,
         pending' = Append(pending, W!Motion(position', n)),
         \/ warps = n
         \/ n = requested /\ position + d = Centre,
         warps = n /\ "edge" \notin mixed =>
           behind' = IF last_x = Nowhere /\ MotionsOf(pending) = {} THEN behind ELSE behind + d,
         warps # n => behind' = behind,
         UNCHANGED <<requested, last_x, mixed, pressed, hostPressed>>
  PROVE  WindowPointerInv'
<1> DEFINE q == pending
           e == W!Motion(position', n)
           m == Len(q) + 1
<1>1. /\ q \in Seq(WindowEvents) /\ position \in Int /\ requested \in Nat
      /\ warps \in 0 .. requested /\ position' \in Int
  BY DEF WindowInv, W!TypeOK
<1>2. e \in WindowEvents /\ e.type = "motion" /\ e.x = position' /\ e.before = n
  BY <1>1 DEF W!Motion, WindowEvents
<1>3. pending' = Append(q, e)
  OBVIOUS
<1> HIDE DEF e
<1>4. /\ MotionsOf(Append(q, e)) = MotionsOf(q) \cup {m} /\ Append(q, e)[m] = e
      /\ Append(q, e) \in Seq(WindowEvents)
      /\ \A i \in MotionsOf(q) : Append(q, e)[i] = q[i] /\ i < m
      /\ m \in Int
      /\ MotionsOf(q) \in SUBSET Int
      /\ \A i \in MotionsOf(q) : q[i].x \in Int /\ q[i].before \in Nat
  <2>1. q \in Seq(WindowEvents)
    BY <1>1
  <2> HIDE DEF q
  <2>2. /\ MotionsOf(Append(q, e)) = MotionsOf(q) \cup {m} /\ Append(q, e)[m] = e
        /\ Append(q, e) \in Seq(WindowEvents)
        /\ \A i \in MotionsOf(q) : Append(q, e)[i] = q[i] /\ i < m
        /\ m \in Int
    <3>1. e \in WindowEvents /\ e.type = "motion"
      BY <1>2
    <3> HIDE DEF m
    <3>2. /\ MotionsOf(Append(q, e)) = MotionsOf(q) \cup {Len(q) + 1} /\ Append(q, e)[Len(q) + 1] = e
          /\ Append(q, e) \in Seq(WindowEvents)
          /\ \A i \in MotionsOf(q) : Append(q, e)[i] = q[i] /\ i < Len(q) + 1
          /\ Len(q) \in Int
      BY ONLY <2>1, <3>1, AppendEvents
    <3>3. Len(q) + 1 \in Int
      BY ONLY <3>2
    <3> QED BY ONLY <3>2, <3>3, Zenon DEF m
  <2>3. /\ MotionsOf(q) \in SUBSET Int
        /\ \A i \in MotionsOf(q) : q[i].x \in Int /\ q[i].before \in Nat
    BY ONLY <2>1, MotionFields
  <2> QED BY <2>2, <2>3
<1>5. ASSUME "edge" \notin mixed PROVE MovesInv'
  <2>1. /\ MotionsOf(pending') = MotionsOf(q) \cup {m} /\ pending'[m] = e
        /\ \A i \in MotionsOf(q) : pending'[i] = q[i] /\ i < m
    BY <1>3, <1>4
  <2>2. MovesInv
    BY <1>5 DEF WindowPointerInv
  <2> DEFINE A == MotionsOf(pending)
             B == MotionsOf(pending')
  <2>3. /\ A \in SUBSET Int /\ A = MotionsOf(pending) /\ B = MotionsOf(pending') /\ B = A \cup {m}
        /\ m \in Int /\ pending'[m].x = position' /\ pending'[m].before = n
        /\ \A i \in A : pending'[i] = pending[i] /\ i < m
        /\ \A i \in A : pending[i].x \in Int /\ pending[i].before \in Nat
        /\ warps = n => behind' = IF last_x = Nowhere /\ A = {} THEN behind ELSE behind + d
    BY <1>2, <1>4, <1>5, <2>1
  <2>4. /\ position' = position + d /\ warps' = n /\ warps <= n /\ n <= requested
        /\ warps = n \/ (n = requested /\ position + d = Centre)
        /\ warps # n => behind' = behind
        /\ UNCHANGED <<requested, last_x, mixed>>
    OBVIOUS
  <2> HIDE DEF A, B, m
  <2> QED BY ONLY <1>1, <2>2, <2>3, <2>4, d \in Int \ {0}, n \in Nat, MotionQueued
<1>6. ButtonInv'
  <2>1. Shifted(pending, LeftsOf(pending), pending', LeftsOf(pending')) /\ pending' \in Seq(WindowEvents)
    BY <1>1, <1>2, <1>3, <1>4, OthersShift
  <2>2. LeftsOf(pending) \in SUBSET Int /\ LeftsOf(pending') \in SUBSET Int
    BY <1>1, <2>1, MotionFields
  <2> QED BY <2>1, <2>2, OthersKeepButton DEF WindowPointerInv
<1> QED BY <1>5, <1>6 DEF WindowPointerInv

LEMMA MoveKeeps == ASSUME WindowInv, WindowPointerInv, NEW d \in {-1, 1}, W!Move(d) PROVE WindowPointerInv'
<1>1. /\ pending \in Seq(WindowEvents) /\ position \in Int /\ requested \in Nat /\ warps \in 0 .. requested
      /\ warps \in Nat /\ d \in Int \ {0}
  BY DEF WindowInv, W!TypeOK
<1>2. /\ position' = position + d /\ pending' = pending \o <<W!Motion(position + d, warps)>>
      /\ behind' = IF ~W!Known /\ \A k \in DOMAIN pending : pending[k].type # "motion"
                   THEN behind ELSE behind + d
      /\ UNCHANGED <<requested, warps, last_x, mixed, pressed, hostPressed>>
  BY DEF W!Move, W!Does, W!programVars, W!hostVars
<1>3. W!Motion(position + d, warps) \in WindowEvents
  BY <1>1 DEF W!Motion, WindowEvents
<1>4. pending' = Append(pending, W!Motion(position', warps))
  BY <1>1, <1>2, <1>3, EventsQueued
<1>5. MotionsOf(pending) = {} <=> \A k \in DOMAIN pending : pending[k].type # "motion"
  BY DEF MotionsOf
<1>6. "edge" \notin mixed => behind' = IF last_x = Nowhere /\ MotionsOf(pending) = {} THEN behind ELSE behind + d
  <2> SUFFICES ASSUME "edge" \notin mixed
               PROVE  behind' = IF last_x = Nowhere /\ MotionsOf(pending) = {} THEN behind ELSE behind + d
    OBVIOUS
  <2>1. last_x \in Nat \cup {Nowhere}
    BY DEF WindowPointerInv, MovesInv, MovesOwed
  <2>2. W!Known <=> last_x # Nowhere
    BY <2>1 DEF W!Known, Nowhere
  <2> QED BY <1>2, <1>5, <2>2
<1> HIDE DEF W!Motion
<1> QED BY ONLY <1>1, <1>2, <1>4, <1>6, WindowInv, WindowPointerInv, MotionKeeps

LEMMA WarpKeeps == WindowInv /\ WindowPointerInv /\ W!Warp => WindowPointerInv'
<1> SUFFICES ASSUME WindowInv, WindowPointerInv, W!Warp PROVE WindowPointerInv'
  OBVIOUS
<1>1. /\ pending \in Seq(WindowEvents) /\ position \in Int /\ requested \in Nat /\ warps \in 0 .. requested
      /\ warps \in Nat /\ Centre \in Nat
  BY PointersAssumption DEF WindowInv, W!TypeOK
<1>2. /\ warps < requested /\ warps' = requested /\ position' = Centre
      /\ pending' = IF position = Centre THEN pending ELSE Append(pending, W!Motion(Centre, requested))
      /\ UNCHANGED <<requested, last_x, mixed, pressed, hostPressed, behind>>
  BY DEF W!Warp, W!programVars, W!hostVars
<1>3. CASE position # Centre
  <2> DEFINE d == Centre - position
             n == requested
  <2>1. d \in Int \ {0} /\ position + d = Centre /\ n \in Nat /\ position' = position + d
    BY <1>1, <1>2, <1>3
  <2>2. /\ warps' = n /\ warps <= n /\ n <= requested /\ n = requested /\ warps # n
        /\ pending' = Append(pending, W!Motion(position', n)) /\ behind' = behind
        /\ UNCHANGED <<requested, last_x, mixed, pressed, hostPressed>>
    BY <1>1, <1>2, <1>3
  <2> HIDE DEF d, n, W!Motion
  <2> QED BY ONLY <2>1, <2>2, WindowInv, WindowPointerInv, MotionKeeps
<1>4. CASE position = Centre
  <2>1. /\ UNCHANGED <<pending, requested, last_x, mixed, pressed, hostPressed, behind, position>>
        /\ warps' = requested
    BY <1>2, <1>4
  <2>2. ASSUME MovesInv PROVE Chained'
    <3>1. \A i \in MotionsOf(pending) : pending[i].before \in 0 .. requested
      BY <1>1, <2>2 DEF MovesInv, Chained
    <3> QED BY <2>1, <2>2, <3>1 DEF MovesInv, Chained
  <2>3. ASSUME MovesInv PROVE Clean' => Clean /\ MotionsOf(pending) = {}
    <3> SUFFICES ASSUME Clean' PROVE MotionsOf(pending) = {} /\ Clean
      OBVIOUS
    <3>1. Clean
      BY <2>1 DEF Clean
    <3>2. \A i \in MotionsOf(pending) : pending[i].before = requested /\ pending[i].before \in 0 .. warps
      BY <2>3, <3>1 DEF Clean, MovesInv, Chained
    <3> QED BY <1>1, <1>2, <3>1, <3>2
  <2>4. ASSUME MovesInv PROVE MovesOwed'
    BY <1>1, <1>2, <1>4, <2>1, <2>3, <2>4 DEF MovesInv, MovesOwed
  <2>5. ButtonInv'
    BY <2>1 DEF WindowPointerInv, ButtonInv, ButtonOwed
  <2> QED BY <2>1, <2>2, <2>4, <2>5 DEF WindowPointerInv, MovesInv
<1> QED BY <1>3, <1>4

LEMMA UserPointerKeeps == WindowInv /\ WindowPointerInv /\ (W!User \/ W!Warp) => WindowPointerInv'
<1> SUFFICES ASSUME WindowInv, WindowPointerInv, W!User \/ W!Warp PROVE WindowPointerInv'
  OBVIOUS
<1>a. pending \in Seq(WindowEvents)
  BY DEF WindowInv
<1>b. ASSUME NEW events, W!Does(events), UNCHANGED <<position, warps, behind, pressed>>,
             mixed' = mixed \/ mixed' = mixed \cup {"focus"},
             \/ events = <<>>
             \/ \E e : Other(e) /\ events = <<e>>
             \/ \E e, f : Other(e) /\ Other(f) /\ events = <<e, f>>
      PROVE  WindowPointerInv'
  <2>1. pending' = pending \o events /\ UNCHANGED <<requested, last_x, hostPressed>>
    BY <1>b DEF W!Does, W!programVars, W!hostVars
  <2>2. SameButOthers(pending, pending')
    <3>1. CASE events = <<>>
      <4>1. pending' = pending
        BY <1>a, <2>1, <3>1
      <4> QED BY <1>a, <4>1, OthersQueued
    <3>2. ASSUME NEW e, Other(e), events = <<e>> PROVE SameButOthers(pending, pending')
      <4>1. pending' = Append(pending, e)
        BY <1>a, <2>1, <3>2, EventsQueued DEF Other
      <4> QED BY <1>a, <3>2, <4>1, OthersQueued
    <3>3. ASSUME NEW e, NEW f, Other(e), Other(f), events = <<e, f>>
          PROVE  SameButOthers(pending, pending')
      <4>1. pending' = Append(Append(pending, e), f)
        BY <1>a, <2>1, <3>3, EventsQueued DEF Other
      <4> QED BY <1>a, <3>3, <4>1, OthersQueued
    <3> QED BY <1>b, <3>1, <3>2, <3>3
  <2>3. ("warp" \in mixed' <=> "warp" \in mixed) /\ ("edge" \in mixed => "edge" \in mixed') /\ ("wheel" \in mixed => "wheel" \in mixed')
    BY <1>b
  <2> QED BY <1>b, <2>1, <2>2, <2>3, OthersKeep
<1>k. \A k \in W!Keys, down \in BOOLEAN : Other(W!KeyEvent(k, down))
  BY DEF Other, WindowEvents, W!KeyEvent
<1>w. \A down \in BOOLEAN : Other(W!ButtonEvent(TRUE, down))
  BY DEF Other, WindowEvents, W!ButtonEvent
<1>1. ASSUME NEW k \in W!Keys, W!Press(k) \/ W!Release(k) PROVE WindowPointerInv'
  <2>1. PICK down \in BOOLEAN : W!Does(<<W!KeyEvent(k, down)>>)
    BY <1>1 DEF W!Press, W!Release
  <2>2. UNCHANGED <<position, warps, behind, pressed, mixed>>
    BY <1>1 DEF W!Press, W!Release
  <2> QED BY <1>b, <1>k, <2>1, <2>2
<1>2. ASSUME NEW k \in W!Keys, W!Repeat(k) PROVE WindowPointerInv'
  <2>1. W!Does(<<W!KeyEvent(k, FALSE), W!KeyEvent(k, TRUE)>>)
        /\ UNCHANGED <<position, warps, behind, pressed, mixed>>
    BY <1>2 DEF W!Repeat
  <2> QED BY <1>b, <1>k, <2>1
<1>3. ASSUME NEW k \in W!Keys, W!ReleaseElsewhere(k) PROVE WindowPointerInv'
  <2>1. W!Does(<<>>) /\ UNCHANGED <<position, warps, behind, pressed>> /\ mixed' = mixed \cup {"focus"}
    BY <1>3 DEF W!ReleaseElsewhere
  <2> QED BY <1>b, <2>1
<1>4. CASE W!Click
  BY <1>4, ClickKeeps
<1>5. CASE W!Scroll
  <2>1. W!Does(<<W!ButtonEvent(TRUE, TRUE), W!ButtonEvent(TRUE, FALSE)>>)
        /\ UNCHANGED <<position, warps, behind, pressed, mixed>>
    BY <1>5 DEF W!Scroll
  <2> QED BY <1>b, <1>w, <2>1
<1>6. ASSUME NEW d \in {-1, 1}, W!Move(d) PROVE WindowPointerInv'
  BY <1>6, MoveKeeps
<1>7. CASE W!Warp
  BY <1>7, WarpKeeps
<1> QED BY <1>1, <1>2, <1>3, <1>4, <1>5, <1>6, <1>7 DEF W!User

\* x11_handler.
LEMMA HandleMotionKeeps == WindowInv /\ WindowPointerInv /\ W!HandleMotion => WindowPointerInv'
<1> SUFFICES ASSUME WindowInv, WindowPointerInv, W!HandleMotion PROVE WindowPointerInv'
  OBVIOUS
<1> DEFINE q == pending
           x == Head(pending).x
<1>1. /\ q \in Seq(WindowEvents) /\ position \in Int /\ requested \in Nat /\ warps \in 0 .. requested
  BY DEF WindowInv, W!TypeOK
<1>2. /\ q # <<>> /\ Head(q).type = "motion" /\ pending' = Tail(q)
      /\ UNCHANGED <<position, warps, pressed, hostPressed>>
      /\ behind' = IF W!Known THEN behind - (x - last_x) ELSE behind
      /\ requested' = IF x # last_x /\ grabbed THEN requested + 1 ELSE requested
      /\ last_x' = IF grabbed THEN Centre ELSE x
      /\ mixed \subseteq mixed'
      /\ "warp" \in mixed' <=> "warp" \in mixed \/ Head(q).before < requested
      /\ "edge" \notin mixed' => x >= 0 \/ (grabbed /\ W!Known)
  <2>1. mixed' = mixed \cup W!Mixes(Head(q))
    BY DEF W!HandleMotion
  <2>2. /\ "warp" \in W!Mixes(Head(q)) <=> Head(q).before < requested
        /\ x < 0 /\ ~(grabbed /\ W!Known) => "edge" \in W!Mixes(Head(q))
    BY DEF W!Mixes
  <2>3. q # <<>> /\ Head(q).type = "motion"
    BY DEF W!HandleMotion, W!Takes
  <2>4. Head(q) \in WindowEvents
    BY <1>1, <2>3
  <2>5. x \in Int
    BY <2>3, <2>4 DEF WindowEvents
  <2>6. x < 0 \/ x >= 0
    BY <2>5
  <2> HIDE DEF x, W!Mixes
  <2>7. /\ pending' = Tail(q)
        /\ UNCHANGED <<position, warps, pressed, hostPressed>>
        /\ behind' = IF W!Known THEN behind - (x - last_x) ELSE behind
        /\ requested' = IF x # last_x /\ grabbed THEN requested + 1 ELSE requested
        /\ last_x' = IF grabbed THEN Centre ELSE x
    BY DEF W!HandleMotion, W!Takes, W!userVars, W!hostVars, W!LastX, x
  <2> QED BY <2>1, <2>2, <2>3, <2>6, <2>7
<1>3. /\ Tail(q) \in Seq(WindowEvents) /\ Head(q) = q[1] /\ 1 \in MotionsOf(q)
      /\ MotionsOf(Tail(q)) = {i - 1 : i \in MotionsOf(q) \ {1}}
      /\ \A i \in MotionsOf(q) : i = 1 \/ (Tail(q)[i - 1] = q[i] /\ 1 < i)
  <2>1. q \in Seq(WindowEvents) /\ q # <<>> /\ Head(q).type = "motion"
    BY <1>1, <1>2
  <2> HIDE DEF q
  <2> QED BY ONLY <2>1, TailEvents
<1>4. /\ MotionsOf(q) \in SUBSET Int
      /\ \A i \in MotionsOf(q) : q[i].x \in Int /\ q[i].before \in Nat
  BY <1>1, MotionFields
<1>5. ASSUME "edge" \notin mixed' PROVE MovesInv'
  <2>1. /\ MotionsOf(pending) \in SUBSET Int
        /\ 1 \in MotionsOf(pending)
        /\ MotionsOf(pending') = {i - 1 : i \in MotionsOf(pending) \ {1}}
        /\ \A i \in MotionsOf(pending) : i = 1 \/ (pending'[i - 1] = pending[i] /\ 1 < i)
        /\ \A i \in MotionsOf(pending) : pending[i].x \in Int /\ pending[i].before \in Nat
    BY <1>2, <1>3, <1>4
  <2>2. /\ last_x = Nowhere => behind' = behind
        /\ last_x # Nowhere => behind' = behind - (pending[1].x - last_x)
        /\ last_x = Nowhere => pending[1].x # Nowhere
        /\ grabbed /\ last_x = pending[1].x => requested' = requested
        /\ grabbed /\ last_x # pending[1].x => requested' = requested + 1
        /\ ~grabbed => last_x' = pending[1].x /\ requested' = requested
        /\ UNCHANGED <<position, warps>>
        /\ last_x' \in Nat
        /\ grabbed => last_x' = Centre
    <3>0. x = pending[1].x
      BY <1>3
    <3>1. last_x \in Nat \cup {Nowhere} /\ Centre \in Nat /\ x \in Int
      BY <1>2, <1>5, <2>1, <3>0, PointersAssumption DEF WindowPointerInv, MovesInv, MovesOwed
    <3>2. W!Known <=> last_x # Nowhere
      BY <3>1 DEF W!Known, Nowhere
    <3>3. x >= 0 \/ (grabbed /\ W!Known)
      BY <1>2, <1>5
    <3> HIDE DEF x
    <3>4. (last_x = Nowhere => x # Nowhere) /\ last_x' \in Nat
      BY <1>2, <3>1, <3>2, <3>3 DEF Nowhere
    <3> QED BY <1>2, <3>0, <3>2, <3>4
  <2>3. "warp" \in mixed' <=> "warp" \in mixed \/ pending[1].before < requested
    BY <1>2, <1>3
  <2>4. MovesInv
    BY <1>2, <1>5 DEF WindowPointerInv
  <2>5. position \in Int /\ requested \in Nat /\ warps \in 0 .. requested
    BY <1>1
  <2> HIDE DEF x, q
  <2> QED BY ONLY <2>1, <2>2, <2>3, <2>4, <2>5, MotionTaken
<1>6. ButtonInv'
  <2>1. Shifted(pending, LeftsOf(pending), pending', LeftsOf(pending')) /\ pending' \in Seq(WindowEvents)
    BY <1>1, <1>2, <1>3, OthersShift
  <2>2. LeftsOf(pending) \in SUBSET Int /\ LeftsOf(pending') \in SUBSET Int
    BY <1>1, <2>1, MotionFields
  <2>3. "wheel" \in mixed => "wheel" \in mixed'
    BY <1>2
  <2> QED BY <1>2, <2>1, <2>2, <2>3, OthersKeepButton DEF WindowPointerInv
<1> QED BY <1>5, <1>6 DEF WindowPointerInv

LEMMA HandleButtonKeeps == WindowInv /\ WindowPointerInv /\ W!HandleButton => WindowPointerInv'
<1> SUFFICES ASSUME WindowInv, WindowPointerInv, W!HandleButton PROVE WindowPointerInv'
  OBVIOUS
<1> DEFINE q == pending
           e == Head(pending)
<1>1. /\ q \in Seq(WindowEvents) /\ q # <<>> /\ e.type = "button" /\ pending' = Tail(q)
      /\ UNCHANGED <<position, warps, requested, last_x, behind, pressed>>
      /\ button' = (button \/ ~e.wheel)
      /\ hostPressed' = IF button' THEN e.down ELSE hostPressed
      /\ mixed' = IF e.wheel /\ button THEN mixed \cup {"wheel"} ELSE mixed
  BY DEF WindowInv, W!HandleButton, W!Takes, W!userVars
<1>2. e \in WindowEvents
  BY <1>1
<1> HIDE DEF e
<1>3. CASE e.wheel
  <2>1. Other(e)
    BY <1>1, <1>2, <1>3 DEF Other
  <2>2. SameButOthers(pending, pending')
    BY <1>1, <2>1, OthersQueued DEF e
  <2>3. /\ "warp" \in mixed' <=> "warp" \in mixed
        /\ "edge" \in mixed => "edge" \in mixed'
        /\ "wheel" \in mixed => "wheel" \in mixed'
        /\ "wheel" \notin mixed' => ~button
    BY <1>1, <1>3
  <2>4. "wheel" \notin mixed' => hostPressed' = hostPressed
    BY <1>1, <1>3, <2>3
  <2> QED BY <1>1, <2>2, <2>3, <2>4, OthersKeep
<1>4. CASE ~e.wheel
  <2>1. hostPressed' = e.down /\ mixed' = mixed
    BY <1>1, <1>4
  <2>2. ASSUME "edge" \notin mixed PROVE MovesInv'
    <3>1. Shifted(pending, MotionsOf(pending), pending', MotionsOf(pending')) /\ pending' \in Seq(WindowEvents)
      BY <1>1, OthersShift DEF e
    <3>2. MotionsOf(pending) \in SUBSET Int /\ MotionsOf(pending') \in SUBSET Int
      BY <1>1, <3>1, MotionFields
    <3> QED BY <1>1, <2>1, <2>2, <3>1, <3>2, OthersKeepMoves DEF WindowPointerInv
  <2>3. ButtonInv'
    <3> DEFINE A == LeftsOf(q)
               B == LeftsOf(pending')
    <3>1. /\ 1 \in A /\ A \subseteq Int /\ q[1] = e
          /\ B = {i - 1 : i \in A \ {1}}
          /\ \A i \in A : i = 1 \/ (pending'[i - 1] = q[i] /\ 1 < i)
      <4>1. q \in Seq(WindowEvents) /\ q # <<>> /\ Head(q).type = "button" /\ ~Head(q).wheel
        BY <1>1, <1>4 DEF e
      <4> HIDE DEF q
      <4>2. /\ 1 \in LeftsOf(q) /\ LeftsOf(q) \subseteq Int /\ q[1] = Head(q)
            /\ LeftsOf(Tail(q)) = {i - 1 : i \in LeftsOf(q) \ {1}}
            /\ \A i \in LeftsOf(q) : i = 1 \/ (Tail(q)[i - 1] = q[i] /\ 1 < i)
        BY ONLY <4>1, TailEvents
      <4> QED BY <1>1, <4>2 DEF e, q
    <3>2. "wheel" \notin mixed => \A i \in A : IsLast(i, A) => q[i].down = pressed
      BY DEF WindowPointerInv, ButtonInv, ButtonOwed
    <3> HIDE DEF A, B, q
    <3>3. ASSUME B = {} PROVE IsLast(1, A)
      BY <3>1, <3>3 DEF IsLast
    <3>4. ASSUME NEW j \in B, IsLast(j, B)
          PROVE  \E i \in A : IsLast(i, A) /\ pending'[j] = q[i]
      <4>1. PICK i \in A \ {1} : j = i - 1
        BY <3>1
      <4>2. pending'[j] = q[i] /\ 1 < i /\ i \in Int
        BY <3>1, <4>1
      <4>3. ASSUME NEW k \in A PROVE k <= i
        <5>1. CASE k = 1
          BY <4>2, <5>1
        <5>2. CASE k # 1
          <6>1. k - 1 \in B /\ k \in Int
            BY <3>1, <5>2
          <6>2. k - 1 <= i - 1
            BY <3>4, <4>1, <6>1 DEF IsLast
          <6> QED BY <4>2, <6>1, <6>2
        <5> QED BY <5>1, <5>2
      <4> QED BY <4>2, <4>3 DEF IsLast
    <3>5. ASSUME "wheel" \notin mixed, B = {} PROVE hostPressed' = pressed'
      BY <1>1, <2>1, <3>1, <3>2, <3>3, <3>5
    <3>6. ASSUME "wheel" \notin mixed, NEW j \in B, IsLast(j, B) PROVE pending'[j].down = pressed'
      <4>1. PICK i \in A : IsLast(i, A) /\ pending'[j] = q[i]
        BY <3>4, <3>6
      <4> QED BY <1>1, <3>2, <3>6, <4>1
    <3> QED BY <2>1, <3>5, <3>6 DEF ButtonInv, ButtonOwed, B
  <2> QED BY <2>1, <2>2, <2>3 DEF WindowPointerInv
<1> QED BY <1>3, <1>4

LEMMA WindowPointerStep == WindowInv /\ WindowPointerInv /\ [W!Next]_windowVars => WindowPointerInv'
<1> SUFFICES ASSUME WindowInv, WindowPointerInv, [W!Next]_windowVars PROVE WindowPointerInv'
  OBVIOUS
<1>a. pending \in Seq(WindowEvents)
  BY DEF WindowInv
<1>b. SameButOthers(pending, pending)
  BY <1>a, OthersQueued
<1>1. CASE UNCHANGED windowVars
  BY <1>1, <1>b, OthersKeep DEF windowVars
<1>2. CASE W!Ended
  BY <1>2, <1>b, OthersKeep DEF W!Ended, W!vars
<1>3. CASE W!User \/ W!Warp
  BY <1>3, UserPointerKeeps
<1>4. CASE W!QuitCombo \/ W!Close
  BY <1>4, PointerEndKeeps DEF W!QuitCombo, W!Close
<1>5. CASE W!HandleKey
  <2>1. /\ pending # <<>> /\ pending' = Tail(pending) /\ Head(pending).type = "key"
        /\ UNCHANGED <<position, warps, requested, last_x, behind, pressed, mixed, hostPressed>>
    BY <1>5 DEF W!HandleKey, W!Takes, W!userVars
  <2>2. Head(pending) \in WindowEvents
    BY <1>a, <2>1
  <2>3. Other(Head(pending))
    BY <2>1, <2>2 DEF Other
  <2>4. SameButOthers(pending, pending')
    BY <1>a, <2>1, <2>3, OthersQueued
  <2> QED BY <2>1, <2>4, OthersKeep
<1>6. CASE W!HandleButton
  BY <1>6, HandleButtonKeeps
<1>7. CASE W!HandleMotion
  BY <1>7, HandleMotionKeeps
<1>8. CASE W!Return
  BY <1>8, <1>b, OthersKeep DEF W!Return, W!userVars, W!hostVars
<1> QED BY <1>1, <1>2, <1>3, <1>4, <1>5, <1>6, <1>7, <1>8 DEF W!Next, W!x11_handler

-----------------------------------------------------------------------------
(* The controls of a gamepad, and what a mapping says of them.             *)

OnKey(c) == c \in M!Controls /\ pad.wire[c].kind = "key"
OnHat(c) == c \in M!Controls /\ pad.wire[c].kind = "hat"
OnAxis(c) == c \in M!Controls /\ pad.wire[c].kind = "axis"
Code(c) == pad.wire[c].code
Sign(c) == pad.wire[c].sign

Names == M!Keyed \cup M!Axial
HatCodes == ABS_HAT0X .. ABS_HAT0X + 5

Mappings ==
  [btn: [M!Keyed -> Int], abs: [M!Axial -> Int], hat: [M!Dpad -> Int],
   dir: [M!Dpad -> SUBSET M!AllBits], reverse: [M!Sticks -> BOOLEAN], half: [M!Axial -> {"", "+", "-"}]]

\* A hat, or a trigger that is an axis, may be let go while this is asked for.
AfterHat(c) == \E h \in M!Controls : OnHat(h) /\ M!AskedBefore(h, c)
AfterPedal(c, n) ==
  \E t \in M!Triggers : /\ OnAxis(t) /\ M!AskedBefore(t, c)
                        /\ n = M!AxisIndex(Code(t)) /\ M!AxisIndex(Code(t)) = Code(t)

\* All that a name of the mapping of a dialogue can hold.
Fits(m, c) ==
  /\ c \in M!Keyed => \/ m.btn[c] = -1
                      \/ OnKey(c) /\ m.btn[c] = M!KeyIndex(Code(c))
                      \/ c \in M!NeverAsked /\ m.btn[c] = 0
  /\ c \in M!Dpad => m.abs[c] = -1 /\ (m.hat[c] # -1 => OnHat(c) \/ AfterHat(c))
  /\ c \in M!Sticks \cup M!Triggers => \/ m.abs[c] \in {-1, -2}
                                       \/ OnAxis(c) /\ m.abs[c] = M!AxisIndex(Code(c))
                                       \/ AfterPedal(c, m.abs[c])

\* What it holds once it was asked for.
Done(m, c) ==
  \/ c \in M!Dpad /\ AfterHat(c)
  \/ OnKey(c) /\ m.btn[c] = M!KeyIndex(Code(c))
  \/ OnHat(c) /\ m.hat[c] = M!HatNumber(Code(c)) /\ m.dir[c] = {M!Direction(Code(c), Sign(c))}
  \/ /\ OnAxis(c) /\ c \notin M!Dpad
     /\ m.abs[c] = M!AxisIndex(Code(c)) /\ M!AxisIndex(Code(c)) = Code(c)

\* A control that can still be held when its step is over.
Lingers(c) == OnHat(c) \/ (OnAxis(c) /\ c \notin M!Dpad)

\* What may be held in step n: what was asked for before, when its step is over.
Held(n, ph, m, at) ==
  /\ \A c, d \in M!Controls : at[c] # "rest" /\ at[d] # "rest" => c = d
  /\ \A c \in M!Controls : at[c] # "rest" =>
       IF ph = "drain" THEN c = M!Asked(n) /\ Lingers(c)
       ELSE IF c = M!Asked(n) THEN ~OnHat(c)
       ELSE /\ M!AskedBefore(c, M!Asked(n)) /\ Lingers(c)
            /\ M!Asked(n) \in M!Axial => m.abs[M!Asked(n)] = -1

Over(k, n, ph) == k < n \/ (k = n /\ ph = "drain")

Dialogue(n, ph, m, at, ht) ==
  /\ m \in Mappings
  /\ \A c \in Names : Fits(m, c)
  /\ \A k \in DOMAIN Steps : Over(k, n, ph) => Done(m, M!Asked(k))
  /\ Held(n, ph, m, at)
  /\ (\A k \in DOMAIN Steps : Over(k, n, ph) => ~OnHat(M!Asked(k))) => ht = M!CentredHats

Lost(m) == IF source = "wizard" THEN M!WizardLoses
           ELSE {c \in M!Controls \cap M!Axial : m.half[c] # ""}

\* The mapping of a stream.
ButtonsLoaded(m) ==
  \A c \in M!Keyed : \/ m.btn[c] = -1
                     \/ OnKey(c) /\ m.btn[c] = M!KeyIndex(Code(c))
                     \/ source = "wizard" /\ c \in M!NeverAsked /\ m.btn[c] = 0

AxesLoaded(m) ==
  \A c \in M!Axial : \/ m.abs[c] = -1
                     \/ OnAxis(c) /\ m.abs[c] = M!AxisIndex(Code(c))
                     \/ c \in M!Triggers /\ c \in Lost(m) /\ OnKey(c)

ControlsLoaded(m) ==
  \A c \in M!Controls :
    /\ OnKey(c) /\ c \notin Lost(m) => m.btn[c] = M!KeyIndex(Code(c))
    /\ OnAxis(c) => IF c \in M!Dpad THEN c \in Lost(m) ELSE m.abs[c] = M!AxisIndex(Code(c))
    /\ c \in M!Sticks /\ c \notin Lost(m) => (m.reverse[c] <=> Sign(c) # M!Natural(c))

HatsLoaded(m) ==
  \A c \in M!Dpad : c \notin Lost(m) =>
    /\ m.hat[c] # -1 => OnHat(c)
    /\ OnHat(c) => m.hat[c] = M!HatNumber(Code(c)) /\ m.dir[c] = {M!Direction(Code(c), Sign(c))}

TriggersLoaded(m) ==
  \A c \in M!Triggers :
    /\ m.half[c] = ""
    /\ OnKey(c) /\ source = "wizard" /\ c \notin Lost(m) => M!KeyIndex(Code(c)) # 0

Loaded(m) ==
  /\ m \in Mappings
  /\ ButtonsLoaded(m) /\ AxesLoaded(m) /\ ControlsLoaded(m) /\ HatsLoaded(m) /\ TriggersLoaded(m)

DeviceStates == [flags: SUBSET (M!Keyed \ M!Triggers), trigger: [M!Triggers -> 0 .. M!UCHAR_MAX],
             stick: [M!Sticks -> M!SHRT_MIN .. M!SHRT_MAX]]

\* The host is told of c, which is in position p.
Heard(c, p, dv) ==
  IF c \in M!Sticks
  THEN /\ p = "rest" /\ pad.parms.flat > 0 => dv.stick[c] = 0
       /\ p = "full" => dv.stick[c] = M!SHRT_MAX
       /\ p = "back" => dv.stick[c] = M!SHRT_MIN
  ELSE IF c \in M!Triggers
  THEN /\ p = "rest" => dv.trigger[c] = 0
       /\ p = "full" => dv.trigger[c] = M!UCHAR_MAX
  ELSE /\ p = "rest" => c \notin dv.flags
       /\ p = "full" => c \in dv.flags

Played(m, at, ht, dv) ==
  /\ Loaded(m)
  /\ dv \in DeviceStates
  /\ \A c \in M!Controls : OnHat(c) => (ht[Code(c)] = Sign(c) <=> at[c] = "full")
  /\ \A c \in M!Controls : c \notin Lost(m) => Heard(c, at[c], dv)
  /\ Lost(m) = {} => dv.flags \subseteq M!Controls

Going(n, ph, m, at, ht, dv) ==
  /\ n \in DOMAIN Steps /\ ph \in {"ask", "drain", "stream", "killed"}
  /\ ht \in [HatCodes -> {-1, 0, 1}]
  /\ at \in [M!Controls -> {"rest", "half", "full", "back"}]
  /\ \A c \in M!Controls : at[c] \in M!Positions(c)
  /\ ph \in {"ask", "drain"} => source = "wizard" /\ Dialogue(n, ph, m, at, ht)
  /\ ph # "stream" => dv = M!Rest
  /\ ph = "stream" => Played(m, at, ht, dv)

MappingInv ==
  /\ pad \in Pads /\ source \in {"wizard", "file"}
  /\ Going(step, mapPhase, map, pos, hats, dev)

-----------------------------------------------------------------------------
(* The names, the steps of the dialogue and the gamepads.                  *)

LEMMA ButtonPlaces ==
  /\ DOMAIN M!ButtonOrder = 1 .. 23
  /\ M!Keyed = {M!ButtonOrder[i] : i \in 1 .. 23}
  /\ \A i \in 1 .. 23 : M!ButtonOrder[i] \in M!NeverAsked \cup M!Triggers => i > 15
  /\ \A i \in 1 .. 23 : i > 15 => M!ButtonOrder[i] \in M!NeverAsked \cup M!Triggers
<1>1. DOMAIN M!ButtonOrder = 1 .. 23
  BY DEF M!ButtonOrder
<1>2. M!Keyed = {M!ButtonOrder[i] : i \in 1 .. 23}
  BY <1>1 DEF M!Keyed, M!ToSet
<1>3. ASSUME NEW i \in 1 .. 23
      PROVE  /\ M!ButtonOrder[i] \in M!NeverAsked \cup M!Triggers => i > 15
             /\ i > 15 => M!ButtonOrder[i] \in M!NeverAsked \cup M!Triggers
  BY DEF M!ButtonOrder, M!NeverAsked, M!Triggers
<1> QED BY <1>1, <1>2, <1>3

LEMMA NamesDiffer ==
  /\ M!Triggers \subseteq M!Keyed /\ M!Dpad \subseteq M!Keyed /\ M!NeverAsked \subseteq M!Keyed
  /\ M!Sticks \cap M!Keyed = {} /\ M!Sticks \cap M!Triggers = {} /\ M!Sticks \cap M!Dpad = {}
  /\ M!Triggers \cap M!Dpad = {}
  /\ M!NeverAsked \cap (M!Dpad \cup M!Triggers \cup M!Sticks) = {}
  /\ M!Axial = M!Sticks \cup M!Triggers \cup M!Dpad
<1>1. M!Keyed = {M!ButtonOrder[i] : i \in 1 .. 23}
  BY ButtonPlaces
<1>2. M!Keyed = {"a", "x", "y", "b", "dpup", "dpdown", "dpright", "dpleft", "leftstick",
  "rightstick", "leftshoulder", "rightshoulder", "start", "back", "guide", "misc1", "paddle1",
  "paddle2", "paddle3", "paddle4", "touchpad", "lefttrigger", "righttrigger"}
  BY <1>1 DEF M!ButtonOrder
<1> QED BY <1>2 DEF M!Triggers, M!Dpad, M!NeverAsked, M!Sticks, M!Axial

LEMMA StepsFacts ==
  /\ Len(Steps) \in Nat \ {0} /\ DOMAIN Steps = 1 .. Len(Steps) /\ 1 \in DOMAIN Steps
  /\ \A n \in DOMAIN Steps :
       /\ M!Asked(n) \in Names \ M!NeverAsked
       /\ M!Kind(n) = "abs" <=> M!Asked(n) \in M!Sticks
       /\ M!Kind(n) = "hatkey" <=> M!Asked(n) \in M!Dpad
       /\ M!Kind(n) = "abskey" <=> M!Asked(n) \in M!Triggers
       /\ \A k \in DOMAIN Steps : M!Asked(k) = M!Asked(n) => k = n
<1>1. M!GoodSteps
  BY MappingAssumption
<1>2. Len(Steps) \in Nat \ {0} /\ DOMAIN Steps = 1 .. Len(Steps)
  BY <1>1 DEF M!GoodSteps
<1>3. ASSUME NEW n \in DOMAIN Steps
      PROVE  /\ M!Asked(n) \in Names \ M!NeverAsked
             /\ M!Kind(n) = "abs" <=> M!Asked(n) \in M!Sticks
             /\ M!Kind(n) = "hatkey" <=> M!Asked(n) \in M!Dpad
             /\ M!Kind(n) = "abskey" <=> M!Asked(n) \in M!Triggers
  BY <1>1, NamesDiffer DEF M!GoodSteps, Names
<1>4. \A n, k \in DOMAIN Steps : M!Asked(k) = M!Asked(n) => k = n
  BY <1>1 DEF M!GoodSteps
<1> QED BY <1>2, <1>3, <1>4

-----------------------------------------------------------------------------
(* The index of a button and of an axis says which it is.                  *)

LEMMA MappingCardinality ==
  /\ \A S : M!Cardinality(S) = Cardinality(S)
  /\ \A S : M!IsFiniteSet(S) <=> IsFiniteSet(S)
<1>1. \A S : M!IsFiniteSet(S) <=> IsFiniteSet(S)
  BY DEF M!IsFiniteSet, IsFiniteSet
<1>2. \A S : M!Cardinality(S) = Cardinality(S)
  BY DEF M!Cardinality, Cardinality, M!IsFiniteSet, IsFiniteSet
<1> QED BY <1>1, <1>2

LEMMA MoreBefore ==
  ASSUME NEW T, IsFiniteSet(T), NEW S \in SUBSET T, NEW x \in T, x \notin S
  PROVE  Cardinality(S) \in Nat /\ Cardinality(T) \in Nat /\ Cardinality(S) < Cardinality(T)
<1>1. IsFiniteSet(S) /\ Cardinality(S) <= Cardinality(T) /\ (Cardinality(S) = Cardinality(T) => S = T)
  BY FS_Subset
<1>2. Cardinality(S) \in Nat /\ Cardinality(T) \in Nat
  BY <1>1, FS_CardinalityType
<1> QED BY <1>1, <1>2

\* When code a is counted before b its index is lower.
LEMMA KeyIndexRises ==
  ASSUME NEW codes, IsFiniteSet(codes), codes \subseteq Int, NEW a \in codes, NEW b \in codes,
         M!KeyBefore(a, b)
  PROVE  M!KeyIndexOf(codes, a) < M!KeyIndexOf(codes, b)
<1> DEFINE A == {k \in codes : M!KeyBefore(k, a)}
           B == {k \in codes : M!KeyBefore(k, b)}
<1>0. BTN_JOYSTICK \in Int
  BY MappingAssumption
<1>1. A \subseteq B /\ a \in B /\ a \notin A
  <2>1. a \in Int /\ b \in Int
    OBVIOUS
  <2>2. ASSUME NEW k \in codes, M!KeyBefore(k, a) PROVE M!KeyBefore(k, b)
    <3>1. k \in Int
      OBVIOUS
    <3> QED BY <1>0, <2>1, <2>2, <3>1 DEF M!KeyBefore
  <2>3. ~M!KeyBefore(a, a)
    BY <1>0, <2>1 DEF M!KeyBefore
  <2> QED BY <2>2, <2>3
<1>2. IsFiniteSet(B)
  BY FS_Subset
<1>3. Cardinality(A) < Cardinality(B)
  BY <1>1, <1>2, MoreBefore
<1> QED BY <1>3, MappingCardinality DEF M!KeyIndexOf

LEMMA KeyIndexOne ==
  ASSUME NEW codes, IsFiniteSet(codes), codes \subseteq Int
  PROVE  /\ \A a \in codes : M!KeyIndexOf(codes, a) \in Nat
         /\ \A a, b \in codes : M!KeyIndexOf(codes, a) = M!KeyIndexOf(codes, b) => a = b
<1>1. ASSUME NEW a \in codes PROVE M!KeyIndexOf(codes, a) \in Nat
  <2>1. IsFiniteSet({k \in codes : M!KeyBefore(k, a)})
    BY FS_Subset
  <2>2. Cardinality({k \in codes : M!KeyBefore(k, a)}) \in Nat
    BY <2>1, FS_CardinalityType
  <2> QED BY <2>2, MappingCardinality DEF M!KeyIndexOf
<1>2. ASSUME NEW a \in codes, NEW b \in codes, M!KeyIndexOf(codes, a) = M!KeyIndexOf(codes, b)
      PROVE  a = b
  <2>1. BTN_JOYSTICK \in Int
    BY MappingAssumption
  <2>2. a = b \/ M!KeyBefore(a, b) \/ M!KeyBefore(b, a)
    BY <2>1 DEF M!KeyBefore
  <2>3. M!KeyIndexOf(codes, a) \in Nat /\ M!KeyIndexOf(codes, b) \in Nat
    BY <1>1
  <2>4. CASE M!KeyBefore(a, b)
    <3>1. M!KeyIndexOf(codes, a) < M!KeyIndexOf(codes, b)
      BY <2>4, KeyIndexRises
    <3> QED BY <1>2, <2>3, <3>1
  <2>5. CASE M!KeyBefore(b, a)
    <3>1. M!KeyIndexOf(codes, b) < M!KeyIndexOf(codes, a)
      BY <2>5, KeyIndexRises
    <3> QED BY <1>2, <2>3, <3>1
  <2> QED BY <2>2, <2>4, <2>5
<1> QED BY <1>1, <1>2

LEMMA AxisIndexOne ==
  ASSUME NEW codes, NEW n \in Nat, codes \subseteq 0 .. n
  PROVE  /\ \A a \in codes : M!AxisIndexOf(codes, a) \in Nat
         /\ \A a, b \in codes : M!AxisIndexOf(codes, a) = M!AxisIndexOf(codes, b) => a = b
<1>0. \A k \in codes : k \in Int
  OBVIOUS
<1>1. IsFiniteSet(codes)
  <2>1. IsFiniteSet(0 .. n)
    BY FS_Interval
  <2> QED BY <2>1, FS_Subset
<1> DEFINE Below(a) == {k \in codes : k < a}
<1>2. ASSUME NEW a \in codes
      PROVE  IsFiniteSet(Below(a)) /\ M!AxisIndexOf(codes, a) = Cardinality(Below(a)) /\ M!AxisIndexOf(codes, a) \in Nat
  <2>1. IsFiniteSet(Below(a))
    BY <1>1, FS_Subset
  <2>2. Cardinality(Below(a)) \in Nat
    BY <2>1, FS_CardinalityType
  <2> QED BY <2>1, <2>2, MappingCardinality DEF M!AxisIndexOf
<1>3. ASSUME NEW a \in codes, NEW b \in codes, a < b
      PROVE  M!AxisIndexOf(codes, a) < M!AxisIndexOf(codes, b)
  <2>0. a \in Int /\ b \in Int /\ ~(a < a) /\ \A k \in codes : k < a => k < b
    BY <1>0, <1>3
  <2>1. Below(a) \subseteq Below(b) /\ a \in Below(b) /\ a \notin Below(a)
    BY <1>3, <2>0
  <2>2. Cardinality(Below(a)) < Cardinality(Below(b))
    BY <2>1, <1>2, MoreBefore
  <2> QED BY <1>2, <2>2
<1>4. ASSUME NEW a \in codes, NEW b \in codes, M!AxisIndexOf(codes, a) = M!AxisIndexOf(codes, b)
      PROVE  a = b
  <2>1. a \in Int /\ b \in Int
    BY <1>0
  <2>2. M!AxisIndexOf(codes, a) \in Nat /\ M!AxisIndexOf(codes, b) \in Nat
    BY <1>2
  <2>3. ~(a < b) /\ ~(b < a)
    BY <1>3, <1>4, <2>2
  <2> QED BY <2>1, <2>3
<1> QED BY <1>2, <1>4

LEMMA PadFacts ==
  ASSUME pad \in Pads
  PROVE  /\ \A c \in M!Controls :
              /\ c \in Names \ M!NeverAsked /\ \E n \in DOMAIN Steps : M!Asked(n) = c
              /\ OnKey(c) \/ OnHat(c) \/ OnAxis(c)
              /\ \A d \in M!Controls : pad.wire[c].kind = pad.wire[d].kind /\ Code(c) = Code(d) /\ c # d =>
                   c \in M!Dpad /\ d \in M!Dpad /\ ~OnKey(c) /\ Sign(d) = -Sign(c)
         /\ \A c : OnKey(c) => /\ c \in M!Keyed /\ Sign(c) = 1
                               /\ M!KeyIndex(Code(c)) \in Nat
         /\ \A c : OnHat(c) => c \in M!Dpad /\ Code(c) \in HatCodes /\ Sign(c) \in {-1, 1}
         /\ \A c : OnAxis(c) => /\ c \in M!Axial /\ Code(c) \in pad.axes /\ Sign(c) \in {-1, 1}
                                /\ c \in M!Triggers => Sign(c) = 1
                                /\ Code(c) \in Nat /\ Code(c) < ABS_HAT0X
                                /\ M!AxisIndex(Code(c)) \in Nat
         /\ \A c, d : OnKey(c) /\ OnKey(d) /\ M!KeyIndex(Code(c)) = M!KeyIndex(Code(d)) => c = d
         /\ \A c, d : OnAxis(c) /\ OnAxis(d) /\ M!AxisIndex(Code(c)) = M!AxisIndex(Code(d)) =>
              Code(c) = Code(d) /\ (c = d \/ (c \in M!Dpad /\ d \in M!Dpad))
         /\ ABS_HAT0X \in Nat
<1>0. ABS_HAT0X \in Nat
  BY MappingAssumption
<1>1. M!GoodPad(pad)
  BY MappingAssumption
<1>2. IsFiniteSet(pad.keys) /\ pad.keys \subseteq Int /\ pad.axes \subseteq 0 .. ABS_HAT0X - 1
  BY <1>1, MappingCardinality DEF M!GoodPad
<1>3. \A c \in M!Controls : M!GoodWire(pad, c) /\ c \in Names \ M!NeverAsked /\ \E n \in DOMAIN Steps : M!Asked(n) = c
  <2>1. DOMAIN pad.wire \subseteq {M!Asked(n) : n \in DOMAIN Steps}
    BY <1>1 DEF M!GoodPad
  <2>2. \A c \in DOMAIN pad.wire : M!GoodWire(pad, c)
    BY <1>1 DEF M!GoodPad
  <2> QED BY <2>1, <2>2, StepsFacts DEF M!Controls
<1>4. \A c \in M!Controls : OnKey(c) \/ OnHat(c) \/ OnAxis(c)
  BY <1>3 DEF M!GoodWire, OnKey, OnHat, OnAxis
<1>5. ASSUME NEW c \in M!Controls, NEW d \in M!Controls,
             pad.wire[c].kind = pad.wire[d].kind, Code(c) = Code(d), c # d
      PROVE  c \in M!Dpad /\ d \in M!Dpad /\ ~OnKey(c) /\ Sign(d) = -Sign(c)
  <2>1. \A x \in DOMAIN pad.wire : \A y \in DOMAIN pad.wire \ {x} :
          pad.wire[y].kind = pad.wire[x].kind /\ pad.wire[y].code = pad.wire[x].code =>
            {x, y} \subseteq M!Dpad /\ pad.wire[x].kind # "key" /\ pad.wire[y].sign = -pad.wire[x].sign
    BY <1>1 DEF M!GoodPad
  <2> QED BY <1>5, <2>1 DEF M!Controls, OnKey, Code, Sign
<1>6. \A c : OnKey(c) => c \in M!Keyed /\ Sign(c) = 1 /\ Code(c) \in pad.keys
  BY <1>3 DEF M!GoodWire, OnKey, Sign, Code
<1>7. \A c : OnHat(c) => c \in M!Dpad /\ Code(c) \in HatCodes /\ Sign(c) \in {-1, 1}
  BY <1>3 DEF M!GoodWire, OnHat, Sign, Code, HatCodes
<1>8. \A c : OnAxis(c) => /\ c \in M!Axial /\ Code(c) \in pad.axes /\ Sign(c) \in {-1, 1}
                          /\ c \in M!Triggers => Sign(c) = 1
  <2> SUFFICES ASSUME NEW c, OnAxis(c)
               PROVE  /\ c \in M!Axial /\ Code(c) \in pad.axes /\ Sign(c) \in {-1, 1}
                      /\ c \in M!Triggers => Sign(c) = 1
    OBVIOUS
  <2>1. M!GoodWire(pad, c) /\ pad.wire[c].kind = "axis"
    BY <1>3 DEF OnAxis
  <2> QED BY <2>1 DEF M!GoodWire, Sign, Code
<1>9. \A a \in pad.axes : a \in Nat /\ a < ABS_HAT0X
  BY <1>0, <1>2
<1>10. /\ \A a \in pad.axes : M!AxisIndex(a) \in Nat
       /\ \A a, b \in pad.axes : M!AxisIndex(a) = M!AxisIndex(b) => a = b
  <2>1. CASE ABS_HAT0X = 0
    BY <1>0, <1>9, <2>1
  <2>2. CASE ABS_HAT0X # 0
    <3>1. ABS_HAT0X - 1 \in Nat
      BY <1>0, <2>2
    <3> QED BY <1>2, <3>1, AxisIndexOne DEF M!AxisIndex
  <2> QED BY <2>1, <2>2
<1>11. /\ \A a \in pad.keys : M!KeyIndex(a) \in Nat
       /\ \A a, b \in pad.keys : M!KeyIndex(a) = M!KeyIndex(b) => a = b
  BY <1>2, KeyIndexOne DEF M!KeyIndex
<1>12. \A c, d : OnKey(c) /\ OnKey(d) /\ M!KeyIndex(Code(c)) = M!KeyIndex(Code(d)) => c = d
  <2> SUFFICES ASSUME NEW c, NEW d, OnKey(c), OnKey(d), M!KeyIndex(Code(c)) = M!KeyIndex(Code(d)), c # d
               PROVE  FALSE
    OBVIOUS
  <2>1. Code(c) = Code(d)
    BY <1>6, <1>11
  <2>2. c \in M!Controls /\ d \in M!Controls /\ pad.wire[c].kind = pad.wire[d].kind
    BY DEF OnKey
  <2> QED BY <1>5, <2>1, <2>2
<1>13. \A c, d : OnAxis(c) /\ OnAxis(d) /\ M!AxisIndex(Code(c)) = M!AxisIndex(Code(d)) =>
         Code(c) = Code(d) /\ (c = d \/ (c \in M!Dpad /\ d \in M!Dpad))
  <2> SUFFICES ASSUME NEW c, NEW d, OnAxis(c), OnAxis(d), M!AxisIndex(Code(c)) = M!AxisIndex(Code(d))
               PROVE  Code(c) = Code(d) /\ (c = d \/ (c \in M!Dpad /\ d \in M!Dpad))
    OBVIOUS
  <2>1. Code(c) = Code(d)
    BY <1>8, <1>10
  <2>2. c \in M!Controls /\ d \in M!Controls /\ pad.wire[c].kind = pad.wire[d].kind
    BY DEF OnAxis
  <2> QED BY <1>5, <2>1, <2>2
<1>14. \A c : OnKey(c) => c \in M!Keyed /\ Sign(c) = 1 /\ M!KeyIndex(Code(c)) \in Nat
  BY <1>6, <1>11
<1>15. \A c : OnAxis(c) => /\ c \in M!Axial /\ Code(c) \in pad.axes /\ Sign(c) \in {-1, 1}
                           /\ c \in M!Triggers => Sign(c) = 1
                           /\ Code(c) \in Nat /\ Code(c) < ABS_HAT0X
                           /\ M!AxisIndex(Code(c)) \in Nat
  BY <1>8, <1>9, <1>10
<1> QED BY <1>0, <1>3, <1>4, <1>5, <1>7, <1>12, <1>13, <1>14, <1>15

LEMMA ParmsFacts ==
  ASSUME pad \in Pads
  PROVE  /\ pad.parms.min \in Int /\ pad.parms.max \in Int /\ pad.parms.flat \in Nat
         /\ pad.parms.min < pad.parms.max /\ 2 * pad.parms.flat < pad.parms.max - pad.parms.min
         /\ pad.files \subseteq {{M!Entry(pad, c) : c \in M!Controls}}
<1>1. M!GoodPad(pad)
  BY MappingAssumption
<1> QED BY <1>1 DEF M!GoodPad, M!Controls

LEMMA KindsDiffer == \A c : ~(OnKey(c) /\ OnHat(c)) /\ ~(OnKey(c) /\ OnAxis(c)) /\ ~(OnHat(c) /\ OnAxis(c))
BY DEF OnKey, OnHat, OnAxis

-----------------------------------------------------------------------------
(* What an axis says.                                                      *)

LEMMA Quotient ==
  ASSUME NEW x \in Int, NEW d \in Nat, NEW k \in Nat, d > 0, 0 <= x, x <= d
  PROVE  /\ (x * k) \div d \in 0 .. k
         /\ x = 0 => (x * k) \div d = 0
         /\ x = d => (x * k) \div d = k
<1> DEFINE q == (x * k) \div d
           r == (x * k) % d
<1>1. x * k \in Int /\ q \in Int /\ r \in Int /\ x * k = d * q + r /\ 0 <= r /\ r < d
  OBVIOUS
<1>2. 0 <= x * k /\ x * k <= d * k
  OBVIOUS
<1> HIDE DEF q, r
<1>3. 0 <= q
  <2>1. SUFFICES ASSUME q <= -1 PROVE FALSE
    BY <1>1
  <2>2. d * q <= d * (-1)
    BY <1>1, <2>1
  <2> QED BY <1>1, <1>2, <2>2
<1>4. q <= k
  <2>1. SUFFICES ASSUME q >= k + 1 PROVE FALSE
    BY <1>1
  <2>2. d * q >= d * (k + 1) /\ d * (k + 1) = d * k + d
    BY <1>1, <2>1
  <2> QED BY <1>1, <1>2, <2>2
<1>5. ASSUME x = d PROVE q = k
  <2>1. SUFFICES ASSUME q <= k - 1 PROVE FALSE
    BY <1>1, <1>4
  <2>2. d * q <= d * (k - 1) /\ d * (k - 1) = d * k - d
    BY <1>1, <2>1
  <2> QED BY <1>1, <1>5, <2>2
<1>6. ASSUME x = 0 PROVE q = 0
  <2>1. SUFFICES ASSUME q >= 1 PROVE FALSE
    BY <1>1, <1>3
  <2>2. d * q >= d
    BY <1>1, <2>1
  <2> QED BY <1>1, <1>6, <2>2
<1> QED BY <1>1, <1>3, <1>4, <1>5, <1>6 DEF q

Ratio(x, k, d) == (x * k) \div d

LEMMA RatioRange ==
  ASSUME NEW x \in Int, NEW d \in Int, NEW k \in Nat, d > 0, 0 <= x, x <= d
  PROVE  /\ Ratio(x, k, d) \in Int /\ 0 <= Ratio(x, k, d) /\ Ratio(x, k, d) <= k
         /\ x = 0 => Ratio(x, k, d) = 0
         /\ x = d => Ratio(x, k, d) = k
BY Quotient DEF Ratio

LEMMA Shorts ==
  /\ M!SHRT_MAX \in Int /\ M!SHRT_MIN \in Int /\ M!SHRT_MIN < 0 /\ 0 < M!SHRT_MAX
  /\ M!UCHAR_MAX \in Nat
BY DEF M!SHRT_MAX, M!SHRT_MIN, M!UCHAR_MAX

\* The axis whose values are told.
Span(p) ==
  /\ p.min \in Int /\ p.max \in Int /\ p.flat \in Nat
  /\ p.min < p.max /\ 2 * p.flat < p.max - p.min

LEMMA Middle ==
  ASSUME NEW p, Span(p)
  PROVE  /\ M!Avg(p) \in Int /\ M!HalfRange(p) \in Nat
         /\ p.min + p.flat <= M!Avg(p) /\ M!Avg(p) + p.flat <= p.max
<1> DEFINE s == p.min + p.max
           a == M!Halved(s)
<1>1. p.min \in Int /\ p.max \in Int /\ p.flat \in Nat /\ p.min < p.max /\ 2 * p.flat < p.max - p.min
      /\ s \in Int
  BY DEF Span
<1>2. a \in Int /\ 2 * a <= s + 1 /\ 2 * a >= s - 1
  BY <1>1 DEF M!Halved
<1>3. M!Avg(p) = a
  BY DEF M!Avg
<1> HIDE DEF a
<1> QED BY <1>1, <1>2, <1>3 DEF M!HalfRange

LEMMA ConvertStraight ==
  ASSUME NEW p, Span(p), NEW v \in Int, p.min <= v, v <= p.max
  PROVE  /\ M!evdev_convert_value(v, p, FALSE) \in M!SHRT_MIN .. M!SHRT_MAX
         /\ v = p.max => M!evdev_convert_value(v, p, FALSE) = M!SHRT_MAX
         /\ v = p.min => M!evdev_convert_value(v, p, FALSE) = M!SHRT_MIN
         /\ v = M!Avg(p) /\ p.flat > 0 => M!evdev_convert_value(v, p, FALSE) = 0
<1> DEFINE x == M!evdev_convert_value(v, p, FALSE)
           a == M!Avg(p)
           d == p.max - p.min - 2 * p.flat
           n == v - (IF v > a THEN 2 * p.flat ELSE 0) - p.min
           w == M!SHRT_MAX - M!SHRT_MIN
<1> SUFFICES /\ x \in M!SHRT_MIN .. M!SHRT_MAX
             /\ v = p.max => x = M!SHRT_MAX
             /\ v = p.min => x = M!SHRT_MIN
             /\ v = M!Avg(p) /\ p.flat > 0 => x = 0
  OBVIOUS
<1> HIDE DEF x
<1>1. p.min \in Int /\ p.max \in Int /\ p.flat \in Nat /\ p.min < p.max /\ d \in Int /\ d > 0
      /\ a \in Int /\ p.min + p.flat <= a /\ a + p.flat <= p.max
  BY Middle DEF Span
<1>2. CASE M!Distance(v, a) < p.flat
  <2>1. x = 0
    BY <1>2, Zenon DEF M!evdev_convert_value, x
  <2>2. v # p.max /\ v # p.min
    BY <1>1, <1>2 DEF M!Distance
  <2> QED BY <2>1, <2>2, Shorts
<1>3. CASE ~(M!Distance(v, a) < p.flat)
  <2>1. ~(v > p.max) /\ ~(v < p.min)
    BY <1>1
  <2>2. x = (n * w) \div d + M!SHRT_MIN
    BY ONLY <1>3, <2>1, Zenon DEF M!evdev_convert_value, n, w, d, a, x
  <2>3. n \in Int /\ 0 <= n /\ n <= d /\ (v = p.max => n = d) /\ (v = p.min => n = 0)
        /\ (v = a => p.flat = 0)
    <3>1. v - a >= p.flat \/ a - v >= p.flat
      BY <1>1, <1>3 DEF M!Distance
    <3>2. v = a => p.flat = 0
      BY <1>1, <3>1
    <3>3. CASE v > a
      BY <1>1, <3>1, <3>2, <3>3
    <3>4. CASE v < a
      BY <1>1, <3>1, <3>2, <3>4
    <3>5. CASE v = a
      <4>1. p.flat = 0 /\ ~(v > a)
        BY <1>1, <3>2, <3>5
      <4>2. n = v - p.min /\ d = p.max - p.min
        BY <1>1, <4>1
      <4> HIDE DEF n, d, a
      <4> QED BY <1>1, <4>1, <4>2
    <3> QED BY <1>1, <3>3, <3>4, <3>5
  <2>4. w \in Nat
    BY Shorts
  <2> HIDE DEF n, w, d
  <2>5. x = Ratio(n, w, d) + M!SHRT_MIN
    BY ONLY <2>2, Zenon DEF Ratio
  <2>6. /\ Ratio(n, w, d) \in Int /\ 0 <= Ratio(n, w, d) /\ Ratio(n, w, d) <= w
        /\ n = 0 => Ratio(n, w, d) = 0
        /\ n = d => Ratio(n, w, d) = w
    BY <1>1, <2>3, <2>4, RatioRange
  <2>7. w = M!SHRT_MAX - M!SHRT_MIN
    BY DEF w
  <2> QED BY <1>1, <2>3, <2>5, <2>6, <2>7, Shorts
<1> QED BY <1>2, <1>3

LEMMA ConvertReversed ==
  ASSUME NEW p, Span(p), NEW v \in Int, p.min <= v, v <= p.max
  PROVE  /\ M!evdev_convert_value(v, p, TRUE) \in M!SHRT_MIN .. M!SHRT_MAX
         /\ v = p.max => M!evdev_convert_value(v, p, TRUE) = M!SHRT_MIN
         /\ v = p.min => M!evdev_convert_value(v, p, TRUE) = M!SHRT_MAX
         /\ v = M!Avg(p) /\ p.flat > 0 => M!evdev_convert_value(v, p, TRUE) = 0
<1> DEFINE x == M!evdev_convert_value(v, p, TRUE)
           a == M!Avg(p)
           d == p.max - p.min - 2 * p.flat
           n == p.max - (IF v < a THEN 2 * p.flat ELSE 0) - v
           w == M!SHRT_MAX - M!SHRT_MIN
<1> SUFFICES /\ x \in M!SHRT_MIN .. M!SHRT_MAX
             /\ v = p.max => x = M!SHRT_MIN
             /\ v = p.min => x = M!SHRT_MAX
             /\ v = M!Avg(p) /\ p.flat > 0 => x = 0
  OBVIOUS
<1> HIDE DEF x
<1>1. p.min \in Int /\ p.max \in Int /\ p.flat \in Nat /\ p.min < p.max /\ d \in Int /\ d > 0
      /\ a \in Int /\ p.min + p.flat <= a /\ a + p.flat <= p.max
  BY Middle DEF Span
<1>2. CASE M!Distance(v, a) < p.flat
  <2>1. x = 0
    BY <1>2, Zenon DEF M!evdev_convert_value, x
  <2>2. v # p.max /\ v # p.min
    BY <1>1, <1>2 DEF M!Distance
  <2> QED BY <2>1, <2>2, Shorts
<1>3. CASE ~(M!Distance(v, a) < p.flat)
  <2>1. ~(v > p.max) /\ ~(v < p.min)
    BY <1>1
  <2>2. x = (n * w) \div d + M!SHRT_MIN
    BY ONLY <1>3, <2>1, Zenon DEF M!evdev_convert_value, n, w, d, a, x
  <2>3. n \in Int /\ 0 <= n /\ n <= d /\ (v = p.max => n = 0) /\ (v = p.min => n = d)
        /\ (v = a => p.flat = 0)
    <3>1. v - a >= p.flat \/ a - v >= p.flat
      BY <1>1, <1>3 DEF M!Distance
    <3>2. v = a => p.flat = 0
      BY <1>1, <3>1
    <3>3. CASE v > a
      BY <1>1, <3>1, <3>2, <3>3
    <3>4. CASE v < a
      BY <1>1, <3>1, <3>2, <3>4
    <3>5. CASE v = a
      <4>1. p.flat = 0 /\ ~(v < a)
        BY <1>1, <3>2, <3>5
      <4>2. n = p.max - v /\ d = p.max - p.min
        BY <1>1, <4>1
      <4> HIDE DEF n, d, a
      <4> QED BY <1>1, <4>1, <4>2
    <3> QED BY <1>1, <3>3, <3>4, <3>5
  <2>4. w \in Nat
    BY Shorts
  <2> HIDE DEF n, w, d
  <2>5. x = Ratio(n, w, d) + M!SHRT_MIN
    BY ONLY <2>2, Zenon DEF Ratio
  <2>6. /\ Ratio(n, w, d) \in Int /\ 0 <= Ratio(n, w, d) /\ Ratio(n, w, d) <= w
        /\ n = 0 => Ratio(n, w, d) = 0
        /\ n = d => Ratio(n, w, d) = w
    BY <1>1, <2>3, <2>4, RatioRange
  <2>7. w = M!SHRT_MAX - M!SHRT_MIN
    BY DEF w
  <2> QED BY <1>1, <2>3, <2>5, <2>6, <2>7, Shorts
<1> QED BY <1>2, <1>3

LEMMA ConvertByte ==
  ASSUME NEW p, Span(p), NEW v \in Int, p.min <= v, v <= p.max
  PROVE  /\ M!evdev_convert_value_byte(v, p, "") \in 0 .. M!UCHAR_MAX
         /\ v = p.max => M!evdev_convert_value_byte(v, p, "") = M!UCHAR_MAX
         /\ v = p.min => M!evdev_convert_value_byte(v, p, "") = 0
<1> DEFINE x == M!evdev_convert_value_byte(v, p, "")
           d == p.max - p.min - p.flat
           n == v - p.flat - p.min
<1> SUFFICES /\ x \in 0 .. M!UCHAR_MAX
             /\ v = p.max => x = M!UCHAR_MAX
             /\ v = p.min => x = 0
  OBVIOUS
<1> HIDE DEF x
<1>1. p.min \in Int /\ p.max \in Int /\ p.flat \in Nat /\ p.min < p.max /\ d \in Int /\ d > 0
      /\ 2 * p.flat < p.max - p.min
  BY DEF Span
<1>2. CASE M!Distance(v, p.min) < p.flat
  <2>1. x = 0
    BY <1>2, Zenon DEF M!evdev_convert_value_byte, x
  <2>2. v # p.max
    BY <1>1, <1>2 DEF M!Distance
  <2> QED BY <2>1, <2>2, Shorts
<1>3. CASE ~(M!Distance(v, p.min) < p.flat)
  <2>1. ~(v > p.max)
    BY <1>1
  <2>2. x = (n * M!UCHAR_MAX) \div d
    BY ONLY <1>3, <2>1, Zenon DEF M!evdev_convert_value_byte, n, d, x
  <2>3. n \in Int /\ 0 <= n /\ n <= d /\ (v = p.max => n = d) /\ (v = p.min => n = 0)
    BY <1>1, <1>3 DEF M!Distance
  <2> HIDE DEF n, d
  <2>4. x = Ratio(n, M!UCHAR_MAX, d)
    BY ONLY <2>2, Zenon DEF Ratio
  <2>5. /\ Ratio(n, M!UCHAR_MAX, d) \in Int /\ 0 <= Ratio(n, M!UCHAR_MAX, d)
        /\ Ratio(n, M!UCHAR_MAX, d) <= M!UCHAR_MAX
        /\ n = 0 => Ratio(n, M!UCHAR_MAX, d) = 0
        /\ n = d => Ratio(n, M!UCHAR_MAX, d) = M!UCHAR_MAX
    <3>1. M!UCHAR_MAX \in Nat /\ n \in Int /\ d \in Int /\ d > 0 /\ 0 <= n /\ n <= d
      BY <1>1, <2>3, Shorts DEF d
    <3> QED BY ONLY <3>1, RatioRange
  <2> QED BY <1>1, <2>3, <2>4, <2>5, Shorts
<1> QED BY <1>2, <1>3

WithButton(m, c, v) == [m EXCEPT !.btn[c] = v]
WithAxis(m, c, v) == [m EXCEPT !.abs[c] = v]
WithReverse(m, r) == [m EXCEPT !.reverse = r]
WithHat(m, c, v, d) == [m EXCEPT !.hat[c] = v, !.dir[c] = d]

LEMMA SetButton ==
  ASSUME NEW m \in Mappings, NEW c \in M!Keyed, NEW v \in Int
  PROVE  LET k == WithButton(m, c, v) IN
         /\ k \in Mappings /\ k.abs = m.abs /\ k.hat = m.hat /\ k.dir = m.dir /\ k.reverse = m.reverse /\ k.half = m.half
         /\ \A x \in M!Keyed : k.btn[x] = IF x = c THEN v ELSE m.btn[x]
<1> DEFINE f == [m.btn EXCEPT ![c] = v]
           k == [m EXCEPT !.btn = f]
<1>1. WithButton(m, c, v) = k
  BY DEF WithButton
<1>2. f \in [M!Keyed -> Int] /\ \A x \in M!Keyed : f[x] = IF x = c THEN v ELSE m.btn[x]
  BY DEF Mappings
<1> HIDE DEF f
<1>3. k \in Mappings /\ k.btn = f /\ k.abs = m.abs /\ k.hat = m.hat /\ k.dir = m.dir /\ k.reverse = m.reverse /\ k.half = m.half
  BY <1>2 DEF Mappings
<1> HIDE DEF k
<1> QED BY <1>1, <1>2, <1>3

LEMMA SetAxis ==
  ASSUME NEW m \in Mappings, NEW c \in M!Axial, NEW v \in Int
  PROVE  LET k == WithAxis(m, c, v) IN
         /\ k \in Mappings /\ k.btn = m.btn /\ k.hat = m.hat /\ k.dir = m.dir /\ k.reverse = m.reverse /\ k.half = m.half
         /\ \A x \in M!Axial : k.abs[x] = IF x = c THEN v ELSE m.abs[x]
<1> DEFINE f == [m.abs EXCEPT ![c] = v]
           k == [m EXCEPT !.abs = f]
<1>1. WithAxis(m, c, v) = k
  BY DEF WithAxis
<1>2. f \in [M!Axial -> Int] /\ \A x \in M!Axial : f[x] = IF x = c THEN v ELSE m.abs[x]
  BY DEF Mappings
<1> HIDE DEF f
<1>3. k \in Mappings /\ k.abs = f /\ k.btn = m.btn /\ k.hat = m.hat /\ k.dir = m.dir /\ k.reverse = m.reverse /\ k.half = m.half
  BY <1>2 DEF Mappings
<1> HIDE DEF k
<1> QED BY <1>1, <1>2, <1>3

LEMMA SetReverse ==
  ASSUME NEW m \in Mappings, NEW r \in [M!Sticks -> BOOLEAN]
  PROVE  LET k == WithReverse(m, r) IN
         k \in Mappings /\ k.btn = m.btn /\ k.abs = m.abs /\ k.hat = m.hat /\ k.dir = m.dir
BY DEF Mappings, WithReverse

LEMMA SetHat ==
  ASSUME NEW m \in Mappings, NEW c \in M!Dpad, NEW v \in Int, NEW d \in SUBSET M!AllBits
  PROVE  LET k == WithHat(m, c, v, d) IN
         /\ k \in Mappings /\ k.btn = m.btn /\ k.abs = m.abs /\ k.reverse = m.reverse
         /\ \A x \in M!Dpad : /\ k.hat[x] = IF x = c THEN v ELSE m.hat[x]
                              /\ k.dir[x] = IF x = c THEN d ELSE m.dir[x]
<1> DEFINE f == [m.hat EXCEPT ![c] = v]
           g == [m.dir EXCEPT ![c] = d]
           k == [m EXCEPT !.hat = f, !.dir = g]
<1>1. WithHat(m, c, v, d) = k
  BY DEF Mappings, WithHat
<1>2. f \in [M!Dpad -> Int] /\ \A x \in M!Dpad : f[x] = IF x = c THEN v ELSE m.hat[x]
  BY DEF Mappings
<1>3. g \in [M!Dpad -> SUBSET M!AllBits] /\ \A x \in M!Dpad : g[x] = IF x = c THEN d ELSE m.dir[x]
  BY DEF Mappings
<1> HIDE DEF f, g
<1>4. /\ k \in Mappings /\ k.hat = f /\ k.dir = g
      /\ k.btn = m.btn /\ k.abs = m.abs /\ k.reverse = m.reverse
  BY <1>2, <1>3 DEF Mappings
<1> HIDE DEF k
<1> QED BY <1>1, <1>2, <1>3, <1>4

LEMMA AxisValues ==
  ASSUME pad \in Pads, NEW c, OnAxis(c), NEW p \in {"rest", "half", "full", "back"}
  PROVE  /\ Span(pad.parms)
         /\ M!Value(c, p) \in Int /\ pad.parms.min <= M!Value(c, p) /\ M!Value(c, p) <= pad.parms.max
         /\ p = "full" => M!Value(c, p) = IF Sign(c) = 1 THEN pad.parms.max ELSE pad.parms.min
         /\ p = "back" => M!Value(c, p) = IF Sign(c) = 1 THEN pad.parms.min ELSE pad.parms.max
         /\ p = "rest" => M!Value(c, p) = IF c \in M!Triggers THEN pad.parms.min ELSE M!Avg(pad.parms)
<1>1. Span(pad.parms)
  BY ParmsFacts DEF Span
<1> DEFINE q == pad.parms
           a == M!Avg(pad.parms)
<1>2. /\ q.min \in Int /\ q.max \in Int /\ q.flat \in Nat /\ q.min < q.max
      /\ a \in Int /\ q.min + q.flat <= a /\ a + q.flat <= q.max
  BY <1>1, Middle DEF Span
<1>3. Sign(c) = 1 \/ Sign(c) = -1
  BY PadFacts
<1>4. M!Value(c, p) = M!AxisValue(c, p)
  BY DEF M!Value, OnAxis
<1>5. M!AxisValue(c, p) =
        IF p = "full" THEN IF Sign(c) = 1 THEN q.max ELSE q.min
        ELSE IF p = "back" THEN IF Sign(c) = 1 THEN q.min ELSE q.max
        ELSE IF c \in M!Triggers THEN IF p = "rest" THEN q.min ELSE a
        ELSE IF p = "rest" THEN a ELSE a + Sign(c) * q.flat
  BY DEF M!AxisValue, Sign
<1>6. a + Sign(c) * q.flat \in Int /\ q.min <= a + Sign(c) * q.flat /\ a + Sign(c) * q.flat <= q.max
  <2> HIDE DEF a, q
  <2> QED BY <1>2, <1>3
<1> HIDE DEF a, q
<1>7. M!Value(c, p) \in Int /\ q.min <= M!Value(c, p) /\ M!Value(c, p) <= q.max
  BY <1>2, <1>4, <1>5, <1>6
<1> QED BY <1>1, <1>4, <1>5, <1>7 DEF a, q

-----------------------------------------------------------------------------
(* The mapping of a dialogue, printed and read again, and one of a file.    *)

LEMMA BeginStepChanges ==
  ASSUME NEW m \in Mappings, NEW n \in DOMAIN Steps
  PROVE  /\ M!BeginStep(m, n) \in Mappings
         /\ \A x \in M!Keyed : M!BeginStep(m, n).btn[x] = IF x = M!Asked(n) THEN -1 ELSE m.btn[x]
         /\ \A x \in M!Axial : M!BeginStep(m, n).abs[x] =
              IF x = M!Asked(n) /\ x \notin M!Dpad THEN -1 ELSE m.abs[x]
         /\ \A x \in M!Dpad : /\ M!BeginStep(m, n).hat[x] = IF x = M!Asked(n) THEN -1 ELSE m.hat[x]
                              /\ x # M!Asked(n) => M!BeginStep(m, n).dir[x] = m.dir[x]
<1> DEFINE c == M!Asked(n)
           keyed == IF M!Kind(n) = "abs" THEN m ELSE [m EXCEPT !.btn[c] = -1]
           axed == IF M!Kind(n) \in {"abs", "abskey"} THEN [keyed EXCEPT !.abs[c] = -1] ELSE keyed
           turned == [axed EXCEPT !.hat[c] = -1, !.dir[c] = M!AllBits]
           r == [s \in M!Sticks |-> axed.reverse[s] /\ s \notin M!LastReverse(n)]
           last == [axed EXCEPT !.hat[c] = -1, !.dir[c] = M!AllBits,
                      !.reverse = [s \in M!Sticks |-> @[s] /\ s \notin M!LastReverse(n)]]
<1>1. /\ c \in Names
      /\ M!Kind(n) = "abs" <=> c \in M!Sticks
      /\ M!Kind(n) = "hatkey" <=> c \in M!Dpad
      /\ M!Kind(n) = "abskey" <=> c \in M!Triggers
  BY StepsFacts
<1>2. M!BeginStep(m, n) = IF M!Kind(n) = "hatkey" THEN last ELSE axed
  BY DEF M!BeginStep
<1> HIDE DEF c
<1>3. /\ keyed \in Mappings
      /\ \A x \in M!Keyed : keyed.btn[x] = IF x = c THEN -1 ELSE m.btn[x]
      /\ keyed.abs = m.abs /\ keyed.hat = m.hat /\ keyed.dir = m.dir
  <2>1. CASE M!Kind(n) = "abs"
    BY <1>1, <2>1, NamesDiffer
  <2>2. CASE M!Kind(n) # "abs"
    <3>1. c \in M!Keyed
      BY <1>1, <2>2, NamesDiffer DEF Names
    <3>2. keyed = WithButton(m, c, -1)
      BY <2>2 DEF WithButton
    <3> HIDE DEF keyed
    <3> QED BY <3>1, <3>2, SetButton
  <2> QED BY <2>1, <2>2
<1>4. /\ axed \in Mappings
      /\ axed.btn = keyed.btn /\ axed.hat = keyed.hat /\ axed.dir = keyed.dir
      /\ \A x \in M!Axial : axed.abs[x] = IF x = c /\ x \notin M!Dpad THEN -1 ELSE keyed.abs[x]
  <2> HIDE DEF keyed
  <2>1. CASE M!Kind(n) \in {"abs", "abskey"}
    <3>1. c \in M!Axial /\ c \notin M!Dpad
      BY <1>1, <2>1, NamesDiffer
    <3>2. axed = WithAxis(keyed, c, -1)
      BY <2>1 DEF WithAxis
    <3> HIDE DEF axed
    <3> QED BY <1>3, <3>1, <3>2, SetAxis
  <2>2. CASE M!Kind(n) \notin {"abs", "abskey"}
    <3>1. axed = keyed /\ (c \in M!Axial => c \in M!Dpad)
      BY <1>1, <2>2, NamesDiffer
    <3> HIDE DEF axed
    <3> QED BY <1>3, <3>1
  <2> QED BY <2>1, <2>2
<1>5. ASSUME M!Kind(n) = "hatkey"
      PROVE  /\ last \in Mappings /\ last.btn = axed.btn /\ last.abs = axed.abs
             /\ \A x \in M!Dpad : /\ last.hat[x] = IF x = c THEN -1 ELSE axed.hat[x]
                                  /\ x # c => last.dir[x] = axed.dir[x]
  <2>1. c \in M!Dpad
    BY <1>1, <1>5
  <2> HIDE DEF axed
  <2>2. /\ turned \in Mappings /\ turned.btn = axed.btn /\ turned.abs = axed.abs
        /\ turned.reverse = axed.reverse
        /\ \A x \in M!Dpad : /\ turned.hat[x] = IF x = c THEN -1 ELSE axed.hat[x]
                             /\ turned.dir[x] = IF x = c THEN M!AllBits ELSE axed.dir[x]
    <3>1. turned = WithHat(axed, c, -1, M!AllBits)
      BY DEF WithHat
    <3>2. axed \in Mappings /\ c \in M!Dpad /\ -1 \in Int /\ M!AllBits \in SUBSET M!AllBits
      BY <1>4, <2>1
    <3> HIDE DEF turned
    <3> QED BY ONLY <3>1, <3>2, SetHat
  <2>3. last = WithReverse(turned, r)
    BY DEF WithReverse
  <2>4. r \in [M!Sticks -> BOOLEAN]
    OBVIOUS
  <2> HIDE DEF turned, last, r
  <2> QED BY <2>2, <2>3, <2>4, SetReverse
<1> HIDE DEF keyed, axed, last
<1>6. M!BeginStep(m, n) \in Mappings
  BY <1>2, <1>4, <1>5
<1>7. \A x \in M!Keyed : M!BeginStep(m, n).btn[x] = IF x = c THEN -1 ELSE m.btn[x]
  BY <1>2, <1>3, <1>4, <1>5
<1>8. \A x \in M!Axial : M!BeginStep(m, n).abs[x] = IF x = c /\ x \notin M!Dpad THEN -1 ELSE m.abs[x]
  BY <1>2, <1>3, <1>4, <1>5
<1>9. \A x \in M!Dpad : /\ M!BeginStep(m, n).hat[x] = IF x = c THEN -1 ELSE m.hat[x]
                        /\ x # c => M!BeginStep(m, n).dir[x] = m.dir[x]
  BY <1>1, <1>2, <1>3, <1>4, <1>5
<1> QED BY <1>6, <1>7, <1>8, <1>9 DEF c

-----------------------------------------------------------------------------
(* The mapping of a dialogue, printed and read again, and one of a file.    *)

HasEntry(es, c, k) == \E e \in es : e.key = c /\ e.kind = k
TheEntry(es, c, k) == CHOOSE e \in es : e.key = c /\ e.kind = k

LEMMA OneEntry ==
  ASSUME NEW es, NEW e \in es, \A d \in es : d.key = e.key /\ d.kind = e.kind => d = e
  PROVE  HasEntry(es, e.key, e.kind) /\ TheEntry(es, e.key, e.kind) = e
BY DEF HasEntry, TheEntry

ReadButtons(es) == [c \in M!Keyed |-> IF HasEntry(es, c, "b") THEN TheEntry(es, c, "b").n ELSE -1]
ReadAxes(es) == [c \in M!Axial |-> IF HasEntry(es, c, "a") THEN TheEntry(es, c, "a").n ELSE -1]
ReadHats(es) == [c \in M!Dpad |-> IF HasEntry(es, c, "h") THEN TheEntry(es, c, "h").n ELSE -1]
ReadDirs(es) ==
  [c \in M!Dpad |-> IF HasEntry(es, c, "h") THEN TheEntry(es, c, "h").dir ELSE M!Nothing.dir[c]]
ReadReverse(es) == [c \in M!Sticks |-> HasEntry(es, c, "a") /\ TheEntry(es, c, "a").flag = "~"]
ReadHalves(es) ==
  [c \in M!Axial |-> IF HasEntry(es, c, "a") /\ c \notin M!Sticks THEN TheEntry(es, c, "a").half ELSE ""]

LEMMA ParsedRecord ==
  ASSUME NEW es
  PROVE  M!mapping_parse(es) =
           [btn |-> ReadButtons(es), abs |-> ReadAxes(es), hat |-> ReadHats(es), dir |-> ReadDirs(es),
            reverse |-> ReadReverse(es), half |-> ReadHalves(es)]
BY DEF M!mapping_parse, HasEntry, TheEntry, ReadButtons, ReadAxes, ReadHats, ReadDirs, ReadReverse, ReadHalves

LEMMA NothingTurned == \A c \in M!Dpad : M!Nothing.dir[c] = M!AllBits
<1> DEFINE all == [c \in M!Dpad |-> M!AllBits]
<1>1. M!Nothing.dir = all
  BY DEF M!Nothing
<1>2. \A c \in M!Dpad : all[c] = M!AllBits
  OBVIOUS
<1> HIDE DEF all
<1> QED BY <1>1, <1>2

LEMMA ParsedFields ==
  ASSUME NEW es
  PROVE  LET k == M!mapping_parse(es) IN
         /\ \A c \in M!Keyed :
              k.btn[c] = IF HasEntry(es, c, "b") THEN TheEntry(es, c, "b").n ELSE -1
         /\ \A c \in M!Axial :
              /\ k.abs[c] = IF HasEntry(es, c, "a") THEN TheEntry(es, c, "a").n ELSE -1
              /\ k.half[c] = IF HasEntry(es, c, "a") /\ c \notin M!Sticks
                             THEN TheEntry(es, c, "a").half ELSE ""
         /\ \A c \in M!Dpad :
              /\ k.hat[c] = IF HasEntry(es, c, "h") THEN TheEntry(es, c, "h").n ELSE -1
              /\ k.dir[c] = IF HasEntry(es, c, "h") THEN TheEntry(es, c, "h").dir ELSE M!AllBits
         /\ \A c \in M!Sticks : k.reverse[c] <=> HasEntry(es, c, "a") /\ TheEntry(es, c, "a").flag = "~"
<1>1. \A c \in M!Keyed : ReadButtons(es)[c] = IF HasEntry(es, c, "b") THEN TheEntry(es, c, "b").n ELSE -1
  BY DEF ReadButtons
<1>2. \A c \in M!Axial : ReadAxes(es)[c] = IF HasEntry(es, c, "a") THEN TheEntry(es, c, "a").n ELSE -1
  BY DEF ReadAxes
<1>3. \A c \in M!Dpad : ReadHats(es)[c] = IF HasEntry(es, c, "h") THEN TheEntry(es, c, "h").n ELSE -1
  BY DEF ReadHats
<1>4. \A c \in M!Dpad : ReadDirs(es)[c] = IF HasEntry(es, c, "h") THEN TheEntry(es, c, "h").dir ELSE M!Nothing.dir[c]
  BY DEF ReadDirs
<1>5. \A c \in M!Sticks : ReadReverse(es)[c] <=> HasEntry(es, c, "a") /\ TheEntry(es, c, "a").flag = "~"
  BY DEF ReadReverse
<1>6. \A c \in M!Axial : ReadHalves(es)[c] = IF HasEntry(es, c, "a") /\ c \notin M!Sticks
                                             THEN TheEntry(es, c, "a").half ELSE ""
  BY DEF ReadHalves
<1> QED BY <1>1, <1>2, <1>3, <1>4, <1>5, <1>6, ParsedRecord, NothingTurned

\* What the text of a mapping says of each name.
ButtonSaid(es, c, n) == IF HasEntry(es, c, "b") THEN TheEntry(es, c, "b").n = n ELSE n = -1
AxisSaid(es, c, n, half, flag) ==
  IF HasEntry(es, c, "a") THEN TheEntry(es, c, "a") = M!Axis(c, n, half, flag)
  ELSE n = -1 /\ half = "" /\ flag = ""
HatSaid(es, c, n, dir) ==
  IF HasEntry(es, c, "h") THEN TheEntry(es, c, "h") = M!Hat(c, n, dir) ELSE n = -1 /\ dir = M!AllBits

LEMMA ParsedButton ==
  ASSUME NEW es, NEW c \in M!Keyed, NEW n, ButtonSaid(es, c, n)
  PROVE  M!mapping_parse(es).btn[c] = n
BY ParsedFields DEF ButtonSaid

LEMMA ParsedAxis ==
  ASSUME NEW es, NEW c \in M!Axial, NEW n, NEW half, NEW flag, AxisSaid(es, c, n, half, flag)
  PROVE  /\ M!mapping_parse(es).abs[c] = n
         /\ M!mapping_parse(es).half[c] = IF c \in M!Sticks THEN "" ELSE half
         /\ c \in M!Sticks => (M!mapping_parse(es).reverse[c] <=> flag = "~")
<1>1. /\ M!mapping_parse(es).abs[c] = IF HasEntry(es, c, "a") THEN TheEntry(es, c, "a").n ELSE -1
      /\ M!mapping_parse(es).half[c] = IF HasEntry(es, c, "a") /\ c \notin M!Sticks
                                       THEN TheEntry(es, c, "a").half ELSE ""
      /\ c \in M!Sticks =>
           (M!mapping_parse(es).reverse[c] <=> HasEntry(es, c, "a") /\ TheEntry(es, c, "a").flag = "~")
  BY ParsedFields
<1>2. CASE HasEntry(es, c, "a")
  <2>1. TheEntry(es, c, "a") = M!Axis(c, n, half, flag)
    BY <1>2 DEF AxisSaid
  <2>2. M!Axis(c, n, half, flag).n = n /\ M!Axis(c, n, half, flag).half = half /\ M!Axis(c, n, half, flag).flag = flag
    BY DEF M!Axis
  <2>3. M!mapping_parse(es).abs[c] = n
    BY <1>1, <1>2, <2>1, <2>2
  <2>4. M!mapping_parse(es).half[c] = IF c \in M!Sticks THEN "" ELSE half
    BY <1>1, <1>2, <2>1, <2>2
  <2>5. c \in M!Sticks => (M!mapping_parse(es).reverse[c] <=> flag = "~")
    BY <1>1, <1>2, <2>1, <2>2
  <2> QED BY <2>3, <2>4, <2>5
<1>3. CASE ~HasEntry(es, c, "a")
  <2>1. n = -1 /\ half = "" /\ flag = ""
    BY <1>3 DEF AxisSaid
  <2> QED BY <1>1, <1>3, <2>1
<1> QED BY <1>2, <1>3

LEMMA ParsedPlain ==
  ASSUME NEW es, NEW c \in M!Axial, NEW n, AxisSaid(es, c, n, "", "")
  PROVE  /\ M!mapping_parse(es).abs[c] = n /\ M!mapping_parse(es).half[c] = ""
         /\ c \in M!Sticks => ~M!mapping_parse(es).reverse[c]
<1> DEFINE none == ""
<1>1. none # "~" /\ none = ""
  OBVIOUS
<1>2. AxisSaid(es, c, n, none, none)
  OBVIOUS
<1> HIDE DEF none
<1>3. M!mapping_parse(es).abs[c] = n
  BY <1>2, ParsedAxis
<1>4. M!mapping_parse(es).half[c] = IF c \in M!Sticks THEN "" ELSE none
  BY ONLY <1>2, c \in M!Axial, ParsedAxis
<1>5. ASSUME c \in M!Sticks
      PROVE  ~M!mapping_parse(es).reverse[c]
  <2>1. M!mapping_parse(es).reverse[c] <=> HasEntry(es, c, "a") /\ TheEntry(es, c, "a").flag = "~"
    BY <1>5, ParsedFields
  <2>2. M!Axis(c, n, none, none).flag = none
    BY DEF M!Axis
  <2>3. HasEntry(es, c, "a") => TheEntry(es, c, "a").flag = none
    BY <1>2, <2>2 DEF AxisSaid
  <2> QED BY <1>1, <2>1, <2>3
<1> QED BY <1>1, <1>3, <1>4, <1>5

LEMMA ParsedHat ==
  ASSUME NEW es, NEW c \in M!Dpad, NEW n, NEW dir, HatSaid(es, c, n, dir)
  PROVE  M!mapping_parse(es).hat[c] = n /\ M!mapping_parse(es).dir[c] = dir
<1>1. /\ M!mapping_parse(es).hat[c] = IF HasEntry(es, c, "h") THEN TheEntry(es, c, "h").n ELSE -1
      /\ M!mapping_parse(es).dir[c] = IF HasEntry(es, c, "h") THEN TheEntry(es, c, "h").dir ELSE M!AllBits
  BY ParsedFields DEF M!Nothing
<1>2. CASE HasEntry(es, c, "h")
  BY <1>1, <1>2 DEF HatSaid, M!Hat
<1>3. CASE ~HasEntry(es, c, "h")
  BY <1>1, <1>3 DEF HatSaid
<1> QED BY <1>2, <1>3

\* What is read is a mapping.
LEMMA ParsedIsMapping ==
  ASSUME NEW es,
         \A c \in M!Keyed : \E n \in Int : ButtonSaid(es, c, n),
         \A c \in M!Axial : \E n \in Int, half \in {"", "+", "-"}, flag \in {"", "~"} :
                              AxisSaid(es, c, n, half, flag),
         \A c \in M!Dpad : \E n \in Int, dir \in SUBSET M!AllBits : HatSaid(es, c, n, dir)
  PROVE  M!mapping_parse(es) \in Mappings
<1> DEFINE k == M!mapping_parse(es)
<1>1. \A c \in M!Keyed : k.btn[c] \in Int
  BY ParsedButton
<1>2. \A c \in M!Axial : k.abs[c] \in Int /\ k.half[c] \in {"", "+", "-"}
  <2> SUFFICES ASSUME NEW c \in M!Axial PROVE k.abs[c] \in Int /\ k.half[c] \in {"", "+", "-"}
    OBVIOUS
  <2>1. PICK n \in Int, half \in {"", "+", "-"}, flag \in {"", "~"} : AxisSaid(es, c, n, half, flag)
    OBVIOUS
  <2>2. k.abs[c] = n /\ k.half[c] = IF c \in M!Sticks THEN "" ELSE half
    BY <2>1, ParsedAxis
  <2> QED BY <2>2
<1>3. \A c \in M!Dpad : k.hat[c] \in Int /\ k.dir[c] \in SUBSET M!AllBits
  <2> SUFFICES ASSUME NEW c \in M!Dpad PROVE k.hat[c] \in Int /\ k.dir[c] \in SUBSET M!AllBits
    OBVIOUS
  <2>1. PICK n \in Int, dir \in SUBSET M!AllBits : HatSaid(es, c, n, dir)
    OBVIOUS
  <2>2. k.hat[c] = n /\ k.dir[c] = dir
    BY <2>1, ParsedHat
  <2> QED BY <2>2
<1>4. /\ k.btn = ReadButtons(es) /\ k.abs = ReadAxes(es) /\ k.hat = ReadHats(es) /\ k.dir = ReadDirs(es)
      /\ k.reverse = ReadReverse(es) /\ k.half = ReadHalves(es)
      /\ k = [btn |-> k.btn, abs |-> k.abs, hat |-> k.hat, dir |-> k.dir, reverse |-> k.reverse, half |-> k.half]
  BY ParsedRecord
<1> HIDE DEF k
<1>5. k.btn \in [M!Keyed -> Int]
  <2>1. \A c \in M!Keyed : ReadButtons(es)[c] \in Int
    BY <1>1, <1>4
  <2> QED BY <1>4, <2>1 DEF ReadButtons
<1>6. k.abs \in [M!Axial -> Int]
  <2>1. \A c \in M!Axial : ReadAxes(es)[c] \in Int
    BY <1>2, <1>4
  <2> QED BY <1>4, <2>1 DEF ReadAxes
<1>7. k.hat \in [M!Dpad -> Int]
  <2>1. \A c \in M!Dpad : ReadHats(es)[c] \in Int
    BY <1>3, <1>4
  <2> QED BY <1>4, <2>1 DEF ReadHats
<1>8. k.dir \in [M!Dpad -> SUBSET M!AllBits]
  <2>1. \A c \in M!Dpad : ReadDirs(es)[c] \in SUBSET M!AllBits
    BY <1>3, <1>4
  <2> QED BY <1>4, <2>1 DEF ReadDirs
<1>9. k.half \in [M!Axial -> {"", "+", "-"}]
  <2>1. \A c \in M!Axial : ReadHalves(es)[c] \in {"", "+", "-"}
    BY <1>2, <1>4
  <2> QED BY <1>4, <2>1 DEF ReadHalves
<1>10. k.reverse \in [M!Sticks -> BOOLEAN]
  BY <1>4 DEF ReadReverse
<1>11. k \in Mappings
  BY <1>4, <1>5, <1>6, <1>7, <1>8, <1>9, <1>10 DEF Mappings
<1> QED BY <1>11 DEF k

LEMMA PrintedEntries ==
  ASSUME NEW m
  PROVE  LET es == M!mapping_print(m) IN
         /\ \A c \in M!Keyed : m.btn[c] > -1 => M!Button(c, m.btn[c]) \in es
         /\ \A c \in M!Sticks \cup M!Triggers : m.abs[c] > -1 => M!Axis(c, m.abs[c], "", "") \in es
         /\ \A c \in M!Dpad : m.hat[c] > -1 => M!Hat(c, m.hat[c], m.dir[c]) \in es
         /\ \A e \in es :
              \/ \E c \in M!Keyed : m.btn[c] > -1 /\ e = M!Button(c, m.btn[c])
              \/ \E c \in M!Sticks \cup M!Triggers : m.abs[c] > -1 /\ e = M!Axis(c, m.abs[c], "", "")
              \/ \E c \in M!Dpad : m.hat[c] > -1 /\ e = M!Hat(c, m.hat[c], m.dir[c])
BY DEF M!mapping_print

\* An entry of a printed mapping, by its kind.
LEMMA PrintedKinds ==
  ASSUME NEW m, NEW e \in M!mapping_print(m)
  PROVE  /\ e.kind = "b" => e.key \in M!Keyed /\ m.btn[e.key] > -1 /\ e = M!Button(e.key, m.btn[e.key])
         /\ e.kind = "a" => /\ e.key \in M!Sticks \cup M!Triggers /\ m.abs[e.key] > -1
                            /\ e = M!Axis(e.key, m.abs[e.key], "", "")
         /\ e.kind = "h" => /\ e.key \in M!Dpad /\ m.hat[e.key] > -1
                            /\ e = M!Hat(e.key, m.hat[e.key], m.dir[e.key])
<1>1. CASE \E c \in M!Keyed : m.btn[c] > -1 /\ e = M!Button(c, m.btn[c])
  <2>1. PICK c \in M!Keyed : m.btn[c] > -1 /\ e = M!Button(c, m.btn[c])
    BY <1>1
  <2>2. e.key = c /\ e.kind = "b"
    BY <2>1 DEF M!Button
  <2> QED BY <2>1, <2>2
<1>2. CASE \E c \in M!Sticks \cup M!Triggers : m.abs[c] > -1 /\ e = M!Axis(c, m.abs[c], "", "")
  <2>1. PICK c \in M!Sticks \cup M!Triggers : m.abs[c] > -1 /\ e = M!Axis(c, m.abs[c], "", "")
    BY <1>2
  <2>2. e.key = c /\ e.kind = "a"
    BY <2>1 DEF M!Axis
  <2> QED BY <2>1, <2>2
<1>3. CASE \E c \in M!Dpad : m.hat[c] > -1 /\ e = M!Hat(c, m.hat[c], m.dir[c])
  <2>1. PICK c \in M!Dpad : m.hat[c] > -1 /\ e = M!Hat(c, m.hat[c], m.dir[c])
    BY <1>3
  <2>2. e.key = c /\ e.kind = "h"
    BY <2>1 DEF M!Hat
  <2> QED BY <2>1, <2>2
<1> QED BY <1>1, <1>2, <1>3, PrintedEntries

\* A name without an index is not written.
Kept(n) == IF n > -1 THEN n ELSE -1
KeptAxis(m, c) == IF c \notin M!Dpad /\ m.abs[c] > -1 THEN m.abs[c] ELSE -1
KeptDir(m, c) == IF m.hat[c] > -1 THEN m.dir[c] ELSE M!AllBits

LEMMA Printed ==
  ASSUME NEW m \in Mappings
  PROVE  LET k == M!mapping_parse(M!mapping_print(m)) IN
         /\ k \in Mappings
         /\ \A c \in M!Keyed : k.btn[c] = IF m.btn[c] > -1 THEN m.btn[c] ELSE -1
         /\ \A c \in M!Axial : /\ k.abs[c] = IF c \notin M!Dpad /\ m.abs[c] > -1 THEN m.abs[c] ELSE -1
                               /\ k.half[c] = ""
         /\ \A c \in M!Dpad : /\ k.hat[c] = IF m.hat[c] > -1 THEN m.hat[c] ELSE -1
                              /\ m.hat[c] > -1 => k.dir[c] = m.dir[c]
         /\ \A c \in M!Sticks : ~k.reverse[c]
<1> DEFINE es == M!mapping_print(m)
<1>0. /\ \A c \in M!Keyed : m.btn[c] \in Int
      /\ \A c \in M!Axial : m.abs[c] \in Int
      /\ \A c \in M!Dpad : m.hat[c] \in Int /\ m.dir[c] \in SUBSET M!AllBits
  BY DEF Mappings
<1>1. /\ \A c \in M!Keyed : m.btn[c] > -1 => M!Button(c, m.btn[c]) \in es
      /\ \A c \in M!Sticks \cup M!Triggers : m.abs[c] > -1 => M!Axis(c, m.abs[c], "", "") \in es
      /\ \A c \in M!Dpad : m.hat[c] > -1 => M!Hat(c, m.hat[c], m.dir[c]) \in es
  BY PrintedEntries
<1>2. \A e \in es :
        /\ e.kind = "b" => e.key \in M!Keyed /\ m.btn[e.key] > -1 /\ e = M!Button(e.key, m.btn[e.key])
        /\ e.kind = "a" => /\ e.key \in M!Sticks \cup M!Triggers /\ m.abs[e.key] > -1
                           /\ e = M!Axis(e.key, m.abs[e.key], "", "")
        /\ e.kind = "h" => /\ e.key \in M!Dpad /\ m.hat[e.key] > -1
                           /\ e = M!Hat(e.key, m.hat[e.key], m.dir[e.key])
  BY PrintedKinds
<1> HIDE DEF es
<1>3. \A c \in M!Keyed : ButtonSaid(es, c, Kept(m.btn[c]))
  <2> SUFFICES ASSUME NEW c \in M!Keyed
               PROVE  ButtonSaid(es, c, Kept(m.btn[c]))
    OBVIOUS
  <2>1. CASE m.btn[c] > -1
    <3> DEFINE e == M!Button(c, m.btn[c])
    <3>1. e \in es /\ e.key = c /\ e.kind = "b"
      <4>1. e \in es
        BY <1>1, <2>1
      <4> QED BY <4>1 DEF M!Button
    <3>2. \A d \in es : d.key = c /\ d.kind = "b" => d = e
      BY <1>2
    <3>4. e.n = m.btn[c]
      BY DEF M!Button
    <3> HIDE DEF e
    <3>3. HasEntry(es, c, "b") /\ TheEntry(es, c, "b") = e
      BY <3>1, <3>2, OneEntry
    <3> QED BY <2>1, <3>4, <3>3 DEF ButtonSaid, Kept
  <2>2. CASE ~(m.btn[c] > -1)
    <3>1. ~HasEntry(es, c, "b")
      BY <1>2, <2>2 DEF HasEntry
    <3> QED BY <2>2, <3>1 DEF ButtonSaid, Kept
  <2> QED BY <2>1, <2>2
<1>4. \A c \in M!Axial : AxisSaid(es, c, KeptAxis(m, c), "", "")
  <2> SUFFICES ASSUME NEW c \in M!Axial
               PROVE  AxisSaid(es, c, KeptAxis(m, c), "", "")
    OBVIOUS
  <2>0. (c \in M!Sticks \cup M!Triggers <=> c \notin M!Dpad) /\ M!Dpad \cap (M!Sticks \cup M!Triggers) = {}
    BY NamesDiffer
  <2>1. CASE c \notin M!Dpad /\ m.abs[c] > -1
    <3> DEFINE e == M!Axis(c, m.abs[c], "", "")
    <3>0. c \in M!Sticks \cup M!Triggers /\ m.abs[c] > -1
      BY <2>0, <2>1
    <3>1. e \in es /\ e.key = c /\ e.kind = "a"
      <4>1. e \in es
        BY <1>1, <3>0
      <4> QED BY <4>1 DEF M!Axis
    <3>2. \A d \in es : d.key = c /\ d.kind = "a" => d = e
      BY <1>2
    <3>3. HasEntry(es, c, "a") /\ TheEntry(es, c, "a") = e
      <4> HIDE DEF e
      <4> QED BY <3>1, <3>2, OneEntry
    <3> QED BY <2>1, <3>3 DEF AxisSaid, KeptAxis
  <2>2. CASE ~(c \notin M!Dpad /\ m.abs[c] > -1)
    <3>1. ~HasEntry(es, c, "a")
      BY <1>2, <2>0, <2>2 DEF HasEntry
    <3> QED BY <2>2, <3>1 DEF AxisSaid, KeptAxis
  <2> QED BY <2>1, <2>2
<1>5. \A c \in M!Dpad : HatSaid(es, c, Kept(m.hat[c]), KeptDir(m, c))
  <2> SUFFICES ASSUME NEW c \in M!Dpad
               PROVE  HatSaid(es, c, Kept(m.hat[c]), KeptDir(m, c))
    OBVIOUS
  <2>1. CASE m.hat[c] > -1
    <3> DEFINE e == M!Hat(c, m.hat[c], m.dir[c])
    <3>1. e \in es /\ e.key = c /\ e.kind = "h"
      <4>1. e \in es
        BY <1>1, <2>1
      <4> QED BY <4>1 DEF M!Hat
    <3>2. \A d \in es : d.key = c /\ d.kind = "h" => d = e
      BY <1>2
    <3>3. HasEntry(es, c, "h") /\ TheEntry(es, c, "h") = e
      <4> HIDE DEF e
      <4> QED BY <3>1, <3>2, OneEntry
    <3> QED BY <2>1, <3>3 DEF HatSaid, Kept, KeptDir
  <2>2. CASE ~(m.hat[c] > -1)
    <3>1. ~HasEntry(es, c, "h")
      BY <1>2, <2>2 DEF HasEntry
    <3> QED BY <2>2, <3>1 DEF HatSaid, Kept, KeptDir
  <2> QED BY <2>1, <2>2
<1>6. M!mapping_parse(es) \in Mappings
  <2>1. \A c \in M!Keyed : \E n \in Int : ButtonSaid(es, c, n)
    <3> SUFFICES ASSUME NEW c \in M!Keyed PROVE \E n \in Int : ButtonSaid(es, c, n)
      OBVIOUS
    <3>1. Kept(m.btn[c]) \in Int
      BY <1>0 DEF Kept
    <3> QED BY <1>3, <3>1
  <2>2. \A c \in M!Axial : \E n \in Int, half \in {"", "+", "-"}, flag \in {"", "~"} : AxisSaid(es, c, n, half, flag)
    <3> SUFFICES ASSUME NEW c \in M!Axial
                 PROVE \E n \in Int, half \in {"", "+", "-"}, flag \in {"", "~"} : AxisSaid(es, c, n, half, flag)
      OBVIOUS
    <3>1. KeptAxis(m, c) \in Int
      BY <1>0 DEF KeptAxis
    <3> QED BY <1>4, <3>1
  <2>3. \A c \in M!Dpad : \E n \in Int, dir \in SUBSET M!AllBits : HatSaid(es, c, n, dir)
    <3> SUFFICES ASSUME NEW c \in M!Dpad PROVE \E n \in Int, dir \in SUBSET M!AllBits : HatSaid(es, c, n, dir)
      OBVIOUS
    <3>1. Kept(m.hat[c]) \in Int /\ KeptDir(m, c) \in SUBSET M!AllBits
      BY <1>0 DEF Kept, KeptDir
    <3> QED BY <1>5, <3>1
  <2> QED BY <2>1, <2>2, <2>3, ParsedIsMapping
<1>7. \A c \in M!Keyed : M!mapping_parse(es).btn[c] = Kept(m.btn[c])
  BY <1>3, ParsedButton
<1>8. \A c \in M!Axial :
        /\ M!mapping_parse(es).abs[c] = KeptAxis(m, c) /\ M!mapping_parse(es).half[c] = ""
        /\ c \in M!Sticks => ~M!mapping_parse(es).reverse[c]
  <2> SUFFICES ASSUME NEW c \in M!Axial
               PROVE  /\ M!mapping_parse(es).abs[c] = KeptAxis(m, c) /\ M!mapping_parse(es).half[c] = ""
                      /\ c \in M!Sticks => ~M!mapping_parse(es).reverse[c]
    OBVIOUS
  <2>1. AxisSaid(es, c, KeptAxis(m, c), "", "")
    BY <1>4
  <2> QED BY <2>1, ParsedPlain
<1>9. \A c \in M!Dpad : /\ M!mapping_parse(es).hat[c] = Kept(m.hat[c])
                        /\ M!mapping_parse(es).dir[c] = KeptDir(m, c)
  BY <1>5, ParsedHat
<1>10. M!Sticks \subseteq M!Axial
  BY NamesDiffer
<1>11. \A c \in M!Keyed : M!mapping_parse(es).btn[c] = IF m.btn[c] > -1 THEN m.btn[c] ELSE -1
  BY <1>7 DEF Kept
<1>12. \A c \in M!Axial : M!mapping_parse(es).abs[c] = IF c \notin M!Dpad /\ m.abs[c] > -1 THEN m.abs[c] ELSE -1
  BY <1>8 DEF KeptAxis
<1>13. \A c \in M!Dpad : /\ M!mapping_parse(es).hat[c] = IF m.hat[c] > -1 THEN m.hat[c] ELSE -1
                         /\ m.hat[c] > -1 => M!mapping_parse(es).dir[c] = m.dir[c]
  BY <1>9 DEF Kept, KeptDir
<1> QED BY <1>6, <1>8, <1>10, <1>11, <1>12, <1>13 DEF es

\* What an axis of a file says beyond its number.
HalfOf(c) == IF c \in M!Dpad THEN IF Sign(c) = 1 THEN "+" ELSE "-" ELSE ""
FlagOf(c) == IF c \in M!Sticks /\ Sign(c) # M!Natural(c) THEN "~" ELSE ""

LEMMA EntryKinds ==
  ASSUME pad \in Pads, NEW c \in M!Controls
  PROVE  /\ OnKey(c) => M!Entry(pad, c) = M!Button(c, M!KeyIndex(Code(c)))
         /\ OnHat(c) => M!Entry(pad, c) = M!Hat(c, M!HatNumber(Code(c)), {M!Direction(Code(c), Sign(c))})
         /\ OnAxis(c) => M!Entry(pad, c) = M!Axis(c, M!AxisIndex(Code(c)), HalfOf(c), FlagOf(c))
<1>1. CASE OnKey(c)
  <2>1. M!Entry(pad, c) = M!Button(c, M!KeyIndex(Code(c)))
    BY <1>1 DEF M!Entry, OnKey, Code, M!KeyIndex
  <2> QED BY <1>1, <2>1, KindsDiffer
<1>2. CASE OnHat(c)
  <2>1. M!Entry(pad, c) = M!Hat(c, M!HatNumber(Code(c)), {M!Direction(Code(c), Sign(c))})
    BY <1>2 DEF M!Entry, OnHat, Code, Sign
  <2> QED BY <1>2, <2>1, KindsDiffer
<1>3. CASE OnAxis(c)
  <2>0. ~OnKey(c) /\ ~OnHat(c)
    BY <1>3, KindsDiffer
  <2>1. CASE c \in M!Dpad
    <3>1. FlagOf(c) = "" /\ HalfOf(c) = IF Sign(c) = 1 THEN "+" ELSE "-"
      BY <2>1, NamesDiffer DEF FlagOf, HalfOf
    <3>2. M!Entry(pad, c) = M!Axis(c, M!AxisIndex(Code(c)), IF Sign(c) = 1 THEN "+" ELSE "-", "")
      BY <1>3, <2>1 DEF M!Entry, OnAxis, Code, Sign, M!AxisIndex
    <3>3. Sign(c) = 1 \/ Sign(c) # 1
      OBVIOUS
    <3> QED BY <2>0, <3>1, <3>2
  <2>2. CASE c \notin M!Dpad
    <3>1. HalfOf(c) = ""
      BY <2>2 DEF HalfOf
    <3>2. M!Entry(pad, c) = M!Axis(c, M!AxisIndex(Code(c)), "", FlagOf(c))
      <4>1. CASE c \in M!Sticks /\ Sign(c) # M!Natural(c)
        BY <1>3, <2>2, <4>1 DEF M!Entry, OnAxis, Code, Sign, M!AxisIndex, FlagOf
      <4>2. CASE ~(c \in M!Sticks /\ Sign(c) # M!Natural(c))
        BY <1>3, <2>2, <4>2 DEF M!Entry, OnAxis, Code, Sign, M!AxisIndex, FlagOf
      <4> QED BY <4>1, <4>2
    <3> QED BY <2>0, <3>1, <3>2
  <2> QED BY <2>1, <2>2
<1> QED BY <1>1, <1>2, <1>3, PadFacts

LEMMA FileParsed ==
  ASSUME pad \in Pads, NEW f \in pad.files
  PROVE  LET k == M!mapping_parse(f) IN
         /\ k \in Mappings
         /\ \A c \in M!Keyed : k.btn[c] = IF OnKey(c) THEN M!KeyIndex(Code(c)) ELSE -1
         /\ \A c \in M!Axial : k.abs[c] = IF OnAxis(c) THEN M!AxisIndex(Code(c)) ELSE -1
         /\ \A c \in M!Axial : k.half[c] = IF OnAxis(c) THEN HalfOf(c) ELSE ""
         /\ \A c \in M!Dpad : /\ k.hat[c] = IF OnHat(c) THEN M!HatNumber(Code(c)) ELSE -1
                              /\ OnHat(c) => k.dir[c] = {M!Direction(Code(c), Sign(c))}
         /\ \A c \in M!Sticks : OnAxis(c) => (k.reverse[c] <=> Sign(c) # M!Natural(c))
<1>1. f = {M!Entry(pad, c) : c \in M!Controls}
  BY ParmsFacts
<1>2. \A c \in M!Controls : M!Entry(pad, c) \in f
  BY <1>1
<1>3. \A e \in f : \E c \in M!Controls : e = M!Entry(pad, c)
  BY <1>1
<1>4. ASSUME NEW c \in M!Controls
      PROVE  /\ M!Entry(pad, c).key = c
             /\ OnKey(c) <=> M!Entry(pad, c).kind = "b"
             /\ OnHat(c) <=> M!Entry(pad, c).kind = "h"
             /\ OnAxis(c) <=> M!Entry(pad, c).kind = "a"
  <2>1. CASE OnKey(c)
    <3>0. M!Entry(pad, c) = M!Button(c, M!KeyIndex(Code(c)))
      BY <2>1, EntryKinds
    <3>1. M!Entry(pad, c).key = c /\ M!Entry(pad, c).kind = "b"
      BY <3>0 DEF M!Button
    <3> QED BY <2>1, <3>1, KindsDiffer
  <2>2. CASE OnHat(c)
    <3>1. M!Entry(pad, c).key = c /\ M!Entry(pad, c).kind = "h"
      BY <2>2, EntryKinds DEF M!Hat
    <3> QED BY <2>2, <3>1, KindsDiffer
  <2>3. CASE OnAxis(c)
    <3>0. M!Entry(pad, c) = M!Axis(c, M!AxisIndex(Code(c)), HalfOf(c), FlagOf(c))
      BY <2>3, EntryKinds
    <3>1. M!Entry(pad, c).key = c /\ M!Entry(pad, c).kind = "a"
      BY <3>0 DEF M!Axis
    <3> QED BY <2>3, <3>1, KindsDiffer
  <2> QED BY <2>1, <2>2, <2>3, PadFacts
<1>5. ASSUME NEW c \in M!Controls
      PROVE  LET e == M!Entry(pad, c) IN HasEntry(f, c, e.kind) /\ TheEntry(f, c, e.kind) = e
  <2> DEFINE e == M!Entry(pad, c)
  <2>1. e \in f /\ e.key = c
    BY <1>2, <1>4
  <2>2. \A d \in f : d.key = c => d = e
    BY <1>3, <1>4
  <2> HIDE DEF e
  <2>3. HasEntry(f, e.key, e.kind) /\ TheEntry(f, e.key, e.kind) = e
    BY <2>1, <2>2, OneEntry
  <2>4. HasEntry(f, c, e.kind) /\ TheEntry(f, c, e.kind) = e
    BY <2>1, <2>3
  <2> QED BY <2>4 DEF e
<1>6. \A c : /\ HasEntry(f, c, "b") => OnKey(c)
             /\ HasEntry(f, c, "h") => OnHat(c)
             /\ HasEntry(f, c, "a") => OnAxis(c)
  BY <1>3, <1>4 DEF HasEntry
<1>7. /\ \A c : OnKey(c) => c \in M!Controls
      /\ \A c : OnHat(c) => c \in M!Controls
      /\ \A c : OnAxis(c) => c \in M!Controls
  BY DEF OnKey, OnHat, OnAxis
<1>8. ASSUME NEW c \in M!Keyed
      PROVE  ButtonSaid(f, c, IF OnKey(c) THEN M!KeyIndex(Code(c)) ELSE -1)
  <2>1. CASE OnKey(c)
    <3>1. HasEntry(f, c, "b") /\ TheEntry(f, c, "b") = M!Button(c, M!KeyIndex(Code(c)))
      BY <1>4, <1>5, <1>7, <2>1, EntryKinds
    <3>2. M!Button(c, M!KeyIndex(Code(c))).n = M!KeyIndex(Code(c))
      BY DEF M!Button
    <3>3. ButtonSaid(f, c, M!KeyIndex(Code(c)))
      BY <3>1, <3>2 DEF ButtonSaid
    <3> QED BY <2>1, <3>3
  <2>2. CASE ~OnKey(c)
    <3>1. ButtonSaid(f, c, -1)
      BY <1>6, <2>2 DEF ButtonSaid
    <3> QED BY <2>2, <3>1
  <2> QED BY <2>1, <2>2
<1>9. ASSUME NEW c \in M!Axial, OnAxis(c)
      PROVE  AxisSaid(f, c, M!AxisIndex(Code(c)), HalfOf(c), FlagOf(c))
  <2>1. HasEntry(f, c, "a") /\ TheEntry(f, c, "a") = M!Axis(c, M!AxisIndex(Code(c)), HalfOf(c), FlagOf(c))
    BY <1>4, <1>5, <1>7, <1>9, EntryKinds
  <2> QED BY <2>1 DEF AxisSaid
<1>10. ASSUME NEW c \in M!Axial, ~OnAxis(c)
       PROVE  AxisSaid(f, c, -1, "", "")
  BY <1>6, <1>10 DEF AxisSaid
<1>11. ASSUME NEW c \in M!Dpad, OnHat(c)
       PROVE  HatSaid(f, c, M!HatNumber(Code(c)), {M!Direction(Code(c), Sign(c))})
  <2>1. HasEntry(f, c, "h") /\ TheEntry(f, c, "h") = M!Hat(c, M!HatNumber(Code(c)), {M!Direction(Code(c), Sign(c))})
    BY <1>4, <1>5, <1>7, <1>11, EntryKinds
  <2> QED BY <2>1 DEF HatSaid
<1>12. ASSUME NEW c \in M!Dpad, ~OnHat(c)
       PROVE  HatSaid(f, c, -1, M!AllBits)
  BY <1>6, <1>12 DEF HatSaid
<1>13. \A c \in M!Keyed : M!mapping_parse(f).btn[c] = IF OnKey(c) THEN M!KeyIndex(Code(c)) ELSE -1
  BY <1>8, ParsedButton
<1>14. ASSUME NEW c \in M!Axial, OnAxis(c)
       PROVE  /\ M!mapping_parse(f).abs[c] = M!AxisIndex(Code(c))
              /\ M!mapping_parse(f).half[c] = HalfOf(c)
              /\ c \in M!Sticks => (M!mapping_parse(f).reverse[c] <=> Sign(c) # M!Natural(c))
  <2>1. /\ M!mapping_parse(f).abs[c] = M!AxisIndex(Code(c))
        /\ M!mapping_parse(f).half[c] = IF c \in M!Sticks THEN "" ELSE HalfOf(c)
    BY <1>9, <1>14, ParsedAxis
  <2>2. c \in M!Sticks => HalfOf(c) = ""
    BY NamesDiffer DEF HalfOf
  <2>3. ASSUME c \in M!Sticks
        PROVE  M!mapping_parse(f).reverse[c] <=> Sign(c) # M!Natural(c)
    <3>1. M!mapping_parse(f).reverse[c] <=> HasEntry(f, c, "a") /\ TheEntry(f, c, "a").flag = "~"
      BY <2>3, ParsedFields
    <3>2. HasEntry(f, c, "a") /\ TheEntry(f, c, "a") = M!Axis(c, M!AxisIndex(Code(c)), HalfOf(c), FlagOf(c))
      BY <1>4, <1>5, <1>7, <1>14, EntryKinds
    <3>3. M!Axis(c, M!AxisIndex(Code(c)), HalfOf(c), FlagOf(c)).flag = FlagOf(c)
      BY DEF M!Axis
    <3>4. M!mapping_parse(f).reverse[c] <=> FlagOf(c) = "~"
      BY <3>1, <3>2, <3>3
    <3>5. CASE Sign(c) # M!Natural(c)
      <4>1. FlagOf(c) = "~"
        BY <2>3, <3>5 DEF FlagOf
      <4> QED BY <3>4, <3>5, <4>1
    <3>6. CASE Sign(c) = M!Natural(c)
      <4>1. FlagOf(c) # "~"
        BY <2>3, <3>6 DEF FlagOf
      <4> QED BY <3>4, <3>6, <4>1
    <3> QED BY <3>5, <3>6
  <2> QED BY <2>1, <2>2, <2>3
<1>15. ASSUME NEW c \in M!Axial, ~OnAxis(c)
       PROVE  M!mapping_parse(f).abs[c] = -1 /\ M!mapping_parse(f).half[c] = ""
  BY <1>10, <1>15, ParsedPlain
<1>16. ASSUME NEW c \in M!Dpad, OnHat(c)
       PROVE  M!mapping_parse(f).hat[c] = M!HatNumber(Code(c)) /\ M!mapping_parse(f).dir[c] = {M!Direction(Code(c), Sign(c))}
  BY <1>11, <1>16, ParsedHat
<1>17. ASSUME NEW c \in M!Dpad, ~OnHat(c)
       PROVE  M!mapping_parse(f).hat[c] = -1
  BY <1>12, <1>17, ParsedHat
<1>18. M!mapping_parse(f) \in Mappings
  <2>1. \A c \in M!Keyed : \E n \in Int : ButtonSaid(f, c, n)
    <3>1. \A c \in M!Keyed : (IF OnKey(c) THEN M!KeyIndex(Code(c)) ELSE -1) \in Int
      BY PadFacts
    <3> QED BY <1>8, <3>1
  <2>2. ASSUME NEW c \in M!Axial
        PROVE  \E n \in Int, half \in {"", "+", "-"}, flag \in {"", "~"} : AxisSaid(f, c, n, half, flag)
    <3>1. HalfOf(c) \in {"", "+", "-"} /\ FlagOf(c) \in {"", "~"}
      BY DEF HalfOf, FlagOf
    <3>2. CASE OnAxis(c)
      <4>1. M!AxisIndex(Code(c)) \in Int
        BY <3>2, PadFacts
      <4> QED BY <1>9, <3>1, <3>2, <4>1
    <3>3. CASE ~OnAxis(c)
      <4>1. AxisSaid(f, c, -1, "", "")
        BY <1>6, <3>3 DEF AxisSaid
      <4>2. -1 \in Int
        OBVIOUS
      <4> QED BY <4>1, <4>2
    <3> QED BY <3>2, <3>3
  <2>3. ASSUME NEW c \in M!Dpad
        PROVE  \E n \in Int, dir \in SUBSET M!AllBits : HatSaid(f, c, n, dir)
    <3>1. CASE OnHat(c)
      <4>1. M!HatNumber(Code(c)) \in Int
        BY <3>1, PadFacts DEF M!HatNumber, HatCodes
      <4>2. {M!Direction(Code(c), Sign(c))} \in SUBSET M!AllBits
        BY DEF M!Direction, M!AllBits
      <4> QED BY <1>11, <3>1, <4>1, <4>2
    <3>2. CASE ~OnHat(c)
      <4>1. HatSaid(f, c, -1, M!AllBits) /\ -1 \in Int
        BY <1>12, <3>2
      <4> QED BY <4>1
    <3> QED BY <3>1, <3>2
  <2> QED BY <2>1, <2>2, <2>3, ParsedIsMapping
<1>19. \A c \in M!Axial : M!mapping_parse(f).abs[c] = IF OnAxis(c) THEN M!AxisIndex(Code(c)) ELSE -1
  BY <1>14, <1>15
<1>20. \A c \in M!Axial : M!mapping_parse(f).half[c] = IF OnAxis(c) THEN HalfOf(c) ELSE ""
  BY <1>14, <1>15
<1>21. \A c \in M!Dpad : /\ M!mapping_parse(f).hat[c] = IF OnHat(c) THEN M!HatNumber(Code(c)) ELSE -1
                         /\ OnHat(c) => M!mapping_parse(f).dir[c] = {M!Direction(Code(c), Sign(c))}
  BY <1>16, <1>17
<1>22. \A c \in M!Sticks : OnAxis(c) => (M!mapping_parse(f).reverse[c] <=> Sign(c) # M!Natural(c))
  BY <1>14, NamesDiffer
<1> QED BY <1>13, <1>18, <1>19, <1>20, <1>21, <1>22

-----------------------------------------------------------------------------
(* While the gamepad and the source of its mapping stay, what is said of    *)
(* them does; what changes is named in MappingStays.                       *)

LEMMA PadStays ==
  ASSUME pad' = pad
  PROVE  /\ M!Controls' = M!Controls
         /\ \A c : OnKey(c)' <=> OnKey(c)
         /\ \A c : OnHat(c)' <=> OnHat(c)
         /\ \A c : OnAxis(c)' <=> OnAxis(c)
         /\ \A c : Code(c)' = Code(c)
         /\ \A c : Sign(c)' = Sign(c)
         /\ \A c : M!Positions(c)' = M!Positions(c)
         /\ \A n : M!KeyIndex(n)' = M!KeyIndex(n)
         /\ \A n : M!AxisIndex(n)' = M!AxisIndex(n)
BY DEF OnKey, OnHat, OnAxis, Code, Sign, M!Controls, M!KeyIndex, M!AxisIndex, M!Positions

LEMMA StepStays ==
  ASSUME pad' = pad
  PROVE  /\ \A m, c : Fits(m, c)' <=> Fits(m, c)
         /\ \A m, c : Done(m, c)' <=> Done(m, c)
         /\ \A c : Lingers(c)' <=> Lingers(c)
<1>1. \A c : AfterHat(c)' <=> AfterHat(c)
  BY PadStays DEF AfterHat
<1>2. \A c, n : AfterPedal(c, n)' <=> AfterPedal(c, n)
  BY PadStays DEF AfterPedal
<1>3. \A m, c : Fits(m, c)' <=> Fits(m, c)
  BY <1>1, <1>2, PadStays DEF Fits
<1>4. \A m, c : Done(m, c)' <=> Done(m, c)
  BY <1>1, PadStays DEF Done
<1>5. \A c : Lingers(c)' <=> Lingers(c)
  BY PadStays DEF Lingers
<1> QED BY <1>3, <1>4, <1>5

LEMMA DialogueStays ==
  ASSUME pad' = pad
  PROVE  \A n, ph, m, at, ht : Dialogue(n, ph, m, at, ht)' <=> Dialogue(n, ph, m, at, ht)
<1>1. \A n, ph, m, at : Held(n, ph, m, at)' <=> Held(n, ph, m, at)
  BY PadStays, StepStays DEF Held
<1> QED BY <1>1, PadStays, StepStays DEF Dialogue

LEMMA PlayedStays ==
  ASSUME pad' = pad, source' = source
  PROVE  \A m, at, ht, dv : Played(m, at, ht, dv)' <=> Played(m, at, ht, dv)
<1>1. M!WizardLoses' = M!WizardLoses
  BY DEF M!WizardLoses, M!Controls, M!KeyIndex
<1>2. \A m : Lost(m)' = Lost(m)
  BY <1>1, PadStays DEF Lost
<1>3. \A m : Loaded(m)' <=> Loaded(m)
  <2>1. \A m : ButtonsLoaded(m)' <=> ButtonsLoaded(m)
    BY <1>2, PadStays DEF ButtonsLoaded
  <2>2. \A m : AxesLoaded(m)' <=> AxesLoaded(m)
    BY <1>2, PadStays DEF AxesLoaded
  <2>3. \A m : ControlsLoaded(m)' <=> ControlsLoaded(m)
    BY <1>2, PadStays DEF ControlsLoaded
  <2>4. \A m : HatsLoaded(m)' <=> HatsLoaded(m)
    BY <1>2, PadStays DEF HatsLoaded
  <2>5. \A m : TriggersLoaded(m)' <=> TriggersLoaded(m)
    BY <1>2, PadStays DEF TriggersLoaded
  <2> QED BY <2>1, <2>2, <2>3, <2>4, <2>5 DEF Loaded
<1>4. \A c, p, dv : Heard(c, p, dv)' <=> Heard(c, p, dv)
  BY DEF Heard
<1> QED BY <1>2, <1>3, <1>4, PadStays DEF Played

LEMMA MappingStays ==
  ASSUME MappingInv, pad' = pad, source' = source,
         Going(step', mapPhase', map', pos', hats', dev')
  PROVE  MappingInv'
<1>1. \A n, ph, m, at, ht, dv : Going(n, ph, m, at, ht, dv)' <=> Going(n, ph, m, at, ht, dv)
  BY PadStays, DialogueStays, PlayedStays DEF Going
<1> QED BY <1>1 DEF MappingInv

-----------------------------------------------------------------------------
(* The dialogue starts, ends or goes on.                                   *)

LEMMA FitsSame ==
  ASSUME NEW m, NEW k, NEW c, Fits(m, c),
         c \in M!Keyed => k.btn[c] = m.btn[c],
         c \in M!Axial => k.abs[c] = m.abs[c],
         c \in M!Dpad => k.hat[c] = m.hat[c]
  PROVE  Fits(k, c)
<1>1. M!Dpad \subseteq M!Axial /\ M!Sticks \cup M!Triggers \subseteq M!Axial
  BY NamesDiffer
<1>2. c \in M!Keyed => \/ k.btn[c] = -1
                       \/ OnKey(c) /\ k.btn[c] = M!KeyIndex(Code(c))
                       \/ c \in M!NeverAsked /\ k.btn[c] = 0
  BY DEF Fits
<1>3. c \in M!Dpad => k.abs[c] = -1 /\ (k.hat[c] # -1 => OnHat(c) \/ AfterHat(c))
  BY <1>1 DEF Fits
<1>4. c \in M!Sticks \cup M!Triggers => \/ k.abs[c] \in {-1, -2}
                                        \/ OnAxis(c) /\ k.abs[c] = M!AxisIndex(Code(c))
                                        \/ AfterPedal(c, k.abs[c])
  BY <1>1 DEF Fits
<1> QED BY <1>2, <1>3, <1>4 DEF Fits

LEMMA DoneSame ==
  ASSUME pad \in Pads, NEW m, NEW k, NEW c, Done(m, c),
         c \in M!Keyed => k.btn[c] = m.btn[c],
         c \in M!Axial => k.abs[c] = m.abs[c],
         c \in M!Dpad => k.hat[c] = m.hat[c] /\ k.dir[c] = m.dir[c]
  PROVE  Done(k, c)
<1>1. (OnKey(c) => c \in M!Keyed) /\ (OnHat(c) => c \in M!Dpad) /\ (OnAxis(c) => c \in M!Axial)
  BY PadFacts
<1> QED BY <1>1 DEF Done

LEMMA ZeroedFacts ==
  /\ M!Zeroed \in Mappings
  /\ \A c \in M!Keyed : M!Zeroed.btn[c] = IF c \in M!NeverAsked THEN 0 ELSE -1
  /\ \A c \in M!Axial : M!Zeroed.abs[c] = -1
  /\ \A c \in M!Dpad : M!Zeroed.hat[c] = -1
<1> DEFINE b == [c \in M!Keyed |-> IF c \in M!NeverAsked THEN 0 ELSE -1]
           a == [c \in M!Axial |-> -1]
           h == [c \in M!Dpad |-> -1]
           d == [c \in M!Dpad |-> M!AllBits]
           r == [c \in M!Sticks |-> FALSE]
           f == [c \in M!Axial |-> ""]
           z == [c \in M!Keyed |-> -1]
           none == [btn |-> z, abs |-> a, hat |-> h, dir |-> d, reverse |-> r, half |-> f]
<1>1. M!Zeroed = [btn |-> b, abs |-> a, hat |-> h, dir |-> d, reverse |-> r, half |-> f]
  <2>1. M!Nothing = none
    BY DEF M!Nothing
  <2>2. M!Zeroed = [M!Nothing EXCEPT !.btn = b]
    BY DEF M!Zeroed
  <2> HIDE DEF b, a, h, d, r, f, z
  <2> QED BY <2>1, <2>2
<1>2. /\ b \in [M!Keyed -> Int] /\ a \in [M!Axial -> Int] /\ h \in [M!Dpad -> Int]
      /\ d \in [M!Dpad -> SUBSET M!AllBits] /\ r \in [M!Sticks -> BOOLEAN]
      /\ f \in [M!Axial -> {"", "+", "-"}]
  OBVIOUS
<1>3. /\ \A c \in M!Keyed : b[c] = IF c \in M!NeverAsked THEN 0 ELSE -1
      /\ \A c \in M!Axial : a[c] = -1
      /\ \A c \in M!Dpad : h[c] = -1
  OBVIOUS
<1> HIDE DEF b, a, h, d, r, f
<1>4. M!Zeroed \in Mappings
  BY <1>1, <1>2 DEF Mappings
<1> QED BY <1>1, <1>3, <1>4

\* The next step clears what it asks for.
LEMMA BeginStepFits ==
  ASSUME pad \in Pads, NEW m \in Mappings, NEW n \in DOMAIN Steps,
         \A c \in Names : Fits(m, c)
  PROVE  /\ M!BeginStep(m, n) \in Mappings
         /\ \A c \in Names : Fits(M!BeginStep(m, n), c)
         /\ M!Asked(n) \in M!Axial => M!BeginStep(m, n).abs[M!Asked(n)] = -1
         /\ \A c : c # M!Asked(n) /\ Done(m, c) => Done(M!BeginStep(m, n), c)
<1> DEFINE k == M!BeginStep(m, n)
           q == M!Asked(n)
<1>1. /\ k \in Mappings
      /\ \A x \in M!Keyed : k.btn[x] = IF x = q THEN -1 ELSE m.btn[x]
      /\ \A x \in M!Axial : k.abs[x] = IF x = q /\ x \notin M!Dpad THEN -1 ELSE m.abs[x]
      /\ \A x \in M!Dpad : /\ k.hat[x] = IF x = q THEN -1 ELSE m.hat[x]
                           /\ x # q => k.dir[x] = m.dir[x]
  BY BeginStepChanges
<1>2. q \in Names
  BY StepsFacts
<1> HIDE DEF k, q
<1>3. \A c \in M!Dpad : m.abs[c] = -1
  BY NamesDiffer DEF Fits, Names
<1>4. q \in M!Axial => k.abs[q] = -1
  BY <1>1, <1>3
<1>5. ASSUME NEW c \in Names
      PROVE  Fits(k, c)
  <2>1. CASE c # q
    BY <1>1, <1>5, <2>1, FitsSame
  <2>2. CASE c = q
    <3>1. c \in M!Keyed => k.btn[c] = -1
      BY <1>1, <2>2
    <3>2. c \in M!Axial => k.abs[c] = -1
      BY <1>4, <2>2
    <3>3. c \in M!Dpad => k.hat[c] = -1
      BY <1>1, <2>2
    <3> QED BY <3>1, <3>2, <3>3, NamesDiffer DEF Fits
  <2> QED BY <2>1, <2>2
<1>6. ASSUME NEW c, c # q, Done(m, c)
      PROVE  Done(k, c)
  BY <1>1, <1>6, DoneSame
<1>7. k \in Mappings
  BY <1>1
<1> QED BY <1>4, <1>5, <1>6, <1>7 DEF k, q

LEMMA AtRest ==
  ASSUME pad \in Pads, NEW at, at = [c \in M!Controls |-> "rest"]
  PROVE  /\ at \in [M!Controls -> {"rest", "half", "full", "back"}]
         /\ \A c \in M!Controls : at[c] = "rest" /\ at[c] \in M!Positions(c)
<1>1. \A c \in M!Controls : "rest" \in M!Positions(c)
  BY DEF M!Positions
<1> QED BY <1>1

LEMMA CentredFacts ==
  /\ M!CentredHats \in [HatCodes -> {-1, 0, 1}]
  /\ \A n \in HatCodes : M!CentredHats[n] = 0
BY DEF M!CentredHats, HatCodes

LEMMA RestFacts ==
  /\ M!Rest \in DeviceStates
  /\ M!Rest.flags = {}
  /\ \A c \in M!Triggers : M!Rest.trigger[c] = 0
  /\ \A c \in M!Sticks : M!Rest.stick[c] = 0
<1> DEFINE t == [c \in M!Triggers |-> 0]
           s == [c \in M!Sticks |-> 0]
<1>1. M!Rest = [flags |-> {}, trigger |-> t, stick |-> s]
  BY DEF M!Rest
<1>2. 0 \in 0 .. M!UCHAR_MAX /\ 0 \in M!SHRT_MIN .. M!SHRT_MAX
  BY Shorts
<1>3. /\ t \in [M!Triggers -> 0 .. M!UCHAR_MAX] /\ \A c \in M!Triggers : t[c] = 0
      /\ s \in [M!Sticks -> M!SHRT_MIN .. M!SHRT_MAX] /\ \A c \in M!Sticks : s[c] = 0
  BY <1>2
<1> HIDE DEF t, s
<1>4. {} \in SUBSET (M!Keyed \ M!Triggers)
  OBVIOUS
<1> QED BY <1>1, <1>3, <1>4 DEF DeviceStates

\* A stream that starts, with all controls at rest.
LEMMA StreamStarts ==
  ASSUME pad \in Pads, NEW m, Loaded(m), NEW at, \A c \in M!Controls : at[c] = "rest"
  PROVE  Played(m, at, M!CentredHats, M!Rest)
<1>1. \A c \in M!Controls : OnHat(c) => (M!CentredHats[Code(c)] = Sign(c) <=> at[c] = "full")
  BY PadFacts, CentredFacts
<1>2. ASSUME NEW c \in M!Controls
      PROVE  Heard(c, at[c], M!Rest)
  <2>1. at[c] = "rest"
    OBVIOUS
  <2> HIDE DEF M!Rest
  <2>2. CASE c \in M!Sticks
    BY <2>1, <2>2, RestFacts DEF Heard
  <2>3. CASE c \in M!Triggers
    BY <2>1, <2>3, RestFacts, NamesDiffer DEF Heard
  <2>4. CASE c \notin M!Sticks \cup M!Triggers
    BY <2>1, <2>4, RestFacts DEF Heard
  <2> QED BY <2>2, <2>3, <2>4
<1> QED BY <1>1, <1>2, RestFacts DEF Played

LEMMA MappingStart == M!Init => MappingInv
<1> SUFFICES ASSUME M!Init PROVE MappingInv
  OBVIOUS
<1>1. /\ pad \in Pads /\ step = 1 /\ hats = M!CentredHats /\ dev = M!Rest
      /\ pos = [c \in M!Controls |-> "rest"]
  BY DEF M!Init
<1>2. /\ pos \in [M!Controls -> {"rest", "half", "full", "back"}]
      /\ \A c \in M!Controls : pos[c] = "rest" /\ pos[c] \in M!Positions(c)
  BY <1>1, AtRest
<1>3. step \in DOMAIN Steps /\ hats \in [HatCodes -> {-1, 0, 1}]
  BY <1>1, StepsFacts, CentredFacts
<1>4. CASE source = "wizard" /\ mapPhase = "ask" /\ map = M!BeginStep(M!Zeroed, 1)
  <2>1. \A c \in Names : Fits(M!Zeroed, c)
    BY ZeroedFacts, NamesDiffer DEF Fits
  <2>2. map \in Mappings /\ \A c \in Names : Fits(map, c)
    BY <1>1, <1>4, <2>1, ZeroedFacts, StepsFacts, BeginStepFits
  <2>3. \A k \in DOMAIN Steps : ~Over(k, step, mapPhase)
    BY <1>1, <1>4, StepsFacts DEF Over
  <2>4. Held(step, mapPhase, map, pos)
    BY <1>2 DEF Held
  <2>5. Dialogue(step, mapPhase, map, pos, hats)
    BY <1>1, <2>2, <2>3, <2>4 DEF Dialogue
  <2> QED BY <1>1, <1>2, <1>3, <1>4, <2>5 DEF MappingInv, Going
<1>5. CASE source = "file" /\ mapPhase = "stream" /\ map \in {M!mapping_parse(f) : f \in pad.files}
  <2>1. PICK f \in pad.files : map = M!mapping_parse(f)
    BY <1>5
  <2>2. /\ map \in Mappings
        /\ \A c \in M!Keyed : map.btn[c] = IF OnKey(c) THEN M!KeyIndex(Code(c)) ELSE -1
        /\ \A c \in M!Axial : map.abs[c] = IF OnAxis(c) THEN M!AxisIndex(Code(c)) ELSE -1
        /\ \A c \in M!Axial : map.half[c] = IF OnAxis(c) THEN HalfOf(c) ELSE ""
        /\ \A c \in M!Dpad : /\ map.hat[c] = IF OnHat(c) THEN M!HatNumber(Code(c)) ELSE -1
                             /\ OnHat(c) => map.dir[c] = {M!Direction(Code(c), Sign(c))}
        /\ \A c \in M!Sticks : OnAxis(c) => (map.reverse[c] <=> Sign(c) # M!Natural(c))
    BY <1>1, <2>1, FileParsed
  <2>3. Lost(map) = {c \in M!Controls \cap M!Axial : map.half[c] # ""}
    BY <1>5 DEF Lost
  <2>4. ButtonsLoaded(map)
    BY <2>2 DEF ButtonsLoaded
  <2>5. AxesLoaded(map)
    BY <2>2 DEF AxesLoaded
  <2>6. ASSUME NEW c \in M!Controls
        PROVE  /\ OnKey(c) => map.btn[c] = M!KeyIndex(Code(c))
               /\ OnAxis(c) => IF c \in M!Dpad THEN c \in Lost(map) ELSE map.abs[c] = M!AxisIndex(Code(c))
               /\ c \in M!Sticks => (map.reverse[c] <=> Sign(c) # M!Natural(c))
    <3>1. OnKey(c) => map.btn[c] = M!KeyIndex(Code(c))
      BY <1>1, <2>2, PadFacts
    <3>2. OnAxis(c) => c \in M!Axial /\ map.abs[c] = M!AxisIndex(Code(c))
      BY <1>1, <2>2, PadFacts
    <3>3. ASSUME OnAxis(c), c \in M!Dpad
          PROVE  c \in Lost(map)
      <4>1. HalfOf(c) # ""
        BY <3>3 DEF HalfOf
      <4>2. map.half[c] = HalfOf(c)
        BY <2>2, <3>2, <3>3
      <4> QED BY <2>3, <3>2, <3>3, <4>1, <4>2
    <3>4. c \in M!Sticks => OnAxis(c)
      BY <1>1, PadFacts, NamesDiffer
    <3>5. c \in M!Sticks => (map.reverse[c] <=> Sign(c) # M!Natural(c))
      BY <2>2, <3>4
    <3> QED BY <3>1, <3>2, <3>3, <3>5
  <2>7. ControlsLoaded(map)
    BY <2>6 DEF ControlsLoaded
  <2>8. HatsLoaded(map)
    BY <2>2 DEF HatsLoaded
  <2>9. TriggersLoaded(map)
    <3>1. \A c \in M!Triggers : map.half[c] = ""
      BY <2>2, NamesDiffer DEF HalfOf
    <3> QED BY <1>5, <3>1 DEF TriggersLoaded
  <2>10. Loaded(map)
    BY <2>2, <2>4, <2>5, <2>7, <2>8, <2>9 DEF Loaded
  <2>11. Played(map, pos, hats, dev)
    BY <1>1, <1>2, <2>10, StreamStarts
  <2> QED BY <1>1, <1>2, <1>3, <1>5, <2>11 DEF MappingInv, Going
<1> QED BY <1>4, <1>5 DEF M!Init

LEMMA KillKeeps == MappingInv /\ M!Kill => MappingInv'
<1> SUFFICES ASSUME MappingInv, M!Kill PROVE MappingInv'
  OBVIOUS
<1>1. /\ mapPhase = "ask" /\ mapPhase' = "killed"
      /\ pad' = pad /\ source' = source /\ step' = step /\ map' = map /\ hats' = hats
      /\ pos' = pos /\ dev' = dev
  BY DEF M!Kill
<1>2. Going(step', mapPhase', map', pos', hats', dev')
  BY <1>1 DEF MappingInv, Going
<1> QED BY <1>1, <1>2, MappingStays

LEMMA LetGoKeeps == ASSUME MappingInv, NEW c \in M!Controls, M!LetGo(c) PROVE MappingInv'
<1>1. /\ mapPhase = "drain" /\ pos' = [pos EXCEPT ![c] = "rest"]
      /\ pad' = pad /\ source' = source /\ step' = step /\ mapPhase' = mapPhase
      /\ map' = map /\ hats' = hats /\ dev' = dev
  BY DEF M!LetGo
<1>2. pos \in [M!Controls -> {"rest", "half", "full", "back"}] /\ \A x \in M!Controls : pos[x] \in M!Positions(x)
  BY DEF MappingInv, Going
<1>3. /\ pos' \in [M!Controls -> {"rest", "half", "full", "back"}]
      /\ \A x \in M!Controls : pos'[x] = IF x = c THEN "rest" ELSE pos[x]
  BY <1>1, <1>2
<1>4. "rest" \in M!Positions(c)
  BY DEF M!Positions
<1>5. Dialogue(step, "drain", map, pos, hats) /\ source = "wizard"
  BY <1>1 DEF MappingInv, Going
<1>6. Held(step, "drain", map, pos')
  BY <1>3, <1>5 DEF Dialogue, Held
<1>7. Dialogue(step, "drain", map, pos', hats)
  BY <1>5, <1>6 DEF Dialogue
<1>8. Going(step', mapPhase', map', pos', hats', dev')
  BY <1>1, <1>2, <1>3, <1>4, <1>5, <1>7 DEF MappingInv, Going
<1> QED BY <1>1, <1>8, MappingStays

LEMMA NextStepKeeps ==
  ASSUME MappingInv, M!Drain, step < Len(Steps) PROVE MappingInv'
<1> DEFINE q == M!Asked(step + 1)
<1>0. step # Len(Steps)
  BY StepsFacts DEF MappingInv, Going
<1>1. /\ mapPhase = "drain" /\ step' = step + 1 /\ map' = M!BeginStep(map, step + 1)
      /\ mapPhase' = "ask" /\ hats' = hats
      /\ pad' = pad /\ source' = source /\ pos' = pos /\ dev' = dev
  BY <1>0 DEF M!Drain
<1>2. /\ pad \in Pads /\ step \in DOMAIN Steps /\ step + 1 \in DOMAIN Steps
      /\ step \in Nat /\ DOMAIN Steps \subseteq Nat
  BY StepsFacts DEF MappingInv, Going
<1>3. source = "wizard" /\ Dialogue(step, "drain", map, pos, hats)
  BY <1>1 DEF MappingInv, Going
<1>4. /\ map \in Mappings /\ (\A c \in Names : Fits(map, c))
      /\ (\A k \in DOMAIN Steps : Over(k, step, "drain") => Done(map, M!Asked(k)))
      /\ Held(step, "drain", map, pos)
      /\ ((\A k \in DOMAIN Steps : Over(k, step, "drain") => ~OnHat(M!Asked(k))) => hats = M!CentredHats)
  BY <1>3 DEF Dialogue
<1>5. /\ map' \in Mappings
      /\ \A c \in Names : Fits(map', c)
      /\ q \in M!Axial => map'.abs[q] = -1
      /\ \A c : c # q /\ Done(map, c) => Done(map', c)
  BY <1>1, <1>2, <1>4, BeginStepFits
<1>6. \A k \in DOMAIN Steps : Over(k, step + 1, "ask") <=> Over(k, step, "drain")
  BY <1>2 DEF Over
<1>7. \A k \in DOMAIN Steps : Over(k, step, "drain") => M!Asked(k) # q
  <2>1. \A k \in DOMAIN Steps : Over(k, step, "drain") => k # step + 1
    BY <1>2 DEF Over
  <2>2. \A k \in DOMAIN Steps : M!Asked(k) = q => k = step + 1
    BY <1>2, StepsFacts
  <2> QED BY <2>1, <2>2
<1> HIDE DEF q
<1>8. \A k \in DOMAIN Steps : Over(k, step + 1, "ask") => Done(map', M!Asked(k))
  BY <1>4, <1>5, <1>6, <1>7
<1>9. Held(step + 1, "ask", map', pos)
  <2>1. \A c, d \in M!Controls : pos[c] # "rest" /\ pos[d] # "rest" => c = d
    BY <1>4 DEF Held
  <2>2. ASSUME NEW c \in M!Controls, pos[c] # "rest"
        PROVE  c # q /\ M!AskedBefore(c, q) /\ Lingers(c)
    <3>1. c = M!Asked(step) /\ Lingers(c)
      BY <1>4, <2>2 DEF Held
    <3>2. c # q
      BY <1>2, <1>7, <3>1 DEF Over
    <3>3. M!AskedBefore(c, q)
      <4>1. step < step + 1
        BY <1>2
      <4> QED BY <1>2, <3>1, <4>1 DEF M!AskedBefore, q
    <3> QED BY <3>1, <3>2, <3>3
  <2> QED BY <1>5, <2>1, <2>2 DEF Held, q
<1>10. (\A k \in DOMAIN Steps : Over(k, step + 1, "ask") => ~OnHat(M!Asked(k))) => hats = M!CentredHats
  BY <1>4, <1>6
<1>11. Dialogue(step + 1, "ask", map', pos, hats)
  BY <1>5, <1>8, <1>9, <1>10 DEF Dialogue
<1>12. Going(step', mapPhase', map', pos', hats', dev')
  BY <1>1, <1>2, <1>3, <1>11 DEF MappingInv, Going
<1> QED BY <1>1, <1>12, MappingStays

\* The mapping that was asked for, printed and read again.
LEMMA StreamLoads ==
  ASSUME pad \in Pads, source = "wizard", NEW m \in Mappings,
         \A c \in Names : Fits(m, c), \A n \in DOMAIN Steps : Done(m, M!Asked(n))
  PROVE  Loaded(M!mapping_parse(M!mapping_print(m)))
<1> DEFINE k == M!mapping_parse(M!mapping_print(m))
<1>1. /\ k \in Mappings
      /\ \A c \in M!Keyed : k.btn[c] = IF m.btn[c] > -1 THEN m.btn[c] ELSE -1
      /\ \A c \in M!Axial : /\ k.abs[c] = IF c \notin M!Dpad /\ m.abs[c] > -1 THEN m.abs[c] ELSE -1
                            /\ k.half[c] = ""
      /\ \A c \in M!Dpad : /\ k.hat[c] = IF m.hat[c] > -1 THEN m.hat[c] ELSE -1
                           /\ m.hat[c] > -1 => k.dir[c] = m.dir[c]
      /\ \A c \in M!Sticks : ~k.reverse[c]
  BY Printed
<1> HIDE DEF k
<1>2. Lost(k) = M!WizardLoses
  BY DEF Lost
<1>3. \A c \in M!Controls : Done(m, c)
  BY PadFacts
<1>4. \A c \in M!Dpad : AfterHat(c) => c \in Lost(k)
  BY <1>2 DEF AfterHat, OnHat, M!WizardLoses
<1>5. ASSUME NEW c, OnKey(c)
      PROVE  c \in M!Keyed /\ (c \notin Lost(k) => k.btn[c] = M!KeyIndex(Code(c)))
  <2>1. c \in M!Controls /\ c \in M!Keyed /\ M!KeyIndex(Code(c)) \in Nat
    BY <1>5, PadFacts DEF OnKey
  <2>2. ~OnHat(c) /\ ~OnAxis(c)
    BY <1>5, KindsDiffer
  <2>3. (c \in M!Dpad /\ AfterHat(c)) \/ m.btn[c] = M!KeyIndex(Code(c))
    BY <1>3, <2>1, <2>2 DEF Done
  <2>4. c \notin Lost(k) => m.btn[c] = M!KeyIndex(Code(c))
    BY <1>4, <2>3
  <2>5. k.btn[c] = IF m.btn[c] > -1 THEN m.btn[c] ELSE -1
    BY <1>1, <2>1
  <2>6. m.btn[c] = M!KeyIndex(Code(c)) => m.btn[c] > -1
    BY <2>1
  <2> QED BY <2>1, <2>4, <2>5, <2>6
<1>6. ASSUME NEW c, OnAxis(c)
      PROVE  IF c \in M!Dpad THEN c \in Lost(k) ELSE k.abs[c] = M!AxisIndex(Code(c))
  <2>1. c \in M!Controls /\ c \in M!Axial /\ M!AxisIndex(Code(c)) \in Nat
    BY <1>6, PadFacts DEF OnAxis
  <2>2. ~OnHat(c) /\ ~OnKey(c)
    BY <1>6, KindsDiffer
  <2>3. (c \in M!Dpad /\ AfterHat(c)) \/ (c \notin M!Dpad /\ m.abs[c] = M!AxisIndex(Code(c)))
    BY <1>3, <2>1, <2>2 DEF Done
  <2>4. CASE c \in M!Dpad
    BY <1>4, <2>3, <2>4
  <2>5. CASE c \notin M!Dpad
    <3>1. k.abs[c] = IF c \notin M!Dpad /\ m.abs[c] > -1 THEN m.abs[c] ELSE -1
      BY <1>1, <2>1
    <3>2. m.abs[c] = M!AxisIndex(Code(c))
      BY <2>3, <2>5
    <3>3. m.abs[c] > -1
      BY <2>1, <3>2
    <3> QED BY <2>5, <3>1, <3>2, <3>3
  <2> QED BY <2>4, <2>5
<1>7. ButtonsLoaded(k)
  <2> SUFFICES ASSUME NEW c \in M!Keyed
               PROVE  \/ k.btn[c] = -1
                      \/ OnKey(c) /\ k.btn[c] = M!KeyIndex(Code(c))
                      \/ c \in M!NeverAsked /\ k.btn[c] = 0
    BY DEF ButtonsLoaded
  <2>1. \/ m.btn[c] = -1
        \/ OnKey(c) /\ m.btn[c] = M!KeyIndex(Code(c))
        \/ c \in M!NeverAsked /\ m.btn[c] = 0
    BY DEF Fits, Names
  <2>2. k.btn[c] = IF m.btn[c] > -1 THEN m.btn[c] ELSE -1
    BY <1>1
  <2>3. OnKey(c) => M!KeyIndex(Code(c)) \in Nat
    BY PadFacts
  <2> QED BY <2>1, <2>2, <2>3
<1>8. AxesLoaded(k)
  <2> SUFFICES ASSUME NEW c \in M!Axial
               PROVE  \/ k.abs[c] = -1
                      \/ OnAxis(c) /\ k.abs[c] = M!AxisIndex(Code(c))
                      \/ c \in M!Triggers /\ c \in Lost(k) /\ OnKey(c)
    BY DEF AxesLoaded
  <2>1. k.abs[c] = IF c \notin M!Dpad /\ m.abs[c] > -1 THEN m.abs[c] ELSE -1
    BY <1>1
  <2>2. CASE c \in M!Dpad
    BY <2>1, <2>2
  <2>3. CASE c \notin M!Dpad /\ m.abs[c] \in {-1, -2}
    BY <2>1, <2>3
  <2>4. CASE c \notin M!Dpad /\ OnAxis(c)
    BY <1>6, <2>4
  <2>5. CASE c \notin M!Dpad /\ ~OnAxis(c) /\ AfterPedal(c, m.abs[c])
    <3>1. PICK t \in M!Triggers : OnAxis(t) /\ M!AskedBefore(t, c)
      BY <2>5 DEF AfterPedal
    <3>2. PICK n \in DOMAIN Steps : M!Asked(n) = c
      BY <3>1 DEF M!AskedBefore
    <3>3. OnKey(c) /\ c \in M!Controls
      <4>1. ~OnHat(c)
        BY <2>5, PadFacts
      <4>2. Done(m, c)
        BY <3>2
      <4> QED BY <2>5, <4>1, <4>2 DEF Done, OnKey
    <3>4. c \in M!Triggers
      BY <3>3, <2>5, PadFacts, NamesDiffer
    <3>5. c \in Lost(k)
      BY <1>2, <3>1, <3>3, <3>4 DEF M!WizardLoses, OnKey, OnAxis
    <3> QED BY <3>3, <3>4, <3>5
  <2>6. c \in M!Dpad \/ m.abs[c] \in {-1, -2} \/ OnAxis(c) \/ AfterPedal(c, m.abs[c])
    BY NamesDiffer DEF Fits, Names
  <2> QED BY <2>2, <2>3, <2>4, <2>5, <2>6
<1>9. ControlsLoaded(k)
  <2>1. ASSUME NEW c \in M!Controls, c \in M!Sticks, c \notin Lost(k)
        PROVE  k.reverse[c] <=> Sign(c) # M!Natural(c)
    <3>1. OnAxis(c)
      BY <2>1, PadFacts, NamesDiffer
    <3>2. Sign(c) = M!Natural(c)
      BY <1>2, <2>1, <3>1 DEF M!WizardLoses, OnAxis, Sign
    <3>3. ~k.reverse[c]
      BY <1>1, <2>1
    <3> QED BY <3>2, <3>3
  <2> QED BY <1>5, <1>6, <2>1 DEF ControlsLoaded
<1>10. HatsLoaded(k)
  <2> SUFFICES ASSUME NEW c \in M!Dpad, c \notin Lost(k)
               PROVE  /\ k.hat[c] # -1 => OnHat(c)
                      /\ OnHat(c) => k.hat[c] = M!HatNumber(Code(c)) /\ k.dir[c] = {M!Direction(Code(c), Sign(c))}
    BY DEF HatsLoaded
  <2>1. ~AfterHat(c)
    BY <1>4
  <2>2. /\ k.hat[c] = IF m.hat[c] > -1 THEN m.hat[c] ELSE -1
        /\ m.hat[c] > -1 => k.dir[c] = m.dir[c]
    BY <1>1
  <2>3. m.hat[c] # -1 => OnHat(c)
    BY <2>1, NamesDiffer DEF Fits, Names
  <2>4. ASSUME OnHat(c)
        PROVE  k.hat[c] = M!HatNumber(Code(c)) /\ k.dir[c] = {M!Direction(Code(c), Sign(c))}
    <3>1. c \in M!Controls /\ ~OnKey(c) /\ ~OnAxis(c)
      BY <2>4, KindsDiffer DEF OnHat
    <3>2. m.hat[c] = M!HatNumber(Code(c)) /\ m.dir[c] = {M!Direction(Code(c), Sign(c))}
      BY <1>3, <2>1, <3>1 DEF Done
    <3>3. M!HatNumber(Code(c)) \in Nat
      BY <2>4, PadFacts DEF M!HatNumber, HatCodes
    <3> QED BY <2>2, <3>2, <3>3
  <2>5. k.hat[c] # -1 => m.hat[c] # -1
    BY <2>2
  <2> QED BY <2>3, <2>4, <2>5
<1>11. TriggersLoaded(k)
  <2>1. \A c \in M!Triggers : k.half[c] = ""
    BY <1>1, NamesDiffer
  <2>2. \A c \in M!Triggers : OnKey(c) /\ c \notin Lost(k) => M!KeyIndex(Code(c)) # 0
    BY <1>2 DEF M!WizardLoses, OnKey, Code
  <2> QED BY <2>1, <2>2 DEF TriggersLoaded
<1>12. Loaded(k)
  BY <1>1, <1>7, <1>8, <1>9, <1>10, <1>11 DEF Loaded
<1> QED BY <1>12 DEF k

LEMMA LastStepKeeps ==
  ASSUME MappingInv, M!Drain, ~(step < Len(Steps)) PROVE MappingInv'
<1>1. /\ mapPhase = "drain" /\ step = Len(Steps) /\ step' = step
      /\ map' = M!mapping_parse(M!mapping_print(map))
      /\ mapPhase' = "stream" /\ hats' = M!CentredHats
      /\ \A c \in M!Controls : pos[c] = "rest"
      /\ pad' = pad /\ source' = source /\ pos' = pos /\ dev' = dev
  BY DEF M!Drain
<1>2. /\ pad \in Pads /\ step \in DOMAIN Steps /\ dev = M!Rest
      /\ source = "wizard" /\ Dialogue(step, "drain", map, pos, hats)
  BY <1>1 DEF MappingInv, Going
<1>3. \A n \in DOMAIN Steps : Over(n, step, "drain")
  BY <1>1, StepsFacts DEF Over
<1>4. /\ map \in Mappings /\ (\A c \in Names : Fits(map, c))
      /\ (\A n \in DOMAIN Steps : Done(map, M!Asked(n)))
  BY <1>2, <1>3 DEF Dialogue
<1>5. Loaded(map')
  BY <1>1, <1>2, <1>4, StreamLoads
<1>6. Played(map', pos', hats', dev')
  BY <1>1, <1>2, <1>5, StreamStarts
<1>7. Going(step', mapPhase', map', pos', hats', dev')
  BY <1>1, <1>2, <1>6, CentredFacts DEF MappingInv, Going
<1> QED BY <1>1, <1>7, MappingStays

LEMMA DrainKeeps == MappingInv /\ M!Drain => MappingInv'
BY NextStepKeeps, LastStepKeeps

-----------------------------------------------------------------------------
(* The user answers.                                                       *)

LEMMA AnswerFacts ==
  ASSUME MappingInv, NEW c \in M!Controls, NEW p \in M!Positions(c), M!Answer(c, p)
  PROVE  LET q == M!Asked(step) IN
         /\ pad \in Pads /\ step \in DOMAIN Steps /\ q \in Names \ M!NeverAsked
         /\ source = "wizard" /\ mapPhase = "ask" /\ Dialogue(step, "ask", map, pos, hats)
         /\ dev = M!Rest /\ hats \in [HatCodes -> {-1, 0, 1}]
         /\ p \in {"rest", "half", "full"}
         /\ pos' \in [M!Controls -> {"rest", "half", "full", "back"}]
         /\ \A x \in M!Controls : /\ pos'[x] \in M!Positions(x)
                                  /\ pos'[x] # "rest" => x = c /\ c = q /\ p # "rest"
         /\ c # q => /\ p = "rest" /\ M!AskedBefore(c, q) /\ Lingers(c)
                     /\ q \in M!Axial => map.abs[q] = -1
         /\ c = q /\ OnHat(c) => p = "full"
         /\ M!MapEvent(c, M!Value(c, p))
         /\ pad' = pad /\ source' = source /\ step' = step /\ dev' = dev
<1> DEFINE q == M!Asked(step)
<1>1. /\ mapPhase = "ask" /\ M!CanMove(c, p)
      /\ p # "rest" => c = q /\ \A x \in M!Controls \ {c} : pos[x] = "rest"
      /\ p # "back" /\ pos' = [pos EXCEPT ![c] = p]
      /\ M!MapEvent(c, M!Value(c, p))
      /\ pad' = pad /\ source' = source /\ step' = step /\ dev' = dev
  BY DEF M!Answer
<1>2. /\ pad \in Pads /\ step \in DOMAIN Steps /\ source = "wizard" /\ dev = M!Rest
      /\ Dialogue(step, "ask", map, pos, hats) /\ hats \in [HatCodes -> {-1, 0, 1}]
      /\ pos \in [M!Controls -> {"rest", "half", "full", "back"}]
      /\ \A x \in M!Controls : pos[x] \in M!Positions(x)
  BY <1>1 DEF MappingInv, Going
<1>3. q \in Names \ M!NeverAsked
  BY <1>2, StepsFacts
<1>4. p \in {"rest", "half", "full"} /\ p # pos[c]
  BY <1>1 DEF M!CanMove, M!Positions
<1>5. /\ pos' \in [M!Controls -> {"rest", "half", "full", "back"}]
      /\ \A x \in M!Controls : pos'[x] = IF x = c THEN p ELSE pos[x]
  BY <1>1, <1>2, <1>4
<1>6. /\ \A x, d \in M!Controls : pos[x] # "rest" /\ pos[d] # "rest" => x = d
      /\ \A x \in M!Controls : pos[x] # "rest" =>
           IF x = q THEN ~OnHat(x)
           ELSE M!AskedBefore(x, q) /\ Lingers(x) /\ (q \in M!Axial => map.abs[q] = -1)
  BY <1>2 DEF Dialogue, Held
<1> HIDE DEF q
<1>7. \A x \in M!Controls : pos'[x] # "rest" => x = c /\ c = q /\ p # "rest"
  BY <1>1, <1>4, <1>5, <1>6
<1>8. c # q => p = "rest" /\ M!AskedBefore(c, q) /\ Lingers(c) /\ (q \in M!Axial => map.abs[q] = -1)
  BY <1>1, <1>4, <1>6
<1>9. c = q /\ OnHat(c) => p = "full"
  <2>1. OnHat(c) => M!Positions(c) = {"rest", "full"}
    BY DEF OnHat, M!Positions
  <2> QED BY <1>4, <1>6, <2>1
<1>10. \A x \in M!Controls : pos'[x] \in M!Positions(x)
  BY <1>2, <1>5
<1> QED BY <1>1, <1>2, <1>3, <1>4, <1>5, <1>7, <1>8, <1>9, <1>10 DEF q

\* What is left to show of an answer.
LEMMA AnswerEnds ==
  ASSUME MappingInv, NEW c \in M!Controls, NEW p \in M!Positions(c), M!Answer(c, p),
         mapPhase' \in {"ask", "drain"}, map' \in Mappings, hats' \in [HatCodes -> {-1, 0, 1}],
         \A x \in Names : Fits(map', x),
         \A x : x # M!Asked(step) /\ Done(map, x) => Done(map', x),
         mapPhase' = "drain" => Done(map', M!Asked(step)),
         p # "rest" => IF mapPhase' = "drain" THEN Lingers(c) ELSE ~OnHat(c),
         (\A k \in DOMAIN Steps : Over(k, step, mapPhase') => ~OnHat(M!Asked(k))) => hats' = M!CentredHats
  PROVE  MappingInv'
<1> DEFINE q == M!Asked(step)
<1>1. /\ pad \in Pads /\ step \in DOMAIN Steps
      /\ source = "wizard" /\ Dialogue(step, "ask", map, pos, hats) /\ dev = M!Rest
      /\ pos' \in [M!Controls -> {"rest", "half", "full", "back"}]
      /\ \A x \in M!Controls : /\ pos'[x] \in M!Positions(x)
                               /\ pos'[x] # "rest" => x = c /\ c = q /\ p # "rest"
      /\ pad' = pad /\ source' = source /\ step' = step /\ dev' = dev
  BY AnswerFacts
<1>2. \A k \in DOMAIN Steps : Over(k, step, "ask") => Done(map, M!Asked(k))
  BY <1>1 DEF Dialogue
<1>3. ASSUME NEW k \in DOMAIN Steps, Over(k, step, mapPhase')
      PROVE  Done(map', M!Asked(k))
  <2>1. CASE k = step
    <3>1. mapPhase' = "drain"
      BY <1>1, <1>3, <2>1, StepsFacts DEF Over
    <3> QED BY <2>1, <3>1
  <2>2. CASE k # step
    <3>1. Over(k, step, "ask") /\ M!Asked(k) # q
      BY <1>1, <1>3, <2>2, StepsFacts DEF Over
    <3> QED BY <1>2, <3>1
  <2> QED BY <2>1, <2>2
<1> HIDE DEF q
<1>4. Held(step, mapPhase', map', pos')
  <2>1. ASSUME NEW x \in M!Controls, pos'[x] # "rest"
        PROVE  x = q /\ IF mapPhase' = "drain" THEN Lingers(x) ELSE ~OnHat(x)
    BY <1>1, <2>1
  <2> QED BY <2>1 DEF Held, q
<1>5. Dialogue(step, mapPhase', map', pos', hats')
  BY <1>3, <1>4 DEF Dialogue
<1>6. Going(step', mapPhase', map', pos', hats', dev')
  BY <1>1, <1>5 DEF Going
<1> QED BY <1>1, <1>6, MappingStays

\* The hats are as they were while no direction of one was asked for.
LEMMA HatsStay ==
  ASSUME NEW n, NEW m, NEW at, NEW ht, Dialogue(n, "ask", m, at, ht), NEW ph,
         \A k \in DOMAIN Steps : Over(k, n, ph) => ~OnHat(M!Asked(k))
  PROVE  ht = M!CentredHats
<1>1. \A k \in DOMAIN Steps : Over(k, n, "ask") => Over(k, n, ph)
  BY DEF Over
<1> QED BY <1>1 DEF Dialogue

\* A control that was asked for before this step.
LEMMA BeforeIsOver ==
  ASSUME NEW n \in DOMAIN Steps, NEW h, M!AskedBefore(h, M!Asked(n)), NEW ph
  PROVE  \E k \in DOMAIN Steps : M!Asked(k) = h /\ Over(k, n, ph) /\ Over(k, n, "ask")
<1>1. PICK j \in DOMAIN Steps, k \in DOMAIN Steps : M!Asked(j) = h /\ M!Asked(k) = M!Asked(n) /\ j < k
  BY DEF M!AskedBefore
<1>2. k = n
  BY <1>1, StepsFacts
<1> QED BY <1>1, <1>2 DEF Over

LEMMA AnswerKey ==
  ASSUME MappingInv, NEW c \in M!Controls, NEW p \in M!Positions(c), M!Answer(c, p), OnKey(c)
  PROVE  MappingInv'
<1> DEFINE q == M!Asked(step)
           n == M!KeyIndex(Code(c))
<1>1. /\ pad \in Pads /\ step \in DOMAIN Steps /\ q \in Names \ M!NeverAsked
      /\ mapPhase = "ask" /\ Dialogue(step, "ask", map, pos, hats)
      /\ hats \in [HatCodes -> {-1, 0, 1}]
      /\ c # q => Lingers(c)
      /\ M!MapEvent(c, M!Value(c, p))
  BY AnswerFacts
<1>2. ~OnHat(c) /\ ~OnAxis(c) /\ c \in M!Keyed /\ n \in Nat /\ Sign(c) = 1
  BY <1>1, KindsDiffer, PadFacts
<1>3. c = q
  BY <1>1, <1>2 DEF Lingers
<1>4. M!MapKey(Code(c), M!Value(c, p) # 0) /\ hats' = hats
  BY <1>1 DEF M!MapEvent, OnKey, Code
<1>5. M!Kind(step) # "abs"
  BY <1>1, <1>2, <1>3, StepsFacts, NamesDiffer
<1>6. map \in Mappings /\ \A x \in Names : Fits(map, x)
  BY <1>1 DEF Dialogue
<1>7. (\A k \in DOMAIN Steps : Over(k, step, mapPhase') => ~OnHat(M!Asked(k))) => hats' = M!CentredHats
  BY <1>1, <1>4, HatsStay
<1>8. CASE M!Value(c, p) # 0
  <2>1. map' = WithButton(map, c, n) /\ mapPhase' = mapPhase
    BY <1>3, <1>4, <1>5, <1>8 DEF M!MapKey, WithButton
  <2> HIDE DEF n
  <2>2. /\ map' \in Mappings /\ map'.abs = map.abs /\ map'.hat = map.hat /\ map'.dir = map.dir
        /\ \A x \in M!Keyed : map'.btn[x] = IF x = c THEN n ELSE map.btn[x]
    <3>1. map \in Mappings /\ c \in M!Keyed /\ n \in Int
      BY <1>2, <1>6
    <3> QED BY ONLY <2>1, <3>1, SetButton
  <2>3. ASSUME NEW x \in Names
        PROVE  Fits(map', x)
    <3>1. CASE x # c
      BY <1>6, <2>2, <3>1, FitsSame
    <3>2. CASE x = c
      <4>1. Fits(map, c)
        BY <1>6, <3>2
      <4>2. map'.btn[c] = M!KeyIndex(Code(c)) /\ map'.abs[c] = map.abs[c] /\ map'.hat[c] = map.hat[c]
        BY <1>2, <2>2 DEF n
      <4> QED BY <3>2, <4>1, <4>2 DEF Fits
    <3> QED BY <3>1, <3>2
  <2>4. \A x : x # q /\ Done(map, x) => Done(map', x)
    BY <1>1, <1>3, <2>2, DoneSame
  <2> QED BY <1>1, <1>2, <1>4, <1>7, <2>1, <2>2, <2>3, <2>4, AnswerEnds
<1>9. CASE M!Value(c, p) = 0
  <2>1. map' = map /\ mapPhase' = (IF map.btn[q] = n THEN "drain" ELSE "ask")
    BY <1>4, <1>5, <1>9 DEF M!MapKey
  <2>2. mapPhase' = "drain" => Done(map', q)
    BY <1>3, <2>1 DEF Done
  <2>3. p = "rest"
    <3>1. M!Positions(c) = {"rest", "full"}
      BY DEF OnKey, M!Positions
    <3>2. p = "full" => M!Value(c, p) = 1
      BY <1>2 DEF M!Value, OnKey, Sign
    <3> QED BY <1>9, <3>1, <3>2
  <2> QED BY <1>1, <1>4, <1>6, <1>7, <2>1, <2>2, <2>3, AnswerEnds
<1> QED BY <1>8, <1>9

\* An axis that is asked for is answered.
WithStick(m, q, n, r) == WithReverse(WithAxis(m, q, n), r)

LEMMA SetStick ==
  ASSUME NEW m \in Mappings, NEW q \in M!Axial, NEW n \in Int, NEW r \in [M!Sticks -> BOOLEAN]
  PROVE  LET k == WithStick(m, q, n, r) IN
         /\ k \in Mappings /\ k.btn = m.btn /\ k.hat = m.hat /\ k.dir = m.dir
         /\ \A x \in M!Axial : k.abs[x] = IF x = q THEN n ELSE m.abs[x]
<1> DEFINE a == WithAxis(m, q, n)
<1>1. /\ a \in Mappings /\ a.btn = m.btn /\ a.hat = m.hat /\ a.dir = m.dir
      /\ \A x \in M!Axial : a.abs[x] = IF x = q THEN n ELSE m.abs[x]
  BY SetAxis
<1>2. WithStick(m, q, n, r) = WithReverse(a, r)
  BY DEF WithStick
<1> HIDE DEF a
<1> QED BY <1>1, <1>2, SetReverse

LEMMA MapAbsChanges ==
  ASSUME NEW n, NEW v, M!MapAbs(n, v), map \in Mappings
  PROVE  \/ /\ map' = map
            /\ mapPhase' = (IF n = map.abs[M!Asked(step)] THEN "drain" ELSE "ask")
         \/ /\ mapPhase' = mapPhase
            /\ \E r \in [M!Sticks -> BOOLEAN] : map' = WithStick(map, M!Asked(step), M!AxisIndex(n), r)
            /\ M!HasParms(n) => \/ v > M!Avg(pad.parms) + M!HalfRange(pad.parms) \div 2
                                \/ v < M!Avg(pad.parms) - M!HalfRange(pad.parms) \div 2
<1> DEFINE q == M!Asked(step)
           up == v > M!Avg(pad.parms) + M!HalfRange(pad.parms) \div 2
           down == v < M!Avg(pad.parms) - M!HalfRange(pad.parms) \div 2
           w0 == IF up THEN "up" ELSE IF down THEN "down" ELSE "rest"
<1>1. PICK w \in {"up", "down", "rest"} :
        /\ M!HasParms(n) => w = w0
        /\ IF w = "rest"
           THEN mapPhase' = (IF n = map.abs[q] THEN "drain" ELSE "ask") /\ UNCHANGED map
           ELSE /\ map' = [map EXCEPT !.abs[q] = M!AxisIndex(n),
                             !.reverse = [s \in M!Sticks |-> IF s = q THEN w = "down" ELSE @[s]]]
                /\ UNCHANGED mapPhase
  BY DEF M!MapAbs
<1>2. w0 # "rest" => up \/ down
  OBVIOUS
<1> HIDE DEF w0, up, down
<1>3. CASE w = "rest"
  BY <1>1, <1>3
<1>4. CASE w # "rest"
  <2> DEFINE r == [s \in M!Sticks |-> IF s = q THEN w = "down" ELSE map.reverse[s]]
  <2>1. r \in [M!Sticks -> BOOLEAN]
    BY DEF Mappings
  <2>2. map' = [map EXCEPT !.abs[q] = M!AxisIndex(n), !.reverse = r]
    BY <1>1, <1>4
  <2> HIDE DEF r
  <2>3. map' = WithStick(map, q, M!AxisIndex(n), r)
    BY <2>2 DEF WithStick, WithAxis, WithReverse, Mappings
  <2>4. mapPhase' = mapPhase
    BY <1>1, <1>4
  <2>5. M!HasParms(n) => up \/ down
    BY <1>1, <1>2, <1>4
  <2> QED BY <2>1, <2>3, <2>4, <2>5 DEF up, down
<1> QED BY <1>3, <1>4

\* What an axis that is asked for may become.
LEMMA AxisAnswered ==
  ASSUME pad \in Pads, NEW m \in Mappings, \A x \in Names : Fits(m, x),
         NEW q \in M!Sticks \cup M!Triggers, NEW n \in Int, NEW r \in [M!Sticks -> BOOLEAN],
         n \in {-1, -2} \/ (OnAxis(q) /\ n = M!AxisIndex(Code(q))) \/ AfterPedal(q, n)
  PROVE  LET k == WithStick(m, q, n, r) IN
         /\ k \in Mappings
         /\ \A x \in Names : Fits(k, x)
         /\ \A x : x # q /\ Done(m, x) => Done(k, x)
<1> DEFINE k == WithStick(m, q, n, r)
<1>0. q \in M!Axial /\ q \notin M!Dpad
  BY NamesDiffer
<1>1. /\ k \in Mappings /\ k.btn = m.btn /\ k.hat = m.hat /\ k.dir = m.dir
      /\ \A x \in M!Axial : k.abs[x] = IF x = q THEN n ELSE m.abs[x]
  BY <1>0, SetStick
<1> HIDE DEF k
<1>2. ASSUME NEW x \in Names
      PROVE  Fits(k, x)
  <2>1. CASE x # q
    BY <1>1, <2>1, FitsSame
  <2>2. CASE x = q
    <3>1. k.abs[q] = n
      BY <1>0, <1>1
    <3>2. q \in M!Keyed => \/ k.btn[q] = -1
                           \/ OnKey(q) /\ k.btn[q] = M!KeyIndex(Code(q))
                           \/ q \in M!NeverAsked /\ k.btn[q] = 0
      BY <1>1, <2>2 DEF Fits
    <3>3. \/ k.abs[q] \in {-1, -2}
          \/ OnAxis(q) /\ k.abs[q] = M!AxisIndex(Code(q))
          \/ AfterPedal(q, k.abs[q])
      BY <3>1
    <3> QED BY <1>0, <2>2, <3>2, <3>3 DEF Fits
  <2> QED BY <2>1, <2>2
<1>3. \A x : x # q /\ Done(m, x) => Done(k, x)
  BY <1>1, DoneSame
<1> QED BY <1>1, <1>2, <1>3 DEF k

LEMMA AnswerIgnored ==
  ASSUME MappingInv, NEW c \in M!Controls, NEW p \in M!Positions(c), M!Answer(c, p),
         map' = map, mapPhase' = mapPhase, hats' \in [HatCodes -> {-1, 0, 1}],
         p # "rest" => ~OnHat(c),
         (\A k \in DOMAIN Steps : Over(k, step, "ask") => ~OnHat(M!Asked(k))) => hats' = M!CentredHats
  PROVE  MappingInv'
<1>1. mapPhase = "ask" /\ Dialogue(step, "ask", map, pos, hats)
  BY AnswerFacts
<1>2. map \in Mappings /\ \A x \in Names : Fits(map, x)
  BY <1>1 DEF Dialogue
<1> QED BY <1>1, <1>2, AnswerEnds

LEMMA MapEventFacts ==
  ASSUME pad \in Pads, NEW c, NEW v, M!MapEvent(c, v)
  PROVE  /\ OnAxis(c) =>
              /\ hats' = hats
              /\ IF M!Kind(step) \in {"abs", "abskey"} THEN M!MapAbs(Code(c), v)
                 ELSE map' = map /\ mapPhase' = mapPhase
         /\ OnHat(c) =>
              /\ hats' = [hats EXCEPT ![Code(c)] = v]
              /\ IF M!Kind(step) \in {"abs", "abskey"} THEN M!MapAbs(Code(c), v)
                 ELSE IF M!Kind(step) = "hatkey" THEN M!MapHat(Code(c), hats')
                 ELSE map' = map /\ mapPhase' = mapPhase
<1>1. ASSUME OnAxis(c)
      PROVE  /\ hats' = hats
             /\ IF M!Kind(step) \in {"abs", "abskey"} THEN M!MapAbs(Code(c), v)
                ELSE map' = map /\ mapPhase' = mapPhase
  <2>1. ~M!IsHat(Code(c)) /\ pad.wire[c].kind # "key"
    BY <1>1, PadFacts DEF M!IsHat, OnAxis
  <2> QED BY <2>1 DEF M!MapEvent, Code
<1>2. ASSUME OnHat(c)
      PROVE  /\ hats' = [hats EXCEPT ![Code(c)] = v]
             /\ IF M!Kind(step) \in {"abs", "abskey"} THEN M!MapAbs(Code(c), v)
                ELSE IF M!Kind(step) = "hatkey" THEN M!MapHat(Code(c), hats')
                ELSE map' = map /\ mapPhase' = mapPhase
  <2>1. M!IsHat(Code(c)) /\ pad.wire[c].kind # "key"
    BY <1>2, PadFacts DEF M!IsHat, OnHat, HatCodes
  <2> QED BY <2>1 DEF M!MapEvent, Code
<1> QED BY <1>1, <1>2

LEMMA AnswerAxis ==
  ASSUME MappingInv, NEW c \in M!Controls, NEW p \in M!Positions(c), M!Answer(c, p), OnAxis(c)
  PROVE  MappingInv'
<1> DEFINE q == M!Asked(step)
           n == M!AxisIndex(Code(c))
           v == M!Value(c, p)
<1>1. /\ pad \in Pads /\ step \in DOMAIN Steps /\ q \in Names \ M!NeverAsked
      /\ mapPhase = "ask" /\ Dialogue(step, "ask", map, pos, hats)
      /\ hats \in [HatCodes -> {-1, 0, 1}]
      /\ p \in {"rest", "half", "full"}
      /\ c # q => /\ p = "rest" /\ M!AskedBefore(c, q) /\ Lingers(c)
                  /\ q \in M!Axial => map.abs[q] = -1
      /\ M!MapEvent(c, v)
  BY AnswerFacts
<1>2. ~OnHat(c) /\ ~OnKey(c)
  BY KindsDiffer
<1>3. c \in M!Axial /\ Code(c) \in pad.axes /\ Code(c) \in Nat /\ n \in Nat
  BY <1>1, PadFacts
<1>4. /\ hats' = hats
      /\ IF M!Kind(step) \in {"abs", "abskey"} THEN M!MapAbs(Code(c), v)
         ELSE map' = map /\ mapPhase' = mapPhase
  BY <1>1, MapEventFacts
<1>5. /\ map \in Mappings /\ \A x \in Names : Fits(map, x)
      /\ \A k \in DOMAIN Steps : Over(k, step, "ask") => Done(map, M!Asked(k))
  BY <1>1 DEF Dialogue
<1>6. (\A k \in DOMAIN Steps : Over(k, step, mapPhase') => ~OnHat(M!Asked(k))) => hats' = M!CentredHats
  BY <1>1, <1>4, HatsStay
<1>7. CASE M!Kind(step) \notin {"abs", "abskey"}
  <2>1. map' = map /\ mapPhase' = mapPhase
    BY <1>4, <1>7
  <2>2. (\A k \in DOMAIN Steps : Over(k, step, "ask") => ~OnHat(M!Asked(k))) => hats' = M!CentredHats
    BY <1>1, <1>6, <2>1
  <2> QED BY <1>1, <1>2, <1>4, <2>1, <2>2, AnswerIgnored
<1>8. CASE M!Kind(step) \in {"abs", "abskey"}
  <2>1. q \in M!Sticks \cup M!Triggers /\ q \in M!Axial /\ q \notin M!Dpad
    BY <1>1, <1>8, StepsFacts, NamesDiffer
  <2>2. \/ map' = map /\ mapPhase' = (IF Code(c) = map.abs[q] THEN "drain" ELSE "ask")
        \/ /\ mapPhase' = mapPhase
           /\ \E r \in [M!Sticks -> BOOLEAN] : map' = WithStick(map, q, n, r)
           /\ M!HasParms(Code(c)) => \/ v > M!Avg(pad.parms) + M!HalfRange(pad.parms) \div 2
                                     \/ v < M!Avg(pad.parms) - M!HalfRange(pad.parms) \div 2
    BY <1>4, <1>5, <1>8, MapAbsChanges
  <2>3. c # q => c \in M!Sticks \cup M!Triggers /\ n = Code(c)
    <3> SUFFICES ASSUME c # q PROVE c \in M!Sticks \cup M!Triggers /\ n = Code(c)
      OBVIOUS
    <3>1. c \notin M!Dpad /\ c \in M!Sticks \cup M!Triggers
      BY <1>1, <1>2, <1>3, NamesDiffer DEF Lingers
    <3>2. Done(map, c)
      BY <1>1, <1>5, BeforeIsOver
    <3> QED BY <1>2, <3>1, <3>2 DEF Done
  <2>4. CASE map' = map /\ mapPhase' = (IF Code(c) = map.abs[q] THEN "drain" ELSE "ask")
    <3>1. mapPhase' = "drain" => Done(map', q) /\ Lingers(c)
      <4> SUFFICES ASSUME Code(c) = map.abs[q] PROVE Done(map, q) /\ Lingers(c)
        BY <2>4
      <4>1. c = q
        BY <1>1, <1>3, <2>1
      <4>2. \/ map.abs[q] \in {-1, -2}
            \/ OnAxis(q) /\ map.abs[q] = M!AxisIndex(Code(q))
            \/ AfterPedal(q, map.abs[q])
        BY <1>1, <1>5, <2>1 DEF Fits
      <4>3. ~AfterPedal(q, map.abs[q])
        <5> SUFFICES ASSUME NEW t \in M!Triggers, OnAxis(t), M!AskedBefore(t, q), map.abs[q] = M!AxisIndex(Code(t)),
                            M!AxisIndex(Code(t)) = Code(t)
                     PROVE  FALSE
          BY DEF AfterPedal
        <5>1. t # q
          BY StepsFacts DEF M!AskedBefore
        <5>2. Code(t) = Code(c)
          OBVIOUS
        <5>3. t \in M!Controls /\ pad.wire[c].kind = pad.wire[t].kind
          BY DEF OnAxis
        <5> QED BY <1>1, <2>1, <4>1, <5>1, <5>2, <5>3, PadFacts
      <4>4. map.abs[q] = M!AxisIndex(Code(q)) /\ M!AxisIndex(Code(q)) = Code(q)
        BY <1>3, <4>1, <4>2, <4>3
      <4> QED BY <2>1, <4>1, <4>4 DEF Done, Lingers
    <3>2. mapPhase' \in {"ask", "drain"}
      BY <2>4
    <3> QED BY <1>2, <1>1, <1>4, <1>5, <1>6, <2>4, <3>1, <3>2, AnswerEnds
  <2>5. CASE mapPhase' = mapPhase /\ \E r \in [M!Sticks -> BOOLEAN] : map' = WithStick(map, q, n, r)
    <3>1. PICK r \in [M!Sticks -> BOOLEAN] : map' = WithStick(map, q, n, r)
      BY <2>5
    <3>2. ASSUME c # q, c \in M!Sticks, mapPhase' = mapPhase,
                 M!HasParms(Code(c)) => \/ v > M!Avg(pad.parms) + M!HalfRange(pad.parms) \div 2
                                        \/ v < M!Avg(pad.parms) - M!HalfRange(pad.parms) \div 2
          PROVE  FALSE
      <4>1. M!HasParms(Code(c))
        BY <1>3, <2>3, <3>2 DEF M!HasParms
      <4>2. v = M!Avg(pad.parms)
        BY <1>1, <3>2, AxisValues, NamesDiffer
      <4>3. M!Avg(pad.parms) \in Int /\ M!HalfRange(pad.parms) \in Nat
        BY <1>1, ParmsFacts, Middle DEF Span
      <4>4. M!HalfRange(pad.parms) \div 2 \in Nat
        BY <4>3
      <4> HIDE DEF v
      <4> QED BY <3>2, <4>1, <4>2, <4>3, <4>4
    <3>3. CASE c # q /\ c \notin M!Triggers
      <4>1. c \in M!Sticks
        BY <2>3, <3>3
      <4>2. CASE map' = map /\ mapPhase' = (IF Code(c) = map.abs[q] THEN "drain" ELSE "ask")
        BY <2>4, <4>2
      <4> QED BY <2>2, <3>2, <3>3, <4>1, <4>2
    <3>4. CASE c = q \/ c \in M!Triggers
      <4>1. (OnAxis(q) /\ n = M!AxisIndex(Code(q))) \/ AfterPedal(q, n)
        BY <1>1, <2>3, <3>4 DEF AfterPedal
      <4>2. /\ map' \in Mappings
            /\ \A x \in Names : Fits(map', x)
            /\ \A x : x # q /\ Done(map, x) => Done(map', x)
        BY <1>1, <1>3, <1>5, <2>1, <3>1, <4>1, AxisAnswered
      <4> QED BY <1>1, <1>2, <1>4, <1>6, <2>5, <4>2, AnswerEnds
    <3> QED BY <3>3, <3>4
  <2> QED BY <2>2, <2>4, <2>5
<1> QED BY <1>7, <1>8

LEMMA HatPlaces ==
  ASSUME ABS_HAT0X \in Nat, NEW n \in HatCodes
  PROVE  LET h == M!HatNumber(n)
             x == ABS_HAT0X + 2 * h
         IN /\ h \in Nat /\ x \in HatCodes /\ x + 1 \in HatCodes
            /\ (n = x /\ n % 2 = ABS_HAT0X % 2) \/ (n = x + 1 /\ n % 2 # ABS_HAT0X % 2)
<1>1. n \in Nat /\ ABS_HAT0X <= n /\ n <= ABS_HAT0X + 5
  BY DEF HatCodes
<1> DEFINE d == n - ABS_HAT0X
           h == d \div 2
<1>2. d \in Nat /\ d <= 5 /\ (d = 2 * h \/ d = 2 * h + 1) /\ h \in Nat /\ h <= 2
  BY <1>1
<1>3. d = 2 * h => n % 2 = ABS_HAT0X % 2
  BY <1>1, <1>2
<1>4. d = 2 * h + 1 => n % 2 # ABS_HAT0X % 2
  BY <1>1, <1>2
<1>5. M!HatNumber(n) = h
  BY DEF M!HatNumber
<1>6. n = ABS_HAT0X + d
  BY <1>1
<1> HIDE DEF d, h
<1>7. ABS_HAT0X + 2 * h \in HatCodes /\ ABS_HAT0X + 2 * h + 1 \in HatCodes
  BY <1>2 DEF HatCodes
<1> QED BY <1>1, <1>2, <1>3, <1>4, <1>5, <1>6, <1>7

\* A direction is pushed when its hat says so.
LEMMA HatPushed ==
  ASSUME ABS_HAT0X \in Nat, NEW ht \in [HatCodes -> {-1, 0, 1}], NEW n \in HatCodes, NEW a \in HatCodes,
         NEW s \in {-1, 1}, M!HatNumber(a) = M!HatNumber(n)
  PROVE  M!Direction(a, s) \in M!HatState(ht, n) <=> ht[a] = s
<1> DEFINE h == M!HatNumber(n)
           x == ABS_HAT0X + 2 * h
           xs == IF ht[x] < 0 THEN {"left"} ELSE IF ht[x] > 0 THEN {"right"} ELSE {}
           ys == IF ht[x + 1] < 0 THEN {"up"} ELSE IF ht[x + 1] > 0 THEN {"down"} ELSE {}
<1>1. M!HatState(ht, n) = xs \cup ys
  BY DEF M!HatState
<1>2. /\ x \in HatCodes /\ x + 1 \in HatCodes
      /\ (a = x /\ a % 2 = ABS_HAT0X % 2) \/ (a = x + 1 /\ a % 2 # ABS_HAT0X % 2)
  BY HatPlaces
<1>3. ht[x] \in {-1, 0, 1} /\ ht[x + 1] \in {-1, 0, 1}
  BY <1>2
<1> HIDE DEF h, x
<1>4. CASE a = x /\ a % 2 = ABS_HAT0X % 2
  <2>1. M!Direction(a, s) = IF s < 0 THEN "left" ELSE "right"
    BY <1>4 DEF M!Direction
  <2>2. "left" \notin ys /\ "right" \notin ys
    OBVIOUS
  <2>3. M!Direction(a, s) \in xs <=> ht[a] = s
    BY <1>3, <1>4, <2>1
  <2>4. M!Direction(a, s) \notin ys
    BY <2>1, <2>2
  <2> HIDE DEF xs, ys
  <2> QED BY <1>1, <2>3, <2>4
<1>5. CASE a = x + 1 /\ a % 2 # ABS_HAT0X % 2
  <2>1. M!Direction(a, s) = IF s < 0 THEN "up" ELSE "down"
    BY <1>5 DEF M!Direction
  <2>2. "up" \notin xs /\ "down" \notin xs
    OBVIOUS
  <2>3. M!Direction(a, s) \in ys <=> ht[a] = s
    BY <1>3, <1>5, <2>1
  <2>4. M!Direction(a, s) \notin xs
    BY <2>1, <2>2
  <2> HIDE DEF xs, ys
  <2> QED BY <1>1, <2>3, <2>4
<1> QED BY <1>2, <1>4, <1>5

LEMMA HatAlone ==
  ASSUME ABS_HAT0X \in Nat, NEW ht \in [HatCodes -> {-1, 0, 1}], NEW n \in HatCodes, NEW s \in {-1, 1},
         ht[n] = s, \A a \in HatCodes : a # n => ht[a] = 0
  PROVE  M!HatState(ht, n) = {M!Direction(n, s)}
<1> DEFINE h == M!HatNumber(n)
           x == ABS_HAT0X + 2 * h
           xs == IF ht[x] < 0 THEN {"left"} ELSE IF ht[x] > 0 THEN {"right"} ELSE {}
           ys == IF ht[x + 1] < 0 THEN {"up"} ELSE IF ht[x + 1] > 0 THEN {"down"} ELSE {}
<1>1. M!HatState(ht, n) = xs \cup ys
  BY DEF M!HatState
<1>2. /\ x \in HatCodes /\ x + 1 \in HatCodes /\ h \in Nat /\ x \in Int /\ x # x + 1
      /\ (n = x /\ n % 2 = ABS_HAT0X % 2) \/ (n = x + 1 /\ n % 2 # ABS_HAT0X % 2)
  BY HatPlaces
<1> HIDE DEF h, x
<1>4. CASE n = x /\ n % 2 = ABS_HAT0X % 2
  <2>1. M!Direction(n, s) = IF s < 0 THEN "left" ELSE "right"
    BY <1>4 DEF M!Direction
  <2>2. ht[x] = s /\ ht[x + 1] = 0
    BY <1>2, <1>4
  <2>3. ys = {}
    BY <2>2
  <2>4. xs = {M!Direction(n, s)}
    BY <2>1, <2>2
  <2> HIDE DEF xs, ys
  <2> QED BY <1>1, <2>3, <2>4
<1>5. CASE n = x + 1 /\ n % 2 # ABS_HAT0X % 2
  <2>1. M!Direction(n, s) = IF s < 0 THEN "up" ELSE "down"
    BY <1>5 DEF M!Direction
  <2>2. ht[x] = 0 /\ ht[x + 1] = s
    BY <1>2, <1>5
  <2>3. xs = {}
    BY <2>2
  <2>4. ys = {M!Direction(n, s)}
    BY <2>1, <2>2
  <2> HIDE DEF xs, ys
  <2> QED BY <1>1, <2>3, <2>4
<1> QED BY <1>2, <1>4, <1>5

LEMMA HatValue ==
  ASSUME pad \in Pads, NEW c, OnHat(c), NEW p
  PROVE  /\ M!Value(c, p) = IF p = "full" THEN Sign(c) ELSE 0
         /\ M!Value(c, p) \in {-1, 0, 1}
<1>1. Sign(c) \in {-1, 1}
  BY PadFacts
<1>2. M!Value(c, p) = IF p = "full" THEN Sign(c) ELSE 0
  BY DEF M!Value, OnHat, Sign
<1> QED BY <1>1, <1>2

LEMMA AnswerHat ==
  ASSUME MappingInv, NEW c \in M!Controls, NEW p \in M!Positions(c), M!Answer(c, p), OnHat(c)
  PROVE  MappingInv'
<1> DEFINE q == M!Asked(step)
           v == M!Value(c, p)
<1>1. /\ pad \in Pads /\ step \in DOMAIN Steps /\ q \in Names \ M!NeverAsked
      /\ mapPhase = "ask" /\ Dialogue(step, "ask", map, pos, hats)
      /\ hats \in [HatCodes -> {-1, 0, 1}]
      /\ c # q => /\ p = "rest" /\ M!AskedBefore(c, q)
                  /\ q \in M!Axial => map.abs[q] = -1
      /\ c = q => p = "full"
      /\ M!MapEvent(c, v)
  BY AnswerFacts
<1>2. /\ ~OnAxis(c) /\ ~OnKey(c) /\ Lingers(c)
      /\ c \in M!Dpad /\ Code(c) \in HatCodes /\ Sign(c) \in {-1, 1} /\ ABS_HAT0X \in Nat
  BY <1>1, KindsDiffer, PadFacts DEF Lingers
<1>3. /\ hats' = [hats EXCEPT ![Code(c)] = v]
      /\ IF M!Kind(step) \in {"abs", "abskey"} THEN M!MapAbs(Code(c), v)
         ELSE IF M!Kind(step) = "hatkey" THEN M!MapHat(Code(c), hats')
         ELSE map' = map /\ mapPhase' = mapPhase
  BY <1>1, MapEventFacts
<1>4. hats' \in [HatCodes -> {-1, 0, 1}] /\ \A a \in HatCodes : hats'[a] = IF a = Code(c) THEN v ELSE hats[a]
  BY <1>1, <1>2, <1>3, HatValue
<1>5. map \in Mappings /\ \A x \in Names : Fits(map, x)
  BY <1>1 DEF Dialogue
<1> HIDE DEF v
<1>6. c # q => \A ph : \E k \in DOMAIN Steps : Over(k, step, ph) /\ OnHat(M!Asked(k))
  BY <1>1, BeforeIsOver
<1>7. CASE M!Kind(step) \in {"abs", "abskey"}
  <2>1. q \in M!Sticks \cup M!Triggers /\ q \in M!Axial /\ c # q
    BY <1>1, <1>2, <1>7, StepsFacts, NamesDiffer
  <2>2. M!AxisIndex(Code(c)) = -2
    <3>1. Code(c) \notin pad.axes
      <4>1. M!GoodPad(pad)
        BY <1>1, MappingAssumption
      <4>2. pad.axes \subseteq 0 .. ABS_HAT0X - 1
        BY <4>1 DEF M!GoodPad
      <4> QED BY <1>2, <4>2 DEF HatCodes
    <3> QED BY <3>1 DEF M!AxisIndex, M!AxisIndexOf
  <2>3. \/ map' = map /\ mapPhase' = (IF Code(c) = map.abs[q] THEN "drain" ELSE "ask")
        \/ /\ mapPhase' = mapPhase
           /\ \E r \in [M!Sticks -> BOOLEAN] : map' = WithStick(map, q, M!AxisIndex(Code(c)), r)
    BY <1>3, <1>5, <1>7, MapAbsChanges
  <2>4. CASE map' = map /\ mapPhase' = (IF Code(c) = map.abs[q] THEN "drain" ELSE "ask")
    <3>1. Code(c) # map.abs[q]
      BY <1>1, <1>2, <2>1 DEF HatCodes
    <3> QED BY <1>1, <1>4, <1>5, <1>6, <2>1, <2>4, <3>1, AnswerEnds
  <2>5. CASE mapPhase' = mapPhase /\ \E r \in [M!Sticks -> BOOLEAN] : map' = WithStick(map, q, M!AxisIndex(Code(c)), r)
    <3>1. PICK r \in [M!Sticks -> BOOLEAN] : map' = WithStick(map, q, -2, r)
      BY <2>2, <2>5
    <3>2. /\ map' \in Mappings
          /\ \A x \in Names : Fits(map', x)
          /\ \A x : x # q /\ Done(map, x) => Done(map', x)
      <4>1. -2 \in Int /\ -2 \in {-1, -2}
        OBVIOUS
      <4> QED BY <1>1, <1>5, <2>1, <3>1, <4>1, AxisAnswered
    <3> QED BY <1>1, <1>4, <1>6, <2>1, <2>5, <3>2, AnswerEnds
  <2> QED BY <2>3, <2>4, <2>5
<1>8. CASE M!Kind(step) = "hatkey"
  <2> DEFINE h == M!HatNumber(Code(c))
             s == M!HatState(hats', Code(c))
  <2>0. q \in M!Dpad
    BY <1>1, <1>8, StepsFacts
  <2>1. map' = WithHat(map, q, h, s) /\ mapPhase' = "drain"
    BY <1>3, <1>8 DEF M!MapHat, WithHat
  <2>2. h \in Int /\ s \in SUBSET M!AllBits
    BY <1>2, HatPlaces DEF M!HatState, M!AllBits
  <2> HIDE DEF h, s
  <2>3. /\ map' \in Mappings /\ map'.btn = map.btn /\ map'.abs = map.abs
        /\ \A x \in M!Dpad : /\ map'.hat[x] = IF x = q THEN h ELSE map.hat[x]
                             /\ map'.dir[x] = IF x = q THEN s ELSE map.dir[x]
    <3>1. map \in Mappings /\ q \in M!Dpad /\ h \in Int /\ s \in SUBSET M!AllBits
      BY <1>5, <2>0, <2>2
    <3> QED BY ONLY <2>1, <3>1, SetHat
  <2>4. OnHat(q) \/ AfterHat(q)
    BY <1>1 DEF AfterHat
  <2>5. ASSUME NEW x \in Names
        PROVE  Fits(map', x)
    <3>1. CASE x # q
      BY <1>5, <2>3, <3>1, FitsSame
    <3>2. CASE x = q
      <4>1. q \in M!Keyed => \/ map'.btn[q] = -1
                             \/ OnKey(q) /\ map'.btn[q] = M!KeyIndex(Code(q))
                             \/ q \in M!NeverAsked /\ map'.btn[q] = 0
        BY <1>5, <2>3, <3>2 DEF Fits
      <4>2. map'.abs[q] = -1
        BY <1>5, <2>0, <2>3, <3>2 DEF Fits
      <4> QED BY <2>0, <2>4, <3>2, <4>1, <4>2, NamesDiffer DEF Fits
    <3> QED BY <3>1, <3>2
  <2>6. \A x : x # q /\ Done(map, x) => Done(map', x)
    BY <1>1, <2>3, DoneSame
  <2>7. Done(map', q)
    <3>1. CASE AfterHat(q)
      BY <2>0, <3>1 DEF Done
    <3>2. CASE ~AfterHat(q)
      <4>1. c = q /\ p = "full"
        BY <1>1, <3>2 DEF AfterHat
      <4>2. \A k \in DOMAIN Steps : Over(k, step, "ask") => ~OnHat(M!Asked(k))
        <5> SUFFICES ASSUME NEW k \in DOMAIN Steps, Over(k, step, "ask"), OnHat(M!Asked(k)) PROVE FALSE
          OBVIOUS
        <5>1. k < step
          BY DEF Over
        <5> QED BY <1>1, <3>2, <5>1 DEF AfterHat, M!AskedBefore, OnHat
      <4>3. hats = M!CentredHats
        BY <1>1, <4>2, HatsStay
      <4>4. v = Sign(c)
        BY <1>1, <4>1, HatValue DEF v
      <4>5. hats'[Code(c)] = Sign(c) /\ \A a \in HatCodes : a # Code(c) => hats'[a] = 0
        BY <1>2, <1>4, <4>3, <4>4, CentredFacts
      <4>6. s = {M!Direction(Code(c), Sign(c))}
        BY <1>2, <1>4, <4>5, HatAlone DEF s
      <4> QED BY <2>0, <2>3, <4>1, <4>6 DEF Done, h
    <3> QED BY <3>1, <3>2
  <2>8. ~ \A k \in DOMAIN Steps : Over(k, step, mapPhase') => ~OnHat(M!Asked(k))
    <3>1. CASE c # q
      BY <1>6, <3>1
    <3>2. CASE c = q
      BY <1>1, <2>1, <3>2 DEF Over
    <3> QED BY <3>1, <3>2
  <2> QED BY <1>1, <1>2, <1>4, <2>1, <2>3, <2>5, <2>6, <2>7, <2>8, AnswerEnds
<1>9. CASE M!Kind(step) \notin {"abs", "abskey", "hatkey"}
  <2>1. c # q
    BY <1>1, <1>2, <1>9, StepsFacts
  <2>2. map' = map /\ mapPhase' = mapPhase
    BY <1>3, <1>9
  <2> QED BY <1>1, <1>4, <1>6, <2>1, <2>2, AnswerIgnored
<1> QED BY <1>7, <1>8, <1>9

LEMMA AnswerKeeps ==
  ASSUME MappingInv, NEW c \in M!Controls, NEW p \in M!Positions(c), M!Answer(c, p)
  PROVE  MappingInv'
<1>1. pad \in Pads
  BY DEF MappingInv
<1> QED BY <1>1, AnswerKey, AnswerAxis, AnswerHat, PadFacts

-----------------------------------------------------------------------------
(* The stream.                                                             *)

LEMMA LeastOne ==
  ASSUME NEW S, S \subseteq Nat, S # {}
  PROVE  M!Min(S) \in S /\ \A y \in S : M!Min(S) <= y
<1> DEFINE R == OpToRel(<, Nat)
<1>1. IsWellFoundedOn(R, Nat)
  BY NatLessThanWellFounded
<1>2. \A x, y \in Nat : <<y, x>> \in R <=> y < x
  BY DEF OpToRel
<1> HIDE DEF R
<1>3. \E x \in S : \A y \in S : ~ (<<y, x>> \in R)
  BY <1>1, WFMin
<1>4. \E x \in S : \A y \in S : x <= y
  <2>1. PICK x \in S : \A y \in S : ~ (<<y, x>> \in R)
    BY <1>3
  <2>2. ASSUME NEW y \in S PROVE x <= y
    <3>1. x \in Nat /\ y \in Nat
      OBVIOUS
    <3>2. ~ (y < x)
      BY <1>2, <2>1, <3>1
    <3> QED BY <3>1, <3>2
  <2> QED BY <2>2
<1> QED BY <1>4 DEF M!Min

LEMMA PlayFacts ==
  ASSUME MappingInv, NEW c \in M!Controls, NEW p \in M!Positions(c), M!Play(c, p)
  PROVE  /\ pad \in Pads /\ step \in DOMAIN Steps /\ mapPhase = "stream"
         /\ Loaded(map) /\ dev \in DeviceStates /\ hats \in [HatCodes -> {-1, 0, 1}]
         /\ \A x \in M!Controls : OnHat(x) => (hats[Code(x)] = Sign(x) <=> pos[x] = "full")
         /\ \A x \in M!Controls : x \notin Lost(map) => Heard(x, pos[x], dev)
         /\ Lost(map) = {} => dev.flags \subseteq M!Controls
         /\ M!CanMove(c, p) /\ p # pos[c]
         /\ pos' \in [M!Controls -> {"rest", "half", "full", "back"}]
         /\ \A x \in M!Controls : pos'[x] = (IF x = c THEN p ELSE pos[x]) /\ pos'[x] \in M!Positions(x)
         /\ \A x \in M!Controls : pos[x] \in M!Positions(x)
         /\ pad' = pad /\ source' = source /\ step' = step /\ mapPhase' = mapPhase /\ map' = map
<1>1. /\ mapPhase = "stream" /\ M!CanMove(c, p) /\ pos' = [pos EXCEPT ![c] = p]
      /\ pad' = pad /\ source' = source /\ step' = step /\ mapPhase' = mapPhase /\ map' = map
  BY DEF M!Play
<1>2. /\ pad \in Pads /\ step \in DOMAIN Steps /\ hats \in [HatCodes -> {-1, 0, 1}]
      /\ pos \in [M!Controls -> {"rest", "half", "full", "back"}]
      /\ \A x \in M!Controls : pos[x] \in M!Positions(x)
      /\ Played(map, pos, hats, dev)
  BY <1>1 DEF MappingInv, Going
<1>3. p # pos[c]
  BY <1>1 DEF M!CanMove
<1>4. p \in {"rest", "half", "full", "back"}
  BY DEF M!Positions
<1>5. /\ pos' \in [M!Controls -> {"rest", "half", "full", "back"}]
      /\ \A x \in M!Controls : pos'[x] = (IF x = c THEN p ELSE pos[x]) /\ pos'[x] \in M!Positions(x)
  BY <1>1, <1>2, <1>4
<1>6. /\ Loaded(map) /\ dev \in DeviceStates
      /\ \A x \in M!Controls : OnHat(x) => (hats[Code(x)] = Sign(x) <=> pos[x] = "full")
      /\ \A x \in M!Controls : x \notin Lost(map) => Heard(x, pos[x], dev)
      /\ Lost(map) = {} => dev.flags \subseteq M!Controls
  BY <1>2 DEF Played
<1> QED BY <1>1, <1>2, <1>3, <1>5, <1>6

\* What is left to show of an event of the stream.
LEMMA PlayEnds ==
  ASSUME MappingInv, NEW c \in M!Controls, NEW p \in M!Positions(c), M!Play(c, p),
         dev' \in DeviceStates, hats' \in [HatCodes -> {-1, 0, 1}],
         \A x \in M!Controls : OnHat(x) => (hats'[Code(x)] = Sign(x) <=> pos'[x] = "full"),
         \A x \in M!Controls : x \notin Lost(map) => Heard(x, pos'[x], dev'),
         Lost(map) = {} => dev'.flags \subseteq M!Controls
  PROVE  MappingInv'
<1>1. /\ pad \in Pads /\ step \in DOMAIN Steps /\ mapPhase = "stream" /\ Loaded(map)
      /\ pos' \in [M!Controls -> {"rest", "half", "full", "back"}]
      /\ \A x \in M!Controls : pos'[x] \in M!Positions(x)
      /\ pad' = pad /\ source' = source /\ step' = step /\ mapPhase' = mapPhase /\ map' = map
  BY PlayFacts
<1>2. Played(map, pos', hats', dev')
  BY <1>1 DEF Played
<1>3. Going(step', mapPhase', map', pos', hats', dev')
  BY <1>1, <1>2 DEF Going
<1> QED BY <1>1, <1>3, MappingStays

\* A control whose state the host has does not care for the others.
LEMMA HeardSame ==
  ASSUME NEW c, NEW p, NEW d, NEW e, Heard(c, p, d),
         c \in M!Sticks => e.stick[c] = d.stick[c],
         c \in M!Triggers => e.trigger[c] = d.trigger[c],
         c \notin M!Sticks \cup M!Triggers => (c \in e.flags <=> c \in d.flags)
  PROVE  Heard(c, p, e)
<1>1. CASE c \in M!Sticks
  BY <1>1 DEF Heard
<1>2. CASE c \in M!Triggers
  BY <1>2, NamesDiffer DEF Heard
<1>3. CASE c \notin M!Sticks \cup M!Triggers
  BY <1>3 DEF Heard
<1> QED BY <1>1, <1>2, <1>3

WithTrigger(d, c, v) == [d EXCEPT !.trigger[c] = v]
WithButtons(d, on, off) == [d EXCEPT !.flags = (@ \cup on) \ off]

LEMMA SetTrigger ==
  ASSUME NEW d \in DeviceStates, NEW c \in M!Triggers, NEW v \in 0 .. M!UCHAR_MAX
  PROVE  LET e == WithTrigger(d, c, v) IN
         /\ e \in DeviceStates /\ e.flags = d.flags /\ e.stick = d.stick
         /\ \A x \in M!Triggers : e.trigger[x] = IF x = c THEN v ELSE d.trigger[x]
<1> DEFINE f == [d.trigger EXCEPT ![c] = v]
           e == [d EXCEPT !.trigger = f]
<1>1. WithTrigger(d, c, v) = e
  BY DEF WithTrigger
<1>2. f \in [M!Triggers -> 0 .. M!UCHAR_MAX] /\ \A x \in M!Triggers : f[x] = IF x = c THEN v ELSE d.trigger[x]
  BY DEF DeviceStates
<1> HIDE DEF f
<1>3. e \in DeviceStates /\ e.trigger = f /\ e.flags = d.flags /\ e.stick = d.stick
  BY <1>2 DEF DeviceStates
<1> HIDE DEF e
<1> QED BY <1>1, <1>2, <1>3

LEMMA SetButtons ==
  ASSUME NEW d \in DeviceStates, NEW on, on \subseteq M!Keyed \ M!Triggers, NEW off
  PROVE  LET e == WithButtons(d, on, off) IN
         /\ e \in DeviceStates /\ e.stick = d.stick /\ e.trigger = d.trigger
         /\ e.flags = (d.flags \cup on) \ off
BY DEF WithButtons, DeviceStates

LEMMA HatsAsTheyWere ==
  ASSUME MappingInv, NEW c \in M!Controls, NEW p \in M!Positions(c), M!Play(c, p), ~OnHat(c), hats' = hats
  PROVE  \A x \in M!Controls : OnHat(x) => (hats'[Code(x)] = Sign(x) <=> pos'[x] = "full")
<1>1. \A x \in M!Controls : OnHat(x) => (hats[Code(x)] = Sign(x) <=> pos[x] = "full")
  BY PlayFacts
<1>2. \A x \in M!Controls : OnHat(x) => pos'[x] = pos[x]
  BY PlayFacts
<1> QED BY <1>1, <1>2

LEMMA PlayKey ==
  ASSUME MappingInv, NEW c \in M!Controls, NEW p \in M!Positions(c), M!Play(c, p), OnKey(c)
  PROVE  MappingInv'
<1> DEFINE n == M!KeyIndex(Code(c))
           mine == {i \in DOMAIN M!ButtonOrder : map.btn[M!ButtonOrder[i]] = n}
           b == M!ButtonOrder[M!Min(mine)]
           down == p = "full"
<1>1. /\ pad \in Pads /\ Loaded(map) /\ dev \in DeviceStates /\ hats \in [HatCodes -> {-1, 0, 1}]
      /\ \A x \in M!Controls : x \notin Lost(map) => Heard(x, pos[x], dev)
      /\ Lost(map) = {} => dev.flags \subseteq M!Controls
      /\ \A x \in M!Controls : pos'[x] = IF x = c THEN p ELSE pos[x]
  BY PlayFacts
<1>2. /\ ~OnHat(c) /\ ~OnAxis(c) /\ c \in M!Keyed /\ c \notin M!NeverAsked /\ n \in Nat /\ Sign(c) = 1
  BY <1>1, KindsDiffer, PadFacts
<1>3. p \in {"rest", "full"} /\ (M!Value(c, p) # 0 <=> p = "full")
  <2>1. M!Positions(c) = {"rest", "full"}
    BY DEF OnKey, M!Positions
  <2>2. M!Value(c, p) = IF p = "full" THEN 1 ELSE 0
    BY <1>2 DEF M!Value, OnKey, Sign
  <2> QED BY <2>1, <2>2
<1>4. hats' = hats /\ dev' = M!KeyEvent(Code(c), M!Value(c, p) # 0)
  BY DEF M!Play, OnKey, Code
<1>5. \A x \in M!Controls : OnHat(x) => (hats'[Code(x)] = Sign(x) <=> pos'[x] = "full")
  BY <1>2, <1>4, HatsAsTheyWere
<1>6. ButtonsLoaded(map) /\ ControlsLoaded(map) /\ TriggersLoaded(map)
  BY <1>1 DEF Loaded
<1>7. c \notin Lost(map) => \E i \in mine : M!ButtonOrder[i] = c
  <2>1. c \notin Lost(map) => map.btn[c] = n
    BY <1>6 DEF ControlsLoaded
  <2>2. \E i \in DOMAIN M!ButtonOrder : M!ButtonOrder[i] = c
    BY <1>2, ButtonPlaces
  <2> QED BY <2>1, <2>2
<1>8. mine \subseteq Nat
  BY ButtonPlaces
<1>9. CASE mine = {}
  <2>1. dev' = dev /\ c \in Lost(map)
    BY <1>4, <1>7, <1>9 DEF M!KeyEvent
  <2> QED BY <1>1, <1>4, <1>5, <2>1, PlayEnds
<1>10. CASE mine # {}
  <2>1. M!Min(mine) \in mine /\ \A y \in mine : M!Min(mine) <= y
    BY <1>8, <1>10, LeastOne
  <2>2. M!Min(mine) \in 1 .. 23 /\ b \in M!Keyed /\ map.btn[b] = n
    BY <2>1, ButtonPlaces
  <2>3. b = c \/ (b \in M!NeverAsked /\ n = 0 /\ source = "wizard")
    <3>1. \/ map.btn[b] = -1
          \/ OnKey(b) /\ map.btn[b] = M!KeyIndex(Code(b))
          \/ source = "wizard" /\ b \in M!NeverAsked /\ map.btn[b] = 0
      BY <1>6, <2>2 DEF ButtonsLoaded
    <3>2. OnKey(b) /\ M!KeyIndex(Code(b)) = n => b = c
      BY <1>1, PadFacts
    <3> HIDE DEF b, n
    <3> QED BY <1>2, <2>2, <3>1, <3>2
  <2>4. c \notin Lost(map) => b = c
    <3> SUFFICES ASSUME c \notin Lost(map), b # c PROVE FALSE
      OBVIOUS
    <3>1. b \in M!NeverAsked /\ n = 0 /\ source = "wizard"
      BY <2>3
    <3>2. M!Min(mine) > 15
      BY <2>2, <3>1, ButtonPlaces
    <3>3. PICK i \in mine : M!ButtonOrder[i] = c
      BY <1>7
    <3>4. i \in 1 .. 23 /\ i > 15
      <4>1. i \in 1 .. 23
        BY <3>3, ButtonPlaces
      <4>2. M!Min(mine) <= i
        BY <2>1, <3>3
      <4> QED BY <2>2, <3>2, <4>1, <4>2
    <3>5. c \in M!Triggers
      BY <1>2, <3>3, <3>4, ButtonPlaces
    <3> QED BY <1>6, <3>1, <3>5 DEF TriggersLoaded
  <2>5. dev' = IF b \in M!Triggers THEN WithTrigger(dev, b, IF down THEN M!UCHAR_MAX ELSE 0)
               ELSE IF down THEN WithButtons(dev, {b}, {}) ELSE WithButtons(dev, {}, {b})
    BY <1>3, <1>4, <1>10 DEF M!KeyEvent, M!WithFlags, WithTrigger, WithButtons
  <2> HIDE DEF b, mine, n
  <2>6. /\ dev' \in DeviceStates /\ dev'.stick = dev.stick
        /\ \A x \in M!Triggers : dev'.trigger[x] =
             IF x = b THEN IF down THEN M!UCHAR_MAX ELSE 0 ELSE dev.trigger[x]
        /\ \A x : x \notin M!Triggers =>
             (x \in dev'.flags <=> IF x = b THEN down ELSE x \in dev.flags)
        /\ dev'.flags \subseteq dev.flags \cup {b}
    <3>1. CASE b \in M!Triggers
      <4> DEFINE w == IF down THEN M!UCHAR_MAX ELSE 0
      <4>1. w \in 0 .. M!UCHAR_MAX
        BY Shorts
      <4>2. dev' = WithTrigger(dev, b, w)
        BY <2>5, <3>1
      <4>3. w = IF down THEN M!UCHAR_MAX ELSE 0
        OBVIOUS
      <4> HIDE DEF w, down
      <4>4. /\ dev' \in DeviceStates /\ dev'.flags = dev.flags /\ dev'.stick = dev.stick
            /\ \A x \in M!Triggers : dev'.trigger[x] = IF x = b THEN w ELSE dev.trigger[x]
        <5>1. dev \in DeviceStates
          BY <1>1
        <5> QED BY ONLY <3>1, <4>1, <4>2, <5>1, SetTrigger
      <4> QED BY <3>1, <4>3, <4>4
    <3>2. CASE b \notin M!Triggers /\ down
      <4>1. dev' = WithButtons(dev, {b}, {}) /\ {b} \subseteq M!Keyed \ M!Triggers
        BY <2>2, <2>5, <3>2
      <4>2. /\ dev' \in DeviceStates /\ dev'.stick = dev.stick /\ dev'.trigger = dev.trigger
            /\ dev'.flags = (dev.flags \cup {b}) \ {}
        <5>1. dev \in DeviceStates
          BY <1>1
        <5> QED BY ONLY <4>1, <5>1, SetButtons
      <4> QED BY <3>2, <4>2
    <3>3. CASE b \notin M!Triggers /\ ~down
      <4>1. dev' = WithButtons(dev, {}, {b}) /\ {} \subseteq M!Keyed \ M!Triggers
        BY <2>2, <2>5, <3>3
      <4>2. /\ dev' \in DeviceStates /\ dev'.stick = dev.stick /\ dev'.trigger = dev.trigger
            /\ dev'.flags = (dev.flags \cup {}) \ {b}
        <5>1. dev \in DeviceStates
          BY <1>1
        <5> QED BY ONLY <4>1, <5>1, SetButtons
      <4> QED BY <3>3, <4>2
    <3> QED BY <3>1, <3>2, <3>3
  <2>7. ASSUME NEW x \in M!Controls, x \notin Lost(map)
        PROVE  Heard(x, pos'[x], dev')
    <3>1. CASE x # c
      <4>1. x # b /\ pos'[x] = pos[x] /\ Heard(x, pos[x], dev)
        BY <1>1, <2>3, <2>7, <3>1, PadFacts
      <4> QED BY <2>6, <4>1, HeardSame
    <3>2. CASE x = c
      <4>1. b = c /\ pos'[c] = p
        BY <1>1, <2>4, <2>7, <3>2
      <4>2. c \notin M!Sticks
        BY <1>2, NamesDiffer
      <4>3. CASE c \in M!Triggers
        BY <1>3, <2>6, <3>2, <4>1, <4>2, <4>3 DEF Heard
      <4>4. CASE c \notin M!Triggers
        BY <1>3, <2>6, <3>2, <4>1, <4>2, <4>4 DEF Heard
      <4> QED BY <4>3, <4>4
    <3> QED BY <3>1, <3>2
  <2>8. Lost(map) = {} => dev'.flags \subseteq M!Controls
    BY <1>1, <2>4, <2>6
  <2> QED BY <1>1, <1>4, <1>5, <2>6, <2>7, <2>8, PlayEnds
<1> QED BY <1>9, <1>10

LEMMA PlayHat ==
  ASSUME MappingInv, NEW c \in M!Controls, NEW p \in M!Positions(c), M!Play(c, p), OnHat(c)
  PROVE  MappingInv'
<1> DEFINE n == M!HatNumber(Code(c))
           mine == {x \in M!Dpad : map.hat[x] = n}
           on == {x \in mine : map.dir[x] \subseteq M!HatState(hats', Code(c))}
<1>1. /\ pad \in Pads /\ Loaded(map) /\ dev \in DeviceStates /\ hats \in [HatCodes -> {-1, 0, 1}]
      /\ \A x \in M!Controls : OnHat(x) => (hats[Code(x)] = Sign(x) <=> pos[x] = "full")
      /\ \A x \in M!Controls : x \notin Lost(map) => Heard(x, pos[x], dev)
      /\ Lost(map) = {} => dev.flags \subseteq M!Controls
      /\ M!CanMove(c, p) /\ p # pos[c] /\ pos[c] \in M!Positions(c)
      /\ \A x \in M!Controls : pos'[x] = IF x = c THEN p ELSE pos[x]
  BY PlayFacts
<1>2. /\ ~OnKey(c) /\ ~OnAxis(c) /\ c \in M!Dpad /\ Code(c) \in HatCodes /\ Sign(c) \in {-1, 1}
      /\ ABS_HAT0X \in Nat /\ n \in Nat
  BY <1>1, KindsDiffer, PadFacts, HatPlaces
<1>3. /\ p \in {"rest", "full"} /\ pos[c] \in {"rest", "full"}
      /\ M!Value(c, p) = (IF p = "full" THEN Sign(c) ELSE 0) /\ M!Value(c, p) \in {-1, 0, 1}
  <2>1. M!Positions(c) = {"rest", "full"}
    BY DEF OnHat, M!Positions
  <2> QED BY <1>1, <2>1, HatValue
<1>4. hats' = [hats EXCEPT ![Code(c)] = M!Value(c, p)] /\ dev' = M!HatEvent(Code(c), hats')
  BY DEF M!Play, OnHat, Code
<1>5. /\ hats' \in [HatCodes -> {-1, 0, 1}]
      /\ \A a \in HatCodes : hats'[a] = IF a = Code(c) THEN M!Value(c, p) ELSE hats[a]
  BY <1>1, <1>2, <1>3, <1>4
<1>6. ASSUME NEW x \in M!Controls, OnHat(x) PROVE hats'[Code(x)] = Sign(x) <=> pos'[x] = "full"
  <2>1. Code(x) \in HatCodes /\ Sign(x) \in {-1, 1}
    BY <1>1, <1>6, PadFacts
  <2>2. CASE Code(x) # Code(c)
    BY <1>1, <1>5, <1>6, <2>1, <2>2
  <2>3. CASE x = c
    BY <1>1, <1>2, <1>3, <1>5, <2>3
  <2>4. CASE Code(x) = Code(c) /\ x # c
    <3>1. Sign(c) = -Sign(x)
      <4>1. pad.wire[x].kind = pad.wire[c].kind
        BY <1>6 DEF OnHat
      <4> QED BY <1>1, <2>4, <4>1, PadFacts
    <3>2. CASE p = "full"
      <4>1. pos[x] = "rest"
        BY <1>1, <2>4, <3>2 DEF M!CanMove, Code
      <4>2. hats'[Code(x)] = Sign(c)
        BY <1>3, <1>5, <2>1, <2>4, <3>2
      <4> QED BY <1>1, <1>2, <2>1, <2>4, <3>1, <4>1, <4>2
    <3>3. CASE p = "rest"
      <4>1. pos[c] = "full"
        BY <1>1, <1>3, <3>3
      <4>2. hats[Code(x)] = Sign(c)
        BY <1>1, <2>4, <4>1
      <4>3. pos[x] # "full"
        BY <1>1, <1>2, <1>6, <2>1, <3>1, <4>2
      <4>4. hats'[Code(x)] = 0
        BY <1>3, <1>5, <2>1, <2>4, <3>3
      <4> QED BY <1>1, <2>1, <2>4, <4>3, <4>4
    <3> QED BY <1>3, <3>2, <3>3
  <2> QED BY <2>2, <2>3, <2>4
<1>7. HatsLoaded(map)
  BY <1>1 DEF Loaded
<1>8. ASSUME NEW x \in M!Dpad, x \notin Lost(map), x \in mine
      PROVE  OnHat(x) /\ (x \in on <=> pos'[x] = "full")
  <2>1. OnHat(x) /\ map.hat[x] = M!HatNumber(Code(x)) /\ map.dir[x] = {M!Direction(Code(x), Sign(x))}
    <3>1. map.hat[x] = n /\ map.hat[x] # -1
      BY <1>2, <1>8
    <3> QED BY <1>7, <1>8, <3>1 DEF HatsLoaded
  <2>2. x \in M!Controls /\ Code(x) \in HatCodes /\ Sign(x) \in {-1, 1}
    BY <1>1, <2>1, PadFacts DEF OnHat
  <2>3. M!HatNumber(Code(x)) = M!HatNumber(Code(c))
    BY <1>8, <2>1
  <2>4. M!Direction(Code(x), Sign(x)) \in M!HatState(hats', Code(c)) <=> hats'[Code(x)] = Sign(x)
    <3> DEFINE ht == hats'
    <3>1. ht \in [HatCodes -> {-1, 0, 1}]
      BY <1>5
    <3> HIDE DEF ht
    <3>2. M!Direction(Code(x), Sign(x)) \in M!HatState(ht, Code(c)) <=> ht[Code(x)] = Sign(x)
      BY <1>2, <2>2, <2>3, <3>1, HatPushed
    <3> QED BY <3>2 DEF ht
  <2>5. x \in on <=> M!Direction(Code(x), Sign(x)) \in M!HatState(hats', Code(c))
    BY <1>8, <2>1
  <2> QED BY <1>6, <2>1, <2>2, <2>4, <2>5
<1>9. dev' = WithButtons(dev, on, mine \ on)
  BY <1>4 DEF M!HatEvent, M!WithFlags, WithButtons
<1>10. on \subseteq mine /\ mine \subseteq M!Dpad /\ \A x \in M!Dpad : x \in mine <=> map.hat[x] = n
  OBVIOUS
<1> HIDE DEF on, mine, n
<1>11. /\ dev' \in DeviceStates /\ dev'.stick = dev.stick /\ dev'.trigger = dev.trigger
       /\ dev'.flags = (dev.flags \cup on) \ (mine \ on)
  <2> DEFINE off == mine \ on
  <2>1. dev \in DeviceStates /\ on \subseteq M!Keyed \ M!Triggers
    BY <1>1, <1>10, NamesDiffer
  <2>2. dev' = WithButtons(dev, on, off)
    BY <1>9
  <2> HIDE DEF off
  <2>3. /\ dev' \in DeviceStates /\ dev'.stick = dev.stick /\ dev'.trigger = dev.trigger
        /\ dev'.flags = (dev.flags \cup on) \ off
    <3>1. WithButtons(dev, on, off) \in DeviceStates
      BY ONLY <2>1, SetButtons
    <3>2. WithButtons(dev, on, off).stick = dev.stick
      BY <2>1 DEF WithButtons, DeviceStates
    <3>3. WithButtons(dev, on, off).trigger = dev.trigger
      BY <2>1 DEF WithButtons, DeviceStates
    <3>4. WithButtons(dev, on, off).flags = (dev.flags \cup on) \ off
      BY ONLY <2>1, SetButtons
    <3> QED BY <2>2, <3>1, <3>2, <3>3, <3>4
  <2> QED BY <2>3 DEF off
<1>12. ASSUME NEW x \in M!Controls, x \notin Lost(map) PROVE Heard(x, pos'[x], dev')
  <2>1. CASE x \in mine
    <3>1. x \in M!Dpad /\ (x \in on <=> pos'[x] = "full") /\ (x \in dev'.flags <=> x \in on)
      BY <1>8, <1>10, <1>11, <1>12, <2>1
    <3>2. x \notin M!Sticks /\ x \notin M!Triggers
      BY <3>1, NamesDiffer
    <3> QED BY <3>1, <3>2 DEF Heard
  <2>2. CASE x \notin mine
    <3>1. x # c
      <4> SUFFICES ASSUME x = c PROVE FALSE
        OBVIOUS
      <4>1. map.hat[c] = n
        BY <1>2, <1>7, <1>12 DEF HatsLoaded, n
      <4> QED BY <1>2, <1>10, <2>2, <4>1
    <3>2. pos'[x] = pos[x] /\ Heard(x, pos[x], dev)
      BY <1>1, <1>12, <3>1
    <3>3. x \in dev'.flags <=> x \in dev.flags
      BY <1>10, <1>11, <2>2
    <3> QED BY <1>11, <3>2, <3>3, HeardSame
  <2> QED BY <2>1, <2>2
<1>13. Lost(map) = {} => dev'.flags \subseteq M!Controls
  <2> SUFFICES ASSUME Lost(map) = {}, NEW x \in dev'.flags PROVE x \in M!Controls
    OBVIOUS
  <2>1. x \in dev.flags \/ x \in on
    BY <1>11
  <2>2. x \in on => OnHat(x)
    BY <1>8, <1>10
  <2> QED BY <1>1, <2>1, <2>2 DEF OnHat
<1> QED BY <1>5, <1>6, <1>11, <1>12, <1>13, PlayEnds

LEMMA StickPlaces ==
  /\ \A i \in DOMAIN M!StickOrder : M!StickOrder[i] \in M!Sticks
  /\ \A i, j \in DOMAIN M!StickOrder : M!StickOrder[i] = M!StickOrder[j] => i = j
  /\ \A i \in DOMAIN M!StickOrder : i \in Int
<1>1. DOMAIN M!StickOrder = {1, 2, 3, 4}
  BY DEF M!StickOrder
<1> QED BY <1>1 DEF M!StickOrder, M!Sticks

\* What a stick is told, and a trigger.
StickValue(m, x, v) == M!evdev_convert_value(v, pad.parms, (M!Natural(x) = -1) # m.reverse[x])
ByteValue(m, x, v) == M!evdev_convert_value_byte(v, pad.parms, m.half[x])

LEMMA StickWay ==
  ASSUME NEW m \in Mappings, NEW x \in M!Sticks, NEW v
  PROVE  /\ (M!Natural(x) = -1) = m.reverse[x] => StickValue(m, x, v) = M!evdev_convert_value(v, pad.parms, FALSE)
         /\ (M!Natural(x) = -1) # m.reverse[x] => StickValue(m, x, v) = M!evdev_convert_value(v, pad.parms, TRUE)
<1>1. ((M!Natural(x) = -1) # m.reverse[x]) \in BOOLEAN
  OBVIOUS
<1>2. CASE (M!Natural(x) = -1) # m.reverse[x]
  <2>1. ((M!Natural(x) = -1) # m.reverse[x]) = TRUE
    BY <1>2
  <2> QED BY <1>2, <2>1, Zenon DEF StickValue
<1>3. CASE (M!Natural(x) = -1) = m.reverse[x]
  <2>1. ((M!Natural(x) = -1) # m.reverse[x]) = FALSE
    BY <1>3
  <2> QED BY <1>3, <2>1, Zenon DEF StickValue
<1> QED BY <1>2, <1>3

\* A value between the ends of the axis comes to one of the stick's.
LEMMA StickRange ==
  ASSUME pad \in Pads, NEW m \in Mappings, NEW x \in M!Sticks, NEW c, OnAxis(c),
         NEW p \in {"rest", "half", "full", "back"}
  PROVE  StickValue(m, x, M!Value(c, p)) \in M!SHRT_MIN .. M!SHRT_MAX
<1> DEFINE v == M!Value(c, p)
<1>1. Span(pad.parms) /\ v \in Int /\ pad.parms.min <= v /\ v <= pad.parms.max
  BY AxisValues
<1> HIDE DEF v
<1>2. M!evdev_convert_value(v, pad.parms, FALSE) \in M!SHRT_MIN .. M!SHRT_MAX
  BY <1>1, ConvertStraight
<1>3. M!evdev_convert_value(v, pad.parms, TRUE) \in M!SHRT_MIN .. M!SHRT_MAX
  BY <1>1, ConvertReversed
<1>4. StickValue(m, x, v) = M!evdev_convert_value(v, pad.parms, FALSE) \/ StickValue(m, x, v) = M!evdev_convert_value(v, pad.parms, TRUE)
  BY StickWay
<1>5. StickValue(m, x, v) \in M!SHRT_MIN .. M!SHRT_MAX
  BY <1>2, <1>3, <1>4
<1> QED BY <1>5 DEF v

LEMMA StickTold ==
  ASSUME pad \in Pads, NEW m \in Mappings, NEW c \in M!Sticks, OnAxis(c), NEW p \in {"rest", "half", "full", "back"},
         m.reverse[c] <=> Sign(c) # M!Natural(c)
  PROVE  /\ p = "rest" /\ pad.parms.flat > 0 => StickValue(m, c, M!Value(c, p)) = 0
         /\ p = "full" => StickValue(m, c, M!Value(c, p)) = M!SHRT_MAX
         /\ p = "back" => StickValue(m, c, M!Value(c, p)) = M!SHRT_MIN
<1> DEFINE v == M!Value(c, p)
<1>1. /\ Span(pad.parms) /\ v \in Int /\ pad.parms.min <= v /\ v <= pad.parms.max
      /\ p = "full" => v = IF Sign(c) = 1 THEN pad.parms.max ELSE pad.parms.min
      /\ p = "back" => v = IF Sign(c) = 1 THEN pad.parms.min ELSE pad.parms.max
      /\ p = "rest" => v = M!Avg(pad.parms)
  BY AxisValues, NamesDiffer
<1>2. Sign(c) \in {-1, 1} /\ M!Natural(c) \in {-1, 1} /\ m.reverse[c] \in BOOLEAN
  BY PadFacts DEF M!Natural, Mappings
<1> HIDE DEF v
<1>3. CASE Sign(c) = 1
  <2>1. (M!Natural(c) = -1) = m.reverse[c]
    BY <1>2, <1>3
  <2>2. StickValue(m, c, v) = M!evdev_convert_value(v, pad.parms, FALSE)
    BY <2>1, StickWay
  <2>3. /\ v = pad.parms.max => StickValue(m, c, v) = M!SHRT_MAX
        /\ v = pad.parms.min => StickValue(m, c, v) = M!SHRT_MIN
        /\ v = M!Avg(pad.parms) /\ pad.parms.flat > 0 => StickValue(m, c, v) = 0
    BY <1>1, <2>2, ConvertStraight
  <2> QED BY <1>1, <1>3, <2>3 DEF v
<1>4. CASE Sign(c) = -1
  <2>1. (M!Natural(c) = -1) # m.reverse[c]
    BY <1>2, <1>4
  <2>2. StickValue(m, c, v) = M!evdev_convert_value(v, pad.parms, TRUE)
    BY <2>1, StickWay
  <2>3. /\ v = pad.parms.max => StickValue(m, c, v) = M!SHRT_MIN
        /\ v = pad.parms.min => StickValue(m, c, v) = M!SHRT_MAX
        /\ v = M!Avg(pad.parms) /\ pad.parms.flat > 0 => StickValue(m, c, v) = 0
    BY <1>1, <2>2, ConvertReversed
  <2> QED BY <1>1, <1>4, <2>3 DEF v
<1> QED BY <1>2, <1>3, <1>4

LEMMA TriggerTold ==
  ASSUME pad \in Pads, NEW m, NEW x, m.half[x] = "", NEW c, OnAxis(c), NEW p \in {"rest", "half", "full", "back"}
  PROVE  /\ ByteValue(m, x, M!Value(c, p)) \in 0 .. M!UCHAR_MAX
         /\ c \in M!Triggers /\ p = "rest" => ByteValue(m, x, M!Value(c, p)) = 0
         /\ c \in M!Triggers /\ p = "full" => ByteValue(m, x, M!Value(c, p)) = M!UCHAR_MAX
<1> DEFINE v == M!Value(c, p)
<1>1. /\ Span(pad.parms) /\ v \in Int /\ pad.parms.min <= v /\ v <= pad.parms.max
      /\ p = "full" /\ c \in M!Triggers => v = pad.parms.max
      /\ p = "rest" /\ c \in M!Triggers => v = pad.parms.min
  BY AxisValues, PadFacts
<1> HIDE DEF v
<1>2. ByteValue(m, x, v) = M!evdev_convert_value_byte(v, pad.parms, "")
  BY Zenon DEF ByteValue
<1>3. /\ M!evdev_convert_value_byte(v, pad.parms, "") \in 0 .. M!UCHAR_MAX
      /\ v = pad.parms.max => M!evdev_convert_value_byte(v, pad.parms, "") = M!UCHAR_MAX
      /\ v = pad.parms.min => M!evdev_convert_value_byte(v, pad.parms, "") = 0
  BY <1>1, ConvertByte
<1> QED BY <1>1, <1>2, <1>3 DEF v

\* What an event of an axis leaves.
LEMMA AbsEventFacts ==
  ASSUME NEW code, NEW v
  PROVE  LET e == M!AbsEvent(code, v)
             mine(x) == map.abs[x] = M!AxisIndex(code)
         IN /\ e = [flags |-> e.flags, trigger |-> e.trigger, stick |-> e.stick]
            /\ \A x : x \in e.flags <=> \/ x \in dev.flags /\ ~(x \in M!Dpad /\ mine(x))
                                        \/ x \in M!Dpad /\ mine(x) /\ ByteValue(map, x, v) > 127
            /\ DOMAIN e.trigger = M!Triggers /\ DOMAIN e.stick = M!Sticks
            /\ e.trigger = [x \in M!Triggers |-> e.trigger[x]] /\ e.stick = [x \in M!Sticks |-> e.stick[x]]
            /\ \A x \in M!Triggers : e.trigger[x] = IF mine(x) THEN ByteValue(map, x, v) ELSE dev.trigger[x]
            /\ \A x \in M!Sticks :
                 \/ e.stick[x] = dev.stick[x] /\ (mine(x) => \E i, j \in DOMAIN M!StickOrder :
                       M!StickOrder[i] = x /\ j < i /\ mine(M!StickOrder[j]))
                 \/ e.stick[x] = StickValue(map, x, v) /\ mine(x)
<1> DEFINE e == M!AbsEvent(code, v)
           mine(x) == map.abs[x] = M!AxisIndex(code)
           first(x) == mine(x) /\ \A i, j \in DOMAIN M!StickOrder :
                         M!StickOrder[i] = x /\ j < i => ~mine(M!StickOrder[j])
           F == (dev.flags \ {x \in M!Dpad : mine(x)}) \cup {x \in M!Dpad : mine(x) /\ ByteValue(map, x, v) > 127}
           T == [x \in M!Triggers |-> IF mine(x) THEN ByteValue(map, x, v) ELSE dev.trigger[x]]
           S == [x \in M!Sticks |-> IF first(x) THEN StickValue(map, x, v) ELSE dev.stick[x]]
<1>1. e = [flags |-> F, trigger |-> T, stick |-> S]
  BY Zenon DEF M!AbsEvent, StickValue, ByteValue
<1>2. \A x : x \in F <=> \/ x \in dev.flags /\ ~(x \in M!Dpad /\ mine(x))
                         \/ x \in M!Dpad /\ mine(x) /\ ByteValue(map, x, v) > 127
  OBVIOUS
<1>3. /\ DOMAIN T = M!Triggers /\ T = [x \in M!Triggers |-> T[x]]
      /\ \A x \in M!Triggers : T[x] = IF mine(x) THEN ByteValue(map, x, v) ELSE dev.trigger[x]
  OBVIOUS
<1>4. /\ DOMAIN S = M!Sticks /\ S = [x \in M!Sticks |-> S[x]]
      /\ \A x \in M!Sticks : S[x] = IF first(x) THEN StickValue(map, x, v) ELSE dev.stick[x]
  OBVIOUS
<1> HIDE DEF e, F, T, S
<1>5. e.flags = F /\ e.trigger = T /\ e.stick = S
  BY <1>1
<1>6. \A x \in M!Sticks :
        \/ S[x] = dev.stick[x] /\ (mine(x) => \E i, j \in DOMAIN M!StickOrder :
              M!StickOrder[i] = x /\ j < i /\ mine(M!StickOrder[j]))
        \/ S[x] = StickValue(map, x, v) /\ mine(x)
  BY <1>4
<1>7. e = [flags |-> e.flags, trigger |-> e.trigger, stick |-> e.stick]
  BY <1>1, <1>5
<1> HIDE DEF first, mine
<1>8. \A x : x \in e.flags <=> \/ x \in dev.flags /\ ~(x \in M!Dpad /\ mine(x))
                               \/ x \in M!Dpad /\ mine(x) /\ ByteValue(map, x, v) > 127
  BY <1>2, <1>5
<1>9. /\ DOMAIN e.trigger = M!Triggers /\ e.trigger = [x \in M!Triggers |-> e.trigger[x]]
      /\ \A x \in M!Triggers : e.trigger[x] = IF mine(x) THEN ByteValue(map, x, v) ELSE dev.trigger[x]
  BY <1>3, <1>5
<1>10. /\ DOMAIN e.stick = M!Sticks /\ e.stick = [x \in M!Sticks |-> e.stick[x]]
       /\ \A x \in M!Sticks :
            \/ e.stick[x] = dev.stick[x] /\ (mine(x) => \E i, j \in DOMAIN M!StickOrder :
                  M!StickOrder[i] = x /\ j < i /\ mine(M!StickOrder[j]))
            \/ e.stick[x] = StickValue(map, x, v) /\ mine(x)
  BY <1>4, <1>5, <1>6
<1> QED BY <1>7, <1>8, <1>9, <1>10, Zenon DEF e, mine

LEMMA PlayAbs ==
  ASSUME MappingInv, NEW c \in M!Controls, NEW p \in M!Positions(c), M!Play(c, p), OnAxis(c)
  PROVE  MappingInv'
<1> DEFINE n == M!AxisIndex(Code(c))
           v == M!Value(c, p)
           mine(x) == map.abs[x] = n
<1>1. /\ pad \in Pads /\ Loaded(map) /\ dev \in DeviceStates /\ hats \in [HatCodes -> {-1, 0, 1}]
      /\ \A x \in M!Controls : x \notin Lost(map) => Heard(x, pos[x], dev)
      /\ Lost(map) = {} => dev.flags \subseteq M!Controls
      /\ \A x \in M!Controls : pos'[x] = IF x = c THEN p ELSE pos[x]
      /\ \A x \in M!Controls : pos'[x] \in M!Positions(x)
  BY PlayFacts
<1>2. /\ ~OnHat(c) /\ ~OnKey(c) /\ c \in M!Axial /\ n \in Nat /\ Sign(c) \in {-1, 1}
  BY <1>1, KindsDiffer, PadFacts
<1>3. p \in {"rest", "half", "full", "back"}
  BY DEF M!Positions
<1>4. hats' = hats /\ dev' = M!AbsEvent(Code(c), v)
  BY DEF M!Play, OnAxis, Code
<1>5. \A x \in M!Controls : OnHat(x) => (hats'[Code(x)] = Sign(x) <=> pos'[x] = "full")
  BY <1>2, <1>4, HatsAsTheyWere
<1>6. AxesLoaded(map) /\ ControlsLoaded(map) /\ TriggersLoaded(map) /\ map \in Mappings
  BY <1>1 DEF Loaded
<1>7. ASSUME NEW x \in M!Axial, mine(x)
      PROVE  \/ x = c
             \/ OnAxis(x) /\ x \in M!Dpad /\ c \in M!Dpad
             \/ x \in M!Triggers /\ x \in Lost(map)
  <2>1. \/ OnAxis(x) /\ map.abs[x] = M!AxisIndex(Code(x))
        \/ x \in M!Triggers /\ x \in Lost(map) /\ OnKey(x)
    BY <1>2, <1>6, <1>7 DEF AxesLoaded
  <2>2. OnAxis(x) /\ map.abs[x] = M!AxisIndex(Code(x)) => x = c \/ (x \in M!Dpad /\ c \in M!Dpad)
    BY <1>1, <1>7, PadFacts
  <2> QED BY <2>1, <2>2
<1>8. /\ \A x \in M!Controls : OnAxis(x) /\ x \in M!Dpad => x \in Lost(map)
      /\ c \notin M!Dpad => mine(c)
      /\ c \in M!Sticks /\ c \notin Lost(map) => (map.reverse[c] <=> Sign(c) # M!Natural(c))
      /\ \A x \in M!Triggers : map.half[x] = ""
  BY <1>6 DEF ControlsLoaded, TriggersLoaded
<1>9. /\ dev' = [flags |-> dev'.flags, trigger |-> dev'.trigger, stick |-> dev'.stick]
      /\ \A x : x \in dev'.flags <=> \/ x \in dev.flags /\ ~(x \in M!Dpad /\ mine(x))
                                     \/ x \in M!Dpad /\ mine(x) /\ ByteValue(map, x, v) > 127
      /\ DOMAIN dev'.trigger = M!Triggers /\ DOMAIN dev'.stick = M!Sticks
      /\ dev'.trigger = [x \in M!Triggers |-> dev'.trigger[x]] /\ dev'.stick = [x \in M!Sticks |-> dev'.stick[x]]
      /\ \A x \in M!Triggers : dev'.trigger[x] = IF mine(x) THEN ByteValue(map, x, v) ELSE dev.trigger[x]
      /\ \A x \in M!Sticks :
           \/ dev'.stick[x] = dev.stick[x] /\ (mine(x) => \E i, j \in DOMAIN M!StickOrder :
                 M!StickOrder[i] = x /\ j < i /\ mine(M!StickOrder[j]))
           \/ dev'.stick[x] = StickValue(map, x, v) /\ mine(x)
  <2> DEFINE e == M!AbsEvent(Code(c), v)
  <2>1. dev' = e
    BY <1>4
  <2>2. /\ e = [flags |-> e.flags, trigger |-> e.trigger, stick |-> e.stick]
        /\ \A x : x \in e.flags <=> \/ x \in dev.flags /\ ~(x \in M!Dpad /\ mine(x))
                                    \/ x \in M!Dpad /\ mine(x) /\ ByteValue(map, x, v) > 127
        /\ DOMAIN e.trigger = M!Triggers /\ DOMAIN e.stick = M!Sticks
        /\ e.trigger = [x \in M!Triggers |-> e.trigger[x]] /\ e.stick = [x \in M!Sticks |-> e.stick[x]]
        /\ \A x \in M!Triggers : e.trigger[x] = IF mine(x) THEN ByteValue(map, x, v) ELSE dev.trigger[x]
        /\ \A x \in M!Sticks :
             \/ e.stick[x] = dev.stick[x] /\ (mine(x) => \E i, j \in DOMAIN M!StickOrder :
                   M!StickOrder[i] = x /\ j < i /\ mine(M!StickOrder[j]))
             \/ e.stick[x] = StickValue(map, x, v) /\ mine(x)
    BY AbsEventFacts
  <2> HIDE DEF e, v, mine
  <2> QED BY <2>1, <2>2
<1>10. ASSUME NEW x \in M!Triggers PROVE dev'.trigger[x] \in 0 .. M!UCHAR_MAX
  <2>1. ByteValue(map, x, v) \in 0 .. M!UCHAR_MAX
    BY <1>1, <1>3, <1>8, TriggerTold
  <2>2. dev.trigger[x] \in 0 .. M!UCHAR_MAX
    BY <1>1 DEF DeviceStates
  <2> HIDE DEF v, mine
  <2> QED BY <1>9, <2>1, <2>2
<1>11. ASSUME NEW x \in M!Sticks PROVE dev'.stick[x] \in M!SHRT_MIN .. M!SHRT_MAX
  <2>1. StickValue(map, x, v) \in M!SHRT_MIN .. M!SHRT_MAX
    BY <1>1, <1>3, <1>6, StickRange
  <2>2. dev.stick[x] \in M!SHRT_MIN .. M!SHRT_MAX
    BY <1>1 DEF DeviceStates
  <2> HIDE DEF v, mine
  <2>3. dev'.stick[x] = dev.stick[x] \/ dev'.stick[x] = StickValue(map, x, v)
    BY <1>9
  <2> QED BY <2>1, <2>2, <2>3
<1> HIDE DEF v, mine
<1>12. dev' \in DeviceStates
  <2>1. dev'.flags \in SUBSET (M!Keyed \ M!Triggers)
    <3>1. dev.flags \subseteq M!Keyed \ M!Triggers
      BY <1>1 DEF DeviceStates
    <3> QED BY <1>9, <3>1, NamesDiffer
  <2>2. dev'.trigger \in [M!Triggers -> 0 .. M!UCHAR_MAX]
    BY <1>9, <1>10
  <2>3. dev'.stick \in [M!Sticks -> M!SHRT_MIN .. M!SHRT_MAX]
    BY <1>9, <1>11
  <2> QED BY <1>9, <2>1, <2>2, <2>3 DEF DeviceStates
<1>13. ASSUME NEW x \in M!Controls, x \notin Lost(map) PROVE Heard(x, pos'[x], dev')
  <2>1. CASE x # c
    <3>1. x \in M!Axial => ~mine(x)
      BY <1>7, <1>8, <1>13, <2>1
    <3>2. Heard(x, pos[x], dev) /\ pos'[x] = pos[x]
      BY <1>1, <1>13, <2>1
    <3>3. M!Sticks \subseteq M!Axial /\ M!Triggers \subseteq M!Axial /\ M!Dpad \subseteq M!Axial
      BY NamesDiffer
    <3>4. x \in M!Sticks => dev'.stick[x] = dev.stick[x]
      BY <1>9, <3>1, <3>3
    <3>5. x \in M!Triggers => dev'.trigger[x] = dev.trigger[x]
      BY <1>9, <3>1, <3>3
    <3>6. x \in dev'.flags <=> x \in dev.flags
      BY <1>9, <3>1, <3>3
    <3> QED BY <3>2, <3>4, <3>5, <3>6, HeardSame
  <2>2. CASE x = c
    <3>1. c \notin M!Dpad /\ mine(c) /\ pos'[c] = p /\ c \notin Lost(map)
      BY <1>1, <1>8, <1>13, <2>2
    <3>2. CASE c \in M!Sticks
      <4>1. dev'.stick[c] = StickValue(map, c, v)
        <5>1. ASSUME NEW i \in DOMAIN M!StickOrder, NEW j \in DOMAIN M!StickOrder,
                     M!StickOrder[i] = c, j < i
              PROVE  ~mine(M!StickOrder[j])
          <6>1. M!StickOrder[j] \in M!Sticks /\ M!StickOrder[j] # c
            BY <5>1, StickPlaces
          <6> QED BY <1>7, <3>1, <6>1, NamesDiffer
        <5>2. \/ dev'.stick[c] = StickValue(map, c, v)
              \/ mine(c) => \E i, j \in DOMAIN M!StickOrder :
                    M!StickOrder[i] = c /\ j < i /\ mine(M!StickOrder[j])
          BY <1>9, <3>2
        <5> QED BY <3>1, <5>1, <5>2
      <4>2. map.reverse[c] <=> Sign(c) # M!Natural(c)
        BY <1>8, <3>1, <3>2
      <4>3. /\ p = "rest" /\ pad.parms.flat > 0 => StickValue(map, c, v) = 0
            /\ p = "full" => StickValue(map, c, v) = M!SHRT_MAX
            /\ p = "back" => StickValue(map, c, v) = M!SHRT_MIN
        BY <1>1, <1>3, <1>6, <3>2, <4>2, StickTold DEF v
      <4> QED BY <2>2, <3>1, <3>2, <4>1, <4>3 DEF Heard
    <3>3. CASE c \in M!Triggers
      <4>1. dev'.trigger[c] = ByteValue(map, c, v)
        BY <1>9, <3>1, <3>3
      <4>2. /\ p = "rest" => ByteValue(map, c, v) = 0
            /\ p = "full" => ByteValue(map, c, v) = M!UCHAR_MAX
        BY <1>1, <1>3, <1>8, <3>3, TriggerTold DEF v
      <4> QED BY <2>2, <3>1, <3>3, <4>1, <4>2, NamesDiffer DEF Heard
    <3> QED BY <1>2, <3>1, <3>2, <3>3, NamesDiffer
  <2> QED BY <2>1, <2>2
<1>14. Lost(map) = {} => dev'.flags \subseteq M!Controls
  <2> SUFFICES ASSUME Lost(map) = {}, NEW x \in dev'.flags PROVE x \in M!Controls
    OBVIOUS
  <2>1. x \in dev.flags \/ (x \in M!Dpad /\ mine(x))
    BY <1>9
  <2>2. x \in M!Dpad /\ mine(x) => x \in M!Controls
    BY <1>7, NamesDiffer DEF OnAxis
  <2> QED BY <1>1, <2>1, <2>2
<1>15. hats' \in [HatCodes -> {-1, 0, 1}]
  BY <1>1, <1>4
<1> QED BY <1>5, <1>12, <1>13, <1>14, <1>15, PlayEnds

LEMMA PlayKeeps ==
  ASSUME MappingInv, NEW c \in M!Controls, NEW p \in M!Positions(c), M!Play(c, p)
  PROVE  MappingInv'
<1>1. OnKey(c) \/ OnHat(c) \/ OnAxis(c)
  BY PadFacts DEF MappingInv
<1> QED BY <1>1, PlayKey, PlayHat, PlayAbs

-----------------------------------------------------------------------------
(* The whole mapping.                                                      *)

LEMMA MappingStep ==
  ASSUME MappingInv, [M!Next]_mappingVars
  PROVE  MappingInv'
<1>1. CASE UNCHANGED mappingVars
  <2>1. /\ pad' = pad /\ source' = source /\ mapPhase' = mapPhase /\ step' = step
        /\ map' = map /\ hats' = hats /\ pos' = pos /\ dev' = dev
    BY <1>1 DEF mappingVars
  <2>2. Going(step', mapPhase', map', pos', hats', dev')
    BY <2>1 DEF MappingInv
  <2>3. pad \in Pads
    BY DEF MappingInv
  <2> QED BY <2>1, <2>2, <2>3, MappingStays
<1>2. ASSUME NEW c \in M!Controls, M!LetGo(c) PROVE MappingInv'
  BY <1>2, LetGoKeeps
<1>3. ASSUME NEW c \in M!Controls, NEW p \in M!Positions(c), M!Answer(c, p) PROVE MappingInv'
  BY <1>3, AnswerKeeps
<1>4. ASSUME NEW c \in M!Controls, NEW p \in M!Positions(c), M!Play(c, p) PROVE MappingInv'
  BY <1>4, PlayKeeps
<1>5. CASE M!Drain
  BY <1>5, DrainKeeps
<1>6. CASE M!Kill
  BY <1>6, KillKeeps
<1>7. M!Next => \/ \E c \in M!Controls : M!LetGo(c) \/ \E p \in M!Positions(c) : M!Answer(c, p) \/ M!Play(c, p)
                \/ M!Drain \/ M!Kill \/ UNCHANGED mappingVars
  BY DEF M!Next, M!vars, mappingVars
<1> QED BY <1>1, <1>2, <1>3, <1>4, <1>5, <1>6, <1>7

LEMMA HostHasAll ==
  ASSUME MappingInv
  PROVE  M!ControlsReachHost
<1>1. M!TypeOK
  <2>1. /\ mapPhase \in {"ask", "drain", "stream", "killed"} /\ source \in {"wizard", "file"}
        /\ step \in DOMAIN Steps /\ pos \in [M!Controls -> {"rest", "half", "full", "back"}]
    BY DEF MappingInv, Going
  <2>2. dev \in DeviceStates
    BY RestFacts DEF MappingInv, Going, Played
  <2> QED BY <2>1, <2>2, StepsFacts DEF M!TypeOK, DeviceStates
<1>2. SUFFICES ASSUME mapPhase = "stream"
               PROVE  LET lost == IF source = "wizard" THEN M!WizardLoses ELSE M!FileLoses IN
                      /\ \A c \in M!Controls \ lost : M!Told(c)
                      /\ lost = {} => M!NothingElse
  BY <1>1 DEF M!ControlsReachHost
<1>3. /\ \A c \in M!Controls : c \notin Lost(map) => Heard(c, pos[c], dev)
      /\ Lost(map) = {} => dev.flags \subseteq M!Controls
  BY <1>2 DEF MappingInv, Going, Played
<1>4. Lost(map) = IF source = "wizard" THEN M!WizardLoses ELSE M!FileLoses
  BY DEF Lost, M!FileLoses
<1>5. \A c : Heard(c, pos[c], dev) => M!Told(c)
  BY NamesDiffer DEF Heard, M!Told
<1> QED BY <1>3, <1>4, <1>5 DEF M!NothingElse

-----------------------------------------------------------------------------
(* Whatever is read.                                                       *)

KeysOrWindow ==
  /\ kind = "keyboards" => KeyInv
  /\ kind = "window" => WindowInv

LEMMA KeysInvariant == InputSpec => []KeysOrWindow
<1>1. InputInit => KeysOrWindow
  BY KeyInit, WindowInit DEF InputInit, KeysOrWindow
<1>2. KeysOrWindow /\ [InputNext]_inputVars => KeysOrWindow'
  <2> SUFFICES ASSUME KeysOrWindow, [InputNext]_inputVars PROVE KeysOrWindow'
    OBVIOUS
  <2>1. kind' = kind /\ (kind = "keyboards" => [K!Next]_keysVars)
        /\ (kind = "window" => [W!Next]_windowVars)
    BY DEF InputNext, inputVars
  <2> QED BY <2>1, KeysStep, WindowStep DEF KeysOrWindow
<1> QED BY <1>1, <1>2, PTL DEF InputSpec

\* Whatever is typed on how many keyboards, the loop ends once the combo was pressed
\* and all keys are up, while no keyboard goes away and no event is lost.
THEOREM ComboAlwaysQuits == InputSpec => []UndisturbedQuits
<1>1. KeysOrWindow => UndisturbedQuits
  BY KeyInvImplies DEF KeysOrWindow, UndisturbedQuits
<1> QED BY <1>1, KeysInvariant, PTL

\* When no key is down here none is down for the host, in the same case, and in a
\* window unless a key was let go elsewhere.
THEOREM HostKeysAlwaysReleased == InputSpec => []HostKeysReleased
<1>1. KeysOrWindow => HostKeysReleased
  BY KeyInvImplies, WindowInvImplies DEF KeysOrWindow, HostKeysReleased
<1> QED BY <1>1, KeysInvariant, PTL

PointersInv ==
  /\ kind = "pointer" => PointerInv
  /\ kind = "window" => WindowPointerInv

\* The host's pointer goes as far as the user's and its button is as the user's, for
\* every way a mouse moves, a finger taps and a window grabs the pointer and puts it
\* back, but for what PointerFollows of each module lists.
THEOREM PointerAlwaysFollows == InputSpec => []PointerReachesHost
<1>1. InputInit => PointersInv
  BY PointerInit, WindowPointerInit DEF InputInit, PointersInv
<1>2. KeysOrWindow /\ PointersInv /\ [InputNext]_inputVars => PointersInv'
  <2> SUFFICES ASSUME KeysOrWindow, PointersInv, [InputNext]_inputVars PROVE PointersInv'
    OBVIOUS
  <2>1. kind' = kind /\ (kind = "pointer" => [P!Next]_pointerVars)
        /\ (kind = "window" => [W!Next]_windowVars)
    BY DEF InputNext, inputVars
  <2> QED BY <2>1, PointerStep, WindowPointerStep DEF KeysOrWindow, PointersInv
<1>3. KeysOrWindow /\ PointersInv => PointerReachesHost
  <2>1. PointerInv => P!PointerFollows
    BY DEF PointerInv, P!PointerFollows
  <2> QED BY <2>1, WindowPointerImplies DEF KeysOrWindow, PointersInv, PointerReachesHost
<1> QED BY <1>1, <1>2, <1>3, KeysInvariant, PTL DEF InputSpec

\* From its dialogue or its file to the stream: whatever the user pushes, holds and lets
\* go (evdev_map, mapping_print, mapping_parse, evdev_handle_event), the host is told of
\* every control what its mapping says and of nothing else, but for what is lost on the way.
THEOREM ControlsAlwaysReachHost == InputSpec => []ControlsReachHost
<1> DEFINE Inv == kind = "mapping" => MappingInv
<1>1. InputInit => Inv
  BY MappingStart DEF InputInit
<1>2. Inv /\ [InputNext]_inputVars => Inv'
  <2> SUFFICES ASSUME Inv, [InputNext]_inputVars, kind' = "mapping" PROVE MappingInv'
    OBVIOUS
  <2>1. kind = "mapping" /\ [M!Next]_mappingVars
    BY DEF InputNext, inputVars
  <2> QED BY <2>1, MappingStep
<1>3. Inv => ControlsReachHost
  BY HostHasAll DEF ControlsReachHost
<1> QED BY <1>1, <1>2, <1>3, PTL DEF InputSpec

=============================================================================
